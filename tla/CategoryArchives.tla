-------------------------- MODULE CategoryArchives --------------------------
(***************************************************************************)
(* Archive categories (internal/cli/archive_categories.go), the replies of *)
(* owners to the stale report (internal/cli/stale_report.go), and what     *)
(* both authorise: verified copies (internal/workspacearchive), their      *)
(* receipts (internal/store/category_archives.go), the local expiry those  *)
(* receipts allow through `janitor cycle`, and the owner's two ways back,  *)
(* an archive restore and a restore from quarantine.                       *)
(*                                                                         *)
(* Every path lies in an archive_only root: nothing but the authority of a *)
(* receipt removes it.  A move to quarantine is a rename and the update of *)
(* its row; CleanupEngine has the other steps of moves and restores.       *)
(***************************************************************************)
EXTENDS Integers, Sequences, FiniteSets, FiniteSetsExt

CONSTANTS
    PolicyFile,         \* what the owner may put in the policy file
    Path,               \* depth-1 directories of the category and report roots
    Version,            \* version of each path, 0 for a path of no versioned_work category
    KeepNewest,         \* keep_newest of a versioned_work category
    Cycle,              \* processes: `janitor cycle`; `janitor archive --categories` is a cycle
                        \* that ends after its category run
    Restorer,           \* processes: `janitor archive --category-item --restore-to`
    NoProc,
    Idle,               \* category and report idle
    LocalRetention,     \* from the creation of an archive to the quarantine
    Retention,          \* from the quarantine to expiry
    MaxItems,           \* max_items_per_cycle
    MaxClock, MaxEvents, MaxArchives    \* bounds: the clock, what the owner and failures do, archives

Proc == Cycle \cup Restorer

ASSUME CategoryAssumption ==
    /\ [active |-> TRUE, keep |-> {}] \in PolicyFile /\ PolicyFile \subseteq [active : BOOLEAN, keep : SUBSET Path]
    /\ IsFiniteSet(Path) /\ Path # {}
    /\ NoProc \notin Proc /\ Cycle \cap Restorer = {}
    /\ Version \in [Path -> Nat] /\ KeepNewest \in Nat \ {0} /\ MaxItems \in Nat \ {0}
    /\ {Idle, LocalRetention} \subseteq Nat /\ Retention \in Nat \ {0}
    /\ {MaxClock, MaxEvents, MaxArchives} \subseteq Nat

MaxMade    == Cardinality(Path) + MaxEvents
MaxReplies == MaxEvents

VARIABLES
    clock,
    tree,       \* what is at each path
    made,       \* contents ever written
    used,       \* paths a live process refers to
    policy,     \* the policy file
    events,     \* bound on what the owner does and on what fails
    \* the store, the archive directory and the quarantine
    replies,    \* report_replies: the newest of each path
    said,       \* sequence of the last reply
    archives,   \* published archives, in the order of their receipts
    away,       \* quarantined trees
    undone,     \* how many archives there were when a tree whose move was recorded was last restored
    \* the processes
    lock,       \* holder of apply.lock
    pc,
    pol,        \* the policy file as the process has it cached
    told,       \* replies as it read them
    todo,       \* selected items
    item,       \* the item being archived, moved or restored
    taken,      \* items of this run
    auth,       \* receipts that authorise local expiry for this cycle
    began,      \* start of a cycle
    pending,    \* a reply observed and not recorded yet
    \* history
    gone,       \* contents deleted at expiry
    copied,     \* the last reply when the copy of the item ended
    heard       \* the last reply when the authority was derived

owner  == <<clock, tree, made, used, policy, events>>
store  == <<replies, said, archives, away, undone>>
locals == <<pol, told, todo, item, taken, auth, began, copied, heard>>
vars   == <<owner, store, lock, pc, locals, pending, gone>>

NoPolicy == [active |-> FALSE, keep |-> {}]
NoTree  == [made |-> 0, newest |-> 0]
Trees   == [made : 0..MaxMade, newest : 0..MaxClock]
NoReply == [kind |-> "none", seq |-> 0, newest |-> 0, until |-> 0]
Replies == [kind : {"none", "keep", "release"}, seq : 0..MaxReplies, newest : 0..MaxClock,
            until : 0..MaxClock + 1]
\* A policy: the categories configured, with report.release_action archive, and its KEEP
\* records and protections.
\* release: the sequence of the reply it was archived under, 0 for a category.
Archive == [path : Path, made : 1..MaxMade, newest : 0..MaxClock, created : 0..MaxClock,
            release : 0..MaxReplies, complete : BOOLEAN, recorded : BOOLEAN, withdrawn : BOOLEAN]
AnyPath == CHOOSE x \in Path : TRUE
Items   == [path : Path, newest : 0..MaxClock, release : 0..MaxReplies, tree : Trees,
            receipt : 0..MaxArchives]
NoItem  == [path |-> AnyPath, newest |-> 0, release |-> 0, tree |-> NoTree, receipt |-> 0]
\* state: that of its cleanup row; moved_at is set once the move is recorded.
Away    == [made : 0..MaxMade, newest : 0..MaxClock, at : 0..MaxClock, back : 0..MaxArchives,
            state : {"none", "prepared", "quarantined", "investigate"}]
NotAway == [made |-> 0, newest |-> 0, at |-> 0, back |-> 0, state |-> "none"]

Locked  == {"read", "observe", "inspect", "copy", "recheck", "publish", "manifest", "record",
            "quarantine", "move", "finish", "expire", "withdraw", "extract"}
Steps   == Locked \cup {"idle", "lock", "load", "apply", "expiry"}

TypeOK ==
    /\ clock \in 0..MaxClock /\ tree \in [Path -> Trees] /\ made \in 0..MaxMade
    /\ used \subseteq Path /\ events \in 0..MaxEvents /\ policy \in PolicyFile
    /\ replies \in [Path -> Replies] /\ said \in 0..MaxReplies
    /\ archives \in Seq(Archive) /\ Len(archives) <= MaxArchives
    /\ away \in [Path -> Away]
    /\ undone \in [Path -> 0..MaxArchives]
    /\ lock \in Proc \cup {NoProc} /\ pc \in [Proc -> Steps]
    /\ \A p \in Proc : lock = p <=> pc[p] \in Locked
    /\ pol \in [Proc -> PolicyFile \cup {NoPolicy}] /\ told \in [Proc -> [Path -> Replies]]
    /\ todo \in [Proc -> SUBSET Items] /\ item \in [Proc -> Items] /\ taken \in [Proc -> 0..MaxItems]
    /\ auth \in [Proc -> SUBSET (1..MaxArchives)] /\ began \in [Proc -> 0..MaxClock]
    /\ pending \subseteq [path : Path, kind : {"keep", "release"}, newest : 0..MaxClock, until : 0..MaxClock + 1]
    /\ gone \subseteq [path : Path, made : 1..MaxMade]
    /\ copied \in [Proc -> 0..MaxReplies] /\ heard \in [Proc -> 0..MaxReplies]

-----------------------------------------------------------------------------
(* Receipts, replies and the authority they give. *)

Present(x) == tree[x] # NoTree

Receipts(x) == {i \in DOMAIN archives : archives[i].recorded /\ archives[i].path = x}
\* store.CategoryArchives: the newest receipt of each path.
Active == {i \in DOMAIN archives : i \in Receipts(archives[i].path)
                                   /\ \A j \in Receipts(archives[i].path) : j <= i}

\* CategoryArchive.Unchanged: the timestamps only, an unknown one being 0.
Unchanged(i, newest) == newest <= archives[i].newest

\* activeKeeps, without looking at the item; until is 0 for a keep without end.
Kept(r) == r.kind = "keep" /\ (r.until = 0 \/ clock < r.until)

\* versionedRetention, from the directories there now.
AmongNewest(x) ==
    /\ Version[x] > 0
    /\ Cardinality({Version[y] : y \in {y \in Path : Present(y) /\ Version[y] > Version[x]}}) < KeepNewest

\* A tree whose move was recorded, restored after the archive was created.  Both hold apply.lock, so the
\* order of the two is the order of the archive and the restore.
RestoredByOwner(i) == i <= undone[archives[i].path]

\* The last archive of x the owner had brought a tree back from, or after.
BroughtBack(x) ==
    Max({0, undone[x]} \cup {i \in DOMAIN archives : archives[i].path = x /\ archives[i].withdrawn})

\* A release takes its item out of any category, and has no versions.
MayLeave(i) == archives[i].release # 0 \/ ~AmongNewest(archives[i].path)

\* activeCategoryRule: does the receipt still carry local expiry authority?
Mut_activeCategoryRule(pl, i) ==
    pl.active /\ ~RestoredByOwner(i) /\ archives[i].path \notin pl.keep /\ MayLeave(i)
activeCategoryRule(pl, i) ==
    /\ pl.active /\ ~RestoredByOwner(i) /\ ~archives[i].withdrawn
    /\ archives[i].path \notin pl.keep /\ MayLeave(i)

\* withCategoryArchives.
Mut_Authority(pl) == {i \in Active : activeCategoryRule(pl, i)}
Authority(pl) == {i \in Active : ~Kept(replies[archives[i].path]) /\ activeCategoryRule(pl, i)}

ScanTree(x)   == tree[x]
Referenced(x) == x \in used

\* Bind: the pinned archive is whole, its members are exactly those of the local tree, and
\* no process refers to the tree.
Whole(i) == archives[i].complete
Mut_SameMembers(i, t) == archives[i].newest = t.newest
SameMembers(i, t)     == archives[i].newest = t.newest /\ archives[i].made = t.made
Binds(i, t) == Whole(i) /\ SameMembers(i, t) /\ ~Referenced(archives[i].path)

-----------------------------------------------------------------------------
(* The owner, the clock and the policy file. *)

Happens == events < MaxEvents /\ events' = events + 1

\* A cycle ends before what it moves can expire.
Tick ==
    /\ clock < MaxClock
    /\ \A p \in Cycle : pc[p] # "idle" => clock + 1 < began[p] + Retention
    /\ clock' = clock + 1
    /\ UNCHANGED <<tree, made, used, policy, events, store, lock, pc, locals, pending, gone>>

\* The owner writes new contents, perhaps with an old timestamp, or removes the tree.
Write(x) ==
    /\ Happens /\ made' = made + 1
    /\ \E t \in 0..clock : tree' = [tree EXCEPT ![x] = [made |-> made + 1, newest |-> t]]
    /\ UNCHANGED <<clock, used, policy, store, lock, pc, locals, pending, gone>>
Remove(x) ==
    /\ Happens /\ Present(x) /\ tree' = [tree EXCEPT ![x] = NoTree]
    /\ UNCHANGED <<clock, made, used, policy, store, lock, pc, locals, pending, gone>>
Use(x) ==
    /\ Happens /\ used' = IF x \in used THEN used \ {x} ELSE used \cup {x}
    /\ UNCHANGED <<clock, tree, made, policy, store, lock, pc, locals, pending, gone>>

\* The category is configured or withdrawn, or a KEEP or protection is added or removed.
EditPolicy ==
    /\ Happens /\ policy' \in PolicyFile \ {policy}
    /\ UNCHANGED <<clock, tree, made, used, store, lock, pc, locals, pending, gone>>

-----------------------------------------------------------------------------
(* `janitor report release` and `janitor report keep`, without the apply lock. *)

\* observeStale: what makes x a current entry of the report.
Stale(x) ==
    /\ Present(x) /\ ~Referenced(x) /\ x \notin policy.keep
    /\ tree[x].newest + Idle <= clock
    /\ ~\E i \in Active : /\ archives[i].path = x /\ archives[i].release = 0
                          /\ Unchanged(i, tree[x].newest) /\ activeCategoryRule(policy, i)

\* replyable: one fresh observation; then one transaction.
ObserveReply(x) ==
    /\ pending = {} /\ Happens /\ Stale(x)
    /\ \E k \in {"keep", "release"}, u \in {0, clock + 1} :
          /\ k = "release" => u = 0
          /\ pending' = {[path |-> x, kind |-> k, newest |-> tree[x].newest, until |-> u]}
    /\ UNCHANGED <<clock, tree, made, used, policy, store, lock, pc, locals, gone>>
RecordReply ==
    /\ \E r \in pending :
          /\ said' = said + 1
          /\ replies' = [replies EXCEPT ![r.path] = [kind |-> r.kind, seq |-> said + 1,
                                                    newest |-> r.newest, until |-> r.until]]
    /\ pending' = {}
    /\ UNCHANGED <<owner, archives, away, undone, lock, pc, locals, gone>>

-----------------------------------------------------------------------------
(* archiveCategories, by a cycle or by hand. *)

At(p, l) == pc[p] = l
Goto(p, l) == pc' = [pc EXCEPT ![p] = l]
Unlock(p) == lock' = IF lock = p THEN NoProc ELSE lock

\* What a process forgets when its category run, or the process, ends.
ForgetRun(p) ==
    /\ told' = [told EXCEPT ![p] = [x \in Path |-> NoReply]] /\ todo' = [todo EXCEPT ![p] = {}]
    /\ item' = [item EXCEPT ![p] = NoItem] /\ taken' = [taken EXCEPT ![p] = 0]
    /\ copied' = [copied EXCEPT ![p] = 0]
Forget(p) ==
    /\ ForgetRun(p) /\ auth' = [auth EXCEPT ![p] = {}] /\ heard' = [heard EXCEPT ![p] = 0]
    /\ pol' = [pol EXCEPT ![p] = NoPolicy] /\ began' = [began EXCEPT ![p] = 0]

\* The policy file is read and cached; without the lock, or without categories, the
\* cycle goes on.
Start(p) ==
    /\ At(p, "idle")
    /\ \/ lock = NoProc /\ lock' = p /\ Goto(p, "read")
       \/ Goto(p, "load") /\ UNCHANGED lock
    /\ pol' = [pol EXCEPT ![p] = policy] /\ began' = [began EXCEPT ![p] = clock]
    /\ UNCHANGED <<owner, store, told, todo, item, taken, auth, copied, heard, pending, gone>>
ReadReplies(p) ==
    /\ At(p, "read") /\ told' = [told EXCEPT ![p] = replies] /\ Goto(p, "observe")
    /\ UNCHANGED <<owner, store, lock, pol, todo, item, taken, auth, began, copied, heard, pending, gone>>

\* Selection: a release takes the item out of any category, and is void once the item changed.
Released(p, x) == told[p][x].kind = "release"
Void(p, x) == told[p][x].newest # tree[x].newest
Selectable(p, x) ==
    /\ Present(x) /\ pol[p].active
    /\ IF Released(p, x) THEN ~Void(p, x) ELSE ~AmongNewest(x)
    /\ ~\E i \in Active : archives[i].path = x /\ Unchanged(i, tree[x].newest)
    /\ ~Kept(told[p][x])
    /\ ~Referenced(x) /\ x \notin pol[p].keep /\ tree[x].newest + Idle <= clock

Observe(p) ==
    /\ At(p, "observe") /\ Goto(p, "inspect")
    /\ todo' = [todo EXCEPT ![p] =
          {[NoItem EXCEPT !.path = x, !.newest = tree[x].newest,
                          !.release = IF Released(p, x) THEN told[p][x].seq ELSE 0] :
              x \in {x \in Path : Selectable(p, x)}}]
    /\ UNCHANGED <<owner, store, lock, pol, told, item, taken, auth, began, copied, heard, pending, gone>>

\* categoryPreflight with releaseStillEffective: the policy file and the replies read again.
Mut_Preflight(p, i) == policy.active /\ i.path \notin policy.keep
Preflight(p, i) ==
    /\ policy.active /\ i.path \notin policy.keep
    /\ i.release # 0 => replies[i.path].seq = i.release

\* Oldest first, MaxItems at most; then Inspect, and Create's own preflight and inspection.
Oldest(p, i) == \A j \in todo[p] : i.newest <= j.newest
Inspect(p) ==
    /\ At(p, "inspect") /\ taken[p] < MaxItems
    /\ \E i \in todo[p] :
          /\ Oldest(p, i)
          /\ todo' = [todo EXCEPT ![p] = @ \ {i}] /\ taken' = [taken EXCEPT ![p] = @ + 1]
          /\ IF Present(i.path) /\ ~Referenced(i.path) /\ Preflight(p, i)
             THEN item' = [item EXCEPT ![p] = [i EXCEPT !.tree = ScanTree(i.path)]] /\ Goto(p, "copy")
             ELSE UNCHANGED <<item, pc>>
    /\ UNCHANGED <<owner, store, lock, pol, told, auth, began, copied, heard, pending, gone>>
RunEnds(p) ==
    /\ At(p, "inspect") /\ (todo[p] = {} \/ taken[p] = MaxItems)
    /\ Goto(p, "load") /\ Unlock(p) /\ ForgetRun(p)
    /\ UNCHANGED <<owner, store, pol, auth, began, heard, pending, gone>>

\* An item that fails is reported; the run goes on with the next one.
Fails(p) ==
    /\ pc[p] \in {"copy", "recheck", "publish", "manifest", "record"} /\ Goto(p, "inspect")
    /\ item' = [item EXCEPT ![p] = NoItem] /\ copied' = [copied EXCEPT ![p] = 0]
    /\ UNCHANGED <<owner, store, lock, pol, told, todo, taken, auth, began, heard, pending, gone>>

\* Every member is read with the state it was recorded in, and the copy read back.
MembersUnchanged(p) == ScanTree(item[p].path) = item[p].tree
Copy(p) ==
    /\ At(p, "copy") /\ MembersUnchanged(p)
    /\ copied' = [copied EXCEPT ![p] = said] /\ Goto(p, "recheck")
    /\ UNCHANGED <<owner, store, lock, pol, told, todo, item, taken, auth, began, heard, pending, gone>>
Recheck(p) ==
    /\ At(p, "recheck") /\ Preflight(p, item[p]) /\ Goto(p, "publish")
    /\ UNCHANGED <<owner, store, lock, locals, pending, gone>>
Fresh(p) == MembersUnchanged(p) /\ ~Referenced(item[p].path)
\* The tar under a name of this run; the manifest last; then the receipt.
Publish(p) ==
    /\ At(p, "publish") /\ Fresh(p) /\ Len(archives) < MaxArchives
    /\ archives' = Append(archives,
          [path |-> item[p].path, made |-> item[p].tree.made, newest |-> item[p].tree.newest,
           created |-> clock, release |-> item[p].release,
           complete |-> FALSE, recorded |-> FALSE, withdrawn |-> FALSE])
    /\ Goto(p, "manifest")
    /\ UNCHANGED <<owner, replies, said, away, undone, lock, locals, pending, gone>>
Manifest(p) ==
    /\ At(p, "manifest") /\ archives' = [archives EXCEPT ![Len(archives)].complete = TRUE]
    /\ Goto(p, "record")
    /\ UNCHANGED <<owner, replies, said, away, undone, lock, locals, pending, gone>>
Record(p) ==
    /\ At(p, "record") /\ archives' = [archives EXCEPT ![Len(archives)].recorded = TRUE]
    /\ Goto(p, "inspect") /\ item' = [item EXCEPT ![p] = NoItem] /\ copied' = [copied EXCEPT ![p] = 0]
    /\ UNCHANGED <<owner, replies, said, away, undone, lock, pol, told, todo, taken, auth, began, heard,
                   pending, gone>>

-----------------------------------------------------------------------------
(* The rest of the cycle: quarantine and expiry on the authority derived once. *)

\* The receipts and replies are read again; the policy file is the one of the start.
Load(p) ==
    /\ At(p, "load") /\ Goto(p, "apply")
    /\ auth' = [auth EXCEPT ![p] = Authority(pol[p])] /\ heard' = [heard EXCEPT ![p] = said]
    /\ UNCHANGED <<owner, store, lock, pol, told, todo, item, taken, began, copied, pending, gone>>
TakesLock(p) ==
    /\ lock = NoProc /\ lock' = p
    /\ \/ At(p, "apply") /\ Goto(p, "quarantine")
       \/ At(p, "expiry") /\ Goto(p, "expire")
    /\ UNCHANGED <<owner, store, locals, pending, gone>>

\* Revalidation of one target, with the archive re-read and bound; then the move.
Eligible(p, i, t) ==
    /\ i \in auth[p] /\ Binds(i, t)
    /\ archives[i].created + LocalRetention <= clock
Revalidate(p) ==
    /\ At(p, "quarantine") /\ Goto(p, "move")
    /\ \E i \in auth[p] :
          /\ Present(archives[i].path) /\ Eligible(p, i, tree[archives[i].path])
          /\ away[archives[i].path] = NotAway
          /\ item' = [item EXCEPT ![p] = [NoItem EXCEPT !.path = archives[i].path, !.receipt = i]]
    /\ UNCHANGED <<owner, store, lock, pol, told, todo, taken, auth, began, copied, heard, pending, gone>>
\* What is at the path by then is renamed.
Move(p) ==
    LET x == item[p].path IN
    /\ At(p, "move")
    /\ IF Present(x)
       THEN /\ away' = [away EXCEPT ![x] = [made |-> tree[x].made, newest |-> tree[x].newest, at |-> clock,
                                            back |-> BroughtBack(x), state |-> "prepared"]]
            /\ tree' = [tree EXCEPT ![x] = NoTree]
            /\ Goto(p, "finish") /\ UNCHANGED item
       ELSE /\ Goto(p, "quarantine") /\ item' = [item EXCEPT ![p] = NoItem]
            /\ UNCHANGED <<away, tree>>
    /\ UNCHANGED <<clock, made, used, policy, events, replies, said, archives, undone, lock, pol, told, todo,
                   taken, auth, began, copied, heard, pending, gone>>
\* finishMove: the moved tree is looked at and its row gets moved_at, or the row stays as it was.
FinishMove(p) ==
    LET x == item[p].path IN
    /\ At(p, "finish") /\ Goto(p, "quarantine") /\ item' = [item EXCEPT ![p] = NoItem]
    /\ \/ ~Present(x) /\ away' = [away EXCEPT ![x].state = "quarantined", ![x].at = clock]
       \/ UNCHANGED away
    /\ UNCHANGED <<owner, replies, said, archives, undone, lock, pol, told, todo, taken, auth, began, copied,
                   heard, pending, gone>>
\* The apply ends or fails, or could not take the lock; expiry comes next, then the end.
Applied(p) ==
    /\ pc[p] \in {"apply", "quarantine"} /\ Goto(p, "expiry") /\ Unlock(p)
    /\ UNCHANGED <<owner, store, locals, pending, gone>>

\* Engine.Eligible: the quarantined tree is bound again, by the cycle's authority.
Expires(p, i) ==
    LET x == archives[i].path IN
    /\ away[x].state = "quarantined" /\ away[x].at + Retention <= clock
    /\ Eligible(p, i, [made |-> away[x].made, newest |-> away[x].newest])
Expire(p) ==
    /\ At(p, "expire")
    /\ \E i \in auth[p] :
          LET x == archives[i].path IN
          /\ Expires(p, i)
          /\ gone' = gone \cup {[path |-> x, made |-> away[x].made]}
          /\ away' = [away EXCEPT ![x] = NotAway]
    /\ UNCHANGED <<owner, replies, said, archives, undone, lock, pc, locals, pending>>
CycleEnds(p) ==
    /\ pc[p] \in {"expiry", "expire"} /\ Goto(p, "idle") /\ Unlock(p) /\ Forget(p)
    /\ UNCHANGED <<owner, store, pending, gone>>

-----------------------------------------------------------------------------
(* The owner's ways back. *)

\* Reconcile: a prepared row of a moved tree is finished, or goes to investigation without
\* a moved_at; the other rows stay as they are.
Reconciled(x) ==
    CASE away[x].state # "prepared" -> {away[x].state}
      [] Present(x)                 -> {"investigate"}
      [] OTHER                      -> {"quarantined", "investigate"}

\* `janitor apply` of the same plan takes up an interrupted move.
Resume(x) ==
    /\ Happens /\ lock = NoProc /\ away[x].state = "prepared"
    /\ \E s \in Reconciled(x) : away' = [away EXCEPT ![x].state = s, ![x].at = clock]
    /\ UNCHANGED <<clock, tree, made, used, policy, replies, said, archives, undone, lock, pc, locals,
                   pending, gone>>

\* `janitor restore` of a tree in quarantine, to a free path: it counts as the owner's undo
\* when its row has a moved_at.
Undo(x) ==
    /\ Happens /\ lock = NoProc /\ away[x] # NotAway /\ ~Present(x)
    /\ tree' = [tree EXCEPT ![x] = [made |-> away[x].made, newest |-> away[x].newest]]
    /\ away' = [away EXCEPT ![x] = NotAway]
    /\ \E s \in Reconciled(x) :
          undone' = IF s = "quarantined" THEN [undone EXCEPT ![x] = Len(archives)] ELSE undone
    /\ UNCHANGED <<clock, made, used, policy, replies, said, archives, lock, pc, locals, pending, gone>>

\* runCategoryItemRestore: the newest receipt, read and verified before the lock.
FindReceipt(p, i) ==
    /\ Happens /\ At(p, "idle") /\ i \in Active /\ Goto(p, "lock")
    /\ item' = [item EXCEPT ![p] = [NoItem EXCEPT !.path = archives[i].path, !.receipt = i]]
    /\ UNCHANGED <<clock, tree, made, used, policy, store, lock, pol, told, todo, taken, auth, began,
                   copied, heard, pending, gone>>
RestoreLocks(p) ==
    /\ At(p, "lock") /\ lock = NoProc /\ lock' = p /\ Goto(p, "withdraw")
    /\ UNCHANGED <<owner, store, locals, pending, gone>>
Withdraw(p) ==
    /\ At(p, "withdraw") /\ Goto(p, "extract")
    /\ archives' = [archives EXCEPT ![item[p].receipt].withdrawn = TRUE]
    /\ UNCHANGED <<owner, replies, said, away, undone, lock, locals, pending, gone>>
\* Into a free destination, with the archived timestamps.
Extract(p) ==
    LET a == archives[item[p].receipt] IN
    /\ At(p, "extract") /\ ~Present(a.path)
    /\ tree' = [tree EXCEPT ![a.path] = [made |-> a.made, newest |-> a.newest]]
    /\ Goto(p, "idle") /\ Unlock(p) /\ Forget(p)
    /\ UNCHANGED <<clock, made, used, policy, events, store, pending, gone>>

\* Any process may fail for good, or die; the kernel drops its lock.
Dies(p) ==
    /\ Happens /\ ~At(p, "idle") /\ Goto(p, "idle") /\ Unlock(p) /\ Forget(p)
    /\ UNCHANGED <<clock, tree, made, used, policy, store, pending, gone>>

-----------------------------------------------------------------------------
ArchiveStep(p) ==
    \/ Start(p) \/ ReadReplies(p) \/ Observe(p) \/ Inspect(p) \/ RunEnds(p)
    \/ Fails(p) \/ Copy(p) \/ Recheck(p) \/ Publish(p) \/ Manifest(p) \/ Record(p)
CycleStep(p) ==
    \/ Load(p) \/ TakesLock(p) \/ Revalidate(p) \/ Move(p) \/ FinishMove(p) \/ Applied(p) \/ Expire(p) \/ CycleEnds(p)
RestoreStep(p) ==
    (\E i \in DOMAIN archives : FindReceipt(p, i)) \/ RestoreLocks(p) \/ Withdraw(p) \/ Extract(p)

Init ==
    /\ clock = 0 /\ made = Cardinality(Path) /\ used = {} /\ events = 0 /\ policy = [active |-> TRUE, keep |-> {}]
    /\ tree \in {t \in [Path -> [made : 1..made, newest : {0}]] :
                    \A x, y \in Path : x # y => t[x].made # t[y].made}
    /\ replies = [x \in Path |-> NoReply] /\ said = 0 /\ archives = <<>>
    /\ away = [x \in Path |-> NotAway] /\ undone = [x \in Path |-> 0]
    /\ lock = NoProc /\ pc = [p \in Proc |-> "idle"]
    /\ pol = [p \in Proc |-> NoPolicy]
    /\ told = [p \in Proc |-> [x \in Path |-> NoReply]] /\ todo = [p \in Proc |-> {}]
    /\ item = [p \in Proc |-> NoItem] /\ taken = [p \in Proc |-> 0] /\ auth = [p \in Proc |-> {}]
    /\ began = [p \in Proc |-> 0] /\ pending = {} /\ gone = {}
    /\ copied = [p \in Proc |-> 0] /\ heard = [p \in Proc |-> 0]

Next ==
    \/ Tick \/ EditPolicy \/ RecordReply
    \/ \E x \in Path : Write(x) \/ Remove(x) \/ Use(x) \/ ObserveReply(x) \/ Resume(x) \/ Undo(x)
    \/ \E p \in Cycle : ArchiveStep(p) \/ CycleStep(p)
    \/ \E p \in Restorer : RestoreStep(p)
    \/ \E p \in Proc : Dies(p)

Spec == Init /\ [][Next]_vars

-----------------------------------------------------------------------------
\* Whatever expiry deletes is in a published archive with a receipt, although the owner
\* may write between the binding and the move, give contents old timestamps, and archives
\* may be cut short by a crash (bind_linux.go:33-110, archive_categories.go:620-640).
DeletedIsArchived ==
    \A g \in gone : \E i \in DOMAIN archives :
        archives[i].path = g.path /\ archives[i].made = g.made /\ archives[i].complete /\ archives[i].recorded

\* What the owner has brought back, from its archive or from a quarantine whose move was
\* recorded, is never deleted until it is archived anew (category_archives.go:158-164,
\* workspace_archive.go:121-131); a restore of a move that nobody recorded counts for nothing.
Deletes(x) == \E m \in 1..MaxMade : [path |-> x, made |-> m] \in gone' \ gone
RestoredIsNotDeleted ==
    [][\A x \in Path : Deletes(x) =>
          \E i \in DOMAIN archives : /\ archives[i].path = x /\ archives[i].made = away[x].made
                                     /\ archives[i].recorded /\ i > away[x].back]_vars

\* A keep in force when the cycle derived its authority holds the item through its
\* quarantine and its expiry, whatever the item or the policy became meanwhile
\* (archive_categories.go:80-95, stale_report.go:299-318).
Moves(p, x) == At(p, "move") /\ item[p].path = x /\ away'[x] # away[x] /\ away'[x] # NotAway
KeepIsHonoured ==
    [][\A x \in Path :
          Kept(replies[x]) /\ (Deletes(x) \/ \E p \in Cycle : Moves(p, x)) =>
              \E p \in Cycle : lock = p /\ replies[x].seq > heard[p]]_vars

\* An archive is not published under a release that was superseded before its copy ended
\* (stale_report.go:334-349).
SupersededIsNotArchived ==
    [][\A p \in Cycle :
          At(p, "publish") /\ archives' # archives /\ item[p].release # 0 =>
              LET r == replies[item[p].path] IN r.seq = item[p].release \/ r.seq > copied[p]]_vars

=============================================================================
