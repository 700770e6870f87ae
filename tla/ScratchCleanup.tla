--------------------------- MODULE ScratchCleanup ---------------------------
(***************************************************************************)
(* Scratch cleanup of one directory such as /tmp (internal/cli/scratch.go, *)
(* internal/workspacearchive/scratch_linux.go) with its receipts           *)
(* (internal/store/scratch_cleanup.go): full sweeps by `janitor cycle` and *)
(* `janitor scratch`, regenerable-only passes by the watcher, and          *)
(* `janitor scratch restore`.                                              *)
(*                                                                         *)
(* Every ctime and every write of the owner is later than any time at      *)
(* which an entry was found idle, so the newest change of an entry tells   *)
(* its contents apart; inode numbers are reused at once, which makes the   *)
(* identity checks pass whenever the path holds something.                 *)
(***************************************************************************)
EXTENDS Integers, FiniteSets

CONSTANTS
    Name,                   \* depth-1 entries of the directory
    Cycle, Watcher, Hand,   \* processes: cycles, watchers, `janitor scratch`
    Restorer,               \* processes: `janitor scratch restore`
    NoProc,
    Every,                  \* cadence of full sweeps and regenerable passes
    Idles,                  \* values the owner may give to idle
    RegenerableIdle,        \* regenerable_idle
    MaxClock, MaxEvents     \* bounds: the clock, what the owner does

Proc == Cycle \cup Watcher \cup Hand \cup Restorer

\* What the policy says of an entry: archive it first, delete it without an
\* archive, leave it (skip, protect.paths, a KEEP record), or leave it for a
\* sensitive name inside.
Class == {"archive", "regenerable", "keep", "sensitive"}
Left  == {"keep", "sensitive"}

ASSUME ConstantsAssumption ==
    /\ NoProc \notin Proc /\ Name # {}
    /\ Every \in [{"full", "regenerable"} -> Nat \ {0}]
    /\ Idles \subseteq Nat \ {0} /\ Idles # {} /\ RegenerableIdle \in Nat \ {0}
    /\ MaxClock \in Nat /\ MaxEvents \in Nat

VARIABLES
    clock,
    entry,      \* what is at each name
    inUse,      \* names a process uses
    policy,     \* the policy file
    \* the store and the archive directory
    saved,      \* published archives: contents of entries
    runs,       \* scratch_runs
    receipts,   \* scratch_deletions
    \* the processes
    lock,       \* holder of apply.lock
    pc,
    pol, latest,\* the policy a process started with, and the one reloaded
    start,      \* the start of its run
    used,       \* names it found in use
    todo,       \* names still to visit
    sel,        \* selected entries, as observed
    unsaved,    \* selected names to be deleted without an archive
    cur,        \* the name being deleted or restored
    \* history, and the bound on the owner
    checked,    \* when cur was checked for the last time
    gone,       \* contents that passed that check and were deleted
    events

machine == <<clock, entry, inUse, policy, events>>
store   == <<saved, runs, receipts>>
locals  == <<pol, latest, start, used, todo, sel, unsaved, cur, checked>>
vars    == <<machine, store, lock, pc, locals, gone>>

\* made: the contents; top: ctime of the entry itself; newest: the newest
\* mtime or ctime of any member.
Times   == -1..MaxClock
Entries == [made : Times, top : Times, newest : Times]
NoEntry == [made |-> -1, top |-> -1, newest |-> -1]
AnyName == CHOOSE n \in Name : TRUE

Policies == [class : [Name -> Class], idle : Idles, active : BOOLEAN, edits : 0..MaxEvents]
Run      == [kind : {"full", "regenerable"}, start : Times, entries : SUBSET (Name \X Times)]

Working == {"refs", "select", "copy", "publish", "record", "recheck", "reload",
            "check", "stat", "unlink", "receipt", "extract"}

TypeOK ==
    /\ clock \in 0..MaxClock /\ events \in 0..MaxEvents
    /\ entry \in [Name -> Entries] /\ inUse \subseteq Name /\ policy \in Policies
    /\ saved \subseteq Name \X Times /\ runs \subseteq Run /\ receipts \subseteq Name \X Times
    /\ pc \in [Proc -> Working \cup {"idle", "due", "begin", "lock"}]
    /\ lock \in Proc \cup {NoProc}
    /\ \A p \in Proc : lock = p <=> pc[p] \in Working
    /\ pol \in [Proc -> Policies] /\ latest \in [Proc -> Policies]
    /\ start \in [Proc -> Times] /\ used \in [Proc -> SUBSET Name]
    /\ todo \in [Proc -> SUBSET Name] /\ sel \in [Proc -> [Name -> Entries]]
    /\ unsaved \in [Proc -> SUBSET Name] /\ cur \in [Proc -> Name]
    /\ checked \in [Proc -> Times] /\ gone \subseteq [name : Name, made : Times, archived : BOOLEAN]

Init ==
    /\ clock = 0 /\ events = 0 /\ inUse = {}
    /\ entry = [n \in Name |-> [made |-> 0, top |-> 0, newest |-> 0]]
    /\ policy \in {[class |-> c, idle |-> i, active |-> TRUE, edits |-> 0] :
                      c \in [Name -> Class], i \in Idles}
    /\ saved = {} /\ runs = {} /\ receipts = {} /\ gone = {}
    /\ lock = NoProc /\ pc = [p \in Proc |-> "idle"]
    /\ pol = [p \in Proc |-> policy] /\ latest = pol
    /\ start = [p \in Proc |-> -1] /\ used = [p \in Proc |-> {}] /\ todo = used
    /\ sel = [p \in Proc |-> [n \in Name |-> NoEntry]] /\ unsaved = used
    /\ cur = [p \in Proc |-> AnyName] /\ checked = [p \in Proc |-> -1]

-----------------------------------------------------------------------------
Kind(p) == IF p \in Watcher THEN "regenerable" ELSE "full"

IdleFor(pl, n) == IF pl.class[n] = "regenerable" THEN RegenerableIdle ELSE pl.idle

\* Observe: the newest mtime or ctime anywhere in the entry.
Mut_Newest(e) == e.made
Newest(e) == e.newest

Selected(p)   == {n \in Name : sel[p][n] # NoEntry}
ToArchive(p)  == Selected(p) \ unsaved[p]
Contents(p)   == {<<n, sel[p][n].made>> : n \in ToArchive(p)}
Unchanged(p, n) == entry[n] = sel[p][n]

At(p, l)   == pc[p] = l
Goto(p, l) == pc' = [pc EXCEPT ![p] = l]

\* A watcher goes on with the policy it started with; a cycle or a command ends.
Rest(p) == IF p \in Watcher THEN "due" ELSE "idle"

\* Locals of a process that holds no lock are of no use to it.
Forget(p) ==
    /\ used' = [used EXCEPT ![p] = {}] /\ todo' = [todo EXCEPT ![p] = {}]
    /\ sel' = [sel EXCEPT ![p] = [n \in Name |-> NoEntry]]
    /\ unsaved' = [unsaved EXCEPT ![p] = {}] /\ cur' = [cur EXCEPT ![p] = AnyName]
    /\ checked' = [checked EXCEPT ![p] = -1] /\ start' = [start EXCEPT ![p] = -1]
    /\ latest' = [latest EXCEPT ![p] = pol[p]]

Load(p) ==
    /\ p \notin Restorer /\ At(p, "idle") /\ policy.active
    /\ pol' = [pol EXCEPT ![p] = policy] /\ latest' = [latest EXCEPT ![p] = policy]
    /\ Goto(p, IF p \in Hand THEN "begin" ELSE "due")
    /\ UNCHANGED <<machine, store, lock, start, used, todo, sel, unsaved, cur, checked, gone>>

\* scratchDue and the watcher's own check: against the last run of that kind.
IsDue(k) == \A r \in runs : r.kind = k => r.start + Every[k] <= clock
Due(p) ==
    /\ At(p, "due")
    /\ IF IsDue(Kind(p)) THEN Goto(p, "begin") ELSE p \in Cycle /\ Goto(p, "idle")
    /\ UNCHANGED <<machine, store, lock, locals, gone>>

Begin(p) ==
    /\ At(p, "begin") /\ Goto(p, "lock") /\ start' = [start EXCEPT ![p] = clock]
    /\ UNCHANGED <<machine, store, lock, pol, latest, used, todo, sel, unsaved, cur, checked, gone>>

\* lockApply does not wait: a busy lock ends the run.
Lock(p) ==
    /\ At(p, "lock")
    /\ \/ lock = NoProc /\ lock' = p /\ Goto(p, "refs") /\ UNCHANGED locals
       \/ lock # NoProc /\ UNCHANGED <<lock, pol>> /\ Goto(p, Rest(p)) /\ Forget(p)
    /\ UNCHANGED <<machine, store, gone>>

References(p) ==
    /\ \/ At(p, "refs") /\ Goto(p, "select") /\ todo' = [todo EXCEPT ![p] = Name]
       \/ At(p, "recheck") /\ Goto(p, "reload") /\ UNCHANGED todo
    /\ used' = [used EXCEPT ![p] = inUse]
    /\ UNCHANGED <<machine, store, lock, pol, latest, start, sel, unsaved, cur, checked, gone>>

-----------------------------------------------------------------------------
(***************************************************************************)
(* Selection.  An entry is selected when both passes find nothing against  *)
(* it; which of the candidates max_bytes_per_run, the bound of the run     *)
(* receipt or an unreadable member defer is left open.                     *)
(***************************************************************************)
Candidate(p, n) ==
    /\ entry[n] # NoEntry /\ pol[p].class[n] \notin Left /\ n \notin used[p]
    /\ start[p] - Newest(entry[n]) >= IdleFor(pol[p], n)
    /\ Kind(p) = "regenerable" => pol[p].class[n] = "regenerable"

Select(p) ==
    /\ At(p, "select")
    /\ \E n \in todo[p] :
       /\ todo' = [todo EXCEPT ![p] = @ \ {n}]
       /\ \/ /\ Candidate(p, n) /\ sel' = [sel EXCEPT ![p][n] = entry[n]]
             /\ unsaved' = [unsaved EXCEPT ![p] =
                   IF pol[p].class[n] = "regenerable" THEN @ \cup {n} ELSE @]
          \/ UNCHANGED <<sel, unsaved>>
    /\ UNCHANGED <<machine, store, lock, pc, pol, latest, start, used, cur, checked, gone>>

Listed(p) ==
    /\ At(p, "select") /\ todo[p] = {}
    /\ Goto(p, IF ToArchive(p) # {} THEN "copy" ELSE "record")
    /\ UNCHANGED <<machine, store, lock, locals, gone>>

\* scratchPreflight: a withdrawn directory or an entry now kept ends the run;
\* sensitive names are not looked for again.
Preflight(p) == policy.active /\ \A n \in ToArchive(p) : policy.class[n] # "keep"

Copy(p) ==
    /\ At(p, "copy") /\ Preflight(p) /\ Goto(p, "publish")
    /\ UNCHANGED <<machine, store, lock, locals, gone>>

\* The tar is read back, every member is as observed, nothing is replaced.
Mut_Publish(p) ==
    /\ At(p, "publish") /\ Preflight(p) /\ \A n \in ToArchive(p) : Unchanged(p, n)
    /\ saved' = saved \cup Contents(p) /\ Goto(p, "recheck")
    /\ UNCHANGED <<machine, runs, receipts, lock, locals, gone>>
Publish(p) ==
    /\ At(p, "publish") /\ Preflight(p) /\ \A n \in ToArchive(p) : Unchanged(p, n)
    /\ saved' = saved \cup Contents(p) /\ Goto(p, "record")
    /\ UNCHANGED <<machine, runs, receipts, lock, locals, gone>>

RecordScratchRun(p) ==
    /\ At(p, "record") /\ Goto(p, "recheck")
    /\ runs' = runs \cup {[kind |-> Kind(p), start |-> start[p], entries |-> Contents(p)]}
    /\ UNCHANGED <<machine, saved, receipts, lock, locals, gone>>

Mut_Reload(p) ==
    /\ At(p, "reload") /\ policy.active
    /\ latest' = [latest EXCEPT ![p] = [pol[p] EXCEPT !.edits = policy.edits]]
    /\ todo' = [todo EXCEPT ![p] = Selected(p)] /\ Goto(p, "check")
    /\ UNCHANGED <<machine, store, lock, pol, start, used, sel, unsaved, cur, checked, gone>>
Reload(p) ==
    /\ At(p, "reload") /\ policy.active
    /\ latest' = [latest EXCEPT ![p] = policy]
    /\ todo' = [todo EXCEPT ![p] = Selected(p)] /\ Goto(p, "check")
    /\ UNCHANGED <<machine, store, lock, pol, start, used, sel, unsaved, cur, checked, gone>>

-----------------------------------------------------------------------------
(* Deletion, one entry after the other, oldest first. *)

\* scratchDeletionRefusal
Mut_Refused(p, n) == latest[p].class[n] \in Left
Refused(p, n) == \/ latest[p].class[n] \in Left
                 \/ n \in unsaved[p] /\ latest[p].class[n] # "regenerable"

Check(p) ==
    /\ At(p, "check")
    /\ \E n \in todo[p] :
       /\ \A m \in todo[p] : Newest(sel[p][n]) <= Newest(sel[p][m])
       /\ todo' = [todo EXCEPT ![p] = @ \ {n}]
       /\ IF /\ ~Refused(p, n) /\ n \notin used[p] /\ Unchanged(p, n)
             /\ clock - Newest(sel[p][n]) >= IdleFor(latest[p], n)
          THEN /\ cur' = [cur EXCEPT ![p] = n] /\ Goto(p, "stat")
               /\ checked' = [checked EXCEPT ![p] = clock]
          ELSE UNCHANGED <<cur, checked, pc>>
    /\ UNCHANGED <<machine, store, lock, pol, latest, start, used, sel, unsaved, gone>>

\* RemoveAnchored looks at the top of the entry only.
Stat(p) ==
    /\ At(p, "stat")
    /\ Goto(p, IF entry[cur[p]].top = sel[p][cur[p]].top THEN "unlink" ELSE "check")
    /\ UNCHANGED <<machine, store, lock, locals, gone>>

Deleted(p) == gone' = gone \cup {[name |-> cur[p], made |-> sel[p][cur[p]].made,
                                  archived |-> cur[p] \notin unsaved[p]]}

Unlink(p) ==
    /\ At(p, "unlink") /\ entry[cur[p]] # NoEntry
    /\ entry' = [entry EXCEPT ![cur[p]] = NoEntry] /\ Deleted(p) /\ Goto(p, "receipt")
    /\ UNCHANGED <<clock, inUse, policy, events, store, lock, locals>>

\* The removal stops at the top, or below it with a part of the tree gone.
UnlinkFails(p) ==
    /\ At(p, "unlink") /\ Goto(p, "check")
    /\ \/ UNCHANGED <<entry, gone>>
       \/ /\ entry[cur[p]] # NoEntry /\ Deleted(p)
          /\ entry' = [entry EXCEPT ![cur[p]] = [@ EXCEPT !.made = clock, !.newest = clock]]
    /\ UNCHANGED <<clock, inUse, policy, events, store, lock, locals>>

RecordScratchDeletion(p) ==
    /\ At(p, "receipt") /\ Goto(p, "check")
    /\ receipts' = receipts \cup {<<cur[p], sel[p][cur[p]].made>>}
    /\ UNCHANGED <<machine, saved, runs, lock, locals, gone>>

ReceiptFails(p) ==
    /\ At(p, "receipt") /\ Goto(p, "check")
    /\ UNCHANGED <<machine, store, lock, locals, gone>>

Finish(p) ==
    /\ At(p, "check") /\ todo[p] = {} /\ Goto(p, Rest(p)) /\ Forget(p) /\ lock' = NoProc
    /\ UNCHANGED <<machine, store, pol, gone>>

\* An error that ends the run, a cancellation or a crash: none undoes anything,
\* and a watcher survives an error.
Stops(p) ==
    /\ ~At(p, "idle") /\ \E l \in {"idle", Rest(p)} : Goto(p, l)
    /\ Forget(p)
    /\ lock' = IF lock = p THEN NoProc ELSE lock
    /\ UNCHANGED <<machine, store, pol, gone>>

-----------------------------------------------------------------------------
(* RestoreScratch: the destination is looked at, then taken without replacing. *)
StartRestore(p) ==
    /\ p \in Restorer /\ At(p, "idle") /\ lock = NoProc
    /\ \E r \in runs : \E c \in r.entries :
          /\ c \in saved /\ entry[c[1]] = NoEntry
          /\ cur' = [cur EXCEPT ![p] = c[1]]
          /\ sel' = [sel EXCEPT ![p][c[1]] = [made |-> c[2], top |-> -1, newest |-> -1]]
    /\ lock' = p /\ Goto(p, "extract")
    /\ UNCHANGED <<machine, store, pol, latest, start, used, todo, unsaved, checked, gone>>

\* The recorded modification times come back; the ctimes cannot.
Restored(p) == [made |-> sel[p][cur[p]].made, top |-> clock, newest |-> clock]

EndRestore(p) ==
    /\ At(p, "extract") /\ entry[cur[p]] = NoEntry
    /\ entry' = [entry EXCEPT ![cur[p]] = Restored(p)]
    /\ lock' = NoProc /\ Goto(p, "idle") /\ Forget(p)
    /\ UNCHANGED <<clock, inUse, policy, events, store, pol, gone>>

-----------------------------------------------------------------------------
(* The owner and the machine. *)
Tick == /\ clock < MaxClock /\ clock' = clock + 1
        /\ UNCHANGED <<entry, inUse, policy, events, store, lock, pc, locals, gone>>

Owner == /\ events < MaxEvents /\ events' = events + 1
         /\ UNCHANGED <<clock, store, lock, pc, locals, gone>>

\* A new entry at n, or its top directory changed.
Write(n) ==
    /\ Owner /\ UNCHANGED <<inUse, policy>>
    /\ entry' = [entry EXCEPT ![n] = [made |-> clock, top |-> clock, newest |-> clock]]

\* A file below the top is written: the times of the top stay.
WriteBelow(n) ==
    /\ Owner /\ UNCHANGED <<inUse, policy>> /\ entry[n] # NoEntry
    /\ entry' = [entry EXCEPT ![n] = [@ EXCEPT !.made = clock, !.newest = clock]]

Remove(n) ==
    /\ Owner /\ UNCHANGED <<inUse, policy>> /\ entry[n] # NoEntry
    /\ entry' = [entry EXCEPT ![n] = NoEntry]

Use(n) ==
    /\ Owner /\ UNCHANGED <<entry, policy>>
    /\ inUse' = IF n \in inUse THEN inUse \ {n} ELSE inUse \cup {n}

EditPolicy ==
    /\ Owner /\ UNCHANGED <<entry, inUse>>
    /\ \E pl \in Policies : /\ pl.edits = policy.edits + 1
                            /\ [pl EXCEPT !.edits = policy.edits] # policy
                            /\ policy' = pl

-----------------------------------------------------------------------------
Environment ==
    \/ Tick
    \/ \E n \in Name : Write(n) \/ WriteBelow(n) \/ Remove(n) \/ Use(n)
    \/ EditPolicy

Step(p) ==
    \/ Load(p) \/ Due(p) \/ Begin(p) \/ Lock(p) \/ References(p)
    \/ Select(p) \/ Listed(p) \/ Copy(p) \/ Publish(p) \/ RecordScratchRun(p) \/ Reload(p)
    \/ Check(p) \/ Stat(p) \/ Unlink(p) \/ UnlinkFails(p)
    \/ RecordScratchDeletion(p) \/ ReceiptFails(p) \/ Finish(p)
    \/ StartRestore(p) \/ EndRestore(p) \/ Stops(p)

Next == Environment \/ \E p \in Proc : Step(p)

Spec == Init /\ [][Next]_vars

-----------------------------------------------------------------------------
(* Properties *)

\* p deletes cur, in whole or in part, whatever has become of it.
Deletes(p) == At(p, "unlink") /\ pc'[p] # "unlink" /\ entry' # entry

\* What a run deletes was archived as it is, or is regenerable under the policy read
\* immediately before the deletions, or was written in the time its own deletion takes:
\* after Unchanged (scratch.go:404) only the top is looked at again, so what is written
\* below it before the unlink (scratch.go:416) goes with the entry, unarchived.
SavedOrRegenerable == [][\A p \in Proc : Deletes(p) =>
    \/ <<cur[p], entry[cur[p]].made>> \in saved
    \/ latest[p].class[cur[p]] = "regenerable"
    \/ entry[cur[p]].made >= checked[p]]_vars

\* Whenever the run dies, what was archived and then deleted is listed in a
\* recorded run, which `janitor scratch restore` can name.
RestorableByReceipt == \A g \in gone :
    g.archived => \E r \in runs : <<g.name, g.made>> \in r.entries

\* Nothing in a deleted entry has changed within the idle time of the latest policy, the
\* restore that put it there included, but for what is written after the last look at it
\* (scratch.go:404-416).
IdleHonoured == [][\A p \in Proc : Deletes(p) =>
    \/ clock - entry[cur[p]].newest >= IdleFor(latest[p], cur[p])
    \/ entry[cur[p]].newest >= checked[p]]_vars

\* An entry that the policy file kept when it was read again, and still
\* keeps, is not deleted, although it was selected under another policy.
LatestPolicyObeyed == [][\A p \in Proc : Deletes(p) /\ latest[p].edits = policy.edits
    => policy.class[cur[p]] \notin Left /\ policy.active]_vars

=============================================================================
