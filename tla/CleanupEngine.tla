--------------------------- MODULE CleanupEngine ---------------------------
(***************************************************************************)
(* The reversible cleanup engine: internal/action (Engine), its durable    *)
(* journal internal/store (cleanup_items) and the three confirmed commands *)
(* that drive it, `apply --quarantine`, `restore` and `apply --expire`     *)
(* (internal/cli/apply.go).                                                *)
(*                                                                         *)
(* A process holds the apply lock, takes the receipts of its command one   *)
(* by one and performs, for each, the file-system and journal steps of     *)
(* Engine.  Between any two steps the owner of the machine may create,     *)
(* remove, edit, move or start to use the objects involved, a step may     *)
(* fail with an I/O error, and the process may die.                        *)
(***************************************************************************)
EXTENDS Integers, FiniteSets

CONSTANTS
    Proc,       \* janitor processes
    Source,     \* original paths
    Action,     \* planned actions
    Plan,       \* stored plans
    Batch,      \* cleanup ids
    Obj,        \* kernel objects
    Linked,     \* the objects that are linked Git worktrees
    PathOf,     \* the path an action targets
    PlanOf,     \* the plan an action belongs to
    Ino,        \* the inode number (with its device) of an object
    Retention,  \* length of the retention window, in ticks
    MaxTime,    \* bound on the clock
    MaxVer,     \* bound on metadata changes of one object
    Outside,    \* the kinds of outside events and faults an instance has
    NoObj, NoProc, NoPlan

ASSUME ConstantsAssumption ==
    /\ PathOf \in [Action -> Source]
    /\ PlanOf \in [Action -> Plan]
    /\ Linked \subseteq Obj
    /\ Batch # {} /\ Action # {}
    /\ Outside \subseteq {"create", "remove", "move", "touch", "replace",
                     "repair", "fail", "crash", "calm"}
    /\ Retention \in Nat /\ MaxTime \in Nat /\ MaxVer \in Nat
    /\ NoObj \notin Obj /\ NoProc \notin Proc /\ NoPlan \notin Plan

VARIABLES
    \* the machine
    src,        \* what each original path holds
    dst,        \* what each receipt directory holds under "item"
    away,       \* live objects under some other name
    born,       \* objects that ever existed
    ver,        \* metadata version (the fingerprint) of each object
    reg,        \* where Git's administrative record says a worktree lives
    manifest,   \* receipts whose manifest.json is installed
    marker,     \* receipts whose directory holds its own deletion marker
    now,        \* the clock
    calm,       \* nothing outside the janitor happens, and nothing fails
    \* the store
    plan,       \* the plan bound to the latest completed scan
    planObj,    \* the object each action was planned for
    planVer,    \* and its fingerprint at that scan
    jstate,     \* cleanup_items.state
    movedAt,    \* cleanup_items.moved_at, -1 when NULL
    qver,       \* fingerprint of cleanup_items.quarantined_json, -1 when NULL
    \* the processes
    lock,       \* holder of apply.lock
    pc, cmd,    \* next step, and the command being run
    todo,       \* receipts the command still has to visit
    cur,        \* receipt being worked on
    mem,        \* item.State of the in-memory copy
    obs,        \* fingerprint observed by finishMove
    handle,     \* object kept open by safety.Open
    \* history, read by properties only
    took,       \* when the object now in a receipt directory was moved there
    checked,    \* object the last successful revalidation of a receipt saw
    late        \* objects that came to an original path while git gives a worktree back

machine == <<src, dst, away, born, ver, reg, manifest, marker>>
store   == <<jstate, movedAt, qver>>
plans   == <<plan, planObj, planVer>>
world   == <<now, calm>>
locals  == <<pc, cmd, todo, cur, mem, obs, handle>>
history == <<took, checked, late>>
vars    == <<machine, store, plans, world, lock, locals, history>>

Receipt    == Batch \X Action
NilReceipt == CHOOSE r \in Receipt : TRUE

CleanupState == {"prepared", "quarantined", "restored", "deleted", "investigate"}
Active       == {"prepared", "quarantined", "investigate"}
Command      == {"none", "quarantine", "restore", "expire"}

PathOfReceipt(r) == PathOf[r[2]]
PlannedObj(r)    == planObj[r[2]]

CanTransitionTo(s, t) ==
    \/ s = "prepared"    /\ t \in {"quarantined", "restored", "investigate"}
    \/ s = "quarantined" /\ t \in {"restored", "deleted", "investigate"}
    \/ s = "investigate" /\ t \in {"prepared", "quarantined", "restored"}

Alive(o) == o \in away \/ (\E s \in Source : src[s] = o) \/ (\E r \in Receipt : dst[r] = o)

\* identityMatches: device and inode only.
Mut_identityMatches(o, r) == o # NoObj /\ PlannedObj(r) # NoObj
identityMatches(o, r) == o # NoObj /\ PlannedObj(r) # NoObj /\ Ino[o] = Ino[PlannedObj(r)]

\* Fingerprint: identity, Git facts and metadata version.
Fingerprint(o) == <<Ino[o], o \in Linked, ver[o]>>

SourceMatches(r)      == identityMatches(src[PathOfReceipt(r)], r)
DestinationMatches(r) == identityMatches(dst[r], r)
SourceAbsent(r)       == src[PathOfReceipt(r)] = NoObj
DestinationAbsent(r)  == dst[r] = NoObj
IsLinked(r)           == PlannedObj(r) \in Linked

\* VerifyLinkedWorktree of the object o at the named side, for a worktree item.
LinkVerified(r, o, side) == IsLinked(r) => o \in Linked /\ reg[o] = side

Mut_Expired(r) == movedAt[r] # -1 /\ now >= movedAt[r]
Expired(r) == movedAt[r] # -1 /\ now >= movedAt[r] + Retention

-----------------------------------------------------------------------------
Labels == {"idle", "loop", "prepare", "manifest", "reconcile", "eligRetry",
           "requarantine", "finishRecovered", "journalRecovered", "investigate",
           "open", "revalidate", "stat", "rename", "gitMove", "gitRun",
           "gitRegister", "finish", "journalMove", "cancel", "restore",
           "renameBack", "gitMoveBack", "gitRunBack", "gitRegisterBack", "journalRestored", "settle",
           "eligible", "mark", "remove", "journalDeleted"}

MachineTypeOK ==
    /\ src \in [Source -> Obj \cup {NoObj}]
    /\ dst \in [Receipt -> Obj \cup {NoObj}]
    /\ away \subseteq Obj /\ born \subseteq Obj
    /\ ver \in [Obj -> 0..MaxVer]
    /\ reg \in [Obj -> {"src", "dst"}]
    /\ manifest \subseteq Receipt /\ marker \subseteq Receipt

StoreTypeOK ==
    /\ jstate \in [Receipt -> CleanupState \cup {"none"}]
    /\ movedAt \in [Receipt -> -1..MaxTime]
    /\ qver \in [Receipt -> -1..MaxVer]

PlansTypeOK ==
    /\ plan \in Plan \cup {NoPlan}
    /\ planObj \in [Action -> Obj \cup {NoObj}]
    /\ planVer \in [Action -> 0..MaxVer]

WorldTypeOK == now \in 0..MaxTime /\ calm \in BOOLEAN

LocalsTypeOK ==
    /\ pc \in [Proc -> Labels]
    /\ cmd \in [Proc -> Command]
    /\ todo \in [Proc -> SUBSET Receipt]
    /\ cur \in [Proc -> Receipt]
    /\ mem \in [Proc -> CleanupState \cup {"none"}]
    /\ obs \in [Proc -> -1..MaxVer]
    /\ handle \in [Proc -> Obj \cup {NoObj}]

HistoryTypeOK ==
    /\ took \in [Receipt -> -1..MaxTime]
    /\ checked \in [Receipt -> Obj \cup {NoObj}]
    /\ late \subseteq Obj

TypeOK ==
    /\ MachineTypeOK /\ StoreTypeOK /\ PlansTypeOK /\ WorldTypeOK
    /\ lock \in Proc \cup {NoProc}
    /\ LocalsTypeOK /\ HistoryTypeOK

Init ==
    /\ src = [s \in Source |-> NoObj] /\ dst = [r \in Receipt |-> NoObj]
    /\ away = {} /\ born = {}
    /\ ver = [o \in Obj |-> 0] /\ reg = [o \in Obj |-> "src"]
    /\ manifest = {} /\ marker = {}
    /\ now = 0 /\ calm = FALSE
    /\ plan = NoPlan
    /\ planObj = [a \in Action |-> NoObj] /\ planVer = [a \in Action |-> 0]
    /\ jstate = [r \in Receipt |-> "none"]
    /\ movedAt = [r \in Receipt |-> -1] /\ qver = [r \in Receipt |-> -1]
    /\ lock = NoProc
    /\ pc = [p \in Proc |-> "idle"] /\ cmd = [p \in Proc |-> "none"]
    /\ todo = [p \in Proc |-> {}]
    /\ cur = [p \in Proc |-> NilReceipt]
    /\ mem = [p \in Proc |-> "none"] /\ obs = [p \in Proc |-> -1]
    /\ handle = [p \in Proc |-> NoObj]
    /\ took = [r \in Receipt |-> -1]
    /\ checked = [r \in Receipt |-> NoObj]
    /\ late = {}

-----------------------------------------------------------------------------
(* Control flow of one process. *)

At(p, l) == pc[p] = l

Goto(p, l) == /\ pc' = [pc EXCEPT ![p] = l]
              /\ UNCHANGED <<cmd, todo, cur, mem, obs, handle>>

\* The Engine call returns, with or without an error, and the command takes its
\* next receipt: the in-memory item is dropped and the handle is closed.
EndItem(p) == /\ pc' = [pc EXCEPT ![p] = "loop"]
              /\ cur' = [cur EXCEPT ![p] = NilReceipt]
              /\ mem' = [mem EXCEPT ![p] = "none"]
              /\ obs' = [obs EXCEPT ![p] = -1]
              /\ handle' = [handle EXCEPT ![p] = NoObj]
              /\ UNCHANGED <<cmd, todo>>

\* Carry on at l with item.State = s, or return when l is "loop".
Continue(p, l, s) ==
    IF l = "loop" THEN EndItem(p)
    ELSE /\ pc' = [pc EXCEPT ![p] = l]
         /\ mem' = [mem EXCEPT ![p] = s]
         /\ UNCHANGED <<cmd, todo, cur, obs, handle>>

\* What command c does with a receipt r that Reconcile returned in state s.
AfterReconcile(c, r, s) ==
    CASE c = "quarantine" /\ s = "prepared" -> "open"
      [] c = "restore" /\ s = "prepared" -> "cancel"
      [] c = "restore" /\ s \in {"quarantined", "investigate"} -> "restore"
      [] c = "expire" /\ s = "quarantined" /\ Expired(r) -> "settle"
      [] OTHER -> "loop"

\* UpdateCleanup: a legal transition from the expected state, or a refusal.
Accepts(r, expected, next) == CanTransitionTo(expected, next) /\ jstate[r] = expected
UpdateCleanup(r, expected, next) ==
    jstate' = IF Accepts(r, expected, next) THEN [jstate EXCEPT ![r] = next] ELSE jstate

-----------------------------------------------------------------------------
(* Starting and ending a command. *)

Mut_lockApply(p) == lock' = p
lockApply(p) == lock = NoProc /\ lock' = p

Begin(p, c, rs) ==
    /\ At(p, "idle") /\ lockApply(p)
    /\ pc' = [pc EXCEPT ![p] = "loop"]
    /\ cmd' = [cmd EXCEPT ![p] = c]
    /\ todo' = [todo EXCEPT ![p] = rs]
    /\ UNCHANGED <<cur, mem, obs, handle, machine, store, plans, world, history>>

ActiveRows   == {r \in Receipt : jstate[r] \in Active}
Rows         == {r \in Receipt : jstate[r] # "none"}
RowsOfPlan   == {r \in ActiveRows : PlanOf[r[2]] = plan}
Unused(b)    == \A a \in Action : jstate[<<b, a>>] = "none"
Planned      == {a \in Action : PlanOf[a] = plan /\ planObj[a] # NoObj}

\* The cleanup id a quarantine works under: that of the active rows of its
\* plan, or a new one.
BatchOf(b) == IF RowsOfPlan # {}
              THEN \A r \in RowsOfPlan : r[1] = b
              ELSE Unused(b) /\ b = CHOOSE c \in Batch : Unused(c)

StartQuarantine(p) ==
    /\ plan # NoPlan /\ ~calm
    /\ \E b \in Batch, selected \in SUBSET Planned :
          /\ BatchOf(b) /\ selected # {}
          /\ Begin(p, "quarantine", {<<b, a>> : a \in selected})

StartRestore(p, b) ==
    /\ ~Unused(b)
    /\ Begin(p, "restore", {r \in ActiveRows : r[1] = b})

StartExpire(p) ==
    /\ ~calm /\ Rows # {}
    /\ \E ids \in {Batch} \cup {{b} : b \in Batch} :
          Begin(p, "expire", {r \in Rows : r[1] \in ids})

Finish(p) ==
    /\ At(p, "loop") /\ todo[p] = {}
    /\ lock' = NoProc
    /\ pc' = [pc EXCEPT ![p] = "idle"]
    /\ cmd' = [cmd EXCEPT ![p] = "none"]
    /\ UNCHANGED <<todo, cur, mem, obs, handle, machine, store, plans, world, history>>

\* The command takes a receipt.
FirstStep(c, r) ==
    CASE c = "quarantine" -> IF jstate[r] \in Active THEN "reconcile" ELSE "prepare"
      [] c = "restore" -> "reconcile"
      [] OTHER -> IF jstate[r] = "investigate" THEN "reconcile"
                  ELSE IF jstate[r] = "quarantined" /\ Expired(r) THEN "settle"
                  ELSE "loop"

Pick(p) ==
    /\ At(p, "loop")
    /\ \E r \in todo[p] :
          /\ pc' = [pc EXCEPT ![p] = FirstStep(cmd[p], r)]
          /\ todo' = [todo EXCEPT ![p] = @ \ {r}]
          /\ LET skip == FirstStep(cmd[p], r) = "loop" IN
             /\ cur' = [cur EXCEPT ![p] = IF skip THEN NilReceipt ELSE r]
             /\ mem' = [mem EXCEPT ![p] = IF skip THEN "none" ELSE jstate[r]]
    /\ UNCHANGED <<cmd, obs, handle, lock, machine, store, plans, world, history>>

-----------------------------------------------------------------------------
(* Prepare: the journal row first, then the manifest.  The row is refused   *)
(* by the primary key and by the unique index over active sources.         *)

Mut_Claimed(s) == FALSE
Claimed(s) == \E r \in ActiveRows : PathOfReceipt(r) = s

Prepare(p) ==
    LET r == cur[p] IN
    /\ At(p, "prepare")
    /\ \/ /\ ~SourceAbsent(r) /\ jstate[r] = "none" /\ ~Claimed(PathOfReceipt(r))
          /\ jstate' = [jstate EXCEPT ![r] = "prepared"]
          /\ Continue(p, "manifest", "prepared")
       \/ /\ SourceAbsent(r) \/ jstate[r] # "none" \/ Claimed(PathOfReceipt(r))
          /\ EndItem(p) /\ UNCHANGED jstate
    /\ UNCHANGED <<movedAt, qver, lock, machine, plans, world, history>>

ensureManifest(p) ==
    /\ At(p, "manifest")
    /\ manifest' = manifest \cup {cur[p]}
    /\ Goto(p, "reconcile")
    /\ UNCHANGED <<src, dst, away, born, ver, reg, marker, store, plans, world, lock, history>>

-----------------------------------------------------------------------------
(* Reconcile. *)

\* settleAbsent, with every Lstat succeeding.
Mut_settleAbsent(r) ==
    IF ~DestinationAbsent(r) THEN "unproven"
    ELSE IF SourceMatches(r) THEN "restored" ELSE "deleted"
settleAbsent(r) ==
    IF ~DestinationAbsent(r) THEN "unproven"
    ELSE IF SourceMatches(r) THEN "restored"
    ELSE IF r \in marker THEN "deleted"
    ELSE "unproven"

\* The label at which Reconcile continues for an item in state s.
Verdict(c, r, s) ==
    CASE s = "investigate" /\ qver[r] # -1 ->
            IF settleAbsent(r) = "unproven" THEN "eligRetry" ELSE "requarantine"
      [] s = "prepared" ->
            IF SourceMatches(r) /\ DestinationAbsent(r) THEN AfterReconcile(c, r, s)
            ELSE IF SourceAbsent(r) /\ DestinationMatches(r) THEN "finishRecovered"
            ELSE "investigate"
      [] s = "quarantined" ->
            IF DestinationMatches(r) THEN AfterReconcile(c, r, s)
            ELSE IF SourceMatches(r) /\ DestinationAbsent(r)
                 THEN IF LinkVerified(r, src[PathOfReceipt(r)], "src")
                      THEN "journalRestored" ELSE "investigate"
            ELSE "investigate"
      [] OTHER -> AfterReconcile(c, r, s)

Reconcile(p) ==
    /\ At(p, "reconcile")
    /\ Continue(p, Verdict(cmd[p], cur[p], mem[p]), mem[p])
    /\ UNCHANGED <<lock, machine, store, plans, world, history>>

\* A name that cannot be inspected proves nothing, in Reconcile or settleAbsent.
Unreadable(p) ==
    /\ "fail" \in Outside /\ ~calm
    /\ \/ /\ At(p, "reconcile") /\ mem[p] \in {"prepared", "quarantined"}
          /\ Goto(p, "investigate")
       \/ /\ At(p, "reconcile") /\ mem[p] = "investigate" /\ qver[cur[p]] # -1
          /\ Goto(p, "eligRetry")
       \/ At(p, "settle") /\ Goto(p, "eligible")
    /\ UNCHANGED <<lock, machine, store, plans, world, history>>

\* Eligible: retention, the handle and the fingerprint against the post-move
\* snapshot.  A reference to the original path is one of the guards left out.
Eligible(r) ==
    /\ Expired(r) /\ qver[r] # -1
    /\ DestinationMatches(r)
    /\ ver[dst[r]] = qver[r]

\* Any of the guards the model leaves out may refuse an item, so a refusal is
\* always possible.
EligibleRetry(p) ==
    LET r == cur[p] IN
    /\ At(p, "eligRetry")
    /\ \/ Eligible(r) /\ Goto(p, "requarantine")
       \/ Continue(p, IF cmd[p] = "restore" THEN "restore" ELSE "loop", "investigate")
    /\ UNCHANGED <<lock, machine, store, plans, world, history>>

Requarantine(p) ==
    LET r == cur[p] IN
    /\ At(p, "requarantine")
    /\ UpdateCleanup(r, "investigate", "quarantined")
    /\ Continue(p, IF Accepts(r, "investigate", "quarantined")
                   THEN AfterReconcile(cmd[p], r, "quarantined") ELSE "loop", "quarantined")
    /\ UNCHANGED <<movedAt, qver, lock, machine, plans, world, history>>

\* investigate: Restore goes on with an investigated item, even when the
\* journal write failed; every other caller reports it.
Investigate(p) ==
    /\ At(p, "investigate")
    /\ UpdateCleanup(cur[p], mem[p], "investigate")
    /\ Continue(p, IF cmd[p] = "restore" THEN "restore" ELSE "loop", "investigate")
    /\ UNCHANGED <<movedAt, qver, lock, machine, plans, world, history>>

InvestigateUnwritten(p) ==
    /\ "fail" \in Outside /\ ~calm
    /\ At(p, "investigate")
    /\ Continue(p, IF cmd[p] = "restore" THEN "restore" ELSE "loop", "investigate")
    /\ UNCHANGED <<lock, machine, store, plans, world, history>>

-----------------------------------------------------------------------------
(* finishMove: called by Quarantine after its rename, and by Reconcile for a *)
(* prepared receipt whose object is found in quarantine.                     *)

Observed(r) == /\ SourceAbsent(r) /\ DestinationMatches(r)
               /\ LinkVerified(r, dst[r], "dst")

FinishMove(p, from, journal) ==
    LET r == cur[p] IN
    /\ At(p, from)
    /\ Observed(r)
    /\ obs' = [obs EXCEPT ![p] = ver[dst[r]]]
    /\ pc' = [pc EXCEPT ![p] = journal]
    /\ UNCHANGED <<cmd, todo, cur, mem, handle, lock, machine, store, plans, world, history>>

FinishRecovered(p) == FinishMove(p, "finishRecovered", "journalRecovered")
FinishQuarantine(p) == FinishMove(p, "finish", "journalMove")

\* A refused observation: Quarantine leaves the receipt prepared, Reconcile
\* sends it to investigation.
FinishRefused(p) ==
    /\ \/ At(p, "finishRecovered") /\ ~Observed(cur[p]) /\ Goto(p, "investigate")
       \/ At(p, "finish") /\ ~Observed(cur[p]) /\ EndItem(p)
    /\ UNCHANGED <<lock, machine, store, plans, world, history>>

\* A collector or the journal fails inside Reconcile's finishMove.
FinishRecoveredFails(p) ==
    /\ "fail" \in Outside /\ ~calm
    /\ pc[p] \in {"finishRecovered", "journalRecovered"}
    /\ pc' = [pc EXCEPT ![p] = "investigate"]
    /\ obs' = [obs EXCEPT ![p] = -1]
    /\ UNCHANGED <<cmd, todo, cur, mem, handle, lock, machine, store, plans, world, history>>

\* The journal write of finishMove; the receipt's retention starts here.
Mut_JournalMove(p) ==
    /\ pc[p] \in {"journalMove", "journalRecovered"}
    /\ UpdateCleanup(cur[p], "prepared", "quarantined")
    /\ movedAt' = [movedAt EXCEPT ![cur[p]] = now + Retention]
    /\ qver' = [qver EXCEPT ![cur[p]] = obs[p]]
    /\ EndItem(p)
    /\ UNCHANGED <<lock, machine, plans, world, history>>
JournalMove(p) ==
    LET r  == cur[p]
        ok == Accepts(r, "prepared", "quarantined")
        l  == IF At(p, "journalMove") THEN "loop"
              ELSE IF ok THEN AfterReconcile(cmd[p], r, "quarantined") ELSE "investigate"
    IN
    /\ pc[p] \in {"journalMove", "journalRecovered"}
    /\ UpdateCleanup(r, "prepared", "quarantined")
    /\ movedAt' = IF ok THEN [movedAt EXCEPT ![r] = now] ELSE movedAt
    /\ qver' = IF ok THEN [qver EXCEPT ![r] = obs[p]] ELSE qver
    /\ IF l = "loop" THEN EndItem(p)
       ELSE /\ pc' = [pc EXCEPT ![p] = l]
            /\ mem' = [mem EXCEPT ![p] = IF ok THEN "quarantined" ELSE "prepared"]
            /\ obs' = [obs EXCEPT ![p] = -1]
            /\ UNCHANGED <<cmd, todo, cur, handle>>
    /\ UNCHANGED <<lock, machine, plans, world, history>>

-----------------------------------------------------------------------------
(* Quarantine: manifest, handle, complete safety verdict, move. *)

Open(p) ==
    LET r == cur[p] IN
    /\ At(p, "open")
    /\ manifest' = manifest \cup {r}
    /\ IF SourceAbsent(r) THEN EndItem(p)
       ELSE /\ handle' = [handle EXCEPT ![p] = src[PathOfReceipt(r)]]
            /\ pc' = [pc EXCEPT ![p] = "revalidate"]
            /\ UNCHANGED <<cmd, todo, cur, mem, obs>>
    /\ UNCHANGED <<src, dst, away, born, ver, reg, marker, store, plans, world, lock, history>>

\* Revalidate: a fresh observation has the planned identity and fingerprint and is
\* the still linked object of the handle.
Revalidated(p, r) ==
    LET o == src[PathOfReceipt(r)] IN
    /\ identityMatches(o, r)
    /\ Fingerprint(o) = <<Ino[PlannedObj(r)], IsLinked(r), planVer[r[2]]>>
    /\ Alive(handle[p]) /\ Ino[handle[p]] = Ino[o]
    /\ DestinationAbsent(r)

\* The guards the model leaves out, references among them, may always refuse; the receipt stays prepared.
Revalidate(p) ==
    LET r == cur[p] IN
    /\ At(p, "revalidate")
    /\ \/ /\ Revalidated(p, r)
          /\ checked' = [checked EXCEPT ![r] = src[PathOfReceipt(r)]]
          /\ Goto(p, IF IsLinked(r) THEN "gitMove" ELSE "stat")
       \/ EndItem(p) /\ UNCHANGED checked
    /\ UNCHANGED <<lock, machine, store, plans, world, took, late>>

\* renameNoReplace: the identity is compared first, the rename moves whatever
\* the name holds by then, and the identity is compared again.
StatSource(p) ==
    LET o == src[PathOfReceipt(cur[p])] IN
    /\ At(p, "stat")
    /\ IF o # NoObj /\ Ino[o] = Ino[handle[p]] THEN Goto(p, "rename") ELSE EndItem(p)
    /\ UNCHANGED <<lock, machine, store, plans, world, history>>

\* The object at the source of r now is in its receipt directory.
MovedIn(r) ==
    /\ dst' = [dst EXCEPT ![r] = src[PathOfReceipt(r)]]
    /\ src' = [src EXCEPT ![PathOfReceipt(r)] = NoObj]
    /\ took' = [took EXCEPT ![r] = now]

RenameSource(p) ==
    LET r == cur[p]
        o == src[PathOfReceipt(r)]
    IN
    /\ At(p, "rename")
    /\ IF o # NoObj /\ DestinationAbsent(r)
       THEN /\ MovedIn(r)
            /\ IF Ino[o] = Ino[handle[p]] THEN Goto(p, "finish") ELSE EndItem(p)
       ELSE EndItem(p) /\ UNCHANGED <<src, dst, took>>
    /\ UNCHANGED <<lock, away, born, ver, reg, manifest, marker, store, plans, world,
                   checked, late>>

\* MoveLinkedWorktree looks first: the worktree at its place, the target free.
GitMove(p) ==
    LET r == cur[p]
        o == src[PathOfReceipt(r)]
    IN
    /\ At(p, "gitMove")
    /\ IF o # NoObj /\ LinkVerified(r, o, "src") /\ DestinationAbsent(r)
       THEN Goto(p, "gitRun") ELSE EndItem(p)
    /\ UNCHANGED <<lock, machine, store, plans, world, history>>

\* Then `git worktree move`, a subprocess: it looks again, and renames what the name holds
\* by then.  Nobody but the janitor puts anything in a receipt directory.
GitRun(p) ==
    LET r == cur[p]
        o == src[PathOfReceipt(r)]
    IN
    /\ At(p, "gitRun")
    /\ \/ /\ o # NoObj /\ DestinationAbsent(r)
          /\ MovedIn(r) /\ Goto(p, "gitRegister")
       \/ /\ o = NoObj \/ ~LinkVerified(r, o, "src") \/ ~DestinationAbsent(r)
          /\ EndItem(p) /\ UNCHANGED <<src, dst, took>>
    /\ UNCHANGED <<lock, away, born, ver, reg, manifest, marker, store, plans, world,
                   checked, late>>

\* Git's record follows, of the worktree it was asked to move; MoveLinkedWorktree inspects
\* what is there, and fails unless that is the worktree.
Recorded(r, o) == IF o \in Linked THEN o ELSE PlannedObj(r)

GitRegister(p) ==
    LET o == dst[cur[p]] IN
    /\ At(p, "gitRegister")
    /\ reg' = [reg EXCEPT ![Recorded(cur[p], o)] = "dst"]
    /\ IF o \in Linked THEN Goto(p, "finish") ELSE EndItem(p)
    /\ UNCHANGED <<src, dst, away, born, ver, manifest, marker, store, plans, world,
                   lock, history>>

-----------------------------------------------------------------------------
(* Restore. *)

\* A prepared receipt that never moved is cancelled.
Cancel(p) ==
    LET r == cur[p] IN
    /\ At(p, "cancel")
    /\ IF SourceMatches(r) /\ DestinationAbsent(r)
       THEN Goto(p, "journalRestored") ELSE EndItem(p)
    /\ UNCHANGED <<lock, machine, store, plans, world, history>>

\* The checks of Restore on a quarantined or investigated item, in order.  Its last
\* resort for an object in quarantine that no longer matches, investigation, is not
\* here: nothing in Outside exchanges one after Reconcile has found it to match.
Mut_RestoreVerdict(r, s) ==
    IF s # "quarantined" \/ ~SourceAbsent(r) \/ ~DestinationMatches(r) THEN "loop"
    ELSE IF ~LinkVerified(r, dst[r], "dst") THEN "loop"
    ELSE IF IsLinked(r) THEN "gitMoveBack" ELSE "renameBack"
RestoreVerdict(r, s) ==
    IF s = "investigate" /\ SourceMatches(r) /\ DestinationAbsent(r)
    THEN IF LinkVerified(r, src[PathOfReceipt(r)], "src") THEN "journalRestored" ELSE "loop"
    ELSE IF ~SourceAbsent(r) \/ ~DestinationMatches(r) THEN "loop"
    ELSE IF ~LinkVerified(r, dst[r], "dst") THEN "loop"
    ELSE IF IsLinked(r) THEN "gitMoveBack" ELSE "renameBack"

Restore(p) ==
    /\ At(p, "restore")
    /\ Continue(p, RestoreVerdict(cur[p], mem[p]), mem[p])
    /\ UNCHANGED <<lock, machine, store, plans, world, history>>

MovedBack(r) ==
    /\ src' = [src EXCEPT ![PathOfReceipt(r)] = dst[r]]
    /\ dst' = [dst EXCEPT ![r] = NoObj]
    /\ took' = [took EXCEPT ![r] = -1]

\* Nothing at the source is ever replaced (RENAME_NOREPLACE).
Mut_RenameBack(p) ==
    LET r == cur[p] IN
    /\ At(p, "renameBack")
    /\ IF DestinationMatches(r)
       THEN MovedBack(r) /\ Goto(p, "journalRestored")
       ELSE EndItem(p) /\ UNCHANGED <<src, dst, took>>
    /\ UNCHANGED <<lock, away, born, ver, reg, manifest, marker, store, plans, world,
                   checked, late>>
RenameBack(p) ==
    LET r == cur[p] IN
    /\ At(p, "renameBack")
    /\ IF DestinationMatches(r) /\ SourceAbsent(r)
       THEN MovedBack(r) /\ Goto(p, "journalRestored")
       ELSE EndItem(p) /\ UNCHANGED <<src, dst, took>>
    /\ UNCHANGED <<lock, away, born, ver, reg, manifest, marker, store, plans, world,
                   checked, late>>

GitMoveBack(p) ==
    LET r == cur[p] IN
    /\ At(p, "gitMoveBack")
    /\ IF ~DestinationAbsent(r) /\ LinkVerified(r, dst[r], "dst") /\ SourceAbsent(r)
       THEN Goto(p, "gitRunBack") ELSE EndItem(p)
    /\ UNCHANGED <<lock, machine, store, plans, world, history>>

\* `git worktree move` back: an object that came to the path after the look either makes git
\* refuse, or, where git had looked before it came and it is an empty directory (no worktree
\* is empty), is replaced by git's rename.
GitRunBack(p) ==
    LET r == cur[p]
        t == src[PathOfReceipt(r)]
    IN
    /\ At(p, "gitRunBack")
    /\ \/ /\ ~DestinationAbsent(r) /\ t \notin Linked
          /\ MovedBack(r) /\ Goto(p, "gitRegisterBack")
       \/ /\ DestinationAbsent(r) \/ t # NoObj
          /\ EndItem(p) /\ UNCHANGED <<src, dst, took>>
    /\ late' = {}
    /\ UNCHANGED <<lock, away, born, ver, reg, manifest, marker, store, plans, world,
                   checked>>

\* Or git takes the directory that came for the place to move into: the worktree ends under
\* another name and the inspection fails.  Its record names that place, or still the receipt's
\* if git was killed: to the janitor both are a worktree that is not where its record says.
GitEnters(p) ==
    LET r == cur[p]
        o == dst[r]
    IN
    /\ At(p, "gitRunBack")
    /\ o # NoObj /\ ~SourceAbsent(r)
    /\ dst' = [dst EXCEPT ![r] = NoObj] /\ took' = [took EXCEPT ![r] = -1]
    /\ away' = away \cup {o} /\ late' = {}
    /\ EndItem(p)
    /\ UNCHANGED <<src, born, ver, reg, manifest, marker, store, plans, world, lock, checked>>

GitRegisterBack(p) ==
    LET o == src[PathOfReceipt(cur[p])] IN
    /\ At(p, "gitRegisterBack")
    /\ reg' = [reg EXCEPT ![Recorded(cur[p], o)] = "src"]
    /\ IF o \in Linked THEN Goto(p, "journalRestored") ELSE EndItem(p)
    /\ UNCHANGED <<src, dst, away, born, ver, manifest, marker, store, plans, world,
                   lock, history>>

JournalRestored(p) ==
    /\ At(p, "journalRestored")
    /\ UpdateCleanup(cur[p], mem[p], "restored")
    /\ EndItem(p)
    /\ UNCHANGED <<movedAt, qver, lock, machine, plans, world, history>>

-----------------------------------------------------------------------------
(* Delete: settle an absent object, check every guard again, mark, remove,   *)
(* journal.                                                                  *)

SettleAbsent(p) ==
    /\ At(p, "settle")
    /\ Goto(p, CASE settleAbsent(cur[p]) = "deleted"  -> "journalDeleted"
                 [] settleAbsent(cur[p]) = "restored" -> "reconcile"
                 [] OTHER -> "eligible")
    /\ UNCHANGED <<lock, machine, store, plans, world, history>>

CheckEligible(p) ==
    /\ At(p, "eligible")
    /\ \/ Eligible(cur[p]) /\ Goto(p, "mark")
       \/ Goto(p, "investigate")
    /\ UNCHANGED <<lock, machine, store, plans, world, history>>

writeDeletionMarker(p) ==
    /\ At(p, "mark")
    /\ IF DestinationMatches(cur[p])
       THEN marker' = marker \cup {cur[p]} /\ Goto(p, "remove")
       ELSE EndItem(p) /\ UNCHANGED marker
    /\ UNCHANGED <<src, dst, away, born, ver, reg, manifest, store, plans, world, lock, history>>

deleteAnchored(p) ==
    LET r == cur[p] IN
    /\ At(p, "remove")
    /\ IF DestinationMatches(r)
       THEN /\ dst' = [dst EXCEPT ![r] = NoObj]
            /\ took' = [took EXCEPT ![r] = -1]
            /\ Goto(p, "journalDeleted")
       ELSE EndItem(p) /\ UNCHANGED <<dst, took>>
    /\ UNCHANGED <<src, away, born, ver, reg, manifest, marker, store, plans, world, lock,
                   checked, late>>

\* removeAt stops inside the tree.  The metadata of the top directory changes
\* only if one of its own children went.
PartialDelete(p) ==
    LET o == dst[cur[p]] IN
    /\ "fail" \in Outside /\ ~calm
    /\ At(p, "remove") /\ DestinationMatches(cur[p])
    /\ \/ UNCHANGED ver
       \/ ver[o] < MaxVer /\ ver' = [ver EXCEPT ![o] = @ + 1]
    /\ EndItem(p)
    /\ UNCHANGED <<src, dst, away, born, reg, manifest, marker, store, plans, world, lock,
                   history>>

JournalDeleted(p) ==
    /\ At(p, "journalDeleted")
    /\ UpdateCleanup(cur[p], "quarantined", "deleted")
    /\ EndItem(p)
    /\ UNCHANGED <<movedAt, qver, lock, machine, plans, world, history>>

-----------------------------------------------------------------------------
(* Faults of the janitor itself. *)

\* The labels at which an I/O error makes the Engine call return with no
\* further effect.  Errors elsewhere have actions of their own.
Abandons == {"prepare", "manifest", "requarantine", "open", "stat", "rename",
             "gitMove", "gitRun", "gitRegister", "finish", "journalMove", "cancel", "restore",
             "renameBack", "gitMoveBack", "gitRunBack", "gitRegisterBack",
             "journalRestored", "mark", "remove", "journalDeleted"}

Fail(p) ==
    /\ "fail" \in Outside /\ ~calm
    /\ pc[p] \in Abandons
    /\ EndItem(p) /\ late' = {}
    /\ UNCHANGED <<lock, machine, store, plans, world, took, checked>>

\* The process dies; the kernel closes its descriptors and releases its lock.
Crash(p) ==
    /\ "crash" \in Outside /\ ~calm
    /\ lock = p
    /\ lock' = NoProc
    /\ pc' = [pc EXCEPT ![p] = "idle"] /\ cmd' = [cmd EXCEPT ![p] = "none"]
    /\ todo' = [todo EXCEPT ![p] = {}] /\ cur' = [cur EXCEPT ![p] = NilReceipt]
    /\ mem' = [mem EXCEPT ![p] = "none"] /\ obs' = [obs EXCEPT ![p] = -1]
    /\ handle' = [handle EXCEPT ![p] = NoObj]
    /\ late' = {}
    /\ UNCHANGED <<machine, store, plans, world, took, checked>>

-----------------------------------------------------------------------------
(* The machine around the janitor. *)

Happens(kind) == kind \in Outside /\ ~calm

outsideRest == <<store, lock, locals, checked>>

\* History: o comes to an original path, perhaps while git is giving a worktree back.
Arrives(o) == late' = IF \E p \in Proc : At(p, "gitRunBack") THEN late \cup {o} ELSE late

\* An inode number is free once no name and no open handle holds it.
Create(s, o) ==
    /\ Happens("create")
    /\ src[s] = NoObj /\ o \notin born
    /\ \A q \in Obj : Alive(q) \/ (\E p \in Proc : handle[p] = q) => Ino[q] # Ino[o]
    /\ src' = [src EXCEPT ![s] = o]
    /\ born' = born \cup {o} /\ Arrives(o)
    /\ UNCHANGED <<dst, away, ver, reg, manifest, marker, plans, world, took, outsideRest>>

Remove(s) ==
    /\ Happens("remove")
    /\ src[s] # NoObj
    /\ src' = [src EXCEPT ![s] = NoObj]
    /\ UNCHANGED <<dst, away, born, ver, reg, manifest, marker, plans, world, took, late, outsideRest>>

MoveAway(s) ==
    /\ Happens("move")
    /\ src[s] # NoObj
    /\ away' = away \cup {src[s]}
    /\ src' = [src EXCEPT ![s] = NoObj]
    /\ UNCHANGED <<dst, born, ver, reg, manifest, marker, plans, world, took, late, outsideRest>>

PutBack(s, o) ==
    /\ Happens("move")
    /\ src[s] = NoObj /\ o \in away
    /\ src' = [src EXCEPT ![s] = o]
    /\ away' = away \ {o} /\ Arrives(o)
    /\ UNCHANGED <<dst, born, ver, reg, manifest, marker, plans, world, took, outsideRest>>

Touch(o) ==
    /\ Happens("touch")
    /\ Alive(o) /\ ver[o] < MaxVer
    /\ ver' = [ver EXCEPT ![o] = @ + 1]
    /\ UNCHANGED <<src, dst, away, born, reg, manifest, marker, plans, world, took, late, outsideRest>>

\* A receipt directory is moved away and replaced by an empty one.
ReplaceDir(r) ==
    /\ Happens("replace")
    /\ r \in manifest
    /\ away' = away \cup ({dst[r]} \ {NoObj})
    /\ dst' = [dst EXCEPT ![r] = NoObj]
    /\ took' = [took EXCEPT ![r] = -1]
    /\ manifest' = manifest \ {r} /\ marker' = marker \ {r}
    /\ UNCHANGED <<src, born, ver, reg, plans, world, late, outsideRest>>

\* git worktree repair: the record follows the worktree.
Repair(o) ==
    /\ Happens("repair")
    /\ o \in Linked /\ Alive(o) /\ o \notin away
    /\ reg' = [reg EXCEPT ![o] = IF \E r \in Receipt : dst[r] = o THEN "dst" ELSE "src"]
    /\ UNCHANGED <<src, dst, away, born, ver, manifest, marker, plans, world, took, late, outsideRest>>

Tick ==
    /\ ~calm /\ now < MaxTime
    /\ now' = now + 1
    /\ UNCHANGED <<machine, plans, calm, took, late, outsideRest>>

\* A scan is recorded and a plan is built and approved from it, of some of the paths that
\* are there: what is in use, or kept for another reason, is not planned.
ScanPlan(pl) ==
    /\ ~calm
    /\ \A a \in Action : PlanOf[a] = pl => planObj[a] = NoObj
    /\ \E found \in SUBSET {a \in Action : PlanOf[a] = pl /\ src[PathOf[a]] # NoObj} :
        /\ found # {}
        /\ planObj' = [a \in Action |-> IF a \in found THEN src[PathOf[a]] ELSE planObj[a]]
        /\ planVer' = [a \in Action |-> IF a \in found THEN ver[src[PathOf[a]]] ELSE planVer[a]]
    /\ plan' = pl
    /\ UNCHANGED <<machine, world, took, late, outsideRest>>

\* From now on only the janitor acts, and nothing fails.
Calm ==
    /\ Happens("calm")
    /\ calm' = TRUE
    /\ UNCHANGED <<machine, plans, now, took, late, outsideRest>>

-----------------------------------------------------------------------------
Work(p) ==
    \/ Finish(p) \/ Pick(p) \/ Prepare(p) \/ ensureManifest(p)
    \/ Reconcile(p) \/ EligibleRetry(p) \/ Requarantine(p) \/ Investigate(p)
    \/ FinishRecovered(p) \/ FinishQuarantine(p) \/ FinishRefused(p) \/ JournalMove(p)
    \/ Open(p) \/ Revalidate(p) \/ StatSource(p) \/ RenameSource(p)
    \/ GitMove(p) \/ GitRun(p) \/ GitRegister(p)
    \/ Cancel(p) \/ Restore(p) \/ RenameBack(p)
    \/ GitMoveBack(p) \/ GitRunBack(p) \/ GitEnters(p) \/ GitRegisterBack(p) \/ JournalRestored(p)
    \/ SettleAbsent(p) \/ CheckEligible(p) \/ writeDeletionMarker(p)
    \/ deleteAnchored(p) \/ JournalDeleted(p)

Start(p) ==
    \/ StartQuarantine(p) \/ StartExpire(p)
    \/ \E b \in Batch : StartRestore(p, b)

Fault(p) ==
    \/ Unreadable(p) \/ InvestigateUnwritten(p) \/ FinishRecoveredFails(p)
    \/ PartialDelete(p) \/ Fail(p) \/ Crash(p)

Environment ==
    \/ \E s \in Source : \/ Remove(s) \/ MoveAway(s)
                         \/ \E o \in Obj : Create(s, o) \/ PutBack(s, o)
    \/ \E o \in Obj : Touch(o) \/ Repair(o)
    \/ \E r \in Receipt : ReplaceDir(r)
    \/ \E pl \in Plan : ScanPlan(pl)
    \/ Tick \/ Calm

Next == Environment \/ \E p \in Proc : Start(p) \/ Work(p) \/ Fault(p)

Spec == Init /\ [][Next]_vars

\* A process keeps running its command, and an operator who wants a batch back
\* retries `restore` until one gets the lock.
FairSpec ==
    /\ Spec
    /\ \A p \in Proc : WF_vars(Work(p))
    /\ \A b \in Batch : SF_vars(\E p \in Proc : StartRestore(p, b))

-----------------------------------------------------------------------------
(* Properties. *)

\* An object in a receipt directory always has an active journal row, through
\* every crash, failed write and second process: no journal write closes a
\* receipt (restored, deleted) whose directory still holds something.
NoOrphan == \A r \in Receipt : dst[r] # NoObj => jstate[r] \in Active

\* A receipt journaled as quarantined holds the very object that passed
\* revalidation, even when the inode number of that object is reused or the
\* path is swapped between the last check and the rename.
MovedWasChecked ==
    \A r \in Receipt : jstate[r] = "quarantined" /\ dst[r] # NoObj => dst[r] = checked[r]

\* A receipt is recorded as deleted only when expiry itself had started to
\* delete its object: absence alone proves nothing.
DeletedWasMarked == \A r \in Receipt : jstate[r] = "deleted" => r \in marker

\* Nothing live is replaced, by a restore in particular: an object dies only where its name
\* becomes empty.  The one exception is git's own, not RENAME_NOREPLACE: what came to the
\* original path after MoveLinkedWorktree had found it free, and no worktree (git.go:43-51).
NeverOverwrites ==
    [][\A o \in Obj : Alive(o) /\ ~Alive(o)' =>
          \/ \E s \in Source : src[s] = o /\ src'[s] = NoObj
          \/ \E r \in Receipt : dst[r] = o /\ dst'[r] = NoObj
          \/ o \in late \ Linked /\ \E p \in Proc : At(p, "gitRunBack")]_vars

\* An object dies in quarantine only after its whole retention window there,
\* under a receipt journaled as quarantined with its deletion marker durable.
RetentionHonoured ==
    [][\A r \in Receipt, o \in Obj : dst[r] = o /\ ~Alive(o)' =>
          /\ now >= took[r] + Retention
          /\ jstate[r] = "quarantined" /\ r \in marker]_vars

\* Once the machine is calm, a matching object in quarantine whose original
\* path is free (and whose worktree link verifies) leaves the active receipts
\* under repeated restores, whatever crashes and failures came before.
Restorable(r) ==
    /\ calm /\ jstate[r] \in Active
    /\ SourceAbsent(r) /\ DestinationMatches(r) /\ LinkVerified(r, dst[r], "dst")
RestorableIsRestored ==
    \A r \in Receipt : Restorable(r) ~> jstate[r] \in {"restored", "deleted"}

\* The engine implements the custody promise.
custodyStatus == [r \in Receipt |-> IF jstate[r] = "none" THEN "new"
                                    ELSE IF jstate[r] \in Active THEN "open" ELSE "closed"]
C == INSTANCE Custody WITH
        Path <- PathOfReceipt, status <- custodyStatus, held <- dst, since <- took,
        alive <- {o \in Obj : Alive(o)}, clock <- now
ImplementsCustody == C!Spec

=============================================================================
