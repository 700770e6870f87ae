-------------------------- MODULE DailyCycleProofs --------------------------
(***************************************************************************)
(* Theorems about the store that processes of several releases open, and   *)
(* about cache trims, for any number of processes, releases and builds.    *)
(***************************************************************************)
EXTENDS DailyCycle, TLAPS

-----------------------------------------------------------------------------
(* The store. *)

\* A process that migrates is below its release and not ahead of the database.
SchemaInv ==
    /\ StoreTypeOK /\ SchemaIsWhole
    /\ \A p \in Proc : handle[p] = "migrating" => current[p] < Release[p] /\ current[p] <= user_version

\* Only opening, migrating and closing change the store.
LEMMA StoreSteps ==
    ASSUME [Next]_vars
    PROVE  UNCHANGED storeVars \/ \E p \in Proc : Open(p) \/ applyMigration(p) \/ Close(p)
<1> USE DailyAssumption
<1>1. CASE UNCHANGED vars \/ Tick \/ Relink
  BY <1>1 DEF vars, Tick, Relink
<1>2. ASSUME NEW u \in User, Builds(u) \/ Leaves(u)
      PROVE  UNCHANGED storeVars
  BY <1>2 DEF Builds, Leaves
<1>3. ASSUME NEW p \in Cycle, CycleStep(p)
      PROVE  UNCHANGED storeVars \/ Close(p)
  BY <1>3 DEF CycleStep, Start, DeepScanDue, Categories, LockScan, RunScan, RecordDeep, Sample,
     ClaimDiskAlert, InventoryReport, RunRecovery, RecoveryFails, AutoQuarantine, Expiry,
     ExpiryFails, End, LateSampleFails, RecordCompletedCycle, Report, LeaveWithReport, Leave
<1>4. ASSUME NEW w \in Watcher, Interval(w) \/ ReportTrims(w) \/ ReportLost(w) \/ Cancel(w)
      PROVE  UNCHANGED storeVars \/ Close(w)
  BY <1>4 DEF Interval, ReportTrims, ReportLost, Cancel, LeaveWithReport, Leave
<1>5. ASSUME NEW d \in Command, Invoke(d) \/ Works(d)
      PROVE  UNCHANGED storeVars \/ Close(d)
  BY <1>5 DEF Invoke, Works
<1>6. ASSUME NEW p \in Cycle \cup Watcher, TrimStep(p)
      PROVE  UNCHANGED storeVars
  BY <1>6 DEF TrimStep, TryLockTrim, Resolve, Measure, LooksForUsers, RunTrim
<1>7. ASSUME NEW p \in Proc, OpensStore(p) \/ Aborts(p) \/ Refused(p) \/ Dies(p)
      PROVE  UNCHANGED storeVars \/ Open(p) \/ applyMigration(p) \/ Close(p)
  BY <1>7 DEF OpensStore, Aborts, Refused, Dies, Leave
<1> QED
  BY <1>1, <1>2, <1>3, <1>4, <1>5, <1>6, <1>7 DEF Next

\* Opening, a migration and closing keep the invariant.
LEMMA SchemaInvStep ==
    ASSUME SchemaInv, NEW p \in Proc, Open(p) \/ applyMigration(p) \/ Close(p)
    PROVE  SchemaInv'
<1> USE SchemaAssumption DEF SchemaInv, StoreTypeOK, SchemaIsWhole
<1>1. CASE Open(p)
  BY <1>1 DEF Open, Reach, Newer
<1>2. CASE applyMigration(p)
  <2> DEFINE step == current[p] + 1
  <2>1. step \in 1..MaxSchema /\ step <= Release[p] /\ step <= user_version + 1
    BY <1>2 DEF applyMigration
  <2>2. CASE user_version < step
    <3>1. step = user_version + 1 /\ user_version' = step /\ applied' = [applied EXCEPT ![step] = @ + 1]
      BY <1>2, <2>1, <2>2 DEF applyMigration, Pending
    <3>2. applied'[step] = 1 /\ \A s \in 1..MaxSchema \ {step} : applied'[s] = applied[s]
      BY <2>1, <3>1
    <3>3. \A s \in 1..MaxSchema : applied'[s] = IF s <= user_version' THEN 1 ELSE 0
      BY <2>1, <3>1, <3>2
    <3> QED
      BY <1>2, <2>1, <3>1, <3>3 DEF applyMigration, Reach
  <2>3. CASE ~(user_version < step)
    BY <1>2, <2>1, <2>3 DEF applyMigration, Reach, Pending
  <2> QED
    BY <2>2, <2>3
<1>3. CASE Close(p)
  BY <1>3 DEF Close
<1> QED
  BY <1>1, <1>2, <1>3

\* The invariant of the store in every execution.
LEMMA SchemaHolds == Spec => []SchemaInv
<1>1. Init => SchemaInv
  BY SchemaAssumption DEF Init, StoreInit, SchemaInv, StoreTypeOK, SchemaIsWhole
<1>2. SchemaInv /\ [Next]_vars => SchemaInv'
  <2> SUFFICES ASSUME SchemaInv, [Next]_vars PROVE SchemaInv'
    OBVIOUS
  <2>1. CASE UNCHANGED storeVars
    BY <2>1 DEF SchemaInv, StoreTypeOK, SchemaIsWhole, storeVars
  <2>2. CASE \E p \in Proc : Open(p) \/ applyMigration(p) \/ Close(p)
    BY <2>2, SchemaInvStep
  <2> QED
    BY <2>1, <2>2, StoreSteps
<1> QED
  BY <1>1, <1>2, PTL DEF Spec

\* Whatever the processes do and whatever their releases, each migration runs exactly once,
\* in order, and no process works on a database older than its release
\* (store/migrations.go:388-430).
THEOREM EachMigrationOnce == Spec => []SchemaIsWhole
<1>1. SchemaInv => SchemaIsWhole
  BY DEF SchemaInv
<1> QED
  BY <1>1, SchemaHolds, PTL


-----------------------------------------------------------------------------
(* Cache trims. *)

\* The lock is held through a trim; what was resolved stays checked; the builds a trim could
\* have seen still run, so at the command, which none may use, there are none.
TrimInv ==
    /\ pc \in [Proc -> Phases] /\ link \in Targets /\ target \in [Proc -> Targets]
    /\ users \subseteq User /\ seen \in [Proc -> SUBSET User]
    /\ trimLock \in Proc \cup {NoProc} /\ \A p \in Proc : trimLock = p <=> pc[p] \in TrimPhases
    /\ \A p \in Proc : pc[p] \in {"measure", "users", "trim"} => target[p] # "archive_only"
    /\ \A p \in Proc : seen[p] \subseteq users
    /\ \A p \in Proc : Trims(p) => seen[p] = {}

\* A step of a process that neither is nor comes into a trim.
LEMMA AwayFromTrims ==
    ASSUME TrimInv, NEW p \in Proc, pc[p] \notin TrimPhases, NEW l \in Phases \ TrimPhases,
           Goto(p, l), UNCHANGED <<link, users, trimLock, target, seen>>
    PROVE  TrimInv'
<1>1. pc' \in [Proc -> Phases] /\ pc'[p] = l /\ \A q \in Proc \ {p} : pc'[q] = pc[q]
  BY DEF Goto, TrimInv
<1> QED
  BY <1>1 DEF TrimInv, Trims, At, TrimPhases

\* The end of a process.
LEMMA LeavesTrims ==
    ASSUME TrimInv, NEW p \in Proc, NEW l \in Phases \ TrimPhases, NEW told,
           Leave(p, told), Goto(p, l), UNCHANGED <<link, users>>
    PROVE  TrimInv'
<1>1. pc' \in [Proc -> Phases] /\ pc'[p] = l /\ \A q \in Proc \ {p} : pc'[q] = pc[q]
  BY DEF Goto, TrimInv
<1>2. /\ target' \in [Proc -> Targets] /\ \A q \in Proc \ {p} : target'[q] = target[q]
      /\ seen' \in [Proc -> SUBSET User] /\ seen'[p] = {} /\ \A q \in Proc \ {p} : seen'[q] = seen[q]
      /\ trimLock' = IF trimLock = p THEN NoProc ELSE trimLock
  BY DEF Leave, TrimInv, Targets
<1> QED
  BY <1>1, <1>2, DailyAssumption DEF TrimInv, Trims, At, TrimPhases

\* The machine and its builds.
LEMMA WorldTrims ==
    ASSUME TrimInv, Tick \/ Relink \/ (\E u \in User : Builds(u) \/ Leaves(u))
                        \/ (\E w \in Watcher : Cancel(w))
    PROVE  TrimInv'
<1>1. CASE Tick \/ Relink \/ \E w \in Watcher : Cancel(w)
  BY <1>1 DEF Tick, Relink, Cancel, TrimInv, mine, locks, Trims, At
<1>2. ASSUME NEW u \in User, Builds(u)
      PROVE  TrimInv'
  BY <1>2 DEF Builds, TrimInv, mine, locks, Trims, At
<1>3. ASSUME NEW u \in User, Leaves(u)
      PROVE  TrimInv'
  BY <1>3 DEF Leaves, TrimInv, mine, locks, Trims, At
<1> QED
  BY <1>1, <1>2, <1>3

\* The end of a trim, with nothing said of its locks yet.
LEMMA EndsTrims ==
    ASSUME TrimInv, NEW p \in Cycle \cup Watcher, pc[p] \in TrimPhases,
           NEW outcome, EndTrims(p, outcome),
           UNCHANGED <<link, users>>
    PROVE  TrimInv'
<1>1. p \in Proc /\ AfterTrims(p) \in Phases \ TrimPhases
  BY DailyAssumption DEF AfterTrims, Phases, TrimPhases
<1>2. pc' \in [Proc -> Phases] /\ pc'[p] = AfterTrims(p) /\ \A q \in Proc \ {p} : pc'[q] = pc[q]
  BY <1>1 DEF EndTrims, Goto, TrimInv
<1>3. /\ target' \in [Proc -> Targets] /\ \A q \in Proc \ {p} : target'[q] = target[q]
      /\ seen' \in [Proc -> SUBSET User] /\ seen'[p] = {} /\ \A q \in Proc \ {p} : seen'[q] = seen[q]
      /\ trimLock' = NoProc
  BY <1>1 DEF EndTrims, TrimInv, Targets
<1>4. \A q \in Proc \ {p} : pc[q] \notin TrimPhases
  BY <1>1 DEF TrimInv
<1> QED
  BY <1>1, <1>2, <1>3, <1>4, DailyAssumption DEF TrimInv, Trims, At, TrimPhases

\* A step of a trim keeps the invariant.
LEMMA TrimSteps ==
    ASSUME TrimInv, NEW p \in Cycle \cup Watcher, TrimStep(p)
    PROVE  TrimInv'
<1>1. p \in Proc /\ p # NoProc
  BY DailyAssumption
<1>2. CASE TryLockTrim(p)
  <2>1. CASE TrimFree(p)
    <3>1. trimLock' = p /\ \A q \in Proc : pc[q] \notin TrimPhases
      BY <1>2, <2>1, DailyAssumption DEF TryLockTrim, TrimFree, TrimInv
    <3>2. pc' \in [Proc -> Phases] /\ pc'[p] = "resolve" /\ \A q \in Proc \ {p} : pc'[q] = pc[q]
      BY <1>1, <1>2, <2>1 DEF TryLockTrim, Goto, TrimInv, Phases, TrimPhases
    <3>3. /\ seen' = [seen EXCEPT ![p] = users]
          /\ UNCHANGED <<link, users, target>>
      BY <1>2, <2>1 DEF TryLockTrim, world, mine
    <3> QED
      BY <1>1, <3>1, <3>2, <3>3 DEF TrimInv, Trims, At, TrimPhases
  <2>2. CASE ~TrimFree(p)
    <3>1. pc[p] \notin TrimPhases /\ AfterTrims(p) \in Phases \ TrimPhases
      BY <1>2 DEF TryLockTrim, At, AfterTrims, Phases, TrimPhases
    <3> QED
      BY <1>1, <1>2, <2>2, <3>1, AwayFromTrims DEF TryLockTrim, world, mine
  <2> QED
    BY <2>1, <2>2
<1>3. CASE Resolve(p)
  <2>1. CASE link = "archive_only"
    BY <1>3, <2>1, EndsTrims DEF Resolve, At, TrimPhases, world
  <2>2. CASE link # "archive_only"
    <3>1. /\ target' = [target EXCEPT ![p] = link] /\ pc' = [pc EXCEPT ![p] = "measure"]
          /\ pc[p] = "resolve" /\ UNCHANGED <<link, users, trimLock, seen>>
      BY <1>3, <2>2 DEF Resolve, Goto, At, world
    <3> QED
      BY <1>1, <2>2, <3>1 DEF TrimInv, Trims, At, TrimPhases, Phases
  <2> QED
    BY <2>1, <2>2
<1>4. CASE Measure(p)
  <2>1. CASE EndTrims(p, "under_bound")
    BY <1>4, <2>1, EndsTrims DEF Measure, At, TrimPhases, world
  <2>2. CASE ~EndTrims(p, "under_bound")
    <3>1. pc' = [pc EXCEPT ![p] = "users"] /\ pc[p] = "measure" /\ UNCHANGED <<link, users, trimLock, seen, target>>
      BY <1>4, <2>2 DEF Measure, Goto, At, world
    <3> QED
      BY <1>1, <3>1 DEF TrimInv, Trims, At, TrimPhases, Phases
  <2> QED
    BY <2>1, <2>2
<1>5. CASE LooksForUsers(p)
  <2>1. CASE EndTrims(p, "skipped_in_use")
    BY <1>5, <2>1, EndsTrims DEF LooksForUsers, At, TrimPhases, world
  <2>2. CASE ~EndTrims(p, "skipped_in_use")
    <3>1. /\ users = {} /\ pc' = [pc EXCEPT ![p] = "trim"] /\ pc[p] = "users"
          /\ UNCHANGED <<link, users, trimLock, seen, target>>
      BY <1>5, <2>2 DEF LooksForUsers, cacheUsers, Goto, At, world
    <3> QED
      BY <1>1, <3>1 DEF TrimInv, Trims, At, TrimPhases, Phases
  <2> QED
    BY <2>1, <2>2
<1>6. CASE RunTrim(p)
  BY <1>6, EndsTrims DEF RunTrim, At, TrimPhases
<1> QED
  BY <1>2, <1>3, <1>4, <1>5, <1>6 DEF TrimStep


\* The steps of a cycle other than its trims.
LEMMA CycleTrims ==
    ASSUME TrimInv, NEW p \in Cycle, CycleStep(p)
    PROVE  TrimInv'
<1>1. p \in Proc
  BY DailyAssumption
<1>2. {"idle", "due", "category", "lock", "scan", "clock", "sample", "alert", "inventory", "recovery",
       "quarantine", "trims", "expiry", "end", "complete", "report"} \subseteq Phases \ TrimPhases
  BY DEF Phases, StorePhases, TrimPhases, Scanning
<1>3. CASE \/ Start(p) \/ DeepScanDue(p) \/ Categories(p) \/ LockScan(p) \/ Sample(p)
           \/ ClaimDiskAlert(p) \/ InventoryReport(p) \/ RecordDeep(p) \/ RunRecovery(p)
           \/ AutoQuarantine(p) \/ Expiry(p) \/ RecordCompletedCycle(p)
  <2>1. /\ UNCHANGED <<link, users, trimLock, target, seen>> /\ pc[p] \notin TrimPhases
        /\ \E l \in {"due", "category", "lock", "scan", "alert", "inventory", "recovery", "sample",
                    "quarantine", "trims", "end", "report"} : Goto(p, l)
    BY <1>3 DEF Start, DeepScanDue, Categories, LockScan, Sample, ClaimDiskAlert, InventoryReport,
       RecordDeep, RunRecovery, AutoQuarantine, Expiry, RecordCompletedCycle, At, TrimPhases,
       world, locks, mine
  <2> QED
    BY <1>1, <1>2, <2>1, AwayFromTrims
<1>4. CASE RunScan(p)
  <2>1. /\ UNCHANGED <<link, users, trimLock, target, seen>> /\ pc[p] \notin TrimPhases
        /\ Goto(p, "clock") \/ Goto(p, "sample")
    BY <1>4 DEF RunScan, At, TrimPhases, world, locks
  <2> QED
    BY <1>1, <1>2, <2>1, AwayFromTrims
<1>5. CASE RecoveryFails(p) \/ ExpiryFails(p) \/ LateSampleFails(p) \/ Report(p)
  <2>1. Goto(p, "idle") /\ Leave(p, TRUE) /\ UNCHANGED <<link, users>>
    BY <1>5 DEF RecoveryFails, ExpiryFails, LateSampleFails, Report, LeaveWithReport, world
  <2> QED
    BY <1>1, <1>2, <2>1, LeavesTrims
<1>6. CASE End(p)
  <2>1. CASE QuarantineFailed(p)
    <3>1. Goto(p, "idle") /\ Leave(p, TRUE) /\ UNCHANGED <<link, users>>
      BY <1>6, <2>1 DEF End, LeaveWithReport, world
    <3> QED
      BY <1>1, <1>2, <3>1, LeavesTrims
  <2>2. CASE ~QuarantineFailed(p)
    <3>1. /\ UNCHANGED <<link, users, trimLock, target, seen>> /\ pc[p] \notin TrimPhases
          /\ Goto(p, "complete")
      BY <1>6, <2>2 DEF End, At, TrimPhases, world, locks, mine
    <3> QED
      BY <1>1, <1>2, <3>1, AwayFromTrims
  <2> QED
    BY <2>1, <2>2
<1> QED
  BY <1>3, <1>4, <1>5, <1>6 DEF CycleStep

\* The watchers, the commands, and what may end any process.
LEMMA OtherTrims ==
    ASSUME TrimInv,
           \/ \E w \in Watcher : Interval(w) \/ ReportTrims(w) \/ ReportLost(w)
           \/ \E d \in Command : Invoke(d) \/ Works(d)
           \/ \E p \in Cycle \cup Command : OpensStore(p) \/ Aborts(p) \/ Refused(p)
           \/ \E p \in Proc : Dies(p)
    PROVE  TrimInv'
<1>1. {"idle", "stopped", "trims", "command"} \subseteq Phases \ TrimPhases
  BY DEF Phases, StorePhases, TrimPhases, Scanning
<1>2. ASSUME NEW p \in Proc, Interval(p) \/ Invoke(p) \/ Works(p)
      PROVE  TrimInv'
  <2>1. /\ UNCHANGED <<link, users, trimLock, target, seen>> /\ pc[p] \notin TrimPhases
        /\ \E l \in {"idle", "trims", "command"} : Goto(p, l)
    BY <1>2 DEF Interval, Invoke, Works, At, TrimPhases, world, locks, mine
  <2> QED
    BY <1>1, <2>1, AwayFromTrims
<1>3. ASSUME NEW p \in Proc, ReportTrims(p) \/ ReportLost(p) \/ Aborts(p) \/ Refused(p) \/ Dies(p)
      PROVE  TrimInv'
  <2>1. /\ UNCHANGED <<link, users>> /\ (Goto(p, "idle") \/ Goto(p, "stopped"))
        /\ (Leave(p, FALSE) \/ Leave(p, TRUE) \/ Leave(p, Reports(p)))
    BY <1>3 DEF ReportTrims, ReportLost, Aborts, Refused, Dies, LeaveWithReport, world
  <2> QED
    BY <1>1, <2>1, LeavesTrims
<1>4. ASSUME NEW p \in Proc, OpensStore(p)
      PROVE  TrimInv'
  BY <1>4 DEF OpensStore, world, locks, mine, TrimInv, Trims, At
<1> QED
  BY <1>2, <1>3, <1>4, DailyAssumption

\* The invariant of the trims in every execution.
LEMMA TrimHolds == Spec => []TrimInv
<1>1. Init => TrimInv
  BY DailyAssumption DEF Init, TrimInv, Phases, TrimPhases, Targets, Trims, At
<1>2. TrimInv /\ [Next]_vars => TrimInv'
  <2> SUFFICES ASSUME TrimInv, [Next]_vars PROVE TrimInv'
    OBVIOUS
  <2>1. CASE UNCHANGED vars
    BY <2>1 DEF vars, world, locks, mine, TrimInv, Trims, At
  <2>2. CASE Next
    BY <2>2, WorldTrims, CycleTrims, OtherTrims, TrimSteps DEF Next
  <2> QED
    BY <2>1, <2>2
<1> QED
  BY <1>1, <1>2, PTL DEF Spec

\* Of any number of cycles and watchers at most one trims, on the path it checked, never one
\* inside an archive_only root, and never while a build it could have seen is still running,
\* however often the link is turned and wherever a process dies (cache_trim.go:109-145, 186-191).
THEOREM TrimsAreSafe == Spec => []TrimIsSafe
<1>1. TrimInv => TrimIsSafe
  BY DEF TrimInv, TrimIsSafe, TrimTarget, Trims, At, TrimPhases
<1> QED
  BY <1>1, TrimHolds, PTL

-----------------------------------------------------------------------------
(* The end of a cycle, and what it tells. *)

AfterQuarantine == TrimPhases \cup {"trims", "expiry", "end", "complete"}
AfterRecovery   == AfterQuarantine \cup {"quarantine"}
AfterAlert      == AfterRecovery \cup {"inventory", "recovery", "report"}

\* Of one process: past each step of its cycle that step succeeded, or left the one error that
\* bars the record; what only a report tells is there only where the next end without a report
\* is a failure of the inventory or the record, or where a watcher must report.
Earned(p) ==
    /\ p \in Cycle /\ pc[p] \in AfterRecovery => opts[p] \cap {"recovery"} \subseteq ok[p]
    /\ p \in Cycle /\ pc[p] \in AfterQuarantine => opts[p] \cap {"quarantine"} \subseteq ok[p] \cup kept[p]
    /\ p \in Cycle /\ pc[p] \in {"end", "complete"} => opts[p] \cap {"expiry"} \subseteq ok[p]
    /\ p \in Cycle /\ pc[p] = "complete" => "quarantine" \notin kept[p]
Tells(p) ==
    /\ "trim" \in did[p] => \/ p \in Cycle /\ pc[p] \in {"expiry", "end", "complete", "report"}
                            \/ p \in Watcher /\ pc[p] = "report" /\ acted(p)
    /\ "alert" \in did[p] => p \in Cycle /\ pc[p] \in AfterAlert

EndTypes ==
    /\ pc \in [Proc -> Phases] /\ opts \in [Proc -> Options \cup {{}}] /\ ok \in [Proc -> SUBSET Steps]
    /\ kept \in [Proc -> SUBSET {"quarantine"}] /\ status \in [Proc -> Statuses]
    /\ did \in [Proc -> SUBSET Effects] /\ lost \subseteq Effects
EndInv == EndTypes /\ \A p \in Proc : Earned(p) /\ Tells(p)

\* Only p has moved.
Alone(p) ==
    \A q \in Proc \ {p} : /\ pc'[q] = pc[q] /\ opts'[q] = opts[q] /\ ok'[q] = ok[q] /\ kept'[q] = kept[q]
                          /\ status'[q] = status[q] /\ did'[q] = did[q]

\* Then p alone decides.
LEMMA OneMoves ==
    ASSUME EndInv, NEW p \in Proc, EndTypes', Alone(p), Earned(p)', Tells(p)'
    PROVE  EndInv'
BY DEF EndInv, Alone, Earned, Tells, acted

\* A process that ends has nothing left to earn or to tell.
LEMMA LeavesNothing ==
    ASSUME EndInv, NEW p \in Proc, NEW told, Leave(p, told), Goto(p, "idle") \/ Goto(p, "stopped")
    PROVE  EndInv'
<1>1. EndTypes'
  <2>1. pc' \in [Proc -> Phases]
    BY DEF EndInv, EndTypes, Goto, Phases
  <2>2. opts' \in [Proc -> Options \cup {{}}] /\ ok' \in [Proc -> SUBSET Steps]
    BY DEF EndInv, EndTypes, Leave
  <2>3. kept' \in [Proc -> SUBSET {"quarantine"}] /\ status' \in [Proc -> Statuses]
    BY DEF EndInv, EndTypes, Leave, Statuses
  <2>4. did' \in [Proc -> SUBSET Effects] /\ lost' \subseteq Effects
    BY DEF EndInv, EndTypes, Leave
  <2> QED
    BY <2>1, <2>2, <2>3, <2>4 DEF EndTypes
<1>2. Alone(p)
  BY DEF EndInv, EndTypes, Leave, Goto, Alone
<1>3. pc'[p] \in {"idle", "stopped"} /\ did'[p] = {} /\ opts'[p] = {}
  BY DEF EndInv, EndTypes, Leave, Goto
<1>4. Earned(p)' /\ Tells(p)'
  BY <1>3 DEF Earned, Tells, AfterRecovery, AfterQuarantine, TrimPhases
<1> QED
  BY <1>1, <1>2, <1>4, OneMoves

\* A step of p that goes somewhere and leaves the rest of it as it was.
LEMMA OnlyGoes ==
    ASSUME EndInv, NEW p \in Proc, NEW l \in Phases, Goto(p, l),
           UNCHANGED <<opts, ok, kept, status, did, lost>>, Earned(p)', Tells(p)'
    PROVE  EndInv'
<1>1. EndTypes' /\ Alone(p)
  BY DEF EndInv, EndTypes, Goto, Alone
<1> QED
  BY <1>1, OneMoves

\* Steps of a cycle that change none of it, up to its recovery and from its record.
LEMMA QuietSteps ==
    ASSUME EndInv, NEW p \in Cycle,
           \/ DeepScanDue(p) \/ LockScan(p) \/ RunScan(p) \/ RecordDeep(p) \/ Sample(p)
           \/ InventoryReport(p) \/ RecordCompletedCycle(p)
    PROVE  EndInv'
<1>1. p \in Proc
  BY DailyAssumption
<1>2. /\ UNCHANGED <<opts, ok, kept, status, did, lost>>
      /\ \/ /\ pc[p] \in {"due", "lock", "scan", "clock", "sample"}
            /\ \E l \in {"category", "scan", "clock", "sample", "alert"} : Goto(p, l)
         \/ pc[p] = "inventory" /\ Goto(p, "recovery")
         \/ pc[p] = "complete" /\ Goto(p, "report")
  BY DEF DeepScanDue, LockScan, RunScan, RecordDeep, Sample, InventoryReport, RecordCompletedCycle,
     At, mine
<1>3. PICK l \in Phases : Goto(p, l)
  BY <1>2 DEF Phases, StorePhases, TrimPhases, Scanning
<1>4. Earned(p) /\ Tells(p) /\ pc'[p] = l
  BY <1>1, <1>3 DEF EndInv, EndTypes, Goto
<1>5. Earned(p)' /\ Tells(p)'
  BY <1>2, <1>3, <1>4, DailyAssumption DEF Earned, Tells, AfterAlert, AfterRecovery, AfterQuarantine, TrimPhases,
     EndInv, EndTypes, Goto
<1> QED
  BY <1>1, <1>2, <1>3, <1>5, OnlyGoes

\* Steps of a cycle that change what it has earned, or what it has to tell.
LEMMA EarningSteps ==
    ASSUME EndInv, NEW p \in Cycle,
           \/ Start(p) \/ Categories(p) \/ ClaimDiskAlert(p) \/ RunRecovery(p)
           \/ AutoQuarantine(p) \/ Expiry(p)
    PROVE  EndInv'
<1>1. p \in Proc /\ p \notin Watcher
  BY DailyAssumption
<1>2. Earned(p) /\ Tells(p) /\ pc \in [Proc -> Phases] /\ did[p] \subseteq Effects
  BY <1>1 DEF EndInv, EndTypes
<1> USE DEF Earned, Tells, AfterAlert, AfterRecovery, AfterQuarantine, TrimPhases, At, Goto, Alone
<1>3. CASE Start(p) \/ Categories(p)
  <2>1. /\ UNCHANGED <<ok, kept, status, did, lost>> /\ pc[p] \in {"idle", "category"}
        /\ pc' = [pc EXCEPT ![p] = "due"] \/ pc' = [pc EXCEPT ![p] = "lock"]
    BY <1>3 DEF Start, Categories
  <2>2. opts' = opts \/ \E o \in Options : opts' = [opts EXCEPT ![p] = o]
    BY <1>3 DEF Start, Categories
  <2>3. opts' \in [Proc -> Options \cup {{}}] /\ \A q \in Proc \ {p} : opts'[q] = opts[q]
    BY <1>1, <2>2 DEF EndInv, EndTypes
  <2>4. pc' \in [Proc -> Phases] /\ pc'[p] \in {"due", "lock"} /\ \A q \in Proc \ {p} : pc'[q] = pc[q]
    BY <1>1, <1>2, <2>1 DEF Phases, StorePhases
  <2>5. EndTypes' /\ Alone(p)
    BY <2>1, <2>3, <2>4 DEF EndInv, EndTypes
  <2>6. Earned(p)' /\ Tells(p)'
    BY <1>2, <2>1, <2>4
  <2> QED
    BY <1>1, <2>5, <2>6, OneMoves
<1>4. CASE ClaimDiskAlert(p)
  <2>1. /\ UNCHANGED <<opts, ok, kept, status, lost>> /\ pc[p] = "alert" /\ pc' = [pc EXCEPT ![p] = "inventory"]
        /\ did' = did \/ did' = [did EXCEPT ![p] = did[p] \cup {"alert"}]
    BY <1>4 DEF ClaimDiskAlert
  <2>2. /\ did' \in [Proc -> SUBSET Effects] /\ did'[p] \subseteq did[p] \cup {"alert"}
        /\ \A q \in Proc \ {p} : did'[q] = did[q]
    BY <1>1, <2>1 DEF EndInv, EndTypes, Effects
  <2>3. pc' \in [Proc -> Phases] /\ pc'[p] = "inventory" /\ \A q \in Proc \ {p} : pc'[q] = pc[q]
    BY <1>1, <1>2, <2>1 DEF Phases, StorePhases
  <2>4. EndTypes' /\ Alone(p)
    BY <2>1, <2>2, <2>3 DEF EndInv, EndTypes
  <2>5. Earned(p)' /\ Tells(p)'
    BY <1>1, <1>2, <2>1, <2>2, <2>3
  <2> QED
    BY <1>1, <2>4, <2>5, OneMoves
<1>5. ASSUME NEW step \in Steps, NEW from \in Phases, NEW to \in Phases,
             pc[p] = from, pc' = [pc EXCEPT ![p] = to], Does(p, step),
             UNCHANGED <<opts, kept, status, did, lost>>,
             <<step, from, to>> \in {<<"recovery", "recovery", "quarantine">>,
                 <<"quarantine", "quarantine", "trims">>, <<"expiry", "expiry", "end">>}
      PROVE  EndInv'
  <2>1. /\ ok' \in [Proc -> SUBSET Steps] /\ ok'[p] = ok[p] \cup (opts[p] \cap {step})
        /\ \A q \in Proc \ {p} : ok'[q] = ok[q]
    BY <1>1, <1>5 DEF EndInv, EndTypes, Does
  <2>2. pc' \in [Proc -> Phases] /\ pc'[p] = to /\ \A q \in Proc \ {p} : pc'[q] = pc[q]
    BY <1>1, <1>2, <1>5
  <2>3. EndTypes' /\ Alone(p)
    BY <1>5, <2>1, <2>2 DEF EndInv, EndTypes
  <2>4. Earned(p)' /\ Tells(p)'
    BY <1>1, <1>2, <1>5, <2>1, <2>2
  <2> QED
    BY <1>1, <2>3, <2>4, OneMoves
<1>6. CASE RunRecovery(p)
  BY <1>5, <1>6 DEF RunRecovery, Steps, Phases, Scanning
<1>7. CASE Expiry(p)
  BY <1>5, <1>7 DEF Expiry, Steps, Phases
<1>8. CASE AutoQuarantine(p)
  <2>1. CASE Does(p, "quarantine") /\ UNCHANGED kept
    BY <1>5, <1>8, <2>1 DEF AutoQuarantine, Steps, Phases, Scanning
  <2>2. CASE kept' = [kept EXCEPT ![p] = kept[p] \cup {"quarantine"}] /\ UNCHANGED ok
    <3>1. /\ kept' \in [Proc -> SUBSET {"quarantine"}] /\ kept'[p] = kept[p] \cup {"quarantine"}
          /\ \A q \in Proc \ {p} : kept'[q] = kept[q]
      BY <1>1, <2>2 DEF EndInv, EndTypes
    <3>2. UNCHANGED <<opts, ok, status, did, lost>> /\ pc[p] = "quarantine" /\ pc' = [pc EXCEPT ![p] = "trims"]
      BY <1>8, <2>2 DEF AutoQuarantine
    <3>3. pc' \in [Proc -> Phases] /\ pc'[p] = "trims" /\ \A q \in Proc \ {p} : pc'[q] = pc[q]
      BY <1>1, <1>2, <3>2 DEF Phases
    <3>4. EndTypes' /\ Alone(p)
      BY <3>1, <3>2, <3>3 DEF EndInv, EndTypes
    <3>5. Earned(p)' /\ Tells(p)'
      BY <1>1, <1>2, <3>1, <3>2, <3>3
    <3> QED
      BY <1>1, <3>4, <3>5, OneMoves
  <2> QED
    BY <1>8, <2>1, <2>2 DEF AutoQuarantine
<1> QED
  BY <1>3, <1>4, <1>6, <1>7, <1>8

\* A step of a trim, of a cycle or of a watcher.
LEMMA TrimsTell ==
    ASSUME EndInv, NEW p \in Cycle \cup Watcher, TrimStep(p)
    PROVE  EndInv'
<1>1. p \in Proc /\ ~(p \in Cycle /\ p \in Watcher)
  BY DailyAssumption
<1>2. Earned(p) /\ Tells(p) /\ pc \in [Proc -> Phases] /\ did[p] \subseteq Effects
  BY <1>1 DEF EndInv, EndTypes
<1>3. /\ UNCHANGED <<opts, ok, kept, lost>> /\ pc[p] \in TrimPhases \cup {"trims"}
      /\ (\E l \in TrimPhases : Goto(p, l) /\ UNCHANGED <<status, did>>)
           \/ (\E o \in Statuses : Goto(p, AfterTrims(p)) /\ Ended(p, o) /\ UNCHANGED did)
           \/ (\E o \in {"trimmed", "failed"} : /\ Goto(p, AfterTrims(p)) /\ Ended(p, o)
                                                /\ did' = [did EXCEPT ![p] = @ \cup {"trim"}])
  <2> USE DEF At, TrimPhases, mine, Statuses
  <2>1. CASE TryLockTrim(p)
    BY <2>1 DEF TryLockTrim
  <2>2. CASE Resolve(p)
    BY <2>2 DEF Resolve, EndTrims
  <2>3. CASE Measure(p)
    BY <2>3 DEF Measure, EndTrims
  <2>4. CASE LooksForUsers(p)
    BY <2>4 DEF LooksForUsers, EndTrims
  <2>5. CASE RunTrim(p)
    BY <2>5 DEF RunTrim, EndTrims
  <2> QED
    BY <2>1, <2>2, <2>3, <2>4, <2>5 DEF TrimStep
<1> USE DEF Earned, Tells, AfterAlert, AfterRecovery, AfterQuarantine, TrimPhases, Goto, Alone
<1>4. CASE \E l \in TrimPhases : Goto(p, l) /\ UNCHANGED <<status, did>>
  <2>1. PICK l \in TrimPhases : pc' = [pc EXCEPT ![p] = l] /\ UNCHANGED <<status, did>>
    BY <1>4
  <2>2. pc' \in [Proc -> Phases] /\ pc'[p] = l /\ \A q \in Proc \ {p} : pc'[q] = pc[q]
    BY <1>1, <1>2, <2>1 DEF Phases
  <2>3. EndTypes' /\ Alone(p)
    BY <1>3, <2>1, <2>2 DEF EndInv, EndTypes
  <2>4. Earned(p)' /\ Tells(p)'
    BY <1>1, <1>2, <1>3, <2>1, <2>2
  <2> QED
    BY <1>1, <2>3, <2>4, OneMoves
<1>5. ASSUME NEW o \in Statuses, Goto(p, AfterTrims(p)), Ended(p, o),
             UNCHANGED did \/ (o \in {"trimmed", "failed"} /\ did' = [did EXCEPT ![p] = did[p] \cup {"trim"}])
      PROVE  EndInv'
  <2>1. /\ did' \in [Proc -> SUBSET Effects] /\ did'[p] \subseteq did[p] \cup {"trim"}
        /\ "trim" \in did'[p] => "trim" \in did[p] \/ o \in {"trimmed", "failed"}
        /\ \A q \in Proc \ {p} : did'[q] = did[q]
    BY <1>1, <1>5 DEF EndInv, EndTypes, Effects
  <2>2. /\ status' \in [Proc -> Statuses]
        /\ p \in Watcher => status'[p] = o
        /\ \A q \in Proc \ {p} : status'[q] = status[q]
    BY <1>1, <1>5 DEF EndInv, EndTypes, Ended
  <2>3. AfterTrims(p) = IF p \in Cycle THEN "expiry" ELSE "report"
    BY DEF AfterTrims
  <2>4. pc' \in [Proc -> Phases] /\ pc'[p] = AfterTrims(p) /\ \A q \in Proc \ {p} : pc'[q] = pc[q]
    BY <1>1, <1>2, <1>5, <2>3 DEF Phases
  <2>5. EndTypes' /\ Alone(p)
    BY <1>3, <2>1, <2>2, <2>4 DEF EndInv, EndTypes
  <2>6. Earned(p)'
    BY <1>2, <1>3, <2>3, <2>4
  <2>7. Tells(p)'
    BY <1>1, <1>2, <1>3, <2>1, <2>2, <2>3, <2>4 DEF acted
  <2> QED
    BY <1>1, <2>5, <2>6, <2>7, OneMoves
<1>6. {"trimmed", "failed"} \subseteq Statuses
  BY DEF Statuses
<1> QED
  BY <1>3, <1>4, <1>5, <1>6

\* Every step of a cycle.
LEMMA CycleEnds ==
    ASSUME EndInv, NEW p \in Cycle, CycleStep(p)
    PROVE  EndInv'
<1>1. p \in Proc /\ p \notin Watcher
  BY DailyAssumption
<1>2. CASE RecoveryFails(p) \/ ExpiryFails(p) \/ LateSampleFails(p) \/ Report(p)
  BY <1>1, <1>2, LeavesNothing DEF RecoveryFails, ExpiryFails, LateSampleFails, Report, LeaveWithReport
<1>3. CASE End(p)
  <2>1. CASE QuarantineFailed(p)
    BY <1>1, <1>3, <2>1, LeavesNothing DEF End, LeaveWithReport
  <2>2. CASE ~QuarantineFailed(p)
    <3>1. Goto(p, "complete") /\ pc[p] = "end" /\ UNCHANGED <<opts, ok, kept, status, did, lost>>
      BY <1>3, <2>2 DEF End, At, mine
    <3>2. pc'[p] = "complete" /\ Earned(p) /\ Tells(p)
      BY <1>1, <3>1 DEF EndInv, EndTypes, Goto
    <3>3. Earned(p)' /\ Tells(p)'
      BY <1>1, <2>2, <3>1, <3>2 DEF Earned, Tells, QuarantineFailed, AfterAlert, AfterRecovery,
         AfterQuarantine
    <3>4. "complete" \in Phases
      BY DEF Phases, StorePhases
    <3> QED
      BY <1>1, <3>1, <3>3, <3>4, OnlyGoes
  <2> QED
    BY <2>1, <2>2
<1> QED
  BY <1>2, <1>3, QuietSteps, EarningSteps DEF CycleStep

\* Nobody else's step changes what a process has to tell, but the watcher that reports.
LEMMA OtherEnds ==
    ASSUME EndInv,
           \/ \E w \in Watcher : Interval(w) \/ ReportTrims(w) \/ ReportLost(w)
           \/ \E d \in Command : Invoke(d) \/ Works(d)
           \/ \E p \in Cycle \cup Watcher : TrimStep(p)
           \/ \E p \in Cycle \cup Command : OpensStore(p) \/ Aborts(p) \/ Refused(p)
           \/ \E p \in Proc : Dies(p)
    PROVE  EndInv'
<1>1. ASSUME NEW p \in Proc, p \notin Cycle, Interval(p) \/ Invoke(p) \/ Works(p)
      PROVE  EndInv'
  <2>1. /\ UNCHANGED <<opts, ok, kept, status, did, lost>> /\ pc[p] \in {"idle", "command"}
        /\ \E l \in {"idle", "trims", "command"} : Goto(p, l)
    BY <1>1 DEF Interval, Invoke, Works, At, mine
  <2>2. PICK l \in Phases : Goto(p, l)
    BY <2>1 DEF Phases, StorePhases, Scanning
  <2>3. Earned(p) /\ Tells(p)
    BY DEF EndInv
  <2>4. Earned(p)' /\ Tells(p)'
    BY <1>1, <2>1, <2>3 DEF Earned, Tells
  <2> QED
    BY <2>1, <2>2, <2>4, OnlyGoes
<1>2. ASSUME NEW p \in Proc, ReportTrims(p) \/ ReportLost(p) \/ Aborts(p) \/ Refused(p) \/ Dies(p)
      PROVE  EndInv'
  BY <1>2, LeavesNothing DEF ReportTrims, ReportLost, Aborts, Refused, Dies
<1>3. ASSUME NEW p \in Proc, OpensStore(p)
      PROVE  EndInv'
  BY <1>3 DEF OpensStore, mine, EndInv, EndTypes, Earned, Tells, acted
<1> QED
  BY <1>1, <1>2, <1>3, TrimsTell, DailyAssumption

\* The invariant of the ends in every execution.
LEMMA EndHolds == Spec => []EndInv
<1>1. Init => EndInv
  BY DEF Init, EndInv, EndTypes, Earned, Tells, Phases, Statuses, AfterRecovery, AfterQuarantine, TrimPhases
<1>2. EndInv /\ [Next]_vars => EndInv'
  <2> SUFFICES ASSUME EndInv, [Next]_vars PROVE EndInv'
    OBVIOUS
  <2>1. CASE UNCHANGED vars
    BY <2>1 DEF vars, mine, EndInv, EndTypes, Earned, Tells, acted
  <2>2. CASE Tick \/ Relink \/ (\E u \in User : Builds(u) \/ Leaves(u)) \/ \E w \in Watcher : Cancel(w)
    BY <2>2 DEF Tick, Relink, Builds, Leaves, Cancel, mine, EndInv, EndTypes, Earned, Tells, acted
  <2>3. CASE Next
    BY <2>2, <2>3, CycleEnds, OtherEnds DEF Next
  <2> QED
    BY <2>1, <2>3
<1> QED
  BY <1>1, <1>2, PTL DEF Spec

\* However many cycles run and fail side by side, and whatever policy each is left with after
\* its category archives, none is recorded as complete unless the recovery, the quarantine and
\* the expiry that policy enables have each run and succeeded in it (cycle.go:69-72, 148-180).
THEOREM CompletedCyclesAreWhole == Spec => CompletionIsEarned
<1>1. EndInv /\ [Next]_vars =>
        [\A p \in Cycle :
            At(p, "complete") /\ pc'[p] = "report" => opts[p] \cap Steps \subseteq ok[p]]_vars
  <2> SUFFICES ASSUME EndInv, NEW p \in Cycle, At(p, "complete") PROVE opts[p] \cap Steps \subseteq ok[p]
    OBVIOUS
  <2>1. Earned(p) /\ pc[p] = "complete" /\ kept[p] \subseteq {"quarantine"}
    BY DailyAssumption DEF EndInv, EndTypes, At
  <2> QED
    BY <2>1 DEF Earned, AfterRecovery, AfterQuarantine, Steps
<1> QED
  BY <1>1, EndHolds, PTL DEF Spec, CompletionIsEarned

\* What a step leaves untold.
LEMMA LossStep ==
    ASSUME EndInv, Next
    PROVE  /\ "trim" \in lost' \ lost => FailsAt("complete")
           /\ "alert" \in lost' \ lost => FailsAt("inventory") \/ FailsAt("complete")
<1>1. ASSUME UNCHANGED lost \/ \E p \in Proc : Leave(p, TRUE)
      PROVE  lost' = lost
  BY <1>1 DEF Leave
<1>2. CASE Tick \/ Relink \/ (\E u \in User : Builds(u) \/ Leaves(u)) \/ \E w \in Watcher : Cancel(w)
  BY <1>2 DEF Tick, Relink, Builds, Leaves, Cancel
<1>3. ASSUME NEW p \in Cycle, CycleStep(p)
      PROVE  lost' = lost
  BY <1>3 DEF CycleStep, Start, DeepScanDue, Categories, LockScan, RunScan, RecordDeep, Sample,
     ClaimDiskAlert, InventoryReport, RunRecovery, RecoveryFails, AutoQuarantine, Expiry,
     ExpiryFails, End, LateSampleFails, RecordCompletedCycle, Report, LeaveWithReport, Leave
<1>4. CASE \/ \E w \in Watcher : Interval(w) \/ ReportLost(w)
           \/ \E d \in Command : Invoke(d) \/ Works(d)
           \/ \E p \in Cycle \cup Watcher : TrimStep(p)
           \/ \E p \in Cycle \cup Command : OpensStore(p)
           \/ \E p \in Proc : Dies(p)
  BY <1>4 DEF Interval, ReportLost, Invoke, Works, TrimStep, TryLockTrim, Resolve, Measure,
     LooksForUsers, RunTrim, OpensStore, Dies, Leave
<1>5. ASSUME NEW w \in Watcher, ReportTrims(w)
      PROVE  lost' \subseteq lost
  <2>1. Tells(w) /\ pc[w] = "report" /\ w \notin Cycle /\ Leave(w, Reports(w)) /\ did[w] \subseteq Effects
    BY <1>5, DailyAssumption DEF ReportTrims, At, EndInv, EndTypes
  <2>2. ~Reports(w) => did[w] = {}
    BY <2>1 DEF Tells, Reports, Effects
  <2> QED
    BY <2>1, <2>2 DEF Leave
<1>6. ASSUME NEW p \in Cycle \cup Command, Aborts(p) \/ Refused(p)
      PROVE  /\ "trim" \in lost' \ lost => FailsAt("complete")
             /\ "alert" \in lost' \ lost => FailsAt("inventory") \/ FailsAt("complete")
  <2>1. /\ p \in Proc /\ Tells(p) /\ p \notin Watcher /\ pc \in [Proc -> Phases]
        /\ pc' = [pc EXCEPT ![p] = "idle"] /\ lost' = lost \cup did[p]
        /\ pc[p] \in StorePhases \cup {"category", "lock", "sample"}
    BY <1>6, DailyAssumption DEF Aborts, Refused, Goto, Leave, EndInv, EndTypes
  <2>2. pc'[p] = "idle"
    BY <2>1
  <2>3. "trim" \in did[p] => p \in Cycle /\ pc[p] = "complete"
    BY <2>1 DEF Tells, StorePhases
  <2>4. "alert" \in did[p] => p \in Cycle /\ pc[p] \in {"inventory", "complete"}
    BY <2>1 DEF Tells, StorePhases, AfterAlert, AfterRecovery, AfterQuarantine, TrimPhases
  <2> QED
    BY <2>1, <2>2, <2>3, <2>4 DEF FailsAt, At
<1> QED
  BY <1>2, <1>3, <1>4, <1>5, <1>6 DEF Next

\* Of any number of cycles and watchers, however they fail and are stopped: what a trim deleted
\* and the alert that was claimed are told, but for the ends without a report that the
\* property names (cache_trim.go:20-24, 41-48, cycle.go:148-150, 174-178).
THEOREM TrimsAreTold == Spec => OnRecord
<1>1. EndInv /\ [Next]_vars =>
        [/\ "trim" \in lost' \ lost => FailsAt("complete")
         /\ "alert" \in lost' \ lost => FailsAt("inventory") \/ FailsAt("complete")]_vars
  BY LossStep
<1> QED
  BY <1>1, EndHolds, PTL DEF Spec, OnRecord

-----------------------------------------------------------------------------
(* Types, and who has the scan lock. *)

\* From its scan to its quarantine a cycle has the lock, and nobody else is there.
ScanLockInv ==
    /\ pc \in [Proc -> Phases] /\ scanLock \in Proc \cup {NoProc}
    /\ \A p \in Proc : scanLock = p <=> pc[p] \in Scanning

\* What no other invariant types.
RestTyped ==
    /\ clock \in 0..MaxClock /\ events \in 0..MaxEvents /\ large \in BOOLEAN /\ stopping \subseteq Watcher
    /\ deepAt \in {Never} \cup 0..MaxClock /\ alertAt \in {Never} \cup 0..MaxClock
    /\ deep \in [Proc -> BOOLEAN] /\ now \in [Proc -> 0..MaxClock]

\* A step that leaves the lock alone stays on its side of it.
LEMMA LockStays ==
    ASSUME ScanLockInv, NEW p \in Proc, NEW l \in Phases, Goto(p, l), UNCHANGED scanLock,
           l \in Scanning <=> pc[p] \in Scanning
    PROVE  ScanLockInv'
BY DEF ScanLockInv, Goto

\* A process that ends, or gives the lock back, has no lock.
LEMMA LockIsFreed ==
    ASSUME ScanLockInv, NEW p \in Proc, NEW l \in Phases \ Scanning, Goto(p, l),
           scanLock' = (IF scanLock = p THEN NoProc ELSE scanLock)
    PROVE  ScanLockInv'
<1>1. pc' \in [Proc -> Phases] /\ pc'[p] = l /\ \A q \in Proc \ {p} : pc'[q] = pc[q]
  BY DEF Goto, ScanLockInv
<1> QED
  BY <1>1, DailyAssumption DEF ScanLockInv

\* Every step of a cycle.
LEMMA CycleLocks ==
    ASSUME ScanLockInv, NEW p \in Cycle, CycleStep(p)
    PROVE  ScanLockInv'
<1>1. p \in Proc
  BY DailyAssumption
<1> USE DEF At, Phases, StorePhases, TrimPhases, Scanning
<1>2. CASE \/ Start(p) \/ DeepScanDue(p) \/ Categories(p) \/ RunScan(p) \/ RecordDeep(p) \/ Sample(p)
           \/ ClaimDiskAlert(p) \/ InventoryReport(p) \/ RunRecovery(p) \/ Expiry(p)
           \/ RecordCompletedCycle(p)
  <2>1. /\ UNCHANGED scanLock
        /\ \E l \in Phases : Goto(p, l) /\ (l \in Scanning <=> pc[p] \in Scanning)
    BY <1>2 DEF Start, DeepScanDue, Categories, RunScan, RecordDeep, Sample, ClaimDiskAlert,
       InventoryReport, RunRecovery, Expiry, RecordCompletedCycle, locks
  <2> QED
    BY <1>1, <2>1, LockStays
<1>3. CASE LockScan(p)
  <2>1. pc' = [pc EXCEPT ![p] = "scan"] /\ scanLock = NoProc /\ scanLock' = p /\ pc[p] = "lock"
    BY <1>3 DEF LockScan, Goto
  <2> QED
    BY <1>1, <2>1, DailyAssumption DEF ScanLockInv
<1>4. CASE AutoQuarantine(p)
  <2>1. Goto(p, "trims") /\ scanLock' = NoProc /\ scanLock = p
    BY <1>1, <1>4 DEF AutoQuarantine, ScanLockInv
  <2> QED
    BY <1>1, <2>1, LockIsFreed
<1>5. CASE RecoveryFails(p) \/ ExpiryFails(p) \/ LateSampleFails(p) \/ Report(p)
  BY <1>1, <1>5, LockIsFreed DEF RecoveryFails, ExpiryFails, LateSampleFails, Report, LeaveWithReport, Leave
<1>6. CASE End(p)
  <2>1. CASE QuarantineFailed(p)
    BY <1>1, <1>6, <2>1, LockIsFreed DEF End, LeaveWithReport, Leave
  <2>2. CASE ~QuarantineFailed(p)
    BY <1>1, <1>6, <2>2, LockStays DEF End, locks
  <2> QED
    BY <2>1, <2>2
<1> QED
  BY <1>2, <1>3, <1>4, <1>5, <1>6 DEF CycleStep

\* Every step of anybody else.
LEMMA OtherLocks ==
    ASSUME ScanLockInv,
           \/ \E w \in Watcher : Interval(w) \/ ReportTrims(w) \/ ReportLost(w)
           \/ \E d \in Command : Invoke(d) \/ Works(d)
           \/ \E p \in Cycle \cup Watcher : TrimStep(p)
           \/ \E p \in Cycle \cup Command : OpensStore(p) \/ Aborts(p) \/ Refused(p)
           \/ \E p \in Proc : Dies(p)
    PROVE  ScanLockInv'
<1> USE DEF At, Phases, StorePhases, TrimPhases, Scanning
<1>1. ASSUME NEW p \in Proc, Interval(p) \/ Invoke(p) \/ Works(p)
      PROVE  ScanLockInv'
  BY <1>1, LockStays DEF Interval, Invoke, Works, locks
<1>2. ASSUME NEW p \in Proc, ReportTrims(p) \/ ReportLost(p) \/ Aborts(p) \/ Refused(p) \/ Dies(p)
      PROVE  ScanLockInv'
  <2>1. scanLock' = (IF scanLock = p THEN NoProc ELSE scanLock) /\ (Goto(p, "idle") \/ Goto(p, "stopped"))
    BY <1>2 DEF ReportTrims, ReportLost, Aborts, Refused, Dies, LeaveWithReport, Leave
  <2> QED
    BY <2>1, LockIsFreed
<1>3. ASSUME NEW p \in Proc, OpensStore(p)
      PROVE  ScanLockInv'
  BY <1>3 DEF OpensStore, locks, ScanLockInv
<1>4. ASSUME NEW p \in Proc, TrimStep(p)
      PROVE  ScanLockInv'
  <2>1. /\ UNCHANGED scanLock
        /\ \E l \in Phases : Goto(p, l) /\ (l \in Scanning <=> pc[p] \in Scanning)
    BY <1>4 DEF TrimStep, TryLockTrim, Resolve, Measure, LooksForUsers, RunTrim, EndTrims, AfterTrims
  <2> QED
    BY <2>1, LockStays
<1> QED
  BY <1>1, <1>2, <1>3, <1>4, DailyAssumption

\* The lock is where the cycle is, in every execution.
LEMMA ScanLockHolds == Spec => []ScanLockInv
<1>1. Init => ScanLockInv
  BY DailyAssumption DEF Init, ScanLockInv, Phases, StorePhases, TrimPhases, Scanning
<1>2. ScanLockInv /\ [Next]_vars => ScanLockInv'
  <2> SUFFICES ASSUME ScanLockInv, [Next]_vars PROVE ScanLockInv'
    OBVIOUS
  <2>1. CASE UNCHANGED vars
    BY <2>1 DEF vars, locks, ScanLockInv
  <2>2. CASE Tick \/ Relink \/ (\E u \in User : Builds(u) \/ Leaves(u)) \/ \E w \in Watcher : Cancel(w)
    BY <2>2 DEF Tick, Relink, Builds, Leaves, Cancel, locks, ScanLockInv
  <2>3. CASE Next
    BY <2>2, <2>3, CycleLocks, OtherLocks DEF Next
  <2> QED
    BY <2>1, <2>3
<1> QED
  BY <1>1, <1>2, PTL DEF Spec

\* The end of a process keeps the types of what it had.
LEMMA LeavesTyped ==
    ASSUME RestTyped, NEW p \in Proc, NEW told, Leave(p, told)
    PROVE  deep' \in [Proc -> BOOLEAN] /\ now' \in [Proc -> 0..MaxClock]
<1>1. MaxClock \in Nat /\ 0 \in 0..MaxClock
  BY DailyAssumption
<1>2. deep' = [deep EXCEPT ![p] = FALSE]
  BY DEF Leave
<1>3. now' = [now EXCEPT ![p] = 0]
  BY DEF Leave
<1>4. now' \in [Proc -> 0..MaxClock]
  BY <1>1, <1>3 DEF RestTyped
<1>5. deep' \in [Proc -> BOOLEAN]
  BY <1>2 DEF RestTyped
<1> QED
  BY <1>4, <1>5

\* A step of the cycle keeps the other types.
LEMMA CycleRest ==
    ASSUME RestTyped, NEW p \in Cycle, CycleStep(p)
    PROVE  RestTyped'
<1>1. p \in Proc /\ MaxClock \in Nat /\ MaxEvents \in Nat /\ 0 \in 0..MaxClock
  BY DailyAssumption
<1> USE DEF RestTyped
<1>2. CASE Start(p) \/ Categories(p) \/ LockScan(p) \/ InventoryReport(p) \/ RecordCompletedCycle(p)
           \/ RunRecovery(p) \/ AutoQuarantine(p) \/ Expiry(p)
  BY <1>2 DEF Start, Categories, LockScan, InventoryReport, RecordCompletedCycle, RunRecovery,
     AutoQuarantine, Expiry, world, rows, mine
<1>3. CASE DeepScanDue(p)
  BY <1>1, <1>3 DEF DeepScanDue, world, rows
<1>4. CASE RunScan(p)
  <2>1. /\ UNCHANGED <<clock, events, large, stopping, deepAt, alertAt>>
        /\ deep' = [deep EXCEPT ![p] = FALSE] /\ now' = [now EXCEPT ![p] = clock]
    BY <1>4 DEF RunScan, world, rows
  <2>2. now' \in [Proc -> 0..MaxClock]
    BY <1>1, <2>1
  <2>3. deep' \in [Proc -> BOOLEAN]
    BY <1>1, <2>1
  <2> QED
    BY <2>1, <2>2, <2>3
<1>5. CASE RecordDeep(p)
  BY <1>1, <1>5 DEF RecordDeep, world, mine
<1>6. CASE Sample(p)
  BY <1>1, <1>6 DEF Sample, world, rows
<1>7. CASE ClaimDiskAlert(p)
  <2>1. /\ UNCHANGED <<clock, events, large, stopping, deepAt, deep>> /\ now' = [now EXCEPT ![p] = 0]
        /\ alertAt' \in {alertAt, now[p]}
    BY <1>7 DEF ClaimDiskAlert, world
  <2> QED
    BY <1>1, <2>1
<1>8. CASE RecoveryFails(p) \/ ExpiryFails(p) \/ LateSampleFails(p) \/ Report(p) \/ End(p)
  <2>1. /\ UNCHANGED <<clock, large, stopping, deepAt, alertAt>>
        /\ events' \in 0..MaxEvents
        /\ LeaveWithReport(p) \/ UNCHANGED <<deep, now>>
    BY <1>1, <1>8 DEF RecoveryFails, ExpiryFails, LateSampleFails, Report, End, Happens, world, rows, mine
  <2> QED
    BY <1>1, <2>1, LeavesTyped DEF LeaveWithReport
<1> QED
  BY <1>2, <1>3, <1>4, <1>5, <1>6, <1>7, <1>8 DEF CycleStep

\* So does a step of anybody else.
LEMMA OtherRest ==
    ASSUME RestTyped,
           \/ \E w \in Watcher : Interval(w) \/ ReportTrims(w) \/ ReportLost(w)
           \/ \E d \in Command : Invoke(d) \/ Works(d)
           \/ \E p \in Cycle \cup Watcher : TrimStep(p)
           \/ \E p \in Cycle \cup Command : OpensStore(p) \/ Aborts(p) \/ Refused(p)
           \/ \E p \in Proc : Dies(p)
    PROVE  RestTyped'
<1>1. MaxClock \in Nat /\ MaxEvents \in Nat /\ 0 \in 0..MaxClock
  BY DailyAssumption
<1> USE DEF RestTyped
<1>2. ASSUME NEW p \in Proc, Interval(p) \/ Invoke(p) \/ Works(p) \/ OpensStore(p)
      PROVE  RestTyped'
  BY <1>2 DEF Interval, Invoke, Works, OpensStore, world, rows, mine
<1>3. ASSUME NEW p \in Proc, ReportTrims(p) \/ ReportLost(p) \/ Aborts(p) \/ Refused(p) \/ Dies(p)
      PROVE  RestTyped'
  <2>1. UNCHANGED <<clock, large, stopping, deepAt, alertAt>> /\ \E told \in {TRUE, FALSE, Reports(p)} : Leave(p, told)
    BY <1>3 DEF ReportTrims, ReportLost, Aborts, Refused, Dies, world, rows
  <2>2. UNCHANGED events \/ Happens
    BY <1>3 DEF ReportTrims, ReportLost, Aborts, Refused, Dies, world
  <2>3. events' \in 0..MaxEvents
    BY <1>1, <2>2 DEF Happens
  <2> QED
    BY <2>1, <2>3, LeavesTyped
<1>4. ASSUME NEW p \in Proc, TrimStep(p)
      PROVE  RestTyped'
  <2>1. UNCHANGED <<clock, events, stopping, deepAt, alertAt, deep, now>> /\ large' \in BOOLEAN
    BY <1>4 DEF TrimStep, TryLockTrim, Resolve, Measure, LooksForUsers, RunTrim, world, rows
  <2> QED
    BY <2>1
<1> QED
  BY <1>2, <1>3, <1>4, DailyAssumption

\* Every variable of cycles, watchers and commands keeps its type; the scan lock is held by
\* the one cycle between its scan and its quarantine, the trim lock by the one process that
\* is in a trim (cycle.go:82-97, cache_trim.go:109-123).
THEOREM TypeCorrect == Spec => []TypeOK
<1>0. MaxClock \in Nat /\ MaxEvents \in Nat /\ 0 \in 0..MaxClock
  BY DailyAssumption
<1>1. Init => RestTyped
  <2> SUFFICES ASSUME Init PROVE RestTyped
    OBVIOUS
  <2>1. /\ clock = 0 /\ events = 0 /\ large = TRUE /\ stopping = {} /\ deepAt = Never /\ alertAt = Never
        /\ now = [p \in Proc |-> 0]
    BY DEF Init
  <2>2. deep \in [Proc -> BOOLEAN]
    BY DEF Init
  <2>3. clock \in 0..MaxClock /\ events \in 0..MaxEvents /\ now \in [Proc -> 0..MaxClock]
    BY <1>0, <2>1
  <2> QED
    BY <2>1, <2>2, <2>3 DEF RestTyped
<1>2. RestTyped /\ [Next]_vars => RestTyped'
  <2> SUFFICES ASSUME RestTyped, [Next]_vars PROVE RestTyped'
    OBVIOUS
  <2>1. CASE UNCHANGED vars
    BY <2>1 DEF vars, world, rows, mine, RestTyped
  <2>2. CASE Tick \/ Relink \/ (\E u \in User : Builds(u) \/ Leaves(u)) \/ \E w \in Watcher : Cancel(w)
    <3>1. clock' \in 0..MaxClock /\ events' \in 0..MaxEvents
      BY <1>0, <2>2 DEF Tick, Relink, Builds, Leaves, Cancel, Happens, RestTyped
    <3>2. /\ large' \in {large, TRUE} /\ stopping' \subseteq stopping \cup Watcher
          /\ UNCHANGED <<deepAt, alertAt, deep, now>>
      BY <2>2 DEF Tick, Relink, Builds, Leaves, Cancel, rows, mine
    <3> QED
      BY <3>1, <3>2 DEF RestTyped
  <2>3. CASE Next
    BY <2>2, <2>3, CycleRest, OtherRest DEF Next
  <2> QED
    BY <2>1, <2>3
<1>3. SchemaInv /\ TrimInv /\ EndInv /\ ScanLockInv /\ RestTyped => TypeOK
  BY DEF SchemaInv, TrimInv, EndInv, EndTypes, ScanLockInv, RestTyped, TypeOK
<1> QED
  BY <1>1, <1>2, <1>3, SchemaHolds, TrimHolds, EndHolds, ScanLockHolds, PTL DEF Spec

=============================================================================
