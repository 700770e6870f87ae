----------------------------- MODULE DailyCycle -----------------------------
(***************************************************************************)
(* `janitor cycle` (internal/cli/cycle.go) and the watcher's cache trims   *)
(* (internal/cli/cache_trim.go): the order of the cycle's steps, which of  *)
(* their errors end it and which are kept for its end, the scan and trim   *)
(* locks, the disk alert it claims (internal/cli/disk_alert.go), the deep  *)
(* scan clock, and the report it prints.  What its steps do to the         *)
(* workspace is in CleanupEngine, CategoryArchives, ScratchCleanup,        *)
(* Capacity and ScanHistory; here they succeed or fail.                    *)
(***************************************************************************)
EXTENDS StoreOpen, FiniteSets

CONSTANTS
    Cycle,              \* processes: cycles
    Watcher,            \* processes: the trim loops of the watchers
    Command,            \* processes: other commands that open the store
    NoProc,
    Options,            \* what the policy enables, one set per policy
    User,               \* builds that use the cache
    DeepInterval, AlertInterval,
    MaxClock, MaxEvents \* bounds: the clock; builds, links and failures

Steps == {"recovery", "quarantine", "expiry"}

ASSUME DailyAssumption ==
    /\ Proc = Cycle \cup Watcher \cup Command /\ NoProc \notin Proc
    /\ Cycle \cap (Watcher \cup Command) = {} /\ Watcher \cap Command = {}
    /\ Options \subseteq SUBSET (Steps \cup {"delete", "category"})
    /\ {DeepInterval, AlertInterval} \subseteq Nat \ {0} /\ {MaxClock, MaxEvents} \subseteq Nat

Never == 0 - MaxClock - DeepInterval - AlertInterval

VARIABLES
    clock, events,
    link,           \* what the configured cache path resolves to
    large,          \* the cache is over its bound
    users,          \* builds that use it
    stopping,       \* watchers whose context is cancelled
    deepAt,         \* prevention_state: the last completed deep scan
    alertAt,        \* disk_alerts: when the last alert was claimed
    scanLock, trimLock,
    pc, opts, deep,
    now,            \* when a cycle's scan finished; then, when it began to look at the disks
    kept,           \* errors a cycle keeps that decide its end
    target,         \* the path a trim has resolved and checked
    status,         \* how the trim of a watcher ended
    \* history
    ok,             \* the steps that have run and succeeded in a cycle
    did,            \* what a process has done that only its report tells
    lost,           \* what no report will tell although its process came to an end of its own
    seen            \* builds that have run since before a trim took its lock

world == <<clock, events, link, large, users, stopping>>
rows  == <<deepAt, alertAt>>
locks == <<scanLock, trimLock>>
mine  == <<opts, deep, now, kept, target, status, ok, did>>
vars  == <<world, rows, locks, pc, mine, lost, seen, storeVars>>

Targets == {"cache", "archive_only"}
Statuses == {"none", "trimmed", "under_bound", "skipped_in_use", "failed", "skipped_trim_running"}
\* Moves and deletions of the other steps have receipts, journals and activities of their own.
Effects == {"alert", "trim"}

\* Steps that work on the store, through a handle of their own.
StorePhases == {"due", "scan", "clock", "alert", "inventory", "complete", "command"}
TrimPhases  == {"resolve", "measure", "users", "trim"}
Scanning    == {"scan", "clock", "sample", "alert", "inventory", "recovery", "quarantine"}
Phases == StorePhases \cup TrimPhases \cup Scanning
              \cup {"idle", "category", "lock", "trims", "expiry", "end", "report", "stopped"}

TypeOK ==
    /\ StoreTypeOK /\ clock \in 0..MaxClock /\ events \in 0..MaxEvents 
    /\ link \in Targets /\ large \in BOOLEAN /\ users \subseteq User /\ stopping \subseteq Watcher
    /\ {deepAt, alertAt} \subseteq {Never} \cup 0..MaxClock
    /\ {scanLock, trimLock} \subseteq Proc \cup {NoProc} /\ pc \in [Proc -> Phases]
    /\ opts \in [Proc -> Options \cup {{}}] /\ deep \in [Proc -> BOOLEAN] /\ now \in [Proc -> 0..MaxClock]
    /\ kept \in [Proc -> SUBSET {"quarantine"}] /\ target \in [Proc -> Targets]
    /\ status \in [Proc -> Statuses] /\ ok \in [Proc -> SUBSET Steps]
    /\ did \in [Proc -> SUBSET Effects] /\ lost \subseteq Effects /\ seen \in [Proc -> SUBSET User]
    /\ \A p \in Proc : /\ scanLock = p <=> pc[p] \in Scanning
                       /\ trimLock = p <=> pc[p] \in TrimPhases

At(p, l) == pc[p] = l
Goto(p, l) == pc' = [pc EXCEPT ![p] = l]
Happens == events < MaxEvents /\ events' = events + 1

-----------------------------------------------------------------------------
(* The machine, its builds and its owner. *)

Tick ==
    /\ clock < MaxClock /\ clock' = clock + 1
    /\ UNCHANGED <<events, link, large, users, stopping, rows, locks, pc, mine, lost, seen, storeVars>>
\* The configured path is a symbolic link that its owner may turn.
Relink ==
    /\ Happens /\ link' \in Targets \ {link}
    /\ UNCHANGED <<clock, large, users, stopping, rows, locks, pc, mine, lost, seen, storeVars>>
Builds(u) ==
    /\ Happens /\ u \notin users /\ users' = users \cup {u} /\ large' = TRUE
    /\ UNCHANGED <<clock, link, stopping, rows, locks, pc, mine, lost, seen, storeVars>>
Leaves(u) ==
    /\ u \in users /\ users' = users \ {u} /\ seen' = [p \in Proc |-> seen[p] \ {u}]
    /\ UNCHANGED <<clock, events, link, large, stopping, rows, locks, pc, mine, lost, storeVars>>
Cancel(w) ==
    /\ Happens /\ w \notin stopping /\ stopping' = stopping \cup {w}
    /\ UNCHANGED <<clock, link, large, users, rows, locks, pc, mine, lost, seen, storeVars>>

-----------------------------------------------------------------------------
(* How a process ends: its locks and its handle go with it. *)

Leave(p, told) ==
    /\ lost' = (IF told THEN lost ELSE lost \cup did[p])
    /\ scanLock' = (IF scanLock = p THEN NoProc ELSE scanLock)
    /\ trimLock' = (IF trimLock = p THEN NoProc ELSE trimLock)
    /\ opts' = [opts EXCEPT ![p] = {}] /\ deep' = [deep EXCEPT ![p] = FALSE] /\ now' = [now EXCEPT ![p] = 0]
    /\ kept' = [kept EXCEPT ![p] = {}] /\ target' = [target EXCEPT ![p] = "cache"]
    /\ status' = [status EXCEPT ![p] = "none"] /\ ok' = [ok EXCEPT ![p] = {}]
    /\ did' = [did EXCEPT ![p] = {}] /\ seen' = [seen EXCEPT ![p] = {}]
    /\ Close(p)
LeaveWithReport(p) == Leave(p, TRUE)

\* The error of a step that ends the cycle without its report, after whatever it did.
Aborts(p) ==
    /\ Happens /\ pc[p] \in StorePhases \cup {"category", "lock", "sample"}
    /\ Leave(p, FALSE) /\ Goto(p, "idle")
    /\ UNCHANGED <<clock, link, large, users, stopping, rows>>
\* The store of a newer release is refused.
Refused(p) ==
    /\ pc[p] \in StorePhases /\ handle[p] = "closed" /\ Newer(p)
    /\ Leave(p, FALSE) /\ Goto(p, "idle") /\ UNCHANGED <<world, rows>>
\* Of a process that is killed no report is expected; it counts as told.
Dies(p) ==
    /\ Happens /\ ~At(p, "idle") /\ ~At(p, "stopped")
    /\ Leave(p, TRUE) /\ Goto(p, "idle")
    /\ UNCHANGED <<clock, link, large, users, stopping, rows>>

-----------------------------------------------------------------------------
(* The cycle, up to its scan. *)

OpensStore(p) ==
    /\ pc[p] \in StorePhases /\ (Open(p) \/ applyMigration(p))
    /\ UNCHANGED <<world, rows, locks, pc, mine, lost, seen>>

\* Any other command opens the store, works and closes it.
Invoke(d) ==
    /\ At(d, "idle") /\ Goto(d, "command")
    /\ UNCHANGED <<world, rows, locks, mine, lost, seen, storeVars>>
Works(d) ==
    /\ At(d, "command") /\ handle[d] = "open" /\ Close(d) /\ Goto(d, "idle")
    /\ UNCHANGED <<world, rows, locks, mine, lost, seen>>

\* auto_expire requires delete_enabled.
Start(p) ==
    /\ At(p, "idle") /\ Goto(p, "due")
    /\ \E o \in Options : ("expiry" \in o => "delete" \in o) /\ opts' = [opts EXCEPT ![p] = o]
    /\ UNCHANGED <<world, rows, locks, deep, now, kept, target, status, ok, did, lost, seen, storeVars>>

\* deepScanDue: without a database, or with none of its time recorded, the scan is deep.
DeepScanDue(p) ==
    /\ At(p, "due") /\ Goto(p, "category")
    /\ \/ user_version = 0 /\ handle[p] = "closed" /\ deep' = [deep EXCEPT ![p] = TRUE] /\ UNCHANGED storeVars
       \/ /\ handle[p] = "open" /\ Close(p)
          /\ deep' = [deep EXCEPT ![p] = deepAt + DeepInterval <= clock \/ "recovery" \in opts[p]]
    /\ UNCHANGED <<world, rows, locks, opts, now, kept, target, status, ok, did, lost, seen>>

\* Category archives and scratch runs.  Their failures, and those of trims, join what the cycle
\* returns in the end and decide nothing.  After category archives the policy is loaded again,
\* and neither deep nor what Start asked of the policy is looked at again.
Categories(p) ==
    /\ At(p, "category") /\ Goto(p, "lock")
    /\ IF "category" \in opts[p]
       THEN \E o \in Options : opts' = [opts EXCEPT ![p] = o]
       ELSE UNCHANGED opts
    /\ UNCHANGED <<world, rows, locks, deep, now, kept, target, status, ok, did, lost, seen, storeVars>>
LockScan(p) ==
    /\ At(p, "lock") /\ scanLock = NoProc /\ scanLock' = p /\ Goto(p, "scan")
    /\ UNCHANGED <<world, rows, trimLock, mine, lost, seen, storeVars>>
RunScan(p) ==
    /\ At(p, "scan") /\ handle[p] = "open" /\ Close(p)
    /\ Goto(p, IF deep[p] THEN "clock" ELSE "sample") /\ deep' = [deep EXCEPT ![p] = FALSE]
    /\ now' = [now EXCEPT ![p] = clock]
    /\ UNCHANGED <<world, rows, locks, opts, kept, target, status, ok, did, lost, seen>>
\* RecordDeepScan, of the time the scan finished, when its sizes were measured.
RecordDeep(p) ==
    /\ At(p, "clock") /\ handle[p] = "open" /\ Close(p) /\ Goto(p, "sample")
    /\ deepAt' \in {deepAt, now[p]}
    /\ UNCHANGED <<world, alertAt, locks, mine, lost, seen>>

-----------------------------------------------------------------------------
(* The disk alert, recovery and quarantine. *)

Sample(p) ==
    /\ At(p, "sample") /\ now' = [now EXCEPT ![p] = clock] /\ Goto(p, "alert")
    /\ UNCHANGED <<world, rows, locks, opts, deep, kept, target, status, ok, did, lost, seen, storeVars>>
\* When free space is below the threshold, and no alert was claimed within the interval.
ClaimDiskAlert(p) ==
    /\ At(p, "alert") /\ handle[p] = "open" /\ Close(p) /\ Goto(p, "inventory")
    /\ \/ UNCHANGED <<alertAt, did>>
       \/ /\ alertAt <= now[p] - AlertInterval
          /\ alertAt' = now[p] /\ did' = [did EXCEPT ![p] = @ \cup {"alert"}]
    /\ now' = [now EXCEPT ![p] = 0]
    /\ UNCHANGED <<world, deepAt, locks, opts, deep, kept, target, status, ok, lost, seen>>
InventoryReport(p) ==
    /\ At(p, "inventory") /\ handle[p] = "open" /\ Close(p) /\ Goto(p, "recovery")
    /\ UNCHANGED <<world, rows, locks, mine, lost, seen>>

\* A step succeeds; one that the policy does not enable is passed over.
Does(p, step) == ok' = [ok EXCEPT ![p] = @ \cup (opts[p] \cap {step})]

\* An error of the recovery ends the cycle, with its report.
RunRecovery(p) ==
    /\ At(p, "recovery") /\ Goto(p, "quarantine") /\ Does(p, "recovery")
    /\ UNCHANGED <<world, rows, locks, opts, deep, now, kept, target, status, did, lost, seen, storeVars>>
RecoveryFails(p) ==
    /\ At(p, "recovery") /\ "recovery" \in opts[p] /\ Happens
    /\ LeaveWithReport(p) /\ Goto(p, "idle")
    /\ UNCHANGED <<clock, link, large, users, stopping, rows>>

\* autoQuarantine; its error is kept, and the scan lock released.
AutoQuarantine(p) ==
    /\ At(p, "quarantine") /\ scanLock' = NoProc /\ Goto(p, "trims")
    /\ \/ Does(p, "quarantine") /\ UNCHANGED kept
       \/ "quarantine" \in opts[p] /\ kept' = [kept EXCEPT ![p] = @ \cup {"quarantine"}] /\ UNCHANGED ok
    /\ UNCHANGED <<world, rows, trimLock, opts, deep, now, target, status, did, lost, seen, storeVars>>

-----------------------------------------------------------------------------
(* runCacheTrims, of a cycle or of a watcher's loop. *)

AfterTrims(p) == IF p \in Cycle THEN "expiry" ELSE "report"

\* cacheTrimLoop's timer.
Interval(w) ==
    /\ At(w, "idle") /\ w \notin stopping /\ Goto(w, "trims")
    /\ UNCHANGED <<world, rows, locks, mine, lost, seen, storeVars>>

\* A cycle reports every outcome, a watcher only some.
Ended(p, outcome) == status' = [status EXCEPT ![p] = IF p \in Watcher THEN outcome ELSE @]

\* tryLockTrim: a trim that runs elsewhere makes this one nothing.
TrimFree(p) == trimLock = NoProc
TryLockTrim(p) ==
    /\ At(p, "trims")
    /\ IF TrimFree(p)
       THEN trimLock' = p /\ seen' = [seen EXCEPT ![p] = users] /\ Goto(p, "resolve") /\ UNCHANGED status
       ELSE /\ Goto(p, AfterTrims(p)) /\ Ended(p, "skipped_trim_running")
            /\ UNCHANGED <<trimLock, seen>>
    /\ UNCHANGED <<world, rows, scanLock, opts, deep, now, kept, target, ok, did, lost, storeVars>>

EndTrims(p, outcome) ==
    /\ trimLock' = NoProc /\ seen' = [seen EXCEPT ![p] = {}] /\ Goto(p, AfterTrims(p))
    /\ Ended(p, outcome)
    /\ target' = [target EXCEPT ![p] = "cache"]

\* EvalSymlinks, and archiveOnlyTrimRefusal on what it found.
Resolve(p) ==
    /\ At(p, "resolve")
    /\ \/ link = "archive_only" /\ EndTrims(p, "failed")
       \/ /\ link # "archive_only" /\ target' = [target EXCEPT ![p] = link] /\ Goto(p, "measure")
          /\ UNCHANGED <<trimLock, seen, status>>
    /\ UNCHANGED <<world, rows, scanLock, opts, deep, now, kept, ok, did, lost, storeVars>>
\* allocatedBytes; absent ends like under bound.
Measure(p) ==
    /\ At(p, "measure")
    /\ \/ large /\ Goto(p, "users") /\ UNCHANGED <<trimLock, seen, status, target>>
       \/ ~large /\ EndTrims(p, "under_bound")
    /\ UNCHANGED <<world, rows, scanLock, opts, deep, now, kept, ok, did, lost, storeVars>>

\* The command runs on the path that was checked.
Mut_TrimTarget(p) == link
TrimTarget(p) == target[p]
\* cacheUsers, at the last moment.
cacheUsers(p) == users
LooksForUsers(p) ==
    /\ At(p, "users")
    /\ \/ cacheUsers(p) # {} /\ EndTrims(p, "skipped_in_use")
       \/ /\ cacheUsers(p) = {} /\ Goto(p, "trim")
          /\ UNCHANGED <<trimLock, seen, status, target>>
    /\ UNCHANGED <<world, rows, scanLock, opts, deep, now, kept, ok, did, lost, storeVars>>
\* The command may fail, or be cut short with its watcher, after it has deleted.
RunTrim(p) ==
    /\ At(p, "trim") /\ \E outcome \in {"trimmed", "failed"} : EndTrims(p, outcome)
    /\ did' = [did EXCEPT ![p] = @ \cup {"trim"}] /\ large' = FALSE
    /\ UNCHANGED <<clock, events, link, users, stopping, rows, scanLock, opts, deep, now, kept, ok, lost,
                   storeVars>>

\* The watcher reports before it honours the cancellation of its context, which hides the
\* error of a command that was cut short: that its outcome is worth telling makes it told.
Mut_acted(w) == status[w] = "trimmed"
acted(w) == status[w] # "under_bound"
Reports(w) == acted(w) \/ (status[w] = "failed" /\ w \notin stopping)
ReportTrims(w) ==
    /\ At(w, "report") /\ w \in Watcher
    /\ Goto(w, IF w \in stopping THEN "stopped" ELSE "idle")
    /\ Leave(w, Reports(w)) /\ UNCHANGED <<world, rows>>
\* A report that cannot be written ends the watcher with that error, which counts as told.
ReportLost(w) ==
    /\ At(w, "report") /\ w \in Watcher /\ Reports(w) /\ Happens /\ Goto(w, "stopped") /\ Leave(w, TRUE)
    /\ UNCHANGED <<clock, link, large, users, stopping, rows>>

-----------------------------------------------------------------------------
(* Expiry and the end of the cycle. *)

Expiry(p) ==
    /\ At(p, "expiry") /\ Goto(p, "end") /\ Does(p, "expiry")
    /\ UNCHANGED <<world, rows, locks, opts, deep, now, kept, target, status, did, lost, seen, storeVars>>
ExpiryFails(p) ==
    /\ At(p, "expiry") /\ "expiry" \in opts[p] /\ Happens
    /\ LeaveWithReport(p) /\ Goto(p, "idle")
    /\ UNCHANGED <<clock, link, large, users, stopping, rows>>
\* A failed quarantine ends it here, with its report.
Mut_QuarantineFailed(p) == FALSE
QuarantineFailed(p) == "quarantine" \in kept[p]
End(p) ==
    /\ At(p, "end")
    /\ IF QuarantineFailed(p)
       THEN LeaveWithReport(p) /\ Goto(p, "idle")
       ELSE Goto(p, "complete") /\ UNCHANGED <<locks, mine, lost, seen, storeVars>>
    /\ UNCHANGED <<world, rows>>
\* The sample after expiry; its error ends the cycle, with its report.
LateSampleFails(p) ==
    /\ At(p, "end") /\ {"recovery", "expiry"} \subseteq opts[p] /\ ~QuarantineFailed(p) /\ Happens
    /\ LeaveWithReport(p) /\ Goto(p, "idle")
    /\ UNCHANGED <<clock, link, large, users, stopping, rows>>
\* The record itself is in DailyAdvisory; the read that follows it fails as the record does.
RecordCompletedCycle(p) ==
    /\ At(p, "complete") /\ handle[p] = "open" /\ Close(p) /\ Goto(p, "report")
    /\ UNCHANGED <<world, rows, locks, mine, lost, seen>>
Report(p) ==
    /\ At(p, "report") /\ p \in Cycle /\ LeaveWithReport(p) /\ Goto(p, "idle")
    /\ UNCHANGED <<world, rows>>

-----------------------------------------------------------------------------
CycleStep(p) ==
    \/ Start(p) \/ DeepScanDue(p) \/ Categories(p) \/ LockScan(p) \/ RunScan(p)
    \/ RecordDeep(p) \/ Sample(p) \/ ClaimDiskAlert(p) \/ InventoryReport(p) \/ RunRecovery(p)
    \/ RecoveryFails(p) \/ AutoQuarantine(p) \/ Expiry(p) \/ ExpiryFails(p) \/ End(p)
    \/ LateSampleFails(p) \/ RecordCompletedCycle(p) \/ Report(p)
TrimStep(p) == TryLockTrim(p) \/ Resolve(p) \/ Measure(p) \/ LooksForUsers(p) \/ RunTrim(p)

Init ==
    /\ StoreInit /\ clock = 0 /\ events = 0 /\ link = "cache" /\ large = TRUE /\ users = {}
    /\ stopping = {} /\ deepAt = Never /\ alertAt = Never
    /\ scanLock = NoProc /\ trimLock = NoProc /\ pc = [p \in Proc |-> "idle"]
    /\ opts = [p \in Proc |-> {}] /\ deep = [p \in Proc |-> FALSE] /\ now = [p \in Proc |-> 0]
    /\ kept = [p \in Proc |-> {}] /\ target = [p \in Proc |-> "cache"]
    /\ status = [p \in Proc |-> "none"] /\ ok = [p \in Proc |-> {}]
    /\ did = [p \in Proc |-> {}] /\ lost = {} /\ seen = [p \in Proc |-> {}]

Next ==
    \/ Tick \/ Relink
    \/ \E u \in User : Builds(u) \/ Leaves(u)
    \/ \E p \in Cycle : CycleStep(p)
    \/ \E w \in Watcher : Interval(w) \/ ReportTrims(w) \/ ReportLost(w) \/ Cancel(w)
    \/ \E d \in Command : Invoke(d) \/ Works(d)
    \/ \E p \in Cycle \cup Watcher : TrimStep(p)
    \/ \E p \in Cycle \cup Command : OpensStore(p) \/ Aborts(p) \/ Refused(p)
    \/ \E p \in Proc : Dies(p)

Spec == Init /\ [][Next]_vars

-----------------------------------------------------------------------------
\* Of a cycle and the watchers at most one trims, on a path outside every archive_only root
\* whatever the configured link has become, and never while a build it could have seen is
\* still running (cache_trim.go:109-145, 186-191).
Trims(p) == At(p, "trim")
TrimIsSafe ==
    \A p \in Proc : Trims(p) => /\ TrimTarget(p) # "archive_only" /\ seen[p] \cap users = {}
                               /\ \A q \in Proc : Trims(q) => q = p

\* What a trim deleted is told by the process that ran it, whatever fails after the trim and
\* however the command was cut short, unless the store fails the very record of a completed
\* cycle; an alert once claimed is told by every end after the inventory but that one
\* (cache_trim.go:20-24, 41-48, cycle.go:148-150, 174-178; the exceptions are the returns
\* without a report at cycle.go:124, 133, 193 and 207).
FailsAt(l) == \E p \in Cycle : At(p, l) /\ pc'[p] = "idle"
OnRecord ==
    [][/\ "trim" \in lost' \ lost => FailsAt("complete")
       /\ "alert" \in lost' \ lost => FailsAt("inventory") \/ FailsAt("complete")]_vars

\* A cycle is recorded as complete only when the recovery, the quarantine and the expiry that
\* the policy it works with enables have each run and succeeded in it: the first and the last
\* end it with their error, that of the quarantine is kept across trims and expiry, and the
\* policy is exchanged on the way.  Errors of category archives, scratch runs and trims do
\* not count (cycle.go:69-72, 148-180; 82, 162 and 212 for those that do not count).
CompletionIsEarned ==
    [][\A p \in Cycle :
          At(p, "complete") /\ pc'[p] = "report" => opts[p] \cap Steps \subseteq ok[p]]_vars

=============================================================================
