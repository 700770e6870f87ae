-------------------------------- MODULE Watch --------------------------------
(***************************************************************************)
(* `janitor watch` (internal/cli/watch.go, internal/cli/watch_linux.go):   *)
(* the top-level inotify queue, the change gap, the settle revisits, the   *)
(* hourly reconciliation of protected churn and the full scans they share. *)
(*                                                                         *)
(* The directory tree changes and a cycle scans or holds the scan lock     *)
(* between any two steps of the loop.  Timers count down in ticks; nothing *)
(* bounds how long a behaviour runs or how often a path changes.           *)
(***************************************************************************)
EXTENDS Integers, Sequences, SequencesExt

CONSTANTS
    Plain, Protected,   \* paths immediately below a watched root
    Kinds,              \* what a path may be: see KindsAssumption
    QueueSize,          \* bound on the kernel queue: fs.inotify.max_queued_events
    Settle, Gap, Churn, \* the 2 s, watchChangeGap and watchChurnInterval, in ticks
    MaxFailures         \* bound on the failures of the watcher

Path == Plain \cup Protected

ASSUME WatchAssumption ==
    /\ Plain \cap Protected = {} /\ Path # {}
    /\ QueueSize \in Nat \ {0}
    /\ Settle \in Nat \ {0} /\ Gap \in Nat \ {0} /\ Churn \in Nat \ {0}
    /\ MaxFailures \in Nat

VARIABLES
    tree,       \* what is at each path
    known,      \* paths of the latest stored scan
    held,       \* a cycle holds the scan lock
    queue,      \* inotify events not read yet
    pc,
    guard,      \* protectedWatchDirs: the last identity of each protected path
    changed, overflow,                  \* the burst being read
    pendingChanged, pendingOverflow,    \* held back by the gap
    pendingSettle,                      \* directories to revisit
    changeIn, settleIn, churnIn,        \* changeAt, settleAt, churnAt
    sinceScan,                          \* time since lastScan, up to Gap
    revisited,                          \* time since each revisit, Gap when none
    job,                                \* the full scan in progress
    failures,
    \* history, read by properties only
    dirty,      \* changes no scan of the watcher has read
    news        \* what is still to be said of each new path

events  == <<tree, known, held, queue>>
burst   == <<guard, changed, overflow>>
pending == <<pendingChanged, pendingOverflow, pendingSettle>>
timers  == <<changeIn, settleIn, churnIn, sinceScan, revisited>>
history == <<dirty, news>>
vars    == <<events, pc, burst, pending, timers, job, failures, history>>

Absent  == "absent"
Dirs    == {"dir", "other dir"}         \* two identities: a directory moved back keeps its own
Lost    == "overflow"
Never   == -1                           \* the zero time: the timer is off
\* A new path is told of, or is not reported yet; or it was stored by a cycle, by a watcher
\* that then ended, or by a scan that ran before the overflow that lost its event was read.
News    == {"told", "new", "excused"}
Reasons == {"startup", "change", "settled", "churn", "last"}

ASSUME KindsAssumption ==
    Kinds \subseteq Dirs \cup {Absent, "file"} /\ Absent \in Kinds /\ Lost \notin Path

NoJob == [reason |-> "startup", paths |-> {}, overflow |-> TRUE, revisit |-> {}]

-----------------------------------------------------------------------------
(* The directory tree and other scans. *)

\* What the queue becomes: a repeated event may merge with the last one, and a full
\* queue drops the event and holds one overflow.
Enqueue(p) ==
    LET full == Len(queue) >= QueueSize
        merged == IF queue # <<>> /\ Last(queue) = p THEN {queue} ELSE {}
    IN merged \cup {IF ~full THEN Append(queue, p)
                    ELSE IF Contains(queue, Lost) THEN queue ELSE Append(queue, Lost)}

Watching == pc # "off" /\ job.reason # "last"

\* A path is created, replaced, removed or touched.  Nothing is queued while no
\* watch is open.
Change(p, k) ==
    /\ tree' = [tree EXCEPT ![p] = k]
    /\ tree[p] # Absent \/ k # Absent
    /\ queue' \in IF Watching THEN Enqueue(p) ELSE {queue}
    /\ dirty' = [dirty EXCEPT ![p] = TRUE]
    /\ news' = [news EXCEPT ![p] = IF k = Absent THEN "told"
                                   ELSE IF tree[p] = Absent /\ p \notin known THEN "new" ELSE @]
    /\ UNCHANGED <<known, held, pc, burst, pending, timers, job, failures>>

Present == {p \in Path : tree[p] # Absent}

\* A cycle, or a scan by hand, stores the tree and may keep the lock for a while.
CycleScans ==
    /\ ~held
    /\ held' = TRUE
    /\ known' = Present
    /\ news' = [p \in Path |-> IF p \in Present \ known /\ news[p] = "new"
                               THEN "excused" ELSE news[p]]
    /\ UNCHANGED <<tree, queue, pc, burst, pending, timers, job, failures, dirty>>

CycleReleases ==
    /\ held
    /\ held' = FALSE
    /\ UNCHANGED <<tree, known, queue, pc, burst, pending, timers, job, failures, history>>

Down(t) == IF t > 0 THEN t - 1 ELSE t
Up(t) == IF t < Gap THEN t + 1 ELSE t

Tick ==
    /\ changeIn' = Down(changeIn) /\ settleIn' = Down(settleIn) /\ churnIn' = Down(churnIn)
    /\ sinceScan' = Up(sinceScan)
    /\ revisited' = [p \in Path |-> Up(revisited[p])]
    /\ UNCHANGED <<events, pc, burst, pending, job, failures, history>>

-----------------------------------------------------------------------------
(* The loop. *)

Identity(p) == IF tree[p] \in Dirs THEN tree[p] ELSE Absent

\* The memory of a watcher that has just started; one that ended has none.
FreshLoop ==
    /\ queue' = <<>>
    /\ changed' = {} /\ overflow' = FALSE
    /\ pendingChanged' = {} /\ pendingOverflow' = FALSE /\ pendingSettle' = {}
    /\ changeIn' = Never /\ settleIn' = Never /\ churnIn' = Never
    /\ sinceScan' = 0 /\ revisited' = [p \in Path |-> Gap]
    /\ job' = NoJob

\* A watch on every root, the protected identities, then the startup scan.
Start ==
    /\ pc = "off" /\ pc' = "scan"
    /\ FreshLoop
    /\ guard' = [p \in Protected |-> Identity(p)]
    /\ UNCHANGED <<tree, known, held, failures, history>>

\* The watcher ends; the report of what it had stored is lost with it.
Ends ==
    /\ pc' = "off"
    /\ FreshLoop
    /\ guard' = [p \in Protected |-> Absent]
    /\ news' = [p \in Path |-> IF p \in known' /\ news[p] = "new" THEN "excused" ELSE news[p]]
    /\ UNCHANGED <<tree, held, dirty>>

\* protectedWatchDirs.suppress: a protected directory that is still the same.
Suppressed(p) == p \in Protected /\ tree[p] \in Dirs /\ guard[p] = tree[p]

\* watchLoop's add, for the event at the head of the queue.
Take ==
    /\ queue # <<>>
    /\ queue' = Tail(queue)
    /\ LET e == Head(queue) IN
       IF e = Lost
       THEN overflow' = TRUE /\ pc' = "rearm" /\ UNCHANGED <<guard, changed, churnIn>>
       ELSE /\ guard' = IF e \in Protected THEN [guard EXCEPT ![e] = Identity(e)] ELSE guard
            /\ IF Suppressed(e)
               THEN churnIn' = (IF churnIn = Never THEN Churn ELSE churnIn) /\ UNCHANGED changed
               ELSE changed' = changed \cup {e} /\ UNCHANGED churnIn
            /\ pc' = "burst" /\ UNCHANGED overflow
    /\ UNCHANGED <<tree, known, held, pending, changeIn, settleIn, sinceScan, revisited,
                   job, failures, history>>

Due(t) == t = 0

\* watcher.next checks its deadline before it reads, so a timer that is due goes first.
NoneDue == ~Due(changeIn) /\ ~Due(settleIn) /\ ~Due(churnIn)

FirstEvent == pc = "wait" /\ NoneDue /\ Take
NextEvent  == pc = "burst" /\ Take

\* A full scan; it carries everything the gap holds back.
Mut_Carried(o) == o
Carried(o) == o \/ pendingOverflow

StartScan(reason, more, over, revisit) ==
    /\ pc' = "scan"
    /\ job' = [reason |-> reason, paths |-> pendingChanged \cup more, overflow |-> Carried(over),
               revisit |-> revisit]

\* The end of a burst: its changes are scanned now, or when the gap ends.
Held == sinceScan < Gap

\* Mutants: an overflow without a delivered change is not scanned; every burst
\* postpones the scan.
Mut_AfterBurstLost ==
    IF changed = {}
    THEN pc' = "wait" /\ UNCHANGED <<pendingChanged, pendingOverflow, changeIn, job>>
    ELSE /\ pendingChanged' = pendingChanged \cup changed
         /\ pendingOverflow' = (pendingOverflow \/ overflow)
         /\ changeIn' = IF changeIn = Never THEN Gap - sinceScan ELSE changeIn
         /\ pc' = "wait" /\ UNCHANGED job
Mut_AfterBurstDebounced ==
    IF ~overflow /\ changed = {}
    THEN pc' = "wait" /\ UNCHANGED <<pendingChanged, pendingOverflow, changeIn, job>>
    ELSE /\ pendingChanged' = pendingChanged \cup changed
         /\ pendingOverflow' = (pendingOverflow \/ overflow)
         /\ changeIn' = Gap
         /\ pc' = "wait" /\ UNCHANGED job
AfterBurst ==
    IF ~overflow /\ changed = {}
    THEN pc' = "wait" /\ UNCHANGED <<pendingChanged, pendingOverflow, changeIn, job>>
    ELSE /\ pendingChanged' = pendingChanged \cup changed
         /\ pendingOverflow' = (pendingOverflow \/ overflow)
         /\ IF Held
            THEN /\ changeIn' = IF changeIn = Never THEN Gap - sinceScan ELSE changeIn
                 /\ pc' = "wait" /\ UNCHANGED job
            ELSE StartScan("change", changed, overflow, {}) /\ UNCHANGED changeIn

BurstEnds ==
    /\ pc = "burst"
    /\ AfterBurst
    /\ changed' = {}
    /\ UNCHANGED <<events, guard, overflow, pendingSettle, settleIn, churnIn, sinceScan,
                   revisited, failures, history>>

\* After an overflow a new watch replaces the old one, with what was queued on it.
Rearm ==
    /\ pc = "rearm"
    /\ AfterBurst
    /\ queue' = <<>>
    /\ guard' = [p \in Protected |-> Identity(p)]
    /\ changed' = {} /\ overflow' = FALSE
    /\ UNCHANGED <<tree, known, held, pendingSettle, settleIn, churnIn, sinceScan, revisited,
                   failures, history>>

\* It cannot be opened: one last scan without a watch, and the watcher ends.
RearmFails ==
    /\ pc = "rearm" /\ failures < MaxFailures
    /\ failures' = failures + 1
    /\ queue' = <<>>
    /\ pc' = "scan"
    /\ job' = [reason |-> "last", paths |-> changed, overflow |-> TRUE, revisit |-> {}]
    /\ UNCHANGED <<tree, known, held, burst, pending, timers, history>>

\* The deadline passed: held changes, then settling directories, then protected churn.
TimerScan ==
    /\ pc = "wait" /\ ~NoneDue
    /\ IF Due(changeIn)
       THEN StartScan("change", {}, FALSE, {}) /\ UNCHANGED <<pendingSettle, settleIn>>
       ELSE IF Due(settleIn)
       THEN /\ StartScan("settled", pendingSettle, FALSE, pendingSettle)
            /\ pendingSettle' = {} /\ settleIn' = Never
       ELSE StartScan("churn", {}, TRUE, {}) /\ UNCHANGED <<pendingSettle, settleIn>>
    /\ UNCHANGED <<events, burst, pendingChanged, pendingOverflow, changeIn, churnIn,
                   sinceScan, revisited, failures, history>>

-----------------------------------------------------------------------------
(* reconcileWatch and fullScan. *)

New == Present \ known

\* The scan, under the scan lock, and its report.
Reconcile ==
    /\ pc = "scan" /\ ~held
    /\ known' = Present
    /\ dirty' = [p \in Path |-> FALSE]
    /\ LET listed == job.paths \cup (IF job.overflow THEN New ELSE {}) IN
       news' = [p \in Path |->
                  CASE p \in listed -> "told"
                    [] p \in New \ listed /\ news[p] = "new" /\ Contains(queue, Lost) -> "excused"
                    [] OTHER -> news[p]]
    /\ pc' = "done"
    /\ UNCHANGED <<tree, held, queue, burst, pending, timers, job, failures>>

\* The scan fails, or is stored and its report fails: the watcher ends.
ReconcileFails ==
    /\ pc = "scan" /\ failures < MaxFailures
    /\ failures' = failures + 1
    /\ \/ known' = known
       \/ ~held /\ known' = Present
    /\ Ends

\* The process is killed, or another of its loops fails.
Dies ==
    /\ pc # "off" /\ failures < MaxFailures
    /\ failures' = failures + 1
    /\ known' = known
    /\ Ends

\* What the revisit bookkeeping still remembers: revisits younger than the gap.
Mut_Recent(p) == FALSE
Recent(p) == p \in job.revisit \/ revisited[p] < Gap

\* The bookkeeping of fullScan; the startup scan does not use it.
ScanDone ==
    /\ pc = "done" /\ job.reason \notin {"startup", "last"}
    /\ sinceScan' = 0 /\ changeIn' = Never /\ churnIn' = Never
    /\ revisited' = [p \in Path |-> IF p \in job.revisit THEN 0 ELSE revisited[p]]
    /\ LET D == {p \in pendingChanged : tree[p] \in Dirs /\ ~Recent(p)} IN
       /\ pendingSettle' = pendingSettle \cup D
       /\ settleIn' = IF D = {} THEN settleIn ELSE Settle
    /\ pendingChanged' = {} /\ pendingOverflow' = FALSE
    /\ pc' = "wait" /\ job' = NoJob
    /\ UNCHANGED <<events, burst, failures, history>>

StartupDone ==
    /\ pc = "done" /\ job.reason = "startup"
    /\ sinceScan' = 0
    /\ pc' = "wait" /\ job' = NoJob
    /\ UNCHANGED <<events, burst, pending, changeIn, settleIn, churnIn, revisited,
                   failures, history>>

LastDone ==
    /\ pc = "done" /\ job.reason = "last"
    /\ known' = known
    /\ Ends
    /\ UNCHANGED failures

Loop ==
    \/ Start \/ FirstEvent \/ NextEvent \/ BurstEnds \/ Rearm \/ TimerScan
    \/ Reconcile \/ ScanDone \/ StartupDone \/ LastDone

-----------------------------------------------------------------------------

Init ==
    /\ tree = [p \in Path |-> Absent]
    /\ known = {} /\ held = FALSE /\ queue = <<>>
    /\ pc = "off"
    /\ guard = [p \in Protected |-> Absent]
    /\ changed = {} /\ overflow = FALSE
    /\ pendingChanged = {} /\ pendingOverflow = FALSE /\ pendingSettle = {}
    /\ changeIn = Never /\ settleIn = Never /\ churnIn = Never
    /\ sinceScan = 0 /\ revisited = [p \in Path |-> Gap]
    /\ job = NoJob
    /\ failures = 0
    /\ dirty = [p \in Path |-> FALSE] /\ news = [p \in Path |-> "told"]

Next ==
    \/ \E p \in Path, k \in Kinds : Change(p, k)
    \/ CycleScans \/ CycleReleases \/ Tick
    \/ Loop \/ RearmFails \/ ReconcileFails \/ Dies

Spec == Init /\ [][Next]_vars

\* Time passes, a supervisor restarts the watcher, a burst ends after 150 ms and a
\* cycle releases the scan lock, which it does not hold for ever between the watcher's
\* polls.  Nothing obliges the tree to change or to rest.
FairSpec ==
    /\ Spec
    /\ WF_vars(Tick) /\ WF_vars(CycleReleases)
    /\ WF_vars(Start) /\ WF_vars(BurstEnds) /\ WF_vars(Rearm) /\ WF_vars(TimerScan)
    /\ WF_vars(FirstEvent) /\ SF_vars(Reconcile)
    /\ WF_vars(ScanDone \/ StartupDone \/ LastDone)

-----------------------------------------------------------------------------
(* Properties. *)

Timer(n) == {Never} \cup 0..n

\* The loop's variables keep their types, and the kernel queue its bound.
TypeOK ==
    /\ tree \in [Path -> Kinds] /\ known \subseteq Path /\ held \in BOOLEAN
    /\ queue \in Seq(Path \cup {Lost}) /\ Len(queue) <= QueueSize + 1
    /\ pc \in {"off", "wait", "burst", "rearm", "scan", "done"}
    /\ guard \in [Protected -> Dirs \cup {Absent}]
    /\ changed \subseteq Path /\ overflow \in BOOLEAN
    /\ pendingChanged \subseteq Path /\ pendingOverflow \in BOOLEAN
    /\ pendingSettle \subseteq Path
    /\ changeIn \in Timer(Gap) /\ settleIn \in Timer(Settle) /\ churnIn \in Timer(Churn)
    /\ sinceScan \in 0..Gap /\ revisited \in [Path -> 0..Gap]
    /\ job \in [reason : Reasons, paths : SUBSET Path, overflow : BOOLEAN, revisit : SUBSET Path]
    /\ failures \in 0..MaxFailures
    /\ dirty \in [Path -> BOOLEAN] /\ news \in [Path -> News]

InQueue(p) == \E i \in 1..Len(queue) : queue[i] \in {p, Lost}

\* Something will still make the watcher scan p.
Owed(p) ==
    \/ pc \in {"off", "rearm", "scan"}
    \/ InQueue(p)
    \/ p \in changed \/ overflow
    \/ changeIn # Never
    \/ p \in Protected /\ churnIn # Never

\* No change is forgotten: until a scan has read it, it is queued, held back by a timer
\* that is running, or a scan is about to run, whatever arrives during a scan, is
\* suppressed, overflows or is carried by another scan (watch.go:225-262, 308-381).
ChangeIsOwed == \A p \in Path : dirty[p] => Owed(p)

ReportIsOwed(p) ==
    InQueue(p) \/ p \in changed \cup pendingChanged \/ (pc = "scan" /\ p \in job.paths)

Stored(p) == p \in known /\ pc # "off"

\* A new path that a scan of the watcher has stored, so that no later scan calls it
\* new, has been reported or is still to be reported by name, unless the overflow that
\* lost its event was still unread (watch.go:220-224; reconcileWatch, watch.go:591-604).
NewIsReported == \A p \in Plain : Stored(p) /\ news[p] = "new" => ReportIsOwed(p)

\* A directory is revisited at most once per change gap, however often it changes and
\* whichever scan carries its changes (watch.go:214-219).
RevisitsSpaced ==
    [][\A p \in Path : p \in job'.revisit /\ pc = "wait" /\ pc' = "scan" =>
        revisited[p] = Gap]_vars

\* Every change is read by a scan of the watcher, although events never stop, the queue
\* overflows, a cycle keeps taking the scan lock and the watcher is restarted: a timer
\* that runs is never postponed (watch.go:265-301, 369-384).
ChangesAreScanned == \A p \in Path : dirty[p] ~> ~dirty[p]

=============================================================================
