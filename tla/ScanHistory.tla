----------------------------- MODULE ScanHistory -----------------------------
(***************************************************************************)
(* The stored scans: who may store one (the scan lock of                   *)
(* internal/cli/apply_lock_linux.go), which one is the latest              *)
(* (internal/store/records.go), what a scan is compared with               *)
(* (internal/cli/scan.go, internal/store/inventory_measurements.go), what  *)
(* the history trims (internal/store/history.go), and how a cycle plans    *)
(* and applies from its own scan (internal/cli/cycle.go).                  *)
(*                                                                         *)
(* A scan is named by the time it started, as newScanID does.  Times are   *)
(* fractions of a second, PerSecond of them in a second, and are ordered   *)
(* as numbers or as the text the store keeps.                              *)
(***************************************************************************)
EXTENDS Integers, FiniteSets, Sequences, SequencesExt

CONSTANTS
    Scanners,       \* the watcher and the scans by hand
    Hand,           \* the scans by hand among them
    Cycle,          \* the daily cycle
    RecentLimit,    \* RecentScanLimit
    PerSecond,      \* fractions of a second a clock reading can have
    DeepInterval,   \* prevention.deep_scan_interval
    DeepOutcomes,   \* whether the deep-size collector can run to its end, or not
    MaxScans, MaxClock, MaxFailures     \* bounds: scans stored, time, failures

Process == Scanners \cup {Cycle}
Nobody  == "nobody"

ASSUME ScanAssumption ==
    /\ Hand \subseteq Scanners /\ Cycle \notin Scanners /\ Nobody \notin Process
    /\ RecentLimit \in Nat \ {0} /\ PerSecond \in Nat \ {0} /\ DeepInterval \in Nat \ {0}
    /\ DeepOutcomes \subseteq BOOLEAN /\ DeepOutcomes # {}
    /\ MaxScans \in Nat /\ MaxClock \in Nat \ {0} /\ MaxFailures \in Nat

VARIABLES
    clock,
    scans,      \* the completed scans that are stored
    plans,      \* the scans a stored plan is bound to
    cycles,     \* the scans of completed cycles, one a day
    deepClock,  \* prevention_state deep_scan
    lock,       \* who holds scan.lock
    pc, cur,    \* each process and the scan it makes
    failures,
    order       \* history: every scan ever stored, in the order it was

rows  == <<scans, plans, cycles>>
procs == <<lock, pc, cur>>
vars  == <<clock, rows, deepClock, procs, failures, order>>

None == 0               \* no scan, no time
Time == 1..MaxClock

\* compare: --no-compare was not given.
Scan == [start : Time, finish : Time, deep : BOOLEAN, ran : BOOLEAN,
         compare : BOOLEAN, prior : {None} \cup Time]
NoScan == [start |-> 1, finish |-> 1, deep |-> FALSE, ran |-> FALSE, compare |-> TRUE, prior |-> None]

Ids(S) == {s.start : s \in S}

-----------------------------------------------------------------------------
(* The orders of the store. *)

Second(t)   == t \div PerSecond
Fraction(t) == t % PerSecond

\* RFC3339Nano drops a fraction of zero, and "Z" sorts after a digit and after ".".
TextBefore(s, t) ==
    \/ Second(s) < Second(t)
    \/ /\ Second(s) = Second(t) /\ s # t
       /\ Fraction(t) = 0 \/ (Fraction(s) # 0 /\ Fraction(s) < Fraction(t))

\* LatestScan: the last by the text of started_at.
Latest(S) ==
    IF S = {} THEN None
    ELSE CHOOSE t \in Ids(S) : \A s \in Ids(S) \ {t} : TextBefore(s, t)

\* history.go and inventory_measurements.go pad the fraction: they order by time.
Newest(T, n) == {t \in T : Cardinality({u \in T : u > t}) < n}

\* The scan that finished last, the later start first among equals.
LastFinished(S) ==
    CHOOSE s \in S : \A r \in S \ {s} :
        r.finish < s.finish \/ (r.finish = s.finish /\ r.start < s.start)

-----------------------------------------------------------------------------
(* TrimScanHistory. *)

DeepRan(S) == {s \in S : s.deep /\ s.ran}

\* The two deep scans that finished last.
Mut_LastDeep(S) == IF DeepRan(S) = {} THEN {} ELSE {LastFinished(DeepRan(S))}
LastDeep(S) ==
    LET D == DeepRan(S)
        last == LastFinished(D)
    IN IF Cardinality(D) <= 2 THEN D ELSE {last, LastFinished(D \ {last})}

Mut_Referenced(P) == cycles
Referenced(P) == P \cup cycles

\* The scans a trim may discard, with P the plans, sparing the scan just stored.
Candidates(S, P, keep) ==
    {s \in S : /\ s.start # keep
               /\ s.start \notin Newest(Ids(S), RecentLimit)
               /\ s \notin LastDeep(S)
               /\ s.start \notin Referenced(P)}

\* Discarding a scan discards the plans bound to it (ON DELETE CASCADE).
Trim(S, keep) ==
    LET gone == Candidates(S, plans, keep)
    IN scans' = S \ gone /\ plans' = plans \ Ids(gone)

-----------------------------------------------------------------------------
(* Scans. *)

Goto(p, label) == pc' = [pc EXCEPT ![p] = label]
Unlock(p) == lock' = IF lock = p THEN Nobody ELSE lock
Ends(p) == Goto(p, "idle") /\ Unlock(p) /\ cur' = [cur EXCEPT ![p] = NoScan]

\* deepScanDue, read before the lock; with recovery enabled every cycle sizes deeply.
DeepDue == deepClock = None \/ deepClock + DeepInterval <= clock

\* A scan by hand sizes deeply, and compares with no other, when it is asked to.
Begins(p) ==
    /\ pc[p] = "idle"
    /\ \E deep, compare \in BOOLEAN :
        /\ (p = Cycle /\ DeepDue) => deep
        /\ p \notin Hand => compare
        /\ cur' = [cur EXCEPT ![p] = [NoScan EXCEPT !.deep = deep, !.compare = compare]]
    /\ Goto(p, "lock")
    /\ UNCHANGED <<clock, rows, deepClock, lock, failures, order>>

Mut_LockScan(p) ==
    /\ pc[p] = "lock"
    /\ p = Cycle => lock = Nobody
    /\ lock' = IF p = Cycle THEN p ELSE lock
    /\ Goto(p, "prior")
    /\ UNCHANGED <<clock, rows, deepClock, cur, failures, order>>
LockScan(p) ==
    /\ pc[p] = "lock"
    /\ lock = Nobody /\ lock' = p
    /\ Goto(p, "prior")
    /\ UNCHANGED <<clock, rows, deepClock, cur, failures, order>>

ReadPrior(p) ==
    /\ pc[p] = "prior"
    /\ cur' = [cur EXCEPT ![p].prior = IF cur[p].compare THEN Latest(scans) ELSE None]
    /\ Goto(p, "start")
    /\ UNCHANGED <<clock, rows, deepClock, lock, failures, order>>

StartScan(p) ==
    /\ pc[p] = "start"
    /\ cur' = [cur EXCEPT ![p].start = clock]
    /\ Goto(p, "store")
    /\ UNCHANGED <<clock, rows, deepClock, lock, failures, order>>

\* The primary key of scans.
Taken(p) == cur[p].start \in Ids(scans)

\* A cycle keeps the lock until its plan is applied.
Mut_KeepLock(p) == Unlock(p)
KeepLock(p) == lock = p /\ UNCHANGED lock

\* One transaction; a scan by hand or by the watcher then lets the lock go.
Persist(p) ==
    /\ pc[p] = "store"
    /\ ~Taken(p) /\ Len(order) < MaxScans
    /\ \E ran \in DeepOutcomes :
        LET s == [cur[p] EXCEPT !.finish = clock, !.ran = cur[p].deep /\ ran]
        IN /\ IF p = Cycle THEN cur' = [cur EXCEPT ![p] = s] /\ Goto(p, "deep") /\ KeepLock(p)
              ELSE Ends(p)
           /\ Trim(scans \cup {s}, s.start)
           /\ order' = Append(order, s.start)
    /\ UNCHANGED <<clock, cycles, deepClock, failures>>

\* The identifier is taken: nothing is stored.
PersistFails(p) ==
    /\ pc[p] = "store"
    /\ Taken(p)
    /\ Ends(p)
    /\ UNCHANGED <<clock, rows, deepClock, failures, order>>

-----------------------------------------------------------------------------
(* The rest of a cycle. *)

Max2(a, b) == IF a < b THEN b ELSE a

\* recordCompletedDeepScan reads the stored scan back.
RecordDeep ==
    /\ pc[Cycle] = "deep"
    /\ IF cur[Cycle].deep /\ cur[Cycle].start \notin Ids(scans)
       THEN Ends(Cycle) /\ UNCHANGED deepClock
       ELSE /\ deepClock' = IF cur[Cycle].ran THEN Max2(deepClock, cur[Cycle].finish) ELSE deepClock
            /\ Goto(Cycle, "plan") /\ UNCHANGED <<lock, cur>>
    /\ UNCHANGED <<clock, rows, failures, order>>

\* autoQuarantine's runPlan: the scan must still be stored.
PlanCycle ==
    /\ pc[Cycle] = "plan"
    /\ IF cur[Cycle].start \in Ids(scans)
       THEN plans' = plans \cup {cur[Cycle].start} /\ Goto(Cycle, "apply") /\ UNCHANGED <<lock, cur>>
       ELSE Ends(Cycle) /\ UNCHANGED plans
    /\ UNCHANGED <<clock, scans, cycles, deepClock, failures, order>>

Bound == Latest(scans) = cur[Cycle].start

\* runApply refuses a plan that is not bound to the latest scan, and the cycle fails.
ApplyCycle ==
    /\ pc[Cycle] = "apply"
    /\ IF Bound THEN Goto(Cycle, "record") /\ Unlock(Cycle) /\ UNCHANGED cur ELSE Ends(Cycle)
    /\ UNCHANGED <<clock, rows, deepClock, failures, order>>

\* A day has one row: a cycle takes the place of one recorded earlier on its day.
RecordCycle ==
    /\ pc[Cycle] = "record"
    /\ IF cur[Cycle].start \in Ids(scans)
       THEN \E ofDay \in {{}, Newest(cycles, 1)} : cycles' = (cycles \ ofDay) \cup {cur[Cycle].start}
       ELSE UNCHANGED cycles
    /\ Ends(Cycle)
    /\ UNCHANGED <<clock, scans, plans, deepClock, failures, order>>

-----------------------------------------------------------------------------
(* The operator, failures and the clock. *)

\* janitor plan, from the latest scan; its read and its write see the same scan or fail.
OperatorPlans ==
    /\ scans # {}
    /\ plans' = plans \cup {Latest(scans)}
    /\ UNCHANGED <<clock, scans, cycles, deepClock, procs, failures, order>>

\* janitor history --confirm takes no lock and spares no scan by name.
OperatorTrims ==
    /\ Trim(scans, None)
    /\ UNCHANGED <<clock, cycles, deepClock, procs, failures, order>>

\* A process fails or is killed: the kernel lets its lock go.
Dies(p) ==
    /\ pc[p] # "idle" /\ failures < MaxFailures
    /\ failures' = failures + 1
    /\ Ends(p)
    /\ UNCHANGED <<clock, rows, deepClock, order>>

Tick ==
    /\ clock < MaxClock
    /\ clock' = clock + 1
    /\ UNCHANGED <<rows, deepClock, procs, failures, order>>

-----------------------------------------------------------------------------

Init ==
    /\ clock = 1
    /\ scans = {} /\ plans = {} /\ cycles = {}
    /\ deepClock = None
    /\ lock = Nobody
    /\ pc = [p \in Process |-> "idle"] /\ cur = [p \in Process |-> NoScan]
    /\ failures = 0
    /\ order = <<>>

Next ==
    \/ \E p \in Process :
        \/ Begins(p) \/ LockScan(p) \/ ReadPrior(p) \/ StartScan(p)
        \/ Persist(p) \/ PersistFails(p) \/ Dies(p)
    \/ RecordDeep \/ PlanCycle \/ ApplyCycle \/ RecordCycle
    \/ OperatorPlans \/ OperatorTrims \/ Tick

Spec == Init /\ [][Next]_vars

-----------------------------------------------------------------------------
(* Properties. *)

Labels == {"idle", "lock", "prior", "start", "store", "deep", "plan", "apply", "record"}

\* The rows and the processes keep their types, and a stored id names one scan.
TypeOK ==
    /\ clock \in Time
    /\ scans \subseteq Scan /\ Cardinality(Ids(scans)) = Cardinality(scans)
    /\ plans \subseteq Time /\ cycles \subseteq Time
    /\ deepClock \in {None} \cup Time
    /\ lock \in {Nobody} \cup Process
    /\ pc \in [Process -> Labels] /\ cur \in [Process -> Scan]
    /\ failures \in 0..MaxFailures
    /\ order \in Seq(Time)

\* From a cycle's scan to its binding check nothing is stored, whoever else scans
\* (cycle.go:85-86, apply_lock_linux.go:31-35), so that the latest scan is its own, or one
\* that began in the same second, whose order records.go:105 gets wrong.
CycleStaysBound ==
    pc[Cycle] \in {"deep", "plan", "apply"} =>
        /\ order # <<>> /\ order[Len(order)] = cur[Cycle].start
        /\ Second(Latest(scans)) = Second(cur[Cycle].start)

\* A stored scan was compared with the one stored just before it, or with an earlier one of
\* the same second as that (records.go:105), so that nothing is called new twice, or never;
\* only the first, and one that was asked to, was compared with none (scan.go:309-337).
ComparedWithPredecessor ==
    \A s \in scans : \E i \in DOMAIN order :
        /\ order[i] = s.start
        /\ IF i = 1 \/ ~s.compare THEN s.prior = None
           ELSE \E j \in 1..(i - 1) : s.prior = order[j] /\ Second(order[j]) = Second(order[i - 1])

\* No trim discards a plan, or a scan that a plan or a completed cycle refers to,
\* whatever is stored or planned around it (README.md:351-352 "never deletes a
\* referenced plan/action, cycle").
AuditIsKept == [][plans \subseteq plans' /\ Ids(scans) \cap Referenced(plans) \subseteq Ids(scans')]_vars

\* The two deep scans that completed last are kept, whatever is stored after them
\* (README.md:349 "pinned by ... the two latest completed deep-size scans").
DeepPairKept ==
    [][LET gone == scans \ scans'
       IN \A s \in gone : s.deep /\ s.ran =>
            Cardinality({r \in DeepRan(scans') : r.finish >= s.finish}) >= 2]_vars

=============================================================================
