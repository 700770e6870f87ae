------------------------- MODULE ScanHistoryProofs -------------------------
(***************************************************************************)
(* What ScanHistory promises for every set of scanners, every limit, every *)
(* fineness of the clock and every bound.  What is said about the latest   *)
(* scan is said up to the second, because records.go:105 orders times as   *)
(* text, which is the order of time from one second to the next.           *)
(***************************************************************************)
EXTENDS ScanHistory, FiniteSetTheorems, TLAPS

-----------------------------------------------------------------------------
(* The orders of the store have last elements. *)

\* Times are positive numbers, the first of them is one, and "no time" is not.
LEMMA TimeIs == MaxClock \in Nat \ {0} /\ Time \subseteq Nat \ {0} /\ 1 \in Time /\ None \notin Time
BY ScanAssumption DEF Time, None

\* A set of naturals with a bound has a greatest element: without one, x |-> x + 1 would
\* send the numbers below its elements into themselves without 0.
LEMMA GreatestExists ==
    ASSUME NEW n \in Nat, NEW S \in SUBSET (0..n), S # {}
    PROVE  \E x \in S : \A y \in S : x >= y
<1> DEFINE T == {x \in 0..n : \E y \in S : x <= y}
           f == [x \in T |-> x + 1]
<1> SUFFICES ASSUME \A x \in S : \E y \in S : x < y
             PROVE  FALSE
  <2>1. \A x, y \in S : x >= y \/ x < y
    OBVIOUS
  <2> QED
    BY <2>1
<1>1. IsFiniteSet(0..n)
  BY FS_Interval
<1>2. IsFiniteSet(T)
  BY <1>1, FS_Subset
<1>3. 0 \in T
  <2>1. PICK y \in S : TRUE
    OBVIOUS
  <2>2. y \in 0..n /\ 0 <= y /\ 0 \in 0..n
    BY <2>1
  <2> QED
    BY <2>2
<1>4. f \in [T -> T \ {0}]
  <2> SUFFICES ASSUME NEW x \in T PROVE x + 1 \in T \ {0}
    OBVIOUS
  <2>1. PICK y \in S : x <= y
    OBVIOUS
  <2>2. PICK z \in S : y < z
    OBVIOUS
  <2> QED
    BY <2>1, <2>2
<1>5. IsFiniteSet(T \ {0}) /\ Cardinality(T \ {0}) < Cardinality(T)
  <2> HIDE DEF T
  <2>1. IsFiniteSet(T \ {0}) /\ Cardinality(T \ {0}) = Cardinality(T) - 1
    BY <1>2, <1>3, FS_RemoveElement
  <2>2. Cardinality(T) \in Nat
    BY <1>2, FS_CardinalityType
  <2> QED
    BY <2>1, <2>2
<1>6. \A x, y \in T : x # y => f[x] # f[y]
  OBVIOUS
<1> HIDE DEF T, f
<1>7. \E x, y \in T : x # y /\ f[x] = f[y]
  BY <1>2, <1>4, <1>5, FS_PigeonHole
<1> QED
  BY <1>6, <1>7

\* A time has a second and a fraction in their bounds, and they tell it from every other time.
LEMMA Seconds ==
    \A t \in Time : /\ Second(t) \in 0..MaxClock /\ Fraction(t) \in 0..PerSecond
                    /\ \A s \in Time : Second(s) = Second(t) /\ Fraction(s) = Fraction(t) => s = t
<1>1. PerSecond \in Nat \ {0}
  BY ScanAssumption
<1>2. \A t \in Nat : t \div PerSecond \in Nat /\ t % PerSecond \in Nat
  BY <1>1
<1>3. \A t \in Nat : t \div PerSecond <= t /\ t % PerSecond < PerSecond
  BY <1>1
<1>4. \A s, t \in Nat : s \div PerSecond = t \div PerSecond /\ s % PerSecond = t % PerSecond => s = t
  BY <1>1
<1> SUFFICES ASSUME NEW t \in Time
             PROVE  /\ t \div PerSecond \in 0..MaxClock /\ t % PerSecond \in 0..PerSecond
                    /\ \A s \in Time : s \div PerSecond = t \div PerSecond /\ s % PerSecond = t % PerSecond => s = t
  BY DEF Second, Fraction
<1>5. t \in Nat /\ t <= MaxClock /\ MaxClock \in Nat
  BY TimeIs DEF Time
<1> DEFINE d == t \div PerSecond
           m == t % PerSecond
<1>6. d \in Nat /\ d <= t /\ m \in Nat /\ m < PerSecond
  BY <1>2, <1>3, <1>5
<1>7. \A s \in Time : s \div PerSecond = d /\ s % PerSecond = m => s = t
  BY <1>4, <1>5, TimeIs
<1> HIDE DEF d, m
<1>8. d \in 0..MaxClock /\ m \in 0..PerSecond
  BY <1>1, <1>5, <1>6
<1> QED
  BY <1>7, <1>8 DEF d, m

\* Some stored time comes last in the order of its text.
LEMMA LatestExists ==
    ASSUME NEW T \in SUBSET Time, T # {}
    PROVE  \E t \in T : \A s \in T \ {t} : TextBefore(s, t)
<1> DEFINE SS == {Second(t) : t \in T}
<1>0. MaxClock \in Nat /\ PerSecond \in Nat
  BY ScanAssumption
<1>1. SS \in SUBSET (0..MaxClock) /\ SS # {}
  BY Seconds
<1>2. PICK m \in SS : \A y \in SS : m >= y
  <2> HIDE DEF SS
  <2> QED
    BY <1>0, <1>1, GreatestExists
<1> DEFINE U == {t \in T : Second(t) = m}
           FF == {Fraction(t) : t \in U}
<1>3. U # {} /\ \A s \in T : s \in U \/ Second(s) < m
  <2>1. m \in Nat /\ \A s \in T : Second(s) \in Nat /\ Second(s) <= m
    BY <1>0, <1>1, <1>2
  <2> QED
    BY <1>2, <2>1
<1>4. CASE \E t \in U : Fraction(t) = 0
  BY <1>3, <1>4 DEF TextBefore
<1>5. CASE \A t \in U : Fraction(t) # 0
  <2>1. FF \in SUBSET (0..PerSecond) /\ FF # {}
    BY <1>3, Seconds
  <2>2. PICK f \in FF : \A y \in FF : f >= y
    <3> HIDE DEF FF
    <3> QED
      BY <1>0, <2>1, GreatestExists
  <2>3. PICK t \in U : Fraction(t) = f
    OBVIOUS
  <2>4. ASSUME NEW s \in U, s # t
        PROVE  Fraction(s) # 0 /\ Fraction(s) < Fraction(t)
    <3>1. Fraction(s) # Fraction(t)
      BY <2>4, Seconds
    <3>2. Fraction(s) \in Nat /\ Fraction(t) \in Nat /\ Fraction(s) <= Fraction(t)
      BY <1>0, <2>1, <2>2, <2>3
    <3> QED
      BY <1>5, <3>1, <3>2
  <2> QED
    BY <1>3, <2>3, <2>4 DEF TextBefore
<1> QED
  BY <1>4, <1>5

\* The start that comes last as text is one of the times, or none when nothing is stored.
LEMMA LatestType ==
    ASSUME scans \subseteq Scan
    PROVE  Latest(scans) \in {None} \cup Time
<1>1. Ids(scans) \subseteq Time /\ (scans # {} => Ids(scans) # {})
  BY DEF Ids, Scan
<1>2. CASE scans = {}
  BY <1>2 DEF Latest
<1>3. CASE scans # {}
  BY <1>1, <1>3, LatestExists DEF Latest
<1> QED
  BY <1>2, <1>3

-----------------------------------------------------------------------------
(* Trims. *)

\* A trim discards no plan and nothing a plan or a completed cycle refers to.
LEMMA TrimKeepsAudit ==
    ASSUME NEW S, NEW keep, scans \subseteq S, Trim(S, keep)
    PROVE  plans \subseteq plans' /\ Ids(scans) \cap Referenced(plans) \subseteq Ids(scans')
<1> DEFINE gone == Candidates(S, plans, keep)
<1>1. scans' = S \ gone /\ plans' = plans \ Ids(gone)
  BY DEF Trim
<1>2. \A s \in gone : s.start \notin Referenced(plans)
  BY DEF Candidates
<1> HIDE DEF gone
<1>3. Ids(gone) \cap Referenced(plans) = {}
  BY <1>2 DEF Ids
<1>4. plans \subseteq plans'
  BY <1>1, <1>3 DEF Referenced
<1>5. Ids(scans) \cap Referenced(plans) \subseteq Ids(scans')
  BY <1>1, <1>2 DEF Ids
<1> QED
  BY <1>4, <1>5

\* A trim, after a scan was stored or by hand, never discards a plan or a scan that a plan
\* or a completed cycle refers to (README.md:351-352), whatever else happens.
THEOREM TrimKeepsReferenced == Spec => AuditIsKept
<1> DEFINE A == plans \subseteq plans' /\ Ids(scans) \cap Referenced(plans) \subseteq Ids(scans')
<1>1. [Next]_vars => [A]_vars
  <2> SUFFICES ASSUME Next
               PROVE  A
    OBVIOUS
  <2>1. ASSUME NEW p \in Process, Persist(p)
        PROVE  A
    <3>1. PICK s : Trim(scans \cup {s}, s.start)
      BY <2>1 DEF Persist
    <3> QED
      BY <3>1, TrimKeepsAudit
  <2>2. CASE OperatorTrims
    BY <2>2, TrimKeepsAudit DEF OperatorTrims
  <2>3. CASE UNCHANGED scans /\ plans \subseteq plans'
    BY <2>3
  <2>4. CASE PlanCycle
    BY <2>3, <2>4 DEF PlanCycle
  <2>5. CASE OperatorPlans
    BY <2>3, <2>5 DEF OperatorPlans
  <2> QED
    BY <2>1, <2>2, <2>3, <2>4, <2>5 DEF Next, Begins, LockScan, ReadPrior, StartScan, PersistFails, Dies,
       RecordDeep, ApplyCycle, RecordCycle, Tick, rows
<1> QED
  BY <1>1, PTL DEF Spec, AuditIsKept

-----------------------------------------------------------------------------
(* Who stores a scan, and what is stored when. *)

Scanning == {"prior", "start", "store"}
Deciding == {"deep", "plan", "apply"}

\* The scan stored last, None before the first.
newest == IF order = <<>> THEN None ELSE order[Len(order)]

Typed ==
    /\ clock \in Time /\ scans \subseteq Scan /\ IsFiniteSet(scans)
    /\ pc \in [Process -> Labels] /\ cur \in [Process -> Scan]
    /\ order \in Seq(Time)

\* The lock is held from the reading of the prior scan to the storing, and by the cycle to
\* the application of its plan.
HoldsLock ==
    \A p \in Process : /\ pc[p] \in Scanning => lock = p
                       /\ pc[p] \in Deciding => lock = p /\ p = Cycle

\* The scan stored last is never trimmed, and no stored scan started after it.
NewestIsStored ==
    IF newest = None THEN scans = {}
    ELSE newest \in Ids(scans) /\ newest <= clock /\ \A t \in Ids(scans) : t <= newest

\* A scan that compares follows the newest, or a stored one of the same second.
Follows(compare, prior) ==
    IF ~compare \/ newest = None THEN prior = None
    ELSE \E j \in DOMAIN order : prior = order[j] /\ Second(order[j]) = Second(newest)

\* What the holder of the lock knows of it.
HolderKnows ==
    \A p \in Process :
        /\ pc[p] \in {"start", "store"} => Follows(cur[p].compare, cur[p].prior)
        /\ pc[p] = "store" => newest <= cur[p].start /\ cur[p].start <= clock
        /\ pc[p] \in Deciding => cur[p].start = newest /\ newest # None

HistoryInv == Typed /\ HoldsLock /\ NewestIsStored /\ HolderKnows /\ ComparedWithPredecessor

\* The newest scan is one of the times, or none when nothing was ever stored.
LEMMA NewestType ==
    ASSUME order \in Seq(Time)
    PROVE  newest \in {None} \cup Time /\ newest \in Nat
<1>1. order # <<>> => Len(order) \in DOMAIN order
  OBVIOUS
<1>2. newest \in {None} \cup Time
  BY <1>1 DEF newest
<1> QED
  BY <1>2, TimeIs DEF None

\* An earlier time has no later second.
LEMMA SecondsGrow == \A s, t \in Time : s <= t => Second(s) <= Second(t)
<1>1. PerSecond \in Nat \ {0}
  BY ScanAssumption
<1>2. \A s, t \in Nat : s <= t => s \div PerSecond <= t \div PerSecond
  BY <1>1
<1> QED
  BY <1>2, TimeIs DEF Second

\* LatestScan finds a scan of the second of the one stored last.
LEMMA LatestIsNear ==
    ASSUME Typed, NewestIsStored
    PROVE  IF newest = None THEN Latest(scans) = None
           ELSE Latest(scans) \in Ids(scans) /\ Second(Latest(scans)) = Second(newest)
<1>0. newest \in {None} \cup Time /\ Ids(scans) \subseteq Time
  BY NewestType DEF Typed, Ids, Scan
<1>1. CASE newest = None
  BY <1>1 DEF NewestIsStored, Latest
<1>2. CASE newest # None
  <2> DEFINE L == Latest(scans)
  <2>1. newest \in Ids(scans) /\ scans # {} /\ \A t \in Ids(scans) : t <= newest
    BY <1>2 DEF NewestIsStored, Ids
  <2>2. L \in Ids(scans) /\ \A t \in Ids(scans) \ {L} : TextBefore(t, L)
    <3>1. Ids(scans) # {}
      BY <2>1
    <3> QED
      BY <1>0, <2>1, <3>1, LatestExists DEF Latest
  <2> HIDE DEF L, newest
  <2>3. L \in Time /\ newest \in Time /\ L <= newest
    BY <1>0, <2>1, <2>2
  <2>4. Second(L) <= Second(newest) /\ Second(L) \in Nat /\ Second(newest) \in Nat
    BY <2>3, SecondsGrow, Seconds, ScanAssumption
  <2>5. L = newest \/ Second(newest) < Second(L) \/ Second(newest) = Second(L)
    BY <2>1, <2>2 DEF TextBefore
  <2>6. Second(L) = Second(newest)
    BY <2>4, <2>5
  <2> QED
    BY <1>2, <2>2, <2>6 DEF L
<1> QED
  BY <1>1, <1>2

\* A trim spares the scan stored last.
LEMMA TrimKeepsNewest ==
    ASSUME NEW S, NEW keep, NEW t \in Ids(S), \A u \in Ids(S) : u <= t, Ids(S) \subseteq Time,
           Trim(S, keep)
    PROVE  t \in Ids(scans') /\ scans' \subseteq S
<1>1. {u \in Ids(S) : u > t} = {}
  <2>1. \A u \in Ids(S) : u \in Nat /\ u <= t
    BY TimeIs
  <2> QED
    BY <2>1
<1>2. t \in Newest(Ids(S), RecentLimit)
  <2>1. Cardinality({}) = 0 /\ RecentLimit \in Nat \ {0}
    BY FS_EmptySet, ScanAssumption
  <2> QED
    BY <1>1, <2>1 DEF Newest
<1>3. PICK s \in S : s.start = t
  BY DEF Ids
<1>4. s \notin Candidates(S, plans, keep)
  BY <1>2, <1>3 DEF Candidates
<1> QED
  BY <1>3, <1>4 DEF Trim, Ids

\* What one step does to the scans, their order and the clock.
LEMMA RowSteps ==
    ASSUME [Next]_vars
    PROVE  \/ UNCHANGED <<scans, order>>
           \/ OperatorTrims
           \/ \E p \in Process : Persist(p)
BY DEF Next, Begins, LockScan, ReadPrior, StartScan, PersistFails, Dies, RecordDeep, PlanCycle, ApplyCycle,
   RecordCycle, OperatorPlans, Tick, rows, vars

\* A stored scan is the one its process made, and the process goes on with it or ends.
LEMMA PersistStores ==
    ASSUME Typed, NEW p \in Process, Persist(p)
    PROVE  \E s \in Scan :
              /\ s.start = cur[p].start /\ s.prior = cur[p].prior /\ s.compare = cur[p].compare
              /\ Trim(scans \cup {s}, s.start) /\ order' = Append(order, s.start)
              /\ \/ p = Cycle /\ cur' = [cur EXCEPT ![p] = s] /\ Goto(p, "deep") /\ KeepLock(p)
                 \/ p # Cycle /\ Ends(p)
<1>1. PICK ran \in DeepOutcomes : \E s :
         /\ s = [cur[p] EXCEPT !.finish = clock, !.ran = cur[p].deep /\ ran]
         /\ IF p = Cycle THEN cur' = [cur EXCEPT ![p] = s] /\ Goto(p, "deep") /\ KeepLock(p)
            ELSE Ends(p)
         /\ Trim(scans \cup {s}, s.start)
         /\ order' = Append(order, s.start)
  BY DEF Persist
<1>2. PICK s :
         /\ s = [cur[p] EXCEPT !.finish = clock, !.ran = cur[p].deep /\ ran]
         /\ IF p = Cycle THEN cur' = [cur EXCEPT ![p] = s] /\ Goto(p, "deep") /\ KeepLock(p)
            ELSE Ends(p)
         /\ Trim(scans \cup {s}, s.start)
         /\ order' = Append(order, s.start)
  BY <1>1
<1>3. cur[p] \in Scan /\ clock \in Time /\ ran \in BOOLEAN
  BY ScanAssumption DEF Typed
<1>4. \A c \in BOOLEAN, r \in Scan : LET e == [r EXCEPT !.finish = clock, !.ran = c] IN
          e \in Scan /\ e.start = r.start /\ e.prior = r.prior /\ e.compare = r.compare
  BY <1>3 DEF Scan
<1>5. (cur[p].deep /\ ran) \in BOOLEAN
  BY <1>3 DEF Scan
<1>6. s \in Scan /\ s.start = cur[p].start /\ s.prior = cur[p].prior /\ s.compare = cur[p].compare
  <2> DEFINE b == cur[p].deep /\ ran
  <2>1. s = [cur[p] EXCEPT !.finish = clock, !.ran = b] /\ b \in BOOLEAN
    BY <1>2, <1>5
  <2> HIDE DEF b
  <2> QED
    BY <1>3, <1>4, <2>1
<1> QED
  BY <1>2, <1>6

\* Every step keeps the types.
LEMMA TypedStep ==
    ASSUME Typed, [Next]_vars
    PROVE  Typed'
<1> USE TimeIs
<1>0. NoScan \in Scan
  BY DEF NoScan, Scan, None
<1>1. clock' \in Time
  <2>1. clock' = clock \/ Tick
    BY DEF Next, Begins, LockScan, ReadPrior, StartScan, Persist, PersistFails, Dies, RecordDeep, PlanCycle,
       ApplyCycle, RecordCycle, OperatorPlans, OperatorTrims, vars
  <2> QED
    BY <2>1 DEF Typed, Time, Tick
<1>2. scans' \subseteq Scan /\ IsFiniteSet(scans') /\ order' \in Seq(Time)
  <2>1. CASE UNCHANGED <<scans, order>>
    BY <2>1 DEF Typed
  <2>2. CASE OperatorTrims
    <3>1. scans' \subseteq scans /\ order' = order
      BY <2>2 DEF OperatorTrims, Trim
    <3> QED
      BY <3>1, FS_Subset DEF Typed
  <2>3. ASSUME NEW p \in Process, Persist(p)
        PROVE  scans' \subseteq Scan /\ IsFiniteSet(scans') /\ order' \in Seq(Time)
    <3>1. PICK s \in Scan : Trim(scans \cup {s}, s.start) /\ order' = Append(order, s.start)
      BY <2>3, PersistStores
    <3>2. scans' \subseteq scans \cup {s}
      BY <3>1 DEF Trim
    <3>3. IsFiniteSet(scans \cup {s})
      BY FS_AddElement DEF Typed
    <3>4. s.start \in Time
      BY DEF Scan
    <3> QED
      BY <3>1, <3>2, <3>3, <3>4, FS_Subset DEF Typed
  <2> QED
    BY <2>1, <2>2, <2>3, RowSteps
<1>3. pc' \in [Process -> Labels] /\ cur' \in [Process -> Scan]
  <2>0. pc \in [Process -> Labels] /\ cur \in [Process -> Scan]
    BY DEF Typed
  <2>1. ASSUME NEW p \in Process, Begins(p)
        PROVE  pc' \in [Process -> Labels] /\ cur' \in [Process -> Scan]
    <3>1. PICK deep \in BOOLEAN, compare \in BOOLEAN :
             cur' = [cur EXCEPT ![p] = [NoScan EXCEPT !.deep = deep, !.compare = compare]]
      BY <2>1 DEF Begins
    <3>2. [NoScan EXCEPT !.deep = deep, !.compare = compare] \in Scan
      BY <1>0 DEF Scan
    <3> QED
      BY <2>0, <2>1, <3>1, <3>2 DEF Begins, Goto, Labels
  <2>2. ASSUME NEW p \in Process, ReadPrior(p) \/ StartScan(p)
        PROVE  pc' \in [Process -> Labels] /\ cur' \in [Process -> Scan]
    <3>1. Latest(scans) \in {None} \cup Time
      BY LatestType DEF Typed
    <3>2. clock \in Time
      BY DEF Typed
    <3>3. \A r \in Scan : /\ [r EXCEPT !.prior = Latest(scans)] \in Scan
                          /\ [r EXCEPT !.prior = None] \in Scan
                          /\ [r EXCEPT !.start = clock] \in Scan
      BY <3>1, <3>2 DEF Scan
    <3>4. PICK r \in Scan : cur' = [cur EXCEPT ![p] = r]
      BY <2>0, <2>2, <3>3 DEF ReadPrior, StartScan
    <3> QED
      BY <2>0, <2>2, <3>4 DEF ReadPrior, StartScan, Goto, Labels
  <2>3. ASSUME NEW p \in Process, Persist(p)
        PROVE  pc' \in [Process -> Labels] /\ cur' \in [Process -> Scan]
    <3>1. PICK s \in Scan :
             \/ p = Cycle /\ cur' = [cur EXCEPT ![p] = s] /\ Goto(p, "deep") /\ KeepLock(p)
             \/ p # Cycle /\ Ends(p)
      BY <2>3, PersistStores
    <3> QED
      BY <1>0, <2>0, <3>1 DEF Ends, Goto, Labels
  <2>4. ASSUME NEW p \in Process, LockScan(p) \/ PersistFails(p) \/ Dies(p)
        PROVE  pc' \in [Process -> Labels] /\ cur' \in [Process -> Scan]
    BY <1>0, <2>0, <2>4 DEF LockScan, PersistFails, Dies, Ends, Goto, Labels
  <2>5. CASE RecordDeep \/ PlanCycle \/ ApplyCycle \/ RecordCycle
    BY <1>0, <2>0, <2>5 DEF RecordDeep, PlanCycle, ApplyCycle, RecordCycle, Ends, Goto, Labels, Process
  <2>6. CASE UNCHANGED <<pc, cur>>
    BY <2>0, <2>6
  <2> QED
    BY <2>1, <2>2, <2>3, <2>4, <2>5, <2>6 DEF Next, OperatorPlans, OperatorTrims, Tick, procs, vars
<1> QED
  BY <1>1, <1>2, <1>3 DEF Typed

\* A process changes nothing of another's scan.
ScanStep(p) ==
    \/ Begins(p) \/ LockScan(p) \/ ReadPrior(p) \/ StartScan(p) \/ Persist(p) \/ PersistFails(p) \/ Dies(p)
CycleStep == RecordDeep \/ PlanCycle \/ ApplyCycle \/ RecordCycle

\* A step of one process leaves where the others are, and the scans they make, alone.
LEMMA OthersStand ==
    ASSUME Typed, NEW p \in Process, NEW q \in Process, p # q,
           ScanStep(p) \/ (p = Cycle /\ CycleStep)
    PROVE  pc'[q] = pc[q] /\ cur'[q] = cur[q]
<1>1. pc \in [Process -> Labels] /\ cur \in [Process -> Scan]
  BY DEF Typed
<1>2. CASE Persist(p)
  <2>1. PICK s \in Scan : \/ cur' = [cur EXCEPT ![p] = s] /\ Goto(p, "deep")
                          \/ Ends(p)
    BY <1>2, PersistStores
  <2> QED
    BY <1>1, <2>1 DEF Ends, Goto
<1>3. CASE p = Cycle /\ CycleStep
  BY <1>1, <1>3 DEF CycleStep, RecordDeep, PlanCycle, ApplyCycle, RecordCycle, Ends, Goto
<1> QED
  BY <1>1, <1>2, <1>3 DEF ScanStep, Begins, LockScan, ReadPrior, StartScan, PersistFails, Dies, Ends, Goto

\* The lock has one holder, who lets it go when it ends.
LEMMA HoldsLockStep ==
    ASSUME Typed, HoldsLock, [Next]_vars
    PROVE  HoldsLock'
<1> DEFINE H(q) == /\ pc'[q] \in Scanning => lock' = q
                   /\ pc'[q] \in Deciding => lock' = q /\ q = Cycle
<1> SUFFICES ASSUME NEW q \in Process
             PROVE  H(q)
  BY DEF HoldsLock
<1>0. pc \in [Process -> Labels] /\ cur \in [Process -> Scan] /\ Nobody \notin Process /\ Cycle \in Process
  BY ScanAssumption DEF Typed, Process
<1>1. CASE UNCHANGED <<pc, lock>>
  BY <1>1 DEF HoldsLock
\* Another process gets the lock only when nobody has it, and only lets go of its own.
<1>2. ASSUME NEW p \in Process, p # q, ScanStep(p) \/ (p = Cycle /\ CycleStep)
      PROVE  H(q)
  <2>1. pc'[q] = pc[q]
    BY <1>2, OthersStand
  <2>2. lock = q => lock' = q
    <3>1. CASE Persist(p)
      <4>1. KeepLock(p) \/ Ends(p)
        BY <3>1, PersistStores
      <4> QED
        BY <1>0, <1>2, <4>1 DEF KeepLock, Ends, Unlock
    <3> QED
      BY <1>0, <1>2, <3>1 DEF ScanStep, CycleStep, Begins, LockScan, ReadPrior, StartScan, PersistFails, Dies, RecordDeep,
         PlanCycle, ApplyCycle, RecordCycle, Ends, Unlock
  <2> QED
    BY <2>1, <2>2 DEF HoldsLock
<1>3. CASE ScanStep(q)
  <2>1. CASE Begins(q)
    BY <1>0, <2>1 DEF Begins, Goto, Scanning, Deciding
  <2>2. CASE LockScan(q)
    BY <1>0, <2>2 DEF LockScan, Goto, Deciding
  <2>3. CASE ReadPrior(q) \/ StartScan(q)
    BY <1>0, <2>3 DEF ReadPrior, StartScan, Goto, HoldsLock, Scanning, Deciding
  <2>4. CASE PersistFails(q) \/ Dies(q)
    BY <1>0, <2>4 DEF PersistFails, Dies, Ends, Goto, Scanning, Deciding
  <2>5. CASE Persist(q)
    <3>1. \/ q = Cycle /\ Goto(q, "deep") /\ KeepLock(q)
          \/ Ends(q)
      BY <2>5, PersistStores
    <3> QED
      BY <1>0, <3>1 DEF Ends, Goto, KeepLock, Scanning, Deciding
  <2> QED
    BY <1>3, <2>1, <2>2, <2>3, <2>4, <2>5 DEF ScanStep
<1>4. CASE q = Cycle /\ CycleStep
  <2>1. CASE Goto(q, "plan") /\ pc[q] = "deep" /\ UNCHANGED lock
    BY <1>0, <1>4, <2>1 DEF Goto, HoldsLock, Scanning, Deciding
  <2>2. CASE Goto(q, "apply") /\ pc[q] = "plan" /\ UNCHANGED lock
    BY <1>0, <1>4, <2>2 DEF Goto, HoldsLock, Scanning, Deciding
  <2>3. CASE pc'[q] \in {"idle", "record"}
    BY <2>3 DEF Scanning, Deciding
  <2> QED
    BY <1>0, <1>4, <2>1, <2>2, <2>3 DEF CycleStep, RecordDeep, PlanCycle, ApplyCycle, RecordCycle, Ends, Goto
<1>5. CASE OperatorPlans \/ OperatorTrims \/ Tick \/ UNCHANGED vars
  BY <1>1, <1>5 DEF OperatorPlans, OperatorTrims, Tick, procs, vars
<1> QED
  BY <1>0, <1>2, <1>3, <1>4, <1>5 DEF Next, ScanStep, CycleStep

\* What Persist appends is the newest, and no trim takes it.
LEMMA NewestStep ==
    ASSUME HistoryInv, [Next]_vars
    PROVE  NewestIsStored' /\ Typed'
<1>0. Typed /\ Typed' /\ NewestIsStored /\ HolderKnows
  BY TypedStep DEF HistoryInv
<1>1. newest \in Nat /\ newest' \in Nat /\ clock \in Nat /\ clock' \in Nat /\ clock <= clock'
  <2>1. clock' = clock \/ clock' = clock + 1
    BY DEF Next, Begins, LockScan, ReadPrior, StartScan, Persist, PersistFails, Dies, RecordDeep, PlanCycle,
       ApplyCycle, RecordCycle, OperatorPlans, OperatorTrims, Tick, vars
  <2>2. newest' \in Nat
    <3>1. order' \in Seq(Time)
      BY <1>0 DEF Typed
    <3>2. order' # <<>> => Len(order') \in DOMAIN order'
      BY <3>1
    <3>3. newest' = None \/ newest' \in Time
      BY <3>1, <3>2 DEF newest
    <3>4. None \in Nat /\ \A t \in Time : t \in Nat
      BY TimeIs DEF None
    <3> QED
      BY <3>3, <3>4
  <2> QED
    BY <1>0, <2>1, <2>2, NewestType, TimeIs DEF Typed
<1>2. Ids(scans) \subseteq Time
  BY <1>0 DEF Typed, Ids, Scan
<1>3. CASE UNCHANGED <<scans, order>>
  BY <1>0, <1>1, <1>3 DEF NewestIsStored, newest
<1>4. CASE OperatorTrims
  <2>1. UNCHANGED <<order, clock>> /\ Trim(scans, None)
    BY <1>4 DEF OperatorTrims
  <2>2. newest' = newest
    BY <2>1 DEF newest
  <2>3. scans' \subseteq scans
    BY <2>1 DEF Trim
  <2>4. CASE newest = None
    BY <1>0, <2>2, <2>3, <2>4 DEF NewestIsStored
  <2>5. CASE newest # None
    <3>1. newest \in Ids(scans) /\ \A t \in Ids(scans) : t <= newest
      BY <1>0, <2>5 DEF NewestIsStored
    <3>2. newest \in Ids(scans')
      <4> HIDE DEF newest
      <4> QED
        BY <1>2, <2>1, <3>1, TrimKeepsNewest
    <3>3. Ids(scans') \subseteq Ids(scans)
      BY <2>3 DEF Ids
    <3> QED
      BY <1>0, <2>1, <2>2, <2>5, <3>1, <3>2, <3>3 DEF NewestIsStored
  <2> QED
    BY <2>4, <2>5
<1>5. ASSUME NEW p \in Process, Persist(p)
      PROVE  NewestIsStored'
  <2>1. PICK s \in Scan : /\ s.start = cur[p].start
                          /\ Trim(scans \cup {s}, s.start) /\ order' = Append(order, s.start)
    BY <1>0, <1>5, PersistStores
  <2>2. newest <= s.start /\ s.start <= clock /\ clock' = clock /\ s.start \in Time
    BY <1>0, <1>5, <2>1 DEF Persist, HolderKnows, Scan
  <2>3. newest' = s.start
    <3>1. order' # <<>> /\ order'[Len(order')] = s.start
      BY <1>0, <2>1, <2>2 DEF Typed
    <3> QED
      BY <3>1 DEF newest
  <2>4. Ids(scans \cup {s}) = Ids(scans) \cup {s.start}
    BY DEF Ids
  <2>5. \A t \in Ids(scans) : t <= s.start
    <3>1. \A t \in Ids(scans) : t <= newest
      BY <1>0 DEF NewestIsStored, Ids
    <3>2. s.start \in Nat /\ \A t \in Ids(scans) : t \in Nat
      BY <1>2, <2>2, TimeIs
    <3> QED
      BY <1>1, <2>2, <3>1, <3>2
  <2>6. \A t \in Ids(scans \cup {s}) : t <= s.start
    <3>1. s.start \in Nat
      BY <2>2, TimeIs
    <3>2. s.start <= s.start
      BY <3>1
    <3> QED
      BY <2>4, <2>5, <3>2
  <2>7. s.start \in Ids(scans') /\ scans' \subseteq scans \cup {s}
    BY <1>2, <2>1, <2>2, <2>4, <2>6, TrimKeepsNewest
  <2>8. Ids(scans') \subseteq Ids(scans \cup {s})
    BY <2>7 DEF Ids
  <2> QED
    BY <2>2, <2>3, <2>6, <2>7, <2>8, TimeIs DEF NewestIsStored
<1> QED
  BY <1>0, <1>3, <1>4, <1>5, RowSteps

\* The lock keeps what its holder read of the history true until it acts on it.
LEMMA HolderKnowsStep ==
    ASSUME HistoryInv, [Next]_vars
    PROVE  HolderKnows'
<1> DEFINE K(q) == /\ pc'[q] \in {"start", "store"} => Follows(cur[q].compare, cur[q].prior)'
                   /\ pc'[q] = "store" => newest' <= cur'[q].start /\ cur'[q].start <= clock'
                   /\ pc'[q] \in Deciding => cur'[q].start = newest' /\ newest' # None
<1> SUFFICES ASSUME NEW q \in Process
             PROVE  K(q)
  BY DEF HolderKnows
<1>f. ASSUME UNCHANGED order, cur'[q].compare = cur[q].compare, cur'[q].prior = cur[q].prior,
             Follows(cur[q].compare, cur[q].prior)
      PROVE  Follows(cur[q].compare, cur[q].prior)'
  BY <1>f DEF Follows, newest
<1>0. /\ Typed /\ Typed' /\ HoldsLock /\ NewestIsStored /\ HolderKnows /\ ComparedWithPredecessor
      /\ pc \in [Process -> Labels] /\ cur \in [Process -> Scan] /\ Cycle \in Process
      /\ newest \in Nat /\ clock \in Nat /\ cur[q].start \in Time
  BY TypedStep, NewestType, TimeIs DEF HistoryInv, Typed, Process, Scan
<1>1. CASE UNCHANGED <<order, clock>> /\ pc'[q] = pc[q] /\ cur'[q] = cur[q]
  BY <1>0, <1>1, <1>f DEF HolderKnows, newest
<1>2. CASE pc'[q] \in {"idle", "lock", "prior", "record"}
  BY <1>2 DEF Deciding
<1>3. CASE Tick
  <2>1. clock' = clock + 1 /\ UNCHANGED <<order, pc, cur>>
    BY <1>3 DEF Tick, procs
  <2>2. cur[q].start \in Nat
    BY <1>0, TimeIs
  <2> QED
    BY <1>0, <1>f, <2>1, <2>2 DEF HolderKnows, newest
<1>4. ASSUME NEW p \in Process, p # q, ScanStep(p) \/ (p = Cycle /\ CycleStep)
      PROVE  K(q)
  <2>1. pc'[q] = pc[q] /\ cur'[q] = cur[q]
    BY <1>0, <1>4, OthersStand
  <2>2. CASE Persist(p)
    <3>1. pc[q] \notin Scanning \cup Deciding
      BY <1>0, <1>4, <2>2 DEF HoldsLock, Persist, Scanning
    <3> QED
      BY <2>1, <3>1 DEF Scanning
  <2>3. CASE UNCHANGED <<order, clock>>
    BY <1>1, <2>1, <2>3
  <2> QED
    BY <1>4, <2>2, <2>3 DEF ScanStep, CycleStep, Begins, LockScan, ReadPrior, StartScan, PersistFails, Dies, RecordDeep,
       PlanCycle, ApplyCycle, RecordCycle
<1>5. CASE ScanStep(q)
  <2>1. CASE Begins(q) \/ LockScan(q) \/ PersistFails(q) \/ Dies(q)
    BY <1>0, <1>2, <2>1 DEF Begins, LockScan, PersistFails, Dies, Ends, Goto
  <2>2. CASE ReadPrior(q)
    <3>1. /\ cur' = [cur EXCEPT ![q].prior = IF cur[q].compare THEN Latest(scans) ELSE None]
          /\ UNCHANGED order /\ pc'[q] = "start"
      BY <1>0, <2>2 DEF ReadPrior, Goto
    <3>2. /\ cur'[q].prior = (IF cur[q].compare THEN Latest(scans) ELSE None)
          /\ cur'[q].compare = cur[q].compare
      BY <1>0, <3>1 DEF Scan
    <3>3. IF newest = None THEN Latest(scans) = None
          ELSE Latest(scans) \in Ids(scans) /\ Second(Latest(scans)) = Second(newest)
      BY <1>0, LatestIsNear
    <3>4. \A t \in Ids(scans) : \E j \in DOMAIN order : order[j] = t
      BY <1>0 DEF ComparedWithPredecessor, Ids
    <3>5. Follows(cur'[q].compare, cur'[q].prior)
      <4> HIDE DEF newest
      <4> QED
        BY <3>2, <3>3, <3>4 DEF Follows
    <3>6. Follows(cur[q].compare, cur[q].prior)'
      BY <3>1, <3>5 DEF Follows, newest
    <3> QED
      BY <3>1, <3>6 DEF Deciding
  <2>3. CASE StartScan(q)
    <3>1. /\ cur'[q].start = clock /\ cur'[q].prior = cur[q].prior /\ pc'[q] = "store" /\ pc[q] = "start"
          /\ cur'[q].compare = cur[q].compare
          /\ newest' = newest /\ clock' = clock /\ UNCHANGED order
      BY <1>0, <2>3 DEF StartScan, Goto, Scan, newest
    <3>2. newest <= clock
      BY <1>0 DEF NewestIsStored, None
    <3> QED
      BY <1>0, <1>f, <3>1, <3>2 DEF HolderKnows, Deciding
  <2>4. CASE Persist(q)
    <3>1. PICK s \in Scan : /\ s.start = cur[q].start /\ order' = Append(order, s.start)
                            /\ \/ cur' = [cur EXCEPT ![q] = s] /\ Goto(q, "deep")
                               \/ Ends(q)
      BY <1>0, <2>4, PersistStores
    <3>2. newest' = s.start /\ s.start # None
      <4>1. order' # <<>> /\ order'[Len(order')] = s.start /\ s.start \in Time
        BY <1>0, <3>1 DEF Typed
      <4> QED
        BY <4>1, TimeIs DEF newest
    <3> QED
      BY <1>0, <1>2, <3>1, <3>2 DEF Ends, Goto
  <2> QED
    BY <1>5, <2>1, <2>2, <2>3, <2>4 DEF ScanStep
<1>6. CASE q = Cycle /\ CycleStep
  <2>1. UNCHANGED <<order, clock>>
    BY <1>6 DEF CycleStep, RecordDeep, PlanCycle, ApplyCycle, RecordCycle
  <2>2. CASE pc[q] \in {"deep", "plan"} /\ pc'[q] \in {"plan", "apply"} /\ cur' = cur
    BY <1>0, <2>1, <2>2 DEF HolderKnows, newest, Deciding
  <2> QED
    BY <1>0, <1>2, <1>6, <2>2 DEF CycleStep, RecordDeep, PlanCycle, ApplyCycle, RecordCycle, Ends, Goto
<1>7. CASE OperatorPlans \/ OperatorTrims \/ UNCHANGED vars
  BY <1>1, <1>7 DEF OperatorPlans, OperatorTrims, procs, vars
<1> QED
  BY <1>0, <1>3, <1>4, <1>5, <1>6, <1>7 DEF Next, ScanStep, CycleStep

\* The i-th of the stored scans is s, and was compared as it should be.
Compared(stored, s, i) ==
    /\ stored[i] = s.start
    /\ IF i = 1 \/ ~s.compare THEN s.prior = None
       ELSE \E j \in 1..(i - 1) : s.prior = stored[j] /\ Second(stored[j]) = Second(stored[i - 1])

\* Persist appends a scan that follows the newest; the order only grows.
LEMMA ComparedStep ==
    ASSUME HistoryInv, [Next]_vars
    PROVE  ComparedWithPredecessor'
<1>0. Typed /\ HolderKnows /\ ComparedWithPredecessor /\ order \in Seq(Time)
  BY DEF HistoryInv, Typed
<1>1. CASE scans' \subseteq scans /\ order' = order
  BY <1>0, <1>1 DEF ComparedWithPredecessor
<1>2. ASSUME NEW p \in Process, Persist(p)
      PROVE  ComparedWithPredecessor'
  <2>1. PICK s \in Scan : /\ s.start = cur[p].start /\ s.prior = cur[p].prior /\ s.compare = cur[p].compare
                          /\ Trim(scans \cup {s}, s.start) /\ order' = Append(order, s.start)
    BY <1>0, <1>2, PersistStores
  <2>2. Follows(s.compare, s.prior) /\ scans' \subseteq scans \cup {s}
    BY <1>0, <1>2, <2>1 DEF Persist, HolderKnows, Trim
  <2>3. /\ Len(order) \in Nat /\ DOMAIN order = 1..Len(order)
        /\ DOMAIN order' = 1..Len(order) + 1 /\ order'[Len(order) + 1] = s.start
        /\ \A i \in DOMAIN order : i \in DOMAIN order' /\ order'[i] = order[i]
    BY <1>0, <2>1
  <2>4. ASSUME NEW r \in scans
        PROVE  \E i \in DOMAIN order' : Compared(order', r, i)
    <3>1. PICK i \in DOMAIN order : Compared(order, r, i)
      BY <1>0 DEF ComparedWithPredecessor, Compared
    <3>2. i \in DOMAIN order' /\ order'[i] = order[i] /\ \A j \in 1..(i - 1) : order'[j] = order[j]
      BY <2>3
    <3>3. i # 1 => i - 1 \in 1..(i - 1)
      BY <2>3
    <3> QED
      BY <3>1, <3>2, <3>3 DEF Compared
  <2>5. Len(order) + 1 \in DOMAIN order'
    BY <2>3
  <2>6. Compared(order', s, Len(order) + 1)
    <3>1. CASE order = <<>>
      BY <2>2, <2>3, <3>1 DEF Compared, Follows, newest
    <3>2. CASE order # <<>> /\ ~s.compare
      BY <2>2, <2>3, <3>2 DEF Compared, Follows
    <3>3. CASE order # <<>> /\ s.compare
      <4>1. Len(order) # 0 /\ Len(order) \in DOMAIN order /\ newest = order[Len(order)]
        BY <1>0, <3>3 DEF newest
      <4>2. newest # None
        BY <1>0, <4>1, TimeIs
      <4>3. PICK j \in DOMAIN order : s.prior = order[j] /\ Second(order[j]) = Second(order[Len(order)])
        BY <2>2, <3>3, <4>1, <4>2 DEF Follows
      <4> DEFINE n == Len(order) + 1
      <4>4. n # 1 /\ n - 1 = Len(order) /\ j \in 1..(n - 1)
        BY <2>3, <4>1
      <4>5. order'[j] = order[j] /\ order'[n - 1] = order[Len(order)] /\ order'[n] = s.start
        BY <2>3, <4>1, <4>4
      <4>6. Second(order'[j]) = Second(order'[n - 1]) /\ s.prior = order'[j]
        BY <4>3, <4>5
      <4> HIDE DEF n
      <4>7. Compared(order', s, n)
        BY <3>3, <4>4, <4>5, <4>6 DEF Compared
      <4> QED
        BY <4>7 DEF n
    <3> QED
      BY <3>1, <3>2, <3>3
  <2>7. \E i \in DOMAIN order' : Compared(order', s, i)
    <3> DEFINE n == Len(order) + 1
    <3>1. n \in DOMAIN order' /\ Compared(order', s, n)
      BY <2>5, <2>6
    <3> HIDE DEF n
    <3> QED
      BY <3>1
  <2> QED
    BY <2>2, <2>4, <2>7 DEF ComparedWithPredecessor, Compared
<1>3. CASE OperatorTrims
  BY <1>1, <1>3 DEF OperatorTrims, Trim
<1> QED
  BY <1>1, <1>2, <1>3, RowSteps

\* An empty store satisfies the invariant.
LEMMA HistoryStarts == ASSUME Init PROVE HistoryInv
<1>0. NoScan \in Scan
  BY TimeIs DEF NoScan, Scan, None
<1>1. Typed
  BY <1>0, TimeIs, FS_EmptySet DEF Init, Typed, Labels
<1>2. HoldsLock /\ HolderKnows
  BY DEF Init, HoldsLock, HolderKnows, Scanning, Deciding
<1>3. NewestIsStored /\ ComparedWithPredecessor
  BY DEF Init, NewestIsStored, newest, ComparedWithPredecessor
<1> QED
  BY <1>1, <1>2, <1>3 DEF HistoryInv

\* Every step keeps the invariant.
LEMMA HistoryStep == ASSUME HistoryInv, [Next]_vars PROVE HistoryInv'
<1>1. HoldsLock'
  BY HoldsLockStep DEF HistoryInv
<1> QED
  BY <1>1, NewestStep, HolderKnowsStep, ComparedStep DEF HistoryInv

\* Between the scan of a cycle and the application of its plan nothing is stored, whoever
\* else scans, trims, plans or dies (cycle.go:85-86, apply_lock_linux.go:31-35), and the
\* latest scan is the cycle's, or one that began in the same second (records.go:105).
THEOREM CycleIsBound == Spec => []CycleStaysBound
<1>1. Init => HistoryInv
  BY HistoryStarts
<1>2. HistoryInv /\ [Next]_vars => HistoryInv'
  BY HistoryStep
<1>3. HistoryInv => CycleStaysBound
  <2> SUFFICES ASSUME HistoryInv, pc[Cycle] \in Deciding
               PROVE  /\ order # <<>> /\ order[Len(order)] = cur[Cycle].start
                      /\ Second(Latest(scans)) = Second(cur[Cycle].start)
    BY DEF CycleStaysBound, Deciding
  <2>1. cur[Cycle].start = newest /\ newest # None
    BY DEF HistoryInv, HolderKnows, Process
  <2>2. Second(Latest(scans)) = Second(newest)
    BY <2>1, LatestIsNear DEF HistoryInv
  <2>3. order # <<>> /\ order[Len(order)] = newest
    BY <2>1 DEF newest
  <2> QED
    BY <2>1, <2>2, <2>3
<1> QED
  BY <1>1, <1>2, <1>3, PTL DEF Spec

\* Whatever was trimmed meanwhile, a stored scan was compared with the one stored just before
\* it or with an earlier one of the same second, unless it was the first, or was asked to be
\* compared with none (priorInventory, scan.go:309-337).
THEOREM PriorIsPredecessor == Spec => []ComparedWithPredecessor
<1>1. Init => HistoryInv
  BY HistoryStarts
<1>2. HistoryInv /\ [Next]_vars => HistoryInv'
  BY HistoryStep
<1>3. HistoryInv => ComparedWithPredecessor
  BY DEF HistoryInv
<1> QED
  BY <1>1, <1>2, <1>3, PTL DEF Spec

-----------------------------------------------------------------------------
(* The two deep scans that finished last. *)

\* A set of scans that is not empty has a last one to finish, the later start first.
LEMMA LastFinishedIs ==
    ASSUME NEW S \in SUBSET Scan, S # {}, \A r, s \in S : r.start = s.start => r = s
    PROVE  LastFinished(S) \in S /\ \A r \in S : r.finish <= LastFinished(S).finish
<1> DEFINE FS == {s.finish : s \in S}
<1>0. MaxClock \in Nat /\ \A s \in S : s.start \in 0..MaxClock /\ s.finish \in 0..MaxClock
  BY TimeIs DEF Scan, Time
<1>1. FS \in SUBSET (0..MaxClock) /\ FS # {}
  BY <1>0
<1>2. PICK f \in FS : \A y \in FS : f >= y
  <2> HIDE DEF FS
  <2> QED
    BY <1>0, <1>1, GreatestExists
<1> DEFINE L == {s \in S : s.finish = f}
           BS == {s.start : s \in L}
<1>3. BS \in SUBSET (0..MaxClock) /\ BS # {}
  BY <1>0, <1>2
<1>4. PICK b \in BS : \A y \in BS : b >= y
  <2> HIDE DEF BS
  <2> QED
    BY <1>0, <1>3, GreatestExists
<1>5. PICK l \in L : l.start = b
  BY <1>4
<1>6. ASSUME NEW r \in S, r # l
      PROVE  r.finish < l.finish \/ (r.finish = l.finish /\ r.start < l.start)
  <2>1. r.finish \in Nat /\ l.finish \in Nat /\ r.start \in Nat /\ l.start \in Nat
    BY <1>0, <1>5
  <2>2. r.finish <= l.finish
    BY <1>2, <1>5
  <2>3. r.finish = l.finish => r.start <= l.start
    BY <1>4, <1>5
  <2>4. r.start # l.start
    BY <1>5, <1>6
  <2> QED
    BY <2>1, <2>2, <2>3, <2>4
<1>7. /\ LastFinished(S) \in S
      /\ \A r \in S \ {LastFinished(S)} :
            \/ r.finish < LastFinished(S).finish
            \/ r.finish = LastFinished(S).finish /\ r.start < LastFinished(S).start
  BY <1>5, <1>6 DEF LastFinished
<1> HIDE DEF L, BS, FS
<1>8. ASSUME NEW l2, l2 = LastFinished(S)
      PROVE  \A r \in S : r.finish <= l2.finish
  <2>1. \A r \in S : r.finish \in Nat
    BY <1>0
  <2> QED
    BY <1>7, <1>8, <2>1
<1> QED
  BY <1>7, <1>8

\* A trim spares two deep scans that finished no earlier than one it discards.
LEMMA TrimKeepsDeepPair ==
    ASSUME NEW S \in SUBSET Scan, IsFiniteSet(S), \A r, s \in S : r.start = s.start => r = s,
           NEW keep, Trim(S, keep), NEW s \in S, s \notin scans', s.deep, s.ran
    PROVE  Cardinality({r \in DeepRan(scans') : r.finish >= s.finish}) >= 2
<1> DEFINE D == DeepRan(S)
           a == LastFinished(D)
           b == LastFinished(D \ {a})
           K == {r \in DeepRan(scans') : r.finish >= s.finish}
<1>1. s \in D /\ D \in SUBSET S /\ D \in SUBSET Scan
  BY DEF DeepRan
<1>2. s \notin LastDeep(S) /\ scans' \subseteq S
  BY DEF Trim, Candidates
<1>3. Cardinality(D) > 2 /\ LastDeep(S) = {a, b}
  <2>1. ~(Cardinality(D) <= 2)
    BY <1>1, <1>2 DEF LastDeep
  <2>2. Cardinality(D) \in Nat
    BY <1>1, FS_Subset, FS_CardinalityType
  <2> HIDE DEF D
  <2>3. Cardinality(D) > 2
    BY <2>1, <2>2
  <2> QED
    BY <2>1, <2>3 DEF LastDeep, D
<1>4. a \in D /\ \A r \in D : r.finish <= a.finish
  <2> HIDE DEF D
  <2> QED
    BY <1>1, LastFinishedIs
<1>5. s # a /\ s # b
  BY <1>2, <1>3
<1>6. b \in D \ {a} /\ \A r \in D \ {a} : r.finish <= b.finish
  <2> DEFINE E == D \ {a}
  <2>1. E \in SUBSET Scan /\ E # {} /\ \A r, t \in E : r.start = t.start => r = t
    BY <1>1, <1>5
  <2> HIDE DEF D, a, E
  <2>2. LastFinished(E) \in E /\ \A r \in E : r.finish <= LastFinished(E).finish
    BY <2>1, LastFinishedIs
  <2> QED
    BY <2>2 DEF E
<1>7. a \in scans' /\ b \in scans'
  BY <1>1, <1>3, <1>4, <1>6 DEF Trim, Candidates
<1>8. a \in K /\ b \in K
  <2>1. s.finish \in Nat /\ a.finish \in Nat /\ b.finish \in Nat
    <3>1. \A r \in Scan : r.finish \in Nat
      BY TimeIs DEF Scan
    <3> QED
      BY <1>1, <1>4, <1>6, <3>1
  <2>2. s.finish <= a.finish /\ s.finish <= b.finish
    BY <1>1, <1>4, <1>5, <1>6
  <2>3. a \in DeepRan(scans') /\ b \in DeepRan(scans')
    BY <1>4, <1>6, <1>7 DEF DeepRan
  <2> HIDE DEF a, b
  <2> QED
    BY <2>1, <2>2, <2>3
<1>9. IsFiniteSet(K)
  <2>1. K \subseteq S
    BY <1>2 DEF DeepRan
  <2> QED
    BY <2>1, FS_Subset
<1>10. a # b
  BY <1>6
<1> HIDE DEF K, a, b, D
<1>11. Cardinality({a, b}) = 2 /\ IsFiniteSet({a, b})
  <2>1. IsFiniteSet({a}) /\ Cardinality({a}) = 1
    BY FS_Singleton
  <2>2. IsFiniteSet({a} \cup {b})
        /\ Cardinality({a} \cup {b}) = IF b \in {a} THEN Cardinality({a}) ELSE Cardinality({a}) + 1
    BY <2>1, FS_AddElement
  <2>3. {a} \cup {b} = {a, b}
    OBVIOUS
  <2>4. b \notin {a}
    BY <1>10
  <2> QED
    BY <2>1, <2>2, <2>3, <2>4
<1>12. Cardinality(K) >= 2 /\ Cardinality(K) \in Nat
  <2>1. {a, b} \in SUBSET K
    BY <1>8
  <2>2. Cardinality({a, b}) <= Cardinality(K)
    BY <1>9, <2>1, FS_Subset
  <2>3. Cardinality(K) \in Nat
    BY <1>9, FS_CardinalityType
  <2> QED
    BY <1>11, <2>2, <2>3
<1> QED
  BY <1>12 DEF K

\* A start names one stored scan.
OneEach == Typed /\ \A r, s \in scans : r.start = s.start => r = s

\* A scan is stored under a start that no stored scan has.
LEMMA OneEachStep == ASSUME OneEach, [Next]_vars PROVE OneEach'
<1>1. Typed'
  BY TypedStep DEF OneEach
<1>2. CASE scans' \subseteq scans
  BY <1>1, <1>2 DEF OneEach
<1>3. ASSUME NEW p \in Process, Persist(p)
      PROVE  OneEach'
  <2>1. PICK s \in Scan : s.start = cur[p].start /\ Trim(scans \cup {s}, s.start)
    BY <1>3, PersistStores DEF OneEach
  <2>2. s.start \notin Ids(scans)
    BY <1>3, <2>1 DEF Persist, Taken
  <2> QED
    BY <1>1, <2>1, <2>2 DEF OneEach, Ids, Trim
<1> QED
  BY <1>2, <1>3, RowSteps DEF OperatorTrims, Trim

\* The two deep scans that completed last outlive every trim, whatever is stored after them
\* (README.md:349).
THEOREM DeepPairOutlives == Spec => DeepPairKept
<1> DEFINE A == LET gone == scans \ scans'
                IN \A s \in gone : s.deep /\ s.ran =>
                      Cardinality({r \in DeepRan(scans') : r.finish >= s.finish}) >= 2
<1>1. Init => OneEach
  BY HistoryStarts DEF OneEach, HistoryInv, Init
<1>2. OneEach /\ [Next]_vars => OneEach'
  BY OneEachStep
<1>3. OneEach /\ [Next]_vars => [A]_vars
  <2> SUFFICES ASSUME OneEach, [Next]_vars, NEW s \in scans \ scans', s.deep, s.ran
               PROVE  Cardinality({r \in DeepRan(scans') : r.finish >= s.finish}) >= 2
    OBVIOUS
  <2>1. CASE OperatorTrims
    BY <2>1, TrimKeepsDeepPair DEF OperatorTrims, OneEach, Typed
  <2>2. ASSUME NEW p \in Process, Persist(p)
        PROVE  Cardinality({r \in DeepRan(scans') : r.finish >= s.finish}) >= 2
    <3>1. PICK n \in Scan : n.start = cur[p].start /\ Trim(scans \cup {n}, n.start)
      BY <2>2, PersistStores DEF OneEach
    <3> DEFINE S == scans \cup {n}
    <3>2. n.start \notin Ids(scans)
      BY <2>2, <3>1 DEF Persist, Taken
    <3>3. S \in SUBSET Scan /\ \A r, t \in S : r.start = t.start => r = t
      BY <3>2 DEF OneEach, Typed, Ids
    <3>4. IsFiniteSet(S)
      BY FS_AddElement DEF OneEach, Typed
    <3>5. Trim(S, n.start) /\ s \in S
      BY <3>1
    <3> HIDE DEF S
    <3> QED
      BY <3>3, <3>4, <3>5, TrimKeepsDeepPair
  <2> QED
    BY <2>1, <2>2, RowSteps
<1> HIDE DEF A
<1> QED
  BY <1>1, <1>2, <1>3, PTL DEF Spec, DeepPairKept, A

-----------------------------------------------------------------------------
(* Types, and what plans and cycles refer to. *)

\* What a stored plan or a completed cycle is bound to is stored, whoever trims.
BoundAreStored == plans \cup cycles \subseteq Ids(scans)

StoredInv ==
    /\ OneEach /\ BoundAreStored
    /\ deepClock \in {None} \cup Time /\ lock \in {Nobody} \cup Process /\ failures \in 0..MaxFailures

\* A set of scans with different starts has as many starts.
LEMMA StartsCount ==
    ASSUME NEW S, IsFiniteSet(S), \A r, s \in S : r.start = s.start => r = s
    PROVE  Cardinality(Ids(S)) = Cardinality(S)
<1> DEFINE f == [s \in S |-> s.start]
<1>1. f \in Bijection(S, Ids(S))
  BY DEF Bijection, Injection, Surjection, IsInjective, Ids
<1> HIDE DEF f
<1>2. ExistsBijection(S, Ids(S))
  BY <1>1 DEF ExistsBijection
<1> QED
  BY <1>2, FS_Bijection

\* A trim takes the plans of what it discards along, and discards nothing of a cycle.
LEMMA TrimKeepsBound ==
    ASSUME NEW S, NEW keep, Trim(S, keep), plans \cup cycles \subseteq Ids(S)
    PROVE  plans' \cup cycles \subseteq Ids(scans')
<1> DEFINE gone == Candidates(S, plans, keep)
<1>1. scans' = S \ gone /\ plans' = plans \ Ids(gone)
  BY DEF Trim
<1>2. \A s \in gone : s.start \notin cycles
  BY DEF Candidates, Referenced
<1> HIDE DEF gone
<1> QED
  BY <1>1, <1>2 DEF Ids

\* A plan is made from a stored scan, and a cycle recorded of one.
LEMMA BoundStep == ASSUME OneEach, BoundAreStored, [Next]_vars PROVE BoundAreStored'
<1>1. CASE UNCHANGED rows
  BY <1>1 DEF BoundAreStored, rows
<1>2. ASSUME NEW p \in Process, Persist(p)
      PROVE  BoundAreStored'
  <2>1. PICK s \in Scan : Trim(scans \cup {s}, s.start)
    BY <1>2, PersistStores DEF OneEach
  <2>2. plans \cup cycles \subseteq Ids(scans \cup {s})
    BY DEF BoundAreStored, Ids
  <2>3. cycles' = cycles
    BY <1>2 DEF Persist
  <2> QED
    BY <2>1, <2>2, <2>3, TrimKeepsBound DEF BoundAreStored
<1>3. CASE OperatorTrims
  BY <1>3, TrimKeepsBound DEF OperatorTrims, BoundAreStored
<1>4. CASE OperatorPlans
  <2>1. Ids(scans) \in SUBSET Time /\ Ids(scans) # {}
    BY <1>4 DEF OneEach, Typed, Ids, Scan, OperatorPlans
  <2>2. Latest(scans) \in Ids(scans)
    BY <1>4, <2>1, LatestExists DEF Latest, OperatorPlans
  <2> QED
    BY <1>4, <2>2 DEF OperatorPlans, BoundAreStored
<1>5. CASE PlanCycle
  BY <1>5 DEF PlanCycle, BoundAreStored
<1>6. CASE RecordCycle
  BY <1>6 DEF RecordCycle, BoundAreStored
<1> QED
  BY <1>1, <1>2, <1>3, <1>4, <1>5, <1>6
     DEF Next, Begins, LockScan, ReadPrior, StartScan, PersistFails, Dies, RecordDeep, ApplyCycle, Tick, rows, vars

\* The deep clock, the lock and the failures keep their types.
LEMMA RestStep == ASSUME StoredInv, [Next]_vars
                  PROVE  /\ deepClock' \in {None} \cup Time /\ lock' \in {Nobody} \cup Process
                         /\ failures' \in 0..MaxFailures
<1>1. deepClock' \in {None} \cup Time
  <2>1. CASE RecordDeep
    <3>1. cur[Cycle].finish \in Time /\ Time \subseteq Nat
      BY TimeIs DEF StoredInv, OneEach, Typed, Scan, Process
    <3> QED
      BY <2>1, <3>1 DEF RecordDeep, StoredInv, Max2
  <2>2. CASE UNCHANGED deepClock
    BY <2>2 DEF StoredInv
  <2> QED
    BY <2>1, <2>2 DEF Next, Begins, LockScan, ReadPrior, StartScan, Persist, PersistFails, Dies, PlanCycle,
       ApplyCycle, RecordCycle, OperatorPlans, OperatorTrims, Tick, vars
<1>2. lock' \in {Nobody} \cup Process
  <2>1. lock \in {Nobody} \cup Process /\ Cycle \in Process
    BY DEF StoredInv, Process
  <2> QED
    BY <2>1 DEF Next, Begins, LockScan, ReadPrior, StartScan, Persist, PersistFails, Dies, RecordDeep, PlanCycle,
       ApplyCycle, RecordCycle, OperatorPlans, OperatorTrims, Tick, Ends, Unlock, KeepLock, procs, vars
<1>3. failures' \in 0..MaxFailures
  <2>1. failures \in 0..MaxFailures /\ MaxFailures \in Nat
    BY ScanAssumption DEF StoredInv
  <2>2. ASSUME NEW p \in Process, Dies(p)
        PROVE  failures' \in 0..MaxFailures
    BY <2>1, <2>2 DEF Dies
  <2>3. CASE UNCHANGED failures
    BY <2>1, <2>3
  <2> QED
    BY <2>2, <2>3 DEF Next, Begins, LockScan, ReadPrior, StartScan, Persist, PersistFails, RecordDeep, PlanCycle,
       ApplyCycle, RecordCycle, OperatorPlans, OperatorTrims, Tick, vars
<1> QED
  BY <1>1, <1>2, <1>3

\* The invariant holds throughout.
LEMMA StoredHolds == Spec => []StoredInv
<1>1. Init => StoredInv
  BY HistoryStarts, ScanAssumption DEF Init, StoredInv, OneEach, HistoryInv, BoundAreStored
<1>2. StoredInv /\ [Next]_vars => StoredInv'
  BY OneEachStep, BoundStep, RestStep DEF StoredInv
<1> QED
  BY <1>1, <1>2, PTL DEF Spec

\* However many scanners, operators and trims meet and die, the rows keep their types, and a
\* start names one scan (the primary key of scans, store/migrations.go:28).
THEOREM TypeCorrect == Spec => []TypeOK
<1>1. StoredInv => TypeOK
  BY StartsCount DEF StoredInv, OneEach, Typed, BoundAreStored, TypeOK, Ids, Scan
<1> QED
  BY <1>1, StoredHolds, PTL

\* The scan a stored plan or a completed cycle refers to is never missing: what is recorded
\* was stored, and no trim leaves a reference behind (store/history.go:56-58, migrations.go:56, 237).
THEOREM ReferencesResolve == Spec => []BoundAreStored
BY StoredHolds, PTL DEF StoredInv

=============================================================================
