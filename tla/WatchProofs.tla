----------------------------- MODULE WatchProofs -----------------------------
(***************************************************************************)
(* Theorems about what `janitor watch` runs: the watch loop, for any       *)
(* number of paths, any bound on the kernel queue and any timers, for      *)
(* every order of the events; and, from FiniteHasGreatest on, the capacity *)
(* sampler and the recovery passes of the cycles beside it, for any number *)
(* of targets, filesystems, stores and processes.                          *)
(***************************************************************************)
EXTENDS Watch, Capacity, FiniteSetTheorems, WellFoundedInduction, TLAPS

Event == Path \cup {Lost}

-----------------------------------------------------------------------------
(* The kernel queue. *)

\* A longer queue keeps what is queued where it is.
Longer(q, r) == Len(q) <= Len(r) /\ \A i \in 1..Len(q) : r[i] = q[i]

\* A kernel queue that is over its bound holds the overflow.
QueueFull == Len(queue) > QueueSize => Contains(queue, Lost)

QueueType == queue \in Seq(Event) /\ Len(queue) <= QueueSize + 1 /\ QueueFull

\* An event that is appended is the last one, behind all that were queued.
LEMMA AppendIs ==
    ASSUME NEW q \in Seq(Event), NEW e \in Event
    PROVE  /\ Append(q, e) \in Seq(Event) /\ Len(Append(q, e)) = Len(q) + 1
           /\ Append(q, e)[Len(q) + 1] = e /\ Longer(q, Append(q, e))
BY DEF Longer

\* Taking the head moves every other event one place forward.
LEMMA TailIs ==
    ASSUME NEW q \in Seq(Event), q # <<>>
    PROVE  /\ Tail(q) \in Seq(Event) /\ Len(Tail(q)) = Len(q) - 1 /\ Head(q) = q[1]
           /\ Head(q) \in Event /\ \A i \in 1..Len(q) - 1 : Tail(q)[i] = q[i + 1]
OBVIOUS

\* An event of p leaves one of p, or an overflow, in the queue, which keeps its bound.
LEMMA EnqueueIs ==
    ASSUME QueueType, NEW p \in Path, NEW r \in Enqueue(p)
    PROVE  /\ r \in Seq(Event) /\ Len(r) <= QueueSize + 1
           /\ Len(r) > QueueSize => Contains(r, Lost)
           /\ Longer(queue, r) /\ \E i \in 1..Len(r) : r[i] \in {p, Lost}
<1>1. queue \in Seq(Event) /\ Len(queue) \in Nat /\ QueueSize \in Nat \ {0}
  BY WatchAssumption DEF QueueType
<1>2. p \in Event /\ Lost \in Event
  BY DEF Event
<1>3. Longer(queue, queue)
  BY <1>1 DEF Longer
<1>4. CASE r = queue /\ queue # <<>> /\ Last(queue) = p
  <2>1. Len(queue) \in 1..Len(queue) /\ queue[Len(queue)] = p
    BY <1>1, <1>4 DEF Last
  <2> QED
    BY <1>1, <1>3, <1>4, <2>1 DEF QueueType, QueueFull
<1>5. CASE r = Append(queue, p) /\ ~(Len(queue) >= QueueSize)
  <2>1. /\ r \in Seq(Event) /\ Len(r) = Len(queue) + 1 /\ r[Len(queue) + 1] = p /\ Longer(queue, r)
    BY <1>1, <1>2, <1>5, AppendIs
  <2>2. Len(queue) + 1 \in 1..Len(r) /\ Len(r) <= QueueSize
    BY <1>1, <1>5, <2>1
  <2> QED
    BY <1>1, <2>1, <2>2
<1>6. CASE r = queue /\ Contains(queue, Lost)
  BY <1>1, <1>3, <1>6 DEF QueueType, Contains
<1>7. CASE r = Append(queue, Lost) /\ ~Contains(queue, Lost)
  <2>1. /\ r \in Seq(Event) /\ Len(r) = Len(queue) + 1 /\ r[Len(queue) + 1] = Lost /\ Longer(queue, r)
    BY <1>1, <1>2, <1>7, AppendIs
  <2>2. Len(queue) + 1 \in 1..Len(r) /\ Len(queue) <= QueueSize
    BY <1>1, <1>7, <2>1 DEF QueueType, QueueFull
  <2> QED
    BY <1>1, <2>1, <2>2 DEF Contains
<1> QED
  BY <1>4, <1>5, <1>6, <1>7 DEF Enqueue

\* An event of p that is still queued, and one that no overflow is before.
InQueueOf(q, p) == \E i \in 1..Len(q) : q[i] \in {p, Lost}
AheadIn(q, p) == \E i \in 1..Len(q) : q[i] = p /\ \A j \in 1..i : q[j] # Lost

\* A longer queue still has what was queued.
LEMMA LongerHas ==
    ASSUME NEW q \in Seq(Event), NEW r \in Seq(Event), Longer(q, r), NEW p \in Path
    PROVE  (InQueueOf(q, p) => InQueueOf(r, p)) /\ (AheadIn(q, p) => AheadIn(r, p))
<1>1. Len(q) \in Nat /\ Len(r) \in Nat
  OBVIOUS
<1> QED
  BY <1>1 DEF Longer, InQueueOf, AheadIn

\* Taking an event leaves those of other paths, unless it is an overflow.
LEMMA TailHas ==
    ASSUME NEW q \in Seq(Event), q # <<>>, NEW p \in Path
    PROVE  /\ InQueueOf(q, p) /\ Head(q) \notin {p, Lost} => InQueueOf(Tail(q), p)
           /\ AheadIn(q, p) /\ Head(q) # p => AheadIn(Tail(q), p)
           /\ AheadIn(q, p) => Head(q) # Lost
<1>1. Len(q) \in Nat /\ Len(Tail(q)) = Len(q) - 1 /\ Head(q) = q[1]
  BY TailIs
<1>2. \A i \in 1..Len(q) - 1 : Tail(q)[i] = q[i + 1]
  BY TailIs
<1>3. ASSUME NEW i \in 1..Len(q), q[i] \in {p, Lost}, Head(q) \notin {p, Lost}
      PROVE  InQueueOf(Tail(q), p)
  <2>1. i - 1 \in 1..Len(q) - 1 /\ Tail(q)[i - 1] = q[i]
    BY <1>1, <1>2, <1>3
  <2> QED
    BY <1>1, <1>3, <2>1 DEF InQueueOf
<1>4. ASSUME NEW i \in 1..Len(q), q[i] = p, \A j \in 1..i : q[j] # Lost
      PROVE  Head(q) # Lost /\ (Head(q) # p => AheadIn(Tail(q), p))
  <2>1. Head(q) # Lost
    BY <1>1, <1>4
  <2>2. ASSUME Head(q) # p
        PROVE  AheadIn(Tail(q), p)
    <3>1. i - 1 \in 1..Len(q) - 1 /\ Tail(q)[i - 1] = q[i]
      BY <1>1, <1>2, <1>4, <2>2
    <3>2. \A j \in 1..i - 1 : Tail(q)[j] # Lost
      BY <1>1, <1>2, <1>4
    <3> QED
      BY <1>1, <1>4, <3>1, <3>2 DEF AheadIn
  <2> QED
    BY <2>1, <2>2
<1> QED
  BY <1>3, <1>4 DEF InQueueOf, AheadIn

\* Without an overflow in the queue, whatever is queued is ahead of any.
LEMMA QueuedIsAhead ==
    ASSUME NEW q \in Seq(Event), NEW p \in Path, InQueueOf(q, p), ~Contains(q, Lost)
    PROVE  AheadIn(q, p)
<1>1. Len(q) \in Nat
  OBVIOUS
<1> QED
  BY <1>1 DEF InQueueOf, AheadIn, Contains

-----------------------------------------------------------------------------
(* Types. *)

TreeTypes == tree \in [Path -> Kinds] /\ known \subseteq Path /\ held \in BOOLEAN

LoopTypes ==
    /\ pc \in {"off", "wait", "burst", "rearm", "scan", "done"}
    /\ guard \in [Protected -> Dirs \cup {Absent}]
    /\ changed \subseteq Path /\ overflow \in BOOLEAN
    /\ pendingChanged \subseteq Path /\ pendingOverflow \in BOOLEAN
    /\ pendingSettle \subseteq Path
    /\ job \in [reason : Reasons, paths : SUBSET Path, overflow : BOOLEAN, revisit : SUBSET Path]

TimerTypes ==
    /\ changeIn \in Timer(Gap) /\ settleIn \in Timer(Settle) /\ churnIn \in Timer(Churn)
    /\ sinceScan \in 0..Gap /\ revisited \in [Path -> 0..Gap]

HistoryTypes ==
    failures \in 0..MaxFailures /\ dirty \in [Path -> BOOLEAN] /\ news \in [Path -> News]

Typed == TreeTypes /\ QueueType /\ LoopTypes /\ TimerTypes /\ HistoryTypes

\* What the runs check of types is a part of it.
LEMMA TypedIs == Typed => TypeOK
BY DEF Typed, TreeTypes, QueueType, LoopTypes, TimerTypes, HistoryTypes, TypeOK, Event

\* A watcher that starts, or ends, has an empty memory.
LEMMA FreshTypes ==
    ASSUME FreshLoop
    PROVE  /\ QueueType' /\ TimerTypes'
           /\ changed' = {} /\ overflow' = FALSE
           /\ pendingChanged' = {} /\ pendingOverflow' = FALSE /\ pendingSettle' = {}
           /\ job' = NoJob
           /\ NoJob \in [reason : Reasons, paths : SUBSET Path, overflow : BOOLEAN, revisit : SUBSET Path]
<1>1. queue' = <<>> /\ Len(<<>>) = 0 /\ <<>> \in Seq(Event) /\ QueueSize \in Nat
  BY WatchAssumption DEF FreshLoop
<1>2. QueueType'
  BY <1>1 DEF QueueType, QueueFull
<1>3. TimerTypes'
  BY WatchAssumption DEF FreshLoop, TimerTypes, Timer, Never
<1>4. NoJob \in [reason : Reasons, paths : SUBSET Path, overflow : BOOLEAN, revisit : SUBSET Path]
  BY DEF NoJob, Reasons
<1> QED
  BY <1>2, <1>3, <1>4 DEF FreshLoop

\* A protected path is a directory of one of two identities, or none.
LEMMA IdentityType == \A p : Identity(p) \in Dirs \cup {Absent}
BY DEF Identity

\* The path of the event at the head of the queue, and what taking it leaves behind.
LEMMA TakeTypes ==
    ASSUME Typed, Take
    PROVE  QueueType' /\ LoopTypes' /\ TimerTypes'
<1>1. queue \in Seq(Event) /\ queue # <<>> /\ queue' = Tail(queue) /\ QueueSize \in Nat \ {0}
  BY WatchAssumption DEF Typed, QueueType, Take
<1>2. /\ queue' \in Seq(Event) /\ Len(queue') = Len(queue) - 1 /\ Head(queue) \in Event
      /\ Len(queue) \in Nat
  BY <1>1, TailIs
<1>3. QueueType'
  <2>1. Len(queue') <= QueueSize
    BY <1>1, <1>2 DEF Typed, QueueType
  <2> QED
    BY <1>1, <1>2, <2>1 DEF QueueType, QueueFull
<1>4. CASE Head(queue) = Lost
  BY <1>3, <1>4 DEF Take, Typed, LoopTypes, TimerTypes, pending
<1>5. CASE Head(queue) # Lost
  <2>1. Head(queue) \in Path
    BY <1>2, <1>5 DEF Event
  <2>2. guard' \in [Protected -> Dirs \cup {Absent}]
    BY <1>5, IdentityType DEF Take, Typed, LoopTypes
  <2>3. churnIn' \in Timer(Churn)
    BY <1>5, WatchAssumption DEF Take, Typed, TimerTypes, Timer, Never
  <2>4. changed' \subseteq Path
    BY <1>5, <2>1 DEF Take, Typed, LoopTypes
  <2>5. /\ pc' = "burst" /\ UNCHANGED <<overflow, job>> /\ UNCHANGED pending
        /\ UNCHANGED <<changeIn, settleIn, sinceScan, revisited>>
    BY <1>5 DEF Take
  <2>6. LoopTypes'
    BY <2>2, <2>4, <2>5 DEF Typed, LoopTypes, pending
  <2> QED
    BY <1>3, <2>3, <2>5, <2>6 DEF Typed, TimerTypes
<1> QED
  BY <1>4, <1>5

\* What is started, held back or let go at the end of a burst is well typed.
LEMMA AfterBurstTypes ==
    ASSUME Typed, AfterBurst
    PROVE  /\ pc' \in {"wait", "scan"} /\ pendingChanged' \subseteq Path /\ pendingOverflow' \in BOOLEAN
           /\ changeIn' \in Timer(Gap)
           /\ job' \in [reason : Reasons, paths : SUBSET Path, overflow : BOOLEAN, revisit : SUBSET Path]
<1>1. LoopTypes /\ TimerTypes
  BY DEF Typed
<1>2. CASE ~overflow /\ changed = {}
  BY <1>1, <1>2 DEF AfterBurst, LoopTypes, TimerTypes
<1>3. CASE ~(~overflow /\ changed = {})
  <2>1. /\ pendingChanged' = pendingChanged \cup changed /\ pendingOverflow' = (pendingOverflow \/ overflow)
    BY <1>3 DEF AfterBurst
  <2>2. CASE Held
    <3>1. Gap - sinceScan \in 0..Gap
      BY <1>1, WatchAssumption DEF TimerTypes
    <3> QED
      BY <1>1, <1>3, <2>1, <2>2, <3>1 DEF AfterBurst, LoopTypes, TimerTypes, Timer
  <2>3. CASE ~Held
    <3>1. /\ pc' = "scan" /\ changeIn' = changeIn
          /\ job' = [reason |-> "change", paths |-> pendingChanged \cup changed,
                     overflow |-> Carried(overflow), revisit |-> {}]
      BY <1>3, <2>3 DEF AfterBurst, StartScan
    <3>2. Carried(overflow) \in BOOLEAN
      BY <1>1 DEF Carried, LoopTypes
    <3> QED
      BY <1>1, <2>1, <3>1, <3>2 DEF LoopTypes, TimerTypes, Reasons
  <2> QED
    BY <2>2, <2>3
<1> QED
  BY <1>2, <1>3

\* A scan job carries paths, and what the gap holds back of overflows.
LEMMA StartScanTypes ==
    ASSUME Typed, NEW r \in Reasons, NEW m \in SUBSET Path, NEW o \in BOOLEAN, NEW v \in SUBSET Path,
           StartScan(r, m, o, v)
    PROVE  /\ pc' = "scan"
           /\ job' \in [reason : Reasons, paths : SUBSET Path, overflow : BOOLEAN, revisit : SUBSET Path]
<1>1. LoopTypes
  BY DEF Typed
<1>2. Carried(o) \in BOOLEAN /\ pendingChanged \cup m \in SUBSET Path
  BY <1>1 DEF Carried, LoopTypes
<1> QED
  BY <1>2 DEF StartScan

\* Every step of the tree, of other scans and of time keeps the types.
LEMMA AroundTypes ==
    ASSUME Typed, (\E p \in Path, k \in Kinds : Change(p, k)) \/ CycleScans \/ CycleReleases \/ Tick
    PROVE  Typed'
<1>1. TreeTypes /\ QueueType /\ LoopTypes /\ TimerTypes /\ HistoryTypes
  BY DEF Typed
<1>2. ASSUME NEW p \in Path, NEW k \in Kinds, Change(p, k)
      PROVE  Typed'
  <2>1. QueueType'
    <3>1. CASE queue' = queue
      BY <1>1, <3>1 DEF QueueType, QueueFull
    <3>2. CASE queue' \in Enqueue(p)
      BY <1>1, <3>2, EnqueueIs DEF QueueType, QueueFull
    <3> QED
      BY <1>2, <3>1, <3>2 DEF Change
  <2>2. TreeTypes'
    BY <1>1, <1>2 DEF Change, TreeTypes
  <2>3. HistoryTypes'
    BY <1>1, <1>2 DEF Change, HistoryTypes, News
  <2>4. UNCHANGED pc /\ UNCHANGED burst /\ UNCHANGED pending /\ UNCHANGED timers /\ UNCHANGED job
    BY <1>2 DEF Change
  <2>5. LoopTypes' /\ TimerTypes'
    BY <1>1, <2>4 DEF LoopTypes, TimerTypes, burst, pending, timers
  <2> QED
    BY <2>1, <2>2, <2>3, <2>5 DEF Typed
<1>3. CASE CycleScans
  <2>1. TreeTypes' /\ HistoryTypes'
    BY <1>1, <1>3 DEF CycleScans, TreeTypes, HistoryTypes, Present, News
  <2>2. UNCHANGED queue /\ UNCHANGED pc /\ UNCHANGED burst /\ UNCHANGED pending /\ UNCHANGED timers /\ UNCHANGED job
    BY <1>3 DEF CycleScans
  <2>3. QueueType' /\ LoopTypes' /\ TimerTypes'
    BY <1>1, <2>2 DEF QueueType, QueueFull, LoopTypes, TimerTypes, burst, pending, timers
  <2> QED
    BY <2>1, <2>3 DEF Typed
<1>4. CASE CycleReleases
  <2>1. TreeTypes'
    BY <1>1, <1>4 DEF CycleReleases, TreeTypes
  <2>2. /\ UNCHANGED queue /\ UNCHANGED pc /\ UNCHANGED burst /\ UNCHANGED pending /\ UNCHANGED timers
        /\ UNCHANGED job /\ UNCHANGED failures /\ UNCHANGED history
    BY <1>4 DEF CycleReleases
  <2>3. QueueType' /\ LoopTypes' /\ TimerTypes' /\ HistoryTypes'
    BY <1>1, <2>2 DEF QueueType, QueueFull, LoopTypes, TimerTypes, HistoryTypes, burst, pending,
                      timers, history
  <2> QED
    BY <2>1, <2>3 DEF Typed
<1>5. CASE Tick
  <2>1. Gap \in Nat \ {0} /\ Settle \in Nat \ {0} /\ Churn \in Nat \ {0}
    BY WatchAssumption
  <2>2. TimerTypes'
    <3>1. changeIn' \in Timer(Gap) /\ settleIn' \in Timer(Settle) /\ churnIn' \in Timer(Churn)
      BY <1>1, <1>5, <2>1 DEF Tick, TimerTypes, Timer, Never, Down
    <3>2. \A t \in 0..Gap : Up(t) \in 0..Gap
      BY <2>1 DEF Up
    <3>3. sinceScan' \in 0..Gap /\ revisited' \in [Path -> 0..Gap]
      BY <1>1, <1>5, <3>2 DEF Tick, TimerTypes
    <3> QED
      BY <3>1, <3>3 DEF TimerTypes
  <2>3. /\ UNCHANGED events /\ UNCHANGED pc /\ UNCHANGED burst /\ UNCHANGED pending
        /\ UNCHANGED job /\ UNCHANGED failures /\ UNCHANGED history
    BY <1>5 DEF Tick
  <2>4. TreeTypes' /\ QueueType' /\ LoopTypes' /\ HistoryTypes'
    BY <1>1, <2>3 DEF TreeTypes, QueueType, QueueFull, LoopTypes, HistoryTypes, events, burst, pending,
                      history
  <2> QED
    BY <2>2, <2>4 DEF Typed
<1> QED
  BY <1>2, <1>3, <1>4, <1>5

\* Every step of the loop and every failure of the watcher keeps the types.
LEMMA LoopTypesStep ==
    ASSUME Typed, Loop \/ RearmFails \/ ReconcileFails \/ Dies
    PROVE  Typed'
<1>1. TreeTypes /\ QueueType /\ LoopTypes /\ TimerTypes /\ HistoryTypes
  BY DEF Typed
<1>2. ASSUME Ends, known' \in {known, Present}
      PROVE  TreeTypes' /\ QueueType' /\ LoopTypes' /\ TimerTypes' /\ dirty' = dirty /\ news' \in [Path -> News]
  <2>1. FreshLoop /\ pc' = "off" /\ guard' = [p \in Protected |-> Absent] /\ UNCHANGED <<tree, held, dirty>>
    BY <1>2 DEF Ends
  <2>2. news' \in [Path -> News]
    BY <1>1, <1>2 DEF Ends, HistoryTypes, News
  <2>3. TreeTypes'
    BY <1>1, <1>2, <2>1 DEF TreeTypes, Present
  <2>4. LoopTypes'
    BY <2>1, FreshTypes DEF LoopTypes
  <2> QED
    BY <2>1, <2>2, <2>3, <2>4, FreshTypes
<1>3. failures + 1 \in 0..MaxFailures \/ ~(failures < MaxFailures)
  BY <1>1, WatchAssumption DEF HistoryTypes
<1>4. CASE Start
  <2>1. FreshLoop /\ pc' = "scan" /\ guard' \in [Protected -> Dirs \cup {Absent}]
    BY <1>4, IdentityType DEF Start
  <2>2. LoopTypes'
    BY <2>1, FreshTypes DEF LoopTypes
  <2>3. UNCHANGED <<tree, known, held>> /\ UNCHANGED failures /\ UNCHANGED history
    BY <1>4 DEF Start
  <2>4. TreeTypes' /\ HistoryTypes'
    BY <1>1, <2>3 DEF TreeTypes, HistoryTypes, history
  <2> QED
    BY <2>1, <2>2, <2>4, FreshTypes DEF Typed
<1>5. CASE Take
  <2>1. UNCHANGED <<tree, known, held>> /\ UNCHANGED failures /\ UNCHANGED history
    BY <1>5 DEF Take
  <2>2. TreeTypes' /\ HistoryTypes'
    BY <1>1, <2>1 DEF TreeTypes, HistoryTypes, history
  <2> QED
    BY <1>5, <2>2, TakeTypes DEF Typed
<1>6. CASE BurstEnds
  <2>1. /\ AfterBurst /\ changed' = {} /\ UNCHANGED events /\ UNCHANGED failures /\ UNCHANGED history
        /\ UNCHANGED <<guard, overflow, pendingSettle, settleIn, churnIn, sinceScan, revisited>>
    BY <1>6 DEF BurstEnds
  <2>2. TreeTypes' /\ QueueType' /\ HistoryTypes'
    BY <1>1, <2>1 DEF TreeTypes, QueueType, QueueFull, HistoryTypes, events, history
  <2>3. LoopTypes' /\ TimerTypes'
    BY <1>1, <2>1, AfterBurstTypes DEF LoopTypes, TimerTypes
  <2> QED
    BY <2>2, <2>3 DEF Typed
<1>7. CASE Rearm
  <2>1. /\ AfterBurst /\ changed' = {} /\ overflow' = FALSE /\ queue' = <<>>
        /\ guard' \in [Protected -> Dirs \cup {Absent}]
        /\ UNCHANGED <<tree, known, held>> /\ UNCHANGED failures /\ UNCHANGED history
        /\ UNCHANGED <<pendingSettle, settleIn, churnIn, sinceScan, revisited>>
    BY <1>7, IdentityType DEF Rearm
  <2>2. QueueType'
    BY <2>1, WatchAssumption DEF QueueType, QueueFull
  <2>3. TreeTypes' /\ HistoryTypes'
    BY <1>1, <2>1 DEF TreeTypes, HistoryTypes, history
  <2>4. LoopTypes' /\ TimerTypes'
    BY <1>1, <2>1, AfterBurstTypes DEF LoopTypes, TimerTypes
  <2> QED
    BY <2>2, <2>3, <2>4 DEF Typed
<1>8. CASE RearmFails
  <2>1. /\ failures' \in 0..MaxFailures /\ queue' = <<>> /\ pc' = "scan"
        /\ job' = [reason |-> "last", paths |-> changed, overflow |-> TRUE, revisit |-> {}]
        /\ UNCHANGED <<tree, known, held>> /\ UNCHANGED burst /\ UNCHANGED pending
        /\ UNCHANGED timers /\ UNCHANGED history
    BY <1>3, <1>8 DEF RearmFails
  <2>2. QueueType'
    BY <2>1, WatchAssumption DEF QueueType, QueueFull
  <2>3. TreeTypes' /\ HistoryTypes' /\ TimerTypes'
    BY <1>1, <2>1 DEF TreeTypes, HistoryTypes, TimerTypes, history, timers
  <2>4. LoopTypes'
    BY <1>1, <2>1 DEF LoopTypes, Reasons, burst, pending
  <2> QED
    BY <2>2, <2>3, <2>4 DEF Typed
<1>9. CASE TimerScan
  <2>1. /\ UNCHANGED events /\ UNCHANGED burst /\ UNCHANGED failures /\ UNCHANGED history
        /\ UNCHANGED <<pendingChanged, pendingOverflow, changeIn, churnIn, sinceScan, revisited>>
    BY <1>9 DEF TimerScan
  <2>2. /\ pc' = "scan" /\ pendingSettle' \subseteq Path /\ settleIn' \in Timer(Settle)
        /\ job' \in [reason : Reasons, paths : SUBSET Path, overflow : BOOLEAN, revisit : SUBSET Path]
    <3>1. CASE Due(changeIn)
      <4>1. StartScan("change", {}, FALSE, {}) /\ UNCHANGED <<pendingSettle, settleIn>>
        BY <1>9, <3>1 DEF TimerScan
      <4>2. "change" \in Reasons /\ {} \in SUBSET Path /\ FALSE \in BOOLEAN
        BY DEF Reasons
      <4>3. /\ pc' = "scan"
            /\ job' \in [reason : Reasons, paths : SUBSET Path, overflow : BOOLEAN, revisit : SUBSET Path]
        BY <4>1, <4>2, StartScanTypes
      <4> QED
        BY <1>1, <4>1, <4>3 DEF LoopTypes, TimerTypes
    <3>2. CASE ~Due(changeIn) /\ Due(settleIn)
      <4>1. /\ StartScan("settled", pendingSettle, FALSE, pendingSettle)
            /\ pendingSettle' = {} /\ settleIn' = Never
        BY <1>9, <3>2 DEF TimerScan
      <4> QED
        BY <1>1, <4>1, StartScanTypes DEF Reasons, LoopTypes, Timer
    <3>3. CASE ~Due(changeIn) /\ ~Due(settleIn)
      <4>1. StartScan("churn", {}, TRUE, {}) /\ UNCHANGED <<pendingSettle, settleIn>>
        BY <1>9, <3>3 DEF TimerScan
      <4>2. "churn" \in Reasons /\ {} \in SUBSET Path /\ TRUE \in BOOLEAN
        BY DEF Reasons
      <4>3. /\ pc' = "scan"
            /\ job' \in [reason : Reasons, paths : SUBSET Path, overflow : BOOLEAN, revisit : SUBSET Path]
        BY <4>1, <4>2, StartScanTypes
      <4> QED
        BY <1>1, <4>1, <4>3 DEF LoopTypes, TimerTypes
    <3> QED
      BY <3>1, <3>2, <3>3
  <2>3. TreeTypes' /\ QueueType' /\ HistoryTypes'
    BY <1>1, <2>1 DEF TreeTypes, QueueType, QueueFull, HistoryTypes, events, history
  <2>4. LoopTypes' /\ TimerTypes'
    BY <1>1, <2>1, <2>2 DEF LoopTypes, TimerTypes, burst
  <2> QED
    BY <2>3, <2>4 DEF Typed
<1>10. CASE Reconcile
  <2>1. /\ known' = Present /\ dirty' = [p \in Path |-> FALSE] /\ pc' = "done"
        /\ UNCHANGED <<tree, held, queue>> /\ UNCHANGED burst /\ UNCHANGED pending
        /\ UNCHANGED timers /\ UNCHANGED job /\ UNCHANGED failures
    BY <1>10 DEF Reconcile
  <2>2. news' \in [Path -> News]
    <3> DEFINE listed == job.paths \cup (IF job.overflow THEN New ELSE {})
               now(p) == CASE p \in listed -> "told"
                           [] p \in New \ listed /\ news[p] = "new" /\ Contains(queue, Lost) -> "excused"
                           [] OTHER -> news[p]
    <3>1. news' = [p \in Path |-> now(p)]
      BY <1>10 DEF Reconcile
    <3>2. \A p \in Path : now(p) \in {"told", "excused", news[p]}
      OBVIOUS
    <3> HIDE DEF now
    <3>3. \A p \in Path : now(p) \in News
      BY <1>1, <3>2 DEF HistoryTypes, News
    <3> QED
      BY <3>1, <3>3
  <2>3. TreeTypes' /\ QueueType' /\ HistoryTypes'
    BY <1>1, <2>1, <2>2 DEF TreeTypes, QueueType, QueueFull, HistoryTypes, Present
  <2>4. LoopTypes' /\ TimerTypes'
    BY <1>1, <2>1 DEF LoopTypes, TimerTypes, burst, pending, timers
  <2> QED
    BY <2>3, <2>4 DEF Typed
<1>11. CASE ReconcileFails \/ Dies \/ LastDone
  <2>1. Ends /\ known' \in {known, Present} /\ failures' \in 0..MaxFailures
    BY <1>1, <1>3, <1>11 DEF ReconcileFails, Dies, LastDone, HistoryTypes
  <2> QED
    BY <1>1, <1>2, <2>1 DEF Typed, HistoryTypes
<1>12. CASE ScanDone
  <2>1. /\ sinceScan' = 0 /\ changeIn' = Never /\ churnIn' = Never
        /\ pendingChanged' = {} /\ pendingOverflow' = FALSE /\ pc' = "wait" /\ job' = NoJob
        /\ UNCHANGED events /\ UNCHANGED burst /\ UNCHANGED failures /\ UNCHANGED history
    BY <1>12 DEF ScanDone
  <2>2. pendingSettle' \subseteq Path /\ settleIn' \in Timer(Settle)
    BY <1>1, <1>12, WatchAssumption DEF ScanDone, LoopTypes, TimerTypes, Timer
  <2>3. revisited' \in [Path -> 0..Gap]
    BY <1>1, <1>12, WatchAssumption DEF ScanDone, TimerTypes
  <2>4. TreeTypes' /\ QueueType' /\ HistoryTypes'
    BY <1>1, <2>1 DEF TreeTypes, QueueType, QueueFull, HistoryTypes, events, history
  <2>5. LoopTypes'
    BY <1>1, <2>1, <2>2 DEF LoopTypes, burst, NoJob, Reasons
  <2>6. TimerTypes'
    BY <1>1, <2>1, <2>2, <2>3, WatchAssumption DEF TimerTypes, Timer
  <2> QED
    BY <2>4, <2>5, <2>6 DEF Typed
<1>13. CASE StartupDone
  <2>1. /\ sinceScan' = 0 /\ pc' = "wait" /\ job' = NoJob /\ UNCHANGED pending
        /\ UNCHANGED <<changeIn, settleIn, churnIn, revisited>>
        /\ UNCHANGED events /\ UNCHANGED burst /\ UNCHANGED failures /\ UNCHANGED history
    BY <1>13 DEF StartupDone
  <2>2. TreeTypes' /\ QueueType' /\ HistoryTypes'
    BY <1>1, <2>1 DEF TreeTypes, QueueType, QueueFull, HistoryTypes, events, history
  <2>3. LoopTypes' /\ TimerTypes'
    BY <1>1, <2>1, WatchAssumption DEF LoopTypes, TimerTypes, burst, pending, NoJob, Reasons
  <2> QED
    BY <2>2, <2>3 DEF Typed
<1> QED
  BY <1>4, <1>5, <1>6, <1>7, <1>8, <1>9, <1>10, <1>11, <1>12, <1>13 DEF Loop, FirstEvent, NextEvent

\* The types hold throughout.
LEMMA TypedStep == ASSUME Typed, [Next]_vars PROVE Typed'
<1>1. CASE UNCHANGED vars
  <2>1. /\ UNCHANGED events /\ UNCHANGED pc /\ UNCHANGED burst /\ UNCHANGED pending
        /\ UNCHANGED timers /\ UNCHANGED job /\ UNCHANGED failures /\ UNCHANGED history
    BY <1>1 DEF vars
  <2>2. TreeTypes' /\ QueueType' /\ HistoryTypes'
    BY <2>1 DEF Typed, TreeTypes, QueueType, QueueFull, HistoryTypes, events, history
  <2>3. LoopTypes' /\ TimerTypes'
    BY <2>1 DEF Typed, LoopTypes, TimerTypes, burst, pending, timers
  <2> QED
    BY <2>2, <2>3 DEF Typed
<1> QED
  BY <1>1, AroundTypes, LoopTypesStep DEF Next

\* The first state is well typed.
LEMMA TypedStarts == ASSUME Init PROVE Typed
<1>1. TreeTypes /\ HistoryTypes
  <2>1. TreeTypes
    BY KindsAssumption DEF Init, TreeTypes
  <2>2. 0 \in 0..MaxFailures /\ "told" \in News /\ FALSE \in BOOLEAN
    BY WatchAssumption DEF News
  <2>3. failures = 0 /\ dirty = [p \in Path |-> FALSE] /\ news = [p \in Path |-> "told"]
    BY DEF Init
  <2> QED
    BY <2>1, <2>2, <2>3 DEF HistoryTypes
<1>2. QueueType
  <2>1. queue = <<>> /\ Len(<<>>) = 0 /\ <<>> \in Seq(Event) /\ QueueSize \in Nat
    BY WatchAssumption DEF Init
  <2> QED
    BY <2>1 DEF QueueType, QueueFull
<1>3. LoopTypes
  BY DEF Init, LoopTypes, NoJob, Reasons
<1>4. TimerTypes
  BY WatchAssumption DEF Init, TimerTypes, Timer
<1> QED
  BY <1>1, <1>2, <1>3, <1>4 DEF Typed

-----------------------------------------------------------------------------
(* What a burst and a timer make of what the loop holds. *)

\* The scan after a failed rearm is the last one: it runs on what the lost watch left behind.
LastJob == job.reason = "last"

\* At the end of a burst its changes are held back under a running timer, or scanned now
\* together with what was held back.
LEMMA AfterBurstDoes ==
    ASSUME Typed, AfterBurst
    PROVE  /\ pendingChanged' = pendingChanged \cup changed
           /\ pendingOverflow' = (pendingOverflow \/ overflow)
           /\ \/ /\ pc' = "wait" /\ job' = job
                 /\ changed # {} \/ overflow \/ changeIn # Never => changeIn' # Never
              \/ /\ pc' = "scan" /\ job'.reason = "change" /\ job'.paths = pendingChanged \cup changed
                 /\ job'.overflow = (overflow \/ pendingOverflow) /\ job'.revisit = {}
<1>1. overflow \in BOOLEAN /\ pendingOverflow \in BOOLEAN /\ sinceScan \in 0..Gap /\ Gap \in Nat
  BY WatchAssumption DEF Typed, LoopTypes, TimerTypes
<1>2. CASE ~overflow /\ changed = {}
  <2>1. pc' = "wait" /\ job' = job /\ UNCHANGED <<pendingChanged, pendingOverflow, changeIn>>
    BY <1>2 DEF AfterBurst
  <2> QED
    BY <1>1, <1>2, <2>1
<1>3. CASE ~(~overflow /\ changed = {})
  <2>1. /\ pendingChanged' = pendingChanged \cup changed
        /\ pendingOverflow' = (pendingOverflow \/ overflow)
    BY <1>3 DEF AfterBurst
  <2>2. CASE Held
    <3>1. /\ pc' = "wait" /\ job' = job
          /\ changeIn' = IF changeIn = Never THEN Gap - sinceScan ELSE changeIn
      BY <1>3, <2>2 DEF AfterBurst
    <3>2. Gap - sinceScan # Never
      BY <1>1 DEF Never
    <3> QED
      BY <2>1, <3>1, <3>2
  <2>3. CASE ~Held
    <3>1. /\ pc' = "scan"
          /\ job' = [reason |-> "change", paths |-> pendingChanged \cup changed,
                     overflow |-> Carried(overflow), revisit |-> {}]
      BY <1>3, <2>3 DEF AfterBurst, StartScan
    <3> QED
      BY <2>1, <3>1 DEF Carried
  <2> QED
    BY <2>2, <2>3
<1> QED
  BY <1>2, <1>3

\* A timer that is due starts a scan that carries what was held back; only the revisits that
\* were waiting are made, and none of them waits any longer.
LEMMA TimerScanDoes ==
    ASSUME Typed, TimerScan
    PROVE  /\ pc = "wait" /\ pc' = "scan" /\ job'.reason # "last"
           /\ pendingChanged \subseteq job'.paths /\ (pendingOverflow => job'.overflow)
           /\ job'.revisit \subseteq pendingSettle /\ pendingSettle' \subseteq pendingSettle
           /\ job'.revisit \cap pendingSettle' = {}
           /\ UNCHANGED events /\ UNCHANGED burst /\ UNCHANGED history
           /\ UNCHANGED <<pendingChanged, pendingOverflow, changeIn, churnIn, revisited>>
<1>1. /\ pc = "wait" /\ UNCHANGED events /\ UNCHANGED burst /\ UNCHANGED history
      /\ UNCHANGED <<pendingChanged, pendingOverflow, changeIn, churnIn, revisited>>
  BY DEF TimerScan
<1>2. PICK r \in Reasons \ {"last"}, m \in SUBSET Path, o \in BOOLEAN, v \in SUBSET pendingSettle :
          StartScan(r, m, o, v) /\ pendingSettle' = pendingSettle \ v
  <2>1. CASE Due(changeIn)
    <3>1. StartScan("change", {}, FALSE, {}) /\ pendingSettle' = pendingSettle \ {}
      BY <2>1 DEF TimerScan
    <3> QED
      BY <3>1 DEF Reasons
  <2>2. CASE ~Due(changeIn) /\ Due(settleIn)
    <3>1. StartScan("settled", pendingSettle, FALSE, pendingSettle) /\ pendingSettle' = {}
      BY <2>2 DEF TimerScan
    <3>2. pendingSettle' = pendingSettle \ pendingSettle /\ pendingSettle \in SUBSET Path
      BY <3>1 DEF Typed, LoopTypes
    <3> QED
      BY <3>1, <3>2 DEF Reasons
  <2>3. CASE ~Due(changeIn) /\ ~Due(settleIn)
    <3>1. StartScan("churn", {}, TRUE, {}) /\ pendingSettle' = pendingSettle \ {}
      BY <2>3 DEF TimerScan
    <3> QED
      BY <3>1 DEF Reasons
  <2> QED
    BY <2>1, <2>2, <2>3
<1>3. /\ pc' = "scan" /\ job'.reason = r /\ job'.paths = pendingChanged \cup m
      /\ job'.overflow = (o \/ pendingOverflow) /\ job'.revisit = v
  BY <1>2 DEF StartScan, Carried
<1> QED
  BY <1>1, <1>2, <1>3

\* A watcher that starts, or ends, has nothing left of a burst or a scan.
LEMMA FreshDoes ==
    ASSUME FreshLoop
    PROVE  /\ queue' = <<>> /\ changed' = {} /\ ~overflow' /\ pendingChanged' = {} /\ ~pendingOverflow'
           /\ pendingSettle' = {} /\ job'.reason = "startup" /\ job'.paths = {} /\ job'.overflow
           /\ job'.revisit = {}
BY DEF FreshLoop, NoJob

\* What is left of a burst, and what a scan carries, at each step of the loop.
Modes ==
    /\ pc = "rearm" => overflow
    /\ overflow => pc = "rearm" \/ LastJob
    /\ LastJob => pc \in {"scan", "done"} /\ overflow /\ job.overflow
    /\ changed # {} => pc \in {"burst", "rearm"} \/ LastJob
    /\ pc = "scan" /\ pendingOverflow => job.overflow
    /\ pc = "scan" /\ ~LastJob => pendingChanged \subseteq job.paths

\* The tree and other processes leave the memory of the loop alone.
LEMMA AroundLeaves ==
    ASSUME (\E p \in Path, k \in Kinds : Change(p, k)) \/ CycleScans \/ CycleReleases \/ Tick
    PROVE  /\ UNCHANGED pc /\ UNCHANGED job /\ UNCHANGED <<guard, changed, overflow>>
           /\ UNCHANGED <<pendingChanged, pendingOverflow, pendingSettle>>
BY DEF Change, CycleScans, CycleReleases, Tick, burst, pending

\* What is left of a burst is scanned or held back before the next one is read.
LEMMA ModesStep == ASSUME Typed, Modes, [Next]_vars PROVE Modes'
<1>1. overflow \in BOOLEAN /\ pendingOverflow \in BOOLEAN
  BY DEF Typed, LoopTypes
<1>2. ASSUME UNCHANGED <<pc, job, changed, overflow, pendingChanged, pendingOverflow>>
      PROVE  Modes'
  BY <1>2 DEF Modes, LastJob
<1>3. CASE (\E p \in Path, k \in Kinds : Change(p, k)) \/ CycleScans \/ CycleReleases \/ Tick
  BY <1>2, <1>3, AroundLeaves
<1>4. ASSUME FreshLoop, pc' \in {"off", "scan"}
      PROVE  Modes'
  BY <1>4, FreshDoes DEF Modes, LastJob
<1>5. CASE Start \/ ReconcileFails \/ Dies \/ LastDone
  BY <1>4, <1>5 DEF Start, ReconcileFails, Dies, LastDone, Ends
<1>6. CASE FirstEvent \/ NextEvent
  <2>1. Take /\ pc \in {"wait", "burst"}
    BY <1>6 DEF FirstEvent, NextEvent
  <2>2. UNCHANGED job /\ \/ overflow' /\ pc' = "rearm"
                         \/ overflow' = overflow /\ pc' = "burst"
    BY <2>1 DEF Take
  <2> QED
    BY <2>1, <2>2 DEF Modes, LastJob
<1>7. CASE BurstEnds
  <2>1. AfterBurst /\ changed' = {} /\ pc = "burst" /\ overflow' = overflow
    BY <1>7 DEF BurstEnds
  <2> QED
    BY <1>1, <2>1, AfterBurstDoes DEF Modes, LastJob
<1>8. CASE Rearm
  <2>1. AfterBurst /\ changed' = {} /\ pc = "rearm" /\ overflow' = FALSE
    BY <1>8 DEF Rearm
  <2> QED
    BY <1>1, <2>1, AfterBurstDoes DEF Modes, LastJob
<1>9. CASE RearmFails
  <2>1. /\ pc = "rearm" /\ pc' = "scan" /\ job'.reason = "last" /\ job'.overflow
        /\ UNCHANGED <<overflow, pendingChanged, pendingOverflow>>
    BY <1>9 DEF RearmFails, burst, pending
  <2> QED
    BY <2>1 DEF Modes, LastJob
<1>10. CASE TimerScan
  BY <1>10, TimerScanDoes DEF Modes, LastJob, burst
<1>11. CASE Reconcile
  <2>1. pc = "scan" /\ pc' = "done" /\ UNCHANGED job /\ UNCHANGED burst /\ UNCHANGED pending
    BY <1>11 DEF Reconcile
  <2> QED
    BY <2>1 DEF Modes, LastJob, burst, pending
<1>12. CASE ScanDone \/ StartupDone
  <2>1. pc = "done" /\ job.reason # "last" /\ pc' = "wait" /\ job'.reason = "startup" /\ UNCHANGED burst
    BY <1>12 DEF ScanDone, StartupDone, NoJob
  <2> QED
    BY <2>1 DEF Modes, LastJob, burst
<1>13. CASE UNCHANGED vars
  <2>1. UNCHANGED pc /\ UNCHANGED job /\ UNCHANGED burst /\ UNCHANGED pending
    BY <1>13 DEF vars
  <2> QED
    BY <1>2, <2>1 DEF burst, pending
<1> QED
  BY <1>3, <1>5, <1>6, <1>7, <1>8, <1>9, <1>10, <1>11, <1>12, <1>13 DEF Next, Loop

-----------------------------------------------------------------------------
(* No change is forgotten. *)

\* What changes after a scan has read the tree is in the queue when the scan is done.
QueuedWhenDone == pc = "done" /\ ~LastJob => \A p \in Path : dirty[p] => InQueue(p)

\* A change queues its event, and whatever was queued stays.
LEMMA ChangeQueues ==
    ASSUME Typed, NEW p \in Path, NEW k \in Kinds, Change(p, k)
    PROVE  /\ queue \in Seq(Event) /\ queue' \in Seq(Event) /\ Longer(queue, queue')
           /\ Watching => InQueue(p)'
<1>1. QueueType /\ queue \in Seq(Event)
  BY DEF Typed, QueueType
<1>2. CASE Watching
  <2>1. queue' \in Enqueue(p)
    BY <1>2 DEF Change
  <2> QED
    BY <1>1, <1>2, <2>1, EnqueueIs DEF InQueue
<1>3. CASE ~Watching
  <2>1. queue' = queue
    BY <1>3 DEF Change
  <2> QED
    BY <1>1, <1>3, <2>1 DEF Longer
<1> QED
  BY <1>2, <1>3

\* Until a scan has read it, every change is queued, held back by a timer that runs, or a
\* scan is about to run.
LEMMA OwedStep ==
    ASSUME Typed, Modes, ChangeIsOwed, QueuedWhenDone, [Next]_vars
    PROVE  ChangeIsOwed' /\ QueuedWhenDone'
<1>1. LoopTypes /\ TimerTypes /\ queue \in Seq(Event)
  BY DEF Typed, QueueType
<1>2. ASSUME pc' \in {"off", "rearm", "scan"}
      PROVE  ChangeIsOwed' /\ QueuedWhenDone'
  BY <1>2 DEF ChangeIsOwed, QueuedWhenDone, Owed
<1>3. ASSUME UNCHANGED <<pc, job, queue, changed, overflow, dirty>>,
             (changeIn' # Never <=> changeIn # Never) /\ (churnIn' # Never <=> churnIn # Never)
      PROVE  ChangeIsOwed' /\ QueuedWhenDone'
  BY <1>3 DEF ChangeIsOwed, QueuedWhenDone, Owed, InQueue, LastJob
<1>4. CASE CycleScans \/ CycleReleases \/ UNCHANGED vars
  BY <1>3, <1>4 DEF CycleScans, CycleReleases, vars, events, burst, timers, history
<1>5. CASE Tick
  <2>1. (changeIn' # Never <=> changeIn # Never) /\ (churnIn' # Never <=> churnIn # Never)
    BY <1>1, <1>5, WatchAssumption DEF Tick, Down, TimerTypes, Timer, Never
  <2> QED
    BY <1>3, <1>5, <2>1 DEF Tick, events, burst, history
<1>6. ASSUME NEW p \in Path, NEW k \in Kinds, Change(p, k)
      PROVE  ChangeIsOwed' /\ QueuedWhenDone'
  <2>1. /\ UNCHANGED pc /\ UNCHANGED job /\ UNCHANGED <<changed, overflow>>
        /\ UNCHANGED <<changeIn, churnIn>>
    BY <1>6 DEF Change, burst, timers
  <2>2. ASSUME NEW q \in Path
        PROVE  InQueue(q) => InQueue(q)'
    <3>1. InQueueOf(queue, q) => InQueueOf(queue', q)
      BY <1>6, ChangeQueues, LongerHas
    <3> QED
      BY <3>1 DEF InQueueOf, InQueue
  <2>3. ASSUME NEW q \in Path, q # p
        PROVE  dirty'[q] = dirty[q]
    BY <1>6, <2>3 DEF Change, Typed, HistoryTypes
  <2>4. Watching => InQueue(p)'
    BY <1>6, ChangeQueues
  <2>5. ~Watching => pc = "off" \/ (LastJob /\ overflow)
    BY DEF Watching, Modes, LastJob
  <2> QED
    BY <2>1, <2>2, <2>3, <2>4, <2>5 DEF ChangeIsOwed, QueuedWhenDone, Owed, LastJob
<1>7. CASE FirstEvent \/ NextEvent
  <2>1. /\ Take /\ pc \in {"wait", "burst"} /\ queue # <<>> /\ queue' = Tail(queue)
        /\ UNCHANGED <<changeIn, dirty>>
    BY <1>7 DEF FirstEvent, NextEvent, Take, history
  <2>2. CASE Head(queue) = Lost
    BY <1>2, <2>1, <2>2 DEF Take
  <2>3. CASE Head(queue) # Lost
    <3>1. /\ pc' = "burst" /\ overflow' = overflow /\ Head(queue) \in Path
          /\ \/ Suppressed(Head(queue)) /\ changed' = changed
                /\ churnIn' = IF churnIn = Never THEN Churn ELSE churnIn
             \/ ~Suppressed(Head(queue)) /\ changed' = changed \cup {Head(queue)} /\ churnIn' = churnIn
      BY <1>1, <2>1, <2>3, TailIs DEF Take, Event
    <3>2. Churn # Never
      BY WatchAssumption DEF Never
    <3>3. ASSUME NEW q \in Path, InQueue(q), q # Head(queue)
          PROVE  InQueue(q)'
      <4>1. InQueueOf(queue, q) => InQueueOf(queue', q)
        BY <1>1, <2>1, <2>3, <3>3, TailHas
      <4> QED
        BY <3>3, <4>1 DEF InQueueOf, InQueue
    <3> QED
      BY <2>1, <3>1, <3>2, <3>3 DEF ChangeIsOwed, QueuedWhenDone, Owed, Suppressed
  <2> QED
    BY <2>2, <2>3
<1>8. CASE BurstEnds \/ Rearm
  <2>1. AfterBurst /\ pc \in {"burst", "rearm"} /\ dirty' = dirty
    BY <1>8 DEF BurstEnds, Rearm, history
  <2>2. CASE pc' = "wait"
    <3>1. changed # {} \/ overflow \/ changeIn # Never => changeIn' # Never
      BY <2>1, <2>2, AfterBurstDoes DEF Typed
    <3>2. CASE BurstEnds
      <4>1. pc = "burst" /\ UNCHANGED queue /\ UNCHANGED churnIn
        BY <3>2 DEF BurstEnds, events
      <4> QED
        BY <2>1, <2>2, <3>1, <4>1 DEF ChangeIsOwed, QueuedWhenDone, Owed, InQueue
    <3>3. CASE Rearm
      <4>1. overflow
        BY <3>3 DEF Rearm, Modes
      <4> QED
        BY <2>2, <3>1, <4>1 DEF ChangeIsOwed, QueuedWhenDone, Owed
    <3> QED
      BY <1>8, <3>2, <3>3
  <2> QED
    BY <1>2, <2>1, <2>2, AfterBurstDoes
<1>9. CASE Start \/ RearmFails \/ TimerScan \/ ReconcileFails \/ Dies \/ LastDone
  BY <1>2, <1>9, TimerScanDoes DEF Start, RearmFails, ReconcileFails, Dies, LastDone, Ends
<1>10. CASE Reconcile
  <2>1. dirty' = [p \in Path |-> FALSE]
    BY <1>10 DEF Reconcile
  <2> QED
    BY <2>1 DEF ChangeIsOwed, QueuedWhenDone
<1>11. CASE ScanDone \/ StartupDone
  <2>1. pc = "done" /\ ~LastJob /\ pc' = "wait" /\ UNCHANGED queue /\ dirty' = dirty
    BY <1>11 DEF ScanDone, StartupDone, LastJob, events, history
  <2> QED
    BY <2>1 DEF ChangeIsOwed, QueuedWhenDone, Owed, InQueue
<1> QED
  BY <1>4, <1>5, <1>6, <1>7, <1>8, <1>9, <1>10, <1>11 DEF Next, Loop

-----------------------------------------------------------------------------
(* New paths are reported by name. *)

\* An event of p is before every overflow in the queue.
Ahead(p) == AheadIn(queue, p)

\* A new path is there; a watcher that has not started has nothing to report.
NewIsThere ==
    \A p \in Path : news[p] = "new" => tree[p] # Absent /\ (pc = "off" => p \notin known)

\* A new path that is stored is in the queue, before any overflow, or with a burst or the gap.
NewIsStored ==
    \A p \in Plain : p \in known /\ news[p] = "new" =>
        /\ \/ Ahead(p) \/ p \in changed \cup pendingChanged
           \/ pc = "scan" /\ p \in job.paths
        /\ pc = "rearm" => p \in changed \cup pendingChanged
        /\ pc = "done" /\ ~LastJob => Ahead(p)

\* A new path that is not stored is still to be stored by a scan that can name it.
NewIsFound ==
    \A p \in Plain : p \notin known /\ news[p] = "new" /\ pc # "off" =>
        /\ \/ InQueue(p) \/ p \in changed \cup pendingChanged \/ overflow \/ pendingOverflow
           \/ pc = "scan" /\ (p \in job.paths \/ job.overflow)
        /\ pc = "done" /\ ~LastJob => InQueue(p)

NewInv == NewIsThere /\ NewIsStored /\ NewIsFound

\* The queue of a path is that of the kernel.
LEMMA QueueIs == \A p : InQueue(p) <=> InQueueOf(queue, p)
BY DEF InQueue, InQueueOf

\* A change makes a path new that no scan has stored, and its event names it.
LEMMA NewByChange ==
    ASSUME Typed, Modes, NewInv, NEW p \in Path, NEW k \in Kinds, Change(p, k)
    PROVE  NewInv'
<1>1. /\ UNCHANGED pc /\ UNCHANGED job /\ UNCHANGED <<changed, overflow>> /\ UNCHANGED known
      /\ UNCHANGED <<pendingChanged, pendingOverflow>>
  BY DEF Change, burst, pending
<1>2. ASSUME NEW q \in Path
      PROVE  (InQueue(q) => InQueue(q)') /\ (Ahead(q) => Ahead(q)')
  <2>1. (InQueueOf(queue, q) => InQueueOf(queue', q)) /\ (AheadIn(queue, q) => AheadIn(queue', q))
    BY ChangeQueues, LongerHas
  <2> QED
    BY <2>1 DEF Ahead, InQueue, InQueueOf
<1>3. ASSUME NEW q \in Path, q # p
      PROVE  news'[q] = news[q] /\ tree'[q] = tree[q]
  BY <1>3 DEF Change, Typed, TreeTypes, HistoryTypes
<1>4. news'[p] = "new" => k # Absent /\ tree'[p] = k /\ (p \notin known \/ news[p] = "new")
  BY DEF Change, Typed, TreeTypes, HistoryTypes
<1>5. Watching => InQueue(p)'
  BY ChangeQueues
<1>6. ~Watching => pc = "off" \/ (LastJob /\ overflow)
  BY DEF Watching, Modes, LastJob
<1>7. NewIsThere'
  BY <1>1, <1>3, <1>4 DEF NewInv, NewIsThere
<1>8. NewIsStored'
  BY <1>1, <1>2, <1>3, <1>4 DEF NewInv, NewIsStored, LastJob, Path
<1>9. NewIsFound'
  BY <1>1, <1>2, <1>3, <1>4, <1>5, <1>6 DEF NewInv, NewIsFound, LastJob, Path
<1> QED
  BY <1>7, <1>8, <1>9 DEF NewInv

\* The head of the queue is named by its burst, or the burst ends in an overflow.
LEMMA NewByEvent ==
    ASSUME Typed, Modes, NewInv, FirstEvent \/ NextEvent
    PROVE  NewInv'
<1>1. /\ Take /\ pc \in {"wait", "burst"} /\ queue \in Seq(Event) /\ queue # <<>> /\ queue' = Tail(queue)
      /\ UNCHANGED <<tree, known>> /\ UNCHANGED news /\ UNCHANGED <<pendingChanged, pendingOverflow>>
      /\ UNCHANGED job
  BY DEF FirstEvent, NextEvent, Take, history, pending, Typed, QueueType
<1>2. NewIsThere' /\ pc' \in {"rearm", "burst"}
  BY <1>1 DEF NewInv, NewIsThere, Take
<1>3. ASSUME NEW q \in Path
      PROVE  /\ InQueue(q) /\ Head(queue) \notin {q, Lost} => InQueue(q)'
             /\ Ahead(q) /\ Head(queue) # q => Ahead(q)'
             /\ Ahead(q) => Head(queue) # Lost
  <2>1. /\ InQueueOf(queue, q) /\ Head(queue) \notin {q, Lost} => InQueueOf(queue', q)
        /\ AheadIn(queue, q) /\ Head(queue) # q => AheadIn(queue', q)
        /\ AheadIn(queue, q) => Head(queue) # Lost
    BY <1>1, TailHas
  <2> QED
    BY <2>1 DEF Ahead, InQueue, InQueueOf
<1>4. CASE Head(queue) = Lost
  <2>1. overflow' = TRUE /\ pc' = "rearm" /\ changed' = changed
    BY <1>1, <1>4 DEF Take
  <2>2. NewIsStored'
    BY <1>1, <1>3, <1>4, <2>1 DEF NewInv, NewIsStored, Path
  <2>3. NewIsFound'
    BY <2>1 DEF NewIsFound
  <2> QED
    BY <1>2, <2>2, <2>3 DEF NewInv
<1>5. CASE Head(queue) # Lost
  <2>1. /\ pc' = "burst" /\ overflow' = overflow /\ changed \subseteq changed'
        /\ Head(queue) \in Plain => Head(queue) \in changed'
    <3>1. Head(queue) \in Plain => ~Suppressed(Head(queue))
      BY WatchAssumption DEF Suppressed
    <3> QED
      BY <1>1, <1>5, <3>1 DEF Take
  <2>2. NewIsStored'
    BY <1>1, <1>3, <2>1 DEF NewInv, NewIsStored, Path
  <2>3. NewIsFound'
    BY <1>1, <1>3, <1>5, <2>1 DEF NewInv, NewIsFound, Path
  <2> QED
    BY <1>2, <2>2, <2>3 DEF NewInv
<1> QED
  BY <1>4, <1>5

\* The scan tells what it lists; what it stores without naming it is ahead in the queue.
LEMMA NewByScan ==
    ASSUME Typed, Modes, NewInv, Reconcile
    PROVE  NewInv'
<1> DEFINE listed == job.paths \cup (IF job.overflow THEN New ELSE {})
<1>1. /\ pc = "scan" /\ pc' = "done" /\ known' = Present /\ UNCHANGED <<tree, queue>>
      /\ UNCHANGED <<changed, overflow>> /\ UNCHANGED <<pendingChanged, pendingOverflow>> /\ UNCHANGED job
  BY DEF Reconcile, burst, pending
<1>2. ASSUME NEW p \in Path, news'[p] = "new"
      PROVE  /\ p \notin listed /\ news[p] = "new"
             /\ p \in New => ~Contains(queue, Lost)
  <2>1. news'[p] = CASE p \in listed -> "told"
                     [] p \in New \ listed /\ news[p] = "new" /\ Contains(queue, Lost) -> "excused"
                     [] OTHER -> news[p]
    BY DEF Reconcile
  <2>2. CASE p \in listed
    <3>1. ~(p \in New \ listed /\ news[p] = "new" /\ Contains(queue, Lost))
      BY <2>2
    <3> HIDE DEF listed
    <3>2. news'[p] = "told"
      BY <2>1, <2>2, <3>1
    <3> QED
      BY <1>2, <3>2
  <2>3. CASE p \notin listed /\ p \in New \ listed /\ news[p] = "new" /\ Contains(queue, Lost)
    <3> HIDE DEF listed
    <3>1. news'[p] = "excused"
      BY <2>1, <2>3
    <3> QED
      BY <1>2, <3>1
  <2>4. CASE p \notin listed /\ ~(p \in New \ listed /\ news[p] = "new" /\ Contains(queue, Lost))
    <3> HIDE DEF listed
    <3>1. news'[p] = news[p]
      BY <2>1, <2>4
    <3> QED
      BY <1>2, <2>4, <3>1
  <2> QED
    BY <2>2, <2>3, <2>4
<1>3. ASSUME NEW p \in Path, news'[p] = "new"
      PROVE  tree[p] # Absent /\ p \in known' /\ (p \in known \/ p \in New)
  BY <1>1, <1>2, <1>3 DEF NewInv, NewIsThere, Present, New
<1>4. NewIsThere'
  BY <1>1, <1>3 DEF NewIsThere
<1>5. NewIsFound'
  BY <1>3 DEF NewIsFound, Path
<1>6. ASSUME NEW p \in Plain, news'[p] = "new"
      PROVE  Ahead(p)' \/ (LastJob /\ p \in changed \cup pendingChanged)
  <2>1. p \in Path /\ queue \in Seq(Event)
    BY DEF Path, Typed, QueueType
  <2>2. p \notin job.paths /\ news[p] = "new" /\ (job.overflow => p \notin New)
    BY <1>2, <1>6, <2>1
  <2>3. Ahead(p)' <=> Ahead(p)
    BY <1>1 DEF Ahead
  <2>4. ~LastJob => p \notin changed \cup pendingChanged
    BY <1>1, <2>2 DEF Modes
  <2>5. CASE p \in known
    BY <1>1, <2>2, <2>3, <2>4, <2>5 DEF NewInv, NewIsStored
  <2>6. CASE p \notin known
    <3>1. p \in New /\ ~Contains(queue, Lost) /\ ~job.overflow
      BY <1>2, <1>3, <1>6, <2>1, <2>2, <2>6
    <3>2. ~overflow /\ ~pendingOverflow
      BY <1>1, <3>1 DEF Modes
    <3>3. InQueue(p)
      BY <1>1, <2>2, <2>4, <2>6, <3>1, <3>2 DEF NewInv, NewIsFound, Modes
    <3>4. AheadIn(queue, p)
      BY <2>1, <3>1, <3>3, QueueIs, QueuedIsAhead
    <3> QED
      BY <2>3, <3>4 DEF Ahead
  <2> QED
    BY <2>5, <2>6
<1>7. NewIsStored'
  BY <1>1, <1>6 DEF NewIsStored, LastJob
<1> QED
  BY <1>4, <1>5, <1>7 DEF NewInv

\* Every step keeps what is known of new paths.
LEMMA NewStep == ASSUME Typed, Modes, NewInv, [Next]_vars PROVE NewInv'
<1>1. LoopTypes /\ HistoryTypes
  BY DEF Typed
<1>2. ASSUME UNCHANGED <<tree, known, queue, pc, job, changed, overflow, pendingChanged, pendingOverflow, news>>
      PROVE  NewInv'
  BY <1>2 DEF NewInv, NewIsThere, NewIsStored, NewIsFound, LastJob, Ahead, InQueue
<1>3. CASE Tick \/ CycleReleases \/ UNCHANGED vars
  BY <1>2, <1>3 DEF Tick, CycleReleases, vars, events, burst, pending, history
<1>4. CASE CycleScans
  <2>1. /\ UNCHANGED pc /\ UNCHANGED job /\ UNCHANGED <<changed, overflow>> /\ UNCHANGED <<tree, queue>>
        /\ UNCHANGED <<pendingChanged, pendingOverflow>> /\ known' = Present
    BY <1>4 DEF CycleScans, burst, pending
  <2>2. ASSUME NEW q \in Path, news'[q] = "new"
        PROVE  news[q] = "new" /\ q \in known /\ q \in known' /\ tree[q] # Absent
    <3>1. news'[q] = IF q \in Present \ known /\ news[q] = "new" THEN "excused" ELSE news[q]
      BY <1>4 DEF CycleScans
    <3>2. news[q] = "new" /\ q \notin Present \ known
      BY <2>2, <3>1
    <3> QED
      BY <2>1, <3>2 DEF NewInv, NewIsThere, Present
  <2>3. NewIsThere' /\ NewIsFound'
    BY <2>1, <2>2 DEF NewInv, NewIsThere, NewIsFound, Path
  <2>4. NewIsStored'
    BY <2>1, <2>2 DEF NewInv, NewIsStored, LastJob, Ahead, Path
  <2> QED
    BY <2>3, <2>4 DEF NewInv
<1>5. CASE Start
  <2>1. /\ pc = "off" /\ pc' = "scan" /\ UNCHANGED <<tree, known>> /\ UNCHANGED news /\ job'.overflow
    BY <1>5, FreshDoes DEF Start, history
  <2> QED
    BY <2>1 DEF NewInv, NewIsThere, NewIsStored, NewIsFound, Path
<1>6. CASE ReconcileFails \/ Dies \/ LastDone
  <2>1. /\ pc' = "off" /\ tree' = tree
        /\ news' = [p \in Path |-> IF p \in known' /\ news[p] = "new" THEN "excused" ELSE news[p]]
    BY <1>6 DEF ReconcileFails, Dies, LastDone, Ends
  <2>2. \A q \in Path : news'[q] = "new" => news[q] = "new" /\ q \notin known'
    BY <2>1
  <2> QED
    BY <2>1, <2>2 DEF NewInv, NewIsThere, NewIsStored, NewIsFound, Path
<1>7. CASE BurstEnds \/ Rearm
  <2>1. /\ AfterBurst /\ UNCHANGED <<tree, known>> /\ UNCHANGED news
        /\ changed' = {} /\ pc \in {"burst", "rearm"}
        /\ pc = "rearm" \/ queue' = queue
    BY <1>7 DEF BurstEnds, Rearm, events, history
  <2>2. /\ pendingChanged' = pendingChanged \cup changed
        /\ overflow \/ pendingOverflow => pendingOverflow'
        /\ pc' \in {"wait", "scan"}
    BY <1>1, <2>1, AfterBurstDoes DEF Typed
  <2>3. NewIsThere'
    BY <2>1, <2>2 DEF NewInv, NewIsThere
  <2>4. ASSUME NEW q \in Plain
        PROVE  q \in changed \cup pendingChanged => q \in changed' \cup pendingChanged'
    BY <2>1, <2>2
  <2>5. NewIsStored'
    BY <2>1, <2>2, <2>4 DEF NewInv, NewIsStored, Ahead
  <2>6. NewIsFound'
    BY <2>1, <2>2, <2>4 DEF NewInv, NewIsFound, InQueue, Modes
  <2> QED
    BY <2>3, <2>5, <2>6 DEF NewInv
<1>8. CASE RearmFails
  <2>1. /\ pc = "rearm" /\ pc' = "scan" /\ UNCHANGED <<tree, known>> /\ UNCHANGED news
        /\ UNCHANGED <<changed, overflow>> /\ UNCHANGED <<pendingChanged, pendingOverflow>> /\ overflow
    BY <1>8 DEF RearmFails, burst, pending, history, Modes
  <2> QED
    BY <2>1 DEF NewInv, NewIsThere, NewIsStored, NewIsFound
<1>9. CASE TimerScan
  <2>1. /\ pc = "wait" /\ pc' = "scan" /\ UNCHANGED <<tree, known, queue>> /\ UNCHANGED news
        /\ UNCHANGED <<changed, overflow>> /\ UNCHANGED <<pendingChanged, pendingOverflow>>
    BY <1>9, TimerScanDoes DEF events, burst, history
  <2> QED
    BY <2>1 DEF NewInv, NewIsThere, NewIsStored, NewIsFound, Ahead, InQueue
<1>10. CASE ScanDone \/ StartupDone
  <2>1. /\ pc = "done" /\ ~LastJob /\ pc' = "wait" /\ UNCHANGED <<tree, known, queue>> /\ UNCHANGED news
    BY <1>10 DEF ScanDone, StartupDone, LastJob, events, history
  <2> QED
    BY <2>1 DEF NewInv, NewIsThere, NewIsStored, NewIsFound, Ahead, InQueue
<1> QED
  BY <1>3, <1>4, <1>5, <1>6, <1>7, <1>8, <1>9, <1>10, NewByChange, NewByEvent, NewByScan DEF Next, Loop

-----------------------------------------------------------------------------
(* Revisits. *)

\* A directory that waits for its revisit has not had one for the whole gap.
Rested == \A p \in pendingSettle : revisited[p] = Gap /\ p \notin job.revisit

\* A revisit that is made no longer waits, and only a scan that makes it forgets its rest.
LEMMA RestedStep == ASSUME Typed, Rested, [Next]_vars PROVE Rested'
<1>1. /\ pendingSettle \subseteq Path /\ revisited \in [Path -> 0..Gap] /\ Gap \in Nat
  BY WatchAssumption DEF Typed, LoopTypes, TimerTypes
<1>2. ASSUME UNCHANGED <<pendingSettle, revisited>>, job'.revisit \subseteq job.revisit
      PROVE  Rested'
  BY <1>2 DEF Rested
<1>3. CASE (\E p \in Path, k \in Kinds : Change(p, k)) \/ CycleScans \/ CycleReleases \/ UNCHANGED vars
  BY <1>2, <1>3 DEF Change, CycleScans, CycleReleases, vars, pending, timers
<1>4. CASE Tick
  <2>1. \A p \in Path : revisited'[p] = Up(revisited[p])
    BY <1>4 DEF Tick
  <2>2. Up(Gap) = Gap
    BY <1>1 DEF Up
  <2>3. UNCHANGED pendingSettle /\ UNCHANGED job
    BY <1>4 DEF Tick, pending
  <2> QED
    BY <1>1, <2>1, <2>2, <2>3 DEF Rested
<1>5. CASE Start \/ ReconcileFails \/ Dies \/ LastDone
  BY <1>5, FreshDoes DEF Start, ReconcileFails, Dies, LastDone, Ends, Rested
<1>6. CASE FirstEvent \/ NextEvent \/ Reconcile
  BY <1>2, <1>6 DEF FirstEvent, NextEvent, Take, Reconcile, pending, timers
<1>7. CASE BurstEnds \/ Rearm
  <2>1. AfterBurst /\ UNCHANGED <<pendingSettle, revisited>>
    BY <1>7 DEF BurstEnds, Rearm
  <2> QED
    BY <1>2, <2>1, AfterBurstDoes
<1>8. CASE RearmFails
  BY <1>2, <1>8 DEF RearmFails, pending, timers
<1>9. CASE TimerScan
  BY <1>9, TimerScanDoes DEF Rested
<1>10. CASE ScanDone
  <2> DEFINE D == {p \in pendingChanged : tree[p] \in Dirs /\ ~Recent(p)}
  <2>1. /\ revisited' = [p \in Path |-> IF p \in job.revisit THEN 0 ELSE revisited[p]]
        /\ pendingSettle' = pendingSettle \cup D /\ job'.revisit = {}
    BY <1>10 DEF ScanDone, NoJob
  <2>2. \A p \in D : p \in Path /\ p \notin job.revisit /\ revisited[p] = Gap
    BY <1>1 DEF Recent, Typed, LoopTypes
  <2> HIDE DEF D
  <2>3. \A p \in pendingSettle' : p \in Path /\ p \notin job.revisit /\ revisited[p] = Gap
    BY <1>1, <2>1, <2>2 DEF Rested
  <2> QED
    BY <2>1, <2>3 DEF Rested
<1>11. CASE StartupDone
  <2>1. UNCHANGED <<pendingSettle, revisited>> /\ job'.revisit = {}
    BY <1>11 DEF StartupDone, pending, NoJob
  <2> QED
    BY <1>2, <2>1
<1> QED
  BY <1>3, <1>4, <1>5, <1>6, <1>7, <1>8, <1>9, <1>10, <1>11 DEF Next, Loop

-----------------------------------------------------------------------------
(* Theorems. *)

WatchInv == Typed /\ Modes /\ ChangeIsOwed /\ QueuedWhenDone /\ NewInv /\ Rested

\* The invariant holds throughout.
LEMMA WatchHolds == Spec => []WatchInv
<1>1. Init => WatchInv
  <2> SUFFICES ASSUME Init
               PROVE  WatchInv
    OBVIOUS
  <2>1. /\ pc = "off" /\ ~overflow /\ changed = {} /\ pendingSettle = {} /\ job.reason = "startup"
        /\ \A p \in Path : ~dirty[p] /\ news[p] = "told"
    BY DEF Init, NoJob
  <2>2. Modes /\ Rested
    BY <2>1 DEF Modes, LastJob, Rested
  <2>3. ChangeIsOwed /\ QueuedWhenDone
    BY <2>1 DEF ChangeIsOwed, QueuedWhenDone
  <2>4. NewInv
    BY <2>1 DEF NewInv, NewIsThere, NewIsStored, NewIsFound, Path
  <2> QED
    BY <2>2, <2>3, <2>4, TypedStarts DEF WatchInv
<1>2. WatchInv /\ [Next]_vars => WatchInv'
  BY TypedStep, ModesStep, OwedStep, NewStep, RestedStep DEF WatchInv
<1> QED
  BY <1>1, <1>2, PTL DEF Spec

\* The memory of the loop keeps its types, every timer its range and the kernel queue its
\* bound: it holds one overflow more than events (internal/cli/watch_linux.go).
THEOREM TypeCorrect == Spec => []TypeOK
<1>1. WatchInv => TypeOK
  BY TypedIs DEF WatchInv
<1> QED
  BY <1>1, WatchHolds, PTL

\* No change is forgotten: until a scan of the watcher has read it, it is queued, held back by
\* a timer that runs, or a scan is about to run, whatever arrives during a scan, is
\* suppressed, overflows or is carried by another scan (watch.go:225-262, 308-381).
THEOREM NoChangeIsForgotten == Spec => []ChangeIsOwed
<1>1. WatchInv => ChangeIsOwed
  BY DEF WatchInv
<1> QED
  BY <1>1, WatchHolds, PTL

\* A new path that a scan of the watcher has stored has been reported or is still to be
\* reported by name, unless the overflow that lost its event was still unread
\* (watch.go:220-224, 591-604).
THEOREM NewPathsAreNamed == Spec => []NewIsReported
<1>1. WatchInv => NewIsReported
  <2> SUFFICES ASSUME WatchInv, NEW p \in Plain, Stored(p), news[p] = "new"
               PROVE  ReportIsOwed(p)
    BY DEF NewIsReported
  <2>1. \/ Ahead(p) \/ p \in changed \cup pendingChanged \/ (pc = "scan" /\ p \in job.paths)
    BY DEF WatchInv, NewInv, NewIsStored, Stored
  <2>2. Ahead(p) => InQueue(p)
    BY DEF Ahead, AheadIn, InQueue
  <2> QED
    BY <2>1, <2>2 DEF ReportIsOwed
<1> QED
  BY <1>1, WatchHolds, PTL

\* A directory is revisited at most once per change gap, however often it changes and
\* whichever scan carries its changes (watch.go:214-219).
THEOREM RevisitsKeepTheGap == Spec => RevisitsSpaced
<1>1. ASSUME WatchInv, [Next]_vars, NEW p \in Path, p \in job'.revisit, pc = "wait", pc' = "scan"
      PROVE  revisited[p] = Gap
  <2>1. TimerScan
    BY <1>1, AroundLeaves
       DEF Next, Loop, Start, FirstEvent, NextEvent, Take, BurstEnds, Rearm, RearmFails, Reconcile,
           ReconcileFails, Dies, Ends, ScanDone, StartupDone, LastDone, vars
  <2>2. p \in pendingSettle
    BY <1>1, <2>1, TimerScanDoes DEF WatchInv
  <2> QED
    BY <1>1, <2>2 DEF WatchInv, Rested
<1>2. WatchInv /\ [Next]_vars =>
        [\A p \in Path : p \in job'.revisit /\ pc = "wait" /\ pc' = "scan" => revisited[p] = Gap]_vars
  BY <1>1
<1> QED
  BY <1>2, WatchHolds, PTL DEF Spec, RevisitsSpaced

-----------------------------------------------------------------------------
(* Capacity: thresholds. *)

\* A nonempty finite set of naturals has a greatest element: of the finite subsets that have
\* none, take a smallest; what lies above one of its elements is smaller still.
LEMMA FiniteHasGreatest ==
    ASSUME NEW S \in SUBSET Nat, IsFiniteSet(S), S # {}
    PROVE  \E m \in S : \A n \in S : n <= m
<1> DEFINE Greatest(T) == \E m \in T : \A n \in T : n <= m
           Bad == {T \in FiniteSubsetsOf(S) : T # {} /\ ~Greatest(T)}
<1>1. SUFFICES Bad = {}
  <2>1. S \in FiniteSubsetsOf(S)
    BY DEF FiniteSubsetsOf
  <2> QED
    BY <2>1
<1>2. SUFFICES ASSUME Bad # {} PROVE FALSE
  OBVIOUS
<1>3. PICK T \in Bad : \A U \in Bad : <<U, T>> \notin StrictSubsetOrdering(S)
  <2>1. IsWellFoundedOn(StrictSubsetOrdering(S), FiniteSubsetsOf(S))
    BY FS_StrictSubsetOrderingWellFounded
  <2>2. Bad \subseteq FiniteSubsetsOf(S)
    OBVIOUS
  <2> HIDE DEF Bad
  <2> QED
    BY <1>2, <2>1, <2>2, WFMin
<1>4. T \subseteq S /\ IsFiniteSet(T) /\ T # {} /\ ~Greatest(T)
  BY DEF FiniteSubsetsOf
<1>5. PICK p \in T : TRUE
  BY <1>4
<1> DEFINE U == {q \in T : p < q}
<1>6. U # {}
  <2>1. PICK q \in T : ~(q <= p)
    BY <1>4, <1>5
  <2>2. p \in Nat /\ q \in Nat
    BY <1>4
  <2> QED
    BY <2>1, <2>2
<1>7. U \subseteq T /\ p \notin U
  BY <1>4
<1>8. U \in FiniteSubsetsOf(S)
  BY <1>4, <1>7, FS_Subset DEF FiniteSubsetsOf
<1>9. <<U, T>> \in StrictSubsetOrdering(S)
  BY <1>4, <1>7 DEF StrictSubsetOrdering
<1>10. PICK m \in U : \A n \in U : n <= m
  BY <1>3, <1>6, <1>8, <1>9
<1>11. ASSUME NEW n \in T PROVE n <= m
  <2>1. n \in Nat /\ m \in Nat /\ p \in Nat /\ p < m
    BY <1>4, <1>7
  <2>2. CASE n \in U
    BY <1>10, <2>2
  <2>3. CASE ~(p < n)
    BY <2>1, <2>3
  <2> QED
    BY <2>2, <2>3
<1> QED
  BY <1>4, <1>7, <1>11

\* The greatest of a threshold over the targets of a volume is a number.
LEMMA MaxOfIs ==
    ASSUME NEW f \in [Target -> Nat], NEW R \in SUBSET Target, R # {}
    PROVE  MaxOf({f[t] : t \in R}) \in Nat
<1> DEFINE S == {f[t] : t \in R}
<1>1. IsFiniteSet(R)
  BY CapacityAssumption, FS_Subset
<1> DEFINE g == [t \in R |-> f[t]]
<1>2. IsFiniteSet(S)
  <2>1. g \in Surjection(R, S)
    BY DEF Surjection
  <2> HIDE DEF g, S
  <2> QED
    BY <1>1, <2>1, FS_Surjection
<1>3. S \in SUBSET Nat /\ S # {}
  OBVIOUS
<1> HIDE DEF S
<1>4. MaxOf(S) \in S
  BY <1>2, <1>3, FiniteHasGreatest DEF MaxOf
<1> QED
  BY <1>3, <1>4 DEF S

\* The thresholds of a volume with roots are numbers.
LEMMA ThresholdsAre ==
    ASSUME NEW v, v.roots \in SUBSET Target, v.roots # {}
    PROVE  ReserveBytes(v) \in Nat /\ TargetBytes(v) \in Nat /\ RecoveryBytes(v) \in Nat
<1> USE CapacityAssumption
<1>1. ReserveBytes(v) \in Nat
  BY MaxOfIs DEF ReserveBytes
<1>2. TargetBytes(v) \in Nat
  BY MaxOfIs DEF TargetBytes
<1>3. RecoveryBytes(v) \in Nat
  <2> DEFINE f == [t \in Target |-> RecoveryOf(t)]
  <2>1. f \in [Target -> Nat]
    BY DEF RecoveryOf
  <2>2. {RecoveryOf(t) : t \in v.roots} = {f[t] : t \in v.roots}
    OBVIOUS
  <2>3. RecoveryBytes(v) = MaxOf({f[t] : t \in v.roots})
    BY <2>2 DEF RecoveryBytes
  <2> HIDE DEF f
  <2> QED
    BY <2>1, <2>3, MaxOfIs
<1> QED
  BY <1>1, <1>2, <1>3

-----------------------------------------------------------------------------
(* Volumes and snapshots. *)

\* A volume is told apart from none, and only pressure holds it.
Measurable(v) == v \in Volume /\ v.roots # {}
SoundVolume(v) == Measurable(v) /\ v.state # None /\ (v.hold => ~Settled(v))

\* Only a filesystem that was measured is free of a hold.
SoundSnapshot(s) ==
    s \in Snapshot /\ \A k \in DOMAIN s.volumes : SoundVolume(s.volumes[k]) /\ (s.volumes[k].hold \/ k \in Device)

\* From one snapshot to the next a hold ends at the recovery threshold.
Released(hold, v) == hold /\ ~v.hold /\ Hysteresis(v) => v.available >= RecoveryBytes(v)
HoldsKept(s, t) ==
    \A k \in DOMAIN s.volumes \cap DOMAIN t.volumes : Released(s.volumes[k].hold, t.volumes[k])

\* A function from keys to volumes is a set of volumes by key,
LEMMA VolumesAre ==
    ASSUME NEW K \in SUBSET Keys, NEW f \in [K -> Volume]
    PROVE  f \in Volumes /\ DOMAIN f = K
BY DEF Volumes

\* and there is no other.
LEMMA InVolumes ==
    ASSUME NEW f \in Volumes
    PROVE  DOMAIN f \subseteq Keys /\ f \in [DOMAIN f -> Volume]
BY DEF Volumes


\* What the hysteresis makes of a measurement and the last state of the volume.
LEMMA AdvanceIs ==
    ASSUME NEW v, Measurable(v), NEW p, p.hold \in BOOLEAN, p.state \in States \cup {None},
           p.hold => ~Settled(p)
    PROVE  /\ SoundVolume(AdvancePressure(v, p)) /\ Released(p.hold, AdvancePressure(v, p))
           /\ v.available = Unknown => AdvancePressure(v, p).hold
<1> DEFINE Is(n) == \E st \in States, h \in BOOLEAN :
                       /\ n = [v EXCEPT !.state = st, !.hold = h]
                       /\ h => st # "target_recovered"
                       /\ p.hold /\ ~h => ~Hysteresis(v) \/ ~Below(v)
<1>1. ReserveBytes(v) \in Nat /\ TargetBytes(v) \in Nat /\ RecoveryBytes(v) \in Nat
  BY ThresholdsAre DEF Measurable, Volume
<1>2. /\ v \in Volume /\ v.roots # {} /\ v.available \in Int
  <2>1. v \in Volume /\ v.roots # {}
    BY DEF Measurable
  <2>2. \A x \in Level \cup {Unknown} : x \in Int
    BY CapacityAssumption DEF Unknown
  <2>3. v.available \in Level \cup {Unknown}
    BY <2>1 DEF Volume
  <2> QED
    BY <2>1, <2>2, <2>3
<1>3. ASSUME NEW n, Is(n)
      PROVE  SoundVolume(n) /\ Released(p.hold, n)
  <2>1. PICK st \in States, h \in BOOLEAN :
                       /\ n = [v EXCEPT !.state = st, !.hold = h]
                       /\ h => st # "target_recovered"
                       /\ p.hold /\ ~h => ~Hysteresis(v) \/ ~Below(v)
    BY <1>3
  <2>2. /\ n \in Volume /\ n.state = st /\ n.hold = h /\ n.roots = v.roots
        /\ n.available = v.available /\ st # None
    BY <1>2, <2>1 DEF Volume, States, None
  <2>3. Hysteresis(n) = Hysteresis(v) /\ RecoveryBytes(n) = RecoveryBytes(v)
    BY <2>2 DEF Hysteresis, RecoveryBytes, ReserveBytes
  <2>4. SoundVolume(n)
    BY <1>2, <2>1, <2>2 DEF SoundVolume, Measurable, Settled
  <2>5. Released(p.hold, n)
    BY <1>1, <1>2, <2>1, <2>2, <2>3 DEF Released, Below
  <2> QED
    BY <2>4, <2>5
<1>4. Is(PlainPressure(v)) \/ Hysteresis(v)
  BY <1>2 DEF PlainPressure, States, Volume
<1>5. Is(Latched(v, p))
  <2>1. Is([v EXCEPT !.state = "critical", !.hold = TRUE])
    BY <1>2 DEF States
  <2>2. Is([v EXCEPT !.state = "cleanup_needed", !.hold = p.hold /\ Below(v)])
    BY <1>2 DEF States
  <2>3. Is([v EXCEPT !.state = "target_recovered", !.hold = FALSE])
        \/ (~Settled(p) /\ Below(v))
    BY <1>2 DEF States
  <2> QED
    BY <2>1, <2>2, <2>3 DEF Latched
<1>6. Is([v EXCEPT !.state = "measurement_unknown", !.hold = TRUE])
  BY DEF States
<1>7. ASSUME p.state = "no_safe_reclaim"
      PROVE  Is([Latched(v, p) EXCEPT !.state = p.state, !.hold = TRUE])
  <2>1. PICK st \in States, h \in BOOLEAN : Latched(v, p) = [v EXCEPT !.state = st, !.hold = h]
    BY <1>5
  <2>2. [Latched(v, p) EXCEPT !.state = p.state, !.hold = TRUE]
           = [v EXCEPT !.state = p.state, !.hold = TRUE]
    BY <1>2, <2>1 DEF Volume
  <2> QED
    BY <1>7, <2>2 DEF States
<1>8. Is(AdvancePressure(v, p))
  BY <1>4, <1>5, <1>6, <1>7 DEF AdvancePressure
<1>9. v.available = Unknown => AdvancePressure(v, p).hold
  <2>1. [v EXCEPT !.state = "measurement_unknown", !.hold = TRUE].hold = TRUE
    BY <1>2 DEF Volume
  <2> QED
    BY <2>1 DEF AdvancePressure
<1> QED
  BY <1>3, <1>8, <1>9

\* A snapshot that ages holds what it held.
LEMMA ExpireIs ==
    ASSUME NEW s, SoundSnapshot(s), NEW t
    PROVE  /\ SoundSnapshot(Expire(s, t)) /\ DOMAIN Expire(s, t).volumes = DOMAIN s.volumes
           /\ HoldsKept(s, Expire(s, t))
           /\ \A k \in DOMAIN s.volumes : s.volumes[k].hold => Expire(s, t).volumes[k].hold
<1> DEFINE V == [k \in DOMAIN s.volumes |->
                   [s.volumes[k] EXCEPT !.state = "measurement_unknown", !.available = Unknown, !.hold = TRUE]]
<1>1. /\ s.at \in Time /\ s.until \in 0..MaxClock + 2 /\ s.volumes \in Volumes
      /\ s = [at |-> s.at, until |-> s.until, volumes |-> s.volumes]
  BY DEF SoundSnapshot, Snapshot
<1>2. CASE ~Stale(s, t)
  BY <1>2 DEF Expire, HoldsKept, Released
<1>3. CASE Stale(s, t)
  <2>1. Expire(s, t) = [at |-> s.at, until |-> s.until, volumes |-> V]
    BY <1>1, <1>3 DEF Expire
  <2>2. DOMAIN s.volumes \in SUBSET Keys
    BY <1>1, InVolumes
  <2>3. ASSUME NEW k \in DOMAIN s.volumes
        PROVE  SoundVolume(V[k]) /\ V[k].hold
    <3>1. SoundVolume(s.volumes[k])
      BY DEF SoundSnapshot
    <3> QED
      BY <3>1 DEF SoundVolume, Measurable, Volume, States, None, Settled
  <2>4. V \in [DOMAIN s.volumes -> Volume]
    BY <2>3 DEF SoundVolume, Measurable
  <2>5. V \in Volumes /\ DOMAIN V = DOMAIN s.volumes
    BY <2>2, <2>4, VolumesAre
  <2> HIDE DEF V
  <2> QED
    BY <1>1, <2>1, <2>3, <2>5 DEF SoundSnapshot, Snapshot, HoldsKept, Released
<1> QED
  BY <1>2, <1>3

\* Each target has a volume, and a volume that is sampled has a target.
LEMMA KeyIs ==
    ASSUME NEW look \in Looks, NEW old \in Volumes, NEW t \in Target
    PROVE  KeyOf(t, look, old) \in Keys
<1>1. look.device[t] \in Device \cup {None}
  BY DEF Looks
<1>2. DOMAIN old \subseteq Keys
  BY InVolumes
<1> QED
  BY <1>1, <1>2 DEF KeyOf, Keys

\* What is measured of the filesystem of a target has that target as a root.
LEMMA MeasuredIs ==
    ASSUME NEW look \in Looks, NEW old \in Volumes, NEW t \in Target
    PROVE  LET k == KeyOf(t, look, old)
               m == Measured(k, look, old) IN
           Measurable(m) /\ (m.available = Unknown \/ k \in Device)
<1> DEFINE k == KeyOf(t, look, old)
           T == {u \in Target : KeyOf(u, look, old) = k}
           bad == \E u \in T : look.device[u] = None
           m == Measured(k, look, old)
<1>1. m = [state |-> None, hold |-> FALSE, roots |-> T,
           available |-> IF bad THEN Unknown ELSE look.free[k]]
  BY DEF Measured
<1>2. t \in T
  OBVIOUS
<1>3. ~bad => k \in Device
  <2>1. look.device[t] \in Device \cup {None}
    BY DEF Looks
  <2> QED
    BY <1>2, <2>1 DEF KeyOf
<1>4. (IF bad THEN Unknown ELSE look.free[k]) \in Level \cup {Unknown}
  BY <1>3 DEF Looks
<1> HIDE DEF k, T, bad
<1>5. T \subseteq Target
  BY DEF T
<1>6. Measurable(m)
  BY <1>1, <1>2, <1>4, <1>5 DEF Measurable, Volume
<1>7. m.available = Unknown \/ k \in Device
  BY <1>1, <1>3
<1> QED
  BY <1>6, <1>7 DEF k

\* The volume a measurement is compared with is sound, or stands for none.
LEMMA PriorIs ==
    ASSUME NEW s, SoundSnapshot(s), NEW k
    PROVE  LET p == Prior(s.volumes, k) IN
           /\ p.hold \in BOOLEAN /\ p.state \in States \cup {None} /\ (p.hold => ~Settled(p))
           /\ k \in DOMAIN s.volumes => p.hold = s.volumes[k].hold
<1>1. CASE k \in DOMAIN s.volumes
  <2>1. SoundVolume(s.volumes[k])
    BY <1>1 DEF SoundSnapshot
  <2> QED
    BY <1>1, <2>1 DEF Prior, SoundVolume, Measurable, Volume, Settled
<1>2. CASE k \notin DOMAIN s.volumes
  BY <1>2 DEF Prior
<1> QED
  BY <1>1, <1>2

\* A new sample is sound and keeps the holds of the last one, however old that is.
LEMMA FreshIs ==
    ASSUME NEW now \in Time, SoundSnapshot(snapshot), NEW s \in Fresh(now)
    PROVE  SoundSnapshot(s) /\ HoldsKept(snapshot, s)
<1> DEFINE e == Expire(snapshot, now)
<1>1. /\ SoundSnapshot(e) /\ DOMAIN e.volumes = DOMAIN snapshot.volumes
      /\ \A k \in DOMAIN e.volumes : snapshot.volumes[k].hold => e.volumes[k].hold
  BY ExpireIs
<1>2. PICK look \in Looks : s = [at |-> now, until |-> now + 2, volumes |-> NewVolumes(look, e.volumes)]
  BY DEF Fresh
<1> HIDE DEF e
<1> DEFINE old == e.volumes
           K == {KeyOf(t, look, old) : t \in Target}
           V == NewVolumes(look, old)
<1>3. old \in Volumes
  BY <1>1 DEF SoundSnapshot, Snapshot
<1>4. K \in SUBSET Keys
  BY <1>3, KeyIs
<1>5. V = [k \in K |-> AdvancePressure(Measured(k, look, old), Prior(old, k))]
  BY DEF NewVolumes
<1>6. ASSUME NEW k \in K
      PROVE  /\ SoundVolume(V[k]) /\ (V[k].hold \/ k \in Device)
             /\ k \in DOMAIN snapshot.volumes => Released(snapshot.volumes[k].hold, V[k])
  <2>1. PICK t \in Target : k = KeyOf(t, look, old)
    OBVIOUS
  <2>2. Measurable(Measured(k, look, old)) /\ (Measured(k, look, old).available = Unknown \/ k \in Device)
    BY <1>3, <2>1, MeasuredIs
  <2> DEFINE p == Prior(old, k)
  <2>3. /\ p.hold \in BOOLEAN /\ p.state \in States \cup {None} /\ (p.hold => ~Settled(p))
        /\ k \in DOMAIN old => p.hold = old[k].hold
    BY <1>1, PriorIs
  <2>4. V[k] = AdvancePressure(Measured(k, look, old), p)
    BY <1>5
  <2> HIDE DEF p, V, K, old
  <2>5. SoundVolume(V[k]) /\ Released(p.hold, V[k]) /\ (V[k].hold \/ k \in Device)
    BY <2>2, <2>3, <2>4, AdvanceIs
  <2>6. k \in DOMAIN snapshot.volumes => k \in DOMAIN old /\ (snapshot.volumes[k].hold => old[k].hold)
    BY <1>1 DEF old
  <2> QED
    BY <2>3, <2>5, <2>6 DEF Released
<1> HIDE DEF V, K, old
<1>7. V \in [K -> Volume]
  BY <1>5, <1>6 DEF SoundVolume, Measurable
<1>8. V \in Volumes /\ DOMAIN V = K
  BY <1>4, <1>7, VolumesAre
<1>9. now + 2 \in 0..MaxClock + 2
  BY CapacityAssumption DEF Time
<1>10. s = [at |-> now, until |-> now + 2, volumes |-> V]
  BY <1>2 DEF V, old
<1> QED
  BY <1>6, <1>8, <1>9, <1>10 DEF SoundSnapshot, Snapshot, HoldsKept

\* The snapshot before the first sample is sound.
LEMMA EmptyIsSound == SoundSnapshot(Empty)
<1>1. NoVolumes \in [{} -> Volume] /\ {} \in SUBSET Keys
  BY DEF NoVolumes
<1>2. NoVolumes \in Volumes /\ DOMAIN NoVolumes = {}
  BY <1>1, VolumesAre
<1>3. 0 \in Time /\ 0 \in 0..MaxClock + 2
  BY CapacityAssumption DEF Time
<1> QED
  BY <1>2, <1>3 DEF SoundSnapshot, Snapshot, Empty

\* So is the one in which nothing could be measured.
LEMMA UnknownIsSound == SoundSnapshot(UnknownCapacity)
<1> DEFINE V == [t \in Target |->
        [state |-> "measurement_unknown", hold |-> TRUE, available |-> Unknown, roots |-> {t}]]
<1>1. V \in [Target -> Volume]
  BY DEF Volume, States
<1>2. V \in Volumes /\ DOMAIN V = Target
  BY <1>1, VolumesAre DEF Keys
<1>3. \A t \in Target : SoundVolume(V[t]) /\ V[t].hold
  BY <1>1 DEF SoundVolume, Measurable, None, Settled
<1>4. 0 \in Time /\ 0 \in 0..MaxClock + 2
  BY CapacityAssumption DEF Time
<1>5. UnknownCapacity = [at |-> 0, until |-> 0, volumes |-> V]
  BY DEF UnknownCapacity
<1> HIDE DEF V
<1> QED
  BY <1>2, <1>3, <1>4, <1>5 DEF SoundSnapshot, Snapshot

\* What a sampler stores and what it is told.
LEMMA SamplesAre ==
    ASSUME NEW now \in Time, SoundSnapshot(snapshot), NEW force, NEW o \in Samples(now, force)
    PROVE  /\ SoundSnapshot(o.stored) /\ HoldsKept(snapshot, o.stored)
           /\ SoundSnapshot(o.result)
<1>1. HoldsKept(snapshot, snapshot)
  BY DEF HoldsKept, Released
<1> QED
  BY <1>1, FreshIs, UnknownIsSound DEF Samples

\* The end of a recovery pass holds more and releases nothing.
LEMMA ExhaustedIs ==
    ASSUME NEW s, SoundSnapshot(s)
    PROVE  /\ SoundSnapshot(Exhausted(s)) /\ DOMAIN Exhausted(s).volumes = DOMAIN s.volumes
           /\ \A k \in DOMAIN s.volumes : s.volumes[k].hold => Exhausted(s).volumes[k].hold
<1> DEFINE Spent(v) ==
             IF Hysteresis(v) /\ v.state \notin {"target_recovered", "measurement_unknown"}
                  /\ v.available # Unknown /\ Below(v)
             THEN [v EXCEPT !.state = "no_safe_reclaim", !.hold = TRUE]
             ELSE v
           V == [k \in DOMAIN s.volumes |-> Spent(s.volumes[k])]
<1>1. /\ s.at \in Time /\ s.until \in 0..MaxClock + 2 /\ s.volumes \in Volumes
      /\ s = [at |-> s.at, until |-> s.until, volumes |-> s.volumes]
  BY DEF SoundSnapshot, Snapshot
<1>2. Exhausted(s) = [at |-> s.at, until |-> s.until, volumes |-> V]
  <2>1. Exhausted(s) = [s EXCEPT !.volumes = V]
    BY Zenon DEF Exhausted
  <2> HIDE DEF V
  <2> QED
    BY <1>1, <2>1
<1>3. DOMAIN s.volumes \in SUBSET Keys
  BY <1>1, InVolumes
<1>4. ASSUME NEW k \in DOMAIN s.volumes
      PROVE  SoundVolume(V[k]) /\ (s.volumes[k].hold => V[k].hold)
  <2> DEFINE v == s.volumes[k]
             w == [v EXCEPT !.state = "no_safe_reclaim", !.hold = TRUE]
  <2>1. SoundVolume(v)
    BY DEF SoundSnapshot
  <2>2. SoundVolume(w) /\ w.hold
    BY <2>1 DEF SoundVolume, Measurable, Volume, States, None, Settled
  <2>3. V[k] \in {v, w}
    OBVIOUS
  <2> HIDE DEF v, w, V
  <2> QED
    BY <2>1, <2>2, <2>3 DEF v
<1>5. V \in [DOMAIN s.volumes -> Volume]
  BY <1>4 DEF SoundVolume, Measurable
<1>6. V \in Volumes /\ DOMAIN V = DOMAIN s.volumes
  BY <1>3, <1>5, VolumesAre
<1> HIDE DEF V
<1> QED
  BY <1>1, <1>2, <1>4, <1>6 DEF SoundSnapshot, Snapshot

-----------------------------------------------------------------------------
(* What holds between the steps of the samplers and of the passes. *)

\* From the claim of a store to the end of its attempt its estimate is within the budget.
Attempting == {"claim", "prune", "running", "finish"}
SoundPass(r) ==
    /\ r \in Pass /\ r.charged <= MaxBytes
    /\ r.pc \in Attempting => r.store \in Store /\ r.charged + r.estimate <= MaxBytes
    /\ r.pc = "finish" => r.outcome # None

CapacityInv ==
    /\ CapacityTypeOK /\ SoundSnapshot(snapshot)
    /\ \A c \in Cycle : SoundPass(cyc[c])

\* The bounds are numbers.
LEMMA BoundsAre ==
    /\ MaxClock \in Nat \ {0} /\ MaxApproval \in Nat /\ MaxSize \in Nat \ {0}
    /\ MaxStores \in Nat \ {0} /\ MaxBytes \in Nat \ {0} /\ MaxPruneBytes \in Nat \ {0}
    /\ RecoveryInterval \in Nat \ {0}
BY CapacityAssumption

\* A cycle at rest, or that leaves.
LEMMA RestIs ==
    /\ Rest \in Pass /\ Rest.pc = "off" /\ Rest.charged = 0 /\ Rest.estimate = 0
    /\ SoundPass(Rest)
<1>1. Empty \in Snapshot
  BY EmptyIsSound DEF SoundSnapshot
<1>2. /\ 0 \in 0..MaxSize /\ 0 \in 0..MaxStores /\ 0 \in Nat /\ 0 <= MaxBytes
      /\ 0 \in Time /\ 0 \in 0..MaxApproval
  BY BoundsAre DEF Time
<1>3. Rest \in Pass
  BY <1>1, <1>2 DEF Rest, Pass
<1>4. Rest.pc = "off" /\ Rest.charged = 0 /\ Rest.estimate = 0
  BY DEF Rest
<1> QED
  BY <1>2, <1>3, <1>4 DEF SoundPass, Attempting

\* The first states satisfy the invariant.
LEMMA CapacityInitially == CapacityInit => CapacityInv
<1> SUFFICES ASSUME CapacityInit PROVE CapacityInv
  OBVIOUS
<1> USE DEF CapacityInit
<1>1. 0 \in Time /\ 1 \in Time /\ clock \in Time
  BY BoundsAre DEF Time
<1>2. SoundSnapshot(snapshot)
  BY EmptyIsSound
<1>3. snapshot \in Snapshot /\ \A k \in DOMAIN snapshot.volumes :
                       snapshot.volumes[k].state # None /\ snapshot.volumes[k].roots # {}
  BY <1>2 DEF SoundSnapshot, SoundVolume, Measurable
<1>4. attempts \in [Store -> Attempt] /\ approval \in [Store -> 0..MaxApproval]
  BY <1>1, BoundsAre DEF Attempt
<1>5. watch \in [Watcher -> [pc : {"off", "waiting", "sampling", "stale"}, now : Time,
                              due : 0..MaxClock + 1, until : 0..MaxClock + 2]]
  BY <1>1, BoundsAre DEF Off
<1>6. SoundPass(Rest)
  BY RestIs
<1>7. cyc \in [Cycle -> Pass] /\ \A c \in Cycle : SoundPass(cyc[c])
  BY <1>6 DEF SoundPass
<1> QED
  BY <1>1, <1>2, <1>3, <1>4, <1>5, <1>7 DEF CapacityInv, CapacityTypeOK

\* Only samples and the end of a pass change the shared sample.
LEMMA SnapshotIsKept ==
    ASSUME CapacityInv, [CapacityNext]_capacityVars
    PROVE  SoundSnapshot(snapshot') /\ HoldsKept(snapshot, snapshot')
<1> USE DEF CapacityInv, CapacityTypeOK
<1>1. ASSUME UNCHANGED snapshot PROVE SoundSnapshot(snapshot') /\ HoldsKept(snapshot, snapshot')
  BY <1>1 DEF HoldsKept, Released
<1>2. ASSUME NEW now \in Time, NEW force, NEW o \in Samples(now, force), snapshot' = o.stored
      PROVE  SoundSnapshot(snapshot') /\ HoldsKept(snapshot, snapshot')
  BY <1>2, SamplesAre
<1>3. ASSUME NEW w \in Watcher, WatcherStep(w)
      PROVE  SoundSnapshot(snapshot') /\ HoldsKept(snapshot, snapshot')
  <2>1. UNCHANGED snapshot \/ \E o \in Samples(watch[w].now, FALSE) : snapshot' = o.stored
    BY <1>3 DEF WatcherStep, WatcherStarts, WatcherTick, WatcherSample, WatcherFails
  <2>2. watch[w].now \in Time
    OBVIOUS
  <2> QED
    BY <1>1, <1>2, <2>1, <2>2
<1>4. ASSUME NEW c \in Cycle, CycleStep(c) \/ CycleDies(c)
      PROVE  SoundSnapshot(snapshot') /\ HoldsKept(snapshot, snapshot')
  <2>1. \/ UNCHANGED snapshot
        \/ \E now \in cyc[c].since..clock, force \in BOOLEAN : \E o \in Samples(now, force) : snapshot' = o.stored
        \/ snapshot' = Exhausted(Expire(snapshot, clock))
    <3>1. CASE CycleSample(c)
      BY <3>1 DEF CycleSample
    <3>2. CASE ForcedSample(c)
      BY <3>2 DEF ForcedSample
    <3>3. CASE Resample(c)
      BY <3>3 DEF Resample
    <3>4. CASE LateSample(c)
      BY <3>4 DEF LateSample
    <3>5. CASE Final(c)
      BY <3>5 DEF Final
    <3>6. CASE \/ CycleStarts(c) \/ LockScan(c) \/ Stop(c) \/ Skip(c) \/ Consider(c) \/ Claim(c)
               \/ PruneRefused(c) \/ PruneStarts(c) \/ ProviderEnds(c) \/ FinishAttempt(c) \/ CycleDies(c)
      BY <3>6 DEF CycleStarts, LockScan, Stop, Skip, Consider, Claim, PruneRefused, PruneStarts,
         ProviderEnds, FinishAttempt, CycleDies
    <3> QED
      BY <1>4, <3>1, <3>2, <3>3, <3>4, <3>5, <3>6 DEF CycleStep
  <2>2. cyc[c].since..clock \subseteq Time
    <3>1. cyc[c].since \in Time /\ clock \in Time
      BY DEF Pass
    <3> QED
      BY <3>1, BoundsAre DEF Time
  <2>3. CASE snapshot' = Exhausted(Expire(snapshot, clock))
    <3> DEFINE e == Expire(snapshot, clock)
    <3>1. /\ SoundSnapshot(e) /\ DOMAIN e.volumes = DOMAIN snapshot.volumes
          /\ \A k \in DOMAIN e.volumes : snapshot.volumes[k].hold => e.volumes[k].hold
      BY ExpireIs
    <3> HIDE DEF e
    <3>2. /\ SoundSnapshot(Exhausted(e)) /\ DOMAIN Exhausted(e).volumes = DOMAIN e.volumes
          /\ \A k \in DOMAIN e.volumes : e.volumes[k].hold => Exhausted(e).volumes[k].hold
      BY <3>1, ExhaustedIs
    <3>3. snapshot' = Exhausted(e)
      BY <2>3 DEF e
    <3> QED
      BY <3>1, <3>2, <3>3 DEF HoldsKept, Released
  <2> QED
    BY <1>1, <1>2, <2>1, <2>2, <2>3
<1>5. CASE ClockTick \/ (\E s \in Store : OwnerApproves(s)) \/ UNCHANGED capacityVars
  BY <1>1, <1>5 DEF ClockTick, OwnerApproves, capacityVars
<1> QED
  BY <1>3, <1>4, <1>5 DEF CapacityNext

\* Only a claim makes an attempt that starts, with the time of the claim, when the interval has
\* passed; the outcome of an attempt leaves its time alone.
LEMMA AttemptsAre ==
    ASSUME CapacityInv, [CapacityNext]_capacityVars
    PROVE  /\ attempts' \in [Store -> Attempt]
           /\ \A s \in Store : attempts[s].outcome # None /\ attempts'[s] # attempts[s]
                                 /\ attempts'[s].outcome = "starting"
                => attempts'[s].at >= attempts[s].at + RecoveryInterval
<1> USE DEF CapacityInv, CapacityTypeOK
<1>1. CASE UNCHANGED attempts
  BY <1>1
<1>2. ASSUME NEW c \in Cycle, Claim(c), ~ UNCHANGED attempts
      PROVE  /\ attempts' \in [Store -> Attempt]
             /\ \A s \in Store : attempts[s].outcome # None /\ attempts'[s] # attempts[s]
                  => attempts'[s].at >= attempts[s].at + RecoveryInterval
  <2> DEFINE s == cyc[c].store
             row == [approval |-> Mine(c), at |-> clock, outcome |-> "starting"]
  <2>1. /\ cyc[c].pc = "claim" /\ ~Refuses(attempts[s], Mine(c))
        /\ attempts' = [attempts EXCEPT ![s] = row]
    BY <1>2 DEF Claim, At
  <2>2. s \in Store
    BY <2>1 DEF SoundPass, Attempting
  <2>3. cyc[c].approval \in [Store -> 0..MaxApproval]
    BY DEF Pass
  <2>4. row \in Attempt
    BY <2>2, <2>3 DEF Attempt, Mine
  <2>5. attempts[s].outcome # None => clock >= attempts[s].at + RecoveryInterval
    <3>1. attempts[s].at \in Nat /\ clock \in Nat
      BY <2>2 DEF Attempt, Time
    <3> QED
      BY <2>1, <3>1, BoundsAre DEF Refuses
  <2> HIDE DEF s, row
  <2>6. attempts' \in [Store -> Attempt]
    BY <2>1, <2>4
  <2>7. ASSUME NEW z \in Store, attempts[z].outcome # None, attempts'[z] # attempts[z]
        PROVE  attempts'[z].at >= attempts[z].at + RecoveryInterval
    <3>1. z = s /\ attempts'[z] = row /\ row.at = clock
      BY <2>1, <2>2, <2>7 DEF row
    <3> QED
      BY <2>5, <2>7, <3>1
  <2> QED
    BY <2>6, <2>7
<1>3. ASSUME NEW c \in Cycle, FinishAttempt(c), ~ UNCHANGED attempts
      PROVE  /\ attempts' \in [Store -> Attempt]
             /\ \A s \in Store : attempts'[s] # attempts[s] => attempts'[s].outcome # "starting"
  <2> DEFINE s == cyc[c].store
  <2>1. cyc[c].pc = "finish" /\ attempts' = [attempts EXCEPT ![s].outcome = cyc[c].outcome]
    BY <1>3 DEF FinishAttempt, At
  <2>2. s \in Store /\ cyc[c].outcome \in {"completed", "failed", "refused"}
    BY <2>1 DEF SoundPass, Attempting, Pass
  <2>3. [attempts[s] EXCEPT !.outcome = cyc[c].outcome] \in Attempt
    BY <2>2 DEF Attempt
  <2> HIDE DEF s
  <2>4. attempts' = [attempts EXCEPT ![s] = [attempts[s] EXCEPT !.outcome = cyc[c].outcome]]
    BY <2>1, <2>2
  <2>5. attempts[s] \in Attempt
    BY <2>2
  <2> QED
    BY <2>2, <2>3, <2>4, <2>5 DEF Attempt
<1>4. \/ UNCHANGED attempts
      \/ \E c \in Cycle : Claim(c) \/ FinishAttempt(c)
  <2>1. ASSUME NEW w \in Watcher, WatcherStep(w) PROVE UNCHANGED attempts
    BY <2>1 DEF WatcherStep, WatcherStarts, WatcherTick, WatcherSample, WatcherFails
  <2>2. ASSUME NEW c \in Cycle, CycleStep(c) \/ CycleDies(c)
        PROVE  UNCHANGED attempts \/ Claim(c) \/ FinishAttempt(c)
    BY <2>2 DEF CycleStep, CycleStarts, LockScan, CycleSample, ForcedSample, Stop, Skip, Consider,
       PruneRefused, PruneStarts, ProviderEnds, Resample, Final, LateSample, CycleDies
  <2>3. ClockTick \/ (\E s \in Store : OwnerApproves(s)) \/ UNCHANGED capacityVars
           => UNCHANGED attempts
    BY DEF ClockTick, OwnerApproves, capacityVars
  <2> QED
    BY <2>1, <2>2, <2>3 DEF CapacityNext
<1> QED
  BY <1>1, <1>2, <1>3, <1>4

\* What a cycle keeps of its pass.
LEMMA PassIs ==
    ASSUME CapacityInv, NEW c \in Cycle
    PROVE  /\ cyc[c] \in Pass /\ SoundPass(cyc[c]) /\ clock \in Time
           /\ cyc[c].charged \in Nat /\ cyc[c].estimate \in Nat /\ cyc[c].considered \in Nat
           /\ cyc[c].charged <= MaxBytes
<1>1. cyc[c] \in Pass /\ SoundPass(cyc[c]) /\ clock \in Time
  BY DEF CapacityInv, CapacityTypeOK
<1>2. cyc[c].estimate \in 0..MaxSize /\ cyc[c].considered \in 0..MaxStores /\ cyc[c].charged \in Nat
  BY <1>1 DEF Pass
<1> QED
  BY <1>1, <1>2, BoundsAre DEF SoundPass

\* The cycle goes from one sound pass to another.
PassMoves(c) == \E r : SoundPass(r) /\ Becomes(c, r)

\* A cycle that leaves its pass, or goes on outside an attempt.
LEMMA LeavesIs ==
    ASSUME CapacityInv, NEW c \in Cycle, NEW l \in {"off", "after"}, Leaves(c, l)
    PROVE  PassMoves(c)
<1> DEFINE r == [Rest EXCEPT !.pc = l, !.since = IF l = "off" THEN 0 ELSE clock]
<1>1. 0 \in Time /\ clock \in Time
  BY PassIs, BoundsAre DEF Time
<1>2. r \in Pass /\ r.pc = l /\ r.charged = 0
  BY <1>1, RestIs DEF Pass
<1>3. Becomes(c, r)
  BY DEF Leaves
<1> HIDE DEF r
<1>4. SoundPass(r)
  BY <1>2, BoundsAre DEF SoundPass, Attempting
<1> QED
  BY <1>3, <1>4 DEF PassMoves

\* A pass that only goes on to its next step stays sound.
LEMMA GotoIs ==
    ASSUME CapacityInv, NEW c \in Cycle, NEW l \in {"sample", "force", "final", "prune"},
           Goto(c, l), l = "prune" => At(c, "claim")
    PROVE  PassMoves(c)
<1> DEFINE r == [cyc[c] EXCEPT !.pc = l, !.since = clock]
<1>1. cyc[c] \in Pass /\ SoundPass(cyc[c]) /\ clock \in Time
  BY PassIs
<1>2. /\ r \in Pass /\ r.pc = l /\ r.charged = cyc[c].charged /\ r.estimate = cyc[c].estimate
      /\ r.store = cyc[c].store
  BY <1>1 DEF Pass
<1>3. Becomes(c, r)
  BY DEF Goto
<1> HIDE DEF r
<1>4. SoundPass(r)
  BY <1>1, <1>2 DEF SoundPass, Attempting, At
<1> QED
  BY <1>3, <1>4 DEF PassMoves

\* A pass takes the estimate of a store within what is left of its budget, charges no more,
\* and then has none in hand.
LEMMA CycleStepIs ==
    ASSUME CapacityInv, NEW c \in Cycle, CycleStep(c) \/ CycleDies(c)
    PROVE  PassMoves(c)
<1> DEFINE q == cyc[c]
<1>1. /\ q \in Pass /\ SoundPass(q) /\ clock \in Time /\ q.charged \in Nat /\ q.estimate \in Nat
      /\ q.considered \in Nat /\ q.charged <= MaxBytes
  BY PassIs
<1>2. SoundSnapshot(snapshot) /\ approval \in [Store -> 0..MaxApproval]
  BY DEF CapacityInv, CapacityTypeOK
<1>3. \A now \in q.since..clock, force \in BOOLEAN : \A o \in Samples(now, force) : o.result \in Snapshot
  <2>1. q.since..clock \subseteq Time
    <3>1. q.since \in Time
      BY <1>1 DEF Pass
    <3> QED
      BY <1>1, <3>1, BoundsAre DEF Time
  <2> QED
    BY <1>2, <2>1, SamplesAre DEF SoundSnapshot
<1>4. (Leaves(c, "off") => PassMoves(c)) /\ (Leaves(c, "after") => PassMoves(c))
  BY LeavesIs
<1>5. /\ Goto(c, "sample") => PassMoves(c)
      /\ Goto(c, "force") => PassMoves(c)
      /\ Goto(c, "final") => PassMoves(c)
  BY GotoIs
<1>6. CASE CycleStarts(c)
  <2> DEFINE r == [Rest EXCEPT !.pc = "lock", !.approval = approval]
  <2>1. r \in Pass /\ r.pc = "lock" /\ r.charged = 0
    BY <1>2, RestIs DEF Pass
  <2>2. Becomes(c, r)
    BY <1>6 DEF CycleStarts
  <2> HIDE DEF r
  <2>3. SoundPass(r)
    BY <2>1, BoundsAre DEF SoundPass, Attempting
  <2> QED
    BY <2>2, <2>3 DEF PassMoves
<1>7. CASE LockScan(c) \/ CycleSample(c) \/ Stop(c)
  BY <1>4, <1>5, <1>7 DEF LockScan, CycleSample, Stop
<1>8. CASE Final(c) \/ LateSample(c) \/ CycleDies(c)
  BY <1>4, <1>8 DEF Final, LateSample, CycleDies
<1>9. CASE ForcedSample(c)
  <2>1. CASE Leaves(c, "off") \/ Leaves(c, "after")
    BY <1>4, <2>1
  <2>2. ASSUME NEW s \in Snapshot, NEW L \in SUBSET Store,
               Becomes(c, [q EXCEPT !.pc = "next", !.capacity = s, !.left = L])
        PROVE  PassMoves(c)
    <3> DEFINE r == [q EXCEPT !.pc = "next", !.capacity = s, !.left = L]
    <3>1. r \in Pass /\ r.pc = "next" /\ r.charged = q.charged
      BY <1>1 DEF Pass
    <3> HIDE DEF r
    <3>2. SoundPass(r)
      BY <1>1, <3>1 DEF SoundPass, Attempting
    <3>3. Becomes(c, r)
      BY <2>2 DEF r
    <3> QED
      BY <3>2, <3>3 DEF PassMoves
  <2> QED
    BY <1>3, <1>9, <2>1, <2>2 DEF ForcedSample
<1>10. CASE Skip(c)
  <2>1. PICK s \in q.left : Becomes(c, [q EXCEPT !.left = @ \ {s}])
    BY <1>10 DEF Skip
  <2> DEFINE r == [q EXCEPT !.left = @ \ {s}]
  <2>2. r \in Pass /\ r.pc = "next" /\ r.charged = q.charged
    BY <1>1, <1>10 DEF Pass, Skip, At
  <2> HIDE DEF r
  <2>3. SoundPass(r)
    BY <1>1, <2>2 DEF SoundPass, Attempting
  <2> QED
    BY <2>1, <2>3 DEF PassMoves, r
<1>11. CASE Consider(c)
  <2>1. At(c, "next") /\ q.considered + 1 \in 0..MaxStores
    <3>1. At(c, "next") /\ q.considered < MaxStores
      BY <1>11 DEF Consider, HasBudget
    <3>2. \A n \in Nat : n < MaxStores => n + 1 \in 0..MaxStores
      BY BoundsAre
    <3> QED
      BY <1>1, <3>1, <3>2
  <2>2. PICK s \in q.left :
           \/ \E size \in 1..MaxSize :
                /\ size <= Remaining(c)
                /\ Becomes(c, [q EXCEPT !.pc = "claim", !.store = s, !.estimate = size,
                                        !.left = @ \ {s}, !.considered = @ + 1])
           \/ Becomes(c, [q EXCEPT !.left = @ \ {s}, !.considered = @ + 1])
    BY <1>11 DEF Consider
  <2>3. s \in Store
    BY <1>1 DEF Pass
  <2>4. ASSUME NEW size \in 1..MaxSize, size <= Remaining(c),
               Becomes(c, [q EXCEPT !.pc = "claim", !.store = s, !.estimate = size,
                                    !.left = @ \ {s}, !.considered = @ + 1])
        PROVE  PassMoves(c)
    <3> DEFINE r == [q EXCEPT !.pc = "claim", !.store = s, !.estimate = size,
                              !.left = @ \ {s}, !.considered = @ + 1]
    <3>1. size \in 0..MaxSize /\ q.charged + size <= MaxBytes
      BY <1>1, <2>4, BoundsAre DEF Remaining
    <3>2. /\ r \in Pass /\ r.pc = "claim" /\ r.charged = q.charged /\ r.estimate = size
          /\ r.store = s
      BY <1>1, <2>1, <2>3, <3>1 DEF Pass
    <3> HIDE DEF r
    <3>3. SoundPass(r)
      BY <1>1, <2>3, <3>1, <3>2 DEF SoundPass, Attempting
    <3>4. Becomes(c, r)
      BY <2>4 DEF r
    <3> QED
      BY <3>3, <3>4 DEF PassMoves
  <2>5. ASSUME Becomes(c, [q EXCEPT !.left = @ \ {s}, !.considered = @ + 1])
        PROVE  PassMoves(c)
    <3> DEFINE r == [q EXCEPT !.left = @ \ {s}, !.considered = @ + 1]
    <3>1. r \in Pass /\ r.pc = "next" /\ r.charged = q.charged
      BY <1>1, <2>1 DEF Pass, At
    <3> HIDE DEF r
    <3>2. SoundPass(r)
      BY <1>1, <3>1 DEF SoundPass, Attempting
    <3>3. Becomes(c, r)
      BY <2>5 DEF r
    <3> QED
      BY <3>2, <3>3 DEF PassMoves
  <2> QED
    BY <2>2, <2>4, <2>5
<1>12. CASE Claim(c)
  <2>1. CASE Becomes(c, [q EXCEPT !.pc = "next", !.store = None])
    <3> DEFINE r == [q EXCEPT !.pc = "next", !.store = None]
    <3>1. r \in Pass /\ r.pc = "next" /\ r.charged = q.charged
      BY <1>1 DEF Pass
    <3> HIDE DEF r
    <3>2. SoundPass(r)
      BY <1>1, <3>1 DEF SoundPass, Attempting
    <3>3. Becomes(c, r)
      BY <2>1 DEF r
    <3> QED
      BY <3>2, <3>3 DEF PassMoves
  <2>2. At(c, "claim") /\ Goto(c, "prune") => PassMoves(c)
    BY GotoIs
  <2> QED
    BY <1>5, <1>12, <2>1, <2>2 DEF Claim
<1>13. CASE PruneRefused(c)
  <2> DEFINE r == [q EXCEPT !.pc = "finish", !.outcome = "refused", !.estimate = 0, !.failed = TRUE]
  <2>1. q.store \in Store
    BY <1>1, <1>13 DEF PruneRefused, At, SoundPass, Attempting
  <2>2. /\ r \in Pass /\ r.charged = q.charged /\ r.estimate = 0 /\ r.store = q.store
        /\ r.outcome # None
    <3>1. 0 \in 0..MaxSize
      BY BoundsAre
    <3> QED
      BY <1>1, <3>1 DEF Pass, None
  <2>3. Becomes(c, r)
    BY <1>13 DEF PruneRefused
  <2> HIDE DEF r
  <2>4. SoundPass(r)
    BY <1>1, <2>1, <2>2, BoundsAre DEF SoundPass
  <2> QED
    BY <2>3, <2>4 DEF PassMoves
<1>14. CASE PruneStarts(c)
  <2>1. q.store \in Store /\ q.charged + q.estimate <= MaxBytes
    BY <1>1, <1>14 DEF PruneStarts, At, SoundPass, Attempting
  <2>2. PICK size \in StoreBefore(c) :
        \/ Becomes(c, [q EXCEPT !.pc = "running", !.estimate = size])
        \/ Becomes(c, [q EXCEPT !.pc = "finish", !.outcome = "failed", !.estimate = size,
                                     !.failed = TRUE])
    BY <1>14 DEF PruneStarts
  <2>3. size \in 0..MaxSize /\ q.charged + size <= MaxBytes
    BY <1>1, <2>1, BoundsAre DEF StoreBefore
  <2>4. ASSUME Becomes(c, [q EXCEPT !.pc = "running", !.estimate = size]) PROVE PassMoves(c)
    <3> DEFINE r == [q EXCEPT !.pc = "running", !.estimate = size]
    <3>1. /\ r \in Pass /\ r.pc = "running" /\ r.charged = q.charged /\ r.estimate = size
          /\ r.store = q.store
      BY <1>1, <2>3 DEF Pass
    <3> HIDE DEF r
    <3>2. SoundPass(r)
      BY <1>1, <2>1, <2>3, <3>1 DEF SoundPass
    <3>3. Becomes(c, r)
      BY <2>4 DEF r
    <3> QED
      BY <3>2, <3>3 DEF PassMoves
  <2>5. ASSUME Becomes(c, [q EXCEPT !.pc = "finish", !.outcome = "failed", !.estimate = size,
                                     !.failed = TRUE])
        PROVE  PassMoves(c)
    <3> DEFINE r == [q EXCEPT !.pc = "finish", !.outcome = "failed", !.estimate = size, !.failed = TRUE]
    <3>1. /\ r \in Pass /\ r.charged = q.charged /\ r.estimate = size /\ r.store = q.store
          /\ r.outcome # None
      BY <1>1, <2>3 DEF Pass, None
    <3> HIDE DEF r
    <3>2. SoundPass(r)
      BY <1>1, <2>1, <2>3, <3>1 DEF SoundPass
    <3>3. Becomes(c, r)
      BY <2>5 DEF r
    <3> QED
      BY <3>2, <3>3 DEF PassMoves
  <2> QED
    BY <2>2, <2>4, <2>5
<1>15. CASE ProviderEnds(c)
  <2>1. q.store \in Store /\ q.charged + q.estimate <= MaxBytes
    BY <1>1, <1>15 DEF ProviderEnds, At, SoundPass, Attempting
  <2>2. PICK o \in {"completed", "failed"}, f \in BOOLEAN :
          Becomes(c, [q EXCEPT !.pc = "finish", !.outcome = o, !.failed = f])
    BY <1>15 DEF ProviderEnds
  <2> DEFINE r == [q EXCEPT !.pc = "finish", !.outcome = o, !.failed = f]
  <2>3. /\ r \in Pass /\ r.charged = q.charged /\ r.estimate = q.estimate /\ r.store = q.store
        /\ r.outcome # None
    BY <1>1 DEF Pass, None
  <2> HIDE DEF r
  <2>4. SoundPass(r)
    BY <1>1, <2>1, <2>3 DEF SoundPass
  <2> QED
    BY <2>2, <2>4 DEF PassMoves, r
<1>16. CASE FinishAttempt(c)
  <2>1. q.charged + q.estimate <= MaxBytes
    BY <1>1, <1>16 DEF FinishAttempt, At, SoundPass, Attempting
  <2>2. PICK charge \in {0, q.estimate}, f \in BOOLEAN :
          Becomes(c, [q EXCEPT !.pc = "resample", !.since = clock, !.outcome = None,
                         !.store = None, !.estimate = 0, !.charged = @ + charge, !.failed = f])
    <3>1. q.failed \in BOOLEAN
      BY <1>1 DEF Pass
    <3> QED
      BY <1>16, <3>1 DEF FinishAttempt
  <2> DEFINE r == [q EXCEPT !.pc = "resample", !.since = clock, !.outcome = None,
                         !.store = None, !.estimate = 0, !.charged = @ + charge, !.failed = f]
  <2>3. q.charged + charge \in Nat /\ q.charged + charge <= MaxBytes /\ 0 \in 0..MaxSize
    BY <1>1, <2>1, BoundsAre
  <2>4. r \in Pass /\ r.pc = "resample" /\ r.charged = q.charged + charge
    BY <1>1, <2>3 DEF Pass
  <2> HIDE DEF r
  <2>5. SoundPass(r)
    BY <2>3, <2>4 DEF SoundPass, Attempting
  <2> QED
    BY <2>2, <2>5 DEF PassMoves, r
<1>17. CASE Resample(c)
  <2>1. PICK s \in Snapshot, l \in {"final", "next"} :
           Becomes(c, [q EXCEPT !.capacity = s, !.pc = l])
    <3>1. Empty \in Snapshot
      BY EmptyIsSound DEF SoundSnapshot
    <3> QED
      BY <1>3, <1>17, <3>1 DEF Resample
  <2> DEFINE r == [q EXCEPT !.capacity = s, !.pc = l]
  <2>2. r \in Pass /\ r.pc = l /\ r.charged = q.charged
    BY <1>1 DEF Pass
  <2> HIDE DEF r
  <2>3. SoundPass(r)
    BY <1>1, <2>2 DEF SoundPass, Attempting
  <2> QED
    BY <2>1, <2>3 DEF PassMoves, r
<1>18. PassMoves(c)
  BY <1>6, <1>7, <1>8, <1>9, <1>10, <1>11, <1>12, <1>13, <1>14, <1>15, <1>16, <1>17 DEF CycleStep
<1> QED
  BY <1>18

\* The timers of a sampler.
LEMMA WatchersAre ==
    ASSUME CapacityInv, NEW w \in Watcher, WatcherStep(w)
    PROVE  watch' \in [Watcher -> [pc : {"off", "waiting", "sampling", "stale"}, now : Time,
                                   due : 0..MaxClock + 1, until : 0..MaxClock + 2]]
<1> DEFINE Timers == [pc : {"off", "waiting", "sampling", "stale"}, now : Time,
                      due : 0..MaxClock + 1, until : 0..MaxClock + 2]
<1>1. /\ watch \in [Watcher -> Timers] /\ clock \in Time /\ SoundSnapshot(snapshot)
  BY DEF CapacityInv, CapacityTypeOK
<1>2. \A t \in Time : t \in 0..MaxClock + 1 /\ t + 1 \in 0..MaxClock + 1 /\ t + 2 \in 0..MaxClock + 2
  BY BoundsAre DEF Time
<1>3. 0 \in Time /\ 0 \in 0..MaxClock + 1 /\ 0 \in 0..MaxClock + 2
  BY BoundsAre DEF Time
<1>4. ASSUME NEW u \in 0..MaxClock + 2, Waits(w, u) PROVE watch' \in [Watcher -> Timers]
  BY <1>1, <1>2, <1>3, <1>4 DEF Waits
<1>5. Gone \in Timers
  <2>1. Off \in Timers
    BY <1>3 DEF Off
  <2> QED
    BY <2>1 DEF Gone
<1>6. CASE WatcherStarts(w)
  BY <1>1, <1>2, <1>3, <1>6 DEF WatcherStarts
<1>7. CASE WatcherTick(w)
  <2> DEFINE r == [watch[w] EXCEPT !.pc = "sampling", !.now = clock, !.due = 0]
  <2>1. r \in Timers
    BY <1>1, <1>3
  <2>2. watch' = [watch EXCEPT ![w] = r]
    BY <1>1, <1>7 DEF WatcherTick
  <2> HIDE DEF r
  <2> QED
    BY <1>1, <2>1, <2>2
<1>8. CASE WatcherSample(w)
  <2>1. PICK o \in Samples(watch[w].now, FALSE) :
           Waits(w, o.result.until) \/ watch' = [watch EXCEPT ![w] = Gone]
    BY <1>8 DEF WatcherSample
  <2>2. o.result.until \in 0..MaxClock + 2
    <3>1. watch[w].now \in Time
      BY <1>1
    <3> QED
      BY <1>1, <2>1, <3>1, SamplesAre DEF SoundSnapshot, Snapshot
  <2> QED
    BY <1>1, <1>4, <1>5, <2>1, <2>2
<1>9. CASE WatcherFails(w)
  <2>1. watch[w].until \in 0..MaxClock + 2
    BY <1>1
  <2> QED
    BY <1>1, <1>4, <1>5, <1>9, <2>1 DEF WatcherFails
<1> QED
  BY <1>6, <1>7, <1>8, <1>9 DEF WatcherStep

\* Every step keeps the invariant.
LEMMA CapacityStep == CapacityInv /\ [CapacityNext]_capacityVars => CapacityInv'
<1> SUFFICES ASSUME CapacityInv, [CapacityNext]_capacityVars PROVE CapacityInv'
  OBVIOUS
<1>1. /\ clock \in Time /\ approval \in [Store -> 0..MaxApproval] /\ scanLock \in Cycle \cup {None}
      /\ watch \in [Watcher -> [pc : {"off", "waiting", "sampling", "stale"}, now : Time,
                                due : 0..MaxClock + 1, until : 0..MaxClock + 2]]
      /\ cyc \in [Cycle -> Pass] /\ \A c \in Cycle : SoundPass(cyc[c])
  BY DEF CapacityInv, CapacityTypeOK
<1>2. SoundSnapshot(snapshot')
  BY SnapshotIsKept
<1>3. /\ snapshot' \in Snapshot
      /\ \A k \in DOMAIN snapshot'.volumes :
            snapshot'.volumes[k].state # None /\ snapshot'.volumes[k].roots # {}
  BY <1>2 DEF SoundSnapshot, SoundVolume, Measurable
<1>4. attempts' \in [Store -> Attempt]
  BY AttemptsAre
<1> DEFINE Others == /\ clock' \in Time /\ approval' \in [Store -> 0..MaxApproval]
                     /\ scanLock' \in Cycle \cup {None}
           WatchIs == watch' \in [Watcher -> [pc : {"off", "waiting", "sampling", "stale"}, now : Time,
                                due : 0..MaxClock + 1, until : 0..MaxClock + 2]]
           CycIs == cyc' \in [Cycle -> Pass] /\ \A c \in Cycle : SoundPass(cyc'[c])
<1>5. ASSUME NEW w \in Watcher, WatcherStep(w) PROVE Others /\ WatchIs /\ CycIs
  <2>1. WatchIs
    BY <1>5, WatchersAre
  <2>2. UNCHANGED <<clock, approval, scanLock, cyc>>
    BY <1>5 DEF WatcherStep, WatcherStarts, WatcherTick, WatcherSample, WatcherFails
  <2> QED
    BY <1>1, <2>1, <2>2
<1>6. ASSUME NEW c \in Cycle, CycleStep(c) \/ CycleDies(c) PROVE Others /\ WatchIs /\ CycIs
  <2>1. PICK r : SoundPass(r) /\ Becomes(c, r)
    BY <1>6, CycleStepIs DEF PassMoves
  <2>2. CycIs
    BY <1>1, <2>1 DEF Becomes, SoundPass
  <2>3. UNCHANGED <<clock, approval, watch>>
    BY <1>6 DEF CycleStep, CycleStarts, LockScan, CycleSample, ForcedSample, Stop, Skip, Consider,
       Claim, PruneRefused, PruneStarts, ProviderEnds, FinishAttempt, Resample, Final, LateSample,
       CycleDies
  <2>4. scanLock' \in {scanLock, c, None}
    BY <1>6 DEF CycleStep, CycleStarts, LockScan, CycleSample, ForcedSample, Stop, Skip, Consider,
       Claim, PruneRefused, PruneStarts, ProviderEnds, FinishAttempt, Resample, Final, LateSample,
       CycleDies, Leaves
  <2> QED
    BY <1>1, <2>2, <2>3, <2>4
<1>7. ASSUME ClockTick PROVE Others /\ WatchIs /\ CycIs
  <2>1. clock' \in Time /\ UNCHANGED <<approval, scanLock, watch, cyc>>
    BY <1>1, <1>7, BoundsAre DEF ClockTick, Time
  <2> QED
    BY <1>1, <2>1
<1>8. ASSUME NEW s \in Store, OwnerApproves(s) PROVE Others /\ WatchIs /\ CycIs
  <2>1. /\ approval' \in [Store -> 0..MaxApproval] /\ UNCHANGED <<clock, scanLock, watch, cyc>>
    BY <1>1, <1>8, BoundsAre DEF OwnerApproves
  <2> QED
    BY <1>1, <2>1
<1>9. ASSUME UNCHANGED capacityVars PROVE Others /\ WatchIs /\ CycIs
  BY <1>1, <1>9 DEF capacityVars
<1>10. Others /\ WatchIs /\ CycIs
  BY <1>5, <1>6, <1>7, <1>8, <1>9 DEF CapacityNext
<1> QED
  BY <1>2, <1>3, <1>4, <1>10 DEF CapacityInv, CapacityTypeOK

\* The invariant holds throughout.
LEMMA CapacityInvHolds == CapacitySpec => []CapacityInv
BY CapacityInitially, CapacityStep, PTL DEF CapacitySpec

\* Type correctness of the shared sample, the attempts, the samplers and the passes
\* (core/capacity.go:14-39, store/cache_recovery.go:20-52).
THEOREM CapacityTypeCorrect == CapacitySpec => []CapacityTypeOK
<1>1. CapacityInv => CapacityTypeOK
  BY DEF CapacityInv
<1> QED
  BY <1>1, CapacityInvHolds, PTL

\* No pass of any number of cycles charges or runs beyond max_bytes, whatever the stores grow
\* to after they were measured (recovery.go:181-225, prune.go:98-109).
THEOREM PassesKeepTheBudget == CapacitySpec => []BudgetRespected
<1>1. CapacityInv => BudgetRespected
  <2> SUFFICES ASSUME CapacityInv, NEW c \in Cycle
               PROVE  cyc[c].charged + (IF At(c, "running") THEN cyc[c].estimate ELSE 0) <= MaxBytes
    BY DEF BudgetRespected
  <2>1. /\ SoundPass(cyc[c]) /\ cyc[c].charged \in Nat /\ cyc[c].charged <= MaxBytes
    BY PassIs
  <2>2. At(c, "running") => cyc[c].charged + cyc[c].estimate <= MaxBytes
    BY <2>1 DEF SoundPass, Attempting, At
  <2> QED
    BY <2>1, <2>2, BoundsAre
<1> QED
  BY <1>1, CapacityInvHolds, PTL

\* A store is claimed again only after the interval, whichever cycle claims it, under whichever
\* approval, and whether or not the last claim came to an end (store/cache_recovery.go:25-30).
THEOREM ClaimsKeepTheCooldown == CapacitySpec => CooldownKept
<1> DEFINE Apart == \A s \in Store :
        /\ attempts[s].outcome # None
        /\ attempts'[s] # attempts[s] /\ attempts'[s].outcome = "starting"
        => attempts'[s].at >= attempts[s].at + RecoveryInterval
<1>1. CapacityInv /\ [CapacityNext]_capacityVars => [Apart]_capacityVars
  BY AttemptsAre
<1> QED
  BY <1>1, CapacityInvHolds, PTL DEF CapacitySpec, CooldownKept

\* A hold on admission ends at the recovery threshold of its filesystem, for any targets and
\* any order in which samples commit; a target leaves one below it only for a filesystem it is
\* measured on and that is not the one held (core/capacity.go:72-86, cli/capacity.go:71-82).
THEOREM HoldsEndAtRecovery == CapacitySpec => HoldReleasedAtRecovery
<1> DEFINE Kept == \A k \in DOMAIN snapshot.volumes, l \in DOMAIN snapshot'.volumes :
        LET u == snapshot.volumes[k]
            v == snapshot'.volumes[l] IN
        u.hold /\ ~v.hold /\ Hysteresis(v) /\ (k = l \/ u.roots \cap v.roots # {}) =>
            \/ v.available >= RecoveryBytes(v)
            \/ l \in Device \ {k}
<1>1. CapacityInv /\ [CapacityNext]_capacityVars => [Kept]_capacityVars
  <2> SUFFICES ASSUME CapacityInv, [CapacityNext]_capacityVars,
                      NEW k \in DOMAIN snapshot.volumes, NEW l \in DOMAIN snapshot'.volumes,
                      snapshot.volumes[k].hold, ~snapshot'.volumes[l].hold, Hysteresis(snapshot'.volumes[l])
               PROVE  \/ snapshot'.volumes[l].available >= RecoveryBytes(snapshot'.volumes[l])
                      \/ l \in Device \ {k}
    OBVIOUS
  <2>1. SoundSnapshot(snapshot') /\ HoldsKept(snapshot, snapshot')
    BY SnapshotIsKept
  <2>2. CASE k = l
    BY <2>1, <2>2 DEF HoldsKept, Released
  <2>3. CASE k # l
    BY <2>1, <2>3 DEF SoundSnapshot
  <2> QED
    BY <2>2, <2>3
<1> QED
  BY <1>1, CapacityInvHolds, PTL DEF CapacitySpec, HoldReleasedAtRecovery

=============================================================================
