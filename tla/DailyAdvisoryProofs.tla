------------------------- MODULE DailyAdvisoryProofs -------------------------
(***************************************************************************)
(* Theorems about the daily advisory, for any number of overlapping        *)
(* launches, days, scans, requests and budgets.                            *)
(***************************************************************************)
EXTENDS DailyAdvisory, SequenceTheorems, TLAPS

Requests == Seq([Dim -> Nat \ {0}])

LaunchType == [pc : Labels, day : Nat, scan : Nat, todo : Requests, tries : Nat, failures : Nat,
               circuit : BOOLEAN, incomplete : BOOLEAN]

AdvisoryType ==
    /\ today \in Day
    /\ scans \in Seq(Day) /\ cycles \subseteq 1..Len(scans) /\ completed \in [Day -> 0..Len(scans)]
    /\ runs \in [Day -> [status : Status, scan : Nat]]
    /\ reserved \in [Day -> Amount] /\ sent \in [Day -> Amount]
    /\ adv \in [Run -> LaunchType]
    /\ over \subseteq Day
    /\ work \in [Day -> [offered : Nat, answered : Nat, sound : BOOLEAN]]
    /\ late \in [Day -> Nat]

\* The launch has the claim of its day.
Claimant(a) == a.pc \notin {"idle", "claim"}

\* A launch knows a scan of its day; one with the claim of its day is the running session of
\* that day, accounts for every request, and has reserved what it is about to send.
Sound(a) ==
    /\ a.pc # "idle" => a.day \in Day /\ a.scan \in 1..Len(scans) /\ scans[a.scan] = a.day
    /\ Claimant(a) =>
          /\ runs[a.day] = [status |-> "running", scan |-> a.scan] /\ a.day \notin over
          /\ ~a.incomplete => /\ work[a.day].sound
                              /\ work[a.day].answered + Len(a.todo) = work[a.day].offered
    /\ a.pc \in {"persist", "finish"} => a.todo = <<>>
    /\ a.pc \in {"reserve", "guard", "transmit", "await"} => a.todo # <<>>
    /\ a.pc \in {"guard", "transmit"} =>
          late[a.day] = 0 /\ Within(Plus(sent[a.day], Head(a.todo)), reserved[a.day])

DaySound(d) ==
    /\ late[d] <= 1 /\ (late[d] # 0 => runs[d].status # "none" /\ runs[d].scan < Len(scans))
    /\ runs[d].status = "complete" => work[d].sound /\ work[d].answered = work[d].offered
    /\ Within(sent[d], reserved[d]) /\ Within(reserved[d], Cap)
    /\ d \in over => runs[d].status # "none"

AdvisoryInv ==
    /\ AdvisoryType
    /\ \A p \in Run : Sound(adv[p])
    /\ \A p, q \in Run : Claimant(adv[p]) /\ Claimant(adv[q]) /\ adv[p].day = adv[q].day => p = q
    /\ \A d \in Day : DaySound(d)

-----------------------------------------------------------------------------
(* Amounts. *)

\* A sum is an amount, no smaller than its parts.
LEMMA PlusType ==
    ASSUME NEW a \in Amount, NEW b \in Amount
    PROVE  Plus(a, b) \in Amount /\ Within(a, Plus(a, b)) /\ Within(b, Plus(a, b))
  BY DEF Plus, Amount, Within

\* Adding the same to both keeps one amount within another.
LEMMA WithinPlus ==
    ASSUME NEW a \in Amount, NEW b \in Amount, NEW c \in Amount, Within(a, b)
    PROVE  Within(Plus(a, c), Plus(b, c))
  BY DEF Plus, Amount, Within

\* What is within is so of all that is larger.
LEMMA WithinTrans ==
    ASSUME NEW a \in Amount, NEW b \in Amount, NEW c \in Amount, Within(a, b), Within(b, c)
    PROVE  Within(a, c)
  BY DEF Amount, Within

\* A request counts in every budget.
LEMMA RequestType ==
    ASSUME NEW t \in Requests, t # <<>>
    PROVE  /\ Head(t) \in Amount /\ Tail(t) \in Requests /\ Len(Tail(t)) + 1 = Len(t)
           /\ \A a \in Amount : Plus(a, Head(t)) # a
<1>1. Head(t) \in [Dim -> Nat \ {0}] /\ Tail(t) \in Requests /\ Len(Tail(t)) + 1 = Len(t)
  BY DEF Requests
<1>2. ASSUME NEW a \in Amount
      PROVE  Plus(a, Head(t)) # a
  <2>1. PICK k \in Dim : TRUE
    BY AdvisoryAssumption
  <2>2. Plus(a, Head(t))[k] # a[k]
    BY <1>1, <2>1 DEF Plus, Amount
  <2> QED
    BY <2>2
<1> QED
  BY <1>1, <1>2 DEF Amount

-----------------------------------------------------------------------------
(* Steps of a launch. *)

\* A step that changes what a launch remembers, and nothing else.
LEMMA Moves ==
    ASSUME AdvisoryInv, NEW p \in Run, NEW r \in LaunchType, Becomes(p, r), Sound(r),
           Claimant(r) => Claimant(adv[p]) /\ r.day = adv[p].day,
           UNCHANGED <<today, store, history>>
    PROVE  AdvisoryInv'
<1>1. adv' \in [Run -> LaunchType] /\ adv'[p] = r /\ \A q \in Run \ {p} : adv'[q] = adv[q]
  BY DEF Becomes, AdvisoryInv, AdvisoryType
<1>2. UNCHANGED <<today, scans, cycles, completed, runs, reserved, sent, over, work, late>>
  BY DEF store, history
<1>3. AdvisoryType'
  BY <1>1, <1>2 DEF AdvisoryInv, AdvisoryType
<1>4. \A q \in Run : Sound(adv[q])'
  BY <1>1, <1>2 DEF AdvisoryInv, Sound, Claimant
<1>5. \A d \in Day : DaySound(d)'
  BY <1>2 DEF AdvisoryInv, DaySound
<1> QED
  BY <1>1, <1>3, <1>4, <1>5 DEF AdvisoryInv, Claimant

\* A launch at rest knows nothing.
LEMMA IdleType == Idle \in LaunchType /\ Sound(Idle) /\ ~Claimant(Idle)
  BY DEF Idle, LaunchType, Labels, Requests, Sound, Claimant

\* A request that is given up leaves the report incomplete.
LEMMA GivesUp ==
    ASSUME AdvisoryInv, NEW p \in Run, NEW fatal \in BOOLEAN, RequestFails(p, fatal),
           adv[p].pc \in {"reserve", "guard", "transmit", "await"},
           UNCHANGED <<today, store, history>>
    PROVE  AdvisoryInv'
<1> DEFINE a == adv[p]
           c == a.circuit \/ fatal \/ a.failures + 1 >= BreakerFailures
           r == [a EXCEPT !.pc = "next", !.incomplete = TRUE, !.todo = Tail(a.todo),
                          !.failures = a.failures + 1, !.circuit = c]
<1>1. a \in LaunchType /\ Sound(a) /\ Claimant(a)
  BY DEF AdvisoryInv, AdvisoryType, Claimant
<1>2. a.todo \in Requests /\ a.todo # <<>>
  BY <1>1 DEF LaunchType, Sound
<1>3. r \in LaunchType
  <2>1. Tail(a.todo) \in Requests
    BY <1>2, RequestType
  <2>2. c \in BOOLEAN /\ a.failures + 1 \in Nat
    BY <1>1 DEF LaunchType
  <2> DEFINE n == a.failures + 1
  <2> HIDE DEF a, c, n
  <2> QED
    BY <1>1, <2>1, <2>2 DEF LaunchType, Labels, n
<1>4. Sound(r) /\ Claimant(r) /\ r.day = a.day
  <2> HIDE DEF a, c
  <2> QED
    BY <1>1 DEF Sound, Claimant, LaunchType
<1>5. Becomes(p, r)
  BY DEF RequestFails
<1> QED
  BY <1>1, <1>3, <1>4, <1>5, Moves

\* The steps that neither claim, reserve nor send keep the invariant.
LEMMA LocalSteps ==
    ASSUME AdvisoryInv, NEW p \in Run,
           Read(p) \/ Key(p) \/ NextBatch(p) \/ Guard(p) \/ Retried(p) \/ Rejected(p) \/ Persist(p)
    PROVE  AdvisoryInv'
<1> DEFINE a == adv[p]
<1>0. a \in LaunchType /\ Sound(a)
  BY DEF AdvisoryInv, AdvisoryType
<1>1. CASE Read(p)
  <2> DEFINE s == completed[today]
  <2>1. PICK offer \in Offers \cup {<<>>}, partial \in BOOLEAN :
           Becomes(p, [Idle EXCEPT !.pc = "claim", !.day = today, !.scan = s,
                                   !.todo = offer, !.incomplete = partial])
    BY <1>1 DEF Read
  <2> DEFINE r == [Idle EXCEPT !.pc = "claim", !.day = today, !.scan = s, !.todo = offer,
                               !.incomplete = partial]
  <2>2. Bound(s)
    BY <1>1 DEF Read
  <2>3. today \in Day /\ today \in Nat /\ s \in 0..Len(scans)
    BY AdvisoryAssumption DEF AdvisoryInv, AdvisoryType, Day
  <2>4. s \in 1..Len(scans) /\ s \in Nat /\ scans[s] = today
    <3>1. Len(scans) \in Nat
      BY DEF AdvisoryInv, AdvisoryType
    <3> HIDE DEF s
    <3> QED
      BY <2>2, <2>3, <3>1 DEF Bound
  <2>5. offer \in Requests
    <3>1. CASE offer = <<>>
      BY <3>1 DEF Requests
    <3>2. CASE offer \in Offers
      BY <3>2, AdvisoryAssumption DEF Requests
    <3> QED
      BY <3>1, <3>2
  <2>6. r \in LaunchType /\ Sound(r) /\ ~Claimant(r)
    <3> HIDE DEF s
    <3> QED
      BY <2>3, <2>4, <2>5, IdleType DEF LaunchType, Labels, Sound, Claimant
  <2>7. Becomes(p, r)
    BY <2>1
  <2> HIDE DEF r
  <2> QED
    BY <1>1, <2>6, <2>7, Moves DEF Read
<1>2. CASE Key(p) \/ Persist(p) \/ Retried(p)
  <2>1. PICK r : /\ Becomes(p, r) /\ Claimant(a)
                 /\ \/ a.pc = "key" /\ r = [a EXCEPT !.pc = "next"]
                    \/ a.pc = "key" /\ r = [a EXCEPT !.pc = "finishBlocked"]
                    \/ /\ a.pc = "persist"
                       /\ \E u \in BOOLEAN : /\ a.incomplete => u
                                            /\ r = [a EXCEPT !.pc = "finish", !.incomplete = u]
                    \/ a.pc \in {"guard", "transmit", "await"} /\ r = [a EXCEPT !.pc = "reserve", !.tries = a.tries + 1]
    BY <1>2 DEF Key, Persist, Retried, Goto, At, InFlight, Claimant
  <2>2. a.tries + 1 \in Nat
    BY <1>0 DEF LaunchType
  <2>3. r \in LaunchType
    <3> DEFINE n == a.tries + 1
    <3> HIDE DEF a, n
    <3> QED
      BY <1>0, <2>1, <2>2 DEF LaunchType, Labels, n
  <2>4. Sound(r) /\ r.day = a.day
    <3> HIDE DEF a
    <3> QED
      BY <1>0, <2>1 DEF LaunchType, Sound, Claimant
  <2> QED
    BY <1>2, <2>1, <2>3, <2>4, Moves DEF Key, Persist, Retried
<1>3. CASE NextBatch(p)
  <2> DEFINE r == IF a.todo = <<>> THEN [a EXCEPT !.pc = "persist"]
                  ELSE IF a.circuit THEN [a EXCEPT !.todo = Tail(a.todo), !.incomplete = TRUE]
                  ELSE [a EXCEPT !.pc = "reserve", !.tries = 0]
  <2>1. Becomes(p, r) /\ a.pc = "next"
    BY <1>3 DEF NextBatch, At
  <2>2. a.todo \in Requests /\ (a.todo # <<>> => Tail(a.todo) \in Requests)
    BY <1>0, RequestType DEF LaunchType
  <2>3. r \in LaunchType /\ Sound(r) /\ Claimant(a) /\ r.day = a.day
    <3> HIDE DEF a
    <3> QED
      BY <1>0, <2>1, <2>2 DEF LaunchType, Labels, Sound, Claimant
  <2> HIDE DEF r
  <2> QED
    BY <1>3, <2>1, <2>3, Moves DEF NextBatch
<1>4. CASE Guard(p)
  <2>1. CASE a.day = today
    <3> DEFINE r == [a EXCEPT !.pc = "transmit"]
    <3>1. Becomes(p, r) /\ a.pc = "guard"
      BY <1>4, <2>1 DEF Guard, Goto, At
    <3>2. r \in LaunchType /\ Sound(r) /\ Claimant(a) /\ r.day = a.day
      <4> HIDE DEF a
      <4> QED
        BY <1>0, <3>1 DEF LaunchType, Labels, Sound, Claimant
    <3> HIDE DEF r
    <3> QED
      BY <1>4, <3>1, <3>2, Moves DEF Guard
  <2>2. CASE a.day # today
    BY <1>4, <2>2, GivesUp DEF Guard, At
  <2> QED
    BY <2>1, <2>2
<1>5. CASE Rejected(p)
  BY <1>5, GivesUp DEF Rejected, InFlight
<1> QED
  BY <1>1, <1>2, <1>3, <1>4, <1>5

-----------------------------------------------------------------------------
(* Steps on the row, the reservations or the evidence of one day. *)

\* A step that writes the rows of one day, which no other launch has, disturbs no other day.
LEMMA OneDay ==
    ASSUME AdvisoryInv, AdvisoryType', UNCHANGED scans, NEW p \in Run, NEW d \in Day,
           \A q \in Run \ {p} : adv'[q] = adv[q] /\ (Claimant(adv[q]) => adv[q].day # d),
           \A e \in Day \ {d} : /\ runs'[e] = runs[e] /\ work'[e] = work[e] /\ late'[e] = late[e]
                                /\ sent'[e] = sent[e] /\ reserved'[e] = reserved[e]
                                /\ (e \in over' <=> e \in over),
           Sound(adv[p])', Claimant(adv'[p]) => adv'[p].day = d, DaySound(d)'
    PROVE  AdvisoryInv'
<1>1. \A q \in Run : Sound(adv[q])'
  <2> TAKE q \in Run
  <2>1. CASE q = p
    BY <2>1
  <2>2. CASE q # p
    BY <2>2 DEF AdvisoryInv, Sound, Claimant
  <2> QED
    BY <2>1, <2>2
<1>2. \A e \in Day : DaySound(e)'
  BY DEF AdvisoryInv, DaySound
<1>3. \A q, s \in Run : Claimant(adv[q])' /\ Claimant(adv[s])' /\ adv'[q].day = adv'[s].day => q = s
  BY DEF AdvisoryInv, Claimant
<1> QED
  BY <1>1, <1>2, <1>3 DEF AdvisoryInv

\* A claim gives a launch the running row of its day, which nobody has.
LEMMA ClaimStep ==
    ASSUME AdvisoryInv, NEW p \in Run, Claim(p)
    PROVE  AdvisoryInv'
<1> DEFINE a == adv[p]
           d == a.day
<1>1. a \in LaunchType /\ Sound(a) /\ a.pc = "claim" /\ ~Claimant(a)
  BY DEF AdvisoryInv, AdvisoryType, Claim, At, Claimant
<1>2. CASE ~Claims(a)
  <2>1. Becomes(p, Idle) /\ UNCHANGED <<today, store, history>>
    BY <1>2 DEF Claim, store, history
  <2> QED
    BY <2>1, IdleType, Moves
<1>3. CASE Claims(a)
  <2> DEFINE l == IF a.todo = <<>> THEN "finish" ELSE "key"
  <2>1. /\ runs' = [runs EXCEPT ![d] = [status |-> "running", scan |-> a.scan]]
        /\ work' = [work EXCEPT ![d] = [offered |-> Len(a.todo), answered |-> 0, sound |-> ~a.incomplete]]
        /\ adv' = [adv EXCEPT ![p] = [a EXCEPT !.pc = l]]
        /\ UNCHANGED <<today, scans, cycles, completed, reserved, sent, over, late>>
    BY <1>3 DEF Claim, Goto, Becomes
  <2>2. d \in Day /\ runs[d].status = "none" /\ a.scan \in 1..Len(scans)
    BY <1>1, <1>3 DEF Claims, Sound
  <2>3. [a EXCEPT !.pc = l] \in LaunchType
    BY <1>1 DEF LaunchType, Labels
  <2>4. AdvisoryType'
    <3>1. Len(a.todo) \in Nat /\ a.scan \in Nat
      BY <1>1 DEF LaunchType, Requests
    <3>2. runs' \in [Day -> [status : Status, scan : Nat]]
      BY <2>1, <3>1 DEF AdvisoryInv, AdvisoryType, Status
    <3>3. work' \in [Day -> [offered : Nat, answered : Nat, sound : BOOLEAN]]
      <4> DEFINE ok == ~a.incomplete
      <4>1. ok \in BOOLEAN
        OBVIOUS
      <4> HIDE DEF ok
      <4> QED
        BY <2>1, <3>1, <4>1 DEF AdvisoryInv, AdvisoryType, ok
    <3>4. adv' \in [Run -> LaunchType]
      BY <2>1, <2>3 DEF AdvisoryInv, AdvisoryType
    <3> QED
      BY <2>1, <3>2, <3>3, <3>4 DEF AdvisoryInv, AdvisoryType
  <2>5. /\ adv'[p].pc = l /\ adv'[p].day = d /\ adv'[p].scan = a.scan /\ adv'[p].todo = a.todo
        /\ adv'[p].incomplete = a.incomplete
        /\ runs'[d] = [status |-> "running", scan |-> a.scan]
        /\ work'[d] = [offered |-> Len(a.todo), answered |-> 0, sound |-> ~a.incomplete]
    BY <1>1, <2>1, <2>2 DEF AdvisoryInv, AdvisoryType, LaunchType
  <2>6. d \notin over /\ late[d] = 0
    BY <2>2 DEF AdvisoryInv, AdvisoryType, DaySound
  <2>7. Sound(adv[p])'
    <3>1. Len(a.todo) \in Nat
      BY <1>1 DEF LaunchType, Requests
    <3>2. ~adv'[p].incomplete => work'[d].sound /\ work'[d].answered + Len(adv'[p].todo) = work'[d].offered
      <4> DEFINE ok == ~a.incomplete
      <4>1. work'[d].sound = ok /\ work'[d].answered = 0 /\ work'[d].offered = Len(a.todo)
        <5>1. work'[d] = [offered |-> Len(a.todo), answered |-> 0, sound |-> ok]
          BY <2>5
        <5> HIDE DEF ok
        <5> QED
          BY <5>1
      <4>2. ok => work'[d].sound
        <5> HIDE DEF ok
        <5> QED
          BY <4>1
      <4>3. work'[d].answered + Len(adv'[p].todo) = work'[d].offered
        BY <2>5, <3>1, <4>1
      <4> QED
        BY <2>5, <4>2, <4>3
    <3>3. adv'[p].pc # "idle" => adv'[p].day \in Day /\ adv'[p].scan \in 1..Len(scans) /\ scans[adv'[p].scan] = adv'[p].day
      BY <1>1, <2>2, <2>5 DEF Sound
    <3> HIDE DEF a
    <3> QED
      BY <2>1, <2>5, <2>6, <3>2, <3>3 DEF Sound, Claimant
  <2>8. \A e \in Day : e = d => DaySound(e)'
    <3> SUFFICES ASSUME NEW e \in Day, e = d PROVE DaySound(e)'
      OBVIOUS
    <3>1. Within(sent[e], reserved[e])' /\ Within(reserved[e], Cap)'
      BY <2>1, <2>2 DEF AdvisoryInv, DaySound, Within
    <3>2. runs'[e].status = "running" /\ late'[e] = 0 /\ e \notin over'
      BY <2>1, <2>5, <2>6
    <3> QED
      BY <3>1, <3>2 DEF DaySound
  <2>9. \A q \in Run \ {p} : adv'[q] = adv[q] /\ (Claimant(adv[q]) => adv[q].day # d)
    <3> TAKE q \in Run \ {p}
    <3>1. adv'[q] = adv[q]
      BY <2>1 DEF AdvisoryInv, AdvisoryType
    <3>2. Claimant(adv[q]) => runs[adv[q].day] = [status |-> "running", scan |-> adv[q].scan]
      BY DEF AdvisoryInv, Sound
    <3> QED
      BY <2>2, <3>1, <3>2
  <2>10. \A e \in Day \ {d} : runs'[e] = runs[e] /\ work'[e] = work[e]
    BY <2>1 DEF AdvisoryInv, AdvisoryType
  <2>11. PICK e \in Day : e = d
    BY <2>2
  <2>12. Claimant(adv'[p]) => adv'[p].day = e
    BY <2>5, <2>11
  <2>13. DaySound(e)'
    BY <2>8, <2>11
  <2> QED
    BY <2>1, <2>4, <2>7, <2>9, <2>10, <2>11, <2>12, <2>13, OneDay
<1> QED
  BY <1>2, <1>3

\* The other claimants have days of their own.
LEMMA OthersElsewhere ==
    ASSUME AdvisoryInv, NEW p \in Run, Claimant(adv[p]), NEW r, Becomes(p, r)
    PROVE  /\ adv'[p] = r
           /\ \A q \in Run \ {p} : adv'[q] = adv[q] /\ (Claimant(adv[q]) => adv[q].day # adv[p].day)
  BY DEF AdvisoryInv, AdvisoryType, Becomes

\* A reservation is within the cap, and of what comes next.
LEMMA ReserveStep ==
    ASSUME AdvisoryInv, NEW p \in Run, Reserve(p)
    PROVE  AdvisoryInv'
<1> DEFINE a == adv[p]
           d == a.day
           amount == Head(a.todo)
<1>1. a \in LaunchType /\ Sound(a) /\ a.pc = "reserve" /\ Claimant(a)
  BY DEF AdvisoryInv, AdvisoryType, Reserve, At, Claimant
<1>2. CASE ~Admits(a, amount)
  BY <1>1, <1>2, GivesUp DEF Reserve, store
<1>3. CASE Admits(a, amount)
  <2>1. /\ reserved' = [reserved EXCEPT ![d] = Plus(reserved[d], amount)]
        /\ Becomes(p, [a EXCEPT !.pc = "guard"])
        /\ UNCHANGED <<today, scans, cycles, completed, runs, sent, over, work, late>>
    BY <1>3 DEF Reserve, Goto, history
  <2>2. d \in Day /\ a.scan = Len(scans) /\ runs[d] = [status |-> "running", scan |-> a.scan]
    BY <1>1, <1>3 DEF Admits, StillLatest, Latest, Sound
  <2>3. a.todo \in Requests /\ a.todo # <<>>
    BY <1>1 DEF LaunchType, Sound
  <2>4. /\ amount \in Amount /\ reserved[d] \in Amount /\ sent[d] \in Amount
        /\ Plus(reserved[d], amount) \in Amount /\ Cap \in Amount
    BY <2>2, <2>3, RequestType, PlusType, AdvisoryAssumption DEF AdvisoryInv, AdvisoryType
  <2>5. [a EXCEPT !.pc = "guard"] \in LaunchType
    BY <1>1 DEF LaunchType, Labels
  <2>6. AdvisoryType'
    BY <2>1, <2>2, <2>4, <2>5 DEF AdvisoryInv, AdvisoryType, Becomes
  <2>7. reserved'[d] = Plus(reserved[d], amount) /\ \A e \in Day \ {d} : reserved'[e] = reserved[e]
    BY <2>1, <2>2 DEF AdvisoryInv, AdvisoryType
  <2>8. late[d] = 0
    BY <2>2 DEF AdvisoryInv, AdvisoryType, DaySound
  <2>9. Within(Plus(sent[d], amount), Plus(reserved[d], amount))
    BY <2>2, <2>4, WithinPlus DEF AdvisoryInv, DaySound
  <2>10. \A e \in Day : e = d => DaySound(e)'
    <3> SUFFICES ASSUME NEW e \in Day, e = d PROVE DaySound(e)'
      OBVIOUS
    <3>1. Within(sent[d], Plus(reserved[d], amount))
      BY <2>2, <2>4, PlusType, WithinTrans DEF AdvisoryInv, DaySound
    <3>2. Within(Plus(reserved[d], amount), Cap)
      BY <1>3 DEF Admits
    <3>3. Within(sent[e], reserved[e])' /\ Within(reserved[e], Cap)'
      BY <2>1, <2>7, <3>1, <3>2 DEF Within
    <3>4. runs'[e].status = "running" /\ late'[e] = 0
      BY <2>1, <2>2, <2>8
    <3> QED
      BY <3>3, <3>4 DEF DaySound
  <2>11. /\ adv'[p] = [a EXCEPT !.pc = "guard"]
         /\ \A q \in Run \ {p} : adv'[q] = adv[q] /\ (Claimant(adv[q]) => adv[q].day # d)
    BY <1>1, <2>1, OthersElsewhere
  <2>12. /\ adv'[p].pc = "guard" /\ adv'[p].day = d /\ adv'[p].scan = a.scan
         /\ adv'[p].todo = a.todo /\ adv'[p].incomplete = a.incomplete
    BY <1>1, <2>11 DEF LaunchType
  <2>13. Sound(adv[p])'
    <3> HIDE DEF a
    <3> QED
      BY <1>1, <2>1, <2>2, <2>7, <2>8, <2>9, <2>12 DEF Sound, Claimant, Within, Plus
  <2> QED
    BY <2>1, <2>2, <2>6, <2>7, <2>10, <2>11, <2>12, <2>13, OneDay
<1> QED
  BY <1>2, <1>3

\* What is sent was reserved, and is late at most once.
LEMMA TransmitStep ==
    ASSUME AdvisoryInv, NEW p \in Run, Transmit(p)
    PROVE  AdvisoryInv'
<1> DEFINE a == adv[p]
           d == a.day
           amount == Head(a.todo)
<1>1. a \in LaunchType /\ Sound(a) /\ a.pc = "transmit" /\ Claimant(a)
  BY DEF AdvisoryInv, AdvisoryType, Transmit, At, Claimant
<1>2. CASE ~InTime(a)
  BY <1>1, <1>2, GivesUp DEF Transmit, history
<1>3. CASE InTime(a)
  <2>1. /\ sent' = [sent EXCEPT ![d] = Plus(sent[d], amount)]
        /\ late' = IF a.scan = Latest THEN late ELSE [late EXCEPT ![d] = late[d] + 1]
        /\ Becomes(p, [a EXCEPT !.pc = "await"])
        /\ UNCHANGED <<today, scans, cycles, completed, runs, reserved, over, work>>
    BY <1>3 DEF Transmit, InTime, Goto, store
  <2>2. /\ d \in Day /\ a.scan \in 1..Len(scans) /\ runs[d] = [status |-> "running", scan |-> a.scan]
        /\ late[d] = 0 /\ Within(Plus(sent[d], amount), reserved[d])
    BY <1>1 DEF Sound
  <2>3. a.todo \in Requests /\ a.todo # <<>>
    BY <1>1 DEF LaunchType, Sound
  <2>4. Plus(sent[d], amount) \in Amount
    BY <2>2, <2>3, RequestType, PlusType DEF AdvisoryInv, AdvisoryType
  <2>5. [a EXCEPT !.pc = "await"] \in LaunchType
    BY <1>1 DEF LaunchType, Labels
  <2>6. AdvisoryType'
    <3>1. late' \in [Day -> Nat]
      <4>1. late \in [Day -> Nat] /\ late[d] + 1 \in Nat
        BY <2>2 DEF AdvisoryInv, AdvisoryType
      <4>2. late' = late \/ late' = [late EXCEPT ![d] = late[d] + 1]
        BY <2>1
      <4> QED
        BY <4>1, <4>2
    <3>2. sent' \in [Day -> Amount] /\ adv' \in [Run -> LaunchType]
      BY <2>1, <2>2, <2>4, <2>5 DEF AdvisoryInv, AdvisoryType, Becomes
    <3> QED
      BY <2>1, <3>1, <3>2 DEF AdvisoryInv, AdvisoryType
  <2>7. /\ sent'[d] = Plus(sent[d], amount) /\ late'[d] \in {0, 1}
        /\ late'[d] # 0 => a.scan # Len(scans)
        /\ \A e \in Day \ {d} : sent'[e] = sent[e] /\ late'[e] = late[e]
    <3>1. sent \in [Day -> Amount] /\ late \in [Day -> Nat]
      BY DEF AdvisoryInv, AdvisoryType
    <3>2. CASE a.scan = Latest
      BY <2>1, <2>2, <3>1, <3>2
    <3>3. CASE a.scan # Latest
      BY <2>1, <2>2, <3>1, <3>3 DEF Latest
    <3> QED
      BY <3>2, <3>3
  <2>8. \A e \in Day : e = d => DaySound(e)'
    <3> SUFFICES ASSUME NEW e \in Day, e = d PROVE DaySound(e)'
      OBVIOUS
    <3>1. Len(scans) \in Nat
      BY DEF AdvisoryInv, AdvisoryType
    <3>2. a.scan # Len(scans) => a.scan < Len(scans)
      BY <2>2, <3>1
    <3>3. Within(sent[e], reserved[e])' /\ Within(reserved[e], Cap)'
      BY <2>1, <2>2, <2>7 DEF AdvisoryInv, DaySound, Within
    <3>4. /\ runs'[e].status = "running" /\ runs'[e].scan = a.scan
          /\ late'[e] \in {0, 1} /\ (late'[e] # 0 => a.scan < Len(scans))
      BY <2>1, <2>2, <2>7, <3>2
    <3> HIDE DEF a
    <3> QED
      BY <2>1, <3>3, <3>4 DEF DaySound
  <2>9. /\ adv'[p] = [a EXCEPT !.pc = "await"]
        /\ \A q \in Run \ {p} : adv'[q] = adv[q] /\ (Claimant(adv[q]) => adv[q].day # d)
    BY <1>1, <2>1, OthersElsewhere
  <2>10. /\ adv'[p].pc = "await" /\ adv'[p].day = d /\ adv'[p].scan = a.scan
         /\ adv'[p].todo = a.todo /\ adv'[p].incomplete = a.incomplete
    BY <1>1, <2>9 DEF LaunchType
  <2>11. Sound(adv[p])'
    <3> HIDE DEF a
    <3> QED
      BY <1>1, <2>1, <2>2, <2>10 DEF Sound, Claimant
  <2> QED
    BY <2>1, <2>2, <2>6, <2>7, <2>8, <2>9, <2>10, <2>11, OneDay
<1> QED
  BY <1>2, <1>3

\* So does an answer, which completes its request.
LEMMA AnsweredStep ==
    ASSUME AdvisoryInv, NEW p \in Run, Answered(p)
    PROVE  AdvisoryInv'
<1> DEFINE a == adv[p]
           d == a.day
<1>1. a \in LaunchType /\ Sound(a) /\ a.pc = "await" /\ Claimant(a)
  BY DEF AdvisoryInv, AdvisoryType, Answered, At, Claimant
<1>2. d \in Day /\ runs[d] = [status |-> "running", scan |-> a.scan]
  BY <1>1 DEF Sound
<1>3. a.todo \in Requests /\ Tail(a.todo) \in Requests /\ Len(Tail(a.todo)) + 1 = Len(a.todo)
  BY <1>1, RequestType DEF LaunchType, Sound
<1> DEFINE r == [a EXCEPT !.pc = "next", !.todo = Tail(a.todo), !.failures = 0]
<1>4. r \in LaunchType
  <2> HIDE DEF a
  <2> QED
    BY <1>1, <1>3 DEF LaunchType, Labels
<1>5. /\ work' = [work EXCEPT ![d].answered = @ + 1] /\ Becomes(p, r)
      /\ UNCHANGED <<today, scans, cycles, completed, runs, reserved, sent, over, late>>
  BY DEF Answered, store
<1>6. /\ work'[d].answered = work[d].answered + 1 /\ work'[d].offered = work[d].offered
      /\ work'[d].sound = work[d].sound /\ \A e \in Day \ {d} : work'[e] = work[e]
      /\ work' \in [Day -> [offered : Nat, answered : Nat, sound : BOOLEAN]]
  <2>1. work \in [Day -> [offered : Nat, answered : Nat, sound : BOOLEAN]]
    BY DEF AdvisoryInv, AdvisoryType
  <2>2. work' = [work EXCEPT ![d] = [work[d] EXCEPT !.answered = work[d].answered + 1]]
    BY <1>5
  <2>3. [work[d] EXCEPT !.answered = work[d].answered + 1] \in [offered : Nat, answered : Nat, sound : BOOLEAN]
    BY <1>2, <2>1
  <2> QED
    BY <1>2, <2>1, <2>2, <2>3
<1>7. AdvisoryType'
  <2> HIDE DEF r
  <2> QED
    BY <1>4, <1>5, <1>6 DEF AdvisoryInv, AdvisoryType, Becomes
<1>8. adv'[p] = r /\ \A q \in Run \ {p} : adv'[q] = adv[q] /\ (Claimant(adv[q]) => adv[q].day # d)
  BY <1>1, <1>5, OthersElsewhere
<1>9. /\ adv'[p].pc = "next" /\ adv'[p].day = d /\ adv'[p].scan = a.scan
      /\ adv'[p].todo = Tail(a.todo) /\ adv'[p].incomplete = a.incomplete
  BY <1>1, <1>8 DEF LaunchType
<1>10. Sound(adv[p])'
  <2>1. ~a.incomplete => work'[d].answered + Len(Tail(a.todo)) = work'[d].offered
    <3>1. work[d].answered \in Nat
      BY <1>2 DEF AdvisoryInv, AdvisoryType
    <3>2. Len(Tail(a.todo)) \in Nat /\ Len(a.todo) \in Nat
      BY <1>3 DEF Requests
    <3>3. ~a.incomplete => work[d].answered + Len(a.todo) = work[d].offered
      BY <1>1 DEF Sound
    <3> QED
      BY <1>3, <1>6, <3>1, <3>2, <3>3
  <2>2. ~a.incomplete => work'[d].sound
    BY <1>1, <1>6 DEF Sound
  <2>3. a.scan \in 1..Len(scans) /\ scans[a.scan] = d /\ d \notin over
    BY <1>1 DEF Sound
  <2> HIDE DEF a
  <2> QED
    BY <1>2, <1>5, <1>9, <2>1, <2>2, <2>3 DEF Sound, Claimant
<1>11. \A e \in Day : e = d => DaySound(e)'
  <2> SUFFICES ASSUME NEW e \in Day, e = d PROVE DaySound(e)'
    OBVIOUS
  <2>1. DaySound(e) /\ runs'[e].status = "running"
    BY <1>2, <1>5 DEF AdvisoryInv
  <2> QED
    BY <1>5, <2>1 DEF DaySound, Within
<1> QED
  BY <1>2, <1>5, <1>6, <1>7, <1>8, <1>9, <1>10, <1>11, OneDay

\* The end of a launch, with its report or without.
LEMMA EndStep ==
    ASSUME AdvisoryInv, NEW p \in Run, Finish(p) \/ Dies(p)
    PROVE  AdvisoryInv'
<1> DEFINE a == adv[p]
           d == a.day
<1>1. a \in LaunchType /\ Sound(a)
  BY DEF AdvisoryInv, AdvisoryType
<1>2. CASE Dies(p) /\ a.pc = "claim"
  BY <1>2, IdleType, Moves DEF Dies, At, history
<1>3. CASE Finish(p) \/ (Dies(p) /\ a.pc # "claim")
  <2>1. Claimant(a) /\ Becomes(p, Idle) /\ over' = over \cup {d}
        /\ UNCHANGED <<today, scans, cycles, completed, reserved, sent, work, late>>
    BY <1>3 DEF Finish, Dies, At, Claimant, store
  <2>2. d \in Day /\ runs[d] = [status |-> "running", scan |-> a.scan]
    BY <1>1, <2>1 DEF Sound, Claimant
  <2>3. \/ UNCHANGED runs
        \/ \E s \in {"blocked", "incomplete"} : runs' = [runs EXCEPT ![d].status = s]
        \/ /\ runs' = [runs EXCEPT ![d].status = "complete"]
           /\ a.pc = "finish" /\ ~a.incomplete
    BY <1>3, <2>2 DEF Finish, Dies, At, store
  <2>4. /\ runs' \in [Day -> [status : Status, scan : Nat]] /\ runs'[d].scan = a.scan
        /\ runs'[d].status \in {"running", "blocked", "incomplete", "complete"}
        /\ runs'[d].status = "complete" => a.pc = "finish" /\ ~a.incomplete
        /\ \A e \in Day \ {d} : runs'[e] = runs[e]
    <3>1. runs \in [Day -> [status : Status, scan : Nat]]
      BY DEF AdvisoryInv, AdvisoryType
    <3> QED
      BY <2>2, <2>3, <3>1 DEF Status
  <2>5. AdvisoryType'
    BY <2>1, <2>2, <2>4, IdleType DEF AdvisoryInv, AdvisoryType, Becomes
  <2>6. adv'[p] = Idle /\ \A q \in Run \ {p} : adv'[q] = adv[q] /\ (Claimant(adv[q]) => adv[q].day # d)
    BY <2>1, OthersElsewhere
  <2>7. Sound(adv[p])' /\ ~Claimant(adv'[p])
    BY <2>6 DEF Sound, Claimant, Idle
  <2>8. runs'[d].status = "complete" => work[d].sound /\ work[d].answered = work[d].offered
    <3> SUFFICES ASSUME runs'[d].status = "complete"
                 PROVE  work[d].sound /\ work[d].answered = work[d].offered
      OBVIOUS
    <3>1. a.todo = <<>> /\ Len(a.todo) = 0 /\ work[d].sound
          /\ work[d].answered + Len(a.todo) = work[d].offered
      BY <1>1, <2>1, <2>4 DEF Sound
    <3>2. work[d].answered \in Nat
      BY <2>2 DEF AdvisoryInv, AdvisoryType
    <3>3. work[d].answered + 0 = work[d].offered
      BY <3>1
    <3>4. work[d].answered = work[d].offered
      BY <3>2, <3>3
    <3> QED
      BY <3>1, <3>4
  <2>9. \A e \in Day : e = d => DaySound(e)'
    <3> SUFFICES ASSUME NEW e \in Day, e = d PROVE DaySound(e)'
      OBVIOUS
    <3>1. DaySound(e) /\ runs[e].scan = a.scan /\ runs[e].status = "running"
      BY <2>2 DEF AdvisoryInv
    <3>2. /\ runs'[e].scan = runs[e].scan /\ runs'[e].status # "none"
          /\ runs'[e].status = "complete" => work[e].sound /\ work[e].answered = work[e].offered
      BY <2>4, <2>8, <3>1
    <3>3. UNCHANGED <<work, late, sent, reserved, scans>>
      BY <2>1
    <3> QED
      BY <3>1, <3>2, <3>3 DEF DaySound, Within
  <2> QED
    BY <2>1, <2>2, <2>4, <2>5, <2>6, <2>7, <2>9, OneDay
<1> QED
  BY <1>2, <1>3

\* Scans are only appended.
ScansGrow ==
    /\ today' \in Day /\ scans' \in Seq(Day) /\ Len(scans') >= Len(scans)
    /\ \A i \in 1..Len(scans) : scans'[i] = scans[i]
    /\ cycles' \subseteq 1..Len(scans') /\ completed' \in [Day -> 0..Len(scans')]

\* The clock and the cycles.
LEMMA WorldStep ==
    ASSUME AdvisoryInv, Midnight \/ Cycles
    PROVE  AdvisoryInv'
<1>1. UNCHANGED <<runs, reserved, adv, sent, over, work, late>>
  BY DEF Midnight, Cycles, PersistScan, CycleStops, RecordCompletedCycle, store, history
<1>2. scans \in Seq(Day) /\ Len(scans) \in Nat /\ today \in Day
  BY DEF AdvisoryInv, AdvisoryType
<1>3. ScansGrow
  <2>1. cycles \subseteq 1..Len(scans) /\ completed \in [Day -> 0..Len(scans)]
    BY DEF AdvisoryInv, AdvisoryType
  <2>2. CASE Midnight
    BY <1>2, <2>1, <2>2, AdvisoryAssumption DEF Midnight, store, Day, ScansGrow
  <2>3. ASSUME NEW byCycle \in BOOLEAN, PersistScan(byCycle)
        PROVE  ScansGrow
    <3>1. /\ scans' = Append(scans, today) /\ UNCHANGED <<today, completed>>
          /\ cycles' \subseteq cycles \cup {Len(scans) + 1}
      BY <2>3 DEF PersistScan
    <3>2. /\ scans' \in Seq(Day) /\ Len(scans') = Len(scans) + 1
          /\ \A i \in 1..Len(scans) : scans'[i] = scans[i]
      BY <1>2, <3>1
    <3> QED
      BY <1>2, <2>1, <3>1, <3>2 DEF ScansGrow
  <2>4. ASSUME NEW s \in cycles, CycleStops(s) \/ RecordCompletedCycle(s)
        PROVE  ScansGrow
    <3>1. /\ UNCHANGED <<today, scans>> /\ cycles' \subseteq cycles
          /\ completed' = completed \/ completed' = [completed EXCEPT ![today] = s]
      BY <2>4 DEF CycleStops, RecordCompletedCycle
    <3> QED
      BY <1>2, <2>1, <3>1 DEF ScansGrow
  <2> QED
    BY <2>2, <2>3, <2>4 DEF Cycles
<1> USE DEF ScansGrow
<1>4. AdvisoryType'
  BY <1>1, <1>3 DEF AdvisoryInv, AdvisoryType
<1>5. \A p \in Run : Sound(adv[p])'
  <2> TAKE p \in Run
  <2>1. Sound(adv[p]) /\ adv'[p] = adv[p]
    BY <1>1 DEF AdvisoryInv
  <2>2. adv[p].pc # "idle" => adv[p].scan \in 1..Len(scans') /\ scans'[adv[p].scan] = adv[p].day
    <3>1. Len(scans') \in Nat
      BY <1>3
    <3> QED
      BY <1>2, <1>3, <2>1, <3>1 DEF Sound
  <2> QED
    BY <1>1, <2>1, <2>2 DEF Sound, Within, Plus
<1>6. \A d \in Day : DaySound(d)'
  <2> TAKE d \in Day
  <2>1. DaySound(d) /\ (late[d] # 0 => runs[d].scan \in Nat)
    BY DEF AdvisoryInv, AdvisoryType
  <2>2. late'[d] # 0 => runs'[d].scan < Len(scans')
    BY <1>1, <1>2, <1>3, <2>1 DEF DaySound
  <2> QED
    BY <1>1, <2>1, <2>2 DEF DaySound, Within
<1> QED
  BY <1>1, <1>4, <1>5, <1>6 DEF AdvisoryInv

\* Without a scan and a launch the invariant holds.
LEMMA AdvisoryInit == Init => AdvisoryInv
<1> SUFFICES ASSUME Init PROVE AdvisoryInv
  OBVIOUS
<1>1. 1 \in Day /\ Zero \in Amount /\ Within(Zero, Zero) /\ Within(Zero, Cap)
  BY AdvisoryAssumption DEF Day, Zero, Amount, Within
<1>2. AdvisoryType
  BY <1>1, IdleType DEF Init, AdvisoryType, Status
<1>3. \A p \in Run : adv[p] = Idle
  BY DEF Init
<1>4. \A d \in Day : DaySound(d)
  BY <1>1 DEF Init, DaySound
<1> QED
  BY <1>2, <1>3, <1>4, IdleType DEF AdvisoryInv

\* Every step keeps the invariant.
LEMMA AdvisoryStep == AdvisoryInv /\ [Next]_vars => AdvisoryInv'
<1> SUFFICES ASSUME AdvisoryInv, [Next]_vars PROVE AdvisoryInv'
  OBVIOUS
<1>1. CASE UNCHANGED vars
  BY <1>1 DEF vars, store, history, AdvisoryInv, AdvisoryType, Sound, DaySound, Claimant, Within, Plus
<1>2. CASE Midnight \/ Cycles
  BY <1>2, WorldStep
<1>3. ASSUME NEW p \in Run, Read(p) \/ Step(p) \/ Dies(p)
      PROVE  AdvisoryInv'
  BY <1>3, LocalSteps, ClaimStep, ReserveStep, TransmitStep, AnsweredStep, EndStep DEF Step
<1> QED
  BY <1>1, <1>2, <1>3 DEF Next

\* The invariant of every execution.
LEMMA AdvisoryHolds == Spec => []AdvisoryInv
  BY AdvisoryInit, AdvisoryStep, PTL DEF Spec

-----------------------------------------------------------------------------
(* Types: what a launch has left to send is the rest of one offer, and its retries end. *)

Bounded(a) == a.day \in 0..MaxDay /\ a.scan \in 0..MaxScan /\ a.todo \in Tails /\ a.tries \in 0..MaxRetries

BoundInv ==
    /\ Len(scans) <= MaxScan
    /\ \A p \in Run : Bounded(adv[p])
    /\ \A d \in Day : runs[d].scan \in 0..MaxScan

\* The rest of an offer is one, and so is the offer.
LEMMA TailOfOffer ==
    /\ \A o \in Offers \cup {<<>>} : o \in Tails
    /\ \A t \in Tails : t # <<>> => Tail(t) \in Tails
<1> DEFINE O == Offers \cup {<<>>}
<1>1. ASSUME NEW o \in O PROVE o \in Seq([Dim -> Nat \ {0}]) /\ Len(o) \in Nat
  <2>1. CASE o \in Offers
    BY <2>1, AdvisoryAssumption
  <2>2. CASE o = <<>>
    BY <2>2
  <2> QED
    BY <2>1, <2>2
<1>2. ASSUME NEW o \in O PROVE o \in Rests(o)
  <2>1. SubSeq(o, 1, Len(o)) = o /\ 1 \in 1..Len(o) + 1
    BY <1>1, SubSeqFull
  <2> QED
    BY <2>1 DEF Rests
<1>3. ASSUME NEW o \in O, NEW t \in Rests(o), t # <<>> PROVE Tail(t) \in Rests(o)
  <2>1. PICK i \in 1..Len(o) + 1 : t = SubSeq(o, i, Len(o))
    BY DEF Rests
  <2>2. i \in 1..Len(o)
    <3>1. i \in Int /\ Len(o) \in Int
      BY <1>1
    <3>2. ~(i > Len(o))
      BY <1>3, <2>1, <3>1, SubSeqEmpty
    <3> QED
      BY <1>1, <3>2
  <2>3. Tail(t) = SubSeq(o, i + 1, Len(o)) /\ i + 1 \in 1..Len(o) + 1
    BY <1>1, <2>1, <2>2, HeadTailOfSubSeq
  <2> QED
    BY <2>3 DEF Rests
<1> HIDE DEF O
<1>4. \A t : t \in Tails <=> \E o \in O : t \in Rests(o)
  BY DEF Tails, O
<1>5. \A o \in O : o \in Tails
  BY <1>2, <1>4
<1>6. ASSUME NEW t \in Tails, t # <<>> PROVE Tail(t) \in Tails
  <2>1. PICK o \in O : t \in Rests(o)
    BY <1>4
  <2> QED
    BY <1>3, <1>4, <1>6, <2>1
<1> QED
  BY <1>5, <1>6 DEF O

\* A step of a launch keeps its cycle and takes its requests one after another.
LEMMA LaunchGoesOn ==
    ASSUME AdvisoryInv, NEW p \in Run, Step(p) \/ Dies(p), NEW a, a = adv[p]
    PROVE  \/ adv' = [adv EXCEPT ![p] = Idle]
           \/ \E b : /\ adv' = [adv EXCEPT ![p] = b] /\ b.day = a.day /\ b.scan = a.scan
                     /\ b.todo = a.todo \/ (a.todo # <<>> /\ b.todo = Tail(a.todo))
                     /\ b.tries \in {0, a.tries} \/ (a.tries < MaxRetries /\ b.tries = a.tries + 1)
<1>1. a \in LaunchType /\ Sound(a)
  BY DEF AdvisoryInv, AdvisoryType
<1> DEFINE GoesOn(b) == /\ b.day = a.day /\ b.scan = a.scan
                        /\ b.todo = a.todo \/ (a.todo # <<>> /\ b.todo = Tail(a.todo))
                        /\ b.tries \in {0, a.tries} \/ (a.tries < MaxRetries /\ b.tries = a.tries + 1)
<1> SUFFICES (adv' = [adv EXCEPT ![p] = Idle]) \/ \E b : adv' = [adv EXCEPT ![p] = b] /\ GoesOn(b)
  OBVIOUS
<1>2. ASSUME NEW l, Goto(p, l) PROVE \E b : adv' = [adv EXCEPT ![p] = b] /\ GoesOn(b)
  <2>1. GoesOn([a EXCEPT !.pc = l])
    BY <1>1 DEF LaunchType
  <2> QED
    BY <1>2, <2>1 DEF Goto, Becomes
<1>3. ASSUME NEW fatal, RequestFails(p, fatal), a.pc \in {"reserve", "guard", "transmit", "await"}
      PROVE  \E b : adv' = [adv EXCEPT ![p] = b] /\ GoesOn(b)
  <2> DEFINE n == a.failures + 1
             c == a.circuit \/ fatal \/ a.failures + 1 >= BreakerFailures
             t == Tail(a.todo)
             b == [a EXCEPT !.pc = "next", !.incomplete = TRUE, !.todo = t, !.failures = n, !.circuit = c]
  <2>1. adv' = [adv EXCEPT ![p] = b]
    BY <1>3 DEF RequestFails, Becomes
  <2>2. a.todo # <<>>
    BY <1>1, <1>3 DEF Sound
  <2> HIDE DEF n, c, t
  <2>3. b.day = a.day /\ b.scan = a.scan /\ b.todo = t /\ b.tries = a.tries
    BY <1>1 DEF LaunchType
  <2> HIDE DEF b
  <2> QED
    BY <2>1, <2>2, <2>3 DEF t
<1>4. CASE Claim(p) \/ Key(p)
  BY <1>2, <1>4 DEF Claim, Key, Becomes
<1>5. CASE NextBatch(p)
  <2> DEFINE b == IF a.todo = <<>> THEN [a EXCEPT !.pc = "persist"]
                  ELSE IF a.circuit THEN [a EXCEPT !.todo = Tail(a.todo), !.incomplete = TRUE]
                  ELSE [a EXCEPT !.pc = "reserve", !.tries = 0]
  <2>1. adv' = [adv EXCEPT ![p] = b]
    BY <1>5 DEF NextBatch, Becomes
  <2>2. GoesOn(b)
    BY <1>1 DEF LaunchType
  <2> HIDE DEF b
  <2> QED
    BY <2>1, <2>2
<1>6. CASE Reserve(p)
  BY <1>2, <1>3, <1>6 DEF Reserve, At
<1>7. CASE Guard(p) \/ Transmit(p)
  BY <1>2, <1>3, <1>7 DEF Guard, Transmit, At
<1>8. CASE Answered(p)
  <2> DEFINE b == [a EXCEPT !.pc = "next", !.todo = Tail(a.todo), !.failures = 0]
  <2>1. adv' = [adv EXCEPT ![p] = b] /\ a.pc = "await"
    BY <1>8 DEF Answered, Becomes, At
  <2>2. GoesOn(b)
    BY <1>1, <2>1 DEF LaunchType, Sound
  <2> HIDE DEF b
  <2> QED
    BY <2>1, <2>2
<1>9. CASE Retried(p)
  <2> DEFINE n == a.tries + 1
             b == [a EXCEPT !.pc = "reserve", !.tries = n]
  <2>1. adv' = [adv EXCEPT ![p] = b] /\ a.tries < MaxRetries
    BY <1>9 DEF Retried, Becomes
  <2>2. b.day = a.day /\ b.scan = a.scan /\ b.todo = a.todo /\ b.tries = n
    <3> HIDE DEF n
    <3> QED
      BY <1>1 DEF LaunchType
  <2> HIDE DEF b
  <2> QED
    BY <2>1, <2>2
<1>10. CASE Rejected(p)
  BY <1>3, <1>10 DEF Rejected, InFlight
<1>11. CASE Persist(p)
  <2>1. PICK u \in BOOLEAN : Becomes(p, [a EXCEPT !.pc = "finish", !.incomplete = a.incomplete \/ u])
    BY <1>11 DEF Persist
  <2> DEFINE c == a.incomplete \/ u
             b == [a EXCEPT !.pc = "finish", !.incomplete = c]
  <2>2. adv' = [adv EXCEPT ![p] = b]
    BY <2>1 DEF Becomes
  <2>3. GoesOn(b)
    <3> HIDE DEF c
    <3> QED
      BY <1>1 DEF LaunchType
  <2> HIDE DEF b
  <2> QED
    BY <2>2, <2>3
<1>12. CASE Finish(p) \/ Dies(p)
  BY <1>12 DEF Finish, Dies, Becomes
<1> QED
  BY <1>4, <1>5, <1>6, <1>7, <1>8, <1>9, <1>10, <1>11, <1>12 DEF Step

\* The row of a day is bound to the scan of the launch that wrote it.
LEMMA RunKeepsItsScan ==
    ASSUME AdvisoryInv, NEW p \in Run, Step(p) \/ Dies(p)
    PROVE  \A d \in Day : runs'[d].scan \in {runs[d].scan, adv[p].scan}
<1>0. runs \in [Day -> [status : Status, scan : Nat]] /\ adv[p] \in LaunchType
  BY DEF AdvisoryInv, AdvisoryType
<1>1. CASE Claim(p)
  <2>1. \/ UNCHANGED runs
        \/ runs' = [runs EXCEPT ![adv[p].day] = [status |-> "running", scan |-> adv[p].scan]]
    BY <1>1 DEF Claim
  <2> QED
    BY <1>0, <2>1
<1>2. CASE Finish(p)
  <2>1. \/ UNCHANGED runs
        \/ \E w : runs' = [runs EXCEPT ![adv[p].day].status = w]
    BY <1>2 DEF Finish
  <2>2. ASSUME NEW w, runs' = [runs EXCEPT ![adv[p].day].status = w], NEW d \in Day
        PROVE  runs'[d].scan = runs[d].scan
    <3>1. CASE d = adv[p].day
      <4>1. runs'[d] = [runs[d] EXCEPT !.status = w] /\ runs[d] \in [status : Status, scan : Nat]
        BY <1>0, <2>2, <3>1
      <4> QED
        BY <4>1
    <3>2. CASE d # adv[p].day
      BY <1>0, <2>2, <3>2
    <3> QED
      BY <3>1, <3>2
  <2> QED
    BY <2>1, <2>2
<1>3. CASE UNCHANGED runs
  BY <1>3
<1> QED
  BY <1>1, <1>2, <1>3 DEF Step, Key, NextBatch, Reserve, Guard, Transmit, Answered, Retried, Rejected,
     Persist, Dies, store

\* A launch that begins or goes on is within its bounds.
LEMMA BoundStep ==
    ASSUME AdvisoryInv, BoundInv, [Next]_vars
    PROVE  BoundInv'
<1>0. /\ MaxRetries \in Nat /\ MaxDay \in Nat \ {0} /\ MaxScan \in Nat /\ scans \in Seq(Day)
      /\ \A p \in Run : adv[p] \in LaunchType
      /\ adv \in [Run -> LaunchType] /\ today \in Day /\ completed \in [Day -> 0..Len(scans)]
  BY AdvisoryAssumption DEF AdvisoryInv, AdvisoryType
<1>1. Bounded(Idle)
  BY <1>0, TailOfOffer DEF Bounded, Idle
<1>2. ASSUME NEW p \in Run, NEW b, adv' = [adv EXCEPT ![p] = b], Bounded(b), UNCHANGED scans,
             \A d \in Day : runs'[d].scan \in {runs[d].scan, adv[p].scan}
      PROVE  BoundInv'
  <2>1. adv'[p] = b /\ \A q \in Run \ {p} : adv'[q] = adv[q]
    BY <1>0, <1>2
  <2> QED
    BY <1>2, <2>1 DEF BoundInv, Bounded
<1>3. ASSUME NEW p \in Run, Read(p)
      PROVE  BoundInv'
  <2> DEFINE s == completed[today]
  <2>1. PICK offer \in Offers \cup {<<>>}, partial \in BOOLEAN :
           Becomes(p, [Idle EXCEPT !.pc = "claim", !.day = today, !.scan = s,
                                   !.todo = offer, !.incomplete = partial])
    BY <1>3 DEF Read
  <2> DEFINE b == [Idle EXCEPT !.pc = "claim", !.day = today, !.scan = s, !.todo = offer,
                               !.incomplete = partial]
  <2>2. s \in 0..MaxScan /\ today \in 0..MaxDay /\ offer \in Tails /\ 0 \in 0..MaxRetries
    BY <1>0, TailOfOffer DEF BoundInv, Day
  <2>3. b.day = today /\ b.scan = s /\ b.todo = offer /\ b.tries = 0
    <3> HIDE DEF s
    <3> QED
      BY DEF Idle
  <2>4. adv' = [adv EXCEPT ![p] = b] /\ UNCHANGED <<scans, runs>>
    BY <1>3, <2>1 DEF Becomes, Read, store
  <2> HIDE DEF b, s
  <2> QED
    BY <1>2, <2>2, <2>3, <2>4 DEF Bounded
<1>4. ASSUME NEW p \in Run, Step(p) \/ Dies(p)
      PROVE  BoundInv'
  <2>1. UNCHANGED scans
    BY <1>4 DEF Step, Claim, Key, NextBatch, Reserve, Guard, Transmit, Answered, Retried, Rejected,
       Persist, Finish, Dies, store
  <2>0. \A d \in Day : runs'[d].scan \in {runs[d].scan, adv[p].scan}
    BY <1>4, RunKeepsItsScan
  <2>2. CASE adv' = [adv EXCEPT ![p] = Idle]
    BY <1>1, <1>2, <2>0, <2>1, <2>2
  <2>3. ASSUME NEW b, adv' = [adv EXCEPT ![p] = b], b.day = adv[p].day, b.scan = adv[p].scan,
               b.todo = adv[p].todo \/ (adv[p].todo # <<>> /\ b.todo = Tail(adv[p].todo)),
               b.tries \in {0, adv[p].tries} \/ (adv[p].tries < MaxRetries /\ b.tries = adv[p].tries + 1)
        PROVE  BoundInv'
    <3>1. Bounded(adv[p])
      BY DEF BoundInv
    <3>2. b.todo \in Tails
      BY <2>3, <3>1, TailOfOffer DEF Bounded
    <3>3. b.tries \in 0..MaxRetries
      BY <1>0, <2>3, <3>1 DEF Bounded
    <3>4. Bounded(b)
      BY <2>3, <3>1, <3>2, <3>3 DEF Bounded
    <3> QED
      BY <1>2, <2>0, <2>1, <2>3, <3>4
  <2> QED
    BY <1>4, <2>2, <2>3, LaunchGoesOn
<1>5. CASE Cycles
  <2>1. UNCHANGED <<adv, runs>> /\ (UNCHANGED scans \/ (Len(scans) < MaxScan /\ scans' = Append(scans, today)))
    BY <1>5 DEF Cycles, PersistScan, CycleStops, RecordCompletedCycle
  <2>2. Len(scans') <= MaxScan
    BY <1>0, <2>1 DEF BoundInv
  <2> QED
    BY <2>1, <2>2 DEF BoundInv, Bounded
<1>6. CASE Midnight \/ UNCHANGED vars
  BY <1>6 DEF Midnight, vars, store, BoundInv, Bounded
<1> QED
  BY <1>3, <1>4, <1>5, <1>6 DEF Next

\* Every variable of the advisory keeps its type: what a launch has left to send is the rest
\* of what it was offered, its retries stay within the policy's, and it is bound to a stored
\* scan, however launches overlap and die (cli/advisory.go, jev/evaluate.go).
THEOREM TypeCorrect == Spec => []TypeOK
<1>1. Init => BoundInv
  BY AdvisoryAssumption, TailOfOffer DEF Init, BoundInv, Bounded, Idle
<1>2. AdvisoryInv /\ BoundInv => TypeOK
  <2> SUFFICES ASSUME AdvisoryInv, BoundInv PROVE TypeOK
    OBVIOUS
  <2>1. Len(scans) \in Nat /\ MaxScan \in Nat /\ 0..Len(scans) \subseteq 0..MaxScan /\ 1..Len(scans) \subseteq 1..MaxScan
    BY AdvisoryAssumption DEF AdvisoryInv, AdvisoryType, BoundInv
  <2>2. ASSUME NEW p \in Run PROVE adv[p] \in Launch
    <3>1. adv[p] \in LaunchType /\ Bounded(adv[p])
      BY DEF AdvisoryInv, AdvisoryType, BoundInv
    <3> QED
      BY <3>1 DEF LaunchType, Launch, Bounded
  <2>3. adv \in [Run -> Launch]
    BY <2>2 DEF AdvisoryInv, AdvisoryType
  <2>4. runs \in [Day -> [status : Status, scan : 0..MaxScan]]
    BY DEF AdvisoryInv, AdvisoryType, BoundInv
  <2>5. completed \in [Day -> 0..MaxScan] /\ cycles \subseteq 1..MaxScan
    BY <2>1 DEF AdvisoryInv, AdvisoryType
  <2> QED
    BY <2>3, <2>4, <2>5 DEF AdvisoryInv, AdvisoryType, BoundInv, TypeOK
<1> QED
  BY <1>1, <1>2, BoundStep, AdvisoryHolds, PTL DEF Spec

-----------------------------------------------------------------------------
(* What follows. *)

\* Of the requests of one day at most one goes out on the inventory of a scan that was no
\* longer the latest, however many launches overlap and wherever scans come between their
\* steps: every attempt is reserved against the newest scan, and only one launch holds the day
\* (store/advisory.go:160, cli/advisory.go).
THEOREM OneLateRequestOnly == Spec => []OneLateRequest
<1>1. AdvisoryInv => OneLateRequest
  BY DEF AdvisoryInv, DaySound, OneLateRequest
<1> QED
  BY <1>1, AdvisoryHolds, PTL

\* A day is reported complete only with every offered request answered and no gap in its
\* evidence, whichever requests the breaker, a refusal or a retry limit left out.
THEOREM CompleteReportsAreComplete == Spec => []CompleteIsComplete
<1>1. AdvisoryInv => CompleteIsComplete
  BY DEF AdvisoryInv, DaySound, CompleteIsComplete
<1> QED
  BY <1>1, AdvisoryHolds, PTL

\* Who sends: the claimant of the current day, what it has reserved.
LEMMA Sends ==
    ASSUME AdvisoryInv, [Next]_vars, sent' # sent
    PROVE  \E p \in Run : Transmit(p) /\ InTime(adv[p])
<1>1. Next
  BY DEF vars, history
<1>2. \A p \in Run : ~(Read(p) \/ Dies(p))
  BY DEF Read, Dies, history
<1>3. ~Midnight /\ ~Cycles
  BY DEF Midnight, Cycles, PersistScan, CycleStops, RecordCompletedCycle, history
<1>4. PICK p \in Run : Step(p)
  BY <1>1, <1>2, <1>3 DEF Next
<1>5. Transmit(p) /\ InTime(adv[p])
  BY <1>4 DEF Step, Claim, Key, NextBatch, Reserve, Guard, Transmit, Answered, Retried, Rejected,
     Persist, Finish, history
<1> QED
  BY <1>5

\* A launch that sends in time has the running row of the current day.
LEMMA SendingLaunch ==
    ASSUME AdvisoryInv, NEW p \in Run, Transmit(p), InTime(adv[p])
    PROVE  /\ adv[p].day = today /\ runs[today] = [status |-> "running", scan |-> adv[p].scan]
           /\ today \notin over /\ scans[adv[p].scan] = today
           /\ sent' = [sent EXCEPT ![today] = Plus(sent[today], Head(adv[p].todo))]
           /\ Head(adv[p].todo) \in Amount /\ Plus(sent[today], Head(adv[p].todo)) # sent[today]
           /\ Within(Plus(sent[today], Head(adv[p].todo)), reserved[today])
           /\ UNCHANGED <<today, runs, over>>
<1>1. adv[p] \in LaunchType /\ Sound(adv[p]) /\ adv[p].pc = "transmit" /\ adv[p].day = today
  BY DEF AdvisoryInv, AdvisoryType, Transmit, InTime, At
<1>2. adv[p].todo \in Requests /\ adv[p].todo # <<>> /\ sent[today] \in Amount
  BY <1>1 DEF LaunchType, Sound, AdvisoryInv, AdvisoryType
<1>3. sent' = [sent EXCEPT ![today] = Plus(sent[today], Head(adv[p].todo))] /\ UNCHANGED <<today, runs, over>>
  BY DEF Transmit, store
<1> QED
  BY <1>1, <1>2, <1>3, RequestType DEF Sound, Claimant

\* Only the launch that claimed the current day sends, for a scan that finished on it, with
\* midnight, newer scans and other launches between any of its steps.
THEOREM SendsTodaysCycle == Spec => SentFromTodaysCycle
<1>1. AdvisoryInv /\ [Next]_vars =>
        [\A d \in Day : sent'[d] # sent[d] =>
            /\ d = today /\ runs[d].status = "running"
            /\ scans[runs[d].scan] = d]_vars
  <2> SUFFICES ASSUME AdvisoryInv, [Next]_vars, NEW d \in Day, sent'[d] # sent[d]
               PROVE  d = today /\ runs[d].status = "running" /\ scans[runs[d].scan] = d
    OBVIOUS
  <2>1. PICK p \in Run : Transmit(p) /\ InTime(adv[p])
    BY Sends
  <2>2. d = today
    BY <2>1, SendingLaunch DEF AdvisoryInv, AdvisoryType
  <2>3. runs[d] = [status |-> "running", scan |-> adv[p].scan] /\ scans[adv[p].scan] = d
    BY <2>1, <2>2, SendingLaunch
  <2> QED
    BY <2>2, <2>3
<1> QED
  BY <1>1, AdvisoryHolds, PTL DEF Spec, SentFromTodaysCycle

-----------------------------------------------------------------------------
(* The advisory implements the spend gate. *)

SessionOf(d) == IF runs[d].status = "none" THEN "none"
                ELSE IF runs[d].status = "running" /\ d \notin over THEN "open" ELSE "closed"

\* The sessions are those of the days.
LEMMA SessionIs == session = [d \in Day |-> SessionOf(d)]
  BY DEF session, SessionOf

\* Where the session of one day changes, the others stay.
LEMMA SessionChanges ==
    ASSUME NEW d \in Day, NEW s, SessionOf(d)' = s,
           \A e \in Day \ {d} : SessionOf(e)' = SessionOf(e)
    PROVE  session' = [session EXCEPT ![d] = s]
<1>1. session' = [e \in Day |-> SessionOf(e)']
  BY DEF session, SessionOf
<1> QED
  BY <1>1, SessionIs

\* Without a change of the runs every session stays.
LEMMA SessionStays == ASSUME UNCHANGED <<runs, over>> PROVE UNCHANGED session
  BY DEF session

\* A launch opens the session of the current day once.
LEMMA ClaimOpens ==
    ASSUME AdvisoryInv, NEW p \in Run, Claim(p), Claims(adv[p])
    PROVE  G!Open
<1> DEFINE a == adv[p]
<1>1. today \in Day /\ a.day = today /\ runs[today].status = "none"
  BY DEF Claims, AdvisoryInv, AdvisoryType
<1>2. /\ runs' = [runs EXCEPT ![today] = [status |-> "running", scan |-> a.scan]]
      /\ UNCHANGED <<today, sent, over>>
  BY <1>1 DEF Claim
<1>3. runs'[today] = [status |-> "running", scan |-> a.scan]
      /\ \A e \in Day \ {today} : runs'[e] = runs[e]
  BY <1>1, <1>2 DEF AdvisoryInv, AdvisoryType
<1>4. today \notin over
  BY <1>1 DEF AdvisoryInv, DaySound
<1>5. PICK d \in Day : d = today
  BY <1>1
<1>6. SessionOf(d)' = "open" /\ \A e \in Day \ {d} : SessionOf(e)' = SessionOf(e)
  <2>1. runs'[d].status = "running" /\ d \notin over'
    BY <1>2, <1>3, <1>4, <1>5
  <2> QED
    BY <1>2, <1>3, <1>5, <2>1 DEF SessionOf
<1>7. session' = [session EXCEPT ![today] = "open"]
  BY <1>5, <1>6, SessionChanges
<1>8. session[today] = "none"
  BY <1>1, SessionIs DEF SessionOf
<1> QED
  BY <1>2, <1>7, <1>8 DEF G!Open

\* The end of the claimant closes it.
LEMMA EndCloses ==
    ASSUME AdvisoryInv, NEW p \in Run, Claimant(adv[p]), Finish(p) \/ Dies(p)
    PROVE  G!Close
<1> DEFINE a == adv[p]
<1>1. a.day \in Day /\ runs[a.day] = [status |-> "running", scan |-> a.scan] /\ a.day \notin over
  BY DEF AdvisoryInv, Sound, Claimant
<1>2. over' = over \cup {a.day} /\ UNCHANGED <<today, sent>>
  BY DEF Finish, Dies, At, Claimant
<1>3. \/ UNCHANGED runs
      \/ \E s \in Status \ {"none"} : runs' = [runs EXCEPT ![a.day].status = s]
  BY <1>1 DEF Finish, Dies, Status, store
<1>4. PICK d \in Day : d = a.day
  BY <1>1
<1>5. runs'[d].status # "none" /\ \A e \in Day \ {d} : runs'[e] = runs[e]
  <2>1. runs \in [Day -> [status : Status, scan : Nat]]
    BY DEF AdvisoryInv, AdvisoryType
  <2>2. CASE UNCHANGED runs
    BY <1>1, <1>4, <2>2
  <2>3. ASSUME NEW s \in Status \ {"none"}, runs' = [runs EXCEPT ![a.day].status = s]
        PROVE  runs'[d].status # "none" /\ \A e \in Day \ {d} : runs'[e] = runs[e]
    <3>1. runs' = [runs EXCEPT ![d] = [runs[d] EXCEPT !.status = s]]
      BY <1>4, <2>3
    <3>2. runs'[d] = [runs[d] EXCEPT !.status = s] /\ runs[d] \in [status : Status, scan : Nat]
      BY <2>1, <3>1
    <3>3. runs'[d].status = s
      BY <3>2
    <3> QED
      BY <2>1, <3>1, <3>3
  <2> QED
    BY <1>3, <2>2, <2>3
<1>6. SessionOf(d)' = "closed" /\ \A e \in Day \ {d} : SessionOf(e)' = SessionOf(e)
  <2>1. SessionOf(d)' = "closed"
    <3>1. d \in over'
      BY <1>2, <1>4
    <3> QED
      BY <1>5, <3>1 DEF SessionOf
  <2>2. ASSUME NEW e \in Day \ {d}
        PROVE  SessionOf(e)' = SessionOf(e)
    <3>1. runs'[e] = runs[e] /\ (e \in over' <=> e \in over)
      BY <1>2, <1>4, <1>5
    <3> QED
      BY <3>1 DEF SessionOf
  <2> QED
    BY <2>1, <2>2
<1>7. session' = [session EXCEPT ![d] = "closed"]
  BY <1>6, SessionChanges
<1>8. session[d] = "open"
  <2>1. runs[d].status = "running" /\ d \notin over
    BY <1>1, <1>4
  <2> QED
    BY <2>1, SessionIs DEF SessionOf
<1> QED
  BY <1>2, <1>7, <1>8 DEF G!Close

\* A transmission spends what was reserved, in the open session of the current day.
LEMMA TransmitSpends ==
    ASSUME AdvisoryInv, NEW p \in Run, Transmit(p), InTime(adv[p])
    PROVE  G!Spend
<1> DEFINE amount == Head(adv[p].todo)
<1>1. /\ runs[today] = [status |-> "running", scan |-> adv[p].scan] /\ today \notin over
      /\ sent' = [sent EXCEPT ![today] = Plus(sent[today], amount)] /\ amount \in Amount
      /\ Plus(sent[today], amount) # sent[today] /\ Within(Plus(sent[today], amount), reserved[today])
      /\ UNCHANGED <<today, runs, over>>
  BY SendingLaunch
<1>2. today \in Day /\ sent[today] \in Amount /\ reserved[today] \in Amount /\ Cap \in Amount
      /\ Within(reserved[today], Cap)
  BY AdvisoryAssumption DEF AdvisoryInv, AdvisoryType, DaySound
<1>3. session[today] = "open" /\ UNCHANGED session
  <2>1. runs[today].status = "running"
    BY <1>1
  <2> QED
    BY <1>1, <1>2, <2>1, SessionIs, SessionStays DEF SessionOf
<1>4. sent'[today] = Plus(sent[today], amount)
  BY <1>1, <1>2 DEF AdvisoryInv, AdvisoryType
<1>5. Within(sent[today], Plus(sent[today], amount)) /\ Within(Plus(sent[today], amount), Cap)
  BY <1>1, <1>2, PlusType, WithinTrans
<1> HIDE DEF amount
<1>6. \A k \in Dim : sent[today][k] <= sent'[today][k] /\ sent'[today][k] <= Cap[k]
  BY <1>4, <1>5 DEF Within
<1>7. sent'[today] \in [Dim -> Nat]
  BY <1>1, <1>2, <1>4, PlusType DEF Amount
<1> QED
  BY <1>1, <1>3, <1>4, <1>6, <1>7 DEF G!Spend

\* Every step of the advisory is one of the gate, or changes nothing of it.
LEMMA GateStep == AdvisoryInv /\ [Next]_vars => [G!Next]_(G!gate)
<1> SUFFICES ASSUME AdvisoryInv, [Next]_vars PROVE G!Next \/ UNCHANGED <<today, session, sent>>
  BY DEF G!gate
<1>1. CASE UNCHANGED vars
  BY <1>1, SessionStays DEF vars, store, history
<1>2. CASE Midnight
  BY <1>2, SessionStays DEF Midnight, store, history, G!Next, G!Midnight
<1>3. CASE Cycles
  BY <1>3, SessionStays DEF Cycles, PersistScan, CycleStops, RecordCompletedCycle, history
<1>4. ASSUME NEW p \in Run, Read(p) \/ Step(p) \/ Dies(p)
      PROVE  G!Next \/ UNCHANGED <<today, session, sent>>
  <2>1. CASE Read(p) \/ Key(p) \/ NextBatch(p) \/ Reserve(p) \/ Guard(p) \/ Answered(p)
             \/ Retried(p) \/ Rejected(p) \/ Persist(p)
    <3>1. UNCHANGED <<today, runs, over, sent>>
      BY <2>1 DEF Read, Key, NextBatch, Reserve, Guard, Answered, Retried, Rejected, Persist,
         store, history
    <3> QED
      BY <3>1, SessionStays
  <2>2. CASE Claim(p)
    BY <2>2, ClaimOpens, SessionStays DEF Claim, G!Next
  <2>3. CASE Transmit(p)
    BY <2>3, TransmitSpends, SessionStays DEF Transmit, store, G!Next
  <2>4. CASE Finish(p)
    BY <2>4, EndCloses DEF Finish, At, Claimant, G!Next
  <2>5. CASE Dies(p)
    <3>1. CASE At(p, "claim")
      BY <2>5, <3>1, SessionStays DEF Dies, store
    <3>2. CASE ~At(p, "claim")
      BY <2>5, <3>2, EndCloses DEF Dies, At, Claimant, G!Next
    <3> QED
      BY <3>1, <3>2
  <2> QED
    BY <1>4, <2>1, <2>2, <2>3, <2>4, <2>5 DEF Step
<1> QED
  BY <1>1, <1>2, <1>3, <1>4 DEF Next

\* The advisory keeps the promise about outbound requests: one session a day, opened and
\* spent from on that day only, never beyond the caps, never opened again after its end or
\* death (cli/advisory.go, store/advisory.go).
THEOREM AdvisoryImplementsGate == Spec => ImplementsSpendGate
<1>1. Init => G!Init
  <2> SUFFICES ASSUME Init PROVE G!Init
    OBVIOUS
  <2>1. today = 1 /\ sent = [d \in Day |-> [k \in Dim |-> 0]]
    BY DEF Init, Zero
  <2>2. \A d \in Day : SessionOf(d) = "none"
    BY DEF Init, SessionOf
  <2>3. session = [d \in Day |-> "none"]
    BY <2>2, SessionIs
  <2> QED
    BY <2>1, <2>3 DEF G!Init
<1> QED
  BY <1>1, AdvisoryHolds, GateStep, PTL DEF Spec, ImplementsSpendGate, G!Spec

\* The promise keeps what a payer may expect of it, whoever implements it.
LEMMA GatedStep ==
    ASSUME G!Gated, G!GateTypeOK, [G!Next]_(G!gate)
    PROVE  G!Gated' /\ G!GateTypeOK'
<1> USE AdvisoryAssumption DEF G!Gated, G!WithinCap, G!SpentBySession, G!NothingIsAhead, G!GateTypeOK,
                               Amount, Day
<1>1. CASE G!Open
  <2>1. UNCHANGED <<today, sent>> /\ session' = [session EXCEPT ![today] = "open"]
    BY <1>1 DEF G!Open
  <2>2. session' \in [Day -> {"none", "open", "closed"}]
    BY <2>1
  <2>3. \A d \in Day : session'[d] = "none" => session[d] = "none"
    BY <2>1
  <2>4. \A d \in Day : d # today => session'[d] = session[d]
    BY <2>1
  <2>5. \A d \in Day : d > today => session'[d] = "none"
    BY <2>4
  <2> QED
    BY <2>1, <2>2, <2>3, <2>5
<1>2. CASE G!Close
  <2>1. PICK d \in Day : session[d] = "open" /\ session' = [session EXCEPT ![d] = "closed"]
    BY <1>2 DEF G!Close
  <2>2. UNCHANGED <<today, sent>>
    BY <1>2 DEF G!Close
  <2>3. session' \in [Day -> {"none", "open", "closed"}]
    BY <2>1
  <2>4. \A e \in Day : session'[e] = "none" => session[e] = "none"
    BY <2>1
  <2>5. \A e \in Day : session[e] = "none" => session'[e] = "none"
    BY <2>1
  <2> QED
    BY <2>2, <2>3, <2>4, <2>5
<1>3. CASE G!Spend
  <2>1. /\ session[today] = "open" /\ UNCHANGED <<today, session>>
        /\ sent' = [sent EXCEPT ![today] = sent'[today]] /\ sent'[today] \in [Dim -> Nat]
        /\ \A k \in Dim : sent'[today][k] <= Cap[k]
    BY <1>3 DEF G!Spend
  <2>2. sent' \in [Day -> [Dim -> Nat]]
    BY <2>1
  <2>3. \A d \in Day : d # today => sent'[d] = sent[d]
    BY <2>1
  <2>4. G!WithinCap'
    BY <2>1, <2>3
  <2>5. G!SpentBySession'
    BY <2>1, <2>3
  <2>6. G!NothingIsAhead' /\ (today \in Nat \ {0})' /\ (session \in [Day -> {"none", "open", "closed"}])'
    BY <2>1
  <2> QED
    BY <2>2, <2>4, <2>5, <2>6
<1>4. CASE G!Midnight
  BY <1>4 DEF G!Midnight
<1>5. CASE UNCHANGED G!gate
  BY <1>5 DEF G!gate
<1> QED
  BY <1>1, <1>2, <1>3, <1>4, <1>5 DEF G!Next

\* What a step of the promise may never do to what was spent.
Final ==
    /\ \A d \in Day, k \in Dim : sent[d][k] <= sent'[d][k]
    /\ \A d \in Day : d < today \/ session[d] = "closed" => sent'[d] = sent[d]
    /\ \A d \in Day : session[d] = "closed" => session'[d] = "closed"
    /\ \A d \in Day : session[d] = "none" /\ session'[d] # "none" => d = today

\* No step of the promise does.
LEMMA GatedIsFinal ==
    ASSUME G!GateTypeOK, [G!Next]_(G!gate)
    PROVE  Final
<1> USE DEF G!GateTypeOK, Day, Final
<1>1. CASE G!Open
  BY <1>1 DEF G!Open
<1>2. CASE G!Close
  BY <1>2 DEF G!Close
<1>3. CASE G!Spend
  <2>1. /\ session[today] = "open" /\ UNCHANGED <<today, session>>
        /\ sent' = [sent EXCEPT ![today] = sent'[today]]
        /\ \A k \in Dim : sent[today][k] <= sent'[today][k]
    BY <1>3 DEF G!Spend
  <2>2. \A d \in Day : d # today => sent'[d] = sent[d]
    BY <2>1
  <2>3. \A d \in Day, k \in Dim : sent[d][k] \in Nat
    OBVIOUS
  <2> QED
    BY <2>1, <2>2, <2>3
<1>4. CASE G!Midnight
  BY <1>4 DEF G!Midnight
<1>5. CASE UNCHANGED G!gate
  BY <1>5 DEF G!gate
<1> QED
  BY <1>1, <1>2, <1>3, <1>4, <1>5 DEF G!Next

\* A gate that was never used keeps everything.
LEMMA GatedStarts == G!Init => G!Gated /\ G!GateTypeOK
BY AdvisoryAssumption DEF G!Init, G!Gated, G!WithinCap, G!SpentBySession, G!NothingIsAhead,
   G!GateTypeOK, Amount, Day

\* Whatever launches overlap, die or retry around midnight: no day sends beyond any of its
\* caps, a day without a claim sends nothing, and no day is claimed ahead of time.
THEOREM AdvisoryIsGated == Spec => []G!Gated
<1>1. G!Gated /\ G!GateTypeOK /\ [G!Next]_(G!gate) => G!Gated' /\ G!GateTypeOK'
  BY GatedStep
<1> QED
  BY <1>1, GatedStarts, AdvisoryImplementsGate, PTL DEF ImplementsSpendGate, G!Spec

\* What was sent stays accounted for; a day that has passed, or whose session ended or
\* died, sends nothing more and is not claimed again (store/advisory.go).
THEOREM SpentStaysSpent == Spec => G!SpentIsFinal
<1>1. G!Gated /\ G!GateTypeOK /\ [G!Next]_(G!gate) => G!Gated' /\ G!GateTypeOK'
  BY GatedStep
<1>2. G!GateTypeOK /\ [G!Next]_(G!gate) => [Final]_(G!gate)
  BY GatedIsFinal
<1> QED
  BY <1>1, <1>2, GatedStarts, AdvisoryImplementsGate, PTL
  DEF ImplementsSpendGate, G!Spec, G!SpentIsFinal, Final

=============================================================================
