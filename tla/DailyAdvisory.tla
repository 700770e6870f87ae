--------------------------- MODULE DailyAdvisory ---------------------------
(***************************************************************************)
(* The opt-in daily advisory (internal/cli/advisory.go), its admission     *)
(* ledger (internal/store/advisory.go), the HTTP client that sends its     *)
(* requests (internal/jev) and the cycles that authorise it                *)
(* (internal/cli/cycle.go).                                                *)
(*                                                                         *)
(* A run reads today's completed cycle, claims the day, reserves every     *)
(* HTTP attempt before it is sent, and writes one final report.  Other     *)
(* launches, newer scans, midnight, the provider and its own death come    *)
(* between any two of these steps.                                         *)
(***************************************************************************)
EXTENDS Integers, Sequences

CONSTANTS
    Run,              \* launches of `janitor advisory run` that can overlap
    MaxDay,           \* bound on the UTC days
    MaxScan,          \* bound on the scans
    Dim,              \* what a budget counts: attempts, entries, tokens, cost
    Cap,              \* the daily admission limits
    Offers,           \* the sequences of requests a run may have to send
    MaxRetries,       \* policy jev.max_retries
    BreakerFailures   \* policy jev.breaker_failures

Day    == 1..MaxDay
Amount == [Dim -> Nat]

ASSUME AdvisoryAssumption ==
    /\ MaxDay \in Nat \ {0} /\ MaxScan \in Nat
    /\ Cap \in Amount
    /\ Dim # {} /\ Offers \subseteq Seq([Dim -> Nat \ {0}])
    /\ MaxRetries \in Nat /\ BreakerFailures \in Nat \ {0}

VARIABLES
    today,      \* the UTC day
    scans,      \* the day each persisted scan finished on, oldest first
    cycles,     \* scans of cycles that are still running
    completed,  \* completed_cycles: the scan of each day, 0 when none
    runs,       \* advisory_runs: status and scan of each day
    reserved,   \* advisory_attempts, summed per day
    adv,        \* the launches
    \* history, read by properties only
    sent,       \* what reached the transport, summed by the day it was sent on
    over,       \* days whose claiming launch has ended
    work,       \* per day: requests offered and answered, evidence complete
    late        \* per day: requests sent after a newer scan was stored

store   == <<scans, cycles, completed, runs, reserved>>
history == <<sent, over, work, late>>
vars    == <<today, store, adv, history>>

Status == {"none", "running", "complete", "incomplete", "blocked"}
Labels == {"idle", "claim", "key", "next", "reserve", "guard", "transmit", "await",
           "persist", "finish", "finishBlocked"}

Idle == [pc |-> "idle", day |-> 0, scan |-> 0, todo |-> <<>>, tries |-> 0, failures |-> 0,
         circuit |-> FALSE, incomplete |-> FALSE]

Rests(o) == {SubSeq(o, i, Len(o)) : i \in 1..Len(o) + 1}
Tails == UNION {Rests(o) : o \in Offers \cup {<<>>}}

Launch == [pc : Labels, day : 0..MaxDay, scan : 0..MaxScan, todo : Tails,
           tries : 0..MaxRetries, failures : Nat, circuit : BOOLEAN, incomplete : BOOLEAN]

TypeOK ==
    /\ today \in Day
    /\ scans \in Seq(Day) /\ Len(scans) <= MaxScan
    /\ cycles \subseteq 1..MaxScan
    /\ completed \in [Day -> 0..MaxScan]
    /\ runs \in [Day -> [status : Status, scan : 0..MaxScan]]
    /\ reserved \in [Day -> Amount] /\ sent \in [Day -> Amount]
    /\ adv \in [Run -> Launch]
    /\ over \subseteq Day
    /\ work \in [Day -> [offered : Nat, answered : Nat, sound : BOOLEAN]]
    /\ late \in [Day -> Nat]

Zero == [k \in Dim |-> 0]
Plus(a, b) == [k \in Dim |-> a[k] + b[k]]
Within(a, b) == \A k \in Dim : a[k] <= b[k]

Init ==
    /\ today = 1
    /\ scans = <<>> /\ cycles = {}
    /\ completed = [d \in Day |-> 0]
    /\ runs = [d \in Day |-> [status |-> "none", scan |-> 0]]
    /\ reserved = [d \in Day |-> Zero] /\ sent = [d \in Day |-> Zero]
    /\ adv = [p \in Run |-> Idle]
    /\ over = {}
    /\ work = [d \in Day |-> [offered |-> 0, answered |-> 0, sound |-> TRUE]]
    /\ late = [d \in Day |-> 0]

-----------------------------------------------------------------------------
(* Cycles, other scans and the clock. *)

\* The newest stored scan; only completed scans are stored.
Latest == Len(scans)

Midnight ==
    /\ today < MaxDay
    /\ today' = today + 1
    /\ UNCHANGED <<store, adv, history>>

\* runScan under the scan lock, by the watcher, by hand, or by a cycle.
PersistScan(byCycle) ==
    /\ Len(scans) < MaxScan
    /\ scans' = Append(scans, today)
    /\ cycles' = IF byCycle THEN cycles \cup {Len(scans) + 1} ELSE cycles
    /\ UNCHANGED <<today, completed, runs, reserved, adv, history>>

\* The cycle's early returns after its scan: nothing is recorded.
CycleStops(s) ==
    /\ s \in cycles
    /\ cycles' = cycles \ {s}
    /\ UNCHANGED <<today, scans, completed, runs, reserved, adv, history>>

\* The end of a cycle.  An error of its category archives, scratch runs or cache
\* trims (categoryErr) is returned only after the completion was recorded.
RecordCompletedCycle(s) ==
    /\ s \in cycles
    /\ cycles' = cycles \ {s}
    /\ completed' = [completed EXCEPT ![today] = s]
    /\ UNCHANGED <<today, scans, runs, reserved, adv, history>>

-----------------------------------------------------------------------------
(* One launch. *)

At(p, l) == adv[p].pc = l

\* The launch goes to l with the fields of r replaced.
Becomes(p, r) == adv' = [adv EXCEPT ![p] = r]
Goto(p, l) == Becomes(p, [adv[p] EXCEPT !.pc = l])

Mut_Bound(s) == s # 0 /\ s = Latest
Bound(s) == s # 0 /\ scans[s] = today /\ s = Latest

\* The binding to today's cycle, the candidates and their batches.
Read(p) ==
    LET s == completed[today] IN
    /\ At(p, "idle")
    /\ Bound(s)
    /\ \E offer \in Offers \cup {<<>>}, partial \in BOOLEAN :
          Becomes(p, [Idle EXCEPT !.pc = "claim", !.day = today, !.scan = s,
                                  !.todo = offer, !.incomplete = partial])
    /\ UNCHANGED <<today, store, history>>

Mut_Claims(a) == a.day = today /\ completed[a.day] = a.scan
                 /\ runs[a.day].status \in {"none", "running"}
Claims(a) == a.day = today /\ completed[a.day] = a.scan /\ runs[a.day].status = "none"

\* ClaimAdvisory, one transaction; a refused launch only reports.
Claim(p) ==
    LET a == adv[p] IN
    /\ At(p, "claim")
    /\ IF Claims(a)
       THEN /\ runs' = [runs EXCEPT ![a.day] = [status |-> "running", scan |-> a.scan]]
            /\ work' = [work EXCEPT ![a.day] = [offered |-> Len(a.todo), answered |-> 0,
                                                sound |-> ~a.incomplete]]
            /\ Goto(p, IF a.todo = <<>> THEN "finish" ELSE "key")
       ELSE Becomes(p, Idle) /\ UNCHANGED <<runs, work>>
    /\ UNCHANGED <<today, scans, cycles, completed, reserved, sent, over, late>>

Key(p) ==
    /\ At(p, "key")
    /\ Goto(p, "next") \/ Goto(p, "finishBlocked")
    /\ UNCHANGED <<today, store, history>>

\* Classify takes its next batch; behind an open circuit it is not sent.
NextBatch(p) ==
    LET a == adv[p] IN
    /\ At(p, "next")
    /\ Becomes(p, IF a.todo = <<>> THEN [a EXCEPT !.pc = "persist"]
                  ELSE IF a.circuit THEN [a EXCEPT !.todo = Tail(a.todo), !.incomplete = TRUE]
                  ELSE [a EXCEPT !.pc = "reserve", !.tries = 0])
    /\ UNCHANGED <<today, store, history>>

\* Evaluate gives the request up: its batch stays unanswered and the breaker
\* counts it, or opens at once.
Mut_RequestFails(p, fatal) ==
    LET a == adv[p] IN
    Becomes(p, [a EXCEPT !.pc = "next", !.todo = Tail(a.todo), !.failures = a.failures + 1,
                         !.circuit = a.circuit \/ fatal \/ a.failures + 1 >= BreakerFailures])
RequestFails(p, fatal) ==
    LET a == adv[p] IN
    Becomes(p, [a EXCEPT !.pc = "next", !.incomplete = TRUE, !.todo = Tail(a.todo),
                         !.failures = a.failures + 1,
                         !.circuit = a.circuit \/ fatal \/ a.failures + 1 >= BreakerFailures])

Mut_StillLatest(s) == s \in 1..Latest
StillLatest(s) == s = Latest

\* ReserveAdvisoryAttempt: one write transaction before every HTTP attempt.
Admits(a, amount) ==
    /\ a.day = today
    /\ runs[a.day] = [status |-> "running", scan |-> a.scan]
    /\ StillLatest(a.scan)
    /\ Within(Plus(reserved[a.day], amount), Cap)

Reserve(p) ==
    LET a == adv[p]
        amount == Head(a.todo)
    IN
    /\ At(p, "reserve")
    /\ IF Admits(a, amount)
       THEN /\ reserved' = [reserved EXCEPT ![a.day] = Plus(@, amount)]
            /\ Goto(p, "guard")
       ELSE RequestFails(p, TRUE) /\ UNCHANGED reserved
    /\ UNCHANGED <<today, scans, cycles, completed, runs, history>>

\* BeforeSend, on the transport path.
Guard(p) ==
    /\ At(p, "guard")
    /\ IF adv[p].day = today THEN Goto(p, "transmit") ELSE RequestFails(p, TRUE)
    /\ UNCHANGED <<today, store, history>>

\* The transport sends unless the deadline of the context, midnight, has passed.
InTime(a) == a.day = today

Transmit(p) ==
    LET a == adv[p] IN
    /\ At(p, "transmit")
    /\ IF InTime(a)
       THEN /\ sent' = [sent EXCEPT ![today] = Plus(@, Head(a.todo))]
            /\ late' = IF a.scan = Latest THEN late ELSE [late EXCEPT ![today] = @ + 1]
            /\ Goto(p, "await")
       ELSE RequestFails(p, TRUE) /\ UNCHANGED <<sent, late>>
    /\ UNCHANGED <<today, store, over, work>>

\* A reserved attempt, sent or not: the connection may fail and the attempt may
\* time out before its first byte.
InFlight(p) == adv[p].pc \in {"guard", "transmit", "await"}

\* An answer, usable or not, resets the breaker.
Answered(p) ==
    LET a == adv[p] IN
    /\ At(p, "await")
    /\ work' = [work EXCEPT ![a.day].answered = @ + 1]
    /\ Becomes(p, [a EXCEPT !.pc = "next", !.todo = Tail(a.todo), !.failures = 0])
    /\ UNCHANGED <<today, store, sent, over, late>>

\* 429, 5xx, a timeout or a lost connection: sent again after backoff and a new
\* reservation, while retries are left.
Retried(p) ==
    LET a == adv[p] IN
    /\ InFlight(p) /\ a.tries < MaxRetries
    /\ Becomes(p, [a EXCEPT !.pc = "reserve", !.tries = @ + 1])
    /\ UNCHANGED <<today, store, history>>

\* Any other failure, or the last retry; a response without input-token usage,
\* 401, 403 and 422 are fatal.
Rejected(p) ==
    /\ InFlight(p)
    /\ \E fatal \in BOOLEAN : RequestFails(p, fatal)
    /\ UNCHANGED <<today, store, history>>

\* persistAdvice, whose failure leaves the report incomplete.
Persist(p) ==
    LET a == adv[p] IN
    /\ At(p, "persist")
    /\ \E usageErr \in BOOLEAN :
          Becomes(p, [a EXCEPT !.pc = "finish", !.incomplete = a.incomplete \/ usageErr])
    /\ UNCHANGED <<today, store, history>>

\* FinishAdvisory updates the row only while it is running.
Finish(p) ==
    LET a == adv[p] IN
    /\ At(p, "finish") \/ At(p, "finishBlocked")
    /\ runs' = IF runs[a.day] = [status |-> "running", scan |-> a.scan]
               THEN [runs EXCEPT ![a.day].status =
                        IF At(p, "finishBlocked") THEN "blocked"
                        ELSE IF a.incomplete THEN "incomplete" ELSE "complete"]
               ELSE runs
    /\ over' = over \cup {a.day}
    /\ Becomes(p, Idle)
    /\ UNCHANGED <<today, scans, cycles, completed, reserved, sent, work, late>>

\* The launch dies, is cancelled, or cannot write its report: the running claim
\* and every reservation stay.
Dies(p) ==
    /\ ~At(p, "idle")
    /\ over' = IF At(p, "claim") THEN over ELSE over \cup {adv[p].day}
    /\ Becomes(p, Idle)
    /\ UNCHANGED <<today, store, sent, work, late>>

-----------------------------------------------------------------------------
Step(p) ==
    \/ Claim(p) \/ Key(p) \/ NextBatch(p) \/ Reserve(p) \/ Guard(p) \/ Transmit(p)
    \/ Answered(p) \/ Retried(p) \/ Rejected(p) \/ Persist(p) \/ Finish(p)

Cycles ==
    \/ \E byCycle \in BOOLEAN : PersistScan(byCycle)
    \/ \E s \in cycles : CycleStops(s) \/ RecordCompletedCycle(s)

Next == Midnight \/ Cycles \/ \E p \in Run : Read(p) \/ Step(p) \/ Dies(p)

Spec == Init /\ [][Next]_vars

-----------------------------------------------------------------------------
(* Properties. *)

\* Of the requests of one day at most one goes out on the inventory of a scan that was no
\* longer the latest by then: the one reserved before the newer scan was stored
\* (store/advisory.go:160).
OneLateRequest == \A d \in Day : late[d] <= 1

\* A day is reported complete only if every request offered was answered and
\* the evidence had no gaps, whatever the breaker or a refusal skipped.
CompleteIsComplete ==
    \A d \in Day : runs[d].status = "complete" =>
        work[d].sound /\ work[d].answered = work[d].offered

\* Only the claim of the current day sends, bound to a scan of that day.
SentFromTodaysCycle ==
    [][\A d \in Day : sent'[d] # sent[d] =>
          /\ d = today /\ runs[d].status = "running"
          /\ scans[runs[d].scan] = d]_vars

\* The daily limits and the single session per day.
session == [d \in Day |-> IF runs[d].status = "none" THEN "none"
                          ELSE IF runs[d].status = "running" /\ d \notin over THEN "open"
                          ELSE "closed"]
G == INSTANCE SpendGate WITH spent <- sent
ImplementsSpendGate == G!Spec

=============================================================================
