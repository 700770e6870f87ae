------------------------------ MODULE Capacity ------------------------------
(***************************************************************************)
(* Filesystem pressure and bounded cache recovery: the shared sample       *)
(* (internal/cli/capacity.go over internal/core/capacity.go and            *)
(* internal/store/capacity.go), the watcher's sampler                      *)
(* (sampleCapacityLoop in internal/cli/watch.go), and the recovery pass of *)
(* a cycle (internal/cli/recovery.go with the attempt ledger of            *)
(* internal/store/cache_recovery.go).                                      *)
(*                                                                         *)
(* Every sampler reads its clock before it enters the writer transaction,  *)
(* so samples can commit in another order than they were timed.  What a    *)
(* filesystem measures, how large a store is and what a provider does are  *)
(* free at every look.  One tick is capacity_interval.                     *)
(***************************************************************************)
EXTENDS Integers, FiniteSets

CONSTANTS
    Watcher, Cycle,       \* processes: `janitor watch`, `janitor cycle`
    Target,               \* policy prevention.targets
    Device,               \* filesystems
    Level,                \* what a filesystem may have free
    Reserve, Goal, Margin,\* thresholds of each target
    Store,                \* caches with a recovery rule
    Home,                 \* the filesystem of each store in the inventory
    MaxStores, MaxBytes,  \* policy prevention.recovery budgets
    MaxPruneBytes,        \* the per-store ceiling
    MaxSize,              \* bound on the size of a store
    RecoveryInterval,     \* prevention.recovery.interval, in ticks
    MaxApproval,          \* bound on the approvals an owner issues
    MaxClock              \* bound on the clock

ASSUME CapacityAssumption ==
    /\ Target # {} /\ IsFiniteSet(Target) /\ Target \cap Device = {}
    /\ Level \subseteq Nat
    /\ Reserve \in [Target -> Nat] /\ Goal \in [Target -> Nat] /\ Margin \in [Target -> Nat]
    /\ \A t \in Target : Reserve[t] <= Goal[t]
    /\ Home \in [Store -> Device]
    /\ MaxStores \in Nat \ {0} /\ MaxBytes \in Nat \ {0}
    /\ MaxPruneBytes \in Nat \ {0} /\ MaxSize \in Nat \ {0}
    /\ RecoveryInterval \in Nat \ {0}
    /\ MaxApproval \in Nat /\ MaxClock \in Nat \ {0}

VARIABLES
    clock,
    snapshot,   \* capacity_snapshot
    attempts,   \* cache_recovery_attempts, one row per store
    approval,   \* the approval reference in the policy file
    scanLock,   \* the cycle holding the scan lock
    watch,      \* the watchers' samplers
    cyc         \* the cycles

\* These and the formulas of the specification bear the module's name: WatchProofs reads
\* them beside those of Watch.
capacityVars == <<clock, snapshot, attempts, approval, scanLock, watch, cyc>>

Time    == 0..MaxClock
Keys    == Device \cup Target      \* "device:<n>" and "root:<path>"
Unknown == -1                      \* no measurement
States  == {"target_recovered", "cleanup_needed", "critical",
            "measurement_unknown", "no_safe_reclaim"}
None    == "none"

Volume == [state : States \cup {None}, hold : BOOLEAN,
           available : Level \cup {Unknown}, roots : SUBSET Target]

\* Volumes of a snapshot, by key.
Volumes == UNION {[K -> Volume] : K \in SUBSET Keys}

NoVolumes == [k \in {} |-> 0]
Empty == [at |-> 0, until |-> 0, volumes |-> NoVolumes]

-----------------------------------------------------------------------------
(* core.AdvancePressure and CapacitySnapshot.Expire *)

MaxOf(S) == CHOOSE m \in S : \A n \in S : n <= m

\* Roots on one filesystem combine their strongest thresholds.
RecoveryOf(t) == IF Margin[t] = 0 THEN Reserve[t] ELSE Goal[t] + Margin[t]
ReserveBytes(v)  == MaxOf({Reserve[t] : t \in v.roots})
TargetBytes(v)   == MaxOf({Goal[t] : t \in v.roots})
RecoveryBytes(v) == MaxOf({RecoveryOf(t) : t \in v.roots})

Hysteresis(v) == RecoveryBytes(v) # ReserveBytes(v)
Below(v) == v.available < RecoveryBytes(v)

\* Without hysteresis only space below the reserve holds admission.
PlainPressure(v) ==
    IF v.available < ReserveBytes(v) THEN [v EXCEPT !.state = "critical", !.hold = TRUE]
    ELSE IF v.available < TargetBytes(v) THEN [v EXCEPT !.state = "cleanup_needed", !.hold = FALSE]
    ELSE [v EXCEPT !.state = "target_recovered", !.hold = FALSE]

Settled(p) == p.state \in {None, "target_recovered"}

Latched(v, p) ==
    IF v.available < ReserveBytes(v) THEN [v EXCEPT !.state = "critical", !.hold = TRUE]
    ELSE IF v.available < TargetBytes(v) \/ (~Settled(p) /\ Below(v))
         THEN [v EXCEPT !.state = "cleanup_needed", !.hold = p.hold /\ Below(v)]
    ELSE [v EXCEPT !.state = "target_recovered", !.hold = FALSE]

Mut_AdvancePressure(v, p) ==
    IF v.available = Unknown THEN [v EXCEPT !.state = "measurement_unknown", !.hold = TRUE]
    ELSE IF ~Hysteresis(v) THEN PlainPressure(v)
    ELSE LET n == Latched(v, p) IN
         IF p.state = "measurement_unknown" THEN [n EXCEPT !.hold = v.available < ReserveBytes(v)] ELSE n
AdvancePressure(v, p) ==
    IF v.available = Unknown THEN [v EXCEPT !.state = "measurement_unknown", !.hold = TRUE]
    ELSE IF ~Hysteresis(v) THEN PlainPressure(v)
    ELSE LET n == Latched(v, p) IN
         IF p.state = "no_safe_reclaim" /\ n.state # "target_recovered" /\ Below(v)
         THEN [n EXCEPT !.state = p.state, !.hold = TRUE]
         ELSE n

Stale(s, now) == now < s.at \/ now >= s.until

Expire(s, now) ==
    IF Stale(s, now)
    THEN [s EXCEPT !.volumes = [k \in DOMAIN @ |->
            [@[k] EXCEPT !.state = "measurement_unknown", !.available = Unknown, !.hold = TRUE]]]
    ELSE s

-----------------------------------------------------------------------------
(* sampleCapacity *)

\* What one look at the targets can see: the device each is on, or a failure, and
\* what each device has free (Unknown when its total changed between two targets).
Looks == [device : [Target -> Device \cup {None}], free : [Device -> Level \cup {Unknown}]]

Sane(look) ==
    \A d \in Device : look.free[d] = Unknown => Cardinality({t \in Target : look.device[t] = d}) > 1

\* A target that cannot be measured stays with the volume it was last seen on.
KeyOf(t, look, old) ==
    IF look.device[t] # None THEN look.device[t]
    ELSE IF \E k \in DOMAIN old : t \in old[k].roots THEN CHOOSE k \in DOMAIN old : t \in old[k].roots
    ELSE t

Measured(k, look, old) ==
    LET T == {t \in Target : KeyOf(t, look, old) = k} IN
    [state |-> None, hold |-> FALSE, roots |-> T,
     available |-> IF \E t \in T : look.device[t] = None THEN Unknown ELSE look.free[k]]

Prior(old, k) ==
    IF k \in DOMAIN old THEN [state |-> old[k].state, hold |-> old[k].hold]
    ELSE [state |-> None, hold |-> FALSE]

NewVolumes(look, old) ==
    [k \in {KeyOf(t, look, old) : t \in Target} |->
        AdvancePressure(Measured(k, look, old), Prior(old, k))]

\* unknownCapacity: every target its own volume, held.
UnknownCapacity ==
    [at |-> 0, until |-> 0, volumes |-> [t \in Target |->
        [state |-> "measurement_unknown", hold |-> TRUE, available |-> Unknown, roots |-> {t}]]]

\* The writer transaction with the caller's clock: what it stores and what it returns.
Fresh(now) ==
    {[at |-> now, until |-> now + 2, volumes |-> NewVolumes(l, Expire(snapshot, now).volumes)] :
        l \in {look \in Looks : Sane(look)}}

Samples(now, force) ==
    IF now < snapshot.at
    THEN {[stored |-> snapshot, result |-> UnknownCapacity]}
    ELSE IF ~force /\ snapshot # Empty /\ now < snapshot.at + 1
    THEN {[stored |-> snapshot, result |-> snapshot]}
    ELSE {[stored |-> s, result |-> s] : s \in Fresh(now)}

CapacityRecovered(s) ==
    DOMAIN s.volumes # {} /\ \A k \in DOMAIN s.volumes : s.volumes[k].state = "target_recovered"

-----------------------------------------------------------------------------
(* The watcher's sampler. *)

Off == [pc |-> "off", now |-> 0, due |-> 0, until |-> 0]
Gone == [Off EXCEPT !.pc = "stale"]

WatcherStarts(w) ==
    /\ watch[w].pc \in {"off", "stale"}
    /\ watch' = [watch EXCEPT ![w] =
                    [pc |-> "waiting", now |-> 0, due |-> clock, until |-> clock + 2]]
    /\ UNCHANGED <<clock, snapshot, attempts, approval, scanLock, cyc>>

\* The timer fires.
WatcherTick(w) ==
    /\ watch[w].pc = "waiting" /\ clock >= watch[w].due
    /\ watch' = [watch EXCEPT ![w].pc = "sampling", ![w].now = clock, ![w].due = 0]
    /\ UNCHANGED <<clock, snapshot, attempts, approval, scanLock, cyc>>

Waits(w, until) ==
    watch' = [watch EXCEPT ![w] = [pc |-> "waiting", now |-> 0, due |-> watch[w].now + 1, until |-> until]]

\* The attempt commits and is published.  Once the stale timer is due too, select may
\* choose it instead and the result is lost.
WatcherSample(w) ==
    /\ watch[w].pc = "sampling"
    /\ \E o \in Samples(watch[w].now, FALSE) :
        /\ snapshot' = o.stored
        /\ \/ Waits(w, o.result.until)
           \/ /\ clock >= watch[w].until
              /\ watch' = [watch EXCEPT ![w] = Gone]
    /\ UNCHANGED <<clock, attempts, approval, scanLock, cyc>>

\* The attempt fails, times out or hangs.
WatcherFails(w) ==
    /\ watch[w].pc = "sampling"
    /\ IF clock >= watch[w].until
       THEN watch' = [watch EXCEPT ![w] = Gone]
       ELSE Waits(w, watch[w].until)
    /\ UNCHANGED <<clock, snapshot, attempts, approval, scanLock, cyc>>

-----------------------------------------------------------------------------
(* A cycle: its samples and runCapacityRecovery, under the scan lock. *)

Rest == [pc |-> "off", since |-> 0, approval |-> [s \in Store |-> 0], capacity |-> Empty,
         left |-> {}, store |-> None, estimate |-> 0, considered |-> 0, charged |-> 0,
         outcome |-> None, failed |-> FALSE]

At(c, l) == cyc[c].pc = l
Becomes(c, r) == cyc' = [cyc EXCEPT ![c] = r]
Goto(c, l) == Becomes(c, [cyc[c] EXCEPT !.pc = l, !.since = clock])

\* The cycle goes to l without its recovery state; the scan lock is released.
Leaves(c, l) ==
    /\ Becomes(c, [Rest EXCEPT !.pc = l, !.since = IF l = "off" THEN 0 ELSE clock])
    /\ scanLock' = IF scanLock = c THEN None ELSE scanLock

\* The policy is read before the scan lock is waited for.
CycleStarts(c) ==
    /\ At(c, "off")
    /\ Becomes(c, [Rest EXCEPT !.pc = "lock", !.approval = approval])
    /\ UNCHANGED <<clock, snapshot, attempts, approval, scanLock, watch>>

LockScan(c) ==
    /\ At(c, "lock") /\ scanLock = None
    /\ scanLock' = c
    /\ Goto(c, "sample")
    /\ UNCHANGED <<clock, snapshot, attempts, approval, watch>>

\* The samples of the scan and after it; a failure ends the cycle.
CycleSample(c) ==
    /\ At(c, "sample")
    /\ \/ /\ \E now \in cyc[c].since..clock : \E o \in Samples(now, FALSE) : snapshot' = o.stored
          /\ Goto(c, "force") /\ UNCHANGED scanLock
       \/ Leaves(c, "off") /\ UNCHANGED snapshot
    /\ UNCHANGED <<clock, attempts, approval, watch>>

\* The forced sample before recovery, then the plan: left becomes the candidates.
ForcedSample(c) ==
    /\ At(c, "force")
    /\ \/ \E now \in cyc[c].since..clock : \E o \in Samples(now, TRUE) :
            /\ snapshot' = o.stored
            /\ IF CapacityRecovered(o.result) THEN Leaves(c, "after")
               ELSE /\ \E L \in SUBSET Store :
                          Becomes(c, [cyc[c] EXCEPT !.pc = "next", !.capacity = o.result, !.left = L])
                    /\ UNCHANGED scanLock
       \/ Leaves(c, "off") /\ UNCHANGED snapshot
    /\ UNCHANGED <<clock, attempts, approval, watch>>

Remaining(c) == IF MaxPruneBytes < MaxBytes - cyc[c].charged
                THEN MaxPruneBytes ELSE MaxBytes - cyc[c].charged

\* No candidate is left, or the time, store or byte budget is used up.
Stop(c) ==
    /\ At(c, "next")
    /\ Goto(c, "final")
    /\ UNCHANGED <<clock, snapshot, attempts, approval, scanLock, watch>>

HasBudget(c) == cyc[c].considered < MaxStores /\ cyc[c].charged < MaxBytes

\* Its filesystem is unknown, cannot be measured now or has recovered.
Skip(c) ==
    /\ At(c, "next") /\ HasBudget(c)
    /\ \E s \in cyc[c].left : Becomes(c, [cyc[c] EXCEPT !.left = @ \ {s}])
    /\ UNCHANGED <<clock, snapshot, attempts, approval, scanLock, watch>>

Pressed(c, s) ==
    /\ Home[s] \in DOMAIN cyc[c].capacity.volumes
    /\ cyc[c].capacity.volumes[Home[s]].available # Unknown

\* The store is measured; one that is shared, unreadable or too large is skipped.
Consider(c) ==
    /\ At(c, "next") /\ HasBudget(c)
    /\ \E s \in cyc[c].left :
        /\ Pressed(c, s)
        /\ \/ \E size \in 1..MaxSize :
                /\ size <= Remaining(c)
                /\ Becomes(c, [cyc[c] EXCEPT !.pc = "claim", !.store = s, !.estimate = size,
                                             !.left = @ \ {s}, !.considered = @ + 1])
           \/ Becomes(c, [cyc[c] EXCEPT !.left = @ \ {s}, !.considered = @ + 1])
    /\ UNCHANGED <<clock, snapshot, attempts, approval, scanLock, watch>>

Mine(c) == cyc[c].approval[cyc[c].store]

\* store.ClaimCacheRecovery
Mut_Refuses(row, a) == row.outcome # None /\ row.outcome \in {"starting", "failed"} /\ row.approval = a
Refuses(row, a) ==
    /\ row.outcome # None
    /\ \/ row.outcome \in {"starting", "failed"} /\ row.approval = a
       \/ clock < row.at + RecoveryInterval

Claim(c) ==
    LET s == cyc[c].store IN
    /\ At(c, "claim")
    /\ \/ /\ Refuses(attempts[s], Mine(c))
          /\ Becomes(c, [cyc[c] EXCEPT !.pc = "next", !.store = None])
          /\ UNCHANGED attempts
       \/ /\ ~Refuses(attempts[s], Mine(c))
          /\ attempts' = [attempts EXCEPT ![s] =
                            [approval |-> Mine(c), at |-> clock, outcome |-> "starting"]]
          /\ Goto(c, "prune")
       \/ Goto(c, "final") /\ UNCHANGED attempts      \* the journal write fails
    /\ UNCHANGED <<clock, snapshot, approval, scanLock, watch>>

\* Approval, apply and preflight refuse before the provider runs: the pass will stop.
PruneRefused(c) ==
    /\ At(c, "prune")
    /\ Becomes(c, [cyc[c] EXCEPT !.pc = "finish", !.outcome = "refused", !.estimate = 0,
                                 !.failed = TRUE])
    /\ UNCHANGED <<clock, snapshot, attempts, approval, scanLock, watch>>

\* The store is measured again under the prune lock, against the estimate; then the
\* start is journalled, which may fail before the provider runs.
Mut_StoreBefore(c) == 0..MaxSize
StoreBefore(c) == {size \in 0..MaxSize : size <= cyc[c].estimate}

PruneStarts(c) ==
    /\ At(c, "prune")
    /\ \E size \in StoreBefore(c) :
        \/ Becomes(c, [cyc[c] EXCEPT !.pc = "running", !.estimate = size])
        \/ Becomes(c, [cyc[c] EXCEPT !.pc = "finish", !.outcome = "failed", !.estimate = size,
                                     !.failed = TRUE])
    /\ UNCHANGED <<clock, snapshot, attempts, approval, scanLock, watch>>

ProviderEnds(c) ==
    /\ At(c, "running")
    /\ \/ \E uncertain \in BOOLEAN :
             Becomes(c, [cyc[c] EXCEPT !.pc = "finish", !.outcome = "completed",
                                      !.failed = uncertain])
       \/ Becomes(c, [cyc[c] EXCEPT !.pc = "finish", !.outcome = "failed", !.failed = TRUE])
    /\ UNCHANGED <<clock, snapshot, attempts, approval, scanLock, watch>>

\* store.FinishCacheRecovery; its own write may fail.
FinishAttempt(c) ==
    LET s == cyc[c].store
        mine == attempts[s].outcome = "starting" /\ attempts[s].approval = Mine(c)
        charge == IF cyc[c].outcome = "refused" THEN 0 ELSE cyc[c].estimate IN
    /\ At(c, "finish")
    /\ \E written \in BOOLEAN :
        /\ attempts' = IF written /\ mine THEN [attempts EXCEPT ![s].outcome = cyc[c].outcome]
                       ELSE attempts
        /\ Becomes(c, [cyc[c] EXCEPT !.pc = "resample", !.since = clock, !.outcome = None,
                         !.store = None, !.estimate = 0, !.charged = @ + charge,
                         !.failed = @ \/ ~(written /\ mine)])
    /\ UNCHANGED <<clock, snapshot, approval, scanLock, watch>>

\* The forced sample after an attempt.
Resample(c) ==
    /\ At(c, "resample")
    /\ \/ \E now \in cyc[c].since..clock : \E o \in Samples(now, TRUE) :
            /\ snapshot' = o.stored
            /\ Becomes(c, [cyc[c] EXCEPT !.capacity = o.result,
                 !.pc = IF cyc[c].failed \/ CapacityRecovered(o.result) THEN "final" ELSE "next"])
       \/ /\ Becomes(c, [cyc[c] EXCEPT !.capacity = Empty, !.pc = "final"])
          /\ UNCHANGED snapshot
    /\ UNCHANGED <<clock, attempts, approval, scanLock, watch>>

\* Nothing recovered: volumes below their recovery threshold are held until they reach it.
Exhausted(s) ==
    [s EXCEPT !.volumes = [k \in DOMAIN @ |->
        LET v == @[k] IN
        IF Hysteresis(v) /\ v.state \notin {"target_recovered", "measurement_unknown"}
             /\ v.available # Unknown /\ Below(v)
        THEN [v EXCEPT !.state = "no_safe_reclaim", !.hold = TRUE]
        ELSE v]]

Final(c) ==
    /\ At(c, "final")
    /\ \/ /\ ~CapacityRecovered(cyc[c].capacity)
          /\ snapshot' = Exhausted(Expire(snapshot, clock))
       \/ UNCHANGED snapshot         \* recovered, or the write fails
    /\ Leaves(c, "after")
    /\ UNCHANGED <<clock, attempts, approval, watch>>

\* Quarantine, trims and expiry follow; after an expiry the targets are sampled again.
LateSample(c) ==
    /\ At(c, "after")
    /\ \/ \E now \in cyc[c].since..clock : \E o \in Samples(now, TRUE) : snapshot' = o.stored
       \/ UNCHANGED snapshot
    /\ Leaves(c, "off")
    /\ UNCHANGED <<clock, attempts, approval, watch>>

\* The process dies; a provider it was running is cut off, or runs on unobserved.
CycleDies(c) ==
    /\ ~At(c, "off")
    /\ Leaves(c, "off")
    /\ UNCHANGED <<clock, snapshot, attempts, approval, watch>>

-----------------------------------------------------------------------------

\* Timers that are due fire before the next tick.
ClockTick ==
    /\ clock < MaxClock
    /\ \A w \in Watcher : (watch[w].pc = "waiting") => (clock < watch[w].due)
    /\ \A w \in Watcher : (watch[w].pc = "sampling") => (clock < watch[w].until)
    /\ clock' = clock + 1
    /\ UNCHANGED <<snapshot, attempts, approval, scanLock, watch, cyc>>

\* The owner reconciles a store and issues an approval never used before.
OwnerApproves(s) ==
    /\ approval[s] < MaxApproval
    /\ approval' = [approval EXCEPT ![s] = @ + 1]
    /\ UNCHANGED <<clock, snapshot, attempts, scanLock, watch, cyc>>

CycleStep(c) ==
    \/ CycleStarts(c) \/ LockScan(c) \/ CycleSample(c) \/ ForcedSample(c)
    \/ Stop(c) \/ Skip(c) \/ Consider(c) \/ Claim(c)
    \/ PruneRefused(c) \/ PruneStarts(c) \/ ProviderEnds(c) \/ FinishAttempt(c)
    \/ Resample(c) \/ Final(c) \/ LateSample(c)

WatcherStep(w) == WatcherStarts(w) \/ WatcherTick(w) \/ WatcherSample(w) \/ WatcherFails(w)

CapacityInit ==
    /\ clock = 1
    /\ snapshot = Empty
    /\ attempts = [s \in Store |-> [approval |-> 0, at |-> 0, outcome |-> None]]
    /\ approval = [s \in Store |-> 0]
    /\ scanLock = None
    /\ watch = [w \in Watcher |-> Off]
    /\ cyc = [c \in Cycle |-> Rest]

CapacityNext ==
    \/ ClockTick
    \/ \E s \in Store : OwnerApproves(s)
    \/ \E w \in Watcher : WatcherStep(w)
    \/ \E c \in Cycle : CycleStep(c) \/ CycleDies(c)

CapacitySpec == CapacityInit /\ [][CapacityNext]_capacityVars

-----------------------------------------------------------------------------
(* Properties. *)

Attempt == [approval : 0..MaxApproval, at : Time,
            outcome : {None, "starting", "completed", "failed", "refused"}]

Snapshot == [at : Time, until : 0..MaxClock + 2, volumes : Volumes]

Pass == [pc : {"off", "lock", "sample", "force", "next", "claim", "prune", "running", "finish",
               "resample", "final", "after"},
         since : Time, approval : [Store -> 0..MaxApproval], capacity : Snapshot,
         left : SUBSET Store, store : Store \cup {None}, estimate : 0..MaxSize,
         considered : 0..MaxStores, charged : Nat,
         outcome : {None, "completed", "failed", "refused"}, failed : BOOLEAN]

\* The rows, the shared sample and every local of the samplers and of a recovery
\* pass keep their types; a volume that is stored has a state.
CapacityTypeOK ==
    /\ clock \in Time
    /\ snapshot \in Snapshot
    /\ \A k \in DOMAIN snapshot.volumes :
        snapshot.volumes[k].state # None /\ snapshot.volumes[k].roots # {}
    /\ attempts \in [Store -> Attempt]
    /\ approval \in [Store -> 0..MaxApproval]
    /\ scanLock \in Cycle \cup {None}
    /\ watch \in [Watcher -> [pc : {"off", "waiting", "sampling", "stale"}, now : Time,
                              due : 0..MaxClock + 1, until : 0..MaxClock + 2]]
    /\ cyc \in [Cycle -> Pass]

\* What a pass charges never exceeds max_bytes, although a store may grow between
\* its estimate and its prune (recovery.go:181-225, prune.go:98-109).
BudgetRespected ==
    \A c \in Cycle : cyc[c].charged + (IF At(c, "running") THEN cyc[c].estimate ELSE 0) <= MaxBytes

\* Two claims of one store are at least the recovery interval apart, across passes,
\* deaths and new approvals (cache_recovery.go:28-30; policy-reference.md "changing
\* approval does not bypass cooldown").
CooldownKept ==
    [][\A s \in Store :
        /\ attempts[s].outcome # None
        /\ attempts'[s] # attempts[s] /\ attempts'[s].outcome = "starting"
        => attempts'[s].at >= attempts[s].at + RecoveryInterval]_capacityVars

\* Where hysteresis is on, a hold ends only with a measurement of its filesystem at the
\* recovery threshold: not by a sample that failed in between, by one that went stale, by a
\* restart or by the end of a recovery pass (core/capacity.go:72-86).  Below it a target that was
\* held comes off its hold only by being measured on a filesystem other than the one held: a hold
\* is of a filesystem key, and one from samples none of which could measure the target is of no
\* filesystem (cli/capacity.go:71-82,124).
HoldReleasedAtRecovery ==
    [][\A k \in DOMAIN snapshot.volumes, l \in DOMAIN snapshot'.volumes :
        LET u == snapshot.volumes[k]
            v == snapshot'.volumes[l] IN
        u.hold /\ ~v.hold /\ Hysteresis(v) /\ (k = l \/ u.roots \cap v.roots # {}) =>
            \/ v.available >= RecoveryBytes(v)
            \/ l \in Device \ {k}]_capacityVars

=============================================================================
