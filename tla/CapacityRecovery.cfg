CONSTANTS
    c1 = c1  c2 = c2  s1 = s1  t1 = t1  d1 = d1  d2 = d2  w1 = w1
    Watcher = {w1}
    Cycle = {c1, c2}
    Target = {t1}
    Device = {d1, d2}
    Level <- LowOrEnough
    Reserve <- ReserveIsOne
    Goal <- GoalIsTwo
    Margin <- MarginIsOne
    Store = {s1}
    Home <- AllHome
    MaxStores = 1
    MaxBytes = 2
    MaxPruneBytes = 2
    MaxSize = 3
    RecoveryInterval = 1
    MaxApproval = 1
    MaxClock = 2
SPECIFICATION CapacitySpec
CHECK_DEADLOCK FALSE
SYMMETRY Passes
INVARIANTS
    BudgetRespected
PROPERTIES
    CooldownKept
    HoldReleasedAtRecovery
