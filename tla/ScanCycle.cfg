CONSTANTS
    watch = watch  hand = hand
    Scanners = {hand}
    Hand = {hand}
    Cycle = "cycle"
    RecentLimit = 1
    PerSecond = 2
    DeepInterval = 1
    DeepOutcomes = {TRUE, FALSE}
    MaxScans = 3
    MaxClock = 3
    MaxFailures = 1
SPECIFICATION Spec
CHECK_DEADLOCK FALSE
INVARIANTS
    CycleStaysBound
    ComparedWithPredecessor
PROPERTIES
    AuditIsKept
    DeepPairKept
