CONSTANTS
    p1 = p1  p2 = p2
    Run = {p1, p2}
    MaxDay = 2
    MaxScan = 2
    Dim <- Dims
    Cap <- SmallCap
    Offers <- Pair
    MaxRetries = 1
    BreakerFailures = 2
SPECIFICATION Spec
SYMMETRY Launches
CHECK_DEADLOCK FALSE
INVARIANTS
    OneLateRequest
    CompleteIsComplete
PROPERTIES
    ImplementsSpendGate
    SentFromTodaysCycle
