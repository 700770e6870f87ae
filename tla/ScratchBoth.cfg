CONSTANTS
    a = a  b = b
    Name = {a}
    Cycle = {"cycle"}
    Watcher = {"watch"}
    Hand = {}
    Restorer = {"restore"}
    NoProc = "none"
    Every <- Cadence
    Idles = {2}
    RegenerableIdle = 2
    MaxClock = 3
    MaxEvents = 1
SPECIFICATION Spec
CHECK_DEADLOCK FALSE
INVARIANTS
    RestorableByReceipt
PROPERTIES
    SavedOrRegenerable
    LatestPolicyObeyed
    IdleHonoured
