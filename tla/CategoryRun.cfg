CONSTANTS
    x1 = x1  x2 = x2  c1 = c1  r1 = r1
    Path = {x1, x2}
    PolicyFile <- OpenOrKept
    Version <- Versions
    KeepNewest = 1
    Cycle = {c1}
    Restorer = {r1}
    NoProc = NoProc
    Idle = 0
    LocalRetention = 0
    Retention = 1
    MaxItems = 1
    MaxClock = 2
    MaxEvents = 2
    MaxArchives = 2
SPECIFICATION Spec
CHECK_DEADLOCK FALSE
INVARIANTS
    DeletedIsArchived
PROPERTIES
    RestoredIsNotDeleted
    KeepIsHonoured
    SupersededIsNotArchived
