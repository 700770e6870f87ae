CONSTANTS
    s1 = s1  a1 = a1  a2 = a2  pl1 = pl1  pl2 = pl2
    o1 = o1  o2 = o2  o3 = o3
    Proc = {p1}
    Source = {s1}
    Action = {a1}
    Plan = {pl1}
    Batch = {1}
    Obj = {o1, o2, o3}
    Linked = {o1}
    PathOf <- OnePath
    PlanOf <- OnePlan
    Ino <- ReusedInode
    Retention = 1
    MaxTime = 0
    MaxVer = 1
    Outside = {"create", "remove", "move", "touch", "replace", "fail", "crash", "repair", "calm"}
    NoObj = NoObj  NoProc = NoProc  NoPlan = NoPlan
SPECIFICATION FairSpec
CHECK_DEADLOCK FALSE
INVARIANTS
    MovedWasChecked
PROPERTIES
    NeverOverwrites
    RestorableIsRestored
