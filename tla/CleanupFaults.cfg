CONSTANTS
    s1 = s1  a1 = a1  a2 = a2  pl1 = pl1  pl2 = pl2
    o1 = o1  o2 = o2  o3 = o3
    Proc = {p1, p2}
    Source = {s1}
    Action = {a1, a2}
    Plan = {pl1, pl2}
    Batch = {1, 2}
    Obj = {o1, o2}
    Linked = {}
    PathOf <- OnePath
    PlanOf <- TwoPlans
    Ino <- ReusedInode
    Retention = 1
    MaxTime = 1
    MaxVer = 0
    Outside = {"create", "remove", "fail", "crash"}
    NoObj = NoObj  NoProc = NoProc  NoPlan = NoPlan
SPECIFICATION Spec
SYMMETRY Procs
CHECK_DEADLOCK FALSE
INVARIANTS
    TypeOK
    NoOrphan
    DeletedWasMarked
PROPERTIES
    RetentionHonoured
    ImplementsCustody
