CONSTANTS
    c = c  d = d  w = w  u = u
    Cycle = {c}
    Watcher = {w}
    Command = {d}
    Proc <- Procs
    NoProc = NoProc
    Release <- Releases
    MaxSchema = 3
    Options <- Policies
    User = {u}
    DeepInterval = 1
    AlertInterval = 1
    MaxClock = 1
    MaxEvents = 2
SPECIFICATION Spec
INVARIANTS
    SchemaIsWhole
    TrimIsSafe
PROPERTIES
    OnRecord
    CompletionIsEarned
