CONSTANTS
    a = a  b = b  q = q
    Plain = {a}
    Protected = {q}
    Kinds = {"absent", "dir"}
    QueueSize = 1
    Settle = 1
    Gap = 1
    Churn = 1
    MaxFailures = 1
SPECIFICATION Spec
INVARIANTS
    ChangeIsOwed
    NewIsReported
