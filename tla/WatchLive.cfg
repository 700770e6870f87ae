CONSTANTS
    a = a  b = b  q = q
    Plain = {}
    Protected = {q}
    Kinds = {"absent", "dir", "file"}
    QueueSize = 1
    Settle = 1
    Gap = 2
    Churn = 1
    MaxFailures = 1
SPECIFICATION FairSpec
PROPERTIES
    ChangesAreScanned
    RevisitsSpaced
