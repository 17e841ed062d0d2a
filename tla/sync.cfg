SPECIFICATION Spec
CHECK_DEADLOCK FALSE
CONSTANTS
    u1 = u1
    n1 = n1
    t1 = t1
    t2 = t2
    none = none
    Users = {u1}
    Nodes = {n1}
    Tags = {t1, t2}
    ActiveTags <- OneActive
    NoCred = none
    MaxCred = 1
    MaxRequests = 3
    Faults = {"call", "crash", "refuse"}
INVARIANTS NodesAgree GoneAreGone
