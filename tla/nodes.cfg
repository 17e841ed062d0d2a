SPECIFICATION Spec
CHECK_DEADLOCK FALSE
CONSTANTS
    n1 = n1
    p1 = p1
    none = none
    Nodes = {n1}
    Profiles = {p1}
    None = none
    Requests = {"restart", "enable", "disable", "delete", "update", "modify", "profile", "restartAll"}
    MaxRequests = 2
    Faults = {"node", "refuse", "query", "crash"}
    MaxFaults = 1
INVARIANTS  ConfigDelivered DisabledQuiet
PROPERTIES  Reconnects
