SPECIFICATION Spec
CONSTANTS
    Certs = {c1}
    Nodes = {n1}
    Requests = {r1}
    Params = {p1, p2}
    Validity = 2
    RenewBefore = 0
    MaxRetry = 0
    MaxFails = 0
    Faults = {}
    None = None
    Keep = Keep
CHECK_DEADLOCK FALSE
PROPERTY KeepsServing
