SPECIFICATION FairSpec
CHECK_DEADLOCK FALSE

CONSTANTS
    Certs = {c1, c2}
    Nodes = {}
    Requests = {}
    Params = {p1}
    Validity = 2
    RenewBefore = 1
    MaxRetry = 2
    MaxFails = 1
    Faults = {"dns", "crash"}
    None = None
    Keep = Keep

INVARIANTS
    IssuingInFlight
    

PROPERTIES
    Renewed
