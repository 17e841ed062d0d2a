SPECIFICATION Spec
CHECK_DEADLOCK FALSE

CONSTANTS
    Certs = {c1}
    Nodes = {n1}
    Requests = {r1}
    Params = {p1, p2}
    Validity = 0
    RenewBefore = 0
    MaxRetry = 0
    MaxFails = 0
    Faults = {"db"}
    None = None
    Keep = Keep

SYMMETRY Sym

INVARIANTS
    TypeOK
    MaterialKept
    ImportedNeverOrdered
