SPECIFICATION HwidSpec
CHECK_DEADLOCK FALSE
CONSTANTS
    c1 = c1
    c2 = c2
    d1 = d1
    d2 = d2
    null = null
    Devices = {d1, d2}
    Callers = {c1, c2}
    Limits = {null, 0, 2}
    Default = null
    Fallback = 1
    MaxRequests = 3
    MaxChanges = 1
    HwidFaults = {"crash"}
INVARIANTS WithinLimit GoneStaysGone
 
