SPECIFICATION FairSpec
CHECK_DEADLOCK FALSE

CONSTANTS
    Users = {u1}
    Requests = {}
    MaxTime = 1
    MaxBytes = 1
    NPasses = 1
    Rolling = 1
    Keep = Keep
    Jobs = {"serial", "extend", "reset"}

INVARIANTS
    LimitedHasReason
    ExpiredHasReason

PROPERTIES
    AccessEnds
    ReactivationEarned
