SPECIFICATION FairSpec

CONSTANTS
    Nodes = {n1}
    Users = {u1}
    Jobs = {j1}
    Multiplier <- Double
    IgnoreBelow = 0
    MaxBytes = 2
    Faults = {"node", "redis", "db", "crash"}

CHECK_DEADLOCK FALSE

INVARIANTS
    TypeOK
    HistoryExact
    ChargedOnce
    ResetAlone

PROPERTIES
    HistoryLedgerSpec
    Flushed
    QueuesResume
