SPECIFICATION Spec

CONSTANTS
    Users = {u1}
    Requests = {r1, r2}
    MaxTime = 1
    MaxBytes = 1
    NPasses = 1
    Rolling = 2
    Keep = Keep
    Jobs = {}

SYMMETRY Sym

CHECK_DEADLOCK FALSE

INVARIANTS
    StatusInv

PROPERTIES
    DisabledSticks
    LifecycleSpec
