SPECIFICATION Spec
CHECK_DEADLOCK FALSE
CONSTANTS
    p1 = p1
    p2 = p2
    none = none
    empty = empty
    Procs = {p1, p2}
    Kinds = {"settings", "panel", "token", "squad", "name"}
    None = none
    Empty = empty
    MaxVersion = 2
    Faults = {"crash", "offline"}
  
PROPERTIES Converges
