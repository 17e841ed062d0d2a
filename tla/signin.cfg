SPECIFICATION Spec
CHECK_DEADLOCK FALSE
CONSTANTS
    n1 = n1
    n2 = n2
    a1 = a1
    a2 = a2
    u1 = u1
    u2 = u2
    none = none
    Names = {n1, n2}
    Attempts = {a1, a2}
    Updates = {u1, u2}
    Methods = {"password", "passkey", "keycloak"}
    None = none
    MaxEdits = 1
    MaxColumns = 1
    Faults = {"upgrade"}
SYMMETRY Sym
INVARIANTS SomeMethod  OneAdmin
