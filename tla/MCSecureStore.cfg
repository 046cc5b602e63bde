SPECIFICATION Spec
CONSTANTS
    Calls = {c1, c2, c3}
    Values = {v1, v2}
    Keys = {k1, k2, k3, k4, k5}
    None = None
    Unreadable = Unreadable
SYMMETRY Interchangeable
INVARIANTS CreationIsShared
PROPERTIES ImplementsRegister
