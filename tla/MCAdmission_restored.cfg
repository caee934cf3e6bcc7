CONSTANTS
    a = a
    a1 = a1
    a2 = a2
    a3 = a3
    a11 = a11
    b = b
    Global = Global
    None = None
    Run <- Family
    Parent <- MCParent
    Ceiling = 1
    MaxChildren = 1
    Restored <- Child
SPECIFICATION Spec
INVARIANTS
    NoDeadlock
CHECK_DEADLOCK FALSE
