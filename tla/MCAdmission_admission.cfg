CONSTANTS
    a = a
    a1 = a1
    a2 = a2
    a3 = a3
    a11 = a11
    b = b
    Global = Global
    None = None
    Run <- Forest
    Parent <- MCParent
    Ceiling = 1
    MaxChildren = 2
    Restored <- NoneRestored
SPECIFICATION FairSpec
INVARIANTS
    TypeOK
    CeilingKept
    LentByAHolder
    NoDeadlock
PROPERTIES
    Served
CHECK_DEADLOCK FALSE
