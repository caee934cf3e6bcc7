CONSTANTS
    x1 = x1
    x2 = x2
    y1 = y1
    x = x
    y = y
    Run = {x1, x2, y1}
    Address = {x, y}
    At <- MCAt
    Operator = Operator
    Nobody = Nobody
    LogCap = 2
    MsgCap = 1
    MaxCrashes = 1
SPECIFICATION FairSpec
INVARIANTS
    TypeOK
    Accounted
    AtMostOnce
    InOrder
    AsResolved
PROPERTIES
    Delivered
CHECK_DEADLOCK FALSE
