SPECIFICATION FairSpec
CONSTANTS
    p1 = p1
    p2 = p2
    g1 = g1
    g2 = g2
    None = None
    Proc <- TwoProcs
    Gate <- TwoGates
    LoopGate <- NoGate
    PathScoped = TRUE
    OnTimeout <- ApproveFirst
    Budget <- ServedBudget
PROPERTIES
    DecisionServed
    TimeoutServed
CHECK_DEADLOCK FALSE
