SPECIFICATION Spec
CONSTANTS
    p1 = p1
    p2 = p2
    g1 = g1
    g2 = g2
    None = None
    Proc <- TwoProcs
    Gate <- OneGate
    LoopGate <- OneGate
    PathScoped = TRUE
    OnTimeout <- FailFirst
    Budget <- ControlBudget
SYMMETRY Symmetry
INVARIANTS
    TypeOK
    ParkedXorDecided
    OneRunner
PROPERTIES
    DeadlineKept
    CancelledKept
    DecisionKept
CHECK_DEADLOCK FALSE
