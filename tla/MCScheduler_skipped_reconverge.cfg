CONSTANTS
    Node     <- Nodes
    Workflow <- ArmsMeet
    Budget   <- JustAPause
SPECIFICATION Spec
INVARIANTS
    ReconvergeRuns
