CONSTANTS
    Node     <- Nodes
    Workflow <- Shapes
    Budget   <- OneOrTwo
SPECIFICATION FairSpec
INVARIANTS
    TypeOK
    DependenciesFirst
    DoneIsComplete
    PrunedIsDead
PROPERTIES
    KeepsPromise
    Ends
