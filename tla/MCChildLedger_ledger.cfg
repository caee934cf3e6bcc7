CONSTANTS
    Run <- Siblings
    Prior <- SiblingsPrior
    Sweeper = Sweeper
    Nobody = Nobody
    MaxGone = 2
SPECIFICATION FairSpec
INVARIANTS
    TypeOK
    TakenOnOnce
    NoStray
PROPERTIES
    EndStands
    TakenOn
CHECK_DEADLOCK FALSE
