CONSTANTS
    serve = serve
    cron = cron
    Ticker = {serve, cron}
    Leased = TRUE
    Reconciled = TRUE
    MaxCrashes = 1
    Outcome <- MCOutcome
    Nobody = Nobody
SPECIFICATION FairSpec
INVARIANTS
    TypeOK
    CyclesExclude
PROPERTIES
    TakenUp
