CONSTANTS
    serve = serve
    cron = cron
    Ticker = {serve, cron}
    CreatedAt <- Apart
    Unknown = {2}
    ETags = FALSE
    Page = 3
    Limit = 2
    MaxCrashes = 1
    MaxFailures = 2
SPECIFICATION FairSpec
INVARIANTS
    EventKept
PROPERTIES
    WokenOnce
    Wakes
