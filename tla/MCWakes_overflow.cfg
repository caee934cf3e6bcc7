CONSTANTS
    serve = serve
    cron = cron
    Ticker = {serve}
    CreatedAt <- Apart
    Unknown = {}
    ETags = TRUE
    Page = 3
    Limit = 2
    MaxCrashes = 0
    MaxFailures = 0
SPECIFICATION FairSpec
PROPERTIES
    Wakes
