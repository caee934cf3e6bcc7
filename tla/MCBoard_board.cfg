CONSTANTS
    a = a
    s = s
    Bus = {a, s}
    Session = {s}
    MaxGrants = 3
    MaxCrashes = 1
    Nobody = Nobody
SPECIFICATION FairSpec
INVARIANTS
    TypeOK
    JournalTrue
PROPERTIES
    KeepsLease
    ComesFree
CHECK_DEADLOCK FALSE
