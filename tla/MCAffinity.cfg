CONSTANTS
    Threads = {t1, t2}
    Sessions = {s1, s2}
    Values = {b1}
    Ttl = 1
    RetainedTtl = 2
    MaxTime = 3
    NoEntry = NoEntry
    GcEvery = 2
SPECIFICATION FairSpec
INVARIANTS OpsBounded
PROPERTIES ImplementsMap StaleSwept
CHECK_DEADLOCK FALSE
