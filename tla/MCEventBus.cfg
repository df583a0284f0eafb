CONSTANTS
    Streams = {s1, s2}
    Plain = {p1, p2}
    Shutdown = Shutdown
    Handlers = {h1, h2}
    Capacity = 2
SPECIFICATION FairSpec
INVARIANTS DeliverySound ShutdownSound
PROPERTIES ShutdownReturns
CHECK_DEADLOCK FALSE
