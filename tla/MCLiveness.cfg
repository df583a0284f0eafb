SPECIFICATION Spec
CONSTANTS
    r1 = r1
    r2 = r2
    a1 = a1
    a2 = a2
    a3 = a3
    NoSession = NoSession
    NoBinding = NoBinding
    NoEvent = NoEvent
    NoFile = NoFile
    Nobody = Nobody
    None = None
PROPERTIES
    EveryoneAnswered
    RoundRobinRetained
    ReloadSettles
    SessionsEnd
CHECK_DEADLOCK FALSE
