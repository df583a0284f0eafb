CONSTANTS
    a1 = a1
    a2 = a2
    a3 = a3
    f1 = f1
    Requests = {r1, r2}
    Order <- MCOrder
    NoSession = NoSession
    NoBinding = NoBinding
    Active = {a1, a2}
    Fallback = {}
    Sessions = {}
    Queries <- TwoModels
    Base = 0
    Ttl = 0
    MaxRetries = 0
    MaxCooldownExponent = 5
    FailureLimit = 1
    CursorModulus = 2
    ReadLag = 0
    MaxTime = 0
SPECIFICATION TrafficSpec
PROPERTIES RoundRobinRetained
