CONSTANTS
    a1 = a1
    a2 = a2
    a3 = a3
    f1 = f1
    Requests = {r1, r2}
    Order <- MCOrder
    NoSession = NoSession
    NoBinding = NoBinding
    Active = {a1}
    Fallback = {f1}
    Sessions = {s1}
    Queries <- RoutingQueries
    Base = 1
    Ttl = 1
    MaxRetries = 1
    MaxCooldownExponent = 1
    FailureLimit = 2
    CursorModulus = 1
    ReadLag = 1
    MaxTime = 1
SPECIFICATION Spec
SYMMETRY MCSymmetry
INVARIANTS RoutingSafe CooldownBounded
PROPERTIES FailureNeverShortens
