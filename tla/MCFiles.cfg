SPECIFICATION Spec
CONSTANTS
    Workers = {w1, w2}
    other = other
    main = main
    extra = extra
    account = account
    Providers = {p1, p2}
    setup = setup
    set = set
    legacy = legacy
    guarded = guarded
    replace = replace
    editor = editor
    again = again
    Rotation <- MCRotation
    Crashing <- MCCrashing
    Callers <- MCCallers
    SKEW = 2
    Delay = 2
    Lifetimes = {3, 6}
    Calls = 1
    LastCall = 0
    Locked <- MCLocked
    Outside <- MCOutside
    Commands = {w1, w2}
    MaxPlans = 2
    MaxEdits = 1
    MaxTokens = 2
    Authority <- MCAuthority
    Renewal <- MCRenewal
    Nobody = Nobody
    Absent = Absent
    None = None
    NoFile = NoFile
    Torn = Torn
SYMMETRY Symmetry
INVARIANTS
    CredentialsKept
    TokenUsable
    EditsSerial
    AgentRecoverable
    AuthorityAgreed
PROPERTIES
    NoBlindWrite
CHECK_DEADLOCK FALSE
