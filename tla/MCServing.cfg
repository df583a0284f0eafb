SPECIFICATION Spec
CONSTANTS
    Requests = {r1, r2}
    a1 = a1
    a2 = a2
    a3 = a3
    p1 = p1
    p2 = p2
    m1 = m1
    m2 = m2
    all = all
    one = one
    Task = Task
    c1 = c1
    c2 = c2
    c3 = c3
    c4 = c4
    api = api
    chat = chat
    web = web
    Fixed <- MCFixed
    MaxEdits = 1
    MaxWorld = 1
    Bindings = {a1, a2, a3}
    ProviderOf <- MCProviderOf
    ModelIds = {m1, m2}
    Catalogue <- MCCatalogue
    Listings = {all, one}
    Allowed <- MCAllowed
    REFRESH_CONCURRENCY = 2
    Rounds = 2
    Connects = {c1, c2, c3, c4}
    Hosts = {api, chat, web}
    HostOf <- MCHostOf
    Capacity = 2
    RefreshAfter = 2
    Validity = 3
    MaxDelay = 1
    MaxClock = 4
    MaxReload = 2
    MaxRequests = 2
    MaxBytes = 2
    Route = "socks5"
    MaxAttempt = 1
    MaxLost = 2
    Tracked = {"usage"}
    MaxParts = 3
    MaxEvents = 6
    Interleaved = FALSE
    Reading <- MCReading
    Reloading <- MCReloading
    Nobody = Nobody
    NoLeaf = NoLeaf
    None = None
SYMMETRY Symmetry
INVARIANTS
    ReloadStands
    CachesSound
    ConnectSound
    ProgressExact
    TranslationFaithful
    

    
CHECK_DEADLOCK FALSE
