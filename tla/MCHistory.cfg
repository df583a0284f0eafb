SPECIFICATION Spec
CONSTANTS
    single = single
    thread = thread
    a = a
    b = b
    usage = usage
    d1 = d1
    d2 = d2
    p1 = p1
    p2 = p2
    api = api
    proxy = proxy
    c1 = c1
    c2 = c2
    c3 = c3
    Ids = {r1, r2}
    Kinds <- MCKinds
    MaxDay = 2
    CacheCap = 1
    ArchiveAfter = 1
    PruneAfter = 1
    MaxCrashes = 1
    MaxFiles = 3
    Attempts = {single}
    Emitted <- MCEmitted
    MaxUsage = 2
    Faulty = TRUE
    Tree <- MCTree
    Lone <- MCLone
    Shared = {usage}
    Captured = {d1, d2}
    Capture <- MCCapture
    LiveRows <- MCLiveRows
    RestoredRow <- MCRestoredRow
    MaxDayFiles = 5
    MaxDeaths = 1
    Upgrade <- MCUpgrade
    Race <- MCRace
    Listeners = {api, proxy}
    HttpListeners = {api}
    Connections = {c1, c2, c3}
    ListenerOf <- MCListenerOf
    NoEvent = NoEvent
    NoFile = NoFile
    None = None
SYMMETRY Symmetry
INVARIANTS
    
    UsageRecorded
    
    ImportAtomic
    MigrationsSafe
    DrainSafe
PROPERTIES
    CopiesFaithful
CHECK_DEADLOCK FALSE
