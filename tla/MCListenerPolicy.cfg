SPECIFICATION Spec
CONSTANTS
    i1 = i1
    i2 = i2
    i3 = i3
    p1 = p1
    None = None
    DnsHosts <- MCDnsHosts
    IpHosts <- MCIpHosts
    Paths <- MCPaths
    Ports = {80, 443, 8080}
    MethodNames = {"GET", "POST", "PUT"}
    Operations = {"responses"}
    Profiles = {p1}
    ApiProfiles = {}
    RawBindings <- MCBindings
    RawConnectRules <- MCConnectRules
    RawConnectActions = {"intercept", "tunnel", "reject"}
    RawListeners <- MCListeners
    Ids = {i1, i2, i3}
    MaxRules = 3
CONSTRAINT Small
SYMMETRY IdSymmetry
INVARIANTS RefusalSound PlanSound
CHECK_DEADLOCK FALSE
