SPECIFICATION Spec
CONSTANTS
    Absent = Absent
    Contexts <- MCContexts
    Channels = {"tls", "tls2"}
    Base = 2
    HeaderSize = 2
    MaxFrame = 2
    MaxHandshake = 1
    Payloads <- MCPayloads
    MaxFrames = 3
    Sessions = {s1}
    Signals = "late"
    RootKey = root
    Keys = {ca, srv}
    Hosts <- Dotless
    HostNames <- MCHostNames
    Levels = {0, 1, 2}
    AnyLevel = 1000
    MaxChain = 2
    MaxCerts = 3
    MaxFlawed = 2
    NoCert = NoCert
    None = None
    MaxThrows = 1
    MaxRestarts = 1
    Width = 4
    MaxWrites = 3
    MaxNest = 2
    MaxCrashes = 1
    MaxCreates = 3
    MaxStops = 2
    InRowKeys = {1, 2, 3}
    MaxArrivals = 3
    MaxInHandles = 3
    MaxInCrashes = 1
    Parts = {"server"}
CHECK_DEADLOCK FALSE
PROPERTY CloseEndsWait
