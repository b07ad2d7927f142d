SPECIFICATION Spec
CONSTANTS
    Wide = 3
    MaxStructure = 256
    MaxConstructed = 256
    MaxDepth = 3
    MaxBuffer = 20
    Packets <- MCPackets
    Absent = Absent
    MaxPackets = 2
    Emitters = {e1, e2}
    MaxEvents = 3
    MaxConnects = 2
    Size = 3
    BufferSize = 2
    MaxSound = 5
    MaxOut = 6
    MaxStarts = 2
    Files <- MCFiles
    Targets <- MCTargets
    MaxFmtSize = 2
    MaxDataSize = 4
    MaxChannels = 2
    MaxRate = 3
    HalfChar = 2
    MaxMixes = 2
    Multipliers <- MCMultipliers
    HalfShort = 8
    HalfInt24 = 16
    MaxSaves = 1
    Nothing = Nothing
    Chars = {"a", "b"}
    FieldWidth = 2
    MaxText = 3
    MaxHistory = 2
    MaxKeys = 7
    Widgets = {w1, w2}
    Callers = {c1}
    NoWidget = NoWidget
    MaxInputs = 2
    MaxCalls = 3
    Calls = {"c1", "c2"}
    Chains <- MCChains
    Completers = {"io", "drop"}
    MaxCompletions = 2
    OctetValues = {0, 1}
    MaxData = 2
    CounterRange = 16
    MaxMessages = 2
    MaxReads = 2
    PrivateKeys <- MCPrivateKeys
    MaxRecipients = 2
    NoMessage = NoMessage
    Parts = {"packets", "broadcast", "devices", "files", "line", "console", "tasks", "streams", "envelopes"}
INVARIANT DocumentsKept
INVARIANT PacketsOnce
INVARIANT BroadcastsHeard
INVARIANT AudioKept
INVARIANT SoundKept
INVARIANT EditsAsMeant
INVARIANT WidgetsStill
INVARIANT ResultsPassed
INVARIANT SealedOpens
PROPERTY StopEndsWait
PROPERTY ConsoleAnswers
CHECK_DEADLOCK FALSE
