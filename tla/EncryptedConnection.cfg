CONSTANTS
    Callers = {a, b}
    Closers = {a}
    Uses = {"close_later", "close in callback"}
    MaxSends = 1
    MaxFrames = 1
    MaxPackets = 1
SPECIFICATION FairSpec
INVARIANT OwnerIsServed
PROPERTY ConnectionsEnd
CHECK_DEADLOCK FALSE
