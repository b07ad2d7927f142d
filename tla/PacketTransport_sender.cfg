CONSTANTS
    alice = alice
    bob = bob
    p1 = p1
    p2 = p2
    None = None
    Clients = {alice, bob}
    Packets = {p1, p2}
    SenderOf <- MCFromAlice
    ReceiverOf <- MCToBob
    ConnsOf <- MCNoReceiver
    MaxConns = 2
    MaxStored = 2
    BreaksOf <- MCSenderBreaksTwice
    Receivers = {r}
    NoReceiver = NoReceiver
    Others = {c1}
    Delays = {1}
    Repeating = {FALSE}
    MaxEvents = 1
    MaxTimers = 1
    MaxTime = 2
    Parts = {"sender"}
SYMMETRY MCSymmetry
SPECIFICATION MCSafety
INVARIANT FreshKeyIsNeverLost
CHECK_DEADLOCK FALSE
