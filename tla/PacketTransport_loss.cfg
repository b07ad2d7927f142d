CONSTANTS
    alice = alice
    bob = bob
    p1 = p1
    p2 = p2
    None = None
    Clients = {alice, bob}
    Packets = {p1, p2}
    SenderOf <- MCFromAlice
    ReceiverOf <- MCToBob
    ConnsOf <- MCNoReceiver
    MaxConns = 2
    MaxStored = 3
    BreaksOf <- MCSenderBreaksTwice
SYMMETRY MCSymmetry
SPECIFICATION Spec
INVARIANT SentIsNeverLost
CHECK_DEADLOCK FALSE
