CONSTANTS
    p1 = p1
    p2 = p2
    r1 = r1
    None = None
    Packets = {p1, p2}
    Receivers = {r1}
    ReceiverOf <- MCSameReceiver
    Removers = {1}
    Readers = {1}
    MaxRestarts = 0
    MaxDbFailures = 0
    MaxRemovals = 1
SPECIFICATION Spec
INVARIANT ClosePurgesQueues
CHECK_DEADLOCK FALSE
