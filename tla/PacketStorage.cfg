CONSTANTS
    p1 = p1
    p2 = p2
    r1 = r1
    None = None
    Packets = {p1, p2}
    Receivers = {r1}
    ReceiverOf <- MCSameReceiver
    Removers = {1}
    Readers = {1}
    MaxRestarts = 1
    MaxDbFailures = 1
    MaxRemovals = 2
SPECIFICATION FairSpec
INVARIANT NotifiedDurable
INVARIANT KeysDoNotCollide
PROPERTY PendingMissesOnlyWritersPacket
PROPERTY StorageImplementsStore
PROPERTY AllSettled
CHECK_DEADLOCK FALSE
