CONSTANTS
    alice = alice
    bob = bob
    p1 = p1
    p2 = p2
    None = None
    Clients = {alice, bob}
    Packets = {p1}
    SenderOf <- MCFromAlice
    ReceiverOf <- MCToBob
    ConnsOf <- MCBothBack
    MaxConns = 3
    MaxStored = 3
    BreaksOf <- MCEachOnce
    Receivers = {r}
    NoReceiver = NoReceiver
    Others = {c1}
    Delays = {1, 2}
    Repeating = {TRUE, FALSE}
    MaxEvents = 2
    MaxTimers = 2
    MaxTime = 3
    Parts = {"sender", "receiver", "loop"}
SPECIFICATION MCSpec
INVARIANT ReceiversServed
INVARIANT NeverSleepsOnWork
INVARIANT AckedMeansReceived
PROPERTY SentLeavesTable
PROPERTY StoredReachesReceiver
PROPERTY LoopAnswers
CHECK_DEADLOCK FALSE
