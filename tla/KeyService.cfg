SPECIFICATION FairSpec
CONSTANTS
    a = a  c1 = c1  c2 = c2  k1 = k1  bad = bad  x1 = x1
    None = None
    Clients = {a}
    Calls = {c1, c2}
    ClientOf <- MCClientOf
    Asks <- MCAsks
    Awaited = {c1}
    Keys = {k1, bad}
    BadKeys = {bad}
    CertIds = {x1}
    HeldCerts = {x1}
    MaxLives = 2
    MaxFaults = 1
INVARIANT CallersServed
PROPERTY RequestsAnswered
CHECK_DEADLOCK FALSE
