CONSTANTS
    MaxReads = 1
    MaxWrites = 2
    MaxRecords = 2
    MaxFlights = 1
    HighWater = 2
SPECIFICATION FairSpec
INVARIANT WritesKept
INVARIANT NobodyForgotten
PROPERTY CallsAnswered
CHECK_DEADLOCK FALSE
