SPECIFICATION FairSpec
CONSTANTS
    c1 = c1
    w1 = w1
    w2 = w2
    b1 = b1
    b2 = b2
    NoTask = NoTask
    Closing = Closing
    Clients = {c1}
    Workers = {w1, w2}
    Backends = {b1, b2}
    Home <- HomeMC
    Rows = {r1, r2}
    Permits = 1
    MaxBatch = 1
    MaxRounds = 2
    MaxPasses = 2
INVARIANTS
    LimitsKept
    OneSender
    LockOwned
    EntryOwned
PROPERTIES
    EventuallyFlushed
