SPECIFICATION FairSpec
CONSTANTS
    Sends = {s1, s2}
    Capabilities = {k1, k2}
    DeviceLists = {d1}
    Flushes = {f1}
    Strays = {x1}
    MaxSeq = 2
    MaxBatch = 2
    MaxPruned = 1
INVARIANTS
    StoredOnce
PROPERTIES
    EventuallySettled
