SPECIFICATION Spec
CONSTANTS
    Sends = {s1, s2}
    DeviceLists = {d1, d2}
    NoDevices = NoDevices
    Clients = {c1}
    Workers = {w1}
    MaxSeq = 2
    MaxPruned = 1
SYMMETRY Symmetry
INVARIANTS
    TypeOK
    NothingLost
    NoGap
    StoredOnce
    AnswersAgree
    ClientTruth
PROPERTIES
    SettledStays
    ImplementsStream
