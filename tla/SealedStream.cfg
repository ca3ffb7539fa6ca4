SPECIFICATION Spec
CONSTANTS
    Sends = {s1, s2}
    Capabilities = {k1}
    DeviceLists = {d1, d2}
    Flushes = {f1, f2}
    Strays = {x1}
    MaxSeq = 2
    MaxBatch = 2
    MaxPruned = 0
SYMMETRY Symmetry
INVARIANTS
    StreamInv
    AnswersAgree
PROPERTIES
    ImplementsStream
