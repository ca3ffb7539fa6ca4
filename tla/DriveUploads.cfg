SPECIFICATION Spec
CONSTANTS
    Requests = {p1, p2}
    Uploads = {u1, u2}
    Files = {f1, f2}
    NoFile = NoFile
    Chunks = 1
    MaxQuota = 2
    MaxDrift = 1
SYMMETRY Symmetry
INVARIANTS
    ObjectKept
    ToldTrue
    UsedExact
PROPERTIES
    NeverOvercommitted
