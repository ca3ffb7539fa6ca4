SPECIFICATION FairSpec
CONSTANTS
    Requests = {p1, p2}
    Uploads = {u1}
    Files = {f1}
    NoFile = NoFile
    Chunks = 2
    MaxQuota = 2
    MaxDrift = 0
INVARIANTS
    UploadsInv
PROPERTIES
    EventuallyReleased
