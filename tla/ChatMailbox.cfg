SPECIFICATION FairSpec
CONSTANTS
    Sends = {s1, s2}
    Multi = {s2}
    Devices = {d1, d2}
    Online = {d1}
    MaxCursor = 2
    PageSize = 1
INVARIANTS
    MailboxInv
    AckedHandled
    ReadOnce
PROPERTIES
    StoredForListed
    EventuallyHandled
CHECK_DEADLOCK FALSE
