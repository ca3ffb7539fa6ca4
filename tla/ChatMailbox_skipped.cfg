SPECIFICATION Spec
CONSTANTS
    Sends = {s1, s2}
    Multi = {}
    Devices = {d1}
    Online = {d1}
    MaxCursor = 2
    PageSize = 1
INVARIANT
    NothingSkipped
CHECK_DEADLOCK FALSE
