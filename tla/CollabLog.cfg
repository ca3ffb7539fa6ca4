SPECIFICATION Spec
CONSTANTS
    Tabs = {t1, t2}
    Present = {t1}
    Savers = {t1}
    Edits = {e1, e2}
    NoTab = NoTab
    MaxOpens = 1
    MaxSaves = 1
    MaxFaults = 1
SYMMETRY EditSymmetry
INVARIANTS
    LogInv
    AppliedComplete
    FreshComplete
    RestComplete
CHECK_DEADLOCK FALSE
