SPECIFICATION Spec
CONSTANTS
    Tabs = {t1, t2, t3}
    NoTab = NoTab
    Copy = Copy
    MaxToken = 4
    MaxAsks = 5
INVARIANTS
    TokensInv
    ClearedOnlyEnded
CHECK_DEADLOCK FALSE
