SPECIFICATION Spec
CONSTANTS
    Sessions = {s1, s2, s3}
    Changers = {c1, c2}
    None = None
    MaxChanges = 2
    Budgets <- BudgetsMC
SYMMETRY Alike
INVARIANTS
    GrantsInv
    StandsOnPassword
    StaysEnded
CHECK_DEADLOCK FALSE
