SPECIFICATION Spec
CONSTANTS
    Clients = {c1, c2}
    Repeaters = {c1}
    Executed = {"ok"}
    Keys = {k1, k2}
    PendingCap = 2
    CompletedCap = 1
    LargeCap = 1
    Attempt = 1
    Retention = 3
    MaxClock = 3
    MaxInstances = 2
    None = None
SYMMETRY MCSymmetry
INVARIANTS
    AppliedOnce
    VerdictIsTrue
    BudgetsBalance
CHECK_DEADLOCK FALSE
