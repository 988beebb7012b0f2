SPECIFICATION Spec
CONSTANTS
    p1 = p1
    p2 = p2
    Worker = {w1}
    Notifier = {p1, p2}
    Reconciler = p1
    MaxDepth = 2
    MaxRuns = 3
    MaxRedrives = 1
INVARIANT
    NoStrandedParent
CHECK_DEADLOCK FALSE
