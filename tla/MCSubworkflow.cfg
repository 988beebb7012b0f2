SPECIFICATION Spec
CONSTANTS
    p1 = p1
    p2 = p2
    Worker = {w1}
    Notifier = {p1, p2}
    Reconciler = p1
    MaxDepth = 1
    MaxRuns = 3
    MaxRedrives = 1
INVARIANTS
    HandoffIsOwed
    ChildIsAwaited
    OutcomeIsTheChilds
CHECK_DEADLOCK FALSE
PROPERTY
    HandoffCompletes
