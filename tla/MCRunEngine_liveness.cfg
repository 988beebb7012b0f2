SPECIFICATION FairSpec
CONSTANTS
    a = a b = b c = c d = d
    NoNode = NoNode
    Node <- WaitNodes
    Edge <- WaitEdges
    Kind <- WaitKindsOf
    Candidates <- NoCandidates
    MaxAttempts <- CTwice
    Escalating = {b}
    Quarantining = {}
    Observing = {}
    Fallible = {a, c}
    CanCrash = TRUE
    MaxRedrives = 1
    MaxReplays = 0
    Worker = {w1}
INVARIANTS
    WaitingRowHasItsClock
PROPERTIES
    DeadlineIsItsOwn
    RunSettles
CHECK_DEADLOCK FALSE
