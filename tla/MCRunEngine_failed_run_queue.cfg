SPECIFICATION Spec
CONSTANTS
    a = a b = b c = c d = d
    NoNode = NoNode
    Node <- PairNodes
    Edge <- PairEdges
    Kind <- Tasks
    Candidates <- NoCandidates
    MaxAttempts <- AFirstTwice
    Escalating = {}
    Quarantining = {}
    Observing = {}
    Fallible = {a, b}
    CanCrash = FALSE
    MaxRedrives = 0
    MaxReplays = 0
    Worker = {w1, w2}
INVARIANTS
    FailedRunHasNoQueuedRows
CHECK_DEADLOCK FALSE
