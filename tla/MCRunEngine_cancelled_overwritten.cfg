SPECIFICATION Spec
CONSTANTS
    a = a b = b c = c d = d
    NoNode = NoNode
    Node <- PairNodes
    Edge <- PairEdges
    Kind <- Tasks
    Candidates <- NoCandidates
    MaxAttempts <- Once
    Escalating = {}
    Quarantining = {a}
    Observing = {}
    Fallible = {}
    CanCrash = FALSE
    MaxRedrives = 0
    MaxReplays = 0
    Worker = {w1, w2}
PROPERTIES
    CancellationIsFinal
CHECK_DEADLOCK FALSE
