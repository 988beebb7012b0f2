SPECIFICATION Spec
CONSTANTS
    a = a b = b c = c d = d
    NoNode = NoNode
    Node <- PairNodes
    Edge <- PairEdges
    Kind <- Tasks
    Candidates <- NoCandidates
    MaxAttempts <- AFirstTwice
    Escalating = {}
    Quarantining = {}
    Observing = {}
    Fallible = {a}
    CanCrash = FALSE
    MaxRedrives = 0
    MaxReplays = 1
    Worker = {w1, w2}
PROPERTIES
    ReplayIsHarmless
CHECK_DEADLOCK FALSE
