SPECIFICATION Spec
CONSTANTS
    a = a b = b c = c d = d
    NoNode = NoNode
    Node <- PairNodes
    Edge <- PairEdges
    Kind <- Tasks
    Candidates <- NoCandidates
    MaxAttempts <- Once
    Escalating = {}
    Quarantining = {}
    Observing = {}
    Fallible = {a, b}
    CanCrash = FALSE
    MaxRedrives = 2
    MaxReplays = 0
    Worker = {w1, w2}
PROPERTIES
    RedriveRevivesRun
CHECK_DEADLOCK FALSE
