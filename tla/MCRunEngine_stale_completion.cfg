SPECIFICATION Spec
CONSTANTS
    a = a b = b c = c d = d
    NoNode = NoNode
    Node <- PairNodes
    Edge <- PairEdges
    Kind <- Tasks
    Candidates <- NoCandidates
    MaxAttempts <- Once
    Escalating = {}
    Quarantining = {}
    Observing = {}
    Fallible = {}
    CanCrash = FALSE
    MaxRedrives = 1
    MaxReplays = 0
    Worker = {w1, w2}
PROPERTIES
    CompletionMatchesGeneration
CHECK_DEADLOCK FALSE
