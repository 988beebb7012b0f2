SPECIFICATION Spec
CONSTANTS
    a = a b = b c = c d = d
    NoNode = NoNode
    Node <- HandlerNodes
    Edge <- HandlerEdges
    Kind <- Tasks
    Candidates <- NoCandidates
    MaxAttempts <- BTwice
    Escalating = {}
    Quarantining = {c}
    Observing = {}
    Fallible = {a, b, d}
    CanCrash = FALSE
    MaxRedrives = 2
    MaxReplays = 0
    Worker = {w1, w2, w3}
SYMMETRY WorkerSymmetry
INVARIANTS
    NoStrandedRun
CHECK_DEADLOCK FALSE
