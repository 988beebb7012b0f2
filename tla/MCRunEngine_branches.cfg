SPECIFICATION Spec
CONSTANTS
    a = a b = b c = c d = d
    NoNode = NoNode
    Node <- BranchNodes
    Edge <- BranchEdges
    Kind <- Tasks
    Candidates <- NoCandidates
    MaxAttempts <- AFirstTwice
    Escalating = {}
    Quarantining = {}
    Observing = {}
    Fallible = {a, b}
    CanCrash = TRUE
    MaxRedrives = 1
    MaxReplays = 0
    Worker = {w1, w2}
SYMMETRY WorkerSymmetry
INVARIANTS
    DependenciesFirst
    NoStrandedRun
    ExecutionFailureIsRecoverable
PROPERTIES
    SucceededRunIsSettled
    OutcomesAreFinal
    ImplementsContract
CHECK_DEADLOCK FALSE
