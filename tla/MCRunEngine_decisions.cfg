SPECIFICATION Spec
CONSTANTS
    a = a b = b c = c d = d
    NoNode = NoNode
    Node <- BranchNodes
    Edge <- RouterEdges
    Kind <- RouterKinds
    Candidates <- RouterCandidates
    MaxAttempts <- Once
    Escalating = {}
    Quarantining = {b, c}
    Observing = {d}
    Fallible = {b}
    CanCrash = FALSE
    MaxRedrives = 1
    MaxReplays = 1
    Worker = {w1, w2}
SYMMETRY WorkerSymmetry
INVARIANTS
    RouterIsExclusive
    QuarantineHoldsRun
    QuarantineContainsOutcome
    OneClaimPerGeneration
    CreditIsEarned
CHECK_DEADLOCK FALSE
