SPECIFICATION IngestSpec
CONSTANTS
    hook = hook
    Doc = {hook}
    Contract <- MCContract
    CanaryKey = {inside}
    MinSample = 1
    MinRate = 50
    MaxVersions = 2
    MaxRollouts = 1
    MaxRuns = 2
    NoEvent = NoEvent
    Event = {e1, e2}
    Key = {inside, outside}
    Request = {r1, r2}
    RateMax = 1
    PageLimit = 1
    MaxFaults = 1
SYMMETRY IngestSymmetry
INVARIANTS
    OneRunPerEvent
    BudgetSpentOnce
    DeliveryKeepsCapture
    ArmIsTruthful
CHECK_DEADLOCK FALSE
