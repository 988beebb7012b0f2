SPECIFICATION ResumedSpec
CONSTANTS
    hook = hook
    Doc = {hook}
    Contract <- MCContract
    CanaryKey = {}
    MinSample = 1
    MinRate = 50
    MaxVersions = 1
    MaxRollouts = 0
    MaxRuns = 2
    NoEvent = NoEvent
    Event = {e1, e2}
    Key = {outside}
    Request = {r1}
    RateMax = 2
    PageLimit = 1
    MaxFaults = 1
PROPERTIES
    BufferedEventsDrain
CHECK_DEADLOCK FALSE
