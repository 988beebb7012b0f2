SPECIFICATION GuardSpec
CONSTANTS
    hook = hook
    cron = cron
    inside = inside
    outside = outside
    Doc = {hook}
    Contract <- MCContract
    Key = {inside, outside}
    CanaryKey = {inside}
    MinSample = 2
    MinRate = 60
    MaxVersions = 2
    MaxRollouts = 1
    MaxRuns = 3
    Threshold = 2
    Source = {feedA, feedB}
    MaxEvents = 2
INVARIANT
    UpstreamPauseHolds
CHECK_DEADLOCK FALSE
