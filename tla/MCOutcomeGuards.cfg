SPECIFICATION GuardSpec
CONSTANTS
    hook = hook
    cron = cron
    inside = inside
    outside = outside
    Doc = {hook, cron}
    Contract <- MCContract
    Key = {inside, outside}
    CanaryKey = {inside}
    MinSample = 2
    MinRate = 60
    MaxVersions = 3
    MaxRollouts = 2
    MaxRuns = 2
    Threshold = 2
    Source = {feed}
    MaxEvents = 2
INVARIANTS
    ActiveRolloutIsDeployable
    NoActiveBreach
    CountersAreEarned
    NoUnnoticedStreak
CONSTRAINT GuardBudget
SYMMETRY GuardSymmetry
CHECK_DEADLOCK FALSE
