SPECIFICATION ScheduleSpec
CONSTANTS
    daily = daily
    manual = manual
    Doc = {daily, manual}
    Contract <- MCContract
    Scheduled <- MCScheduled
    CanaryKey <- MCCanaryKey
    MinSample = 1
    MinRate = 50
    MaxVersions = 2
    MaxRollouts = 1
    MaxRuns = 3
    Replica = {p, q}
    Instants = {1, 2, 9}
    MaxTime = 2
    MaxEntries = 2
    MaxFaults = 1
    CanCorrupt = TRUE
INVARIANTS
    OneRunPerInstant
    EntryFollowsLatest
PROPERTIES
    ClaimIsAnswered
    TickSettles
CHECK_DEADLOCK FALSE
