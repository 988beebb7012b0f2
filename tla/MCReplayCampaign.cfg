SPECIFICATION Spec
CONSTANTS
    c1 = c1 p1 = p1 p2 = p2
    Campaign = {c1}
    Letter <- Letters
    Pump = {p1, p2}
    MaxTokens = 4
    MaxFaults = 2
INVARIANTS
    ReplayedItemIsItsOwn
    CountersMatchItems
PROPERTIES
    CampaignDrains
CHECK_DEADLOCK FALSE
