SPECIFICATION ScanSpec
CONSTANTS
    Node <- MCNode
    Workflows <- MCWorkflows
    InitStatuses <- MCInitStatuses
INVARIANTS
    ScanIsOrderIndependent
CHECK_DEADLOCK FALSE
