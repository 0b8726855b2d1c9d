\* One daemon death, then a new FAMMonitorFile while an old request is kept.
CONSTANTS
    p1 = p1
    p2 = p2
    Paths <- MCPaths1
    UseQueue = FALSE
    MaxEmits = 0
    MaxCrashes = 1
    MaxReqs = 2
    MaxCancels = 1
    ChosenReqnos = {}
    AutoReqnos = TRUE
SPECIFICATION Spec
CHECK_DEADLOCK FALSE
PROPERTY
    ReconnectResubscribes
