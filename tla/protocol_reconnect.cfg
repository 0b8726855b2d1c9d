\* Direct writes (dnotify/poll backends), one daemon death and caller-chosen
\* reqnos (FAMMonitorFile2): the reconnect path of the library.
CONSTANTS
    p1 = p1
    p2 = p2
    Paths <- MCPaths1
    UseQueue = FALSE
    MaxEmits = 1
    MaxCrashes = 1
    MaxReqs = 2
    MaxCancels = 1
    ChosenReqnos = {1, 2}
    AutoReqnos = FALSE
SPECIFICATION Spec
CHECK_DEADLOCK FALSE
INVARIANTS
    EventsMatchRequest
PROPERTIES
    ReconnectResubscribes
