\* inotify backend: events go through the per-connection queue; no daemon
\* death and one cancel, so no reconnect.
CONSTANTS
    p1 = p1
    p2 = p2
    Paths <- MCPaths1
    UseQueue = TRUE
    MaxEmits = 1
    MaxCrashes = 0
    MaxReqs = 2
    MaxCancels = 1
    ChosenReqnos = {}
    AutoReqnos = TRUE
SPECIFICATION Spec
CHECK_DEADLOCK FALSE
INVARIANTS
    TypeOK
    EventsMatchRequest
PROPERTIES
    FamRefinement
    QueueDrains
