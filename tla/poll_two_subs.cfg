CONSTANTS
    s1 = s1
    s2 = s2
    d1 = d1
    d2 = d2
    DSubs <- MCSubs0
    Mixed = FALSE
    Subs <- MCSubs2
    MaxOps = 5
    Churn = FALSE
    QMax = 2
    MaxCalls = 4
SPECIFICATION Spec
INVARIANTS TypeOK WatchedOrPolled
PROPERTY BusyReleased
