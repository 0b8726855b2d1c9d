CONSTANTS
    s1 = s1
    s2 = s2
    d1 = d1
    d2 = d2
    DSubs <- MCSubs0
    Mixed = FALSE
    Subs <- MCSubs1
    MaxOps = 6
    Churn = TRUE
    QMax = 6
    MaxCalls = 4
SPECIFICATION Spec
INVARIANT WatchedOrPolled
