\* One subscription on a file that is created and deleted while the
\* subscription is alive: the file becomes busy and is then deleted.
CONSTANTS
    s1 = s1
    s2 = s2
    d1 = d1
    d2 = d2
    DSubs <- MCSubs0
    Mixed = FALSE
    Subs <- MCSubs1
    MaxOps = 4
    Churn = TRUE
    QMax = 4
    MaxCalls = 1
SPECIFICATION Spec
PROPERTY BusyReleased
