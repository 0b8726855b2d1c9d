CONSTANTS
    s1 = s1
    s2 = s2
    d1 = d1
    d2 = d2
    DSubs <- MCSubs0
    Mixed = FALSE
    Subs <- MCSubs2
    MaxOps = 1
    Churn = FALSE
    QMax = 1
    MaxCalls = 2
SPECIFICATION Spec
PROPERTY ChangeReported
