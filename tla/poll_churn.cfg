\* One file subscription or one directory subscription (never both at
\* once); the file is written, deleted and re-created up to 8 times,
\* enough to make the file or the directory busy and to move them between
\* the missing and busy lists. Two API calls: a subscribe and an
\* unsubscribe.
CONSTANTS
    s1 = s1
    s2 = s2
    d1 = d1
    d2 = d2
    DSubs <- MCDSubs1
    Mixed = FALSE
    Subs <- MCSubs1
    MaxOps = 8
    Churn = TRUE
    QMax = 8
    MaxCalls = 2
SPECIFICATION Spec
INVARIANT WatchedOrPolled
PROPERTY ChangeReported
