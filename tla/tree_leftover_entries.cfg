\* Subscriptions below the directory /a only (no file at the top level).
CONSTANTS
    s1 = s1
    s2 = s2
    Paths <- MCPathsNested
    Dirs <- MCDirs
    Subs <- MCSubs
    MaxCalls = 4
    MaxOps = 0
SPECIFICATION Spec
CHECK_DEADLOCK FALSE
INVARIANT TreeReleased
