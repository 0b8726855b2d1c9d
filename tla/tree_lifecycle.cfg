\* Two subscriptions over a directory /a with entries /a/x and /a/y that
\* may come and go, and a file /b at the top level; five calls of
\* subscribe, cancel or connection close. The model stops when its calls
\* and file operations are used up, as the idle daemon does.
CONSTANTS
    s1 = s1
    s2 = s2
    Paths <- MCPaths
    Dirs <- MCDirs
    Subs <- MCSubs
    MaxCalls = 5
    MaxOps = 2
SPECIFICATION Spec
CHECK_DEADLOCK FALSE
INVARIANTS TypeOK NoOrphans SubsInTree
