\* Request tables of up to 5 reqnos from 1..6 with every probe in 0..7;
\* every /etc/mtab of up to 3 lines over the mount points /, /a and /ab
\* with every path of up to 3 characters; every choice of at most one line
\* per configuration file; every choice of at most one poll/notify
\* line per file with both paths probed; every stream of up to 3 packets
\* (a bare CANCEL header, short and full-length paths) cut by 4 reads of
\* 0, 1, 2 or 6 units; every trace of up to 6 mtab rewrites (to an ext3 or
\* an nfs root), clock seconds and lookups; every input of a subscription's
\* routing.
CONSTANTS
    MaxReqno = 6
    MaxLen = 5
    MtabLines <- MCMtabLines
    MaxMtab = 3
    Probes <- MCProbes
    ConfLines <- MCConfLines
    XLines <- MCXLines
    XPaths <- MCXPaths
    StaticPatterns <- MCStaticPatterns
    MaxPkts = 3
    FrameLens = {2, 3, 4, 6}
    ReadSizes = {0, 1, 2, 6}
    FrameCalls = 4
    MtabVersions <- MCMtabVersions
    MaxSteps = 6
SPECIFICATION Spec
INVARIANTS
    ReqIdxCorrect
    ReqLocCorrect
    MountLookupCorrect
    ConfOverrides
    ConfiguredBeforeStatic
    ClientFraming
    ServerFraming
    MtabStaleOnlyWithinSecond
    SubscriptionReleasedOnce
