----------------------------- MODULE MCAlgorithms -----------------------------
(***************************************************************************)
(* Checks the pure algorithms of the project against reference           *)
(* definitions over bounded inputs:                                       *)
(*  - the request-table searches of gam_data.c, over every sorted table   *)
(*    of at most MaxLen distinct reqnos from 1..MaxReqno and every probed *)
(*    reqno around them;                                                  *)
(*  - the mount lookup of gam_fs.c, over every /etc/mtab of at most       *)
(*    MaxMtab lines from MtabLines and every probed path;                 *)
(*  - the file-system type table filled by gam_fs_init and the three      *)
(*    configuration files, each of at most one line from ConfLines;      *)
(*  - the exclude list of gam_excludes.c filled by the poll/notify lines  *)
(*    of the three files (at most one line each from XLines) and then the *)
(*    static patterns, over every probed path of XPaths;                  *)
(*  - the packet framing of gam_data.c and gam_connection.c, over every   *)
(*    stream of at most MaxPkts packets of the lengths FrameLens and      *)
(*    every sequence of FrameCalls reads of the sizes ReadSizes;          *)
(*  - the mtab cache of gam_fs_init, over every trace of at most MaxSteps *)
(*    rewrites of /etc/mtab (to one of MtabVersions), clock seconds and   *)
(*    lookups;                                                            *)
(*  - the routing of one subscription to a backend and its release, over  *)
(*    both builds, excluded or not, every type at add and at release, a   *)
(*    failing inotify watch, and a cancel or a connection close.         *)
(* A state is one input; Next leaves it unchanged.                         *)
(***************************************************************************)
EXTENDS GamReqTable, GamFs, GamExcludes, GamFraming, GamRouting, FiniteSets

CONSTANTS MaxReqno, MaxLen, MtabLines, MaxMtab, Probes, ConfLines, XLines, XPaths,
          MaxPkts, FrameLens, ReadSizes, FrameCalls, MtabVersions, MaxSteps

VARIABLES t, r, mtab, probe, conf, xconf, xprobe, fpkts, freads, mt, rt
vars == <<t, r, mtab, probe, conf, xconf, xprobe, fpkts, freads, mt, rt>>

Reqnos == 1..MaxReqno

\* Every strictly increasing table of reqnos, as the library should keep it.
SortedTables ==
    { [i \in 1..Cardinality(S) |-> [reqno |-> SetToSortSeq(S, <)[i],
                                     state |-> REQ_INIT]]
        : S \in {S \in SUBSET Reqnos : Cardinality(S) <= MaxLen} }

ConfFiles == {<<>>} \cup {<<l>> : l \in ConfLines}
XFiles == {<<>>} \cup {<<l>> : l \in XLines}

\* Two paths, one under /mnt; a pattern is the set of these it matches.
MCXPaths == {"/mnt/a", "/home/a"}
\* /media/*, /mnt/*, /dev/* and /proc/*
MCStaticPatterns == <<{}, {"/mnt/a"}, {}, {}>>
Empty   == [kind |-> "empty", pat |-> {}]
Comment == [kind |-> "comment", pat |-> {}]
Rel     == [kind |-> "rel", pat |-> {"/home/a"}]      \* e.g. "home/*"
Home    == [kind |-> "home", pat |-> {"/home/a"}]     \* "~/*" for /home
AbsMnt  == [kind |-> "abs", pat |-> {"/mnt/a"}]       \* "/mnt/a"
AbsBoth == [kind |-> "abs", pat |-> {"/mnt/a", "/home/a"}]  \* "/*/a"
\* poll and notify lines with each kind of word, a comment before a
\* pattern, a skipped word before one, and a line of another command.
MCXLines ==
    [cmd : {"poll", "notify"},
     words : {<<w>> : w \in {Empty, Comment, Rel, Home, AbsMnt, AbsBoth}}
             \cup {<<Comment, AbsMnt>>, <<Rel, AbsMnt>>, <<Empty, Home>>}]
    \cup {[cmd |-> "fsset", words |-> <<AbsMnt>>]}

\* Paths over the characters "/", "a" and "b": the mount points /, /a and
\* /ab, with /a a string prefix of /ab.
Root == <<"/">>
MntA == <<"/", "a">>
MntAB == <<"/", "a", "b">>
MCProbes == {<<"/">> \o w : w \in BoundedSeq({"/", "a", "b"}, 2)}

\* Valid lines on each mount point with a polled and a kernel type, and
\* one line of each kind the scan skips.
MCMtabLines ==
    [nw : {3}, dir : {Root, MntA, MntAB}, type : {"ext3", "nfs"}]
    \cup { [nw |-> 0, dir |-> <<>>, type |-> ""],
           [nw |-> 2, dir |-> Root, type |-> ""],
           [nw |-> 3, dir |-> <<>>, type |-> "nfs"],
           [nw |-> 3, dir |-> MntA, type |-> ""] }

\* fsset lines for a default type and a new one, every method word and a
\* timeout given or not, and lines the fsset branch skips.
MCConfLines ==
    [cmd : {"fsset"}, name : {"nfs", "xfs"}, method : {"kernel", "poll", "bogus"},
     timeout : {-1, 7}]
    \cup { [cmd |-> "fsset", name |-> "", method |-> "poll", timeout |-> -1],
           [cmd |-> "fsset", name |-> "nfs", method |-> "", timeout |-> 7],
           [cmd |-> "poll", name |-> "nfs", method |-> "kernel", timeout |-> 7] }

\* The three kinds of input, each with the others at a fixed value.
NoConf == <<<<>>, <<>>, <<>>>>
NoFrames == fpkts = <<>> /\ freads = <<>>
Inputs ==
    \/ /\ t \in SortedTables /\ r \in 0..(MaxReqno + 1)
       /\ mtab = <<>> /\ probe = <<"/">> /\ conf = NoConf
       /\ xconf = NoConf /\ xprobe = "/mnt/a" /\ NoFrames
    \/ /\ t = <<>> /\ r = 0 /\ conf = NoConf /\ xconf = NoConf /\ xprobe = "/mnt/a"
       /\ mtab \in BoundedSeq(MtabLines, MaxMtab) /\ probe \in Probes /\ NoFrames
    \/ /\ t = <<>> /\ r = 0 /\ mtab = <<>> /\ probe = <<"/">>
       /\ conf \in ConfFiles \X ConfFiles \X ConfFiles
       /\ xconf = NoConf /\ xprobe = "/mnt/a" /\ NoFrames
    \/ /\ t = <<>> /\ r = 0 /\ mtab = <<>> /\ probe = <<"/">> /\ conf = NoConf
       /\ xconf \in XFiles \X XFiles \X XFiles /\ xprobe \in XPaths /\ NoFrames
    \/ /\ t = <<>> /\ r = 0 /\ mtab = <<>> /\ probe = <<"/">> /\ conf = NoConf
       /\ xconf = NoConf /\ xprobe = "/mnt/a"
       /\ fpkts \in BoundedSeq([len : FrameLens, ok : BOOLEAN], MaxPkts)
       /\ freads \in [1..FrameCalls -> ReadSizes]

\* /etc/mtab at the start is the first version, written in second 0.
MCMtabVersions == << <<[nw |-> 3, dir |-> Root, type |-> "ext3"]>>,
                     <<[nw |-> 3, dir |-> Root, type |-> "nfs"]>> >>
\* Another process rewrites /etc/mtab, the clock moves to the next second,
\* or the daemon calls gam_fs_init (through gam_fs_get_mon_type,
\* gam_fs_get_poll_timeout or gam_fs_set).
MtabSteps == [op : {"write"}, v : DOMAIN MtabVersions] \cup [op : {"tick", "lookup"}]
\* A subscription's inputs: inotify running or not, the path excluded or
\* not, whether ih_sub_add succeeds, the type gam_fs_get_mon_type gives
\* at the add and at the release, and how it ends.
RtInputs == [inot : BOOLEAN, excl : BOOLEAN, ok : BOOLEAN,
             tyAdd : {KERNEL, POLL, NONE}, tyEnd : {KERNEL, POLL, NONE},
             end : {"cancel", "close"}]
Rt0 == [inot |-> FALSE, excl |-> FALSE, ok |-> TRUE, tyAdd |-> KERNEL,
        tyEnd |-> KERNEL, end |-> "cancel"]
NoOther == /\ t = <<>> /\ r = 0 /\ mtab = <<>> /\ probe = <<"/">> /\ conf = NoConf
           /\ xconf = NoConf /\ xprobe = "/mnt/a" /\ NoFrames
Init ==
    \/ Inputs /\ mt = <<>> /\ rt = Rt0
    \/ NoOther /\ mt \in BoundedSeq(MtabSteps, MaxSteps) /\ rt = Rt0
    \/ NoOther /\ mt = <<>> /\ rt \in RtInputs
Next == UNCHANGED vars
Spec == Init /\ [][Next]_vars

\* Reference: positions (0-based) of entries holding r.
Positions(tab, n) == {i \in 0..(Len(tab) - 1) : tab[i + 1].reqno = n}
\* Reference: number of entries below n, the sorted insertion point.
Below(tab, n) == Cardinality({i \in 1..Len(tab) : tab[i].reqno < n})

\* gamin_data_get_req_idx finds the entry holding r exactly when the
\* sorted table has one, and reports -1 otherwise.
ReqIdxCorrect ==
    ReqIdx(t, r) = IF Positions(t, r) = {} THEN -1
                   ELSE CHOOSE i \in Positions(t, r) : TRUE

\* gamin_data_get_req_loc returns the slot that keeps the table sorted when
\* r is absent; when r is present it returns -1 or r's own slot, and
\* gamin_data_add_req2 (FAMMonitorFile2) rejects exactly the reqnos in use.
\* So add_req2 never duplicates a reqno nor breaks the order the searches
\* rely on.
ReqLocCorrect ==
    /\ Positions(t, r) = {} => ReqLoc(t, r) = Below(t, r)
    /\ Positions(t, r) # {} => ReqLoc(t, r) \in Positions(t, r) \cup {-1}
    /\ CanAddReq2(t, r) <=> Positions(t, r) = {}
    /\ CanAddReq2(t, r) =>
         IsSortedTable(AddReq2(t, [reqno |-> r, state |-> REQ_INIT]))

\* Reference: the mtab line that decides the path's file system: among
\* the valid lines whose mount point is a prefix of the path, the longest,
\* and of several mounts on the same point the last one, which hides the
\* others.
Visible(lines, p) ==
    LET V == {i \in 1..Len(lines) : ValidMtab(lines[i]) /\ IsPrefix(lines[i].dir, p)}
    IN  IF V = {} THEN NoFs
        ELSE LET b == CHOOSE i \in V : \A j \in V :
                         \/ Len(lines[j].dir) < Len(lines[i].dir)
                         \/ Len(lines[j].dir) = Len(lines[i].dir) /\ j <= i
             IN  [path |-> lines[b].dir, fsname |-> lines[b].type]

\* gam_fs_get_mon_type after gam_fs_scan_mtab finds the visible mount of a
\* path: the prepending of the scan and the stable longest-first sort
\* together make an over-mount hide what it covers, and the path is
\* polled exactly when that mount's type is one the defaults poll.
MountLookupCorrect ==
    /\ FindFs(ScanMtab(mtab), probe) = Visible(mtab, probe)
    /\ GetMonType(ScanMtab(mtab), DefaultProps, probe) =
         IF Visible(mtab, probe).fsname \in {"nfs", "novfs"} THEN POLL ELSE KERNEL

\* The environment after a trace: the clock, the version in /etc/mtab and
\* its st_mtime (the second of the last rewrite), and the daemon's cache,
\* first filled when gam_conf_read calls gam_fs_set at start.
MtabEnv0 == [clock |-> 0, ver |-> 1, mtime |-> 0,
             fs |-> FsInit(FsCache0, MtabVersions[1], 0)]
MtabStep(e, st) ==
    CASE st.op = "write" -> [e EXCEPT !.ver = st.v, !.mtime = e.clock]
      [] st.op = "tick"  -> [e EXCEPT !.clock = @ + 1]
      [] OTHER           -> [e EXCEPT !.fs = FsInit(@, MtabVersions[e.ver], e.mtime)]
MtabAfter(k) == FoldLeft(MtabStep, MtabEnv0, SubSeq(mt, 1, k))
\* step 0 is the first gam_fs_init at start
IsLookup(i) == i = 0 \/ mt[i].op = "lookup"

\* gam_fs_init re-reads /etc/mtab only when its st_mtime changed, so the
\* mount list a lookup uses can be older than the file; that happens only
\* when /etc/mtab was rewritten after an earlier lookup within the same
\* second, and never when rewrites and lookups fall in different seconds.
MtabStaleOnlyWithinSecond ==
    \A k \in DOMAIN mt :
      mt[k].op = "lookup" /\
      MtabAfter(k).fs.filesystems # ScanMtab(MtabVersions[MtabAfter(k).ver])
        => \E i \in 0..k, j \in 1..k :
             i < j /\ IsLookup(i) /\ mt[j].op = "write" /\
             MtabAfter(i).clock = MtabAfter(j).clock

\* The subscription after gam_connection_request added it and it was
\* then cancelled or its connection closed.
Released ==
    LET sb == AddSubscription(Sub0, rt.inot, rt.excl, rt.tyAdd, rt.ok)
    IN  IF rt.end = "cancel" THEN Cancel(sb, rt.inot, rt.excl, rt.tyEnd)
        ELSE Close(sb, rt.inot, rt.excl, rt.tyEnd)

\* gam_add_subscription, gam_remove_subscription and the free decisions
\* of gam_connection_request and gam_listener_free_subscription each
\* decide on their own where a subscription is: together they leave a
\* routed subscription held by no engine, off its listener's list and
\* freed exactly once, in either build, excluded or not, and whether or
\* not its inotify watch could be set.  This needs the path's type to be
\* the same at add and at release, except in a dnotify build, where both
\* routes end in the poll engine and a remount in between is harmless.
SubscriptionReleasedOnce ==
    /\ rt.tyAdd # NONE /\ rt.tyEnd # NONE
    /\ ~rt.inot \/ rt.tyAdd = rt.tyEnd
    => Released = [held |-> {}, listed |-> FALSE, frees |-> 1, closed |-> FALSE]

\* Reference: every setting for a type, defaults first, then the fsset
\* lines of gaminrc, ~/.gaminrc and mandatory_gaminrc in order.
Settings ==
    DefaultSettings \o
      [i \in 1..Len(SelectSeq(conf[1] \o conf[2] \o conf[3], IsFsset)) |->
         LET l == SelectSeq(conf[1] \o conf[2] \o conf[3], IsFsset)[i]
         IN  [name |-> l.name, type |-> StringToMonType(l.method), timeout |-> l.timeout]]

\* After the configuration is read, each file-system type has one entry:
\* the method of its last setting, so the mandatory file overrides the
\* others, and the last timeout given (a missing one keeps the earlier),
\* or the default when none ever was.
ConfOverrides ==
    \A n \in {Settings[i].name : i \in DOMAIN Settings} :
      LET mine == {i \in DOMAIN Settings : Settings[i].name = n}
          given == {i \in mine : Settings[i].timeout >= 0}
          props == ConfRead(conf[1], conf[2], conf[3])
      IN  /\ Cardinality({i \in DOMAIN props : props[i].name = n}) = 1
          /\ props[PropIdx(props, n)].type = Settings[Max(mine)].type
          /\ props[PropIdx(props, n)].timeout =
               IF given = {} THEN DEFAULT_POLL_TIMEOUT ELSE Settings[Max(given)].timeout

\* Reference: the configured patterns matching the probe, as <<line, word>>
\* positions in gaminrc, ~/.gaminrc, mandatory_gaminrc order: words of a
\* poll or notify line that start with '~' or '/' and follow no comment.
XAll == xconf[1] \o xconf[2] \o xconf[3]
Configured ==
    { <<i, j>> \in (DOMAIN XAll) \X (1..2) :
        /\ XAll[i].cmd \in {"poll", "notify"} /\ j \in DOMAIN XAll[i].words
        /\ XAll[i].words[j].kind \in {"home", "abs"}
        /\ \A k \in 1..(j - 1) : XAll[i].words[k].kind # "comment"
        /\ xprobe \in XAll[i].words[j].pat }
Earliest(S) == CHOOSE c \in S : \A d \in S : c[1] < d[1] \/ (c[1] = d[1] /\ c[2] <= d[2])

\* gam_init_subscriptions calls gam_conf_read before gam_exclude_init,
\* so the poll/notify patterns of the configuration files come before
\* the built-in /media, /mnt, /dev and /proc patterns: a path some
\* configured pattern matches is decided by one of the configured
\* patterns that match it (a "notify /mnt/..." line re-enables the
\* kernel for a path the built-in /mnt/* would poll), and only a path no
\* configured pattern matches is decided by the static ones.  Which of
\* the files wins is not stated: the first matching pattern decides, so
\* gaminrc beats mandatory_gaminrc, against the comment of gam_conf_read.
ConfiguredBeforeStatic ==
    LET got == ExcludeCheck(InitExcludes(xconf[1], xconf[2], xconf[3]), xprobe)
    IN  IF Configured = {}
        THEN got = \E k \in DOMAIN StaticPatterns : xprobe \in StaticPatterns[k]
        ELSE \E c \in Configured : got = (XAll[c[1]].cmd = "poll")

\* Reference: the bytes of the first n packets of the stream.
LenOf(n) == Len(Stream(SubSeq(fpkts, 1, n)))

\* gamin_data_conn_data, gamin_data_read_event and gamin_data_event_ready
\* under FAMNextEvent, for any way the daemon's events arrive in reads:
\* every packet is scanned once and in order, never from a cut header;
\* the application gets exactly the accepted ones, in order; the bytes
\* held and still to read are exactly those after the packets done; and
\* no call blocks in read() while a complete event is already held.
ClientFraming ==
    (\A i \in DOMAIN fpkts : fpkts[i].len > Hdr) =>
    LET res  == ClientRun(fpkts, freads)
        done == IF res.ready THEN Front(res.seen) ELSE res.seen
    IN  /\ ~res.err /\ ~res.stuck
        /\ res.seen = [i \in 1..Len(res.seen) |-> i]
        /\ res.got = SelectSeq(done, LAMBDA i : fpkts[i].ok)
        /\ res.buf \o res.wire = Drop(Stream(fpkts), LenOf(Len(done)))

\* gam_connection_data under gam_client_conn_read, for any way the
\* library's requests arrive in reads: every request is served once and
\* in order; the connection fails only on a request that fails, never on
\* a cut header; and after each read no complete request is left waiting.
ServerFraming ==
    LET res == ServerRun(fpkts, freads)
        n   == Len(res.seen)
    IN  /\ res.seen = [i \in 1..n |-> i]
        /\ IF res.err
           THEN n > 0 /\ ~fpkts[n].ok /\ \A i \in 1..(n - 1) : fpkts[i].ok
           ELSE /\ \A i \in 1..n : fpkts[i].ok
                /\ res.buf \o res.wire = Drop(Stream(fpkts), LenOf(n))
                /\ Len(res.buf) < Hdr \/ Len(res.buf) < PktLen(fpkts, res.buf)
================================================================================
