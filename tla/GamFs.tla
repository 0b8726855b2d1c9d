-------------------------------- MODULE GamFs --------------------------------
(***************************************************************************)
(* The file-system type table of the daemon (src/server/gam_fs.c) and the *)
(* fsset lines of the configuration files that fill it                    *)
(* (src/server/gam_conf.c).  gam_fs_get_mon_type decides for a path       *)
(* whether gam_add_subscription routes it to the kernel backend or to     *)
(* polling.                                                                *)
(*                                                                         *)
(* A path is a sequence of characters, because the mount lookup compares *)
(* strings by prefix.  An /etc/mtab line is abstracted to what            *)
(* gam_fs_scan_mtab reads of its words: how many there are (nw), the      *)
(* mount point words[1] (dir) and the type words[2] (type); an empty line *)
(* has nw = 0.  A configuration line is abstracted to its first word      *)
(* (cmd), the fsset arguments (name, method) and the atoi of the optional *)
(* timeout, -1 when it is absent.                                          *)
(***************************************************************************)
EXTENDS Integers, Sequences, SequencesExt

KERNEL == "kernel"     \* GFS_MT_KERNEL
POLL   == "poll"       \* GFS_MT_POLL
NONE   == "none"       \* GFS_MT_NONE
\* GFS_MT_DEFAULT when a kernel backend is built (dnotify or inotify)
DEFAULT == KERNEL
DEFAULT_POLL_TIMEOUT == 0

\* the NULL result of gam_fs_find_fs
NoFs == [path |-> <<>>, fsname |-> ""]

\* the checks of gam_fs_scan_mtab on a line: not empty, three words, the
\* mount point and the type not empty
ValidMtab(l) == l.nw >= 3 /\ l.dir # <<>> /\ l.type # ""

\* gam_fs_filesystem_sort_cb under g_list_sort, a stable merge sort: x
\* goes after every entry whose path is at least as long
RECURSIVE InsertByLen(_, _)
InsertByLen(x, s) ==
    IF s = <<>> \/ Len(Head(s).path) < Len(x.path) THEN <<x>> \o s
    ELSE <<Head(s)>> \o InsertByLen(x, Tail(s))

SortByLen(s) == FoldLeft(LAMBDA acc, x : InsertByLen(x, acc), <<>>, s)

\* mutant: the entries are appended in mtab order instead of prepended
ScanMtabAppend(lines) ==
    SortByLen([i \in 1..Len(SelectSeq(lines, ValidMtab)) |->
                 [path |-> SelectSeq(lines, ValidMtab)[i].dir,
                  fsname |-> SelectSeq(lines, ValidMtab)[i].type]])

\* gam_fs_scan_mtab: every valid line is prepended to the new list, which
\* is then sorted longest mount point first
ScanMtab(lines) ==
    SortByLen(FoldLeft(LAMBDA acc, l : IF ValidMtab(l)
                                         THEN <<[path |-> l.dir, fsname |-> l.type]>> \o acc
                                         ELSE acc,
                       <<>>, lines))

\* What gam_fs_init keeps between calls about /etc/mtab: whether it ran
\* (initialized), the mount list (filesystems) and the st_mtime of the
\* cached stat mtab_sbuf, a static and so zero before the first call.
\* /etc/mtab is taken to be always readable: the early return of
\* gam_fs_scan_mtab on a failed read, and the uninitialised sbuf of a
\* failed stat, are left out.
FsCache0 == [initialized |-> FALSE, filesystems |-> <<>>, mtime |-> 0]

\* mutant: the new stat is stored in mtab_sbuf before it is compared
FsInitCacheFirst(c, lines, mt) ==
    IF ~c.initialized
    THEN [initialized |-> TRUE, filesystems |-> ScanMtab(lines), mtime |-> mt]
    ELSE LET c1 == [c EXCEPT !.mtime = mt]
         IN  [c1 EXCEPT !.filesystems = IF mt # c1.mtime THEN ScanMtab(lines) ELSE @]

\* gam_fs_init on /etc/mtab holding lines with st_mtime mt: the first call
\* stats and scans it; a later call scans it again only when st_mtime
\* differs from the cached one, and caches the new stat either way
FsInit(c, lines, mt) ==
    IF ~c.initialized
    THEN [initialized |-> TRUE, filesystems |-> ScanMtab(lines), mtime |-> mt]
    ELSE [c EXCEPT !.filesystems = IF mt # c.mtime THEN ScanMtab(lines) ELSE @,
                   !.mtime = mt]

\* gam_fs_find_fs: the first entry whose mount point is a string prefix
\* of the path (g_str_has_prefix)
FindFs(fsl, p) ==
    LET i == SelectInSeq(fsl, LAMBDA f : IsPrefix(f.path, p))
    IN  IF i = 0 THEN NoFs ELSE fsl[i]

\* the lookup by name of gam_fs_find_fs_props and gam_fs_set
PropIdx(props, n) == SelectInSeq(props, LAMBDA q : q.name = n)

\* mutant: a known type is not updated in place but set again in front
FsSetPrepend(props, n, ty, to) ==
    <<[name |-> n, type |-> ty,
       timeout |-> IF to >= 0 THEN to ELSE DEFAULT_POLL_TIMEOUT]>> \o props

\* gam_fs_set: update the entry of a known type (the timeout only when it
\* is given), otherwise prepend a new one
FsSet(props, n, ty, to) ==
    LET i == PropIdx(props, n) IN
    IF i # 0
    THEN [props EXCEPT ![i].type = ty, ![i].timeout = IF to >= 0 THEN to ELSE @]
    ELSE <<[name |-> n, type |-> ty,
            timeout |-> IF to >= 0 THEN to ELSE DEFAULT_POLL_TIMEOUT]>> \o props

\* the gam_fs_set calls of the first gam_fs_init, in order
DefaultSettings ==
    << [name |-> "ext3", type |-> DEFAULT, timeout |-> 0],
       [name |-> "ext2", type |-> DEFAULT, timeout |-> 0],
       [name |-> "reiser4", type |-> DEFAULT, timeout |-> 0],
       [name |-> "reiserfs", type |-> DEFAULT, timeout |-> 0],
       [name |-> "novfs", type |-> POLL, timeout |-> 30],
       [name |-> "nfs", type |-> POLL, timeout |-> 5] >>

ApplySet(props, x) == FsSet(props, x.name, x.type, x.timeout)

DefaultProps == FoldLeft(ApplySet, <<>>, DefaultSettings)

\* gam_conf_string_to_mon_type (strcasecmp, abstracted to the word)
StringToMonType(m) == CASE m = "kernel" -> KERNEL
                        [] m = "poll"   -> POLL
                        [] OTHER        -> NONE

\* the fsset branch of gam_conf_read_internal: a line with a type name
\* and a method sets them; any other line leaves the table alone here
IsFsset(l) == l.cmd = "fsset" /\ l.name # "" /\ l.method # ""

ReadConfLine(props, l) ==
    IF IsFsset(l) THEN FsSet(props, l.name, StringToMonType(l.method), l.timeout)
    ELSE props

\* gam_conf_read: gaminrc, then ~/.gaminrc, then mandatory_gaminrc, each
\* read line by line, after the defaults of gam_fs_init
ConfRead(global, user, mandatory) ==
    FoldLeft(ReadConfLine, DefaultProps, global \o user \o mandatory)

\* gam_fs_get_mon_type and gam_fs_get_poll_timeout through
\* gam_fs_find_fs_props: the defaults when the path's file system or its
\* type is unknown
FsProps(fsl, props, p) ==
    LET i == PropIdx(props, FindFs(fsl, p).fsname)
    IN  IF FindFs(fsl, p) = NoFs \/ i = 0
        THEN [type |-> DEFAULT, timeout |-> DEFAULT_POLL_TIMEOUT]
        ELSE [type |-> props[i].type, timeout |-> props[i].timeout]

GetMonType(fsl, props, p) == FsProps(fsl, props, p).type
GetPollTimeout(fsl, props, p) == FsProps(fsl, props, p).timeout
================================================================================
