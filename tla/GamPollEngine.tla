---------------------------- MODULE GamPollEngine ----------------------------
(***************************************************************************)
(* The polling engine of gam_server with the dnotify back end             *)
(* (gam_poll_dnotify.c, gam_poll_generic.c, gam_dnotify.c), for one file  *)
(* F inside a directory D that always exists.  F may be watched by file   *)
(* subscriptions, D by directory subscriptions, which are told of F's    *)
(* changes as of their entry's.                                            *)
(*                                                                         *)
(* The engine state is one record pe, so that the scan loops of the code  *)
(* can be written as RECURSIVE operators passing the state along:         *)
(*   tree     nodes present in the path tree                               *)
(*   subs     the subscriptions of node F; dsubs: those of node D          *)
(*   node     per node: pflags, lasttime (an age), checks, stat snapshot  *)
(*   missing  missing_resources, busy: busy_resources (g_list, prepended) *)
(*   kref, kbusy, kfd   dnotify's DNotifyData of D (kref = 0: no entry)    *)
(*   changes  the signal queue: one entry per signal, FALSE once its fd   *)
(*            was closed (the fd_hash lookup then fails)                   *)
(*   told     ghost: per subscription, the stat of F its last event showed *)
(*                                                                         *)
(* Times are ages in seconds relative to the wall clock, capped at 2      *)
(* ("two or more"), with Never for a node never polled (lasttime == 0).   *)
(* Every path that polls first calls gam_poll_generic_update_time, so the *)
(* cached current time is age 0 whenever it is compared.                  *)
(***************************************************************************)
EXTENDS Integers, Sequences, SequencesExt, FiniteSets

CONSTANTS Subs,     \* file subscription identities on F (model values)
          DSubs,    \* directory subscription identities on D
          Mixed,    \* whether a client may hold both kinds at once
          MaxOps,   \* bound on file-system operations on F
          Churn,    \* whether F may be deleted and re-created
          QMax,     \* MAX_QUEUE_SIZE of the dnotify signal queue
          MaxCalls  \* bound on add/remove subscription calls

ASSUME Subs \cap DSubs = {}

VARIABLES pe,        \* the engine state record
          fsExists,  \* F exists on disk
          fsVer,     \* version of F's stat data (mtime ns, ctime, size)
          fsMtime,   \* age of F's mtime in seconds
          dVer,      \* version of D's stat data (changes with its entries)
          dMtime,    \* age of D's mtime in seconds
          scanned,   \* the 1 s scan timer has fired in the current second
          ops,       \* file-system operations done so far
          calls      \* subscription calls done so far

vars == <<pe, fsExists, fsVer, fsMtime, dVer, dMtime, scanned, ops, calls>>
env == <<fsExists, fsVer, fsMtime, dVer, dMtime, ops, calls>>

D == "D"
F == "F"
Nodes == {D, F}
Never == -1
Zeroed == 0          \* node->sbuf after a failed stat (memset to zero)
NoEvent == "none"
Changed == "Changed"
Deleted == "Deleted"
Created == "Created"

FreshNode == [pflags |-> {}, last |-> Never, checks |-> 0, snap |-> Zeroed]

Older(a) == IF a = Never THEN Never ELSE IF a >= 2 THEN 2 ELSE a + 1

SubsOf(st, n) == IF n = F THEN st.subs ELSE st.dsubs

\* g_list_prepend when absent / g_list_remove_all
Prepend(l, n) == IF n \in ToSet(l) THEN l ELSE <<n>> \o l
Drop(l, n) == SelectSeq(l, LAMBDA m : m # n)

AddMissing(st, n) == [st EXCEPT !.missing = Prepend(@, n)]
RemoveMissing(st, n) == [st EXCEPT !.missing = Drop(@, n)]
AddBusy(st, n) == [st EXCEPT !.busy = Prepend(@, n)]
RemoveBusy(st, n) == [st EXCEPT !.busy = Drop(@, n)]

Stale(ch) == [i \in DOMAIN ch |-> FALSE]

(***************************************************************************)
(* gam_dnotify_directory_handler_internal for D.  open(D) succeeds: D     *)
(* always exists.                                                          *)
(***************************************************************************)
KActivate(st) ==
    IF st.kref > 0 THEN [st EXCEPT !.kref = @ + 1]
    ELSE [st EXCEPT !.kref = 1, !.kbusy = 0, !.kfd = TRUE]

\* mutant: the refcount is ignored, the first DEACTIVATE drops the watch
KDeactivateNoRef(st) ==
    IF st.kref = 0 THEN st
    ELSE [st EXCEPT !.kref = 0, !.kbusy = 0, !.kfd = FALSE, !.changes = Stale(@)]

KDeactivate(st) ==
    CASE st.kref = 0 -> st
      [] st.kref = 1 -> [st EXCEPT !.kref = 0, !.kbusy = 0, !.kfd = FALSE,
                                   !.changes = Stale(@)]
      [] OTHER       -> [st EXCEPT !.kref = @ - 1]

KFlowStart(st) ==
    IF st.kref = 0 THEN st
    ELSE [st EXCEPT !.kfd = FALSE, !.kbusy = @ + 1,
                    !.changes = IF st.kfd THEN Stale(@) ELSE @]

KFlowStop(st) ==
    IF st.kref = 0 \/ st.kbusy = 0 THEN st
    ELSE [st EXCEPT !.kbusy = @ - 1, !.kfd = IF st.kbusy = 1 THEN TRUE ELSE @]

(***************************************************************************)
(* gam_poll_generic_trigger_file_handler for the file node F: the kernel  *)
(* calls go to the parent D; flow control also marks D busy.              *)
(***************************************************************************)
\* mutant: flow control stop leaves the parent marked busy
TriggerFileKeepParentBusy(st, mode) ==
    CASE mode = "activate"   -> KActivate(st)
      [] mode = "deactivate" -> KDeactivate(st)
      [] mode = "start" ->
           IF "busy" \in st.node[D].pflags THEN st
           ELSE [AddBusy(KFlowStart(st), D) EXCEPT !.node[D].pflags = @ \cup {"busy"}]
      [] mode = "stop" ->
           IF "busy" \notin st.node[D].pflags THEN st ELSE KFlowStop(st)

TriggerFile(st, mode) ==
    CASE mode = "activate"   -> KActivate(st)
      [] mode = "deactivate" -> KDeactivate(st)
      [] mode = "start" ->
           IF "busy" \in st.node[D].pflags THEN st
           ELSE [AddBusy(KFlowStart(st), D) EXCEPT !.node[D].pflags = @ \cup {"busy"}]
      [] mode = "stop" ->
           IF "busy" \notin st.node[D].pflags THEN st
           ELSE [RemoveBusy(KFlowStop(st), D) EXCEPT !.node[D].pflags = @ \ {"busy"}]

\* gam_poll_generic_trigger_dir_handler for the directory node D: the
\* kernel calls go to D itself
TriggerDir(st, mode) ==
    CASE mode = "activate"   -> KActivate(st)
      [] mode = "deactivate" -> KDeactivate(st)
      [] mode = "start"      -> KFlowStart(st)
      [] mode = "stop"       -> KFlowStop(st)

\* gam_poll_generic_trigger_handler: by the node's type
Trigger(st, n, mode) == IF n = F THEN TriggerFile(st, mode) ELSE TriggerDir(st, mode)

\* one trigger per subscription of n (delist_node / relist_node)
RECURSIVE TriggerEach(_, _, _, _)
TriggerEach(st, n, mode, k) ==
    IF k = 0 THEN st ELSE TriggerEach(Trigger(st, n, mode), n, mode, k - 1)

Delist(st, n) == TriggerEach(st, n, "deactivate", Cardinality(SubsOf(st, n)))
Relist(st, n) == TriggerEach(st, n, "activate", Cardinality(SubsOf(st, n)))

Stat == IF fsExists THEN fsVer ELSE Zeroed   \* what stat() leaves in sbuf of F

\* what stat() of node n finds: D always exists
Exists(n) == n = D \/ fsExists
StatOf(n) == IF n = D THEN dVer ELSE Stat
MtimeOf(n) == IF n = D THEN dMtime ELSE fsMtime

\* gam_node_emit_event: an event of F goes to the subscriptions of F and
\* to the directory subscriptions of its parent D; an event of D itself
\* tells nothing about F
EmitEvent(st, n, ev) ==
    IF ev = NoEvent \/ n = D THEN st
    ELSE [st EXCEPT !.told = [s \in Subs \cup DSubs |->
                                IF s \in st.subs \cup st.dsubs THEN Stat ELSE st.told[s]]]

(***************************************************************************)
(* gam_poll_dnotify_poll_file(n).  poll_time is 0 (gam_fs.c default), so  *)
(* the early "not enough time has passed" return never happens.  Returns  *)
(* the new state and the event.                                           *)
(***************************************************************************)

PollFirst(st, n) ==
    [st |-> [st EXCEPT !.node[n].pflags = IF Exists(n) THEN @ ELSE @ \cup {"missing"},
                       !.node[n].snap = StatOf(n),
                       !.node[n].last = 0],
     ev |-> IF Exists(n) THEN NoEvent ELSE Deleted]

\* the stat comparison with the snapshot
StatEvent(st, n) ==
    CASE ~Exists(n) /\ "missing" \notin st.node[n].pflags -> Deleted
      [] ~Exists(n)                                     -> NoEvent
      [] "missing" \in st.node[n].pflags                -> Created
      [] st.node[n].snap # StatOf(n)                    -> Changed
      [] OTHER                                          -> NoEvent

\* deleted: gam_node_set_pflags (assigns the flag word), remove_busy, and
\* delist + add_missing when the node has subscriptions
\* mutant: a deleted node is not put on the missing list
OnDeletedNoMissing(st, n) ==
    LET s1 == RemoveBusy([st EXCEPT !.node[n].pflags = {"missing"}], n)
    IN  IF SubsOf(st, n) = {} THEN s1 ELSE Delist(s1, n)

OnDeleted(st, n) ==
    LET s1 == RemoveBusy([st EXCEPT !.node[n].pflags = {"missing"}], n)
    IN  IF SubsOf(st, n) = {} THEN s1 ELSE AddMissing(Delist(s1, n), n)

\* load control: the check counter
CountChecks(st, n, ev) ==
    LET nd == st.node[n] IN
    IF nd.last = 0 THEN
        IF "busy" \notin nd.pflags /\ Exists(n) /\ MtimeOf(n) = 0
        THEN [st EXCEPT !.node[n].checks = @ + 1] ELSE st
    ELSE IF "busy" \in nd.pflags THEN
        [st EXCEPT !.node[n].last = 0,
                   !.node[n].checks = IF ev = NoEvent THEN @ + 1 ELSE @]
    ELSE [st EXCEPT !.node[n].last = 0, !.node[n].checks = 0]

\* switch to polling: busy flag, busy list, flowon_node; for the file F
\* also the busy list for D when D has subscriptions
BusyEnter(st, n) ==
    IF st.node[n].checks >= 4 /\ "busy" \notin st.node[n].pflags /\ SubsOf(st, n) # {}
    THEN LET s1 == Trigger(AddBusy([st EXCEPT !.node[n].pflags = @ \cup {"busy"},
                                               !.node[n].checks = 0], n),
                           n, "start")
         IN  IF n = F /\ st.dsubs # {} THEN AddBusy(s1, D) ELSE s1
    ELSE st

\* switch back to kernel monitoring: flowoff_node
BusyLeave(st, n, ev) ==
    IF ev = NoEvent /\ "busy" \in st.node[n].pflags /\ st.node[n].checks > 5
       /\ SubsOf(st, n) # {}
    THEN Trigger(RemoveBusy([st EXCEPT !.node[n].pflags = @ \ {"busy"},
                                       !.node[n].checks = 0], n),
                 n, "stop")
    ELSE st

PollLater(st, n) ==
    LET ev == StatEvent(st, n)
        s1 == CASE ev = Deleted -> OnDeleted(st, n)
                [] ev = Created -> [st EXCEPT !.node[n].pflags = @ \ {"missing"}]
                [] OTHER        -> st
        s2 == [s1 EXCEPT !.node[n].snap = StatOf(n)]
    IN  [st |-> BusyLeave(BusyEnter(CountChecks(s2, n, ev), n), n, ev), ev |-> ev]

PollFile(st, n) == IF st.node[n].last = Never THEN PollFirst(st, n) ELSE PollLater(st, n)

\* poll n and emit what it found
PollEmit(st, n) == LET r == PollFile(st, n) IN EmitEvent(r.st, n, r.ev)

\* the scan_files loop of scan_directory_internal over the child F; a
\* node the readdir loop just added (FLAG_NEW_NODE) is reported Created
\* (the recursive scan for a new node with subscriptions cannot happen: a
\* node with subscriptions is already in the tree)
ScanFiles(st, new) ==
    IF F \notin st.tree THEN st
    ELSE LET r == PollFile(st, F)
         IN  EmitEvent(r.st, F, IF new THEN Created ELSE r.ev)

\* gam_poll_generic_scan_directory_internal(D): without subscriptions on D
\* it jumps to scan_files; otherwise D is polled (its event is about D),
\* then the readdir loop adds F as a new node when it exists and has none
ScanDir(st) ==
    IF st.dsubs = {} THEN ScanFiles(st, FALSE)
    ELSE LET s1  == PollFile(st, D).st
             new == fsExists /\ F \notin s1.tree
         IN  ScanFiles(IF new THEN [s1 EXCEPT !.tree = @ \cup {F}] ELSE s1, new)

\* the body of both loops of the scan callback for the node at idx
ScanNode(st, n) == IF n = D THEN ScanDir(st) ELSE PollEmit(st, F)

RECURSIVE MissingScan(_, _)
MissingScan(st, idx) ==
    IF idx >= Len(st.missing) THEN st
    ELSE LET n  == st.missing[idx + 1]
             s1 == ScanNode(st, n)
             s2 == RemoveMissing(s1, n)
             s3 == IF s1.node[n].pflags = {}
                   THEN IF SubsOf(s2, n) # {} THEN Relist(s2, n) ELSE s2
                   ELSE s1
         IN  MissingScan(s3, idx + 1)

RECURSIVE BusyScan(_, _)
BusyScan(st, idx) ==
    IF idx >= Len(st.busy) THEN st
    ELSE LET n  == st.busy[idx + 1]
             s1 == ScanNode(st, n)
             s2 == RemoveBusy(s1, n)
             s3 == IF s1.node[n].pflags = {}
                   THEN IF SubsOf(s2, n) # {} THEN Trigger(s2, n, "stop") ELSE s2
                   ELSE s1
         IN  BusyScan(s3, idx + 1)

\* gam_dnotify_pipe_handler: pop every queued signal from the tail; a
\* signal whose fd is still in fd_hash scans D
RECURSIVE PipeDrain(_)
PipeDrain(st) ==
    IF st.changes = <<>> THEN st
    ELSE LET valid == Last(st.changes)
             s1    == [st EXCEPT !.changes = Front(@)]
         IN  PipeDrain(IF valid THEN ScanDir([s1 EXCEPT !.tree = @ \cup {D}]) ELSE s1)

\* dnotify_signal_handler: a change in D while its fd is armed
\* mutant: the test of the armed fd is inverted
SignalInverted(st) ==
    IF st.kfd \/ Len(st.changes) > QMax THEN st
    ELSE [st EXCEPT !.changes = <<TRUE>> \o @]

\* mutant: the MAX_QUEUE_SIZE check is missing
SignalNoCap(st) ==
    IF ~st.kfd THEN st ELSE [st EXCEPT !.changes = <<TRUE>> \o @]

Signal(st) ==
    IF ~st.kfd \/ Len(st.changes) > QMax THEN st
    ELSE [st EXCEPT !.changes = <<TRUE>> \o @]

Init ==
    /\ pe = [tree |-> {}, subs |-> {}, dsubs |-> {},
             node |-> [n \in Nodes |-> FreshNode],
             missing |-> <<>>, busy |-> <<>>, kref |-> 0, kbusy |-> 0,
             kfd |-> FALSE, changes |-> <<>>,
             told |-> [s \in Subs \cup DSubs |-> Zeroed]]
    /\ fsExists \in BOOLEAN
    /\ fsVer = 1
    /\ fsMtime = 2
    /\ dVer = 1
    /\ dMtime = 2
    /\ scanned = FALSE
    /\ ops = 0
    /\ calls = 0

(***************************************************************************)
(* Actions                                                                 *)
(***************************************************************************)

\* gam_poll_dnotify_add_subscription for a file subscription on F
AddSubscription(s) ==
    /\ s \notin pe.subs /\ calls < MaxCalls /\ (Mixed \/ pe.dsubs = {})
    /\ calls' = calls + 1
    /\ LET s0 == IF F \in pe.tree THEN pe ELSE [pe EXCEPT !.tree = Nodes]
           s1 == TriggerFile([s0 EXCEPT !.subs = @ \cup {s}, !.told[s] = Stat],
                             "activate")
           r  == PollFile(s1, F)
       IN  pe' = IF "missing" \in r.st.node[F].pflags THEN AddMissing(r.st, F)
                 ELSE r.st
    /\ UNCHANGED <<fsExists, fsVer, fsMtime, dVer, dMtime, ops, scanned>>

\* gam_poll_dnotify_add_subscription for a directory subscription on D:
\* add_at_path, node_add_subscription (ACTIVATE through
\* trigger_dir_handler), then first_scan_dir: D is polled if it never
\* was, Exists is sent for D and for F if F exists, and an F not yet in
\* the tree is added with its stat and the current time
AddDirSubscription(s) ==
    /\ s \notin pe.dsubs /\ calls < MaxCalls /\ (Mixed \/ pe.subs = {})
    /\ calls' = calls + 1
    /\ LET s1 == TriggerDir([pe EXCEPT !.tree = @ \cup {D}, !.dsubs = @ \cup {s},
                                       !.told[s] = Stat], "activate")
           s2 == IF s1.node[D].last = Never THEN PollFile(s1, D).st ELSE s1
       IN  pe' = IF fsExists /\ F \notin s2.tree
                 THEN [s2 EXCEPT !.tree = @ \cup {F}, !.node[F].snap = Stat,
                                 !.node[F].last = 0]
                 ELSE s2
    /\ UNCHANGED <<fsExists, fsVer, fsMtime, dVer, dMtime, ops, scanned>>

\* gam_poll_generic_unregister_node (all_resources is not read by the
\* dnotify scan callback and is left out)
Unregister(st, n) == RemoveBusy(RemoveMissing(st, n), n)

\* gam_tree_remove: the node is freed; a later node for the path is new
RemoveNode(st, n) == [st EXCEPT !.tree = @ \ {n}, !.node[n] = FreshNode]

\* the tree after the last subscription of F went: unregister and remove F,
\* then prune D
Prune(st) == RemoveNode(RemoveNode(Unregister(Unregister(st, F), D), F), D)

\* gam_poll_dnotify_remove_subscription for a subscription on F: F stays
\* in the tree, unregistered, while D has directory subscriptions
RemoveSubscription(s) ==
    /\ s \in pe.subs /\ calls < MaxCalls
    /\ calls' = calls + 1
    /\ LET fl == pe.node[F].pflags
           s1 == [pe EXCEPT !.subs = @ \ {s}, !.told[s] = Zeroed]
           s2 == IF fl = {"busy"} \/ fl = {} THEN TriggerFile(s1, "deactivate") ELSE s1
       IN  pe' = CASE s2.subs # {}  -> s2
                   [] s2.dsubs = {} -> Prune(s2)
                   [] OTHER         -> Unregister(s2, F)
    /\ UNCHANGED <<fsExists, fsVer, fsMtime, dVer, dMtime, ops, scanned>>

\* node_remove_directory_subscription and the directory branch of
\* remove_subscription_real: DEACTIVATE unless D has a flag other than
\* busy; the child F goes when no subscription is left on F or D; then D
\* is unregistered when its last subscription went (its parent has no
\* directory subscription), and removed when it has no child
RemoveDirSubscription(s) ==
    /\ s \in pe.dsubs /\ calls < MaxCalls
    /\ calls' = calls + 1
    /\ LET fl == pe.node[D].pflags
           s1 == [pe EXCEPT !.dsubs = @ \ {s}, !.told[s] = Zeroed]
           s2 == IF fl = {"busy"} \/ fl = {} THEN TriggerDir(s1, "deactivate") ELSE s1
           s3 == IF F \in s2.tree /\ s2.subs = {} /\ s2.dsubs = {}
                 THEN RemoveNode(Unregister(s2, F), F) ELSE s2
       IN  pe' = CASE s3.dsubs # {}    -> s3
                   [] F \in s3.tree    -> Unregister(s3, D)
                   [] OTHER            -> RemoveNode(Unregister(s3, D), D)
    /\ UNCHANGED <<fsExists, fsVer, fsMtime, dVer, dMtime, ops, scanned>>

\* gam_poll_dnotify_scan_callback, once a second
ScanCallback ==
    /\ ~scanned
    /\ scanned' = TRUE
    /\ pe' = BusyScan(MissingScan(pe, 0), 0)
    /\ UNCHANGED env

\* the wall clock moves to the next second
Tick ==
    /\ scanned
    /\ scanned' = FALSE
    /\ fsMtime' = Older(fsMtime)
    /\ dMtime' = Older(dMtime)
    /\ pe' = [pe EXCEPT !.node = [n \in Nodes |-> [pe.node[n] EXCEPT !.last = Older(@)]]]
    /\ UNCHANGED <<fsExists, fsVer, dVer, ops, calls>>

PipeHandler ==
    /\ pe.changes # <<>>
    /\ pe' = PipeDrain(pe)
    /\ UNCHANGED <<env, scanned>>

\* another process writes F: D's dnotify fd reports DN_MODIFY
Write ==
    /\ fsExists /\ ops < MaxOps
    /\ ops' = ops + 1
    /\ fsVer' = fsVer + 1
    /\ fsMtime' = 0
    /\ pe' = Signal(pe)
    /\ UNCHANGED <<fsExists, dVer, dMtime, scanned, calls>>

\* another process deletes or creates F: D's entries, so D's stat, change
Delete ==
    /\ Churn /\ fsExists /\ ops < MaxOps
    /\ ops' = ops + 1
    /\ fsExists' = FALSE
    /\ dVer' = dVer + 1
    /\ dMtime' = 0
    /\ pe' = Signal(pe)
    /\ UNCHANGED <<fsVer, fsMtime, scanned, calls>>

Create ==
    /\ Churn /\ ~fsExists /\ ops < MaxOps
    /\ ops' = ops + 1
    /\ fsExists' = TRUE
    /\ fsVer' = fsVer + 1
    /\ fsMtime' = 0
    /\ dVer' = dVer + 1
    /\ dMtime' = 0
    /\ pe' = Signal(pe)
    /\ UNCHANGED <<scanned, calls>>

Next ==
    \/ \E s \in Subs : AddSubscription(s) \/ RemoveSubscription(s)
    \/ \E s \in DSubs : AddDirSubscription(s) \/ RemoveDirSubscription(s)
    \/ ScanCallback \/ Tick \/ PipeHandler
    \/ Write \/ Delete \/ Create

\* the 1 s timer, the clock and the pipe watch are dispatched by the glib
\* main loop whenever they are ready: weak fairness of each, written out
\* as <>[]ENABLED => []<>step with the enabling condition of each action
\* (each of them changes vars whenever its guard holds)
Fairness ==
    /\ <>[](~scanned) => []<><<ScanCallback>>_vars
    /\ <>[](scanned) => []<><<Tick>>_vars
    /\ <>[](pe.changes # <<>>) => []<><<PipeHandler>>_vars

Spec == Init /\ [][Next]_vars /\ Fairness

(***************************************************************************)
(* Properties                                                              *)
(***************************************************************************)
Ages == {Never, 0, 1, 2}

TypeOK ==
    /\ pe.tree \subseteq Nodes /\ pe.subs \subseteq Subs /\ pe.dsubs \subseteq DSubs
    /\ \A n \in Nodes : /\ pe.node[n].pflags \subseteq {"missing", "busy"}
                        /\ pe.node[n].last \in Ages
                        /\ pe.node[n].checks \in Nat
                        /\ pe.node[n].snap \in 0..MaxOps + 1
    /\ pe.missing \in Seq(Nodes) /\ pe.busy \in Seq(Nodes)
    /\ pe.kref \in Nat /\ pe.kbusy \in Nat /\ pe.kfd \in BOOLEAN
    /\ pe.changes \in Seq(BOOLEAN) /\ Len(pe.changes) <= QMax + 1
    /\ pe.told \in [Subs \cup DSubs -> 0..MaxOps + 1]
    /\ fsExists \in BOOLEAN /\ fsVer \in 1..MaxOps + 1 /\ fsMtime \in 0..2
    /\ dVer \in 1..MaxOps + 1 /\ dMtime \in 0..2
    /\ scanned \in BOOLEAN /\ ops \in 0..MaxOps /\ calls \in 0..MaxCalls

\* A subscribed file is always watched by someone: the dnotify fd of its
\* directory is armed, or the file or its directory is on a list the 1 s
\* scan callback polls; a subscribed directory likewise, by its own fd or
\* by being on a list itself (only a scan of D finds a new entry).
\* Otherwise a change is never noticed.  This is about the refcount/busy
\* bookkeeping of gam_dnotify.c as driven by add/remove_subscription,
\* node_remove_directory_subscription, delist/relist and flowon/flowoff.
Polled == ToSet(pe.missing) \cup ToSet(pe.busy)
WatchedOrPolled ==
    /\ pe.subs # {} => pe.kfd \/ F \in Polled \/ D \in Polled
    /\ pe.dsubs # {} => pe.kfd \/ D \in Polled

\* Whenever what a subscription, of F or of its directory D, was last
\* told of F (by Exists/Deleted at subscription, then by
\* Changed/Deleted/Created) differs from F's stat on disk, it is
\* eventually told the current state, or is cancelled.  This is
\* the promise of the daemon, kept by dnotify signals, the pipe handler and
\* the scan callback together.  A change undone between two polls (create
\* then delete) is not a difference: a stat-based monitor cannot see it.
Behind(s) == s \in pe.subs \cup pe.dsubs /\ pe.told[s] # Stat
ChangeReported == \A s \in Subs \cup DSubs : Behind(s) ~> ~Behind(s)

\* A node switched to polling by flow control (poll_file's check counter,
\* and trigger_file_handler marking the parent directory busy with it) is
\* eventually switched back to kernel monitoring: writes are bounded, so
\* they stop, and the busy loop of the scan callback must then clear the
\* busy flag of F and of D.
BusyReleased == \A n \in Nodes : ("busy" \in pe.node[n].pflags) ~> ("busy" \notin pe.node[n].pflags)

====
