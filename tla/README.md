# TLA+ models of gamin

gamin is a file-alteration monitor. It has two halves:

- **gam_server** (`src/server/`) is a single-threaded glib main-loop daemon. It keeps one connection per client. Each connection has:
  - a listener holding its subscriptions;
  - an event queue flushed by a 100 ms timer.

  The daemon watches files through a backend, either inotify or the poll engine with dnotify.
- **libgamin** (`src/libgamin/`) is the FAM-compatible client library. It keeps a per-connection request table sorted by request number (reqno). It sends requests over a Unix socket and filters the events it reads back. When the daemon goes away, it reconnects transparently and resends every request.

The halves talk over a local socket using 10-byte-header packets (`gam_protocol.h`).

- **Client to server:** MONFILE, MONDIR and CANCEL requests, preceded by a credential byte.
- **Server to client:** a credential byte, then events. Each event carries the reqno of its request: Exists/EndExist for the initial state, live Changed/Deleted/Created, and Acknowledge for a cancel.

## What is modelled

| Module | Models | Source |
|---|---|---|
| `GamReqTable` | The request table as a sequence. `IdxSearch`/`ReqIdx` and `LocSearch`/`ReqLoc` are RECURSIVE translations of the binary searches. `AddReq`, `AddReq2`, `DelReq` and `CancelReq` model the table updates. | `gam_data.c` |
| `GamEq` | The event queue: `EqNew` (gam_eq_new), tail coalescing (`EqQueue`) and the in-order flush (`EqFlush`, gam_eq_flush). | `gam_eq.c` |
| `GamServer` | One connection of the daemon. It has one action per main-loop handler (listed below the table). Variables: `sstate` (conn->state), `subs` (listener->subs, newest first), `eq`, `eqsrc` (eq_source armed), and `fs` (which paths exist). | `gam_connection.c`, `gam_channel.c`, `gam_listener.c`, `gam_server.c`, `gam_inotify.c` |
| `GamClient` | One `FAMConnection` used by one application thread. API actions: `Monitor` (FAMMonitorFile/Directory), `Monitor2` (the `*2` variants with a caller-chosen reqno), `Cancel`, `NoExists`. Read actions: `ReadCred`, and `NextEvent` (FAMNextEvent → conn_data → conn_event → read_event). Recovery: `Reconnect` (gamin_try_reconnect + gamin_data_reset + resend). Variables: `reqno`, `tab`, `cauth`, `restarted`, `noexist`, and the ghost `applog` (events returned to the application). | `gam_api.c`, `gam_data.c` |
| `GamProtocol` | The composition: the two modules share the socket channels `c2s` and `s2c` and the socket state `link`. Every step is a step of one side. Also holds the properties and fairness. | — |
| `GamPollEngine` | The poll engine with the dnotify kernel backend, for a file `F` in a directory `D`, with file subscriptions on F (`Subs`) and directory subscriptions on D (`DSubs`). One record variable `pe` holds the engine's state: the tree, the subscriptions of F (`subs`) and of D (`dsubs`), per-node `pflags`/`lasttime`/`checks`/stat snapshot, the missing and busy lists, the `DNotifyData` of D (`kref`, `kbusy`, `kfd`) and the signal queue `changes`. The environment is held in `fsExists`, `fsVer`, `fsMtime`, and D's own stat in `dVer`, `dMtime` (changed by every create or delete of F). Actions are listed below the table. | `gam_poll_dnotify.c`, `gam_poll_generic.c`, `gam_dnotify.c` |
| `GamTree` | The path tree of the poll engine: `tr.nodes` is node_hash in insertion (g_node child) order, `tr.isdir`, and per subscription its request `tr.sa`; `lsubs` is the listener's list. Operators translate gam_tree_add/remove/add_at_path/get_children, first_scan_dir and the readdir loop of scan_directory_internal, prune_tree, node_remove_directory_subscription and remove_subscription_real. | `gam_tree.c`, `gam_poll_dnotify.c`, `gam_poll_generic.c`, `gam_listener.c` |
| `GamFs` | The file-system type table as pure operators: `ScanMtab` (gam_fs_scan_mtab and the stable longest-first sort), `FindFs`, `FsSet`, the defaults of gam_fs_init, the fsset lines of the three configuration files (`ConfRead`) and `GetMonType`; `FsInit` is the mtab cache of gam_fs_init: the first call scans /etc/mtab, a later one rescans it only when its st_mtime differs from the cached stat. | `gam_fs.c`, `gam_conf.c` |
| `GamRouting` | Where one subscription is held and who frees it: `AddSubscription`/`RemoveSubscription` (gam_add/remove_subscription, each deciding the route from the exclude check and the type, with the kernel and poll hooks of the dnotify or inotify build behind them), `Cancel` (the CANCEL branch of gam_connection_request with its inotify free decision) and `Close` (gam_listener_free_subscription). The state is a record: the engines holding the subscription, whether the listener lists it, how often it was freed, whether its connection was closed. gam_poll_basic, the poll hooks of an inotify build, is not in the tree; it is taken to list, hold and free the subscription as gam_connection.c's free decision expects. | `gam_server.c`, `gam_connection.c`, `gam_listener.c`, `gam_inotify.c`, `gam_dnotify.c` |
| `GamExcludes` | The exclude list as pure operators: `ExcludeAdd`, `ExcludeCheck` (the first matching pattern decides), `ExcludeInit` (the static /media, /mnt, /dev, /proc patterns), the poll/notify lines of the configuration files (`ReadExcludeLine`, `ConfExcludes`) and the order of gam_init_subscriptions (`InitExcludes`: configuration first, static patterns after). A glob pattern is abstracted to the set of paths it matches. | `gam_excludes.c`, `gam_conf.c`, `gam_server.c` |
| `GamFraming` | Packet framing as pure operators over a byte stream cut into reads of any size. A byte is `<<packet, offset>>`, so a header read off a packet boundary is recognisable; it stands for the garbage the length/version/path-length checks reject. Library: `ConnData`/`ClientLoop` (gamin_data_conn_data and its piggy-back loop), `EventReady`, `ReadData` (gamin_read_data), `ReadEvent` and `NextEvent` (FAMNextEvent: at most one read, then read_event). Daemon: `ServerLoop` (gam_connection_data) and `ServerRead` (gam_client_conn_read). Sizes are scaled: a 2-unit header, paths of at most 4 units, a 6-unit buffer. | `gam_data.c`, `gam_api.c`, `gam_connection.c`, `gam_channel.c`, `gam_protocol.h` |
| `FamService` | The abstract FAM service: per request (its identity, not its reqno) `none`, `active`, `cancelled` or `done`, and the log of `<<request, code>>` pairs returned to the application. Actions: `Subscribe`, `CancelReq`, `Deliver` (only while active), `Acknowledge` (only once cancelled, then done); weak fairness on `Acknowledge`. | what `gam_api.c` promises |
| `MCGamProtocol`, `MCAlgorithms`, `MCGamPollEngine`, `MCGamTree` | Model-checking instances: model-value paths and subscriptions, and the input spaces of the pure algorithms. | — |

The `GamServer` actions, one per main-loop handler:

| Action | Code |
|---|---|
| `Accept` | gam_connection_new |
| `AuthRead` | check_cred / set_pid |
| `ServeMonitor` | MONFILE/MONDIR: prepend the subscription, emit the initial events |
| `ServeCancel` | remove the subscription, then gam_send_ack written directly |
| `ServeCancelUnknown` | error → gam_connection_close, which flushes the queue, frees the listener and closes the socket |
| `Flush` | the queue timer |
| `FsChange` | inotify callbacks |
| `Crash` | gam_exit: the daemon dies, losing its queue and unread requests |

The `GamPollEngine` actions:

| Action | Code |
|---|---|
| `AddSubscription(s)` | gam_poll_dnotify_add_subscription: add F to the tree, node_add_subscription (ACTIVATE through trigger_file_handler), poll_file, add_missing |
| `RemoveSubscription(s)` | remove_subscription_real: DEACTIVATE if F is not missing, then unregister and prune_tree when the last subscription goes (F stays in the tree, unregistered, while D has directory subscriptions) |
| `AddDirSubscription(s)` | add_subscription for a directory: add D, node_add_subscription (ACTIVATE through trigger_dir_handler), then first_scan_dir: poll D if it never was, add an F not yet in the tree with its current stat |
| `RemoveDirSubscription(s)` | node_remove_directory_subscription and the directory branch of remove_subscription_real: DEACTIVATE, remove F when nobody subscribes to it, unregister D, remove it when it has no child |
| `ScanCallback` | the 1 s scan callback: the missing loop, then the busy loop, both walking their list by index while the body removes nodes (`MissingScan`, `BusyScan`, RECURSIVE) |
| `Tick` | the clock moves one second (ages of `lasttime` and of F's mtime) |
| `PipeHandler` | gam_dnotify_pipe_handler: drain the queue from the tail; an entry whose fd is still open scans D: with directory subscriptions D is polled and a newly appeared F is added and reported Created (`ScanDir`, `ScanFiles`), otherwise F is polled |
| `Write`, `Delete`, `Create` | another process changes F; each raises the dnotify signal (`Signal`, dnotify_signal_handler) |

`PollFile` is poll_file as a whole: first poll, Deleted/Created/Changed, the `checks` count, MON_BUSY enter (FLOWCONTROLSTART, parent D marked busy) and leave (FLOWCONTROLSTOP). The FLOWCONTROL, ACTIVATE and DEACTIVATE modes of `gam_dnotify_directory_handler_internal` are `KActivate`, `KDeactivate`, `KFlowStart` and `KFlowStop`.

The `GamTree` actions:

| Action | Code |
|---|---|
| `AddSubscription(s)` | gam_poll_dnotify_add_subscription: listener prepend, add_at_path (the type on disk wins when the path exists), then first_scan_dir for a directory node (its entries in some readdir order; a file found where a directory was asked loses is_dir) or, for a file, add_at_path of its dirname |
| `RemoveSubscription(s)` | the CANCEL branch of gam_connection_request: listener removal, then gam_poll_dnotify_remove_subscription → remove_subscription_real (file branch, or node_remove_directory_subscription with its children loop) and prune_tree |
| `CloseConn` | gam_connection_close → gam_listener_free: every subscription of the list, newest first, through the same removal |
| `ScanDirectory(p)` | the readdir loop of scan_directory_internal on a subscribed directory: new entries become nodes |
| `FsToggle(e)` | another process creates or deletes a file |

`Emit` is `gam_server_emit_one_event`. It filters through `wants_event` and then either queues the event (`UseQueue`, inotify running) or writes it directly (dnotify/poll).

### Refinement

`GamProtocol` implements `FamService` through `FAM == INSTANCE FamService WITH req <- AbsReq, delivered <- AbsLog, ...`:
- `AbsReq[g]` is `none` before the g-th FAMMonitor* call. It is `active` or `cancelled` while the request is in the library's table, by its `state`. It is `done` once the request left the table, which only the Acknowledge in gamin_data_read_event does.
- `AbsLog` is the ghost `applog`, with each event under the request the reqno lookup attributed it to (`reqgid`).

A FAMMonitor* step is `Subscribe`. A first FAMCancelMonitor is `CancelReq`. A FAMNextEvent that returns an event is `Deliver` or `Acknowledge`. Every other step, including every daemon step, stutters. `FamRefinement == FAM!FSpec` is checked as a PROPERTY in `protocol_inotify`. It says:
- the application never sees an event of a cancelled, finished or not-yet-made request;
- it sees exactly one Acknowledge per cancel, and every cancel is eventually acknowledged.

It is not checked in `protocol_reconnect`: the cancel-after-reconnect finding breaks its liveness part.

Every packet and subscription carries a ghost `gid`. The gid names the client request record that caused it. It lets properties tell apart two requests that share a reqno. The code has no such field, and the queue's comparison ignores it.

### Abstractions

- **Paths:** a path is a model value, and a subscription watches exactly that path. Directory contents and relative entry names are not modelled.
- **Initial events:** they are those of `gam_inotify_send_initial_events`: Exists or Deleted, then EndExist. The poll engine's first scan has the same shape for a file.
- **`wants_event`:** `gam_subscription.c` is not in this tree, so `Wants` follows spec.md 4.5(3): NO-EXISTS suppresses Exists and EndExist. `Wants` is marked `spec_modelled` in the map.
- **Packets:** in `GamProtocol`, packets are whole records on FIFO channels, and one FAMNextEvent step consumes one packet. How reads cut the bytes into packets is checked separately in `GamFraming`.
- **Writes:** a write to the socket while it is up succeeds. A write after the daemon died fails, and then nothing is written.

- **Poll engine:**
  - Times are ages capped at 2 (`Never` = lasttime 0). Every path into poll_file calls update_time first, so "now" is always age 0.
  - `poll_time` is 0 (`DEFAULT_POLL_TIMEOUT` in gam_fs.c), so poll_file's early return never fires.
  - The stat snapshot is a version number; `Zeroed` is the zeroed sbuf of a failed stat.
  - `gam_node.c` is not in this tree. `gam_node_set_pflags` is taken as assignment, as its plural name and its use in first_scan_dir suggest. gam_node_emit_event is taken as sending the event to F's subscriptions; the ghost `told[s]` records the stat state a subscriber was last told.
  - D has no subscription of its own. Directory subscriptions, MON_NOKERNEL/excludes and fd number reuse are not modelled. A signal-queue entry is valid or stale (its fd closed).
  - The signal handler runs atomically with respect to the main loop.

## Runs

| Run | Expect | What it shows |
|---|---|---|
| `algorithms` | pass | Pure algorithms against references, over 190,403 inputs. `ReqIdx`/`ReqLoc` agree with positions / count of smaller entries on all sorted tables of up to 5 reqnos from 1..6, and `add_req2` keeps a table sorted. `MountLookupCorrect`: for every mtab of up to 3 lines over /, /a, /ab (valid and skipped lines) and every path of up to 3 characters, the lookup finds the longest mount point that prefixes the path, the last of several mounts on it, and routes the path to polling exactly for nfs/novfs. `ConfOverrides`: after the defaults and one line per configuration file, each type has one entry with the method of its last fsset and the last timeout given. `ConfiguredBeforeStatic`: for every choice of at most one poll/notify line per configuration file (patterns, `~` words, relative, empty and comment words) and both probed paths, a path some configured pattern matches gets the decision of one of those patterns (a `notify` line overrides the built-in `/mnt/*`), and the static patterns decide only the paths no configured pattern matches. It deliberately says nothing about which file wins (see the divergences). `MtabStaleOnlyWithinSecond`: for every trace of up to 6 steps (rewrite /etc/mtab to an ext3 or an nfs root, next second, lookup), a lookup uses a mount list older than the file only when /etc/mtab was rewritten after an earlier lookup within the same second (stale lookups do occur in these traces). `SubscriptionReleasedOnce`: for both builds, an excluded path or not, an inotify watch that fails or not, the types at add and at release, and a cancel or a connection close, a subscription ends held by no engine, off its listener's list and freed exactly once, provided its type was kernel or poll and, with inotify running, unchanged in between. `ClientFraming` and `ServerFraming`: for every stream of up to 3 packets (a bare CANCEL header, short and full-length paths, each taken or not by the receiver) and every 4 reads of 0, 1, 2 or 6 units:
  - each parser sees every packet once, in order, and never parses from a cut header;
  - the library returns exactly the accepted events, and the bytes it holds plus those still unread are exactly those after the packets done;
  - FAMNextEvent never blocks in read() while a complete event is held;
  - the daemon fails only on a failing request, and never leaves a complete request waiting. |
| `protocol_inotify` | pass | Queue mode, library-allocated reqnos, one cancel, no daemon death. Checks: `EventsMatchRequest` (no event reaches the wrong request record), `FamRefinement` (the refinement of `FamService`, including its liveness: every cancel is acknowledged), `QueueDrains` (liveness). |
| `protocol_reconnect` | pass | Direct writes, caller-chosen reqnos {1,2}, one daemon death. `EventsMatchRequest` still holds, and `ReconnectResubscribes` holds: every live request is eventually backed by a daemon subscription again. |
| `reqno_reuse_after_reconnect` | violation | The first FAMMonitorFile after the reconnect reuses reqno 1. The server holds two subscriptions with reqno 1. A CANCEL of the old request removes the *new* one, and the client deletes the old record. The new request is live and never watched again. |
| `cancel_after_reconnect` | violation | A request cancelled while the daemon is down is resent as a monitor and never cancelled. It also fails another way: its Acknowledge arrives while `restarted` is set and is dropped. Either way the record never goes. |
| `poll_churn` | pass | One file subscriber or one directory subscriber (never both at once: `Mixed` FALSE); up to 8 writes, deletes and re-creates of F; two subscribe/unsubscribe calls. `WatchedOrPolled`: while F has subscribers, D's dnotify fd is open or F (or D) is on the missing or busy list; while D has directory subscribers, the fd is open or D is polled. `ChangeReported` (liveness): a file or directory subscriber whose last event differs from F's current stat is eventually told. |
| `poll_two_subs` | pass | Two subscribers, up to 5 writes, a queue limit of 2 (3 entries). `TypeOK` (counters and queue bounded), `WatchedOrPolled`, `BusyReleased` (liveness: a busy node, F or its directory D, eventually leaves busy). |
| `poll_refcount_leak` | violation | Subscribing to a missing file activates D; relist activates it again when F appears (kref 2 for one subscription). Unsubscribing while busy deactivates once, leaving kref 1, kbusy 1 and the fd closed. After a resubscribe nothing reopens it, and F is neither missing nor busy. |
| `poll_swallowed_change` | violation | A second subscription's poll_file consumes a pending change: the new subscriber gets Exists and the first is never told. |
| `busy_parent_leak` | violation | F becomes busy, which also marks D busy (trigger_file_handler). F is then deleted: poll_file sets MON_MISSING and takes F off the busy list but never issues FLOWCONTROLSTOP, the only step that clears D's mark. D stays busy and is rescanned every second forever. |
| `tree_lifecycle` | pass | Two subscriptions, directory /a with files /a/x and /a/y, top-level file /b, five subscribe/cancel/close calls and two file creations or deletions (93,776 states). `TypeOK` (no path hashed twice), `NoOrphans` (gam_tree_remove is never applied to a node with children, so every node hangs under a node), `SubsInTree` (a live subscription always has its node, so the cancel reaches remove_subscription_real). |
| `tree_leftover_entries` | violation | A directory subscription on /a (first_scan_dir adds /a/x), a file subscription on /a/y, then both cancelled: the children loop of node_remove_directory_subscription meets /a/y first, sets remove_dir to FALSE for good and so keeps /a/x; prune_tree later stops at /a/x. `TreeReleased` fails: /a and /a/x stay in the tree. |

Each property of a passing run has a mutant in `PROJECT.json`: a plausible bug in the mapped definition that TLC must catch. Examples:
- `Arm` never re-arms the flush timer → `QueueDrains` fails.
- The resend loop is skipped → `ReconnectResubscribes` fails.
- A cancelled request's events are not dropped (`AcceptedAny`) → `FamRefinement` fails.
- The static exclude patterns are installed before the configuration → `ConfiguredBeforeStatic` fails.
- gamin_data_event_ready does not scan the bytes already held → `ClientFraming` fails: a piggy-backed event waits while FAMNextEvent blocks.
- gam_connection_data takes a request that ends exactly at the bytes held as incomplete → `ServerFraming` fails.

### Bounds

The bounds are named constants:

- `MaxReqs`: monitor calls.
- `MaxCancels`: cancel calls.
- `MaxEmits`: file-system changes.
- `MaxCrashes`: daemon deaths.
- `ChosenReqnos`: the reqnos passed to the `*2` calls.
- `AutoReqnos`: whether library allocation is used at all.
- `UseQueue`: inotify queue or direct write.

The small values are enough because each finding needs at most two requests, one daemon death and one file-system change. TLC reaches all of these within those bounds. Two caveats:

- The passing `protocol_reconnect` run uses only caller-chosen reqnos. With library allocation, every reconnect followed by a monitor call breaks it, as the `reqno_reuse_after_reconnect` finding shows.
- `MaxEmits = 1` in queue mode keeps the run under a minute, so tail coalescing of two identical live events is not exercised there.

The 16-bit wrap of reqno (`Seq16`) is modelled but unreachable at these bounds.

The poll engine's bounds are `MaxOps` (file operations), `Churn` (whether deletes and creates happen), `QMax` (the queue limit, standing for MAX_QUEUE_SIZE = 500) and `MaxCalls` (subscribe/unsubscribe calls; it also bounds the leaked refcount). Entering busy takes 4 writes within one second; leaving takes 6 quiet seconds. `MaxOps` of 5 to 8 therefore lets a file become busy, stay busy under further writes, and be deleted or re-created while busy. In `poll_two_subs` the queue limit of 2 is reached, which at 500 is the same code path. `poll_churn` keeps the limit above the number of signals. The reason: once stale entries (of fds closed by flow control) can fill the queue, the next valid signal is dropped and never rescanned, and `ChangeReported` fails. `poll_churn` allows two subscribe/unsubscribe calls, so a subscription is made and cancelled but never remade: a resubscribe after a busy period reaches the refcount leak of `poll_refcount_leak`. `DSubs` has one directory subscriber in `poll_churn` and none in the other runs, and `Mixed` is FALSE everywhere; the two reasons are the two divergences below (two directory subscribers, and a file and a directory subscriber together).

`GamTree` is bounded by `MaxCalls` (subscribe, cancel, close) and `MaxOps` (file changes). Two subscriptions and five calls reach every removal order of a directory and a file subscription under it, a close with two subscriptions, and resubscription after a close; the path set has a directory with two entries (so the children loop can keep one and reach the other) and a top-level file.

`MCAlgorithms` enumerates its inputs in `Init`: the families (request tables, mtab contents with a probe path, configuration files, exclude lines, packet streams, mtab traces, routing inputs), each with the others fixed. Six steps over two mtab versions are enough for a rewrite in the same second as a lookup, a tick, and a lookup that misses it, followed by a rewrite in a later second that is seen. Paths over the characters `/`, `a`, `b` make `/a` a string prefix of `/ab`, and lines on the same mount point make over-mounts; one line per configuration file is enough for the mandatory file to override the others.

### Fairness

Weak fairness is assumed for:
- the daemon's main-loop handlers: `Accept`, `AuthRead`, `Serve*`, `Flush`;
- the library's reads: `ReadCred`, `NextEvent`, `Reconnect`.

Why these are justified:
- **Daemon:** glib dispatches every ready source in turn, and the queue timer fires every 100 ms.
- **Library:** the properties concern an application that keeps calling FAMNextEvent.

In `GamPollEngine` the scan timer, the clock and the pipe watch are weakly fair, for the same reason. The fairness is written out as `<>[]guard => []<><<A>>_vars` rather than `WF_vars(A)`. It is equivalent here, because each action changes the state whenever its guard holds, and TLC evaluates it without computing ENABLED of the recursive scans. Subscriptions and file operations are not fair. Because Tick and ScanCallback always alternate, the model never deadlocks, and its cfgs check deadlock.

No fairness is assumed for the application's API calls, file-system changes or daemon deaths. The model stops when its bounds are exhausted and everything is delivered; that is the idle daemon. This is why the cfgs say `CHECK_DEADLOCK FALSE`.

## Divergences recorded as hazards, not run

Some disagreements with spec.md are recorded in `PROJECT.json` as hazards, without a run of their own:
- **Ack before queued events:** in inotify mode the Acknowledge of a cancel overtakes events of the same subscription still in the queue (`gam_connection.c:411`). The library drops them because the request is gone; `FamRefinement` checks that the application never sees them.
- **EndExist after Deleted:** a subscription to a missing path gets Deleted followed by EndExist (`gam_inotify.c:115`).
- **Busy exit:** the busy state ends after 6 quiet seconds in total, not 5 consecutive ones (`gam_poll_dnotify.c:276`).
- **Stale queue entries:** signals of closed fds count against the 500-entry signal queue (`gam_dnotify.c:273`).
- **Double cancel:** a second CANCEL of the same request makes the daemon close the connection (`gam_connection.c:380`). With two cancels allowed the protocol model shows the first cancel still completes; the run is left out because it takes more than three minutes.
- **Mixed reqno allocation:** FAMMonitorFile2 with a large reqno followed by FAMMonitorFile leaves the table unsorted (`gam_data.c:297`), and the binary search then misses entries. The passing protocol runs use one allocation style each and no run checks that the table stays sorted: with library-allocated reqnos and no daemon death it is sorted by construction, and mixing the styles, or the reqno reset after a daemon death (`gam_data.c:539`), makes TLC find an unsorted table at once.
- **Mandatory exclude patterns do not override:** gam_conf_read reads mandatory_gaminrc last "so that the system administrator can override" (`gam_conf.c:119-125`). That holds for fsset lines. But the first matching exclude pattern decides (`gam_excludes.c:84-86`), so a poll/notify pattern of gaminrc or ~/.gaminrc wins over the mandatory file's pattern for the same path. Stated as a property (a matching pattern of the mandatory file decides), TLC breaks the comment's promise in an initial state: `poll` in ~/.gaminrc and `notify` in mandatory_gaminrc for the same path. It is recorded as a divergence and not checked by a run. `ConfiguredBeforeStatic` leaves the order among the files out, so it does not hide this.
- **Spurious FAMNextEvent failures:** FAMNextEvent reads once, then calls gamin_data_read_event (`gam_api.c:1291-1298`). If that read completed no event for the application, the call returns -1 with FAM_CONNECT although the connection is fine. This happens after a partial packet, or when the read held only dropped packets (events of a cancelled request, noise after a reconnect). `GamFraming` counts such calls, and `ClientFraming` shows nothing is lost by them.
- **Second directory subscription swallows a creation:** F is created and the dnotify signal is queued; before the pipe handler runs, a second directory subscription on D runs first_scan_dir, which adds F to the tree with its current stat and without FLAG_NEW_NODE (`gam_poll_generic.c:471`). The later scan finds F old and unchanged, and the first directory subscriber never gets Created. TLC finds `ChangeReported` violated with `DSubs` = {d1, d2}.
- **File and directory subscription together:** deleting F delists it (`gam_poll_dnotify.c:214`). A directory scan that finds F again reports Created but does not relist it (only the missing-list scan does). Removing the file subscription then deactivates D's watch once more, and the fd closes while the directory subscription still needs it. TLC finds `WatchedOrPolled` violated with `Mixed` TRUE.
- **Remount between add and cancel under inotify:** gam_remove_subscription and the cancel's free decision recompute the path's type (`gam_server.c:249`, `gam_connection.c:405`) instead of remembering the route of the add. If the mtab re-scan changes the type in between, a kernel-routed subscription stays held by inotify and is never freed, or a polled one is freed by the connection while gam_poll_basic still holds it. Without the premise `SubscriptionReleasedOnce` fails at once; in a dnotify build both routes end in the poll engine and the property holds without it.
- **Mount prefix:** gam_fs_find_fs matches mount points as string prefixes (`gam_fs.c:68`), so /mnt/nfsdata is taken to be on /mnt/nfs. `MountLookupCorrect` uses the same string prefix in its reference.

## Not modelled yet, and the plan

Planned next:

1. **Several connections** in `GamServer`, with subscriptions of two clients on the same path.

Out of scope:
- the Hurd backend;
- GLib's glob matching (a pattern is the set of paths it matches), and the routing of a subscription by the exclude list in the engine models (a path's exclusion is a constant there);
- logging, pidname and debugging;
- daemon forking;
- socket-path security checks (gam_check_secure_dir/path and their client twins). They would need a second user acting between the system calls of the daemon and the client. One gap is recorded as a hazard: stat follows a symbolic link planted in /tmp (`gam_channel.c:438`). The credential check that the protocol models keep is what stops a client from talking to a foreign daemon;
- the test driver;
- FAMSuspend/Resume (unimplemented in the library).
