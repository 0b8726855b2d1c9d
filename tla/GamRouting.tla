------------------------------ MODULE GamRouting ------------------------------
(***************************************************************************)
(* Which backend holds a subscription, and who frees it.                  *)
(*                                                                         *)
(* gam_add_subscription (src/server/gam_server.c) sends a subscription to  *)
(* the kernel or the poll backend by the exclude list and the file-system *)
(* type of its path; gam_remove_subscription decides again, from scratch, *)
(* where to remove it; and in an inotify build the cancel of              *)
(* gam_connection_request and gam_listener_free_subscription decide a    *)
(* third time whether they free the subscription themselves.  The state   *)
(* of one subscription is what holds it: the backends' engines (held), the *)
(* listener's list (listed), how often it was freed (frees) and whether   *)
(* its connection was closed for an unknown cancel (closed).              *)
(*                                                                         *)
(* In a dnotify build the kernel hooks are gam_dnotify_add/remove_        *)
(* subscription, which hand the subscription to the poll hooks, so both  *)
(* routes end in gam_poll_dnotify.  In an inotify build the poll hooks    *)
(* are those of gam_poll_basic, whose source is not in the tree: its add  *)
(* lists and holds the subscription and its remove frees it, as the free *)
(* decision of gam_connection.c expects.                                  *)
(***************************************************************************)
EXTENDS Naturals, GamFs

\* the engines that can hold a subscription
INOTIFY   == "inotify"      \* ih_sub of gam_inotify.c
POLLD     == "poll_dnotify" \* node subscription of gam_poll_dnotify.c
POLLBASIC == "poll_basic"   \* gam_poll_basic

Sub0 == [held |-> {}, listed |-> FALSE, frees |-> 0, closed |-> FALSE]

\* the hooks gam_init_subscriptions installs: the engine behind each route
KernelEngine(inot) == IF inot THEN INOTIFY ELSE POLLD
PollEngine(inot) == IF inot THEN POLLBASIC ELSE POLLD

\* gam_add_subscription: an excluded path goes to polling when inotify
\* runs and to the kernel backend otherwise; any other path by its type,
\* and to no backend when the type is none
AddRoute(inot, excl, ty) ==
    IF excl THEN (IF inot THEN "poll" ELSE "kernel")
    ELSE CASE ty = KERNEL -> "kernel"
           [] ty = POLL   -> "poll"
           [] OTHER       -> "none"

\* gam_remove_subscription: the same decision, taken again
RemoveRoute(inot, excl, ty) ==
    IF excl THEN (IF inot THEN "poll" ELSE "kernel")
    ELSE CASE ty = KERNEL -> "kernel"
           [] ty = POLL   -> "poll"
           [] OTHER       -> "none"

Engine(inot, route) ==
    IF route = "kernel" THEN KernelEngine(inot) ELSE PollEngine(inot)

\* the add hook of an engine: every one first puts the subscription on
\* its listener's list; gam_inotify_add_subscription then fails when
\* ih_sub_add does (ok = FALSE), leaving it listed but not watched
EngineAdd(sb, eng, ok) ==
    [sb EXCEPT !.listed = TRUE,
               !.held = IF eng = INOTIFY /\ ~ok THEN @ ELSE @ \cup {eng}]

\* the remove hook: gam_inotify_remove_subscription frees the ih_subs
\* that point at it, the poll engines free the subscription itself
EngineRemove(sb, eng) ==
    [sb EXCEPT !.held = @ \ {eng},
               !.frees = IF eng = INOTIFY THEN @ ELSE @ + 1]

\* gam_add_subscription with the hooks behind it; the FALSE it returns
\* for a type none path is ignored by gam_connection_request
AddSubscription(sb, inot, excl, ty, ok) ==
    IF AddRoute(inot, excl, ty) = "none" THEN sb
    ELSE EngineAdd(sb, Engine(inot, AddRoute(inot, excl, ty)), ok)

\* gam_remove_subscription with the hooks behind it
RemoveSubscription(sb, inot, excl, ty) ==
    IF RemoveRoute(inot, excl, ty) = "none" THEN sb
    ELSE EngineRemove(sb, Engine(inot, RemoveRoute(inot, excl, ty)))

\* mutant: the connection frees every non-polled type, excluded or not
ConnFreesNoExclude(inot, excl, ty) == inot /\ ty # POLL

\* the ENABLE_INOTIFY block after gam_remove_subscription in the cancel
\* branch of gam_connection_request: free unless the path is polled
ConnFrees(inot, excl, ty) == inot /\ ~excl /\ ty # POLL

\* the same block in gam_listener_free_subscription
ListenerFrees(inot, excl, ty) == inot /\ ~excl /\ ty # POLL

\* the CANCEL branch of gam_connection_request: a subscription not on the
\* listener's list is an error that closes the connection; otherwise it
\* leaves the list, is removed from its backend and maybe freed
Cancel(sb, inot, excl, ty) ==
    IF ~sb.listed THEN [sb EXCEPT !.closed = TRUE]
    ELSE LET s1 == RemoveSubscription([sb EXCEPT !.listed = FALSE], inot, excl, ty)
         IN  [s1 EXCEPT !.frees = IF ConnFrees(inot, excl, ty) THEN @ + 1 ELSE @]

\* gam_listener_free on connection close, for a listed subscription:
\* gam_listener_free_subscription, then the list link is deleted
Close(sb, inot, excl, ty) ==
    IF ~sb.listed THEN sb
    ELSE LET s1 == RemoveSubscription(sb, inot, excl, ty)
         IN  [s1 EXCEPT !.listed = FALSE,
                        !.frees = IF ListenerFrees(inot, excl, ty) THEN @ + 1 ELSE @]
================================================================================
