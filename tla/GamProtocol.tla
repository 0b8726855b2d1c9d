------------------------------ MODULE GamProtocol ------------------------------
(***************************************************************************)
(* libgamin and gam_server composed over one Unix-socket connection.     *)
(* GamServer and GamClient share the socket (c2s, s2c, link); every step *)
(* is a step of one of them, the daemon's main loop or the application    *)
(* thread calling into the library.                                       *)
(***************************************************************************)
EXTENDS Integers, Sequences, GamReqTable

CONSTANTS Paths, UseQueue, MaxEmits, MaxCrashes, MaxReqs, MaxCancels,
          ChosenReqnos, AutoReqnos

VARIABLES sstate, subs, eq, eqsrc, fs, emits, crashes,
          reqno, tab, cauth, restarted, noexist, ncancel, nextgid, applog,
          c2s, s2c, link

S == INSTANCE GamServer
C == INSTANCE GamClient

srvVars == <<sstate, subs, eq, eqsrc, fs, emits, crashes>>
cliVars == <<reqno, tab, cauth, restarted, noexist, ncancel, nextgid, applog>>
vars == <<srvVars, cliVars, c2s, s2c, link>>

\* FAMOpen has connected (starting the daemon) and written the credential
\* byte; the daemon has not accepted yet.
Init ==
    /\ sstate = "none" /\ subs = <<>> /\ eq = <<>> /\ eqsrc = FALSE
    /\ fs \in [Paths -> BOOLEAN] /\ emits = 0 /\ crashes = 0
    /\ reqno = 1 /\ tab = <<>> /\ cauth = FALSE /\ restarted = FALSE
    /\ noexist = FALSE /\ ncancel = 0 /\ nextgid = 1 /\ applog = <<>>
    /\ c2s = <<[kind |-> "cred"]>> /\ s2c = <<>> /\ link = "up"

Srv(A) == A /\ UNCHANGED cliVars
Cli(A) == A /\ UNCHANGED srvVars

Next == Srv(S!ServerNext) \/ Cli(C!ClientNext)

\* The daemon's main loop serves every ready source (socket input, the
\* queue timer) and the application keeps calling FAMNextEvent: weak
\* fairness for those steps.  File-system changes, daemon deaths and the
\* application's requests are not assumed to happen.
Fairness ==
    /\ WF_vars(Srv(S!Accept)) /\ WF_vars(Srv(S!AuthRead))
    /\ WF_vars(Srv(S!ServeMonitor)) /\ WF_vars(Srv(S!ServeCancel))
    /\ WF_vars(Srv(S!ServeCancelUnknown)) /\ WF_vars(Srv(S!Flush))
    /\ WF_vars(Cli(C!ReadCred)) /\ WF_vars(Cli(C!NextEvent))
    /\ WF_vars(Cli(C!Reconnect))

Spec == Init /\ [][Next]_vars /\ Fairness

Gids == 1..MaxReqs
Codes == {S!Changed, S!Deleted, S!Created, S!Exists, S!EndExist, S!Acknowledge}
ReqKinds == {"MONFILE", "MONDIR"}
EventPkts == [kind : {"event"}, seq : Nat, code : Codes, path : Paths, gid : Gids]
ReqPkts == [kind : ReqKinds \cup {"CANCEL"}, seq : Nat,
            path : Paths \cup {"none"}, gid : Gids \cup {0}, noexists : BOOLEAN]
Entries == [reqno : Nat, state : {REQ_INIT, REQ_CONFIRMED, REQ_CANCELLED},
            path : Paths, kind : ReqKinds, gid : Gids]

TypeOK ==
    /\ sstate \in {"none", "auth", "okay"} /\ link \in {"up", "down"}
    /\ subs \in Seq([reqno : Nat, path : Paths, noexists : BOOLEAN, gid : Gids])
    /\ eq \in Seq(EventPkts) /\ eqsrc \in BOOLEAN
    /\ fs \in [Paths -> BOOLEAN]
    /\ c2s \in Seq(ReqPkts \cup {[kind |-> "cred"]})
    /\ s2c \in Seq(EventPkts \cup {[kind |-> "cred"]})
    /\ tab \in Seq(Entries) /\ reqno \in Nat
    /\ {cauth, restarted, noexist} \subseteq BOOLEAN
    /\ applog \in Seq([seq : Nat, code : Codes, gid : Gids, reqgid : Gids])

InTab(g) == \E i \in 1..Len(tab) : tab[i].gid = g
Cancelled(g) == \E i \in 1..Len(tab) : tab[i].gid = g /\ tab[i].state = REQ_CANCELLED
LiveReq(g) == InTab(g) /\ ~Cancelled(g)
ServerHas(g) == \E i \in 1..Len(subs) : subs[i].gid = g

\* Every event FAMNextEvent hands to the application under a request was
\* produced by the server subscription made for that very request: the
\* reqno lookup of gamin_data_conn_event never attributes another
\* subscription's events to it.
EventsMatchRequest == \A i \in DOMAIN applog : applog[i].gid = applog[i].reqgid

\* A request the application cancelled is eventually acknowledged and
\* removed from the library's table (FAMCancelMonitor, gam_send_ack,
\* gamin_data_read_event).
CancelCompletes == \A g \in Gids : Cancelled(g) ~> ~InTab(g)

\* Every queued event is eventually written: gam_queue_event re-arms the
\* flush timer that gam_connection_eq_flush disarms when the queue is empty.
QueueDrains == (eq # <<>>) ~> (eq = <<>>)

\* Every live request of the library is eventually backed by a subscription
\* of the daemon, across daemon deaths and gamin_try_reconnect.
ReconnectResubscribes == \A g \in Gids : LiveReq(g) ~> (~LiveReq(g) \/ ServerHas(g))

\* The refinement mapping onto FamService: a request's abstract state is
\* read off the library's table (a request leaves it only by the
\* Acknowledge in gamin_data_read_event) and the abstract event log is the
\* application's view of applog, each event under the request the reqno
\* lookup attributed it to.
AbsReq == [g \in Gids |-> IF g >= nextgid THEN "none"
                          ELSE IF ~InTab(g) THEN "done"
                          ELSE IF Cancelled(g) THEN "cancelled"
                          ELSE "active"]
AbsLog == [i \in DOMAIN applog |-> <<applog[i].reqgid, applog[i].code>>]

FAM == INSTANCE FamService WITH Codes <- Codes \ {S!Acknowledge},
           Ack <- S!Acknowledge, req <- AbsReq, delivered <- AbsLog

\* The library and the daemon together implement the FAM service: an event
\* reaches the application only for a request that is active (never after
\* FAMCancelMonitor, never for a request not yet made), a cancel is
\* answered by exactly one FAMAcknowledge and nothing follows it, and every
\* cancel is eventually acknowledged.
FamRefinement == FAM!FSpec
================================================================================
