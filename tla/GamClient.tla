------------------------------- MODULE GamClient -------------------------------
(***************************************************************************)
(* The client library libgamin (src/libgamin/gam_api.c, gam_data.c) for  *)
(* one FAMConnection used by one application thread: the request table,   *)
(* reqno allocation, the FAMMonitor* / FAMCancelMonitor / FAMNoExists     *)
(* calls, event acceptance in FAMNextEvent, and the transparent reconnect *)
(* that resubscribes every request after the daemon went away.            *)
(***************************************************************************)
EXTENDS Integers, Sequences, SequencesExt, GamReqTable

CONSTANTS
    Paths,         \* the watched paths, model values
    MaxReqs,       \* bound on FAMMonitor* calls
    MaxCancels,    \* bound on FAMCancelMonitor calls
    ChosenReqnos,  \* reqnos an application passes to FAMMonitor*2
    AutoReqnos     \* whether it also calls FAMMonitorFile / FAMMonitorDirectory

VARIABLES
    reqno,      \* conn->reqno, the next reqno FAMMonitorFile will use
    tab,        \* conn->req_tab[0 .. req_nr - 1]
    cauth,      \* conn->auth: the server's credential byte was read
    restarted,  \* conn->restarted: skip the state burst after a reconnect
    noexist,    \* conn->noexist, set by FAMNoExists
    ncancel,    \* FAMCancelMonitor calls so far
    nextgid,    \* ghost: identity of the next request record
    applog,     \* ghost: every event FAMNextEvent returned, in order
    c2s, s2c, link

cliVars == <<reqno, tab, cauth, restarted, noexist, ncancel, nextgid, applog>>

\* The wire's seq field is an unsigned short (gam_protocol.h).
Seq16(n) == n % 65536

\* gamin_write_byte: the packet reaches the server's socket while the
\* connection is up; on a dead socket the write fails (FAM_CONNECT) and
\* nothing else is undone.
Write(pkts) ==
    IF link = "up" THEN c2s' = c2s \o pkts ELSE UNCHANGED c2s

\* The request packet gamin_send_request builds; GAM_OPT_NOEXISTS is only
\* added to directory requests, and only after FAMNoExists.
ReqPkt(e) ==
    [kind |-> e.kind, seq |-> Seq16(e.reqno), path |-> e.path, gid |-> e.gid,
     noexists |-> e.kind = "MONDIR" /\ noexist]

\* Mutant: conn->reqno is not incremented.
MonitorSameReqno(pa, kind) ==
    /\ nextgid <= MaxReqs
    /\ LET e == [reqno |-> reqno, state |-> REQ_INIT, path |-> pa,
                 kind |-> kind, gid |-> nextgid]
       IN  tab' = AddReq(tab, e) /\ Write(<<ReqPkt(e)>>)
    /\ nextgid' = nextgid + 1
    /\ UNCHANGED <<reqno, cauth, restarted, noexist, ncancel, applog, s2c, link>>

\* FAMMonitorFile / FAMMonitorDirectory: gamin_data_get_reqnum appends a
\* request with reqno = conn->reqno++, then the packet is written.
Monitor(pa, kind) ==
    /\ nextgid <= MaxReqs
    /\ LET e == [reqno |-> reqno, state |-> REQ_INIT, path |-> pa,
                 kind |-> kind, gid |-> nextgid]
       IN  /\ tab' = AddReq(tab, e)
           /\ Write(<<ReqPkt(e)>>)
    /\ reqno' = reqno + 1
    /\ nextgid' = nextgid + 1
    /\ UNCHANGED <<cauth, restarted, noexist, ncancel, applog, s2c, link>>

\* FAMMonitorFile2 / FAMMonitorDirectory2 with the caller's reqno r:
\* gamin_data_add_req2 inserts it if get_req_loc accepts it (else FAM_MEM
\* and nothing happens).
Monitor2(pa, kind, r) ==
    /\ nextgid <= MaxReqs
    /\ CanAddReq2(tab, r)
    /\ LET e == [reqno |-> r, state |-> REQ_INIT, path |-> pa,
                 kind |-> kind, gid |-> nextgid]
       IN  /\ tab' = AddReq2(tab, e)
           /\ Write(<<ReqPkt(e)>>)
    /\ nextgid' = nextgid + 1
    /\ UNCHANGED <<reqno, cauth, restarted, noexist, ncancel, applog, s2c, link>>

\* FAMCancelMonitor: gamin_data_cancel marks the request (returning 0 if it
\* already was) and a CANCEL packet is sent in both cases; a reqno not in
\* the table is FAM_ARG.
Cancel(r) ==
    /\ ncancel < MaxCancels
    /\ ReqIdx(tab, r) >= 0
    /\ tab' = CancelReq(tab, r)
    /\ Write(<<[kind |-> "CANCEL", seq |-> Seq16(r), path |-> "none",
                gid |-> 0, noexists |-> FALSE]>>)
    /\ ncancel' = ncancel + 1
    /\ UNCHANGED <<reqno, cauth, restarted, noexist, nextgid, applog, s2c, link>>

\* FAMNoExists.
NoExists ==
    /\ ~noexist /\ noexist' = TRUE
    /\ UNCHANGED <<reqno, tab, cauth, restarted, ncancel, nextgid, applog,
                   c2s, s2c, link>>

\* gamin_read_data while conn->auth is 0: gamin_check_cred reads the
\* server's credential byte.
ReadCred ==
    /\ ~cauth /\ s2c # <<>> /\ Head(s2c).kind = "cred"
    /\ cauth' = TRUE /\ s2c' = Tail(s2c)
    /\ UNCHANGED <<reqno, tab, restarted, noexist, ncancel, nextgid,
                   applog, c2s, link>>

\* gamin_data_conn_event for packet pkt: the request is looked up by a
\* binary search; no request drops it, a cancelled request drops all but
\* the Acknowledge, and a request still in INIT becomes CONFIRMED.
Idx(pkt) == ReqIdx(tab, pkt.seq)
\* Mutant: a cancelled request's events are not dropped.
AcceptedAny(pkt) == Idx(pkt) >= 0
Accepted(pkt) ==
    /\ Idx(pkt) >= 0
    /\ tab[Idx(pkt) + 1].state # REQ_CANCELLED \/ pkt.code = "Acknowledge"
Confirmed(pkt) ==
    IF Accepted(pkt) /\ tab[Idx(pkt) + 1].state = REQ_INIT
    THEN [tab EXCEPT ![Idx(pkt) + 1].state = REQ_CONFIRMED] ELSE tab

\* After a reconnect (conn->restarted) events are skipped until a Created,
\* Moved or Changed, which is delivered, or an EndExist, which is not; the
\* flag belongs to the connection, not to a request.
Live(code) == code \in {"Created", "Moved", "Changed"}
Passes(pkt) == Accepted(pkt) /\ (~restarted \/ Live(pkt.code))
Restarted(pkt) ==
    restarted /\ ~(Accepted(pkt) /\ (Live(pkt.code) \/ pkt.code = "EndExist"))

\* gamin_data_read_event: an Acknowledge deletes its request.
AfterRead(pkt) ==
    IF pkt.code = "Acknowledge" THEN DelReq(Confirmed(pkt), pkt.seq)
    ELSE Confirmed(pkt)

\* FAMNextEvent reading one packet (gamin_read_data, gamin_data_conn_data,
\* gamin_data_conn_event): an accepted event is returned to the application
\* and gamin_data_read_event deletes the request on an Acknowledge; a
\* skipped packet is consumed, and the call returns -1 (FAM_CONNECT) with
\* the connection intact, after which the application calls again.  How
\* bytes are cut into packets is in GamFraming.
NextEvent ==
    /\ cauth /\ s2c # <<>>
    /\ LET pkt == Head(s2c)
       IN  /\ s2c' = Tail(s2c)
           /\ restarted' = Restarted(pkt)
           /\ IF Passes(pkt)
              THEN /\ applog' = Append(applog,
                        [seq |-> pkt.seq, code |-> pkt.code, gid |-> pkt.gid,
                         reqgid |-> tab[Idx(pkt) + 1].gid])
                   /\ tab' = AfterRead(pkt)
              ELSE tab' = Confirmed(pkt) /\ UNCHANGED applog
    /\ UNCHANGED <<reqno, cauth, noexist, ncancel, nextgid, c2s, link>>

\* Resending request e (gamin_resend_request): its original type, always
\* with GAM_OPT_NOEXISTS, whatever the request's state.
ResendPkt(e) ==
    [kind |-> e.kind, seq |-> Seq16(e.reqno), path |-> e.path, gid |-> e.gid,
     noexists |-> TRUE]

\* Mutant: the resend loop of gamin_try_reconnect is skipped.
ResendNone == <<>>

\* The resend loop of gamin_try_reconnect, in table order.
ResendAll == [i \in 1..Len(tab) |-> ResendPkt(tab[i])]

\* FAMNextEvent when the read fails (EOF once the socket is drained):
\* gamin_try_reconnect connects again (gamin_connect_unix_socket starts a
\* daemon if needed), writes the credential byte, gamin_data_reset clears
\* auth, sets reqno = 1 and restarted = 1 while the table is kept, and every
\* request in the table is resent.
Reconnect ==
    /\ link = "down" /\ s2c = <<>>
    /\ link' = "up"
    /\ c2s' = <<[kind |-> "cred"]>> \o ResendAll
    /\ cauth' = FALSE /\ reqno' = 1 /\ restarted' = TRUE
    /\ UNCHANGED <<tab, noexist, ncancel, nextgid, applog, s2c>>

ClientNext ==
    \/ \E pa \in Paths, kind \in {"MONFILE", "MONDIR"} :
          \/ AutoReqnos /\ Monitor(pa, kind)
          \/ \E r \in ChosenReqnos : Monitor2(pa, kind, r)
    \/ \E i \in 1..Len(tab) : Cancel(tab[i].reqno)
    \/ NoExists \/ ReadCred \/ NextEvent \/ Reconnect
================================================================================
