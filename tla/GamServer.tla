------------------------------- MODULE GamServer -------------------------------
(***************************************************************************)
(* One client connection of the gam_server daemon: the connection state   *)
(* machine and request dispatch (gam_channel.c, gam_connection.c), the    *)
(* listener's subscription list (gam_listener.c), the event queue and its *)
(* 100 ms flush timer (gam_eq.c), and the backend's initial and live      *)
(* events (gam_inotify.c, gam_server.c) abstracted to one path per        *)
(* subscription.  The socket is two FIFO channels: c2s (requests, read by *)
(* the server) and s2c (events, read by the client); link is the socket's *)
(* state as the client sees it.                                            *)
(***************************************************************************)
EXTENDS Integers, Sequences, SequencesExt, GamEq

CONSTANTS
    Paths,       \* the watched paths, model values
    UseQueue,    \* TRUE when inotify runs: events go through the queue
    MaxEmits,    \* bound on file-system changes
    MaxCrashes   \* bound on daemon deaths

VARIABLES
    sstate,   \* conn->state: "none" (no connection), "auth", "okay"
    subs,     \* conn->listener->subs, most recently added first
    eq,       \* conn->eq, the queued events
    eqsrc,    \* conn->eq_source # 0, the flush timer is armed
    fs,       \* which paths exist
    emits,    \* file-system changes so far
    crashes,  \* daemon deaths so far
    c2s, s2c, link

srvVars == <<sstate, subs, eq, eqsrc, fs, emits, crashes>>

\* FAM event codes (gam_protocol.h / fam.h).
Changed == "Changed"
Deleted == "Deleted"
Created == "Created"
Exists == "Exists"
EndExist == "EndExist"
Acknowledge == "Acknowledge"

\* gam_subscription_wants_event (gam_subscription.c, not in this tree):
\* a subscription made with GAM_OPT_NOEXISTS gets no Exists/EndExist.
Wants(sub, code) == ~(sub.noexists /\ code \in {Exists, EndExist})

\* The packet gam_send_event / gam_send_ack writes for sub.
EventPkt(sub, code) ==
    [kind |-> "event", seq |-> sub.reqno, code |-> code,
     path |-> sub.path, gid |-> sub.gid]

\* Mutant: gam_queue_event never re-arms the flush timer.
ArmNever(pkts) == eqsrc

\* gam_queue_event: the flush timer is armed if it was not.
Arm(pkts) == eqsrc \/ pkts # <<>>

\* gam_server_emit_one_event for each (sub, code) in order: filter through
\* wants_event, then gam_queue_event (inotify) or gam_send_event (direct).
Emit(pairs) ==
    LET wanted == SelectSeq(pairs, LAMBDA pr : Wants(pr[1], pr[2]))
        pkts   == [i \in 1..Len(wanted) |-> EventPkt(wanted[i][1], wanted[i][2])]
    IN  IF UseQueue
        THEN /\ eq' = EqQueueAll(eq, pkts)
             /\ eqsrc' = Arm(pkts)
             /\ UNCHANGED s2c
        ELSE /\ s2c' = s2c \o pkts
             /\ UNCHANGED <<eq, eqsrc>>

\* Mutant: a missing path's event type is left unmapped, as
\* ih_mask_to_EventType does (-1) for masks it does not know.
InitialCodesUnmapped(exists) == << IF exists THEN Exists ELSE "Unmapped", EndExist >>

\* gam_inotify_send_initial_events with was_missing = FALSE: Exists if the
\* path exists, else Deleted, then EndExist whenever the path was not
\* reported missing by the watch layer.
InitialCodes(exists) == << IF exists THEN Exists ELSE Deleted, EndExist >>

\* gam_incoming_conn_read + gam_connection_new: state AUTH, empty queue,
\* flush timer armed.
Accept ==
    /\ sstate = "none" /\ link = "up"
    /\ sstate' = "auth" /\ subs' = <<>> /\ eq' = EqNew /\ eqsrc' = TRUE
    /\ UNCHANGED <<fs, emits, crashes, c2s, s2c, link>>

\* gam_client_conn_check_cred: read the credential byte, set_pid moves the
\* connection to OKAY and creates the listener, the byte is echoed back.
AuthRead ==
    /\ sstate = "auth" /\ c2s # <<>> /\ Head(c2s).kind = "cred"
    /\ c2s' = Tail(c2s)
    /\ sstate' = "okay"
    /\ s2c' = Append(s2c, [kind |-> "cred"])
    /\ UNCHANGED <<subs, eq, eqsrc, fs, emits, crashes, link>>

\* gam_connection_close after an error on the connection: the queue is
\* flushed to the socket, then freed with the listener and its subscriptions.
CloseConn ==
    /\ s2c' = EqFlush(s2c, eq)
    /\ eq' = <<>> /\ eqsrc' = FALSE /\ subs' = <<>>
    /\ sstate' = "none" /\ link' = "down" /\ c2s' = <<>>

\* The request at the head of the socket, once the connection is OKAY
\* (gam_client_conn_read -> gam_connection_data -> gam_connection_request).
Ready == sstate = "okay" /\ c2s # <<>>
Req == Head(c2s)

\* Index of the first subscription with reqno n in the listener's list
\* (gam_listener_get_subscription_by_reqno), 0 when there is none.
SubByReqno(n) == SelectInSeq(subs, LAMBDA s : s.reqno = n)

\* gam_inotify_add_subscription: the subscription is prepended to the
\* listener before the kernel watch is set up.
AddSub(sub) == <<sub>> \o subs

\* MONFILE / MONDIR: a new subscription goes to the inotify backend and
\* the initial events are emitted. Nothing checks that the reqno is free.
ServeMonitor ==
    /\ Ready /\ Req.kind \in {"MONFILE", "MONDIR"}
    /\ LET sub == [reqno |-> Req.seq, path |-> Req.path,
                   noexists |-> Req.noexists, gid |-> Req.gid]
           codes == InitialCodes(fs[Req.path])
       IN  /\ subs' = AddSub(sub)
           /\ Emit([i \in 1..Len(codes) |-> <<sub, codes[i]>>])
    /\ c2s' = Tail(c2s)
    /\ UNCHANGED <<sstate, fs, emits, crashes, link>>

\* gam_send_ack: the Acknowledge is written to the socket at once.
SendAck(ack) == s2c' = Append(s2c, ack)

\* CANCEL: the subscription is removed and the Acknowledge is written
\* directly to the socket (gam_send_ack), ahead of anything still queued.
ServeCancel ==
    /\ Ready /\ Req.kind = "CANCEL" /\ SubByReqno(Req.seq) # 0
    /\ LET ack == EventPkt(subs[SubByReqno(Req.seq)], Acknowledge)
       IN  /\ subs' = RemoveAt(subs, SubByReqno(Req.seq))
           /\ SendAck(ack)
    /\ c2s' = Tail(c2s)
    /\ UNCHANGED <<sstate, eq, eqsrc, fs, emits, crashes, link>>

\* CANCEL of a reqno with no subscription: gam_connection_request fails and
\* gam_client_conn_read shuts the connection down.
ServeCancelUnknown ==
    /\ Ready /\ Req.kind = "CANCEL" /\ SubByReqno(Req.seq) = 0
    /\ CloseConn
    /\ UNCHANGED <<fs, emits, crashes>>

\* gam_connection_eq_flush, the 100 ms timer: write every queued event;
\* with nothing to write the timer removes itself (eq_source = 0).
Flush ==
    /\ eqsrc /\ sstate # "none"
    /\ IF eq = <<>>
       THEN eqsrc' = FALSE /\ UNCHANGED s2c
       ELSE s2c' = EqFlush(s2c, eq) /\ UNCHANGED eqsrc
    /\ eq' = <<>>
    /\ UNCHANGED <<sstate, subs, fs, emits, crashes, c2s, link>>

\* A change of path pa seen by the backend: every subscription on pa gets
\* the event, in listener order (gam_inotify_event_callback and, for a
\* path that reappears, gam_inotify_found_callback -> Created).
FsChange(pa, code) ==
    /\ emits < MaxEmits
    /\ code \in IF fs[pa] THEN {Changed, Deleted} ELSE {Created}
    /\ fs' = [fs EXCEPT ![pa] = (code # Deleted)]
    /\ emits' = emits + 1
    /\ LET on == SelectSeq(subs, LAMBDA s : s.path = pa)
       IN  Emit([i \in 1..Len(on) |-> <<on[i], code>>])
    /\ UNCHANGED <<sstate, subs, crashes, c2s, link>>

\* The daemon dies: its connection state is lost with the requests not yet
\* read; what it already wrote stays readable by the client before EOF.
Crash ==
    /\ link = "up" /\ crashes < MaxCrashes
    /\ link' = "down" /\ crashes' = crashes + 1
    /\ sstate' = "none" /\ subs' = <<>> /\ eq' = <<>> /\ eqsrc' = FALSE
    /\ c2s' = <<>>
    /\ UNCHANGED <<fs, emits, s2c>>

ServerNext ==
    \/ Accept \/ AuthRead \/ ServeMonitor \/ ServeCancel
    \/ ServeCancelUnknown \/ Flush \/ Crash
    \/ \E pa \in Paths, code \in {Changed, Deleted, Created} : FsChange(pa, code)
================================================================================
