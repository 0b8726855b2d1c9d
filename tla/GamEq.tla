-------------------------------- MODULE GamEq --------------------------------
(***************************************************************************)
(* The per-connection event queue of the server (src/server/gam_eq.c).    *)
(* An event is a record with the fields the queue compares (seq = reqno,  *)
(* code = event type, path) and a ghost field gid naming the subscription *)
(* instance that produced it, which the code does not have and the queue *)
(* does not compare.                                                       *)
(***************************************************************************)
EXTENDS Sequences, SequencesExt

\* The fields gam_eq_queue compares: reqno, len and path, event.
SameEvent(a, b) == a.seq = b.seq /\ a.code = b.code /\ a.path = b.path

\* gam_eq_queue: an event equal to the tail is dropped, else appended.
EqQueue(q, e) ==
    IF q # <<>> /\ SameEvent(Last(q), e) THEN q ELSE Append(q, e)

\* gam_eq_new: a connection's queue starts empty.
EqNew == <<>>

\* gam_eq_flush: pop every queued event from the head and write it with
\* gam_send_event, so the socket receives the queue in order.
EqFlush(out, q) == out \o q

\* Queueing several events in order.
RECURSIVE EqQueueAll(_, _)
EqQueueAll(q, es) ==
    IF es = <<>> THEN q ELSE EqQueueAll(EqQueue(q, Head(es)), Tail(es))
================================================================================
