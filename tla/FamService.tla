------------------------------ MODULE FamService ------------------------------
(***************************************************************************)
(* What the FAM interface of libgamin promises the application, with no  *)
(* socket, daemon or request table: each request the application makes   *)
(* is active until it cancels it; events are only handed over for an      *)
(* active request; a cancelled request is answered by exactly one         *)
(* FAMAcknowledge, after which nothing more is reported for it.           *)
(*                                                                         *)
(* A request is named by its identity g (the order of the FAMMonitor*     *)
(* call), not by its reqno: reqnos can be reused, identities cannot.       *)
(***************************************************************************)
EXTENDS Sequences

CONSTANTS
    Gids,     \* request identities
    Codes,    \* FAMCodes other than FAMAcknowledge
    Ack       \* FAMAcknowledge

VARIABLES
    req,        \* req[g]: "none", "active", "cancelled" or "done"
    delivered   \* the <<g, code>> pairs FAMNextEvent returned, in order

fvars == <<req, delivered>>

FInit == req = [g \in Gids |-> "none"] /\ delivered = <<>>

\* FAMMonitorFile / FAMMonitorDirectory (and the *2 variants) succeed.
Subscribe(g) ==
    /\ req[g] = "none" /\ req' = [req EXCEPT ![g] = "active"]
    /\ UNCHANGED delivered

\* FAMCancelMonitor on an active request.
CancelReq(g) ==
    /\ req[g] = "active" /\ req' = [req EXCEPT ![g] = "cancelled"]
    /\ UNCHANGED delivered

\* FAMNextEvent returns an event of an active request.
Deliver(g, c) ==
    /\ req[g] = "active" /\ delivered' = Append(delivered, <<g, c>>)
    /\ UNCHANGED req

\* FAMNextEvent returns the FAMAcknowledge of a cancelled request.
Acknowledge(g) ==
    /\ req[g] = "cancelled" /\ req' = [req EXCEPT ![g] = "done"]
    /\ delivered' = Append(delivered, <<g, Ack>>)

FNext == \E g \in Gids : Subscribe(g) \/ CancelReq(g) \/ Acknowledge(g)
                         \/ \E c \in Codes : Deliver(g, c)

\* Every cancel is eventually acknowledged.
FSpec == FInit /\ [][FNext]_fvars /\ \A g \in Gids : WF_fvars(Acknowledge(g))
================================================================================
