------------------------------ MODULE GamReqTable ------------------------------
(***************************************************************************)
(* The client library's request table (src/libgamin/gam_data.c).          *)
(* conn->req_tab is an array of request records kept, by intent, sorted   *)
(* by reqno; lookups are binary searches that rely on that order.  The    *)
(* table is a sequence here; the operators translate the C functions,     *)
(* with 0-based indices as in C (entry i of the array is t[i+1]).         *)
(***************************************************************************)
EXTENDS Integers, Sequences, SequencesExt

\* Request states of GAMReqState used by the library.
REQ_INIT == "INIT"
REQ_CONFIRMED == "CONFIRMED"
REQ_CANCELLED == "CANCELLED"

\* The loop of gamin_data_get_req_idx: binary search on [lo, hi].
RECURSIVE IdxSearch(_, _, _, _)
IdxSearch(t, r, lo, hi) ==
    IF hi < lo THEN -1
    ELSE LET cur == (hi + lo) \div 2
         IN  IF t[cur + 1].reqno = r THEN cur
             ELSE IF t[cur + 1].reqno < r THEN IdxSearch(t, r, cur + 1, hi)
             ELSE IdxSearch(t, r, lo, cur - 1)

\* Mutant: the search stops one entry short (max = req_nr - 2).
ReqIdxShort(t, r) == IdxSearch(t, r, 0, Len(t) - 2)

\* gamin_data_get_req_idx: index of the entry with reqno r, or -1.
ReqIdx(t, r) == IdxSearch(t, r, 0, Len(t) - 1)

\* The loop of gamin_data_get_req_loc and its final adjustment.
RECURSIVE LocSearch(_, _, _, _)
LocSearch(t, r, lo, hi) ==
    IF hi > lo
    THEN LET cur == (hi + lo) \div 2
         IN  IF t[cur + 1].reqno = r THEN -1
             ELSE IF t[cur + 1].reqno < r THEN LocSearch(t, r, cur + 1, hi)
             ELSE LocSearch(t, r, lo, cur - 1)
    ELSE IF r > t[lo + 1].reqno THEN lo + 1 ELSE lo

\* Mutant: the search stops one entry short (max = req_nr - 2).
ReqLocShort(t, r) ==
    IF Len(t) = 0 THEN 0 ELSE LocSearch(t, r, 0, Len(t) - 2)

\* gamin_data_get_req_loc: insertion point of r, or -1 if r is found.
ReqLoc(t, r) == IF Len(t) = 0 THEN 0 ELSE LocSearch(t, r, 0, Len(t) - 1)

\* Mutant: gamin_data_add_req2 without its duplicate check.
CanAddReqAny(t, r) == TRUE

\* gamin_data_add_req2 succeeds (FAMMonitorFile2 with a caller's reqno).
CanAddReq2(t, r) ==
    LET idx == ReqLoc(t, r)
    IN  /\ idx >= 0
        /\ ~(idx < Len(t) /\ t[idx + 1].reqno = r)

\* gamin_data_add_req2: insert e at the slot found by ReqLoc.
AddReq2(t, e) ==
    LET idx0 == ReqLoc(t, e.reqno)
        idx  == IF idx0 < Len(t) /\ t[idx0 + 1].reqno < e.reqno
                THEN idx0 + 1 ELSE idx0
    IN  InsertAt(t, idx + 1, e)

\* gamin_data_add_req: append, trusting that conn->reqno only grows.
AddReq(t, e) == Append(t, e)

\* gamin_data_del_req: remove the entry found by ReqIdx, if any.
DelReq(t, r) ==
    LET idx == ReqIdx(t, r)
    IN  IF idx < 0 THEN t ELSE RemoveAt(t, idx + 1)

\* gamin_data_cancel: mark the entry found by ReqIdx cancelled.
CancelReq(t, r) ==
    LET idx == ReqIdx(t, r)
    IN  IF idx < 0 THEN t
        ELSE [t EXCEPT ![idx + 1].state = REQ_CANCELLED]

\* The binary searches are only meaningful on strictly increasing tables.
IsSortedTable(t) == \A i \in 1..(Len(t) - 1) : t[i].reqno < t[i + 1].reqno
================================================================================
