------------------------------ MODULE GamFraming ------------------------------
(***************************************************************************)
(* Packet framing on the gamin socket: how the library (gam_data.c,       *)
(* gam_api.c) and the daemon (gam_connection.c) cut the byte stream they  *)
(* read into packets, across partial reads and several packets in one     *)
(* read.                                                                   *)
(*                                                                         *)
(* Byte counts are scaled: the header is Hdr units, a path at most        *)
(* MaxPath units, and the receive buffer (a GAMPacket) Hdr + MaxPath.  A  *)
(* packet is [len, ok]: its total length, and whether the receiver takes  *)
(* it (the library: gamin_data_conn_event returns 1, an event for the     *)
(* application; the daemon: gam_connection_request succeeds).  A byte is  *)
(* <<i, j>>, byte j of packet i of the stream, so a header read from the  *)
(* buffer is a real header exactly when the buffer starts at a packet's   *)
(* first byte; any other header is garbage that the length, version and   *)
(* path-length checks reject.                                              *)
(***************************************************************************)
EXTENDS Integers, Sequences, SequencesExt

Hdr == 2                       \* GAM_PACKET_HEADER_LEN
MaxPath == 4                   \* MAXPATHLEN
PacketSize == Hdr + MaxPath    \* sizeof(GAMPacket)

\* The bytes of the stream the peer wrote, packet after packet.
Stream(pkts) == FlattenSeq([i \in DOMAIN pkts |-> [j \in 1..pkts[i].len |-> <<i, j>>]])

Drop(s, n) == SubSeq(s, n + 1, Len(s))
Least(a, b) == IF a < b THEN a ELSE b

\* The header checks of both parsers on buf: total length, version, path
\* length and their agreement hold of a packet the peer wrote, and fail
\* on a header cut from the middle of one.
HeaderOK(buf) == buf[1][2] = 1
PktLen(pkts, buf) == pkts[buf[1][1]].len

(***************************************************************************)
(* The library.  st is conn->event and its flags: buf (the evn_read bytes *)
(* held), wire (bytes written by the daemon and not yet read), ready      *)
(* (evn_ready), err (a parse error), seen (the packets given to           *)
(* gamin_data_conn_event), got (the packets FAMNextEvent returned), fails *)
(* (FAMNextEvent calls that returned -1) and stuck (a call blocked in     *)
(* read() while a complete packet for the application was held).          *)
(***************************************************************************)

\* The loop of gamin_data_conn_data over the complete packets in buf.
RECURSIVE ClientLoop(_, _)
ClientLoop(pkts, st) ==
    IF Len(st.buf) < Hdr THEN st
    ELSE IF ~HeaderOK(st.buf) THEN [st EXCEPT !.err = TRUE]
    ELSE IF Len(st.buf) < PktLen(pkts, st.buf) THEN st
    ELSE LET s1 == [st EXCEPT !.seen = Append(@, st.buf[1][1])]
         IN  IF pkts[st.buf[1][1]].ok THEN [s1 EXCEPT !.ready = TRUE]
             ELSE IF Len(st.buf) = PktLen(pkts, st.buf)
                  THEN [s1 EXCEPT !.buf = <<>>]
                  ELSE ClientLoop(pkts, [s1 EXCEPT !.buf = Drop(st.buf, PktLen(pkts, st.buf))])

\* gamin_data_conn_data after the bytes were read into the buffer: the
\* overflow check on the count held before, then the loop.
ConnData(pkts, st, bytes) ==
    IF Len(bytes) + Len(st.buf) > PacketSize THEN [st EXCEPT !.err = TRUE]
    ELSE ClientLoop(pkts, [st EXCEPT !.buf = @ \o bytes])

\* Mutant: gamin_data_event_ready does not look at the bytes already held.
EventReadyNoScan(pkts, st) == st

\* gamin_data_event_ready: a held incomplete or unscanned packet is
\* scanned by gamin_data_conn_data(conn, 0).
EventReady(pkts, st) ==
    IF st.ready \/ st.buf = <<>> THEN st ELSE ConnData(pkts, st, <<>>)

\* gamin_read_data: one read() of at most the free space of the buffer
\* (gamin_data_get_data); the peer had k bytes ready.
ReadData(pkts, st, k) ==
    LET n == Least(k, Least(PacketSize - Len(st.buf), Len(st.wire)))
    IN  ConnData(pkts, [st EXCEPT !.wire = Drop(@, n)], SubSeq(st.wire, 1, n))

\* gamin_data_read_event: the ready packet is returned and the bytes
\* after it are moved to the head of the buffer.
ReadEvent(pkts, st) ==
    [st EXCEPT !.got = Append(@, st.buf[1][1]), !.ready = FALSE,
               !.buf = Drop(@, PktLen(pkts, st.buf))]

\* A complete packet for the application is held in the buffer.
Held(pkts, st) == ClientLoop(pkts, [st EXCEPT !.seen = <<>>]).ready

\* FAMNextEvent: if no event is ready, one read; then read_event, which
\* fails (FAM_CONNECT) when that read completed no packet for the
\* application.  With nothing ready on the socket (k = 0, or the daemon
\* has written everything) the read blocks and the call does not return.
NextEvent(pkts, st, k) ==
    LET s1 == EventReady(pkts, st)
        s2 == ReadData(pkts, s1, k)
    IN  CASE s1.err -> s1
          [] s1.ready -> ReadEvent(pkts, s1)
          [] k = 0 \/ s1.wire = <<>> -> [s1 EXCEPT !.stuck = @ \/ Held(pkts, s1)]
          [] s2.ready -> ReadEvent(pkts, s2)
          [] OTHER -> [s2 EXCEPT !.fails = @ + 1]

ClientInit(pkts) ==
    [buf |-> <<>>, wire |-> Stream(pkts), ready |-> FALSE, err |-> FALSE,
     seen |-> <<>>, got |-> <<>>, fails |-> 0, stuck |-> FALSE]

\* The application calls FAMNextEvent once per entry of reads, the daemon
\* having reads[c] bytes ready at call c.
ClientRun(pkts, reads) ==
    FoldLeft(LAMBDA st, k : NextEvent(pkts, st, k), ClientInit(pkts), reads)

(***************************************************************************)
(* The daemon.  st is conn->request: buf (request_len bytes), wire,       *)
(* err, and seen (the packets given to gam_connection_request).          *)
(***************************************************************************)

\* Mutant: a request that exactly fills the bytes held is taken as
\* incomplete.
RECURSIVE ServerLoopLate(_, _)
ServerLoopLate(pkts, st) ==
    IF Len(st.buf) < Hdr THEN st
    ELSE IF ~HeaderOK(st.buf) THEN [st EXCEPT !.err = TRUE]
    ELSE IF Len(st.buf) <= PktLen(pkts, st.buf) THEN st
    ELSE LET s1 == [st EXCEPT !.seen = Append(@, st.buf[1][1])]
         IN  IF ~pkts[st.buf[1][1]].ok THEN [s1 EXCEPT !.err = TRUE]
             ELSE ServerLoopLate(pkts, [s1 EXCEPT !.buf = Drop(st.buf, PktLen(pkts, st.buf))])

\* The loop of gam_connection_data: every complete request is served; a
\* failed one ends the connection (-1).  On x86 req advances through the
\* buffer and the rest is moved down after the loop, elsewhere after each
\* packet: the same bytes stay either way.
RECURSIVE ServerLoop(_, _)
ServerLoop(pkts, st) ==
    IF Len(st.buf) < Hdr THEN st
    ELSE IF ~HeaderOK(st.buf) THEN [st EXCEPT !.err = TRUE]
    ELSE IF Len(st.buf) < PktLen(pkts, st.buf) THEN st
    ELSE LET s1 == [st EXCEPT !.seen = Append(@, st.buf[1][1])]
         IN  IF ~pkts[st.buf[1][1]].ok THEN [s1 EXCEPT !.err = TRUE]
             ELSE IF Len(st.buf) = PktLen(pkts, st.buf)
                  THEN [s1 EXCEPT !.buf = <<>>]
                  ELSE ServerLoop(pkts, [s1 EXCEPT !.buf = Drop(st.buf, PktLen(pkts, st.buf))])

\* gam_client_conn_read: read() into the free space the connection's
\* buffer has (gam_connection_get_data), then gam_connection_data; after
\* an error the connection is closed and nothing more is read.
ServerRead(pkts, st, k) ==
    IF st.err \/ st.wire = <<>> THEN st
    ELSE LET n == Least(k, Least(PacketSize - Len(st.buf), Len(st.wire)))
         IN  ServerLoop(pkts, [st EXCEPT !.buf = @ \o SubSeq(st.wire, 1, n),
                                         !.wire = Drop(@, n)])

ServerRun(pkts, reads) ==
    FoldLeft(LAMBDA st, k : ServerRead(pkts, st, k),
             [buf |-> <<>>, wire |-> Stream(pkts), err |-> FALSE, seen |-> <<>>],
             reads)
================================================================================
