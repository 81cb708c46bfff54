----------------------------- MODULE ReadBuffer -----------------------------
(***************************************************************************)
(* The read side of buffered_socket.c on one connection, driven by edge    *)
(* triggered epoll events (linux/eventloop_epoll.c).                       *)
(*                                                                         *)
(* A user asks for exactly n bytes or for everything up to a delimiter;    *)
(* the buffer hands a pointer into read_buffer to the user's callback,     *)
(* which asks for the next piece.  go_reading repeats this until the       *)
(* socket would block: with edge triggering nothing else wakes it up for   *)
(* bytes that are already there.                                           *)
(*                                                                         *)
(* Bytes are named by their position in the stream the other side sends.   *)
(* The callbacks (socket_peer.c, http_connection.c, websocket.c) may ask   *)
(* for any next piece, keep the present request, or close the connection:  *)
(* what the bytes say is the other side's choice.                          *)
(***************************************************************************)
EXTENDS Integers, FiniteSets

CONSTANTS
    BufferSize,   \* CONFIG_MAX_MESSAGE_SIZE
    MaxRequest,   \* bound: largest number of bytes a user asks for
    MaxStream,    \* bound: number of bytes the other side sends
    MaxErrors,    \* bound: number of socket errors
    NoReader

ASSUME ConstantsAssumption ==
    /\ BufferSize \in Nat \ {0}
    /\ MaxRequest \in Nat
    /\ MaxStream \in Nat
    /\ MaxErrors \in Nat

VARIABLES
    delims,       \* positions where a delimiter (two bytes) starts
    arrived,      \* number of bytes that reached the socket
    fin,          \* the other side has closed the connection
    edge,         \* an EPOLLIN event is due
    read_buffer,  \* offset |-> position of the byte stored there, 0 at first
    read_ptr,     \* offset of the first unread byte
    write_ptr,    \* offset behind the last unread byte
    reader,       \* the request of the user, or NoReader
    consumed,     \* number of bytes handed to callbacks
    pc,           \* "unregistered", "idle", "reading" (in go_reading), "closed"
    first_run,    \* go_reading runs in the first read_exactly or read_until
    result,       \* what that first call returned, or "none"
    reason,       \* why the connection was closed
    errors        \* socket errors so far

vars == <<delims, arrived, fin, edge, read_buffer, read_ptr, write_ptr, reader,
          consumed, pc, first_run, result, reason, errors>>

Offsets == 0 .. (BufferSize - 1)

Exactly == [kind : {"exactly"}, num : 1 .. MaxRequest]

Requests == Exactly \cup {[kind |-> "until", num |-> 0]}

Reasons == {"none", "callback", "peer_closed", "io_error", "too_much_data"}

Init ==
    /\ delims \in {D \in SUBSET (1 .. MaxStream - 1) :
                      \A d \in D : d + 1 \notin D}
    /\ arrived = 0
    /\ fin = FALSE
    /\ edge = FALSE
    /\ read_buffer = [i \in Offsets |-> 0]
    /\ read_ptr = 0
    /\ write_ptr = 0
    /\ reader = NoReader
    /\ consumed = 0
    /\ pc = "unregistered"
    /\ first_run = FALSE
    /\ result = "none"
    /\ reason = "none"
    /\ errors = 0

-----------------------------------------------------------------------------
unread_bytes == write_ptr - read_ptr

free_space(w) == BufferSize - w

\* Offsets where an unread delimiter starts, as jet_memmem sees them.
Found ==
    {i \in read_ptr .. (write_ptr - 2) :
        /\ read_buffer[i] \in delims
        /\ read_buffer[i + 1] = read_buffer[i] + 1}

\* The reader has what it needs in the buffer.
Complete ==
    IF reader.kind = "exactly" THEN unread_bytes >= reader.num ELSE Found # {}

\* The number of bytes it then hands out: up to the first delimiter.
Lengths ==
    IF reader.kind = "exactly"
    THEN {reader.num}
    ELSE {i + 2 - read_ptr : i \in {f \in Found : \A j \in Found : f <= j}}

\* The reader moves read_ptr behind n bytes, which go to the callback.
HandOut(n) ==
    /\ pc = "reading"
    /\ Complete
    /\ n \in Lengths
    /\ read_ptr' = read_ptr + n
    /\ consumed' = consumed + n

\* The number of bytes it asks fill_buffer for otherwise.
Needed == IF reader.kind = "exactly" THEN reader.num - unread_bytes ELSE 1

\* read_exactly and read_until return 0 unless the loop refuses the socket.
Returns == IF first_run THEN "0" ELSE result

\* go_reading ends and the connection is closed: by the callback, which gets
\* length 0 when the other side closed, or by the error function.
Close(why) ==
    /\ pc' = "closed"
    /\ reason' = why
    /\ result' = Returns
    /\ first_run' = FALSE

-----------------------------------------------------------------------------
\* The other side sends a byte.
Arrive ==
    /\ arrived < MaxStream
    /\ ~ fin
    /\ pc # "closed"
    /\ arrived' = arrived + 1
    /\ edge' = TRUE
    /\ UNCHANGED <<delims, fin, read_buffer, read_ptr, write_ptr, reader,
                   consumed, pc, first_run, result, reason, errors>>

\* The other side closes the connection.
PeerCloses ==
    /\ ~ fin
    /\ pc # "closed"
    /\ fin' = TRUE
    /\ edge' = TRUE
    /\ UNCHANGED <<delims, arrived, read_buffer, read_ptr, write_ptr, reader,
                   consumed, pc, first_run, result, reason, errors>>

\* The first read_exactly or read_until registers the socket and reads.
StartReading(req) ==
    /\ pc = "unregistered"
    /\ result = "none"
    /\ reader' = req
    /\ \/ pc' = "reading" /\ first_run' = TRUE /\ UNCHANGED <<result, errors>>
       \/ /\ errors < MaxErrors
          /\ errors' = errors + 1
          /\ result' = "-1"
          /\ UNCHANGED <<pc, first_run>>
    /\ UNCHANGED <<delims, arrived, fin, edge, read_buffer, read_ptr,
                   write_ptr, consumed, reason>>

\* handle_events calls read_function.
ReadEvent ==
    /\ pc = "idle"
    /\ edge
    /\ edge' = FALSE
    /\ pc' = "reading"
    /\ UNCHANGED <<delims, arrived, fin, read_buffer, read_ptr, write_ptr,
                   reader, consumed, first_run, result, reason, errors>>

\* Mutant of Deliver: go_reading returns after the first callback.
DeliverOnce(n, req) ==
    /\ HandOut(n)
    /\ reader' = req
    /\ pc' = "idle"
    /\ result' = Returns
    /\ first_run' = FALSE
    /\ UNCHANGED <<delims, arrived, fin, edge, read_buffer, write_ptr, reason,
                   errors>>

\* One round of go_reading: the callback gets the bytes and sets the next
\* request (or keeps the old one).
Deliver(n, req) ==
    /\ HandOut(n)
    /\ reader' = req
    /\ UNCHANGED <<delims, arrived, fin, edge, read_buffer, write_ptr, pc,
                   first_run, result, reason, errors>>

\* The callback closes the connection (BS_CLOSED).
DeliverAndClose(n) ==
    /\ HandOut(n)
    /\ Close("callback")
    /\ UNCHANGED <<delims, arrived, fin, edge, read_buffer, write_ptr, reader,
                   errors>>

-----------------------------------------------------------------------------
\* Mutant of Reorganized: memmove is missing.
ReorganizedInPlace == [buffer |-> read_buffer, read |-> 0, write |-> unread_bytes]

\* reorganize_read_buffer moves the unread bytes to the start of the buffer.
Reorganized ==
    [buffer |-> [i \in Offsets |-> IF i < unread_bytes
                                   THEN read_buffer[read_ptr + i]
                                   ELSE read_buffer[i]],
     read |-> 0, write |-> unread_bytes]

\* Mutant of Prepared: the buffer is never reorganized.
PreparedAsIs == [buffer |-> read_buffer, read |-> read_ptr, write |-> write_ptr]

\* The buffer fill_buffer reads into.
Prepared ==
    IF free_space(write_ptr) < Needed
    THEN Reorganized
    ELSE [buffer |-> read_buffer, read |-> read_ptr, write |-> write_ptr]

\* fill_buffer: socket_read stores k bytes behind the unread ones.
Fill(k) ==
    LET b == Prepared
        taken == consumed + unread_bytes
    IN  /\ pc = "reading"
        /\ ~ Complete
        /\ free_space(b.write) >= Needed
        /\ k <= free_space(b.write)
        /\ k <= arrived - taken
        /\ read_buffer' = [i \in Offsets |->
              IF b.write <= i /\ i < b.write + k THEN taken + 1 + i - b.write
              ELSE b.buffer[i]]
        /\ read_ptr' = b.read
        /\ write_ptr' = b.write + k
        /\ UNCHANGED <<delims, arrived, fin, edge, reader, consumed, pc,
                       first_run, result, reason, errors>>

\* Nothing is stored: too little room even after reorganizing, end of the
\* stream, no bytes for now, or an error.
FillFails ==
    LET b == Prepared
        room == free_space(b.write)
        taken == consumed + unread_bytes
    IN  /\ pc = "reading"
        /\ ~ Complete
        /\ read_buffer' = b.buffer
        /\ read_ptr' = b.read
        /\ write_ptr' = b.write
        /\ \/ /\ room < Needed
              /\ Close("too_much_data")
              /\ UNCHANGED errors
           \/ /\ room >= Needed
              /\ arrived = taken
              /\ fin
              /\ Close("peer_closed")
              /\ UNCHANGED errors
           \/ /\ room >= Needed
              /\ arrived = taken
              /\ ~ fin
              /\ pc' = "idle"
              /\ result' = Returns
              /\ first_run' = FALSE
              /\ UNCHANGED <<reason, errors>>
           \/ /\ room >= Needed
              /\ errors < MaxErrors
              /\ errors' = errors + 1
              /\ Close("io_error")
        /\ UNCHANGED <<delims, arrived, fin, edge, reader, consumed>>

\* epoll reports EPOLLERR or EPOLLHUP: error_function.
ErrorEvent ==
    /\ pc = "idle"
    /\ errors < MaxErrors
    /\ errors' = errors + 1
    /\ Close("io_error")
    /\ UNCHANGED <<delims, arrived, fin, edge, read_buffer, read_ptr,
                   write_ptr, reader, consumed>>

Next ==
    \/ Arrive
    \/ PeerCloses
    \/ \E req \in Requests : StartReading(req)
    \/ ReadEvent
    \/ \E n \in 1 .. BufferSize :
          \/ \E req \in Requests : Deliver(n, req)
          \/ DeliverAndClose(n)
          \/ Fill(n)
    \/ FillFails
    \/ ErrorEvent

Spec == Init /\ [][Next]_vars

\* The event loop runs: a due event is handled and a handler goes on.
Fairness ==
    /\ WF_vars(ReadEvent)
    /\ WF_vars(\E n \in 1 .. BufferSize, req \in Requests : Deliver(n, req))
    /\ WF_vars(\E k \in 1 .. BufferSize : Fill(k))
    /\ WF_vars(FillFails)

FairSpec == Spec /\ Fairness

-----------------------------------------------------------------------------
\* Types; the pointers stay inside read_buffer and in order.
TypeOK ==
    /\ delims \subseteq 1 .. MaxStream
    /\ arrived \in 0 .. MaxStream
    /\ fin \in BOOLEAN
    /\ edge \in BOOLEAN
    /\ read_buffer \in [Offsets -> 0 .. MaxStream]
    /\ read_ptr \in 0 .. BufferSize
    /\ write_ptr \in read_ptr .. BufferSize
    /\ reader \in Requests \cup {NoReader}
    /\ consumed \in 0 .. MaxStream
    /\ pc \in {"unregistered", "idle", "reading", "closed"}
    /\ first_run \in BOOLEAN
    /\ result \in {"none", "0", "-1"}
    /\ reason \in Reasons
    /\ errors \in 0 .. MaxErrors

\* The unread part of read_buffer holds the bytes that follow the ones handed
\* to the callbacks: across reorganize_read_buffer and any sequence of
\* requests no byte is lost, repeated or moved, and none is read that did not
\* arrive.
UnreadBytesInOrder ==
    /\ \A i \in read_ptr .. (write_ptr - 1) :
          read_buffer[i] = consumed + 1 + (i - read_ptr)
    /\ consumed + unread_bytes <= arrived

\* A connection is closed only by its user, after a socket error, when
\* the other side closed it and every byte was read, or for a request that
\* cannot be met: more bytes than read_buffer holds, or no delimiter in a
\* full buffer.  Where in the buffer the bytes happen to lie never matters.
ClosedForAReason ==
    /\ reason = "peer_closed" => fin /\ consumed + unread_bytes = arrived
    /\ reason = "too_much_data" =>
          IF reader.kind = "exactly" THEN reader.num > BufferSize
                                     ELSE unread_bytes = BufferSize

\* While the connection waits in epoll, no complete piece lies in the buffer,
\* and bytes in the socket have an event due: go_reading only returns when
\* the socket is empty, as edge triggering demands.
NothingStalls ==
    pc = "idle" =>
        /\ ~ Complete
        /\ (consumed + unread_bytes < arrived \/ fin) => edge

\* The inductive invariant behind these properties: they hold together, a
\* request is set whenever go_reading runs or the connection waits in epoll,
\* and only a closed connection has a reason to be closed.
ReadInv ==
    /\ TypeOK
    /\ UnreadBytesInOrder
    /\ ClosedForAReason
    /\ NothingStalls
    /\ pc \in {"idle", "reading"} => reader \in Requests
    /\ reason # "none" => pc = "closed"

\* Every byte that arrives is read unless the connection is closed or was
\* never registered.
ArrivedIsRead ==
    \A n \in 1 .. MaxStream :
        (pc # "unregistered" /\ arrived >= n)
            ~> (consumed + unread_bytes >= n \/ pc = "closed")
=============================================================================
