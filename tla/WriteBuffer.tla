---------------------------- MODULE WriteBuffer -----------------------------
(***************************************************************************)
(* The write side of buffered_socket.c on one connection.                  *)
(*                                                                         *)
(* A message is a list of io vectors.  What the socket does not take at    *)
(* once is kept in write_buffer and sent when epoll, edge triggered,       *)
(* reports the socket writable again.                                      *)
(*                                                                         *)
(* Byte i of the k-th message is <<k, i>>.                                 *)
(***************************************************************************)
EXTENDS Integers, SequencesExt

CONSTANTS
    WriteBufferSize,  \* CONFIG_MAX_WRITE_BUFFER_SIZE
    IoVecs,           \* the messages: the offsets at which their io vectors end
    MaxMessages,      \* bound: number of messages
    MaxWriteErrors    \* bound: number of socket errors other than "would block"

ASSUME WriteConstantsAssumption ==
    /\ WriteBufferSize \in Nat
    /\ IoVecs \subseteq Seq(Nat) \ {<< >>}
    /\ \A ends \in IoVecs : \A i, j \in 1 .. Len(ends) : i <= j => ends[i] <= ends[j]
    /\ MaxMessages \in Nat
    /\ MaxWriteErrors \in Nat

VARIABLES
    write_buffer,  \* the to_write bytes that wait
    wire,          \* the bytes the socket has taken, in order
    out_edge,      \* an EPOLLOUT event is due
    messages,      \* number of calls of buffered_socket_writev
    stream,        \* the bytes of the messages accepted before the first failure
    failed,        \* a call of buffered_socket_writev returned -1
    write_errors,  \* socket errors so far
    closed

writeVars == <<write_buffer, wire, out_edge, messages, stream, failed, write_errors, closed>>

Bytes == (1 .. MaxMessages) \X Nat

WriteInit ==
    /\ write_buffer = << >>
    /\ wire = << >>
    /\ out_edge = TRUE
    /\ messages = 0
    /\ stream = << >>
    /\ failed = FALSE
    /\ write_errors = 0
    /\ closed = FALSE

-----------------------------------------------------------------------------
\* The bytes of message k, and those of its i-th io vector.
Message(k, ends) == [j \in 1 .. ends[Len(ends)] |-> <<k, j>>]

IoVec(bytes, ends, i) == SubSeq(bytes, (IF i = 1 THEN 0 ELSE ends[i - 1]) + 1, ends[i])

From(s, n) == SubSeq(s, n + 1, Len(s))

Upto(s, n) == SubSeq(s, 1, n)

\* The test of copy_single_buffer.
Fits(rest, buffer) == Len(rest) <= WriteBufferSize - Len(buffer)

\* One round of copy_iovec_to_write_buffer: the first c.skip bytes are already
\* sent; a vector that does not fit ends the copying, and the vectors before
\* it stay in the buffer.
CopySingleBuffer(c, vector) ==
    LET rest == From(vector, c.skip)
    IN  IF ~ c.ok THEN c
        ELSE IF c.skip >= Len(vector)
             THEN [c EXCEPT !.skip = @ - Len(vector)]
             ELSE IF Fits(rest, c.buffer)
                  THEN [buffer |-> c.buffer \o rest, skip |-> 0, ok |-> TRUE]
                  ELSE [c EXCEPT !.ok = FALSE]

\* Its loop over the io vectors.
CopyIovec(bytes, ends, kept, skip) ==
    LET copied[i \in 0 .. Len(ends)] ==
            IF i = 0 THEN [buffer |-> kept, skip |-> skip, ok |-> TRUE]
            ELSE CopySingleBuffer(copied[i - 1], IoVec(bytes, ends, i))
    IN  copied[Len(ends)]

\* Mutant of CopyIovecToWriteBuffer: io_vec_written is not reduced by the
\* bytes that came from the buffer.
CopyIovecSkipTooMuch(bytes, ends, written) ==
    IF written <= Len(write_buffer)
    THEN CopyIovec(bytes, ends, From(write_buffer, written), 0)
    ELSE CopyIovec(bytes, ends, << >>, written)

\* The write buffer after the socket took `written' bytes of the old buffer
\* and of the io vectors behind it, and whether the rest fitted.
CopyIovecToWriteBuffer(bytes, ends, written) ==
    IF written <= Len(write_buffer)
    THEN CopyIovec(bytes, ends, From(write_buffer, written), 0)
    ELSE CopyIovec(bytes, ends, << >>, written - Len(write_buffer))

SocketError == write_errors < MaxWriteErrors /\ write_errors' = write_errors + 1

(***************************************************************************)
(* send_buffer: the socket takes n bytes of buffer and then everything is  *)
(* sent, or the socket blocks, or it reports an error, after which the     *)
(* unsent bytes are not moved to the start of the buffer.  `took' are the  *)
(* bytes the socket took before, `due' whether an event was due.           *)
(***************************************************************************)
SendBuffer(took, buffer, n, how, due) ==
    /\ n <= Len(buffer)
    /\ wire' = wire \o took \o Upto(buffer, n)
    /\ out_edge' = (due \/ how = "blocks")
    /\ (how = "sent") = (n = Len(buffer))
    /\ IF how = "error"
       THEN SocketError /\ write_buffer' = Upto(buffer, Len(buffer) - n)
       ELSE UNCHANGED write_errors /\ write_buffer' = From(buffer, n)

\* buffered_socket_writev returns 0 or -1.
WritevReturns(bytes, ok) ==
    /\ messages' = messages + 1
    /\ failed' = (failed \/ ~ ok)
    /\ stream' = IF ok /\ ~ failed THEN stream \o bytes ELSE stream

MessageDue == ~ closed /\ messages < MaxMessages

-----------------------------------------------------------------------------
\* The socket takes the buffer and the message.
WritevAll(bytes) ==
    /\ MessageDue
    /\ wire' = wire \o write_buffer \o bytes
    /\ write_buffer' = << >>
    /\ WritevReturns(bytes, TRUE)
    /\ UNCHANGED <<out_edge, write_errors, closed>>

\* The socket reports an error.
WritevError(bytes) ==
    /\ MessageDue
    /\ SocketError
    /\ WritevReturns(bytes, FALSE)
    /\ UNCHANGED <<write_buffer, wire, out_edge, closed>>

\* The socket blocks: the message is kept, as far as it fits.
WritevBlocks(bytes, ends) ==
    LET copy == CopyIovecToWriteBuffer(bytes, ends, 0)
    IN  /\ MessageDue
        /\ write_buffer' = copy.buffer
        /\ out_edge' = TRUE
        /\ WritevReturns(bytes, copy.ok)
        /\ UNCHANGED <<wire, write_errors, closed>>

\* Mutant of WritevPart: send_buffer is not called.
WritevPartNotSent(bytes, ends, written, n, how) ==
    LET copy == CopyIovecToWriteBuffer(bytes, ends, written)
    IN  /\ MessageDue
        /\ written < Len(write_buffer \o bytes)
        /\ copy.ok
        /\ wire' = wire \o Upto(write_buffer \o bytes, written)
        /\ write_buffer' = copy.buffer
        /\ WritevReturns(bytes, TRUE)
        /\ UNCHANGED <<out_edge, write_errors, closed>>

(***************************************************************************)
(* The socket takes `written' bytes, but not all.  The rest is buffered    *)
(* and send_buffer tries to send it at once.                               *)
(***************************************************************************)
WritevPart(bytes, ends, written, n, how) ==
    LET copy == CopyIovecToWriteBuffer(bytes, ends, written)
    IN  /\ MessageDue
        /\ written < Len(write_buffer \o bytes)
        /\ copy.ok
        /\ SendBuffer(Upto(write_buffer \o bytes, written), copy.buffer, n, how,
                      out_edge)
        /\ WritevReturns(bytes, how # "error")
        /\ UNCHANGED closed

\* The same, but the rest does not fit into the buffer: some io vectors may
\* be in it, and nothing is sent.
WritevPartFull(bytes, ends, written) ==
    LET copy == CopyIovecToWriteBuffer(bytes, ends, written)
    IN  /\ MessageDue
        /\ written < Len(write_buffer \o bytes)
        /\ ~ copy.ok
        /\ wire' = wire \o Upto(write_buffer \o bytes, written)
        /\ write_buffer' = copy.buffer
        /\ WritevReturns(bytes, FALSE)
        /\ UNCHANGED <<out_edge, write_errors, closed>>

\* EPOLLOUT: write_function sends the buffer; an error closes the connection.
WriteFunction(n, how) ==
    /\ ~ closed
    /\ out_edge
    /\ SendBuffer(<< >>, write_buffer, n, how, FALSE)
    /\ closed' = (how = "error")
    /\ UNCHANGED <<messages, stream, failed>>

\* The user closes the connection; what is still buffered is lost.
CloseSocket ==
    /\ ~ closed
    /\ closed' = TRUE
    /\ UNCHANGED <<write_buffer, wire, out_edge, messages, stream, failed, write_errors>>

Ends == {"sent", "blocks", "error"}

Counts == 0 .. WriteBufferSize

WriteNext ==
    \/ \E ends \in IoVecs :
          LET bytes == Message(messages + 1, ends)
          IN  \/ WritevAll(bytes)
              \/ WritevError(bytes)
              \/ WritevBlocks(bytes, ends)
              \/ \E written \in 1 .. Len(write_buffer \o bytes) :
                    \/ \E n \in Counts, how \in Ends :
                          WritevPart(bytes, ends, written, n, how)
                    \/ WritevPartFull(bytes, ends, written)
    \/ \E n \in Counts, how \in Ends : WriteFunction(n, how)
    \/ CloseSocket

WriteSpec == WriteInit /\ [][WriteNext]_writeVars

-----------------------------------------------------------------------------
\* Types; the bytes that wait never exceed CONFIG_MAX_WRITE_BUFFER_SIZE, on
\* which the free space computed by copy_single_buffer depends.
WriteTypeOK ==
    /\ write_buffer \in Seq(Bytes)
    /\ Len(write_buffer) <= WriteBufferSize
    /\ wire \in Seq(Bytes)
    /\ out_edge \in BOOLEAN
    /\ messages \in 0 .. MaxMessages
    /\ stream \in Seq(Bytes)
    /\ failed \in BOOLEAN
    /\ write_errors \in 0 .. MaxWriteErrors
    /\ closed \in BOOLEAN

\* The other side gets the messages whole and in order: what the socket took
\* and what waits are together the messages accepted, whatever the splits of
\* the socket between and inside the io vectors.  After a message was refused
\* for lack of space the ones accepted before it still come first, complete.
StreamInOrder ==
    /\ WriteTypeOK
    /\ write_errors = 0 =>
          /\ IsPrefix(stream, wire \o write_buffer)
          /\ ~ failed => wire \o write_buffer = stream

\* Bytes that wait have an EPOLLOUT event due, so that they are sent without
\* another message, unless a call failed or the connection is closed: edge
\* triggering reports nothing for a socket that was not found blocked.
WaitingBytesWakeUp == write_buffer # << >> => out_edge \/ failed \/ closed
=============================================================================
