------------------------- MODULE BufferedSocketProofs ------------------------
(***************************************************************************)
(* Proofs about both sides of a buffered socket.                           *)
(*                                                                         *)
(* ReadBuffer: the buffer hands out the stream in order, a connection is   *)
(* closed only for the reasons of the code, and nothing stalls, for every  *)
(* buffer size, stream and sequence of requests.                           *)
(*                                                                         *)
(* WriteBuffer: the other side gets the messages whole and in order, and   *)
(* what waits is sent, for every buffer size, list of io vectors and split *)
(* by the socket.                                                          *)
(***************************************************************************)
EXTENDS ReadBuffer, WriteBuffer, SequenceTheorems, WellFoundedInduction, TLAPS

-----------------------------------------------------------------------------
(* The read side                                                           *)

\* The reader functions hand out at least one byte and at most the unread ones.
LEMMA LengthsBounded ==
    ASSUME ReadInv, pc = "reading", Complete, NEW n \in Lengths
    PROVE  n \in 1 .. unread_bytes
<1>1. reader \in Requests
  BY DEF ReadInv
<1>2. CASE reader.kind = "exactly"
  <2>1. n = reader.num /\ reader.num \in Nat /\ reader.num >= 1
    BY <1>1, <1>2, ConstantsAssumption DEF Lengths, Requests, Exactly
  <2>2. unread_bytes >= reader.num
    BY <1>2 DEF Complete
  <2> QED
    BY <2>1, <2>2 DEF unread_bytes, ReadInv, TypeOK
<1>3. CASE reader.kind # "exactly"
  <2>1. PICK i \in Found : n = i + 2 - read_ptr
    BY <1>3 DEF Lengths
  <2>2. i \in read_ptr .. (write_ptr - 2)
    BY <2>1 DEF Found
  <2> QED
    BY <2>1, <2>2, ConstantsAssumption DEF unread_bytes, ReadInv, TypeOK
<1> QED
  BY <1>2, <1>3

\* A reader that has to call fill_buffer asks for at least one byte.
LEMMA NeededPositive ==
    ASSUME ReadInv, pc = "reading", ~ Complete
    PROVE  Needed \in Nat \ {0}
<1>1. reader \in Requests
  BY DEF ReadInv
<1> QED
  BY <1>1, ConstantsAssumption
  DEF Needed, Complete, Requests, Exactly, unread_bytes, ReadInv, TypeOK

\* fill_buffer, reorganizing or not, keeps the unread bytes and their order.
LEMMA PreparedSound ==
    ASSUME ReadInv, pc = "reading"
    PROVE  /\ Prepared.buffer \in [Offsets -> 0 .. MaxStream]
           /\ Prepared.read \in 0 .. BufferSize
           /\ Prepared.write \in Prepared.read .. BufferSize
           /\ Prepared.write - Prepared.read = unread_bytes
           /\ \A i \in 0 .. (unread_bytes - 1) :
                 Prepared.buffer[Prepared.read + i] = read_buffer[read_ptr + i]
<1> USE ConstantsAssumption DEF ConstantsAssumption, ReadInv, TypeOK, unread_bytes
<1>1. CASE free_space(write_ptr) < Needed
  <2>1. Prepared = Reorganized
    BY <1>1 DEF Prepared
  <2>2. \A i \in Offsets : i < unread_bytes => read_ptr + i \in Offsets
    BY DEF Offsets
  <2>3. Reorganized.buffer \in [Offsets -> 0 .. MaxStream]
    BY <2>2 DEF Reorganized
  <2>4. Reorganized.read = 0 /\ Reorganized.write = unread_bytes
    BY DEF Reorganized
  <2>5. \A i \in 0 .. (unread_bytes - 1) :
           Reorganized.buffer[i] = read_buffer[read_ptr + i]
    BY DEF Reorganized, Offsets
  <2> QED
    BY <2>1, <2>3, <2>4, <2>5
<1>2. CASE ~ (free_space(write_ptr) < Needed)
  <2>1. Prepared = [buffer |-> read_buffer, read |-> read_ptr,
                    write |-> write_ptr]
    BY <1>2 DEF Prepared
  <2> QED
    BY <2>1
<1> QED
  BY <1>1, <1>2

\* Initial states satisfy the inductive invariant.
LEMMA InitReadInv == Init => ReadInv
<1> SUFFICES ASSUME Init PROVE ReadInv
  OBVIOUS
<1> USE ConstantsAssumption DEF ConstantsAssumption
<1>1. delims \subseteq 1 .. MaxStream
  BY DEF Init
<1>2. TypeOK
  <2>1. read_buffer \in [Offsets -> 0 .. MaxStream]
    BY DEF Init
  <2>2. /\ arrived \in 0 .. MaxStream /\ consumed \in 0 .. MaxStream
        /\ read_ptr \in 0 .. BufferSize /\ write_ptr \in read_ptr .. BufferSize
        /\ errors \in 0 .. MaxErrors
    BY DEF Init
  <2>3. /\ fin \in BOOLEAN /\ edge \in BOOLEAN /\ first_run \in BOOLEAN
        /\ reader \in Requests \cup {NoReader}
        /\ pc \in {"unregistered", "idle", "reading", "closed"}
        /\ result \in {"none", "0", "-1"}
        /\ reason \in Reasons
    BY Zenon DEF Init, Reasons
  <2> QED
    BY <1>1, <2>1, <2>2, <2>3 DEF TypeOK
<1>3. UnreadBytesInOrder
  BY DEF Init, UnreadBytesInOrder, unread_bytes
<1>4. ClosedForAReason /\ NothingStalls
  BY DEF Init, ClosedForAReason, NothingStalls
<1> QED
  BY <1>2, <1>3, <1>4 DEF ReadInv, Init

\* A handed out piece shortens the unread bytes from the front.
LEMMA HandOutInv ==
    ASSUME ReadInv, NEW n, HandOut(n),
           UNCHANGED <<arrived, read_buffer, write_ptr>>
    PROVE  /\ read_ptr' \in 0 .. BufferSize
           /\ write_ptr' \in read_ptr' .. BufferSize
           /\ consumed' \in 0 .. MaxStream
           /\ UnreadBytesInOrder'
<1>1. n \in 1 .. unread_bytes
  BY LengthsBounded DEF HandOut
<1>2. read_ptr' = read_ptr + n /\ consumed' = consumed + n
  BY DEF HandOut
<1>3. UnreadBytesInOrder
  BY DEF ReadInv
<1> QED
  BY <1>1, <1>2, <1>3, ConstantsAssumption
  DEF ReadInv, TypeOK, UnreadBytesInOrder, unread_bytes

\* One step of fill_buffer that stores bytes.
LEMMA FillInv ==
    ASSUME ReadInv, NEW k \in 1 .. BufferSize, Fill(k)
    PROVE  ReadInv'
<1> DEFINE b == Prepared
           taken == consumed + unread_bytes
<1> USE ConstantsAssumption DEF ConstantsAssumption
<1>1. /\ pc = "reading"
      /\ ~ Complete
      /\ k <= BufferSize - b.write
      /\ k <= arrived - taken
      /\ read_buffer' = [i \in Offsets |->
            IF b.write <= i /\ i < b.write + k THEN taken + 1 + i - b.write
            ELSE b.buffer[i]]
      /\ read_ptr' = b.read
      /\ write_ptr' = b.write + k
      /\ UNCHANGED <<delims, arrived, fin, edge, reader, consumed, pc,
                     first_run, result, reason, errors>>
  BY DEF Fill, free_space
<1>2. /\ b.buffer \in [Offsets -> 0 .. MaxStream]
      /\ b.read \in 0 .. BufferSize
      /\ b.write \in b.read .. BufferSize
      /\ b.write - b.read = unread_bytes
      /\ \A i \in 0 .. (unread_bytes - 1) :
            b.buffer[b.read + i] = read_buffer[read_ptr + i]
  BY <1>1, PreparedSound
<1>3. TypeOK /\ UnreadBytesInOrder /\ reader \in Requests /\ reason = "none"
  BY <1>1 DEF ReadInv
<1>4. unread_bytes \in Nat /\ taken \in Nat /\ taken + k <= MaxStream
  BY <1>1, <1>3 DEF unread_bytes, TypeOK
<1> HIDE DEF b, taken
<1>5. read_buffer' \in [Offsets -> 0 .. MaxStream]
  <2>1. ASSUME NEW i \in Offsets, b.write <= i, i < b.write + k
        PROVE  taken + 1 + i - b.write \in 0 .. MaxStream
    <3>1. b.write \in Int /\ i \in Int /\ k \in Int
      BY <1>2 DEF Offsets
    <3> QED
      BY <2>1, <3>1, <1>4
  <2>2. \A i \in Offsets : b.buffer[i] \in 0 .. MaxStream
    BY <1>2
  <2> QED
    BY <2>1, <2>2, <1>1
<1>6. TypeOK'
  BY <1>1, <1>2, <1>3, <1>5 DEF TypeOK
<1>7. unread_bytes' = unread_bytes + k
  BY <1>1, <1>2 DEF unread_bytes
<1>8. UnreadBytesInOrder'
  <2>1. ASSUME NEW i \in read_ptr' .. (write_ptr' - 1)
        PROVE  read_buffer'[i] = consumed' + 1 + (i - read_ptr')
    <3>1. i \in Offsets /\ b.read <= i /\ i < b.write + k
      BY <1>1, <1>2 DEF Offsets
    <3>2. CASE b.write <= i
      <4>1. read_buffer'[i] = taken + 1 + i - b.write
        BY <1>1, <3>1, <3>2
      <4>2. taken = consumed + (b.write - b.read)
        BY <1>2 DEF taken
      <4>3. /\ b.write \in Int /\ b.read \in Int /\ i \in Int
            /\ consumed \in Int
        BY <3>1, <1>2, <1>3 DEF TypeOK, Offsets
      <4> QED
        BY <4>1, <4>2, <4>3, <1>1
    <3>3. CASE i < b.write
      <4>1. read_buffer'[i] = b.buffer[i]
        BY <1>1, <1>2, <3>1, <3>3 DEF Offsets
      <4>2. i - b.read \in 0 .. (unread_bytes - 1)
        BY <1>2, <3>1, <3>3 DEF Offsets
      <4>3. b.buffer[b.read + (i - b.read)] = read_buffer[read_ptr + (i - b.read)]
        BY <1>2, <4>2
      <4>4. b.read + (i - b.read) = i
        BY <1>2, <3>1 DEF Offsets
      <4>5. read_ptr + (i - b.read) \in read_ptr .. (write_ptr - 1)
        BY <4>2, <1>3 DEF TypeOK, unread_bytes
      <4>6. read_buffer[read_ptr + (i - b.read)] =
               consumed + 1 + ((read_ptr + (i - b.read)) - read_ptr)
        BY <4>5, <1>3 DEF UnreadBytesInOrder
      <4>7. /\ b.read \in Int /\ i \in Int /\ consumed \in Int
            /\ read_ptr \in Int
        BY <3>1, <1>2, <1>3 DEF TypeOK, Offsets
      <4> QED
        BY <4>1, <4>3, <4>4, <4>6, <4>7, <1>1
    <3> QED
      BY <3>1, <3>2, <3>3, <1>2 DEF Offsets
  <2>2. consumed' + unread_bytes' <= arrived'
    BY <1>1, <1>3, <1>4, <1>7 DEF taken, TypeOK
  <2> QED
    BY <2>1, <2>2 DEF UnreadBytesInOrder
<1>9. ClosedForAReason' /\ NothingStalls'
  BY <1>1, <1>3 DEF ClosedForAReason, NothingStalls
<1> QED
  BY <1>1, <1>3, <1>6, <1>8, <1>9 DEF ReadInv

\* fill_buffer without new bytes: the connection closes or waits in epoll.
LEMMA FillFailsInv ==
    ASSUME ReadInv, FillFails
    PROVE  ReadInv'
<1> DEFINE b == Prepared
<1> USE ConstantsAssumption DEF ConstantsAssumption
<1>1. /\ pc = "reading"
      /\ ~ Complete
      /\ read_buffer' = b.buffer
      /\ read_ptr' = b.read
      /\ write_ptr' = b.write
      /\ UNCHANGED <<delims, arrived, fin, edge, reader, consumed>>
  BY DEF FillFails
<1>2. /\ b.buffer \in [Offsets -> 0 .. MaxStream]
      /\ b.read \in 0 .. BufferSize
      /\ b.write \in b.read .. BufferSize
      /\ b.write - b.read = unread_bytes
      /\ \A i \in 0 .. (unread_bytes - 1) :
            b.buffer[b.read + i] = read_buffer[read_ptr + i]
  BY <1>1, PreparedSound
<1>3. TypeOK /\ UnreadBytesInOrder /\ reader \in Requests
  BY <1>1 DEF ReadInv
<1>4. Needed \in Nat \ {0}
  BY <1>1, NeededPositive
<1> HIDE DEF b
<1>5. UnreadBytesInOrder' /\ unread_bytes' = unread_bytes
  <2>1. unread_bytes' = unread_bytes
    BY <1>1, <1>2 DEF unread_bytes
  <2>2. ASSUME NEW i \in read_ptr' .. (write_ptr' - 1)
        PROVE  read_buffer'[i] = consumed' + 1 + (i - read_ptr')
    <3>1. /\ b.read \in Int /\ b.write \in Int /\ i \in Int
          /\ consumed \in Int /\ read_ptr \in Int /\ write_ptr \in Int
          /\ b.read <= i /\ i < b.write
      BY <1>1, <1>2, <1>3 DEF TypeOK
    <3>2. i - b.read \in 0 .. (unread_bytes - 1)
      BY <3>1, <1>2 DEF unread_bytes
    <3>3. b.buffer[b.read + (i - b.read)] = read_buffer[read_ptr + (i - b.read)]
      BY <1>2, <3>2
    <3>4. b.read + (i - b.read) = i
      BY <3>1
    <3>5. read_ptr + (i - b.read) \in read_ptr .. (write_ptr - 1)
      BY <3>1, <3>2 DEF unread_bytes
    <3>6. read_buffer[read_ptr + (i - b.read)] =
             consumed + 1 + ((read_ptr + (i - b.read)) - read_ptr)
      BY <3>5, <1>3 DEF UnreadBytesInOrder
    <3> QED
      BY <3>1, <3>3, <3>4, <3>6, <1>1
  <2>3. consumed' + unread_bytes' <= arrived'
    BY <2>1, <1>1, <1>3 DEF UnreadBytesInOrder
  <2> QED
    BY <2>1, <2>2, <2>3 DEF UnreadBytesInOrder
<1>6. ~ Complete'
  <2>1. CASE reader.kind = "exactly"
    BY <2>1, <1>1, <1>5 DEF Complete
  <2>2. CASE reader.kind # "exactly"
    <3>1. SUFFICES ASSUME NEW i \in Found' PROVE FALSE
      BY <2>2, <1>1 DEF Complete
    <3>2. /\ i \in b.read .. (b.write - 2)
          /\ b.buffer[i] \in delims
          /\ b.buffer[i + 1] = b.buffer[i] + 1
      BY <1>1 DEF Found
    <3>3. /\ b.read \in Int /\ b.write \in Int /\ i \in Int
          /\ read_ptr \in Int /\ write_ptr \in Int
      BY <3>2, <1>2, <1>3 DEF TypeOK
    <3> DEFINE d == i - b.read
    <3>4. /\ d \in 0 .. (unread_bytes - 1)
          /\ d + 1 \in 0 .. (unread_bytes - 1)
          /\ b.read + d = i
          /\ b.read + (d + 1) = i + 1
          /\ read_ptr + (d + 1) = (read_ptr + d) + 1
          /\ read_ptr + d \in read_ptr .. (write_ptr - 2)
      BY <3>2, <3>3, <1>2 DEF unread_bytes
    <3> HIDE DEF d
    <3>5. /\ b.buffer[i] = read_buffer[read_ptr + d]
          /\ b.buffer[i + 1] = read_buffer[(read_ptr + d) + 1]
      BY <3>4, <1>2
    <3>6. read_ptr + d \in Found
      BY <3>2, <3>4, <3>5 DEF Found
    <3> QED
      BY <3>6, <2>2, <1>1 DEF Complete
  <2> QED
    BY <2>1, <2>2
<1>7. /\ reason = "none"
      /\ Returns \in {"none", "0", "-1"}
  BY <1>1 DEF ReadInv, Returns, TypeOK
<1>8. CASE /\ free_space(b.write) < Needed
           /\ Close("too_much_data")
           /\ UNCHANGED errors
  <2>1. /\ pc' = "closed" /\ reason' = "too_much_data"
        /\ result' \in {"none", "0", "-1"} /\ first_run' = FALSE
        /\ errors' = errors
    BY <1>7, <1>8 DEF Close
  <2>2. free_space(b.write) = BufferSize - unread_bytes
    <3>1. CASE free_space(write_ptr) < Needed
      BY <3>1 DEF b, Prepared, Reorganized, free_space
    <3>2. CASE ~ (free_space(write_ptr) < Needed)
      BY <3>2, <1>8 DEF b, Prepared
    <3> QED
      BY <3>1, <3>2
  <2>3. BufferSize - unread_bytes < Needed
    BY <1>8, <2>2
  <2>4. unread_bytes \in 0 .. BufferSize
    BY <1>3 DEF TypeOK, unread_bytes
  <2>5. CASE reader.kind = "exactly"
    <3>1. reader.num \in Int
      BY <1>3, <2>5 DEF Requests, Exactly
    <3>2. reader.num > BufferSize
      BY <2>3, <2>4, <2>5, <3>1 DEF Needed
    <3> QED
      BY <1>1, <1>2, <1>3, <1>5, <2>1, <2>5, <3>2
      DEF ReadInv, TypeOK, Reasons, ClosedForAReason, NothingStalls
  <2>6. CASE reader.kind # "exactly"
    <3>1. unread_bytes = BufferSize
      BY <2>3, <2>4, <2>6 DEF Needed
    <3> QED
      BY <1>1, <1>2, <1>3, <1>5, <2>1, <2>6, <3>1
      DEF ReadInv, TypeOK, Reasons, ClosedForAReason, NothingStalls
  <2> QED
    BY <2>5, <2>6
<1>9. CASE /\ consumed + unread_bytes = arrived
           /\ fin
           /\ Close("peer_closed")
           /\ UNCHANGED errors
  BY <1>1, <1>2, <1>3, <1>5, <1>7, <1>9
  DEF Close, ReadInv, TypeOK, Reasons, ClosedForAReason, NothingStalls
<1>10. CASE /\ consumed + unread_bytes = arrived
            /\ ~ fin
            /\ pc' = "idle"
            /\ result' = Returns
            /\ first_run' = FALSE
            /\ UNCHANGED <<reason, errors>>
  <2>1. NothingStalls'
    BY <1>1, <1>3, <1>5, <1>6, <1>10 DEF NothingStalls, TypeOK
  <2> QED
    BY <1>1, <1>2, <1>3, <1>5, <1>7, <1>10, <2>1
    DEF ReadInv, TypeOK, ClosedForAReason
<1>11. CASE /\ errors < MaxErrors
            /\ errors' = errors + 1
            /\ Close("io_error")
  <2>1. errors' \in 0 .. MaxErrors
    BY <1>3, <1>11 DEF TypeOK
  <2> QED
    BY <1>1, <1>2, <1>3, <1>5, <1>7, <1>11, <2>1
    DEF Close, ReadInv, TypeOK, Reasons, ClosedForAReason, NothingStalls
<1> QED
  BY <1>8, <1>9, <1>10, <1>11 DEF FillFails, b

\* Every step of the connection and of its other end keeps the invariant.
LEMMA ReadInvStep == ReadInv /\ [Next]_vars => ReadInv'
<1> SUFFICES ASSUME ReadInv, [Next]_vars PROVE ReadInv'
  OBVIOUS
<1> USE ConstantsAssumption DEF ConstantsAssumption
<1>1. TypeOK /\ UnreadBytesInOrder
  BY DEF ReadInv
<1>2. CASE UNCHANGED vars
  BY <1>2 DEF vars, ReadInv, TypeOK, UnreadBytesInOrder, ClosedForAReason,
             NothingStalls, Complete, Found, unread_bytes
<1>3. CASE Arrive
  <2>1. TypeOK'
    BY <1>1, <1>3 DEF Arrive, TypeOK
  <2>2. UnreadBytesInOrder'
    BY <1>1, <1>3 DEF Arrive, TypeOK, UnreadBytesInOrder, unread_bytes
  <2>3. Complete' = Complete
    BY <1>3 DEF Arrive, Complete, Found, unread_bytes
  <2>4. reason = "none"
    BY <1>3 DEF Arrive, ReadInv
  <2> QED
    BY <1>3, <2>1, <2>2, <2>3, <2>4
    DEF Arrive, ReadInv, ClosedForAReason, NothingStalls
<1>4. CASE PeerCloses
  <2>1. TypeOK'
    BY <1>1, <1>4 DEF PeerCloses, TypeOK
  <2>2. UnreadBytesInOrder'
    BY <1>1, <1>4 DEF PeerCloses, UnreadBytesInOrder, unread_bytes
  <2>3. Complete' = Complete
    BY <1>4 DEF PeerCloses, Complete, Found, unread_bytes
  <2>4. reason = "none"
    BY <1>4 DEF PeerCloses, ReadInv
  <2> QED
    BY <1>4, <2>1, <2>2, <2>3, <2>4
    DEF PeerCloses, ReadInv, ClosedForAReason, NothingStalls
<1>5. ASSUME NEW req \in Requests, StartReading(req) PROVE ReadInv'
  <2>1. TypeOK'
    <3>1. errors' \in 0 .. MaxErrors
      BY <1>1, <1>5 DEF StartReading, TypeOK
    <3> QED
      BY <1>1, <1>5, <3>1 DEF StartReading, TypeOK
  <2>2. UnreadBytesInOrder'
    BY <1>1, <1>5 DEF StartReading, UnreadBytesInOrder, unread_bytes
  <2> QED
    BY <1>5, <2>1, <2>2
    DEF StartReading, ReadInv, ClosedForAReason, NothingStalls
<1>6. CASE ReadEvent
  <2>1. TypeOK'
    BY <1>1, <1>6 DEF ReadEvent, TypeOK
  <2>2. UnreadBytesInOrder'
    BY <1>1, <1>6 DEF ReadEvent, UnreadBytesInOrder, unread_bytes
  <2> QED
    BY <1>6, <2>1, <2>2
    DEF ReadEvent, ReadInv, ClosedForAReason, NothingStalls
<1>7. ASSUME NEW n, NEW req \in Requests, Deliver(n, req) PROVE ReadInv'
  <2>1. /\ HandOut(n) /\ pc = "reading" /\ reader' = req
        /\ UNCHANGED <<delims, arrived, fin, edge, read_buffer, write_ptr, pc,
                       first_run, result, reason, errors>>
    BY <1>7 DEF Deliver, HandOut
  <2>2. /\ read_ptr' \in 0 .. BufferSize
        /\ write_ptr' \in read_ptr' .. BufferSize
        /\ consumed' \in 0 .. MaxStream
        /\ UnreadBytesInOrder'
    BY <2>1, HandOutInv
  <2>3. TypeOK'
    BY <1>1, <2>1, <2>2 DEF TypeOK
  <2> QED
    BY <2>1, <2>2, <2>3 DEF ReadInv, ClosedForAReason, NothingStalls
<1>8. ASSUME NEW n, DeliverAndClose(n) PROVE ReadInv'
  <2>1. /\ HandOut(n) /\ pc = "reading" /\ pc' = "closed"
        /\ reason' = "callback" /\ first_run' = FALSE /\ result' = Returns
        /\ UNCHANGED <<delims, arrived, fin, edge, read_buffer, write_ptr,
                       reader, errors>>
    BY <1>8 DEF DeliverAndClose, HandOut, Close
  <2>2. /\ read_ptr' \in 0 .. BufferSize
        /\ write_ptr' \in read_ptr' .. BufferSize
        /\ consumed' \in 0 .. MaxStream
        /\ UnreadBytesInOrder'
    BY <2>1, HandOutInv
  <2>3. TypeOK'
    BY <1>1, <2>1, <2>2 DEF TypeOK, Returns, Reasons
  <2> QED
    BY <2>1, <2>2, <2>3 DEF ReadInv, ClosedForAReason, NothingStalls
<1>9. ASSUME NEW n \in 1 .. BufferSize, Fill(n) PROVE ReadInv'
  BY <1>9, FillInv
<1>10. CASE FillFails
  BY <1>10, FillFailsInv
<1>11. CASE ErrorEvent
  <2>1. TypeOK'
    <3>1. errors' \in 0 .. MaxErrors
      BY <1>1, <1>11 DEF ErrorEvent, TypeOK
    <3> QED
      BY <1>1, <1>11, <3>1 DEF ErrorEvent, Close, Returns, TypeOK, Reasons
  <2>2. UnreadBytesInOrder'
    BY <1>1, <1>11 DEF ErrorEvent, UnreadBytesInOrder, unread_bytes
  <2> QED
    BY <1>11, <2>1, <2>2
    DEF ErrorEvent, Close, ReadInv, ClosedForAReason, NothingStalls
<1> QED
  BY <1>2, <1>3, <1>4, <1>5, <1>6, <1>7, <1>8, <1>9, <1>10, <1>11 DEF Next

-----------------------------------------------------------------------------
\* The inductive invariant holds of every reachable state.
THEOREM ReadInvariant == Spec => []ReadInv
  BY InitReadInv, ReadInvStep, PTL DEF Spec

\* read_exactly and read_until hand out the bytes of the stream in order:
\* whatever the sizes, the splits and the moments of reorganize_read_buffer,
\* the unread bytes are the ones that follow those already handed out.
THEOREM UnreadInOrder == Spec => []UnreadBytesInOrder
<1>1. ReadInv => UnreadBytesInOrder
  BY DEF ReadInv
<1> QED
  BY <1>1, ReadInvariant, PTL

\* fill_buffer refuses a request only when it cannot fit into an empty buffer,
\* and reports the end of the stream only after all of it was read.
THEOREM ClosedReasons == Spec => []ClosedForAReason
<1>1. ReadInv => ClosedForAReason
  BY DEF ReadInv
<1> QED
  BY <1>1, ReadInvariant, PTL

\* go_reading never returns to the event loop with a complete piece in the
\* buffer or with bytes in the socket for which no event is due.
THEOREM NoStall == Spec => []NothingStalls
<1>1. ReadInv => NothingStalls
  BY DEF ReadInv
<1> QED
  BY <1>1, ReadInvariant, PTL

-----------------------------------------------------------------------------
(* The write side                                                          *)

\* A non-empty set of natural numbers has a least one.
LEMMA LeastExists ==
  ASSUME NEW S, S \subseteq Nat, S # {}
  PROVE  \E n \in S : \A k \in S : n <= k
<1>1. \E n \in S : \A k \in S : ~(<<k, n>> \in OpToRel(<, Nat))
  BY NatLessThanWellFounded, WFMin
<1>2. \E n \in S : \A k \in S : ~(k \in Nat /\ n \in Nat /\ k < n)
  BY <1>1, Zenon DEF OpToRel
<1> QED BY <1>2

\* The recursion of CopyIovec is well defined: a message has only so many
\* io vectors.
LEMMA CopyIovecUnfolds ==
  ASSUME NEW bytes, NEW ends, Len(ends) \in Nat, NEW kept, NEW skip
  PROVE  \E c : /\ c[0] = [buffer |-> kept, skip |-> skip, ok |-> TRUE]
                /\ \A i \in 1 .. Len(ends) :
                      c[i] = CopySingleBuffer(c[i - 1], IoVec(bytes, ends, i))
                /\ CopyIovec(bytes, ends, kept, skip) = c[Len(ends)]
<1> DEFINE Start == [buffer |-> kept, skip |-> skip, ok |-> TRUE]
           Step(c, i) == IF i = 0 THEN Start ELSE CopySingleBuffer(c[i - 1], IoVec(bytes, ends, i))
           Unfolds(n) == \E c : c = [i \in 0 .. n |-> Step(c, i)]
<1> HIDE DEF Unfolds
<1>1. Unfolds(0)
  <2> DEFINE c == [i \in 0 .. 0 |-> Start]
  <2>1. c = [i \in 0 .. 0 |-> Step(c, i)]
    OBVIOUS
  <2> HIDE DEF c
  <2> QED BY <2>1 DEF Unfolds
<1>2. ASSUME NEW n \in Nat, Unfolds(n) PROVE Unfolds(n + 1)
  <2> PICK c : c = [i \in 0 .. n |-> Step(c, i)]
    BY <1>2 DEF Unfolds
  <2> DEFINE d == [i \in 0 .. n + 1 |->
                      IF i = n + 1 THEN CopySingleBuffer(c[n], IoVec(bytes, ends, n + 1)) ELSE c[i]]
  <2>1. ASSUME NEW i \in 0 .. n + 1 PROVE d[i] = Step(d, i)
    <3>1. CASE i = n + 1
      BY <3>1
    <3>2. CASE i # n + 1 /\ i # 0
      <4>1. i \in 0 .. n /\ i - 1 \in 0 .. n
        BY <3>2
      <4>2. d[i] = c[i] /\ d[i - 1] = c[i - 1]
        BY <4>1
      <4>3. c[i] = Step(c, i)
        BY <4>1
      <4> QED BY <3>2, <4>2, <4>3
    <3>3. CASE i = 0
      BY <3>3
    <3> QED BY <3>1, <3>2, <3>3
  <2>2. d = [i \in 0 .. n + 1 |-> Step(d, i)]
    BY <2>1
  <2> HIDE DEF d
  <2> QED BY <2>2 DEF Unfolds
<1>3. \A n \in Nat : Unfolds(n)
  <2> DEFINE bad == {n \in Nat : ~ Unfolds(n)}
  <2> SUFFICES ASSUME bad # {} PROVE FALSE
    OBVIOUS
  <2>1. PICK n \in bad : \A k \in bad : n <= k
    <3>1. bad \subseteq Nat
      OBVIOUS
    <3> HIDE DEF bad
    <3> QED BY <3>1, LeastExists
  <2>2. n # 0
    BY <1>1
  <2>3. n - 1 \in Nat /\ n - 1 \notin bad
    BY <2>1, <2>2
  <2>4. Unfolds(n - 1 + 1)
    BY <1>2, <2>3
  <2> QED BY <2>4
<1> DEFINE copied == CHOOSE c : c = [i \in 0 .. Len(ends) |-> Step(c, i)]
<1>4. copied = [i \in 0 .. Len(ends) |-> Step(copied, i)]
  BY <1>3 DEF Unfolds
<1>5. CopyIovec(bytes, ends, kept, skip) = copied[Len(ends)]
  BY DEF CopyIovec
<1> HIDE DEF copied
<1>6. copied[0] = Start
  BY <1>4
<1>7. ASSUME NEW i \in 1 .. Len(ends)
      PROVE  copied[i] = CopySingleBuffer(copied[i - 1], IoVec(bytes, ends, i))
  <2>1. i \in 0 .. Len(ends) /\ i # 0
    OBVIOUS
  <2>2. copied[i] = Step(copied, i)
    BY <1>4, <2>1
  <2> QED BY <2>1, <2>2
<1> QED BY <1>5, <1>6, <1>7

\* How far the copying of a message has come after the io vectors up to the
\* offset e: all behind the skipped bytes is in the buffer, or one did not fit.
Copied(c, bytes, kept, skip, e) ==
    /\ c \in [buffer : Seq(Bytes), skip : Nat, ok : BOOLEAN]
    /\ Len(c.buffer) <= WriteBufferSize
    /\ \E m \in skip .. Len(bytes) :
          /\ c.buffer = kept \o SubSeq(bytes, skip + 1, m)
          /\ c.ok => \/ m = skip /\ e <= skip /\ c.skip = skip - e
                     \/ m = e /\ c.skip = 0

\* One io vector takes the copying from its start to its end.
LEMMA CopyOneVector ==
  ASSUME NEW bytes \in Seq(Bytes), NEW kept \in Seq(Bytes), NEW skip \in 0 .. Len(bytes),
         NEW c, NEW d \in 0 .. Len(bytes), NEW e \in d .. Len(bytes),
         Copied(c, bytes, kept, skip, d)
  PROVE  Copied(CopySingleBuffer(c, SubSeq(bytes, d + 1, e)), bytes, kept, skip, e)
<1> DEFINE vector == SubSeq(bytes, d + 1, e)
           rest == From(vector, c.skip)
           after == CopySingleBuffer(c, vector)
<1>1. PICK m \in skip .. Len(bytes) :
          /\ c.buffer = kept \o SubSeq(bytes, skip + 1, m)
          /\ c.ok => \/ m = skip /\ d <= skip /\ c.skip = skip - d
                     \/ m = d /\ c.skip = 0
  BY DEF Copied
<1>2. /\ c \in [buffer : Seq(Bytes), skip : Nat, ok : BOOLEAN]
      /\ Len(c.buffer) <= WriteBufferSize
  BY DEF Copied
<1>0. c.ok => d + c.skip = m
  BY <1>1
<1>3. vector \in Seq(Bytes) /\ Len(vector) = e - d
  BY SubSeqProperties
<1> SUFFICES Copied(after, bytes, kept, skip, e)
  OBVIOUS
<1> HIDE DEF vector
<1>4. CASE ~ c.ok
  <2>1. after = c
    BY <1>4 DEF CopySingleBuffer
  <2> QED BY <1>1, <1>2, <1>4, <2>1 DEF Copied
<1>5. CASE c.ok /\ c.skip >= Len(vector)
  <2>1. after = [c EXCEPT !.skip = c.skip - Len(vector)]
    BY <1>5 DEF CopySingleBuffer
  <2> DEFINE less == c.skip - Len(vector)
  <2>0. less \in Nat
    BY <1>2, <1>3, <1>5
  <2> HIDE DEF less
  <2>2. /\ after.buffer = c.buffer /\ after.ok = c.ok /\ after.skip = less
        /\ after \in [buffer : Seq(Bytes), skip : Nat, ok : BOOLEAN]
    BY <1>2, <2>0, <2>1 DEF less
  <2> HIDE DEF after
  <2>3. \/ m = skip /\ e <= skip /\ after.skip = skip - e
        \/ m = e /\ after.skip = 0
    BY <1>1, <1>3, <1>5, <2>2 DEF less
  <2> QED BY <1>1, <1>2, <2>2, <2>3 DEF Copied
<1>6. CASE c.ok /\ c.skip < Len(vector) /\ Fits(rest, c.buffer)
  <2>1. after = [buffer |-> c.buffer \o rest, skip |-> 0, ok |-> TRUE]
    BY <1>2, <1>3, <1>6 DEF CopySingleBuffer
  <2>2. rest \in Seq(Bytes) /\ Len(c.buffer) + Len(rest) <= WriteBufferSize
    BY <1>2, <1>3, <1>6, WriteConstantsAssumption DEF Fits, From
  <2>3. rest = SubSeq(bytes, m + 1, e)
    <3>1. d + 1 + c.skip = m + 1 /\ c.skip + 1 \in 1 .. e - d /\ d + 1 \in 1 .. Len(bytes) /\ e \in 1 .. Len(bytes)
      <4> DEFINE k == c.skip
      <4>1. k \in Nat /\ d + k = m /\ k < e - d
        BY <1>0, <1>2, <1>3, <1>6
      <4> HIDE DEF k
      <4>2. d + 1 + k = m + 1 /\ k + 1 \in 1 .. e - d /\ d + 1 \in 1 .. Len(bytes) /\ e \in 1 .. Len(bytes)
        BY <4>1
      <4> QED BY <4>2 DEF k
    <3>2. SubSeq(SubSeq(bytes, d + 1, e), c.skip + 1, e - d) = SubSeq(bytes, m + 1, e)
      <4> DEFINE i == d + 1  k == c.skip + 1
      <4>1. /\ i \in 1 .. Len(bytes) /\ e \in 1 .. Len(bytes)
            /\ k \in 1 .. e - i + 1 /\ e - d \in 1 .. e - i + 1
            /\ i + k - 1 = m + 1 /\ i + (e - d) - 1 = e
        BY <1>2, <3>1
      <4> HIDE DEF i, k
      <4>2. SubSeq(SubSeq(bytes, i, e), k, e - d) = SubSeq(bytes, i + k - 1, i + (e - d) - 1)
        BY <4>1, SubSeqOfSubSeq
      <4> QED BY <4>1, <4>2 DEF i, k
    <3> QED BY <1>3, <3>2 DEF From, vector
  <2>4. e \in m .. Len(bytes)
    BY <1>1, <1>2, <1>3, <1>6
  <2>5. SubSeq(bytes, skip + 1, m) \o SubSeq(bytes, m + 1, e) = SubSeq(bytes, skip + 1, e)
    BY <2>4, ConcatAdjacentSubSeq
  <2>6. c.buffer \o rest = kept \o SubSeq(bytes, skip + 1, e)
    <3> DEFINE head == SubSeq(bytes, skip + 1, m)  tail == SubSeq(bytes, m + 1, e)
    <3>1. head \in Seq(Bytes) /\ tail \in Seq(Bytes)
      BY <2>4, SubSeqProperties
    <3>2. c.buffer = kept \o head /\ rest = tail /\ head \o tail = SubSeq(bytes, skip + 1, e)
      BY <1>1, <2>3, <2>5
    <3> HIDE DEF head, tail, rest
    <3>3. (kept \o head) \o tail = kept \o (head \o tail)
      BY <3>1, ConcatAssociative
    <3> QED BY <3>2, <3>3
  <2>7. c.buffer \o rest \in Seq(Bytes) /\ Len(c.buffer \o rest) <= WriteBufferSize
    BY <1>2, <2>2, ConcatProperties
  <2> HIDE DEF rest
  <2>8. /\ after.buffer = kept \o SubSeq(bytes, skip + 1, e) /\ after.skip = 0
        /\ after \in [buffer : Seq(Bytes), skip : Nat, ok : BOOLEAN]
        /\ Len(after.buffer) <= WriteBufferSize
    BY <2>1, <2>6, <2>7
  <2> HIDE DEF after
  <2>9. e \in skip .. Len(bytes)
    BY <2>4
  <2> QED BY <2>8, <2>9 DEF Copied
<1>7. CASE c.ok /\ c.skip < Len(vector) /\ ~ Fits(rest, c.buffer)
  <2>1. after = [c EXCEPT !.ok = FALSE]
    BY <1>2, <1>3, <1>7 DEF CopySingleBuffer
  <2>2. /\ after.buffer = c.buffer /\ after.ok = FALSE
        /\ after \in [buffer : Seq(Bytes), skip : Nat, ok : BOOLEAN]
    BY <1>2, <2>1
  <2> HIDE DEF after
  <2> QED BY <1>1, <1>2, <2>2 DEF Copied
<1>8. c.ok \in BOOLEAN /\ c.skip \in Nat
  BY <1>2
<1> QED BY <1>3, <1>4, <1>5, <1>6, <1>7, <1>8 DEF vector

\* copy_iovec_to_write_buffer copies what the socket did not take, or all of
\* it up to an io vector that does not fit.
CopiedFrom(c, bytes, kept, skip) ==
    /\ c.buffer \in Seq(Bytes) /\ Len(c.buffer) <= WriteBufferSize /\ c.ok \in BOOLEAN
    /\ \E m \in skip .. Len(bytes) :
          c.buffer = kept \o SubSeq(bytes, skip + 1, m) /\ (c.ok => m = Len(bytes))

\* The copying of all io vectors is that of one after the other.
LEMMA CopyIovecCopies ==
  ASSUME NEW ends \in IoVecs, NEW bytes \in Seq(Bytes), Len(bytes) = ends[Len(ends)],
         NEW kept \in Seq(Bytes), Len(kept) <= WriteBufferSize, NEW skip \in 0 .. Len(bytes),
         NEW c, c = CopyIovec(bytes, ends, kept, skip)
  PROVE  CopiedFrom(c, bytes, kept, skip)
<1>1. PICK t : /\ t[0] = [buffer |-> kept, skip |-> skip, ok |-> TRUE]
               /\ \A i \in 1 .. Len(ends) : t[i] = CopySingleBuffer(t[i - 1], IoVec(bytes, ends, i))
               /\ c = t[Len(ends)]
  <2>1. Len(ends) \in Nat
    BY WriteConstantsAssumption
  <2> QED BY <2>1, CopyIovecUnfolds
<1>2. /\ Len(ends) \in Nat /\ Len(ends) > 0 /\ \A i \in 1 .. Len(ends) : ends[i] \in Nat
      /\ \A i, j \in 1 .. Len(ends) : i <= j => ends[i] <= ends[j]
  BY WriteConstantsAssumption
<1> DEFINE end(i) == IF i = 0 THEN 0 ELSE ends[i]
           bad == {i \in 0 .. Len(ends) : ~ Copied(t[i], bytes, kept, skip, end(i))}
<1>3. ASSUME NEW i \in 1 .. Len(ends)
      PROVE  end(i) \in 0 .. Len(bytes) /\ end(i - 1) \in 0 .. end(i)
  <2>1. ends[i] \in 0 .. ends[Len(ends)]
    BY <1>2
  <2>2. i # 1 => ends[i - 1] \in 0 .. ends[i]
    BY <1>2
  <2> QED BY <2>1, <2>2
<1>4. 0 \notin bad
  <2>1. SubSeq(bytes, skip + 1, skip) = << >>
    BY SubSeqEmpty
  <2>2. kept \o SubSeq(bytes, skip + 1, skip) = kept
    BY <2>1, ConcatEmptySeq
  <2>3. t[0].buffer = kept /\ t[0].skip = skip /\ t[0].ok = TRUE
        /\ t[0] \in [buffer : Seq(Bytes), skip : Nat, ok : BOOLEAN]
    BY <1>1
  <2>4. skip \in skip .. Len(bytes) /\ skip = skip - 0 /\ 0 <= skip
    OBVIOUS
  <2>5. Copied(t[0], bytes, kept, skip, 0)
    BY <2>2, <2>3, <2>4 DEF Copied
  <2> QED BY <2>5
<1>5. ASSUME NEW i \in 1 .. Len(ends), i - 1 \notin bad PROVE i \notin bad
  <2> DEFINE d == end(i - 1)  e == end(i)
  <2>1. d \in 0 .. Len(bytes) /\ e \in d .. Len(bytes)
    BY <1>3
  <2>2. i - 1 \in 0 .. Len(ends)
    OBVIOUS
  <2>3. Copied(t[i - 1], bytes, kept, skip, d)
    BY <1>5, <2>2
  <2>4. IoVec(bytes, ends, i) = SubSeq(bytes, d + 1, e)
    <3>1. (IF i = 1 THEN 0 ELSE ends[i - 1]) = d /\ ends[i] = e
      OBVIOUS
    <3> QED BY <3>1 DEF IoVec
  <2>5. t[i] = CopySingleBuffer(t[i - 1], SubSeq(bytes, d + 1, e))
    BY <1>1, <2>4
  <2> HIDE DEF d, e
  <2>6. Copied(t[i], bytes, kept, skip, e)
    BY <2>1, <2>3, <2>5, CopyOneVector
  <2> QED BY <2>6 DEF e
<1>6. bad = {}
  <2> SUFFICES ASSUME bad # {} PROVE FALSE
    OBVIOUS
  <2>1. PICK n \in bad : \A k \in bad : n <= k
    <3>1. bad \subseteq Nat
      OBVIOUS
    <3> HIDE DEF bad
    <3> QED BY <3>1, LeastExists
  <2>2. n \in 0 .. Len(ends)
    OBVIOUS
  <2> HIDE DEF bad
  <2>3. n \in 1 .. Len(ends) /\ n - 1 \notin bad
    BY <1>4, <2>1, <2>2
  <2> QED BY <1>5, <2>3
<1>7. Copied(c, bytes, kept, skip, Len(bytes))
  BY <1>1, <1>2, <1>6
<1>8. PICK m \in skip .. Len(bytes) :
          /\ c.buffer = kept \o SubSeq(bytes, skip + 1, m)
          /\ c.ok => \/ m = skip /\ Len(bytes) <= skip /\ c.skip = skip - Len(bytes)
                     \/ m = Len(bytes) /\ c.skip = 0
  BY <1>7 DEF Copied
<1>9. c.ok => m = Len(bytes)
  BY <1>8
<1>10. c.buffer \in Seq(Bytes) /\ Len(c.buffer) <= WriteBufferSize /\ c.ok \in BOOLEAN
  BY <1>7 DEF Copied
<1> QED BY <1>8, <1>9, <1>10 DEF CopiedFrom

\* The first n members of a sequence and those behind them.
LEMMA SplitSeq ==
  ASSUME NEW S, NEW q \in Seq(S), NEW n \in 0 .. Len(q)
  PROVE  /\ Upto(q, n) \in Seq(S) /\ Len(Upto(q, n)) = n
         /\ From(q, n) \in Seq(S) /\ Len(From(q, n)) = Len(q) - n
         /\ Upto(q, n) \o From(q, n) = q
         /\ n = Len(q) => Upto(q, n) = q /\ From(q, n) = << >>
<1>1. Upto(q, n) \o From(q, n) = q
  <2>1. Upto(q, n) \o From(q, n) = SubSeq(q, 1, Len(q))
    <3>1. 1 \in 1 .. Len(q) + 1 /\ n \in 1 - 1 .. Len(q) /\ Len(q) \in n .. Len(q)
      OBVIOUS
    <3>2. SubSeq(q, 1, n) \o SubSeq(q, n + 1, Len(q)) = SubSeq(q, 1, Len(q))
      BY <3>1, ConcatAdjacentSubSeq
    <3> QED BY <3>2 DEF Upto, From
  <2> QED BY <2>1, SubSeqFull
<1>2. Upto(q, n) \in Seq(S) /\ Len(Upto(q, n)) = n
  BY DEF Upto
<1>3. From(q, n) \in Seq(S) /\ Len(From(q, n)) = Len(q) - n
  BY DEF From
<1>4. n = Len(q) => Upto(q, n) = q /\ From(q, n) = << >>
  BY SubSeqFull, SubSeqEmpty DEF Upto, From
<1> QED BY <1>1, <1>2, <1>3, <1>4

\* The first n members of two sequences, one behind the other.
LEMMA UptoOfConcat ==
  ASSUME NEW S, NEW q \in Seq(S), NEW r \in Seq(S), NEW n \in 0 .. Len(q) + Len(r)
  PROVE  Upto(q \o r, n) = IF n <= Len(q) THEN Upto(q, n) ELSE q \o Upto(r, n - Len(q))
<1>1. /\ q \o r \in Seq(S) /\ Len(q \o r) = Len(q) + Len(r)
      /\ \A i \in 1 .. Len(q) + Len(r) : (q \o r)[i] = IF i <= Len(q) THEN q[i] ELSE r[i - Len(q)]
  BY ConcatProperties
<1>2. CASE n <= Len(q)
  BY <1>1, <1>2 DEF Upto
<1>3. CASE n > Len(q)
  <2> DEFINE k == n - Len(q)
  <2>1. k \in 1 .. Len(r)
    BY <1>3
  <2>2. Upto(r, k) \in Seq(S) /\ Len(Upto(r, k)) = k /\ \A i \in 1 .. k : Upto(r, k)[i] = r[i]
    BY <2>1 DEF Upto
  <2>3. /\ q \o Upto(r, k) \in Seq(S) /\ Len(q \o Upto(r, k)) = Len(q) + k
        /\ \A i \in 1 .. Len(q) + k :
              (q \o Upto(r, k))[i] = IF i <= Len(q) THEN q[i] ELSE Upto(r, k)[i - Len(q)]
    BY <2>2, ConcatProperties
  <2>4. Upto(q \o r, n) \in Seq(S) /\ Len(Upto(q \o r, n)) = n
    BY <1>1 DEF Upto
  <2>5. \A i \in 1 .. n : Upto(q \o r, n)[i] = (q \o r)[i]
    BY <1>1 DEF Upto
  <2>6. ASSUME NEW i \in 1 .. n PROVE Upto(q \o r, n)[i] = (q \o Upto(r, k))[i]
    BY <1>1, <2>1, <2>2, <2>3, <2>5
  <2> HIDE DEF k
  <2>7. n = Len(q) + k
    BY DEF k
  <2>8. Upto(q \o r, n) = q \o Upto(r, k)
    <3> DEFINE one == Upto(q \o r, n)  two == q \o Upto(r, k)
    <3>1. /\ one \in Seq(S) /\ two \in Seq(S) /\ Len(one) = n /\ Len(two) = n
          /\ \A i \in 1 .. n : one[i] = two[i]
      BY <2>3, <2>4, <2>6, <2>7
    <3> HIDE DEF one, two
    <3>2. one = two
      BY <3>1
    <3> QED BY <3>2 DEF one, two
  <2> QED BY <1>3, <2>8 DEF k
<1> QED BY <1>2, <1>3

\* A prefix stays one when more follows.
LEMMA PrefixOfMore ==
  ASSUME NEW S, NEW q \in Seq(S), NEW r \in Seq(S), NEW x \in Seq(S), IsPrefix(q, r)
  PROVE  IsPrefix(q, r \o x)
<1>1. Len(q) <= Len(r) /\ q = Upto(r, Len(q))
  BY SubSeqFull DEF IsPrefix, Upto
<1>2. Upto(r \o x, Len(q)) = Upto(r, Len(q)) /\ Len(r \o x) = Len(r) + Len(x)
  BY <1>1, UptoOfConcat, ConcatProperties
<1>3. SubSeq(q, 1, Len(q)) = q
  BY SubSeqFull
<1> QED BY <1>1, <1>2, <1>3 DEF IsPrefix, Upto

\* A message is what its io vectors hold.
LEMMA MessageBytes ==
  ASSUME NEW ends \in IoVecs, NEW k \in 1 .. MaxMessages
  PROVE  Message(k, ends) \in Seq(Bytes) /\ Len(Message(k, ends)) = ends[Len(ends)]
<1>1. ends[Len(ends)] \in Nat
  BY WriteConstantsAssumption
<1>2. \A j \in 1 .. ends[Len(ends)] : <<k, j>> \in Bytes
  BY <1>1 DEF Bytes
<1> QED BY <1>1, <1>2 DEF Message

\* Bytes the socket took and a buffer are a buffer and what was added to it.
Joined(took, buffer, b, x) == took \o buffer = b \o x

Rejoined(wb, bytes, written, buffer, x) == Joined(Upto(wb \o bytes, written), buffer, wb, x)

\* The socket took a part of the buffer: what is left, moved to its start, and
\* the message behind it are what was in the buffer and the message.
LEMMA RestOfBuffer ==
  ASSUME NEW S, NEW wb \in Seq(S), NEW bytes \in Seq(S), NEW written \in 0 .. Len(wb),
         NEW kept, kept = From(wb, written),
         NEW x \in Seq(S)
  PROVE  /\ kept \in Seq(S) /\ Len(kept) <= Len(wb)
         /\ Rejoined(wb, bytes, written, kept \o x, x)
<1> PICK took : took = Upto(wb, written)
  OBVIOUS
<1>1. Upto(wb \o bytes, written) = took
  BY UptoOfConcat
<1>2. took \in Seq(S) /\ kept \in Seq(S)
  BY SplitSeq
<1>4. took \o kept = wb
  BY SplitSeq
<1>5. Len(kept) <= Len(wb)
  BY SplitSeq
<1>3. (took \o kept) \o x = took \o (kept \o x)
  BY <1>2
<1> QED BY <1>1, <1>2, <1>3, <1>4, <1>5 DEF Rejoined, Joined

\* It took the buffer and a part of the message: only the rest is kept.
LEMMA RestOfMessage ==
  ASSUME NEW S, NEW wb \in Seq(S), NEW bytes \in Seq(S), NEW skip \in 1 .. Len(bytes),
         NEW rest \in Seq(S), NEW x, Upto(bytes, skip) \o rest = x
  PROVE  Rejoined(wb, bytes, Len(wb) + skip, rest, x)
<1> PICK taken : taken = Upto(bytes, skip)
  OBVIOUS
<1>1. Upto(wb \o bytes, Len(wb) + skip) = wb \o taken
  <2> PICK written : written = Len(wb) + skip
    OBVIOUS
  <2>1. written \in 0 .. Len(wb) + Len(bytes) /\ ~ (written <= Len(wb)) /\ written - Len(wb) = skip
    OBVIOUS
  <2> QED BY <2>1, UptoOfConcat
<1>2. taken \in Seq(S)
  BY SplitSeq
<1>3. (wb \o taken) \o rest = wb \o (taken \o rest)
  BY <1>2
<1> QED BY <1>1, <1>3 DEF Rejoined, Joined

\* What the socket took and what is then in the buffer are what was there and
\* the message, or the part of it that fitted.
KeptInOrder(c, bytes, written) ==
    /\ c.buffer \in Seq(Bytes) /\ Len(c.buffer) <= WriteBufferSize /\ c.ok \in BOOLEAN
    /\ \E x \in Seq(Bytes) :
          Rejoined(write_buffer, bytes, written, c.buffer, x) /\ (c.ok => x = bytes)

\* The socket took no more than the old buffer.
LEMMA CopyWithBuffer ==
  ASSUME WriteTypeOK, NEW ends \in IoVecs, NEW bytes \in Seq(Bytes), Len(bytes) = ends[Len(ends)],
         NEW written \in 0 .. Len(write_buffer)
  PROVE  KeptInOrder(CopyIovecToWriteBuffer(bytes, ends, written), bytes, written)
<1>1. write_buffer \in Seq(Bytes) /\ Len(write_buffer) <= WriteBufferSize /\ 0 \in 0 .. Len(bytes)
  BY DEF WriteTypeOK
<1> PICK kept : kept = From(write_buffer, written)
  OBVIOUS
<1> PICK c : c = CopyIovec(bytes, ends, kept, 0)
  OBVIOUS
<1>2. c = CopyIovecToWriteBuffer(bytes, ends, written)
  BY DEF CopyIovecToWriteBuffer
<1>3. kept \in Seq(Bytes)
  BY <1>1, SplitSeq
<1>4. Len(kept) <= WriteBufferSize
  BY <1>1, WriteConstantsAssumption, SplitSeq
<1>5. CopiedFrom(c, bytes, kept, 0)
  BY <1>1, <1>3, <1>4, CopyIovecCopies
<1>6. PICK m \in 0 .. Len(bytes) : c.buffer = kept \o Upto(bytes, m) /\ (c.ok => m = Len(bytes))
  <2>1. 0 + 1 = 1
    OBVIOUS
  <2> QED BY <1>5, <2>1, Zenon DEF CopiedFrom, Upto
<1> PICK x : x = Upto(bytes, m)
  OBVIOUS
<1>7. x \in Seq(Bytes) /\ (c.ok => x = bytes)
  BY <1>6, SplitSeq
<1>8. Rejoined(write_buffer, bytes, written, kept \o x, x)
  BY <1>1, <1>7, RestOfBuffer
<1>9. c.buffer \in Seq(Bytes) /\ Len(c.buffer) <= WriteBufferSize /\ c.ok \in BOOLEAN
  BY <1>5, Zenon DEF CopiedFrom
<1> QED BY <1>2, <1>6, <1>7, <1>8, <1>9, Zenon DEF KeptInOrder

\* It took the old buffer and some of the message.
LEMMA CopyWithoutBuffer ==
  ASSUME WriteTypeOK, NEW ends \in IoVecs, NEW bytes \in Seq(Bytes), Len(bytes) = ends[Len(ends)],
         NEW written, NEW skip \in 1 .. Len(bytes), written = Len(write_buffer) + skip
  PROVE  KeptInOrder(CopyIovecToWriteBuffer(bytes, ends, written), bytes, written)
<1>1. write_buffer \in Seq(Bytes)
  BY DEF WriteTypeOK
<1> PICK c : c = CopyIovec(bytes, ends, << >>, skip)
  OBVIOUS
<1>2. c = CopyIovecToWriteBuffer(bytes, ends, written)
  <2>1. ~ (written <= Len(write_buffer)) /\ written - Len(write_buffer) = skip
    BY <1>1
  <2> QED BY <2>1 DEF CopyIovecToWriteBuffer
<1>3. << >> \in Seq(Bytes) /\ Len(<< >>) <= WriteBufferSize /\ skip \in 0 .. Len(bytes)
  BY WriteConstantsAssumption
<1>4. CopiedFrom(c, bytes, << >>, skip)
  BY <1>3, CopyIovecCopies
<1>5. PICK m \in skip .. Len(bytes) :
        c.buffer = << >> \o SubSeq(bytes, skip + 1, m) /\ (c.ok => m = Len(bytes))
  BY <1>4, Zenon DEF CopiedFrom
<1> PICK rest : rest = SubSeq(bytes, skip + 1, m)
  OBVIOUS
<1> PICK x : x = Upto(bytes, m)
  OBVIOUS
<1>6. x \in Seq(Bytes) /\ (c.ok => x = bytes)
  <2>1. m \in 0 .. Len(bytes)
    OBVIOUS
  <2> QED BY <1>5, <2>1, SplitSeq
<1>7. rest \in Seq(Bytes)
  BY SubSeqProperties
<1>8. c.buffer = rest
  BY <1>5, <1>7, ConcatEmptySeq
<1>10. Upto(bytes, skip) \o rest = x
  <2>1. 1 \in 1 .. Len(bytes) + 1 /\ skip \in 1 - 1 .. Len(bytes) /\ m \in skip .. Len(bytes)
    OBVIOUS
  <2>2. SubSeq(bytes, 1, skip) \o SubSeq(bytes, skip + 1, m) = SubSeq(bytes, 1, m)
    BY <2>1, ConcatAdjacentSubSeq
  <2> QED BY <2>2 DEF Upto
<1>11. Rejoined(write_buffer, bytes, written, rest, x)
  BY <1>1, <1>7, <1>10, RestOfMessage
<1>9. c.buffer \in Seq(Bytes) /\ Len(c.buffer) <= WriteBufferSize /\ c.ok \in BOOLEAN
  BY <1>4, Zenon DEF CopiedFrom
<1> QED BY <1>2, <1>6, <1>8, <1>9, <1>11, Zenon DEF KeptInOrder

\* copy_iovec_to_write_buffer after any number of bytes written.
LEMMA CopyOfRest ==
  ASSUME WriteTypeOK, NEW ends \in IoVecs, NEW bytes \in Seq(Bytes), Len(bytes) = ends[Len(ends)],
         NEW written \in 0 .. Len(write_buffer) + Len(bytes)
  PROVE  KeptInOrder(CopyIovecToWriteBuffer(bytes, ends, written), bytes, written)
<1>1. Len(write_buffer) \in Nat /\ Len(bytes) \in Nat
  BY DEF WriteTypeOK
<1>2. CASE written <= Len(write_buffer)
  BY <1>1, <1>2, CopyWithBuffer
<1>3. CASE written > Len(write_buffer)
  <2>1. PICK skip \in 1 .. Len(bytes) : written = Len(write_buffer) + skip
    <3>1. written - Len(write_buffer) \in 1 .. Len(bytes)
      BY <1>1, <1>3
    <3> QED BY <1>1, <3>1
  <2> QED BY <2>1, CopyWithoutBuffer
<1> QED BY <1>1, <1>2, <1>3

-----------------------------------------------------------------------------
\* What was sent and what waited grow by x.
Grows(w, b, after, x) == after = (w \o b) \o x

\* The socket takes n more bytes of the buffer.
LEMMA SentPart ==
  ASSUME NEW S, NEW w \in Seq(S), NEW b \in Seq(S), NEW took \in Seq(S), NEW buffer \in Seq(S),
         NEW x \in Seq(S), Joined(took, buffer, b, x), NEW n \in 0 .. Len(buffer)
  PROVE  Grows(w, b, ((w \o took) \o Upto(buffer, n)) \o From(buffer, n), x)
<1> PICK head : head = Upto(buffer, n)
  OBVIOUS
<1> PICK tail : tail = From(buffer, n)
  OBVIOUS
<1>1. head \in Seq(S) /\ tail \in Seq(S)
  BY SplitSeq
<1>2. head \o tail = buffer
  BY SplitSeq
<1>3. ((w \o took) \o head) \o tail = (w \o took) \o (head \o tail)
  BY <1>1
<1>4. (w \o took) \o buffer = w \o (took \o buffer)
  OBVIOUS
<1>5. w \o (b \o x) = (w \o b) \o x
  OBVIOUS
<1> QED BY <1>2, <1>3, <1>4, <1>5 DEF Grows, Joined

\* It takes all there is.
LEMMA SentAll ==
  ASSUME NEW S, NEW w \in Seq(S), NEW b \in Seq(S), NEW x \in Seq(S)
  PROVE  Grows(w, b, ((w \o b) \o x) \o << >>, x)
BY DEF Grows

\* It takes nothing of the new buffer.
LEMMA SentNone ==
  ASSUME NEW S, NEW w \in Seq(S), NEW b \in Seq(S), NEW took \in Seq(S), NEW buffer \in Seq(S),
         NEW x \in Seq(S), Joined(took, buffer, b, x)
  PROVE  Grows(w, b, (w \o took) \o buffer, x)
<1>1. (w \o took) \o buffer = w \o (took \o buffer)
  OBVIOUS
<1>2. w \o (b \o x) = (w \o b) \o x
  OBVIOUS
<1> QED BY <1>1, <1>2 DEF Grows, Joined

\* What the other side gets, as two sequences of bytes.
Accepted(st, f, sent) == IsPrefix(st, sent) /\ (~ f => sent = st)

\* A call that is accepted adds its message, one that is refused a part of it.
LEMMA AcceptedInOrder ==
  ASSUME NEW S, NEW st \in Seq(S), NEW w \in Seq(S), NEW b \in Seq(S), NEW x \in Seq(S),
         NEW bytes \in Seq(S), NEW f \in BOOLEAN, NEW ok \in BOOLEAN, ok => x = bytes,
         Accepted(st, f, w \o b), NEW after, Grows(w, b, after, x)
  PROVE  Accepted(IF ok /\ ~ f THEN st \o bytes ELSE st, f \/ ~ ok, after)
<1> PICK sent : sent = w \o b
  OBVIOUS
<1>1. sent \in Seq(S) /\ IsPrefix(st, sent) /\ (~ f => sent = st) /\ after = sent \o x
  BY DEF Accepted, Grows
<1>2. CASE ok /\ ~ f
  <2>1. after = st \o bytes /\ st \o bytes \in Seq(S)
    <3>1. after = st \o bytes
      BY <1>1, <1>2, Zenon
    <3>2. st \o bytes \in Seq(S)
      OBVIOUS
    <3> QED BY <3>1, <3>2
  <2>2. IsPrefix(after, after)
    BY <2>1 DEF IsPrefix
  <2> QED BY <1>2, <2>1, <2>2 DEF Accepted
<1>3. CASE ~ (ok /\ ~ f)
  <2>1. IsPrefix(st, sent \o x)
    BY <1>1, PrefixOfMore
  <2> QED BY <1>1, <1>3, <2>1 DEF Accepted
<1> QED BY <1>2, <1>3

-----------------------------------------------------------------------------
\* buffered_socket_writev keeps the stream in order if what was sent and what
\* waits grew by the message, or by a part of it if the call fails.
LEMMA ReturnKeeps ==
  ASSUME StreamInOrder, MessageDue, NEW bytes \in Seq(Bytes), NEW ok \in BOOLEAN,
         WritevReturns(bytes, ok), closed' = closed,
         write_buffer' \in Seq(Bytes), Len(write_buffer') <= WriteBufferSize,
         wire' \in Seq(Bytes), out_edge' \in BOOLEAN, write_errors' \in 0 .. MaxWriteErrors,
         write_errors' = 0 =>
            /\ write_errors = 0
            /\ \E x \in Seq(Bytes) : /\ Grows(wire, write_buffer, wire' \o write_buffer', x)
                                     /\ ok => x = bytes
  PROVE  StreamInOrder'
<1>1. /\ write_buffer \in Seq(Bytes) /\ wire \in Seq(Bytes) /\ stream \in Seq(Bytes)
      /\ failed \in BOOLEAN /\ closed \in BOOLEAN /\ messages \in 0 .. MaxMessages
  BY DEF StreamInOrder, WriteTypeOK
<1>2. /\ messages' = messages + 1 /\ failed' = (failed \/ ~ ok)
      /\ stream' = IF ok /\ ~ failed THEN stream \o bytes ELSE stream
  BY DEF WritevReturns
<1>3. stream' \in Seq(Bytes)
  <2>1. stream \o bytes \in Seq(Bytes)
    BY <1>1
  <2> QED BY <1>1, <1>2, <2>1
<1>4. messages' \in 0 .. MaxMessages /\ failed' \in BOOLEAN /\ closed' \in BOOLEAN
  BY <1>1, <1>2, WriteConstantsAssumption DEF MessageDue
<1>5. WriteTypeOK'
  BY <1>3, <1>4 DEF WriteTypeOK
<1>6. ASSUME write_errors' = 0
      PROVE  Accepted(stream', failed', wire' \o write_buffer')
  <2>1. PICK x \in Seq(Bytes) : Grows(wire, write_buffer, wire' \o write_buffer', x) /\ (ok => x = bytes)
    BY <1>6
  <2>2. Accepted(stream, failed, wire \o write_buffer)
    BY <1>6, Zenon DEF StreamInOrder, Accepted
  <2> QED BY <1>1, <1>2, <2>1, <2>2, AcceptedInOrder
<1> QED BY <1>5, <1>6, Zenon DEF StreamInOrder, Accepted

\* send_buffer adds nothing and loses nothing unless the socket fails.
LEMMA SendBufferKeeps ==
  ASSUME WriteTypeOK, NEW took \in Seq(Bytes), NEW buffer \in Seq(Bytes), Len(buffer) <= WriteBufferSize,
         NEW n \in Counts, NEW how \in Ends, NEW due \in BOOLEAN, SendBuffer(took, buffer, n, how, due),
         NEW x \in Seq(Bytes), Joined(took, buffer, write_buffer, x)
  PROVE  /\ write_buffer' \in Seq(Bytes) /\ Len(write_buffer') <= WriteBufferSize
         /\ wire' \in Seq(Bytes) /\ out_edge' \in BOOLEAN /\ write_errors' \in 0 .. MaxWriteErrors
         /\ write_errors' = 0 =>
               /\ write_errors = 0 /\ how # "error"
               /\ Grows(wire, write_buffer, wire' \o write_buffer', x)
<1>1. /\ n \in 0 .. Len(buffer)
      /\ wire' = (wire \o took) \o Upto(buffer, n)
      /\ out_edge' = (due \/ how = "blocks")
      /\ IF how = "error"
         THEN SocketError /\ write_buffer' = Upto(buffer, Len(buffer) - n)
         ELSE UNCHANGED write_errors /\ write_buffer' = From(buffer, n)
  BY DEF SendBuffer, Counts
<1>2. write_buffer \in Seq(Bytes) /\ wire \in Seq(Bytes) /\ write_errors \in 0 .. MaxWriteErrors
  BY DEF WriteTypeOK
<1>3. write_buffer' \in Seq(Bytes) /\ Len(write_buffer') <= WriteBufferSize
  <2>1. Len(buffer) - n \in 0 .. Len(buffer)
    BY <1>1
  <2>2. Upto(buffer, Len(buffer) - n) \in Seq(Bytes) /\ Len(Upto(buffer, Len(buffer) - n)) = Len(buffer) - n
    BY <2>1, SplitSeq
  <2>3. From(buffer, n) \in Seq(Bytes) /\ Len(From(buffer, n)) = Len(buffer) - n
    BY <1>1, SplitSeq
  <2> QED BY <1>1, <2>1, <2>2, <2>3, WriteConstantsAssumption
<1>4. wire' \in Seq(Bytes)
  <2>1. Upto(buffer, n) \in Seq(Bytes)
    BY <1>1, SplitSeq
  <2>2. (wire \o took) \o Upto(buffer, n) \in Seq(Bytes)
    BY <1>2, <2>1
  <2> QED BY <1>1, <2>2
<1>5. write_errors' \in 0 .. MaxWriteErrors /\ (write_errors' = 0 => write_errors = 0 /\ how # "error")
  BY <1>1, <1>2, WriteConstantsAssumption DEF SocketError
<1>6. out_edge' \in BOOLEAN
  BY <1>1
<1>7. ASSUME write_errors' = 0 PROVE Grows(wire, write_buffer, wire' \o write_buffer', x)
  <2>1. write_buffer' = From(buffer, n) /\ wire' = (wire \o took) \o Upto(buffer, n)
    BY <1>1, <1>5, <1>7
  <2>2. Grows(wire, write_buffer, ((wire \o took) \o Upto(buffer, n)) \o From(buffer, n), x)
    BY <1>1, <1>2, SentPart
  <2> QED BY <2>1, <2>2, Zenon
<1> QED BY <1>3, <1>4, <1>5, <1>6, <1>7

\* The ways out of buffered_socket_writev, one by one, and write_function.
LEMMA WritevAllKeeps ==
  ASSUME StreamInOrder, NEW bytes \in Seq(Bytes), WritevAll(bytes)
  PROVE  StreamInOrder'
<1>1. write_buffer \in Seq(Bytes) /\ wire \in Seq(Bytes) /\ out_edge \in BOOLEAN /\ write_errors \in 0 .. MaxWriteErrors
  BY DEF StreamInOrder, WriteTypeOK
<1>2. /\ MessageDue /\ wire' = (wire \o write_buffer) \o bytes /\ write_buffer' = << >>
      /\ WritevReturns(bytes, TRUE) /\ UNCHANGED <<out_edge, write_errors, closed>>
  BY DEF WritevAll
<1>3. Grows(wire, write_buffer, wire' \o write_buffer', bytes)
  BY <1>1, <1>2, SentAll, Zenon
<1>4. wire' \in Seq(Bytes)
  <2>1. (wire \o write_buffer) \o bytes \in Seq(Bytes)
    BY <1>1
  <2> QED BY <1>2, <2>1
<1>5. write_buffer' \in Seq(Bytes) /\ Len(write_buffer') <= WriteBufferSize
  BY <1>2, WriteConstantsAssumption
<1> QED BY <1>1, <1>2, <1>3, <1>4, <1>5, ReturnKeeps

\* The socket fails: nothing moves.
LEMMA WritevErrorKeeps ==
  ASSUME StreamInOrder, NEW bytes \in Seq(Bytes), WritevError(bytes)
  PROVE  StreamInOrder'
<1>1. WriteTypeOK
  BY DEF StreamInOrder
<1>2. /\ MessageDue /\ write_errors < MaxWriteErrors /\ write_errors' = write_errors + 1
      /\ WritevReturns(bytes, FALSE) /\ UNCHANGED <<write_buffer, wire, out_edge, closed>>
  BY DEF WritevError, SocketError
<1>3. write_errors' \in 0 .. MaxWriteErrors /\ write_errors' # 0
  BY <1>1, <1>2, WriteConstantsAssumption DEF WriteTypeOK
<1>4. /\ write_buffer' \in Seq(Bytes) /\ Len(write_buffer') <= WriteBufferSize
      /\ wire' \in Seq(Bytes) /\ out_edge' \in BOOLEAN
  BY <1>1, <1>2 DEF WriteTypeOK
<1> QED BY <1>2, <1>3, <1>4, ReturnKeeps

\* It blocks: the message is kept, as far as it fits.
LEMMA WritevBlocksKeeps ==
  ASSUME StreamInOrder, NEW ends \in IoVecs, NEW bytes \in Seq(Bytes), Len(bytes) = ends[Len(ends)],
         WritevBlocks(bytes, ends)
  PROVE  StreamInOrder'
<1> PICK c : c = CopyIovecToWriteBuffer(bytes, ends, 0)
  OBVIOUS
<1>1. /\ MessageDue /\ write_buffer' = c.buffer /\ out_edge' = TRUE
      /\ WritevReturns(bytes, c.ok) /\ UNCHANGED <<wire, write_errors, closed>>
  BY DEF WritevBlocks
<1>2. write_buffer \in Seq(Bytes) /\ wire \in Seq(Bytes) /\ write_errors \in 0 .. MaxWriteErrors
  BY DEF StreamInOrder, WriteTypeOK
<1>3. KeptInOrder(c, bytes, 0)
  <2>1. 0 \in 0 .. Len(write_buffer) + Len(bytes)
    BY <1>2
  <2> QED BY <2>1, CopyOfRest DEF StreamInOrder
<1>4. c.buffer \in Seq(Bytes) /\ Len(c.buffer) <= WriteBufferSize /\ c.ok \in BOOLEAN
  BY <1>3, Zenon DEF KeptInOrder
<1>5. PICK x \in Seq(Bytes) : Rejoined(write_buffer, bytes, 0, c.buffer, x) /\ (c.ok => x = bytes)
  BY <1>3, Zenon DEF KeptInOrder
<1>6. Upto(write_buffer \o bytes, 0) = << >>
  BY SubSeqEmpty DEF Upto
<1>7. Joined(<< >>, c.buffer, write_buffer, x)
  BY <1>5, <1>6, Zenon DEF Rejoined
<1>8. Grows(wire, write_buffer, (wire \o << >>) \o c.buffer, x)
  <2>1. << >> \in Seq(Bytes)
    OBVIOUS
  <2> QED BY <1>2, <1>4, <1>5, <1>7, <2>1, SentNone
<1>9. wire \o << >> = wire
  BY <1>2
<1>10. Grows(wire, write_buffer, wire' \o write_buffer', x)
  BY <1>1, <1>8, <1>9, Zenon
<1> QED BY <1>1, <1>2, <1>4, <1>5, <1>10, ReturnKeeps

\* It takes a part: the rest is buffered and sent as far as possible.
LEMMA WritevPartKeeps ==
  ASSUME StreamInOrder, NEW ends \in IoVecs, NEW bytes \in Seq(Bytes), Len(bytes) = ends[Len(ends)],
         NEW written \in 1 .. Len(write_buffer \o bytes), NEW n \in Counts, NEW how \in Ends,
         WritevPart(bytes, ends, written, n, how)
  PROVE  StreamInOrder'
<1> PICK c : c = CopyIovecToWriteBuffer(bytes, ends, written)
  OBVIOUS
<1> PICK took : took = Upto(write_buffer \o bytes, written)
  OBVIOUS
<1>1. /\ MessageDue /\ c.ok /\ SendBuffer(took, c.buffer, n, how, out_edge)
      /\ WritevReturns(bytes, how # "error") /\ UNCHANGED closed
  BY DEF WritevPart
<1>2. write_buffer \in Seq(Bytes) /\ wire \in Seq(Bytes) /\ out_edge \in BOOLEAN /\ WriteTypeOK
  BY DEF StreamInOrder, WriteTypeOK
<1>3. written \in 0 .. Len(write_buffer) + Len(bytes) /\ written \in 0 .. Len(write_buffer \o bytes)
  BY <1>2, ConcatProperties
<1>4. KeptInOrder(c, bytes, written)
  BY <1>2, <1>3, CopyOfRest
<1>5. c.buffer \in Seq(Bytes) /\ Len(c.buffer) <= WriteBufferSize /\ c.ok \in BOOLEAN
  BY <1>4, Zenon DEF KeptInOrder
<1>6. PICK x \in Seq(Bytes) : Rejoined(write_buffer, bytes, written, c.buffer, x) /\ (c.ok => x = bytes)
  BY <1>4, Zenon DEF KeptInOrder
<1>7. Joined(took, c.buffer, write_buffer, x)
  BY <1>6, Zenon DEF Rejoined
<1>8. took \in Seq(Bytes)
  <2>1. write_buffer \o bytes \in Seq(Bytes)
    BY <1>2
  <2> QED BY <1>3, <2>1, SplitSeq
<1>9. /\ write_buffer' \in Seq(Bytes) /\ Len(write_buffer') <= WriteBufferSize
      /\ wire' \in Seq(Bytes) /\ out_edge' \in BOOLEAN /\ write_errors' \in 0 .. MaxWriteErrors
      /\ write_errors' = 0 => /\ write_errors = 0 /\ how # "error"
                              /\ Grows(wire, write_buffer, wire' \o write_buffer', x)
  BY <1>1, <1>2, <1>5, <1>6, <1>7, <1>8, SendBufferKeeps
<1> QED BY <1>1, <1>6, <1>9, ReturnKeeps

\* It takes a part and the rest does not fit.
LEMMA WritevPartFullKeeps ==
  ASSUME StreamInOrder, NEW ends \in IoVecs, NEW bytes \in Seq(Bytes), Len(bytes) = ends[Len(ends)],
         NEW written \in 1 .. Len(write_buffer \o bytes), WritevPartFull(bytes, ends, written)
  PROVE  StreamInOrder'
<1> PICK c : c = CopyIovecToWriteBuffer(bytes, ends, written)
  OBVIOUS
<1> PICK took : took = Upto(write_buffer \o bytes, written)
  OBVIOUS
<1>1. /\ MessageDue /\ wire' = wire \o took /\ write_buffer' = c.buffer
      /\ WritevReturns(bytes, FALSE) /\ UNCHANGED <<out_edge, write_errors, closed>>
  BY DEF WritevPartFull
<1>2. /\ write_buffer \in Seq(Bytes) /\ wire \in Seq(Bytes) /\ out_edge \in BOOLEAN
      /\ write_errors \in 0 .. MaxWriteErrors /\ WriteTypeOK
  BY DEF StreamInOrder, WriteTypeOK
<1>3. written \in 0 .. Len(write_buffer) + Len(bytes) /\ written \in 0 .. Len(write_buffer \o bytes)
  BY <1>2, ConcatProperties
<1>4. KeptInOrder(c, bytes, written)
  BY <1>2, <1>3, CopyOfRest
<1>5. c.buffer \in Seq(Bytes) /\ Len(c.buffer) <= WriteBufferSize /\ c.ok \in BOOLEAN
  BY <1>4, Zenon DEF KeptInOrder
<1>6. PICK x \in Seq(Bytes) : Rejoined(write_buffer, bytes, written, c.buffer, x) /\ (c.ok => x = bytes)
  BY <1>4, Zenon DEF KeptInOrder
<1>7. Joined(took, c.buffer, write_buffer, x)
  BY <1>6, Zenon DEF Rejoined
<1>8. took \in Seq(Bytes)
  <2>1. write_buffer \o bytes \in Seq(Bytes)
    BY <1>2
  <2> QED BY <1>3, <2>1, SplitSeq
<1>9. Grows(wire, write_buffer, wire' \o write_buffer', x)
  <2>1. Grows(wire, write_buffer, (wire \o took) \o c.buffer, x)
    BY <1>2, <1>5, <1>6, <1>7, <1>8, SentNone
  <2> QED BY <1>1, <2>1, Zenon
<1>10. wire' \in Seq(Bytes)
  <2>1. wire \o took \in Seq(Bytes)
    BY <1>2, <1>8
  <2> QED BY <1>1, <2>1
<1> QED BY <1>1, <1>2, <1>5, <1>6, <1>9, <1>10, ReturnKeeps

\* The socket is writable again.
LEMMA WriteFunctionKeeps ==
  ASSUME StreamInOrder, NEW n \in Counts, NEW how \in Ends, WriteFunction(n, how)
  PROVE  StreamInOrder'
<1>1. /\ SendBuffer(<< >>, write_buffer, n, how, FALSE) /\ closed' = (how = "error")
      /\ UNCHANGED <<messages, stream, failed>>
  BY DEF WriteFunction
<1>2. /\ write_buffer \in Seq(Bytes) /\ wire \in Seq(Bytes) /\ WriteTypeOK
      /\ Len(write_buffer) <= WriteBufferSize
  BY DEF StreamInOrder, WriteTypeOK
<1>3. << >> \in Seq(Bytes)
  OBVIOUS
<1>4. Joined(<< >>, write_buffer, write_buffer, << >>)
  BY <1>2 DEF Joined
<1>5. /\ write_buffer' \in Seq(Bytes) /\ Len(write_buffer') <= WriteBufferSize
      /\ wire' \in Seq(Bytes) /\ out_edge' \in BOOLEAN /\ write_errors' \in 0 .. MaxWriteErrors
      /\ write_errors' = 0 => /\ write_errors = 0 /\ how # "error"
                              /\ Grows(wire, write_buffer, wire' \o write_buffer', << >>)
  BY <1>1, <1>2, <1>3, <1>4, SendBufferKeeps
<1>6. WriteTypeOK'
  BY <1>1, <1>2, <1>5 DEF WriteTypeOK
<1>7. ASSUME write_errors' = 0 PROVE wire' \o write_buffer' = wire \o write_buffer
  <2>1. (wire \o write_buffer) \o << >> = wire \o write_buffer
    BY <1>2
  <2> QED BY <1>5, <1>7, <2>1, Zenon DEF Grows
<1> QED BY <1>1, <1>5, <1>6, <1>7, Zenon DEF StreamInOrder

\* Every step of the write side keeps the stream in order.
LEMMA StreamStep ==
  ASSUME StreamInOrder, [WriteNext]_writeVars
  PROVE  StreamInOrder'
<1>1. ASSUME NEW ends \in IoVecs, NEW bytes, bytes = Message(messages + 1, ends),
             MessageDue
      PROVE  bytes \in Seq(Bytes) /\ Len(bytes) = ends[Len(ends)]
  <2>1. messages + 1 \in 1 .. MaxMessages
    BY <1>1, WriteConstantsAssumption DEF MessageDue, StreamInOrder, WriteTypeOK
  <2> QED BY <1>1, <2>1, MessageBytes
<1>2. ASSUME NEW ends \in IoVecs, NEW bytes, bytes = Message(messages + 1, ends),
             \/ WritevAll(bytes)
             \/ WritevError(bytes)
             \/ WritevBlocks(bytes, ends)
             \/ \E written \in 1 .. Len(write_buffer \o bytes) :
                   \/ \E n \in Counts, how \in Ends : WritevPart(bytes, ends, written, n, how)
                   \/ WritevPartFull(bytes, ends, written)
      PROVE  StreamInOrder'
  <2>1. MessageDue
    BY <1>2, Zenon DEF WritevAll, WritevError, WritevBlocks, WritevPart, WritevPartFull
  <2>2. bytes \in Seq(Bytes) /\ Len(bytes) = ends[Len(ends)]
    BY <1>1, <1>2, <2>1
  <2>3. CASE WritevAll(bytes)
    BY <2>2, <2>3, WritevAllKeeps
  <2>4. CASE WritevError(bytes)
    BY <2>2, <2>4, WritevErrorKeeps
  <2>5. CASE WritevBlocks(bytes, ends)
    BY <2>2, <2>5, WritevBlocksKeeps
  <2>6. ASSUME NEW written \in 1 .. Len(write_buffer \o bytes), NEW n \in Counts, NEW how \in Ends,
               WritevPart(bytes, ends, written, n, how)
        PROVE  StreamInOrder'
    BY <2>2, <2>6, WritevPartKeeps
  <2>7. ASSUME NEW written \in 1 .. Len(write_buffer \o bytes), WritevPartFull(bytes, ends, written)
        PROVE  StreamInOrder'
    BY <2>2, <2>7, WritevPartFullKeeps
  <2> QED BY <1>2, <2>3, <2>4, <2>5, <2>6, <2>7, Zenon
<1>3. ASSUME NEW n \in Counts, NEW how \in Ends, WriteFunction(n, how)
      PROVE  StreamInOrder'
  BY <1>3, WriteFunctionKeeps
<1>4. CASE CloseSocket
  BY <1>4, Zenon DEF CloseSocket, StreamInOrder, WriteTypeOK
<1>5. CASE UNCHANGED writeVars
  BY <1>5, Zenon DEF writeVars, StreamInOrder, WriteTypeOK
<1> QED BY <1>2, <1>3, <1>4, <1>5, Zenon DEF WriteNext

\* The other side gets the messages whole and in order, however the socket
\* splits what buffered_socket_writev and send_buffer give it.
THEOREM StreamStaysInOrder == WriteSpec => []StreamInOrder
<1>1. WriteInit => StreamInOrder
  <2> SUFFICES ASSUME WriteInit PROVE StreamInOrder
    OBVIOUS
  <2>1. write_buffer = << >> /\ wire = << >> /\ stream = << >>
    BY DEF WriteInit
  <2>2. WriteTypeOK
    <3>1. << >> \in Seq(Bytes) /\ Len(<< >>) <= WriteBufferSize /\ 0 \in 0 .. MaxMessages
          /\ 0 \in 0 .. MaxWriteErrors
      BY WriteConstantsAssumption
    <3> QED BY <3>1, Zenon DEF WriteInit, WriteTypeOK
  <2>3. << >> \o << >> = << >>
    OBVIOUS
  <2>4. IsPrefix(<< >>, << >>)
    BY DEF IsPrefix
  <2> QED BY <2>1, <2>2, <2>3, <2>4, Zenon DEF StreamInOrder
<1>2. StreamInOrder /\ [WriteNext]_writeVars => StreamInOrder'
  BY StreamStep
<1> QED BY <1>1, <1>2, PTL DEF WriteSpec

\* A socket that takes all of the buffer leaves nothing that waits, one that
\* blocks reports when it is writable again.
LEMMA SendBufferWakesUp ==
  ASSUME NEW took, NEW buffer \in Seq(Bytes), NEW n, NEW how \in Ends, NEW due,
         SendBuffer(took, buffer, n, how, due), how # "error", write_buffer' # << >>
  PROVE  out_edge' = TRUE
<1>1. how = "sent" \/ how = "blocks"
  BY DEF Ends
<1>2. out_edge' = (due \/ how = "blocks") /\ write_buffer' = From(buffer, n) /\ (how = "sent") = (n = Len(buffer))
  BY DEF SendBuffer
<1>3. how # "sent"
  <2> SUFFICES ASSUME how = "sent" PROVE FALSE
    OBVIOUS
  <2>1. n = Len(buffer) /\ n \in 0 .. Len(buffer)
    BY <1>2
  <2> QED BY <1>2, <2>1, SplitSeq
<1> QED BY <1>1, <1>2, <1>3

\* Every step leaves an event due for what waits, or a failure.
LEMMA WakeUpStep ==
  ASSUME StreamInOrder, WaitingBytesWakeUp, [WriteNext]_writeVars
  PROVE  WaitingBytesWakeUp'
<1>1. WriteTypeOK
  BY Zenon DEF StreamInOrder
<1>2. ASSUME NEW bytes, WritevAll(bytes) PROVE WaitingBytesWakeUp'
  BY <1>2 DEF WritevAll, WaitingBytesWakeUp
<1>3. ASSUME NEW bytes, WritevError(bytes) PROVE WaitingBytesWakeUp'
  BY <1>3 DEF WritevError, WritevReturns, WaitingBytesWakeUp
<1>4. ASSUME NEW bytes, NEW ends, WritevBlocks(bytes, ends) PROVE WaitingBytesWakeUp'
  BY <1>4 DEF WritevBlocks, WaitingBytesWakeUp
<1>5. ASSUME NEW ends \in IoVecs, NEW bytes, bytes = Message(messages + 1, ends),
             NEW written \in 1 .. Len(write_buffer \o bytes), NEW n \in Counts, NEW how \in Ends,
             WritevPart(bytes, ends, written, n, how)
      PROVE  WaitingBytesWakeUp'
  <2> PICK c : c = CopyIovecToWriteBuffer(bytes, ends, written)
    OBVIOUS
  <2>1. /\ MessageDue /\ SendBuffer(Upto(write_buffer \o bytes, written), c.buffer, n, how, out_edge)
        /\ WritevReturns(bytes, how # "error")
    BY <1>5, Zenon DEF WritevPart
  <2>2. bytes \in Seq(Bytes) /\ Len(bytes) = ends[Len(ends)]
    <3>1. messages + 1 \in 1 .. MaxMessages
      BY <1>1, <2>1, WriteConstantsAssumption DEF MessageDue, WriteTypeOK
    <3> QED BY <1>5, <3>1, MessageBytes
  <2>3. c.buffer \in Seq(Bytes)
    <3>1. written \in 0 .. Len(write_buffer) + Len(bytes)
      BY <1>1, <2>2, ConcatProperties DEF WriteTypeOK
    <3> QED BY <1>1, <2>2, <3>1, CopyOfRest, Zenon DEF KeptInOrder
  <2>4. CASE how = "error"
    BY <2>1, <2>4, Zenon DEF WritevReturns, WaitingBytesWakeUp
  <2>5. CASE how # "error"
    <3>1. write_buffer' # << >> => out_edge' = TRUE
      BY <2>1, <2>3, <2>5, SendBufferWakesUp
    <3> QED BY <3>1, Zenon DEF WaitingBytesWakeUp
  <2> QED BY <2>4, <2>5
<1>6. ASSUME NEW bytes, NEW ends, NEW written, WritevPartFull(bytes, ends, written)
      PROVE  WaitingBytesWakeUp'
  BY <1>6 DEF WritevPartFull, WritevReturns, WaitingBytesWakeUp
<1>7. ASSUME NEW n \in Counts, NEW how \in Ends, WriteFunction(n, how) PROVE WaitingBytesWakeUp'
  <2>1. SendBuffer(<< >>, write_buffer, n, how, FALSE) /\ closed' = (how = "error")
    BY <1>7, Zenon DEF WriteFunction
  <2>2. write_buffer \in Seq(Bytes)
    BY <1>1 DEF WriteTypeOK
  <2>3. CASE how = "error"
    BY <2>1, <2>3 DEF WaitingBytesWakeUp
  <2>4. CASE how # "error"
    <3>1. write_buffer' # << >> => out_edge' = TRUE
      BY <2>1, <2>2, <2>4, SendBufferWakesUp
    <3> QED BY <3>1, Zenon DEF WaitingBytesWakeUp
  <2> QED BY <2>3, <2>4
<1>8. CASE CloseSocket
  BY <1>8, Zenon DEF CloseSocket, WaitingBytesWakeUp
<1>9. CASE UNCHANGED writeVars
  BY <1>9, Zenon DEF writeVars, WaitingBytesWakeUp
<1>10. ASSUME NEW ends \in IoVecs, NEW bytes, bytes = Message(messages + 1, ends),
              \/ WritevAll(bytes)
              \/ WritevError(bytes)
              \/ WritevBlocks(bytes, ends)
              \/ \E written \in 1 .. Len(write_buffer \o bytes) :
                    \/ \E n \in Counts, how \in Ends : WritevPart(bytes, ends, written, n, how)
                    \/ WritevPartFull(bytes, ends, written)
       PROVE  WaitingBytesWakeUp'
  BY <1>2, <1>3, <1>4, <1>5, <1>6, <1>10, Zenon
<1> QED BY <1>7, <1>8, <1>9, <1>10, Zenon DEF WriteNext

\* Bytes that wait are sent without another message, as long as no call failed.
THEOREM WaitingWakeUp == WriteSpec => []WaitingBytesWakeUp
<1>1. WriteInit => WaitingBytesWakeUp
  BY DEF WriteInit, WaitingBytesWakeUp
<1>2. StreamInOrder /\ WaitingBytesWakeUp /\ [WriteNext]_writeVars => WaitingBytesWakeUp'
  BY WakeUpStep
<1> QED BY <1>1, <1>2, StreamStaysInOrder, PTL DEF WriteSpec
=============================================================================
