----------------------------- MODULE Reassembly -----------------------------
(***************************************************************************)
(* How compression.c gathers the fragments of a compressed message         *)
(* (reassemble) before it inflates them all at once.                       *)
(*                                                                         *)
(* The z_stream that will inflate the message also describes the buffer:   *)
(* next_in is its start, whose first four bytes hold its size, avail_in    *)
(* the bytes left in it.  avail_in = 0 stands for "no buffer".  The buffer *)
(* is doubled at most once for each fragment.                              *)
(***************************************************************************)
EXTENDS Integers

CONSTANTS
    Lengths,  \* lengths of fragments
    MaxSize   \* bound: the bytes of a message and of the buffer, below 2^32

ASSUME ConstantsAssumption ==
    /\ Lengths \subseteq Nat
    /\ MaxSize \in Nat

VARIABLES
    state,     \* "gathering", "complete", "overrun", "no_buffer" or "closed"
    size,      \* the size of the buffer
    avail_in,
    total,     \* history: the bytes of the message so far
    pace       \* history: "steady" if no fragment was more than 3 bytes longer than all
               \* before it, else "jumps"

vars == <<state, size, avail_in, total, pace>>

\* The four bytes at the start of the buffer that hold its size.
SizeBytes == 4

Init ==
    /\ state = "gathering"
    /\ size = 0
    /\ avail_in = 0
    /\ total = 0
    /\ pace = "steady"

-----------------------------------------------------------------------------
\* The buffer for a fragment of len bytes: a new one if there is none.
Buffer(len) ==
    IF avail_in = 0
    THEN [size |-> 3 * len + SizeBytes, avail |-> 3 * len]
    ELSE [size |-> size, avail |-> avail_in]

\* Mutant of Grown: the buffer is kept as long as one byte is free.
GrownTooLate(b, len) ==
    IF b.avail = 0 THEN [size |-> 2 * b.size, avail |-> b.avail + b.size] ELSE b

Grown(b, len) ==
    IF b.avail <= len + 4 THEN [size |-> 2 * b.size, avail |-> b.avail + b.size] ELSE b

\* reassemble of a fragment of len > 0 bytes; after is the state that follows
\* if the fragment fits.
Reassemble(len, after) ==
    LET b == Grown(Buffer(len), len)
    IN  /\ b.size <= MaxSize /\ total + len <= MaxSize
        /\ total' = total + len
        /\ pace' = IF total > 0 /\ len > total + 3 THEN "jumps" ELSE pace
        /\ size' = b.size
        /\ IF len <= b.avail
           THEN avail_in' = b.avail - len /\ state' = after
           ELSE avail_in' = b.avail /\ state' = "overrun"

Fragment(len) ==
    /\ state = "gathering"
    /\ IF len = 0 THEN UNCHANGED vars ELSE Reassemble(len, "gathering")

\* With the last fragment the message is complete, unless no fragment had
\* any data: then next_in is no buffer whose size could be read.
LastFragment(len) ==
    /\ state = "gathering"
    /\ IF len = 0
       THEN /\ state' = IF total > 0 THEN "complete" ELSE "no_buffer"
            /\ UNCHANGED <<size, avail_in, total, pace>>
       ELSE Reassemble(len, "complete")

\* sumLen of text_frame_received_comp
SumLen == size - avail_in - SizeBytes

\* private_decompress takes SumLen bytes, all of them or else the connection
\* is closed: avail_in is 0 again.
Decompress ==
    /\ state = "complete"
    /\ \/ /\ state' = "gathering"
          /\ avail_in' = 0
          /\ total' = 0
          /\ pace' = "steady"
          /\ size' = size
       \/ /\ state' = "closed"
          /\ UNCHANGED <<size, avail_in, total, pace>>

\* No memory for the buffer, or the connection ends otherwise.
Fail ==
    /\ state = "gathering"
    /\ state' = "closed"
    /\ UNCHANGED <<size, avail_in, total, pace>>

Next ==
    \/ \E len \in Lengths : Fragment(len) \/ LastFragment(len)
    \/ Decompress
    \/ Fail

Spec == Init /\ [][Next]_vars

-----------------------------------------------------------------------------
TypeOK ==
    /\ state \in {"gathering", "complete", "overrun", "no_buffer", "closed"}
    /\ size \in Nat
    /\ avail_in \in Nat
    /\ total \in Nat
    /\ pace \in {"steady", "jumps"}

\* As long as each fragment of a message is at most three bytes longer than
\* all before it together, doubling once is enough: nothing is written past
\* the end of the buffer and what is inflated is the whole message.
SteadyFragmentsComplete ==
    pace = "steady" =>
        /\ state # "overrun"
        /\ state = "complete" => SumLen = total

\* Why: then the buffer never becomes full either, so that avail_in = 0 still
\* says that there is no buffer.
BufferInv ==
    /\ TypeOK
    /\ SteadyFragmentsComplete
    /\ pace = "steady" /\ state \in {"gathering", "complete"} =>
          IF total = 0 THEN avail_in = 0 ELSE avail_in > 0 /\ SumLen = total
=============================================================================
