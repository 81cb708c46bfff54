------------------------------- MODULE Octets -------------------------------
(***************************************************************************)
(* What the handshake and the frames of a websocket do to single octets:   *)
(* the blocks sha1.c hashes, the characters base64.c writes, and the       *)
(* octets unmask_payload takes from the mask.  What SHA-1 computes from a  *)
(* block is left out: a hash is the sequence of the blocks it comes from.  *)
(*                                                                         *)
(* A message is known by its length; its k-th octet is Octet("message",k). *)
(***************************************************************************)
EXTENDS Integers, Sequences

CONSTANTS
    BlockSize,      \* octets of a block: 64
    WordOctets,     \* octets of Length_Low and Length_High: 4
    Radix,          \* values of an octet of a length: 256
    Inputs,         \* lengths of the pieces SHA1Input is given
    MaxMessage,     \* bound: the length of a message
    InOctets,       \* octets that are encoded
    MaxOctets,      \* bound: how many are
    FastWords,      \* sizeof(uint_fast32_t) on some platform
    MaxPayload      \* bound: the length of a payload

\* The values of Length_Low
Word == Radix ^ WordOctets

ConstantsAssumption ==
    /\ BlockSize \in Nat /\ WordOctets \in Nat
    /\ BlockSize > 2 * WordOctets
    /\ Radix \in Nat \ {0, 1}
    /\ Word \in Nat \ {0} /\ Word % 8 = 0
    /\ Inputs \subseteq Nat
    /\ InOctets \subseteq 0 .. 255
    /\ FastWords \subseteq {4, 8}

VARIABLES
    context,    \* SHA1Context
    message,    \* the length of the message so far
    digest,     \* what SHA1Result has returned: its code and the hash
    in,         \* the octets b64_encode_buffer is given
    frame       \* a payload: its length and mask, and the alignment of its first octet

vars == <<context, message, digest, in, frame>>

Octet(kind, n) == <<kind, n>>
Value(n) == Octet("value", n)

\* SHA1Reset
Context == [Length_Low |-> 0, Length_High |-> 0, Message_Block |-> <<>>,
            Intermediate_Hash |-> <<>>, Computed |-> FALSE, Corrupted |-> FALSE]

Init ==
    /\ context = Context
    /\ message = 0
    /\ digest = [code |-> "none", hash |-> <<>>]
    /\ in = <<>>
    /\ frame = [word |-> 0, offset |-> 0, length |-> 0]

-----------------------------------------------------------------------------
(* sha1.c *)

\* The block is complete: it becomes part of the hash.
ProcessMessageBlock(c) ==
    [c EXCEPT !.Intermediate_Hash = Append(@, c.Message_Block), !.Message_Block = <<>>]

\* One octet of SHA1Input.  The length is counted in bits.
InputOctet(c, octet) ==
    IF c.Corrupted THEN c
    ELSE LET low == (c.Length_Low + 8) % Word
             high == IF low = 0 THEN (c.Length_High + 1) % Word ELSE c.Length_High
             d == [c EXCEPT !.Message_Block = Append(@, octet),
                            !.Length_Low = low, !.Length_High = high,
                            !.Corrupted = low = 0 /\ high = 0]
         IN  IF Len(d.Message_Block) = BlockSize THEN ProcessMessageBlock(d) ELSE d

\* The loop of SHA1Input over octets that follow the first n of the message.
Taken(c, n, length) ==
    LET after[k \in 0 .. length] ==
            IF k = 0 THEN c ELSE InputOctet(after[k - 1], Octet("message", n + k))
    IN  after[length]

SHA1Input(length) ==
    /\ message + length <= MaxMessage
    /\ IF context.Computed
       THEN context' = [context EXCEPT !.Corrupted = TRUE] /\ UNCHANGED message
       ELSE /\ context' = Taken(context, message, length)
            /\ message' = message + length
    /\ UNCHANGED <<digest, in, frame>>

\* The octets of a word, the highest first.
OctetsOf(word) ==
    [k \in 1 .. WordOctets |-> Value((word \div Radix ^ (WordOctets - k)) % Radix)]

Filled(c, upto) ==
    [c EXCEPT !.Message_Block = @ \o [k \in 1 .. upto - Len(@) |-> Value(0)]]

\* When the block has no room for the length, it is filled up and processed,
\* and the length comes at the end of another.
SHA1PadMessage(c) ==
    LET padding == BlockSize - 2 * WordOctets
        begun == [c EXCEPT !.Message_Block = Append(@, Value(128))]
        room == IF Len(c.Message_Block) > padding - 1
                THEN Filled(ProcessMessageBlock(Filled(begun, BlockSize)), padding)
                ELSE Filled(begun, padding)
    IN  ProcessMessageBlock([room EXCEPT !.Message_Block =
                                SubSeq(@, 1, padding) \o OctetsOf(c.Length_High) \o OctetsOf(c.Length_Low)])

SHA1Result ==
    /\ message > 0
    /\ IF context.Corrupted
       THEN digest' = [digest EXCEPT !.code = "error"] /\ UNCHANGED context
       ELSE /\ context' = IF context.Computed THEN context
                          ELSE [SHA1PadMessage(context) EXCEPT !.Length_Low = 0, !.Length_High = 0,
                                                               !.Computed = TRUE]
            /\ digest' = [code |-> "success", hash |-> context'.Intermediate_Hash]
    /\ UNCHANGED <<message, in, frame>>

-----------------------------------------------------------------------------
(* base64.c *)

\* The characters are the indices of encode_table, and 64 is '='.
Quad(triple, len) ==
    <<triple[1] \div 4,
      (triple[1] % 4) * 16 + triple[2] \div 16,
      IF len > 1 THEN (triple[2] % 16) * 4 + triple[3] \div 64 ELSE 64,
      IF len > 2 THEN triple[3] % 64 ELSE 64>>

\* b64_encode_buffer
Encoded(octets) ==
    LET Octets3(q) == [k \in 1 .. 3 |-> IF 3 * q + k <= Len(octets) THEN octets[3 * q + k] ELSE 0]
        Left(q) == Len(octets) - 3 * q
    IN  [c \in 1 .. 4 * ((Len(octets) + 2) \div 3) |->
            LET q == (c - 1) \div 4 IN Quad(Octets3(q), Left(q))[1 + ((c - 1) % 4)]]

\* b64_encoded_buffer_length
EncodedLength(n) == 4 * ((n + 2) \div 3)

Encode ==
    /\ message = 0 /\ frame.length = 0
    /\ Len(in) < MaxOctets
    /\ \E octet \in InOctets : in' = Append(in, octet)
    /\ UNCHANGED <<context, message, digest, frame>>

-----------------------------------------------------------------------------
(* unmask_payload *)

\* For each octet of a payload the octets of the mask it is combined with, when
\* the payload starts offset octets after a multiple of the word size:
\* single octets up to the first whole word, words, and the octets left over.
MaskOctets(word, offset, length) ==
    LET pre_length == (word - offset) % word
        main_length == (length - pre_length) \div word
        post_length == length - pre_length - main_length * word
        aligned_mask == [i \in 0 .. word - 1 |-> (i + pre_length) % 4]
        Single(i) == IF i < pre_length \/ i >= length - post_length THEN {i % 4} ELSE {}
        InWord(i) == IF i - pre_length \in 0 .. main_length * word - 1
                     THEN {aligned_mask[(i - pre_length) % word]} ELSE {}
    IN  [i \in 0 .. length - 1 |-> IF length < word THEN {i % 4} ELSE Single(i) \cup InWord(i)]

\* A frame has arrived in the read buffer.
Unmask ==
    /\ message = 0 /\ in = <<>>
    /\ \E word \in FastWords, length \in 1 .. MaxPayload :
       \E offset \in 0 .. word - 1 :
          frame' = [word |-> word, offset |-> offset, length |-> length]
    /\ UNCHANGED <<context, message, digest, in>>

Next ==
    \/ /\ in = <<>> /\ frame.length = 0
       /\ \/ \E length \in Inputs : SHA1Input(length)
          \/ SHA1Result
    \/ Encode
    \/ Unmask

Spec == Init /\ [][Next]_vars

-----------------------------------------------------------------------------
\* The padded message of RFC 3174, cut into blocks.
PaddedBlocks(length) ==
    LET ends == 2 * WordOctets
        zeros == CHOOSE z \in 0 .. BlockSize - 1 : (length + 1 + z + ends) % BlockSize = 0
        bits == length * 8
        padded == [k \in 1 .. length |-> Octet("message", k)] \o <<Value(128)>>
                    \o [k \in 1 .. zeros |-> Value(0)]
                    \o OctetsOf(bits \div Word) \o OctetsOf(bits % Word)
    IN  [b \in 1 .. Len(padded) \div BlockSize |->
            SubSeq(padded, (b - 1) * BlockSize + 1, b * BlockSize)]

\* The hash is that of the padded message, in whatever pieces it came, and
\* there is none only if the length is beyond its counter or more came after
\* the end; asked again, the hash is the same (sha1.c).
HashedAsPadded ==
    /\ digest.code = "success" => digest.hash = PaddedBlocks(message)
    /\ digest.code = "error" => context.Computed \/ message * 8 >= Word * Word

\* What the bits of an octet count, the lowest first.
BitValues == <<1, 2, 4, 8, 16, 32, 64, 128>>

\* The characters hold the bits of the octets one after the other, and are as
\* many as b64_encoded_buffer_length says.
EncodedBitsKept ==
    LET out == Encoded(in)
        Bit(n, width, k) == (n \div BitValues[width - k]) % 2
    IN  /\ Len(out) = EncodedLength(Len(in))
        /\ \A k \in 0 .. 8 * Len(in) - 1 :
              /\ out[k \div 6 + 1] # 64
              /\ Bit(in[k \div 8 + 1], 8, k % 8) = Bit(out[k \div 6 + 1], 6, k % 6)
        /\ \A c \in DOMAIN out : out[c] = 64 <=> 6 * (c - 1) >= 8 * Len(in)

\* Every octet is combined once with its own octet of the mask, however the
\* payload lies in memory.
UnmaskedOnce ==
    \A i \in 0 .. frame.length - 1 :
        MaskOctets(frame.word, frame.offset, frame.length)[i] = {i % 4}
=============================================================================
