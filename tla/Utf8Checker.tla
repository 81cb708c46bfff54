---------------------------- MODULE Utf8Checker ----------------------------
(***************************************************************************)
(* The UTF-8 checker of utf8_checker.c, byte by byte and by its two fast   *)
(* paths that take 4 or 8 bytes as one number, against what text is.       *)
(*                                                                         *)
(* A word is the sequence of its bytes in memory on a little-endian        *)
(* machine, so that the masks of the code speak of the bytes one by one.   *)
(***************************************************************************)
EXTENDS Naturals, Sequences

CONSTANTS
    Bytes,          \* the bytes that are fed one by one
    Words,          \* the words of 4 and of 8 bytes
    Texts,          \* sequences that are checked at any alignment
    MaxBytes,       \* the length of a text fed byte by byte
    MaxBefore       \* how many bytes may precede a word

\* A byte has 8 bits, and what is checked at any alignment is not shorter than
\* a word: what is takes the other way through the code, byte by byte.
Octet == 0 .. 255
BytesAssumption ==
    /\ Bytes \subseteq Octet
    /\ \A w \in Words : w \in Seq(Octet) /\ Len(w) \in {4, 8}
    /\ \A bytes \in Texts : bytes \in Seq(Octet) /\ Len(bytes) >= 8

VARIABLES
    checker,        \* struct cjet_utf8_checker
    text,           \* all bytes fed so far
    valid,          \* what the checker said last
    verdict,        \* what it says of the text as a whole, once it is complete
    hidden          \* a fast path skipped a word with an overlong lead byte

vars == <<checker, text, valid, verdict, hidden>>

-----------------------------------------------------------------------------
(* What text is: each character is the shortest form of a code point that  *)
(* is no surrogate.                                                        *)

Between(b, low, high) == low <= b /\ b <= high

IsContinuation(b) == Between(b, 128, 191)

\* A continuation adds six bits to those before it.
With(bits, b) == bits * 64 + (b - 128)

IsCharacter(char) ==
    /\ \A i \in 2 .. Len(char) : IsContinuation(char[i])
    /\ \/ Len(char) = 1 /\ char[1] < 128
       \/ /\ Len(char) = 2 /\ Between(char[1], 192, 223)
          /\ With(char[1] - 192, char[2]) >= 128
       \/ /\ Len(char) = 3 /\ Between(char[1], 224, 239)
          /\ LET point == With(With(char[1] - 224, char[2]), char[3])
             IN  point >= 2048 /\ ~Between(point, 55296, 57343)
       \/ /\ Len(char) = 4 /\ Between(char[1], 240, 247)
          /\ Between(With(With(With(char[1] - 240, char[2]), char[3]), char[4]), 65536, 1114111)

\* How many bytes of the sequence are complete characters; no character is the
\* beginning of another.
Complete(bytes) ==
    LET upto[n \in 0 .. Len(bytes)] ==
            IF n = 0 THEN 0
            ELSE LET end == upto[n - 1]
                 IN  IF IsCharacter(SubSeq(bytes, end + 1, n)) THEN n ELSE end
    IN  upto[Len(bytes)]

IsText(bytes) == Complete(bytes) = Len(bytes)

\* What follows the last complete character can become one; the ends of all
\* ranges of second bytes are enough to try.
IsBeginningOfText(bytes) ==
    LET rest == SubSeq(bytes, Complete(bytes) + 1, Len(bytes))
    IN  \/ rest = <<>>
        \/ /\ Len(rest) < 4
           /\ \A i \in 2 .. Len(rest) : IsContinuation(rest[i])
           /\ \E n \in 1 .. 4 - Len(rest) :
              \E more \in [1 .. n -> {128, 143, 144, 159, 160, 191}] : IsCharacter(rest \o more)

-----------------------------------------------------------------------------
(* The code                                                                *)

\* cjet_init_checker; 255 is UC_FINISH.
InitChecker == [start_byte |-> 255, length |-> 1, next_byte |-> 1]

\* Mutant of SecondByteOk: surrogates pass.
SecondByteOkSurrogates(start, byte) ==
    /\ start = 224 => Between(byte, 160, 191)
    /\ start = 240 => Between(byte, 144, 191)
    /\ start = 244 => Between(byte, 128, 143)

SecondByteOk(start, byte) ==
    /\ start = 224 => Between(byte, 160, 191)
    /\ start = 237 => Between(byte, 128, 159)
    /\ start = 240 => Between(byte, 144, 191)
    /\ start = 244 => Between(byte, 128, 143)

\* How many bytes a character has that begins with this one; no for what no
\* character of several bytes begins with
LengthOf(byte, no) ==
    IF Between(byte, 194, 223) THEN 2
    ELSE IF Between(byte, 224, 239) THEN 3 ELSE IF Between(byte, 240, 244) THEN 4 ELSE no

\* is_byte_valid: the checker after a byte, and the verdict.
IsByteValid(c, byte) ==
    LET first == c.next_byte = 1
        start == IF first THEN byte ELSE c.start_byte
        length == IF first THEN LengthOf(byte, c.length) ELSE c.length
        ok == \/ first /\ (byte <= 127 \/ Between(byte, 194, 244))
              \/ c.next_byte = 2 /\ IsContinuation(byte) /\ SecondByteOk(start, byte)
              \/ c.next_byte \in {3, 4} /\ IsContinuation(byte)
        finished == IF first THEN byte <= 127 ELSE c.next_byte = length
    IN  [ok |-> ok,
         checker |-> IF finished \/ ~ok THEN InitChecker
                     ELSE [start_byte |-> start, length |-> length,
                           next_byte |-> c.next_byte + 1]]

\* cjet_is_text_valid and cjet_is_byte_sequence_valid stop at the first fault.
AreBytesValid(c, bytes) ==
    LET after[n \in 0 .. Len(bytes)] ==
            IF n = 0 THEN [ok |-> TRUE, checker |-> c]
            ELSE LET r == after[n - 1] IN IF r.ok THEN IsByteValid(r.checker, bytes[n]) ELSE r
    IN  after[Len(bytes)]

\* The masks of the fast paths: ASCII, a lead byte of two, a continuation.
Low(b) == b < 128
Lead2(b) == b \div 32 = 6
Bits(b) == b % 32

\* A pair of lead bytes is compared as one number: the last pair decides.
LeadsExceed(w) ==
    LET leads == {i \in DOMAIN w : i % 2 = 1}
    IN  \E i \in leads : Bits(w[i]) > 1 /\ \A j \in leads : j > i => Bits(w[j]) = 1

AllPairs(w) == \A i \in DOMAIN w : IF i % 2 = 1 THEN Lead2(w[i]) ELSE IsContinuation(w[i])

\* cjet_is_word_sequence_valid
SkipsWord(w) ==
    \/ \A i \in 1 .. 4 : Low(w[i])
    \/ \E i \in 1 .. 3 : /\ Lead2(w[i]) /\ IsContinuation(w[i + 1]) /\ Bits(w[i]) > 1
                         /\ \A j \in (1 .. 4) \ {i, i + 1} : Low(w[j])
    \/ AllPairs(w) /\ LeadsExceed(w)

\* cjet_is_word64_sequence_valid
SkipsWord64(w) ==
    \/ \A i \in 1 .. 8 : Low(w[i])
    \/ AllPairs(w) /\ LeadsExceed(w)

Skips(c, w) ==
    /\ c.next_byte = 1
    /\ IF Len(w) = 4 THEN SkipsWord(w) ELSE SkipsWord64(w)

\* The lead bytes the comparison does not see.
Hides(w) == AllPairs(w) /\ \E i \in DOMAIN w : i % 2 = 1 /\ Bits(w[i]) <= 1

AreWordsValid(c, words) ==
    LET after[n \in 0 .. Len(words)] ==
            IF n = 0 THEN [ok |-> TRUE, checker |-> c]
            ELSE LET r == after[n - 1]
                 IN  IF ~r.ok \/ Skips(r.checker, words[n]) THEN r
                     ELSE AreBytesValid(r.checker, words[n])
    IN  after[Len(words)]

\* cjet_is_word_sequence_valid_auto_alligned: bytes up to a multiple of 8,
\* words, and the bytes that are left.  Each part is checked whatever the
\* verdict on the parts before it.
Aligned(bytes, offset) ==
    LET pre == 8 - offset
        n == (Len(bytes) - pre) \div 8
    IN  [head |-> SubSeq(bytes, 1, pre),
         words |-> [i \in 1 .. n |-> SubSeq(bytes, pre + 8 * i - 7, pre + 8 * i)],
         tail |-> SubSeq(bytes, pre + 8 * n + 1, Len(bytes))]

IsAlignedValid(c, bytes, offset) ==
    LET parts == Aligned(bytes, offset)
        r1 == AreBytesValid(c, parts.head)
        r2 == AreWordsValid(r1.checker, parts.words)
        r3 == AreBytesValid(r2.checker, parts.tail)
    IN  [ok |-> r1.ok /\ r2.ok /\ r3.ok, checker |-> r3.checker]

-----------------------------------------------------------------------------
Init ==
    /\ checker = InitChecker
    /\ text = <<>>
    /\ valid = TRUE
    /\ verdict = "none"
    /\ hidden = FALSE

CanFeed == valid /\ ~hidden /\ verdict = "none"

Feed(bytes, r) ==
    /\ text' = text \o bytes
    /\ checker' = r.checker /\ valid' = r.ok
    /\ verdict' = verdict

FeedByte ==
    /\ CanFeed /\ Len(text) < MaxBytes
    /\ \E b \in Bytes : Feed(<<b>>, AreBytesValid(checker, <<b>>))
    /\ UNCHANGED hidden

FeedWord ==
    /\ CanFeed /\ Len(text) <= MaxBefore
    /\ \E w \in Words :
          /\ Feed(w, AreWordsValid(checker, <<w>>))
          /\ hidden' = (Skips(checker, w) /\ Hides(w))

FeedAligned ==
    /\ CanFeed /\ text = <<>>
    /\ \E bytes \in Texts, offset \in 0 .. 7 :
          /\ Feed(bytes, IsAlignedValid(checker, bytes, offset))
          /\ hidden' = LET words == Aligned(bytes, offset).words
                       IN  \E i \in DOMAIN words : Hides(words[i])

\* is_complete: the checker is ready for another text, except that
\* cjet_is_text_valid leaves it in the middle of a character.
Finish ==
    /\ CanFeed
    /\ verdict' = IF checker.start_byte = 255 THEN "text" ELSE "incomplete"
    /\ checker' \in {checker, InitChecker}
    /\ UNCHANGED <<text, valid, hidden>>

Next == FeedByte \/ FeedWord \/ FeedAligned \/ Finish

Spec == Init /\ [][Next]_vars

-----------------------------------------------------------------------------
(* Properties                                                              *)

TypeOK ==
    /\ checker \in [start_byte : Octet, length : 1 .. 4, next_byte : 1 .. 4]
    /\ valid \in BOOLEAN /\ hidden \in BOOLEAN
    /\ verdict \in {"none", "text", "incomplete"}

\* As long as no word has hidden an overlong lead byte, the checker says yes
\* to the beginnings of texts only, and to all of them, whether the bytes came
\* one by one, as words or at any alignment, and it knows whether the last
\* character is complete (is_byte_valid and the masks of the fast paths).
\* utf8_checker.h promises it of every sequence.
TellsText ==
    TypeOK /\ (~hidden =>
        /\ valid = IsBeginningOfText(text)
        /\ verdict # "none" => (verdict = "text") = IsText(text))
=============================================================================
