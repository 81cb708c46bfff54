----------------------------- MODULE JsonString -----------------------------
(***************************************************************************)
(* The strings of cJSON, byte by byte: a literal is read by parse_string,  *)
(* what it says is written by print_string_ptr, and that is read again.    *)
(***************************************************************************)
EXTENDS Naturals, SequencesExt

CONSTANTS
    Groups,         \* the pieces literals are made of: sequences of bytes
    MaxGroups       \* bound: pieces in a literal

VARIABLES
    step,           \* "scan", "convert", "measure", "escape", "done" or "failed"
    round,          \* the literal of the peer, and our own
    content,        \* the literal from its opening quote on, and what follows it
    at,             \* input_pointer, or input_end while scanning
    room,           \* allocation_length (+ 1), or what was asked of ensure
    end,            \* input_end
    string,         \* the bytes put out so far
    first           \* what the first round has read

vars == <<step, round, content, at, room, end, string, first>>

Quote == 34
Backslash == 92
CharN == 110
CharU == 117
Short == [c \in {98, 102, 110, 114, 116} |->       \* b f n r t
             CASE c = 98 -> 8 [] c = 102 -> 12 [] c = 110 -> 10 [] c = 114 -> 13 [] OTHER -> 9]
Itself == {Quote, Backslash, 47}

Literals == UNION {[1 .. n -> Groups] : n \in 0 .. MaxGroups}

Init ==
    /\ step = "scan" /\ round = 1
    /\ \E l \in Literals : content = <<Quote>> \o FlattenSeq(l) \o <<Quote, 0>>
    /\ at = 2 /\ room = 1 /\ end = 0
    /\ string = <<>> /\ first = <<>>

-----------------------------------------------------------------------------
(* parse_string *)

Fail == /\ step' = "failed"
        /\ UNCHANGED <<round, content, at, room, end, string, first>>

\* The end of the literal is searched for; a byte is reserved for every
\* character of it, the opening quote included, and one for the zero.
Scan ==
    /\ step = "scan"
    /\ CASE at > Len(content) -> Fail
         [] at <= Len(content) /\ content[at] = Quote ->
                /\ end' = at /\ at' = 2 /\ step' = "convert"
                /\ room' = room + 1
                /\ UNCHANGED <<round, content, string, first>>
         [] at <= Len(content) /\ content[at] = Backslash ->
                IF at + 1 > Len(content) THEN Fail
                ELSE /\ at' = at + 2 /\ room' = room + 1
                     /\ UNCHANGED <<step, round, content, end, string, first>>
         [] OTHER -> /\ at' = at + 1 /\ room' = room + 1
                     /\ UNCHANGED <<step, round, content, end, string, first>>

Digit(c) == CASE c \in 48 .. 57 -> c - 48
              [] c \in 65 .. 70 -> c - 55
              [] c \in 97 .. 102 -> c - 87
              [] OTHER -> 16

\* parse_hex4: 0 if there is a character that is no digit.
Hex4(i) ==
    LET digits == [k \in 0 .. 3 |-> Digit(content[i + k])]
    IN  IF \E k \in 0 .. 3 : digits[k] = 16 THEN 0
        ELSE digits[0] * 4096 + digits[1] * 256 + digits[2] * 16 + digits[3]

Utf8(c) ==
    CASE c < 128 -> <<c>>
      [] c \in 128 .. 2047 -> <<192 + c \div 64, 128 + (c % 64)>>
      [] c \in 2048 .. 65535 -> <<224 + c \div 4096, 128 + ((c \div 64) % 64), 128 + (c % 64)>>
      [] OTHER -> <<240 + c \div 262144, 128 + ((c \div 4096) % 64), 128 + ((c \div 64) % 64), 128 + (c % 64)>>

\* utf16_literal_to_utf8: the length of the sequence, 0 if it is refused, and
\* what it stands for.
Utf16 ==
    LET Refused == [length |-> 0, bytes |-> <<>>]
        high == Hex4(at + 2)
        low == Hex4(at + 8)
    IN  CASE end - at < 6 -> Refused
          [] end - at >= 6 /\ high \in 56320 .. 57343 -> Refused
          [] end - at >= 6 /\ high \in 55296 .. 56319 ->
                IF \/ end - at < 12
                   \/ content[at + 6] # Backslash \/ content[at + 7] # CharU
                   \/ low \notin 56320 .. 57343
                THEN Refused
                ELSE [length |-> 12,
                      bytes |-> Utf8(65536 + (high % 1024) * 1024 + (low % 1024))]
          [] OTHER -> [length |-> 6, bytes |-> Utf8(high)]

\* An escape sequence
Escaped ==
    LET c == content[at + 1]
    IN  CASE c \in DOMAIN Short -> [length |-> 2, bytes |-> <<Short[c]>>]
          [] c \in Itself -> [length |-> 2, bytes |-> <<c>>]
          [] c = CharU -> Utf16
          [] OTHER -> [length |-> 0, bytes |-> <<>>]

\* What the C string ends at
CString(s) ==
    LET zeros == {k \in DOMAIN s : s[k] = 0}
    IN  IF zeros = {} THEN s ELSE SubSeq(s, 1, (CHOOSE k \in zeros : \A j \in zeros : k <= j) - 1)

Convert ==
    /\ step = "convert"
    /\ IF at < end
       THEN LET took == IF content[at] = Backslash THEN Escaped
                        ELSE [length |-> 1, bytes |-> <<content[at]>>]
            IN  IF took.length = 0 THEN Fail
                ELSE /\ at' = at + took.length
                     /\ string' = string \o took.bytes
                     /\ UNCHANGED <<step, round, content, room, end, first>>
       ELSE /\ string' = CString(string)
            /\ IF round = 1 THEN step' = "measure" /\ first' = CString(string)
               ELSE step' = "done" /\ UNCHANGED first
            /\ UNCHANGED <<round, content, at, room, end>>

-----------------------------------------------------------------------------
(* print_string_ptr *)

Marked == {Quote, Backslash}
Lettered == {Short[k] : k \in DOMAIN Short}

Extra(c) == CASE c \in Marked \cup Lettered -> 1
              [] c < 32 /\ c \notin Lettered -> 5
              [] OTHER -> 0

\* ensure is asked for the string, what escaping adds, two quotes and the zero.
Measure ==
    /\ step = "measure"
    /\ step' = "escape"
    /\ room' = Len(string) + FoldLeft(LAMBDA sum, c : sum + Extra(c), 0, string) + 3
    /\ content' = <<Quote>> /\ at' = 1
    /\ UNCHANGED <<round, end, string, first>>

HexDigit(d) == IF d < 10 THEN 48 + d ELSE 87 + d

Rendered(c) ==
    CASE c > 31 /\ c \notin Marked -> <<c>>
      [] c \in Marked -> <<Backslash, c>>
      [] c \in Lettered ->
            <<Backslash, CHOOSE k \in DOMAIN Short : Short[k] = c>>
      [] OTHER -> <<Backslash, CharU, 48, 48, HexDigit(c \div 16), HexDigit(c % 16)>>

Escape ==
    /\ step = "escape"
    /\ IF at <= Len(string)
       THEN /\ content' = content \o Rendered(string[at])
            /\ at' = at + 1
            /\ UNCHANGED <<step, round, room, end, string, first>>
       ELSE \* the closing quote and the zero; then the text is read again
            /\ content' = content \o <<Quote, 0>>
            /\ step' = "scan" /\ round' = 2 /\ at' = 2 /\ end' = 0
            /\ room' = 1 /\ string' = <<>>
            /\ UNCHANGED first

Next == Scan \/ Convert \/ Measure \/ Escape

Spec == Init /\ [][Next]_vars

-----------------------------------------------------------------------------
(* cJSON_Minify: where it is in a text, what it has kept, and how many of   *)
(* the bytes to come it has already dealt with.                             *)

Slash == 47
Star == 42
Blanks == {32, 9, 13, 10}

MinifyText(m, c, next) ==
    CASE c \in Blanks -> m
      [] c = Slash /\ next = Slash -> [m EXCEPT !.in = "line", !.skip = 1]
      [] c = Slash /\ next = Star -> [m EXCEPT !.in = "comment", !.skip = 1]
      [] c = Slash /\ next \notin {Slash, Star} -> m
      [] c = Quote -> [m EXCEPT !.in = "string", !.kept = Append(@, c)]
      [] OTHER -> [m EXCEPT !.kept = Append(@, c)]

\* minify_string: a backslash before a quote belongs to it, even if it is
\* itself escaped.
MinifyString(m, c, next) ==
    CASE c = Quote -> [m EXCEPT !.in = "text", !.kept = Append(@, c)]
      [] c = Backslash /\ next = Quote -> [m EXCEPT !.kept = @ \o <<c, next>>, !.skip = 1]
      [] OTHER -> [m EXCEPT !.kept = Append(@, c)]

\* skip_oneline_comment, skip_multiline_comment
MinifyComment(m, c, next) ==
    CASE m.in = "line" /\ c = 10 -> [m EXCEPT !.in = "text"]
      [] m.in = "comment" /\ c = Star /\ next = Slash -> [m EXCEPT !.in = "text", !.skip = 1]
      [] OTHER -> m

Minified(t) ==
    LET Byte(m, k) ==
            LET next == IF k < Len(t) THEN t[k + 1] ELSE 0
            IN  CASE m.skip > 0 -> [m EXCEPT !.skip = @ - 1]
                  [] m.skip = 0 /\ m.in = "text" -> MinifyText(m, t[k], next)
                  [] m.skip = 0 /\ m.in = "string" -> MinifyString(m, t[k], next)
                  [] OTHER -> MinifyComment(m, t[k], next)
    IN  FoldLeft(Byte, [in |-> "text", kept |-> <<>>, skip |-> 0], [k \in 1 .. Len(t) |-> k]).kept

-----------------------------------------------------------------------------
\* Neither direction writes outside what it has reserved, and reading stays
\* within the literal and its closing quote; what a literal was read as is
\* written so that it is read as the same string again, in exactly the room
\* that was asked for (parse_string, print_string_ptr).
\* A printed string also comes through cJSON_Minify, between blanks and
\* comments that do not, unless it ends with a backslash.
StringsKept ==
    /\ step = "convert" => Len(string) + 1 <= room /\ at <= end + 1
    /\ step = "escape" => /\ Len(content) + 2 <= room
                          /\ at > Len(string) => Len(content) + 2 = room
    /\ step = "failed" => round = 1
    /\ step = "done" => string = first
    /\ step = "scan" /\ round = 2 /\ at = 2 =>
          LET literal == Front(content)
              blanks == <<32, Slash, Star, 34, 10, Star, Slash, Slash, Slash, 34, 10>>
          IN  \/ Minified(literal \o blanks \o <<58>> \o blanks \o literal) = literal \o <<58>> \o literal
              \/ literal[Len(literal) - 1] = Backslash

=============================================================================
