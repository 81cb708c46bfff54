-------------------------------- MODULE Json --------------------------------
(***************************************************************************)
(* A tree of cJSON is printed, the text travels, and the text is parsed.   *)
(* Or the text is printed into a buffer that its caller has chosen.        *)
(*                                                                         *)
(* Text is a sequence of symbols: punctuation, blanks, and a symbol of its *)
(* own for every literal, number and string; Width says how many           *)
(* characters a symbol has.  A tree is a record [type, kids, names]; the   *)
(* type of a leaf is its symbol.                                           *)
(*                                                                         *)
(* Any allocation may fail.  The daemon sets its own malloc and free       *)
(* (init_parser), so cJSON never calls realloc, and cjet_free reads the    *)
(* size of a block in front of it: to free NULL ends the program.          *)
(***************************************************************************)
EXTENDS Naturals, SequencesExt

CONSTANTS
    Trees,          \* the trees that are printed
    Width,          \* [leaf symbols -> Nat]
    Strings,        \* the leaf symbols that are strings, which may be names
    Noise,          \* symbols that may be put into the text on its way
    NestingLimit,   \* CJSON_NESTING_LIMIT
    BufferSize,     \* default_buffer_size of print
    Prebuffers,     \* sizes of the buffers callers bring or ask for
    IntMax          \* INT_MAX

VARIABLES
    pc,
    tree, format,   \* this tree is printed, with blanks or without
    todo,           \* what print_value has still to write
    out,            \* printbuffer: length, offset and noalloc, the text so far
                    \* and, as a history, the function that was called
    overrun,        \* something was written outside the buffer
    text, at,       \* parse_buffer: content and offset, counted in symbols
    stack,          \* the calls of parse_array and parse_object under way
    value,          \* what parse_value returned last
    blocks,         \* the allocated blocks
    starved         \* an allocation failed

printer == <<tree, format, todo, out, overrun>>
parser == <<at, stack, value>>
vars == <<pc, printer, text, parser, blocks, starved>>

\* Items, none with more than n levels of children; no call goes deeper than
\* trees that exceed CJSON_NESTING_LIMIT by one level.
NestedItems[n \in Nat] ==
    [type : STRING, kids : Seq(IF n = 0 THEN {} ELSE NestedItems[n - 1]), names : Seq(STRING)]
Item == NestedItems[NestingLimit + 1]

None == [type |-> "none", kids |-> <<>>, names |-> <<>>]
Leaf(symbol) == [None EXCEPT !.type = symbol]
Blanks == {"space", "tab", "newline"}
Chars(symbols) ==
    FoldLeft(LAMBDA sum, s : sum + IF s \in DOMAIN Width THEN Width[s] ELSE 1, 0, symbols)

-----------------------------------------------------------------------------
(* Printing: what print_value asks of ensure, and what it writes then. *)

Piece(need, symbols, nul) == [need |-> need, text |-> symbols, nul |-> nul]
Tabs(n) == [k \in 1 .. n |-> "tab"]
Rendered(symbol) == Piece(Chars(<<symbol>>) + 1, <<symbol>>, 1)

\* print_array around the pieces of the children
ArrayPieces(kids, f) ==
    LET n == Len(kids)
        Comma(k) == IF k = n THEN <<>>
                    ELSE <<Piece(IF f THEN 3 ELSE 2, <<",">> \o IF f THEN <<"space">> ELSE <<>>, 1)>>
    IN  <<Piece(1, <<"[">>, 0)>>
        \o FlattenSeq([k \in 1 .. n |-> kids[k] \o Comma(k)])
        \o <<Piece(2, <<"]">>, 1)>>

\* print_object around the names and the pieces of the children
ObjectPieces(names, kids, f, depth) ==
    LET n == Len(kids)
        If(condition, s) == IF condition THEN <<s>> ELSE <<>>
        One(condition) == IF condition THEN 1 ELSE 0
        Kid(k) ==
            If(f, Piece(depth + 1, Tabs(depth + 1), 0))
            \o <<Rendered(names[k]),
                 Piece(1 + One(f), <<":">> \o If(f, "tab"), 0)>>
            \o kids[k]
            \o <<Piece(One(f) + One(k < n) + 1, If(k < n, ",") \o If(f, "newline"), 1)>>
    IN  <<Piece(2 + One(f), <<"{">> \o If(f, "newline"), 0)>>
        \o FlattenSeq([k \in 1 .. n |-> Kid(k)])
        \o <<Piece(IF f THEN depth + 2 ELSE 2, (IF f THEN Tabs(depth) ELSE <<>>) \o <<"}">>, 1)>>

\* print_value
Pieces[item \in Item, f \in BOOLEAN, depth \in Nat] ==
    LET kids == [k \in DOMAIN item.kids |-> Pieces[item.kids[k], f, depth + 1]]
    IN  CASE item.type = "array" -> ArrayPieces(kids, f)
          [] item.type = "object" -> ObjectPieces(item.names, kids, f, depth)
          [] OTHER -> <<Rendered(item.type)>>

Printed(item, f) ==
    LET pieces == Pieces[item, f, 0] IN FlattenSeq([k \in DOMAIN pieces |-> pieces[k].text])

\* ensure: the size the buffer is to have, 0 if it cannot be larger.
NewSize(need, b) ==
    LET needed == need + b.offset + 1
    IN  CASE needed <= b.length -> b.length
          [] needed > b.length /\ (b.noalloc \/ needed > IntMax) -> 0
          [] needed > b.length /\ needed <= IntMax /\ needed > IntMax \div 2 -> IntMax
          [] OTHER -> needed * 2

\* A tree is printed, into a buffer that is allocated, or into its caller's.
InitPrinter(caller, length) ==
    /\ pc = caller
    /\ tree \in Trees /\ format \in BOOLEAN
    /\ todo = Pieces[tree, format, 0]
    /\ out = [length |-> length, offset |-> 0, held |-> <<>>,
              noalloc |-> caller = "preallocated", caller |-> caller]
    /\ overrun = FALSE

Init ==
    /\ \/ \E caller \in {"print", "buffered"} : InitPrinter(caller, 0)
       \/ \E length \in Prebuffers : InitPrinter("preallocated", length)
    /\ text = <<>> /\ at = 1 /\ stack = <<>> /\ value = None
    /\ blocks = 0 /\ starved = FALSE

\* print gives up: whatever buffer there still is, is freed, unless it is the
\* caller's.
PrintFails(held) ==
    /\ pc' = "not printed"
    /\ blocks' = blocks - held
    /\ out' = IF out.noalloc THEN out ELSE [out EXCEPT !.length = 0]
    /\ UNCHANGED <<tree, format, todo, overrun, text, parser>>

\* The buffer is allocated.
Allocate(lengths) ==
    /\ out.length = 0
    /\ \/ /\ \E length \in lengths : out' = [out EXCEPT !.length = length]
          /\ blocks' = blocks + 1
          /\ UNCHANGED <<pc, tree, format, todo, overrun, text, parser, starved>>
       \/ PrintFails(0) /\ starved' = TRUE

\* print
PrintStart == pc = "print" /\ Allocate({BufferSize})

\* cJSON_PrintBuffered, without a buffer of size 0
PrintBuffered == pc = "buffered" /\ Allocate(Prebuffers)

\* cJSON_PrintBuffered frees the buffer that ensure has freed and set to NULL.
Crash ==
    /\ pc' = "crashed"
    /\ blocks' = blocks - 1
    /\ UNCHANGED <<printer, text, parser>>

\* The buffers that print_value frees when it fails
Held == IF out.noalloc THEN 0 ELSE 1

\* One call of ensure with what is written thereafter.
PrintPiece ==
    /\ pc \in {"print", "buffered", "preallocated"} /\ out.length > 0 /\ todo # <<>>
    /\ LET piece == Head(todo)
           size == NewSize(piece.need, out)
           end == out.offset + Chars(piece.text)
       IN  \/ /\ out.offset < out.length /\ size > 0
              /\ out' = [out EXCEPT !.length = size, !.offset = end, !.held = @ \o piece.text]
              /\ overrun' = (overrun \/ end + piece.nul > size)
              /\ todo' = Tail(todo)
              /\ UNCHANGED <<pc, tree, format, text, parser, blocks, starved>>
           \/ /\ out.offset >= out.length \/ size = 0
              /\ PrintFails(Held)
              /\ UNCHANGED starved
           \/ \* ensure frees the old buffer itself
              /\ out.offset < out.length /\ size > out.length
              /\ IF pc = "buffered" THEN Crash ELSE PrintFails(1)
              /\ starved' = TRUE

\* cJSON_PrintBuffered and cJSON_PrintPreallocated leave the text where it is.
PrintInPlace ==
    /\ pc \in {"buffered", "preallocated"} /\ out.length > 0 /\ todo = <<>>
    /\ pc' = "printed"
    /\ text' = out.held
    /\ UNCHANGED <<printer, parser, blocks, starved>>

\* The text is copied to a buffer of its own size.
PrintEnd ==
    /\ pc = "print" /\ out.length > 0 /\ todo = <<>>
    /\ \/ /\ pc' = "send"
          /\ text' = out.held
          /\ overrun' = (overrun \/ out.offset + 1 > out.length)
          /\ UNCHANGED <<tree, format, todo, out, parser, blocks, starved>>
       \/ PrintFails(1) /\ starved' = TRUE

-----------------------------------------------------------------------------
(* The text on its way (external): one symbol more, less or other. *)

Send ==
    /\ pc = "send"
    /\ \/ UNCHANGED text
       \/ \E k \in DOMAIN text, s \in Noise :
             text' \in {InsertAt(text, k, s), ReplaceAt(text, k, s), RemoveAt(text, k)}
       \/ \E s \in Noise : text' = Append(text, s)
    /\ pc' = "parse"
    /\ blocks' = 0
    /\ UNCHANGED <<printer, parser, starved>>

-----------------------------------------------------------------------------
(* Parsing *)

\* The content ends with a zero byte, which skipping blanks stops at.
Symbol(k) == IF k \in DOMAIN text THEN text[k] ELSE "NUL"
Skip(k) == CHOOSE j \in k .. Len(text) + 1 :
              /\ Symbol(j) \notin Blanks
              /\ \A i \in k .. j - 1 : Symbol(i) \in Blanks

Closing(type) == IF type = "array" THEN "]" ELSE "}"
Frame(type) == [type |-> type, kids |-> <<>>, names |-> <<>>, item |-> FALSE]
Top == stack[Len(stack)]

ParseFails == /\ pc' = "unwind"
              /\ UNCHANGED <<printer, text, parser>>

\* cJSON_ParseWithOpts
ParseStart ==
    /\ pc = "parse"
    /\ \/ /\ pc' = "value" /\ at' = Skip(1) /\ blocks' = 1
          /\ UNCHANGED <<printer, text, stack, value, starved>>
       \/ /\ pc' = "refused" /\ starved' = TRUE
          /\ UNCHANGED <<printer, text, parser, blocks>>

\* parse_value of a literal, a number or a string
ParseLeaf ==
    /\ pc = "value" /\ Symbol(at) \in DOMAIN Width
    /\ \/ /\ pc' = "after" /\ value' = Leaf(Symbol(at)) /\ at' = at + 1
          /\ blocks' = IF Symbol(at) \in Strings THEN blocks + 1 ELSE blocks
          /\ UNCHANGED <<printer, text, stack, starved>>
       \/ /\ Symbol(at) \in Strings
          /\ ParseFails /\ starved' = TRUE /\ UNCHANGED blocks

\* parse_array and parse_object up to their first child
ParseOpen ==
    /\ pc = "value" /\ Symbol(at) \in {"[", "{"}
    /\ LET type == IF Symbol(at) = "[" THEN "array" ELSE "object"
           next == Skip(at + 1)
       IN  CASE Len(stack) >= NestingLimit -> ParseFails
             [] Len(stack) < NestingLimit /\ Symbol(next) = Closing(type) ->
                    /\ pc' = "after" /\ value' = Leaf(type) /\ at' = next + 1
                    /\ UNCHANGED <<printer, text, stack>>
             [] OTHER ->
                    /\ pc' = "item" /\ stack' = Append(stack, Frame(type)) /\ at' = next
                    /\ UNCHANGED <<printer, text, value>>
    /\ UNCHANGED <<blocks, starved>>

ParseNothing ==
    /\ pc = "value" /\ Symbol(at) \notin DOMAIN Width \cup {"[", "{"}
    /\ ParseFails /\ UNCHANGED <<blocks, starved>>

\* A new item is attached to the list.
ParseItem ==
    /\ pc = "item"
    /\ \/ /\ pc' = IF Top.type = "array" THEN "value" ELSE "name"
          /\ stack' = [stack EXCEPT ![Len(stack)].item = TRUE]
          /\ blocks' = blocks + 1
          /\ UNCHANGED <<printer, text, at, value, starved>>
       \/ ParseFails /\ starved' = TRUE /\ UNCHANGED blocks

\* The name of a member, which becomes the item's, and the colon after it
ParseName ==
    /\ pc = "name"
    /\ LET colon == Skip(at + 1)
       IN  \/ /\ Symbol(at) \in Strings
              /\ stack' = [stack EXCEPT ![Len(stack)].names = Append(@, Symbol(at))]
              /\ blocks' = blocks + 1
              /\ IF Symbol(colon) = ":" THEN pc' = "value" /\ at' = Skip(colon + 1)
                 ELSE pc' = "unwind" /\ UNCHANGED at
              /\ UNCHANGED <<printer, text, value, starved>>
           \/ /\ Symbol(at) \notin Strings
              /\ ParseFails /\ UNCHANGED <<blocks, starved>>
           \/ /\ Symbol(at) \in Strings
              /\ ParseFails /\ starved' = TRUE /\ UNCHANGED blocks

\* A value is complete: the next child, the end of the list, or of the text.
ParseAfter ==
    /\ pc = "after"
    /\ IF stack = <<>>
       THEN \* CONFIG_CHECK_JSON_LENGTH: parse_message refuses what follows
            /\ pc' = IF at = Len(text) + 1 THEN "accepted" ELSE "unwind"
            /\ UNCHANGED <<at, stack, value>>
       ELSE LET next == Skip(at)
                kids == Append(Top.kids, value)
            IN  CASE Symbol(next) = "," ->
                        /\ pc' = "item" /\ at' = Skip(next + 1)
                        /\ stack' = [stack EXCEPT ![Len(stack)].kids = kids,
                                                  ![Len(stack)].item = FALSE]
                        /\ UNCHANGED value
                  [] Symbol(next) = Closing(Top.type) ->
                        /\ pc' = "after" /\ at' = next + 1
                        /\ value' = [type |-> Top.type, kids |-> kids, names |-> Top.names]
                        /\ stack' = Front(stack)
                  [] OTHER -> /\ pc' = "unwind"
                              /\ stack' = [stack EXCEPT ![Len(stack)].kids = kids,
                                                        ![Len(stack)].item = FALSE]
                              /\ UNCHANGED <<at, value>>
    /\ UNCHANGED <<printer, text, blocks, starved>>

\* The blocks cJSON_Delete frees with an item: its string, its members' names,
\* and its children.
Blocks[item \in Item] ==
    1 + (IF item.type \in Strings THEN 1 ELSE 0) + Len(item.names)
      + FoldLeft(LAMBDA sum, kid : sum + Blocks[kid], 0, item.kids)

\* Mutant of Deleted: a list without a complete child is not deleted.
DeletedIfComplete(frame) ==
    IF frame.kids = <<>> THEN 0
    ELSE FoldLeft(LAMBDA sum, kid : sum + Blocks[kid], 0, frame.kids)
         + Len(frame.names) + IF frame.item THEN 1 ELSE 0

\* The blocks of the list a failing parse_array or parse_object deletes: the
\* item that is not complete is its last.
Deleted(frame) ==
    FoldLeft(LAMBDA sum, kid : sum + Blocks[kid], 0, frame.kids)
    + Len(frame.names) + IF frame.item THEN 1 ELSE 0

\* The fail labels, from the innermost call outwards; at last the root, with a
\* value that is complete when parse_message finds more text behind it.
Unwind ==
    /\ pc = "unwind"
    /\ IF stack # <<>>
       THEN /\ stack' = Front(stack)
            /\ blocks' = blocks - Deleted(Top)
            /\ value' = None
            /\ UNCHANGED pc
       ELSE /\ pc' = "refused"
            /\ blocks' = blocks - Blocks[value]
            /\ UNCHANGED <<stack, value>>
    /\ UNCHANGED <<printer, text, at, starved>>

Next ==
    \/ PrintStart \/ PrintBuffered \/ PrintPiece \/ PrintInPlace \/ PrintEnd \/ Send
    \/ ParseStart \/ ParseLeaf \/ ParseOpen \/ ParseNothing \/ ParseItem
    \/ ParseName \/ ParseAfter \/ Unwind

Spec == Init /\ [][Next]_vars

-----------------------------------------------------------------------------
\* Every member of a is equal to the one get_object_item finds in b.
Included(a, b, Equal(_, _)) ==
    \A k \in DOMAIN a.kids :
        LET found == SelectInSeq(b.names, LAMBDA name : name = a.names[k])
        IN  found # 0 /\ Equal(a.kids[k], b.kids[found])

\* cJSON_Compare of two items that are not the same, with case_sensitive
Compare[a \in Item, b \in Item] ==
    LET Equal(x, y) == Compare[x, y]
    IN  /\ a.type = b.type
        /\ CASE a.type = "array" ->
                  /\ Len(a.kids) = Len(b.kids)
                  /\ \A k \in DOMAIN a.kids : Compare[a.kids[k], b.kids[k]]
             [] a.type = "object" -> Included(a, b, Equal) /\ Included(b, a, Equal)
             [] OTHER -> TRUE

-----------------------------------------------------------------------------
Height[item \in Item] ==
    IF item.type \notin {"array", "object"} THEN 0
    ELSE FoldLeft(LAMBDA h, kid : IF Height[kid] + 1 > h THEN Height[kid] + 1 ELSE h, 1, item.kids)

\* No object has two members of one name.
Distinct[item \in Item] ==
    IsInjective(item.names) /\ \A k \in DOMAIN item.kids : Distinct[item.kids[k]]

\* Equal but for the order of members
Same[a \in Item, b \in Item] ==
    /\ a.type = b.type /\ Len(a.kids) = Len(b.kids)
    /\ \E order \in {o \in [DOMAIN a.kids -> DOMAIN b.kids] : IsInjective(o)} :
          \A k \in DOMAIN a.kids :
              /\ IF a.type = "object" THEN a.names[k] = b.names[order[k]] ELSE order[k] = k
              /\ Same[a.kids[k], b.kids[order[k]]]

\* print never writes outside its buffer and fails only for lack of memory, a
\* text longer than INT_MAX or a buffer of the caller that has less than the
\* five bytes more than the text that cJSON.h asks for; a printed tree is read
\* back as it was, however it is formatted; a text that is accepted says
\* exactly what its tree prints, and cJSON_Compare finds it equal to a tree
\* just when they are the same but for the order of members, unless a name is
\* repeated in an object; and once a call has failed, nothing it allocated is
\* left.  Only cJSON_PrintBuffered, which the daemon never calls, may crash, and
\* only for lack of memory when the buffer it was asked for has less than
\* those five bytes more (ensure, print, cJSON_PrintBuffered,
\* cJSON_ParseWithOpts).
RoundTrip ==
    /\ ~overrun
    /\ pc = "not printed" =>
          /\ blocks = 0
          /\ \/ starved
             \/ Chars(Printed(tree, format)) + 2 > IntMax
             \/ out.noalloc /\ Chars(Printed(tree, format)) + 5 > out.length
    /\ pc = "crashed" =>
          /\ out.caller = "buffered" /\ starved
          /\ Chars(Printed(tree, format)) + 5 > out.length
    /\ pc = "printed" =>
          /\ blocks = Held
          /\ text = Printed(tree, format)
    /\ pc = "refused" =>
          /\ blocks = 0
          /\ starved \/ text # Printed(tree, format) \/ Height[tree] > NestingLimit
    /\ pc = "accepted" =>
          /\ blocks = Blocks[value]
          /\ text = Printed(tree, format) => value = tree
          /\ SelectSeq(text, LAMBDA s : s \notin Blanks) = Printed(value, FALSE)
          /\ Distinct[value] =>
                \A t \in Trees : Distinct[t] => (Compare[value, t] <=> Same[value, t])
=============================================================================
