------------------------------ MODULE Extension -----------------------------
(***************************************************************************)
(* How websocket.c negotiates permessage-deflate (fill_requested_extension *)
(* and alloc_compression): the offers of a client are judged one parameter *)
(* at a time, the answer is written and the state of the connection        *)
(* changed on the way, and what a refused offer has changed stays for the  *)
(* next one.                                                               *)
(***************************************************************************)
EXTENDS Naturals, Sequences

CONSTANTS
    Levels,     \* the compression levels the connection may have
    Values      \* numbers that follow a parameter; 0 for none

ValuesAssumption == Values \subseteq Nat /\ 0 \in Values

VARIABLES
    extension,  \* the parameters in struct extension_compression
    response,   \* the parameters written to the response so far
    judged,     \* "nothing", "offer" or "accepted"
    offered,    \* the parameters of the offer so far
    streams     \* the windows zlib was given, 0 for none: strm_decomp and strm_comp

vars == <<extension, response, judged, offered, streams>>

ClientWindow == "client_max_window_bits"
ServerWindow == "server_max_window_bits"
ClientTakeover == "client_no_context_takeover"
ServerTakeover == "server_no_context_takeover"
Windows == {ClientWindow, ServerWindow}
Takeovers == {ClientTakeover, ServerTakeover}

Parameter(name, value) == [name |-> name, value |-> value]
NamesIn(parameters) == {q.name : q \in parameters}
IsIn(name, parameters) == name \in NamesIn(parameters)

\* What websocket_init sets the parameters to for a compression level.
Defaults(level) ==
    LET All(client, server, takeover) ==
            [name \in Windows \cup Takeovers |->
                CASE name = ClientWindow -> client
                  [] name = ServerWindow -> server
                  [] OTHER -> takeover]
    IN  CASE level = 1 -> All(8, 9, TRUE)
          [] level = 2 -> All(12, 12, FALSE)
          [] OTHER -> All(15, 15, FALSE)

Init ==
    /\ \E level \in Levels : extension = Defaults(level)
    /\ response = <<>>
    /\ judged = "nothing"
    /\ offered = {}
    /\ streams = [inflate |-> 0, deflate |-> 0]

-----------------------------------------------------------------------------
\* The bytes write_to_response writes for a parameter; before them are the 18 of
\* permessage-deflate.
NameLength(name) == IF name \in Windows THEN 22 ELSE 26
Written(q) ==
    2 + NameLength(q.name)
      + CASE q.value = 0 -> 0
          [] q.value \in 1 .. 9 -> 2
          [] OTHER -> 3
ResponseLength(r) ==
    LET upto[n \in 0 .. Len(r)] == IF n = 0 THEN 18 ELSE upto[n - 1] + Written(r[n])
    IN  upto[Len(r)]
ResponseMaxLength == 128 + 1

\* A window of one digit is 8 or 9, for the server just 9, and one of two is
\* at most 15.  Only the client may leave out the number.
Legal(name, value) ==
    CASE name = ClientWindow -> value = 0 \/ value \in 8 .. 15
      [] name = ServerWindow -> value \in 9 .. 15
      [] OTHER -> name \in Takeovers

\* The name is permessage-deflate, and not too many parameters follow.
Offer ==
    /\ judged = "nothing"
    /\ judged' = "offer"
    /\ response' = <<>>
    /\ offered' = {}
    /\ UNCHANGED <<extension, streams>>

Refuse ==
    /\ judged' = "nothing"
    /\ UNCHANGED <<extension, response, offered, streams>>

\* What the answer says of a parameter.
Answered(name, e) == Parameter(name, IF name \in Windows THEN e[name] ELSE 0)

\* A window becomes no larger than the offer has it.
Agreed(name, value) ==
    CASE name \in Takeovers -> TRUE
      [] name \in Windows /\ value # 0 /\ value < extension[name] -> value
      [] OTHER -> extension[name]

\* One round of the loop over the parameters, for a name that is known or not
OfferedParameter(name, value) ==
    /\ judged = "offer"
    /\ IF ~Legal(name, value) \/ IsIn(name, offered)
       THEN Refuse
       ELSE /\ extension' = [extension EXCEPT ![name] = Agreed(name, value)]
            /\ response' = Append(response, Answered(name, extension'))
            /\ offered' = offered \cup {Parameter(name, value)}
            /\ UNCHANGED <<judged, streams>>

\* Mutant of Settled: the window of a client that offered none keeps the size
\* the level or an earlier offer has given it.
SettledAsBefore(e) == e

\* A client that did not offer it cannot be told its window.
Settled(e) ==
    IF IsIn(ClientWindow, offered) THEN e ELSE [e EXCEPT ![ClientWindow] = 15]

\* What the answer says beyond the offer, one limit after the other.
Unasked(name, e) == ~IsIn(name, offered) /\ IF name = ServerWindow THEN e[name] < 15 ELSE e[name]

WithUnasked(r, name, e) == IF Unasked(name, e) THEN Append(r, Answered(name, e)) ELSE r

Completed(r, e) ==
    WithUnasked(WithUnasked(WithUnasked(r, ServerWindow, e), ClientTakeover, e), ServerTakeover, e)

\* alloc_compression: zlib may have no memory for either stream.
Allocated(e) ==
    {[inflate |-> 0, deflate |-> 0],
     [inflate |-> e[ClientWindow], deflate |-> 0],
     [inflate |-> e[ClientWindow], deflate |-> e[ServerWindow]]}

Accept ==
    /\ judged = "offer"
    /\ judged' = "accepted"
    /\ extension' = Settled(extension)
    /\ response' = Completed(response, extension)
    /\ streams' \in Allocated(extension')
    /\ UNCHANGED offered

Next ==
    \/ Offer
    \/ \E name \in Windows \cup Takeovers \cup {"other"}, value \in Values :
          OfferedParameter(name, value)
    \/ Accept

Spec == Init /\ [][Next]_vars

-----------------------------------------------------------------------------
\* Whatever was offered and refused before: the answer with its final zero
\* fits into the response, it says nothing twice, it never tells the client of
\* a window it did not offer, it grants no more than was offered, and it
\* tells of every limit that the two streams keep to (fill_requested_extension).
AnswerMatchesStreams ==
    LET answer == {response[i] : i \in DOMAIN response}
        Told(name, otherwise) ==
            IF IsIn(name, answer) THEN (CHOOSE q \in answer : q.name = name).value ELSE otherwise
    IN  /\ ResponseLength(response) < ResponseMaxLength
        /\ judged = "accepted" =>
            /\ \A i, j \in DOMAIN response : response[i].name = response[j].name => i = j
            /\ IsIn(ClientWindow, answer) => IsIn(ClientWindow, offered)
            /\ \A q \in offered : q.name \in Windows /\ q.value # 0 => Told(q.name, 15) <= q.value
            /\ streams.inflate \in {0, Told(ClientWindow, 15)}
            /\ streams.deflate \in {0, Told(ServerWindow, 15)} \ 1 .. 8
            /\ \A name \in Takeovers : extension[name] <=> IsIn(name, answer)
=============================================================================
