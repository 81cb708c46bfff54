----------------------------- MODULE Websocket ------------------------------
(***************************************************************************)
(* One HTTP connection that becomes a websocket: http_connection.c,        *)
(* websocket.c, websocket_peer.c and the parts of compression.c that       *)
(* decide what is delivered.                                               *)
(*                                                                         *)
(* The buffered socket hands the connection what it asked for, a line or a *)
(* number of bytes, through the callback that is installed (reading); each *)
(* call of such a callback is one action.  What a line or a field says is  *)
(* chosen from small sets.  A callback that calls the next one itself, as  *)
(* for a frame without payload, is one action with it.                     *)
(*                                                                         *)
(* A fault is a call of code or a use of memory that does not exist; the   *)
(* model says nothing about what follows one.                              *)
(***************************************************************************)
EXTENDS Integers, FiniteSets

CONSTANTS
    Users,               \* [callbacks, compression]: the callbacks the user of a websocket has
                         \* set (those for ping and pong only log), and compression_level # 0
    Opcodes,             \* opcodes of frames
    Lengths,             \* payload lengths
    StatusCodes,         \* status codes in close frames
    MaxMessageSize       \* CONFIG_MAX_MESSAGE_SIZE

ASSUME ConstantsAssumption ==
    /\ Users \subseteq
          [callbacks : SUBSET {"text_message", "text_frame", "binary_message", "binary_frame",
                               "close"},
           compression : BOOLEAN]
    /\ \A u \in Users : "close" \in u.callbacks
    /\ Opcodes \subseteq 0 .. 15
    /\ Lengths \subseteq Nat
    /\ StatusCodes \subseteq Nat
    /\ MaxMessageSize \in Nat

VARIABLES
    user,              \* who uses the websocket: one of Users
    reading,           \* the callback of the buffered socket
    connection,        \* "open" or "freed"
    peer,              \* the websocket peer: "none", "listed" or "freed"
    handshake,         \* what the request has said so far
    upgrade_complete,
    accepted,          \* extension_compression.accepted
    ws_flags,
    length,
    gathered,          \* bytes of a compressed message wait to be inflated
    sent,              \* the last thing sent
    close_code,        \* status code of the close frame sent
    event,             \* what the last step delivered to the user
    fault

vars == <<user, reading, connection, peer, handshake, upgrade_complete, accepted, ws_flags,
          length, gathered, sent, close_code, event, fault>>

handshakeVars == <<handshake, upgrade_complete, accepted>>

frameVars == <<ws_flags, length, gathered>>

CONTINUATION == 0
TEXT == 1
BINARY == 2
CLOSE == 8
PING == 9
PONG == 10

CompressedBit == 4     \* PER_MESSAGE_COMPRESSED_BIT
SmallFrame == 125      \* WS_SMALL_FRAME_SIZE

NORMAL == 1000
GOING_AWAY == 1001
PROTOCOL_ERROR == 1002
UNSUPPORTED == 1003
UNSUPPORTED_DATA == 1007
INTERNAL_ERROR == 1011

Nothing == [what |-> "nothing", type |-> "none", last |-> FALSE]

\* alloc_http_connection, init_http_connection and websocket_init
Init ==
    /\ user \in Users
    /\ reading = "start_line"
    /\ connection = "open"
    /\ peer = "none"
    /\ handshake = [request_ok |-> FALSE, upgrade |-> FALSE, requested |-> FALSE, found |-> FALSE]
    /\ upgrade_complete = FALSE
    /\ accepted = FALSE
    /\ ws_flags = [fin |-> FALSE, rsv |-> 0, opcode |-> CONTINUATION, mask |-> FALSE,
                   frag_opcode |-> CONTINUATION, is_fragmented |-> FALSE,
                   is_frag_compressed |-> FALSE]
    /\ length = 0
    /\ gathered = FALSE
    /\ sent = "nothing"
    /\ close_code = 0
    /\ event = Nothing
    /\ fault = "none"

-----------------------------------------------------------------------------
(* Ending a connection                                                     *)

\* Mutant of WebsocketClose: the close frame does not wait for the upgrade.
WebsocketCloseAlways(code, before) ==
    /\ sent' = "close"
    /\ close_code' = code
    /\ connection' = "freed"
    /\ reading' = "none"

\* websocket_close; before is what the step has sent already.
WebsocketClose(code, before) ==
    /\ sent' = IF upgrade_complete THEN "close" ELSE before
    /\ close_code' = IF upgrade_complete THEN code ELSE 0
    /\ connection' = "freed"
    /\ reading' = "none"

\* Mutant of HandleError: on_error is not called.
HandleErrorAlone(code, before) ==
    /\ WebsocketClose(code, before)
    /\ peer' = peer

\* handle_error, whose on_error frees the peer.
HandleError(code, before) ==
    /\ WebsocketClose(code, before)
    /\ peer' = "freed"

\* send_http_error_response and free_connection: no websocket is told.
FreeConnection(answer) ==
    /\ sent' = answer
    /\ connection' = "freed"
    /\ reading' = "none"
    /\ UNCHANGED <<peer, close_code>>

Faulty(f) ==
    /\ fault' = f
    /\ reading' = "none"
    /\ event' = Nothing
    /\ UNCHANGED <<connection, peer, sent, close_code>>

-----------------------------------------------------------------------------
(* The HTTP request                                                        *)

\* alloc_websocket_peer succeeds: the peer is in the peer list.
PeerCreated ==
    /\ peer' = "listed"
    /\ reading' = "header_line"

\* read_start_line.  on_url creates the peer as soon as the URL is parsed,
\* and ignores a failure of that; the rest of the line may still be refused.
StartLine ==
    /\ reading = "start_line"
    /\ \/ \* bad request, or no handler for the URL
          FreeConnection("http_error") /\ UNCHANGED handshake
       \/ \* the version after the URL is bad
          /\ sent' = "http_error"
          /\ connection' = "freed"
          /\ reading' = "none"
          /\ peer' \in {"none", "listed"}
          /\ UNCHANGED <<handshake, close_code>>
       \/ \* the line is fine, alloc_websocket_peer succeeds or fails
          /\ \E ok \in BOOLEAN : handshake' = [handshake EXCEPT !.request_ok = ok]
          /\ PeerCreated \/ (peer' = "none" /\ reading' = "orphan_line")
          /\ UNCHANGED <<connection, sent, close_code>>
    /\ event' = Nothing
    /\ UNCHANGED <<upgrade_complete, accepted, frameVars, fault>>

\* Without a peer read_start_line stays installed: the handlers of the URL
\* take parser.data, which nobody has set, for a websocket.
OrphanLine ==
    /\ reading = "orphan_line"
    /\ \/ Faulty("no_websocket")
       \/ /\ FreeConnection("http_error")  \* end of the headers
          /\ event' = Nothing
          /\ fault' = fault
    /\ UNCHANGED <<handshakeVars, frameVars>>

\* websocket_read_header_line with a header that is refused: one the parser
\* rejects, a key of the wrong length or a version other than 13.
RefusedHeader ==
    /\ reading = "header_line"
    /\ HandleError(GOING_AWAY, "http_error")
    /\ event' = Nothing
    /\ UNCHANGED <<handshakeVars, frameVars, fault>>

\* A header line that is accepted, after which the request has said h and the
\* compression is accepted or not.
HeaderLine(h, a) ==
    /\ reading = "header_line"
    /\ handshake' = h
    /\ accepted' = a
    /\ event' = Nothing
    /\ UNCHANGED <<reading, connection, peer, upgrade_complete, frameVars, sent, close_code, fault>>

\* Upgrade: the parser notes it.
UpgradeHeader == HeaderLine([handshake EXCEPT !.upgrade = TRUE], accepted)

\* Sec-WebSocket-Protocol, with our sub-protocol among those named or not
ProtocolHeader ==
    \E match \in BOOLEAN :
        HeaderLine([handshake EXCEPT !.requested = TRUE, !.found = @ \/ match], accepted)

\* Sec-WebSocket-Extensions with parameters fill_requested_extension accepts
ExtensionHeader == user.compression /\ HeaderLine(handshake, TRUE)

\* The tests of websocket_upgrade_on_headers_complete and
\* send_upgrade_response.
UpgradeAllowed ==
    /\ handshake.request_ok
    /\ handshake.upgrade
    /\ handshake.requested => handshake.found

HeadersComplete ==
    /\ reading = "header_line"
    /\ \/ /\ UpgradeAllowed
          /\ sent' = "upgrade"
          /\ upgrade_complete' = TRUE
          /\ reading' = "header"
          /\ UNCHANGED <<connection, peer, close_code>>
       \/ \* refused, or the response cannot be written
          /\ HandleError(GOING_AWAY, "http_error")
          /\ upgrade_complete' = upgrade_complete
    /\ event' = Nothing
    /\ UNCHANGED <<handshake, accepted, frameVars, fault>>

-----------------------------------------------------------------------------
(* Frames: ws_handle_frame, for a frame with flags fl and length len       *)

RsvRefused(fl) ==
    /\ fl.rsv # 0
    /\ ~ accepted \/ fl.rsv # CompressedBit \/ fl.opcode >= CLOSE

\* Mutant of FragmentRefused: a new message may begin inside another one.
FragmentNested(fl) ==
    \/ ~ fl.fin /\ fl.opcode >= CLOSE
    \/ ~ fl.fin /\ fl.opcode = CONTINUATION /\ (fl.rsv # 0 \/ ~ fl.is_fragmented)

FragmentRefused(fl) ==
    \/ ~ fl.fin /\ fl.opcode >= CLOSE
    \/ ~ fl.fin /\ fl.opcode = CONTINUATION /\ (fl.rsv # 0 \/ ~ fl.is_fragmented)
    \/ fl.is_fragmented /\ fl.opcode \in 1 .. (CLOSE - 1)

\* The flags once the first frame of a fragmented message is noted.
Started(fl) ==
    IF ~ fl.fin /\ fl.opcode # CONTINUATION
    THEN [fl EXCEPT !.is_fragmented = TRUE,
                    !.is_frag_compressed = @ \/ fl.rsv # 0,
                    !.frag_opcode = fl.opcode,
                    !.opcode = CONTINUATION]
    ELSE fl

Ended(fl) ==
    IF fl.fin
    THEN [fl EXCEPT !.is_fragmented = FALSE, !.is_frag_compressed = FALSE,
                    !.frag_opcode = CONTINUATION]
    ELSE fl

Type(opcode) == IF opcode = TEXT THEN "text" ELSE "binary"

\* WS_OK: the next frame is read.
NextFrame(fl, g, answer) ==
    /\ reading' = "header"
    /\ ws_flags' = fl
    /\ gathered' = g
    /\ sent' = answer
    /\ UNCHANGED <<connection, peer, close_code, fault>>

Ends(fl, code, before) ==
    /\ HandleError(code, before)
    /\ ws_flags' = fl
    /\ UNCHANGED <<gathered, fault>>

Dies(fl, f) ==
    /\ Faulty(f)
    /\ ws_flags' = fl
    /\ gathered' = gathered

\* The user gets e and answers WS_OK, WS_ERROR or, for text that is not
\* UTF-8, WS_CLOSED.
Deliver(fl, e) ==
    /\ event' = e
    /\ \/ NextFrame(fl, FALSE, sent)
       \/ Ends(fl, INTERNAL_ERROR, sent)
       \/ e.type = "text" /\ Ends(fl, UNSUPPORTED_DATA, sent)

Callback(type, what) ==
    CASE type = "text" /\ what = "message" -> "text_message"
      [] type = "text" /\ what = "frame" -> "text_frame"
      [] type = "binary" /\ what = "message" -> "binary_message"
      [] type = "binary" /\ what = "frame" -> "binary_frame"

\* The continuation case, and text_frame_received_comp and
\* binary_frame_received_comp.  The frame callbacks are not tested for NULL.
Fragment(fl, len) ==
    LET type == Type(fl.frag_opcode)
        held == gathered \/ len > 0
        hand == IF Callback(type, "frame") \in user.callbacks
                THEN Deliver(Ended(fl), [what |-> "frame", type |-> type, last |-> fl.fin])
                ELSE Dies(fl, "null_callback")
    IN  \/ /\ fl.frag_opcode \notin {TEXT, BINARY}
           /\ Ends(fl, PROTOCOL_ERROR, sent)
           /\ event' = Nothing
        \/ /\ fl.frag_opcode \in {TEXT, BINARY}
           /\ ~ fl.is_frag_compressed
           /\ hand
        \/ /\ fl.frag_opcode \in {TEXT, BINARY}
           /\ fl.is_frag_compressed
           /\ \/ ~ fl.fin /\ NextFrame(fl, held, sent) /\ event' = Nothing
              \/ fl.fin /\ held /\ hand
              \/ fl.fin /\ ~ held /\ Dies(fl, "no_buffer")
              \/ \* no memory, or the data cannot be inflated
                 /\ len > 0 \/ (fl.fin /\ held)
                 /\ Ends(Ended(fl), INTERNAL_ERROR, sent)
                 /\ event' = Nothing

\* Mutant of Message: the message callbacks are not tested for NULL either.
MessageUntested(fl) ==
    IF Callback(Type(fl.opcode), "message") \in user.callbacks
    THEN Deliver(fl, [what |-> "message", type |-> Type(fl.opcode), last |-> TRUE])
    ELSE Dies(fl, "null_callback")

\* The text and binary cases, and text_received_comp and binary_received_comp.
Message(fl) ==
    LET type == Type(fl.opcode)
        set == Callback(type, "message") \in user.callbacks
    IN  \/ /\ set
           /\ Deliver(fl, [what |-> "message", type |-> type, last |-> TRUE])
        \/ /\ set
           /\ fl.rsv # 0                     \* the data cannot be inflated
           /\ Ends(fl, INTERNAL_ERROR, sent)
           /\ event' = Nothing
        \/ /\ ~ set
           /\ Ends(fl, UNSUPPORTED, sent)
           /\ event' = Nothing

Ping(fl, len) ==
    /\ IF len > SmallFrame
       THEN Ends(fl, PROTOCOL_ERROR, sent)
       ELSE NextFrame(fl, gathered, "frame") \/ Ends(fl, INTERNAL_ERROR, sent)
    /\ event' = Nothing

Pong(fl, len) ==
    /\ IF len > SmallFrame THEN Ends(fl, PROTOCOL_ERROR, sent) ELSE NextFrame(fl, gathered, sent)
    /\ event' = Nothing

\* is_status_code_invalid
StatusCodeInvalid(c) == c \notin (1000 .. 1003) \cup (1007 .. 1011) \cup (3000 .. 4999)

\* A close frame is answered with one, its reason and status are checked
\* first; a frame without status counts as NORMAL.
Close(fl, len) ==
    /\ \/ len > 2 /\ Ends(fl, UNSUPPORTED_DATA, sent)  \* the reason is not UTF-8
       \/ \E c \in IF len >= 2 THEN StatusCodes ELSE {NORMAL} :
             IF len = 1 \/ len > SmallFrame \/ StatusCodeInvalid(c)
             THEN Ends(fl, PROTOCOL_ERROR, sent)
             ELSE /\ WebsocketClose(NORMAL, sent)
                  /\ peer' = IF "close" \in user.callbacks THEN "freed" ELSE peer
                  /\ ws_flags' = fl
                  /\ UNCHANGED <<gathered, fault>>
    /\ event' = Nothing

HandleFrame(fl, len) ==
    LET st == Started(fl)
    IN  IF RsvRefused(fl) \/ FragmentRefused(fl)
        THEN Ends(fl, PROTOCOL_ERROR, sent) /\ event' = Nothing
        ELSE CASE st.opcode = CONTINUATION -> Fragment(st, len)
               [] st.opcode \in {TEXT, BINARY} -> Message(st)
               [] st.opcode = PING -> Ping(st, len)
               [] st.opcode = PONG -> Pong(st, len)
               [] st.opcode = CLOSE -> Close(st, len)
               [] OTHER -> Ends(st, PROTOCOL_ERROR, sent) /\ event' = Nothing

\* Mutant of GetPayload: frames need not be masked.
GetPayloadUnmasked(fl, len) == HandleFrame(fl, len)

\* ws_get_payload of a server
GetPayload(fl, len) ==
    IF fl.mask THEN HandleFrame(fl, len)
    ELSE Ends(fl, PROTOCOL_ERROR, sent) /\ event' = Nothing

\* ws_get_mask and read_mask_or_payload ask for the payload unless it is empty.
Await(callback, fl) ==
    /\ reading' = callback
    /\ ws_flags' = fl
    /\ event' = Nothing
    /\ UNCHANGED <<connection, peer, gathered, sent, close_code, fault>>

PayloadOrFrame(fl, len) ==
    IF len > 0 THEN Await("payload", fl) ELSE GetPayload(fl, 0)

ReadMaskOrPayload(fl, len) ==
    /\ length' = len
    /\ IF fl.mask THEN Await("mask", fl) ELSE PayloadOrFrame(fl, len)

\* ws_get_header
FrameHeader ==
    /\ reading = "header"
    /\ \E fin \in BOOLEAN, rsv \in {0, 1, CompressedBit}, opcode \in Opcodes :
          Await("first_length", [ws_flags EXCEPT !.fin = fin, !.rsv = rsv, !.opcode = opcode])
    /\ UNCHANGED <<handshakeVars, length>>

\* ws_get_first_length
FirstLength ==
    /\ reading = "first_length"
    /\ \E mask \in BOOLEAN :
          LET fl == [ws_flags EXCEPT !.mask = mask]
          IN  \/ \E len \in {x \in Lengths : x < 126} : ReadMaskOrPayload(fl, len)
              \/ Await("length16", fl) /\ length' = length
              \/ Await("length64", fl) /\ length' = length
    /\ UNCHANGED handshakeVars

\* ws_get_length16 and ws_get_length64
LongLength ==
    /\ \/ /\ reading = "length16"
          /\ \E len \in {x \in Lengths : x < 2 ^ 16} : ReadMaskOrPayload(ws_flags, len)
       \/ /\ reading = "length64"
          /\ \E len \in Lengths : ReadMaskOrPayload(ws_flags, len)
    /\ UNCHANGED handshakeVars

\* ws_get_mask
Mask ==
    /\ reading = "mask"
    /\ PayloadOrFrame(ws_flags, length)
    /\ UNCHANGED <<handshakeVars, length>>

\* ws_get_payload, for a payload the read buffer can hold
Payload ==
    /\ reading = "payload"
    /\ length <= MaxMessageSize
    /\ GetPayload(ws_flags, length)
    /\ UNCHANGED <<handshakeVars, length>>

-----------------------------------------------------------------------------
(* The other side, the socket and the server                               *)

\* The other side has closed (a callback with length 0), or the error handler
\* is called: the socket fails, or a line or payload does not fit into the
\* buffer.  Until there is a peer the handler is free_connection.
ConnectionLost ==
    /\ reading # "none"
    /\ IF peer = "listed" THEN HandleError(GOING_AWAY, sent) ELSE FreeConnection(sent)
    /\ event' = Nothing
    /\ UNCHANGED <<handshakeVars, frameVars, fault>>

\* ws_send_message: what is sent to a peer follows from its own requests, so
\* the upgrade is complete.
SendMessage ==
    /\ upgrade_complete
    /\ reading # "none"
    /\ sent' = "frame"
    /\ event' = Nothing
    /\ UNCHANGED <<reading, connection, peer, handshakeVars, frameVars, close_code, fault>>

\* destroy_all_peers, peer_close_websocket_peer
Shutdown ==
    /\ peer = "listed"
    /\ fault = "none"
    /\ IF connection = "open"
       THEN HandleError(GOING_AWAY, sent) /\ event' = Nothing /\ fault' = fault
       ELSE Faulty("freed_connection")
    /\ UNCHANGED <<handshakeVars, frameVars>>

Step ==
    \/ StartLine \/ OrphanLine \/ RefusedHeader
    \/ UpgradeHeader \/ ProtocolHeader \/ ExtensionHeader \/ HeadersComplete
    \/ FrameHeader \/ FirstLength \/ LongLength \/ Mask \/ Payload
    \/ ConnectionLost \/ SendMessage \/ Shutdown

Next == Step /\ UNCHANGED user

Spec == Init /\ [][Next]_vars

-----------------------------------------------------------------------------
TypeOK ==
    /\ user \in Users
    /\ reading \in {"start_line", "orphan_line", "header_line", "header", "first_length",
                    "length16", "length64", "mask", "payload", "none"}
    /\ connection \in {"open", "freed"}
    /\ peer \in {"none", "listed", "freed"}
    /\ handshake \in [request_ok : BOOLEAN, upgrade : BOOLEAN, requested : BOOLEAN, found : BOOLEAN]
    /\ upgrade_complete \in BOOLEAN
    /\ accepted \in BOOLEAN
    /\ ws_flags \in [fin : BOOLEAN, rsv : 0 .. 7, opcode : 0 .. 15, mask : BOOLEAN,
                     frag_opcode : 0 .. 15, is_fragmented : BOOLEAN, is_frag_compressed : BOOLEAN]
    /\ length \in Lengths \cup {0}
    /\ gathered \in BOOLEAN
    /\ sent \in {"nothing", "http_error", "upgrade", "frame", "close"}
    /\ close_code \in {0, NORMAL, GOING_AWAY, PROTOCOL_ERROR, UNSUPPORTED, UNSUPPORTED_DATA,
                       INTERNAL_ERROR}
    /\ event.what \in {"nothing", "message", "frame"}
    /\ event.type \in {"none", "text", "binary"}
    /\ event.last \in BOOLEAN
    /\ fault \in {"none", "null_callback", "no_buffer", "no_websocket", "freed_connection"}

\* A frame as RFC 6455 and RFC 7692 allow it after the frames before it.
Legal(fl, mask, len) ==
    /\ mask
    /\ fl.opcode \in {CONTINUATION, TEXT, BINARY, CLOSE, PING, PONG}
    /\ fl.opcode < CLOSE => (fl.opcode = CONTINUATION <=> fl.is_fragmented)
    /\ fl.opcode >= CLOSE => fl.fin /\ len <= SmallFrame
    /\ fl.opcode = CLOSE => len # 1
    /\ fl.rsv # 0 => accepted /\ fl.rsv = CompressedBit /\ fl.opcode \in {TEXT, BINARY}

InFrame == reading \in {"first_length", "length16", "length64", "mask", "payload"}

\* What ws_handle_frame lets pass although it breaks the protocol: it looks at
\* the RSV bits of a continuation frame only if FIN is not set.
StrayCompressionBit(fl, mask, len) ==
    /\ fl.opcode = CONTINUATION /\ fl.fin
    /\ fl.rsv = CompressedBit /\ accepted
    /\ Legal([fl EXCEPT !.rsv = 0], mask, len)

\* A frame ends the connection with "protocol error" only if, seen with all
\* frames before it, it breaks the protocol, or is a close frame with a status
\* code; and no frame that breaks it is delivered or passed over but one with a
\* stray bit: the tests of ws_get_payload and ws_handle_frame, with control
\* frames between the fragments of a message, are as strict as the protocol.
FramesJudgedRight ==
    [][LET refused == close_code' = PROTOCOL_ERROR /\ close_code # PROTOCOL_ERROR
           passed == InFrame /\ (reading' = "header" \/ event' # Nothing)
           mask == ws_flags'.mask
       IN  /\ refused => \/ ~ Legal(ws_flags, mask, length')
                         \/ ws_flags.opcode = CLOSE /\ length' >= 2
           /\ passed => \/ Legal(ws_flags, mask, length')
                        \/ StrayCompressionBit(ws_flags, mask, length')]_vars

\* What the client is sent comes in order: either an HTTP error and nothing
\* more, or the upgrade response, frames, and a close frame as the last one.
SentInOrder ==
    [][sent' # sent =>
          <<sent, sent'>> \in {<<"nothing", "http_error">>, <<"nothing", "upgrade">>,
                              <<"upgrade", "frame">>, <<"upgrade", "close">>,
                              <<"frame", "close">>}]_vars

\* A peer in the peer list has its connection, which destroy_all_peers relies
\* on, and a connection past its start line has its peer.  The only peer
\* without connection is one whose start line was refused after the URL.
PeerOwnsConnection ==
    /\ TypeOK
    /\ (peer = "listed" /\ connection = "freed") =>
          sent = "http_error" /\ ~ handshake.request_ok /\ ~ upgrade_complete
    /\ reading \notin {"start_line", "orphan_line", "none"} =>
          peer = "listed" /\ connection = "open"
    /\ connection = "freed" => reading = "none"

\* A missing callback is called only for a frame of a fragmented message; the
\* buffer of a compressed message is missing only if no fragment had data;
\* and a shutdown meets a freed connection only after a refused start line.
FaultsExplained ==
    /\ fault = "null_callback" =>
          /\ ws_flags.is_fragmented
          /\ Callback(Type(ws_flags.frag_opcode), "frame") \notin user.callbacks
    /\ fault = "no_buffer" =>
          ws_flags.is_frag_compressed /\ accepted /\ ~ gathered /\ length = 0
    /\ fault = "freed_connection" => sent = "http_error" /\ ~ upgrade_complete
    /\ fault = "no_websocket" => peer = "none"

-----------------------------------------------------------------------------
Stream == INSTANCE MessageStream WITH
    gathers <- user.compression,
    phase <- IF reading = "none" THEN "closed"
             ELSE IF upgrade_complete THEN "open" ELSE "handshake",
    message <- IF reading # "none" /\ ws_flags.is_fragmented /\ ~ ws_flags.is_frag_compressed
               THEN Type(ws_flags.frag_opcode) ELSE "none"

\* The user of the websocket gets messages and frames in the order a
\* MessageStream allows, whatever frames the client sends, and nothing before
\* the upgrade or after the end.
ImplementsStream == Stream!Spec
=============================================================================
