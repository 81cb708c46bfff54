----------------------------- MODULE HttpParser -----------------------------
(***************************************************************************)
(* The HTTP parser the daemon reads requests with (http-parser, compiled   *)
(* strict): http_parser_execute, fed one piece of the stream at a time,    *)
(* and a peer that writes messages.                                        *)
(*                                                                         *)
(* A symbol is a character, or a run of characters the parser can only     *)
(* take as a whole or refuse ("ET" of GET, "nection" of connection).  What *)
(* the callbacks deliver is collected symbol by symbol, so that how the    *)
(* stream was cut into pieces cannot be seen in it.                        *)
(***************************************************************************)
EXTENDS HttpChars, SequencesExt

CONSTANTS
    MaxLength,      \* bound: ULLONG_MAX, which also stands for "no length"
    MaxHeader,      \* bound: HTTP_MAX_HEADER_SIZE
    StartLines,     \* what the peer may begin a message with
    Lines,          \* the header lines it may write
    Chunks,         \* the chunks it may write
    Plans,          \* bounds: [lines of a message, messages of a connection, refuses (the
                    \* callback that fails), answer (of on_headers_complete), noise]
    Noise           \* symbols that may replace a symbol of the peer

VARIABLES
    p,              \* struct http_parser, with the locals of http_parser_execute
    heard,          \* what the callbacks were told since the last agreement
    w,              \* the peer: what it is about to write
    said            \* what it has written since the last agreement

vars == <<p, heard, w, said>>

-----------------------------------------------------------------------------
(* What http_parser_execute does with errors, marks and callbacks.         *)

\* PARSING_HEADER is false.
BodyStates ==
    {"chunk_data", "chunk_data_almost_done", "chunk_data_done", "body_identity",
     "body_identity_eof", "message_done"}

\* http_parser_init
InitParser(type, refuses, answer) ==
    [type |-> type,
     state |-> CASE type = "request" -> "start_req"
                 [] type = "response" -> "start_res"
                 [] OTHER -> "start_req_or_res",
     header_state |-> "general", word |-> <<>>, flags |-> {}, content_length |-> 0,
     nread |-> 0, major |-> 0, minor |-> 0, method |-> "DELETE", index |-> 0,
     status_code |-> 0, upgrade |-> FALSE, http_errno |-> "OK",
     mark |-> "none", marked |-> <<>>, loop |-> "no", run |-> 0,
     returned |-> FALSE, asserts |-> TRUE, calls |-> <<>>,
     refuses |-> refuses, answer |-> answer]

Ok(q) == q.http_errno = "OK"
Fail(q, error) == [q EXCEPT !.http_errno = error]
To(q, state) == [q EXCEPT !.state = state]
Asserting(q, holds) == [q EXCEPT !.asserts = @ /\ holds]

\* COUNT_HEADER_SIZE
Count(q, n) ==
    IF q.nread + n > MaxHeader
    THEN Fail([q EXCEPT !.nread = @ + n], "HEADER_OVERFLOW")
    ELSE [q EXCEPT !.nread = @ + n]

\* CALLBACK_NOTIFY
Notify(q, event) ==
    [q EXCEPT !.calls = Append(@, event), !.http_errno = IF q.refuses = event[1] THEN "CB" ELSE @]

\* MARK
Mark(q, kind) ==
    IF q.mark = kind THEN q
    ELSE [Asserting(q, q.mark = "none") EXCEPT !.mark = kind, !.marked = <<>>]

\* CALLBACK_DATA: a callback for no characters still tells of an empty text.
Data(q) ==
    IF q.mark = "none" THEN q
    ELSE LET texts == IF q.marked = <<>> THEN <<<<q.mark, "">>>>
                      ELSE [i \in DOMAIN q.marked |-> <<q.mark, q.marked[i]>>]
         IN  [q EXCEPT !.calls = @ \o texts,
                       !.http_errno = IF q.refuses = q.mark THEN "CB" ELSE @,
                       !.mark = "none", !.marked = <<>>]

\* http_message_needs_eof
NeedsEof(q) ==
    /\ q.type # "request"
    /\ q.status_code \notin (100 .. 199) \cup {204, 304}
    /\ "skipbody" \notin q.flags
    /\ "chunked" \notin q.flags
    /\ q.content_length = MaxLength

\* http_should_keep_alive
ShouldKeepAlive(q) ==
    /\ IF q.major > 0 /\ q.minor > 0 THEN "close" \notin q.flags ELSE "keep_alive" \in q.flags
    /\ ~NeedsEof(q)

StartState(q) == IF q.type = "request" THEN "start_req" ELSE "start_res"

\* NEW_MESSAGE
NewMessage(q) == To(q, IF ShouldKeepAlive(q) THEN StartState(q) ELSE "dead")

Complete(q) == Notify(NewMessage(q), <<"complete">>)

-----------------------------------------------------------------------------
(* The states, from the end of a message to its beginning: an operator     *)
(* that reexecutes the symbol uses one above it.                           *)

MessageDone(q, ch) ==
    LET r == Complete(q) IN [r EXCEPT !.returned = Ok(r) /\ q.upgrade]

\* One more byte of a body whose length is known.
Counted(q) ==
    [Mark(Asserting(q, q.content_length \notin {0, MaxLength}), "body") EXCEPT !.content_length = @ - 1]

BodyIdentity(q, ch) ==
    LET r == Counted(q)
        last == Data([To(r, "message_done") EXCEPT !.marked = Append(@, ch)])
    IN  IF r.content_length # 0 THEN r
        ELSE IF Ok(last) THEN MessageDone(last, ch) ELSE last

Chunked(q) == Asserting(q, "chunked" \in q.flags)

ChunkSizeStart(q, ch) ==
    LET r == Asserting(Chunked(q), q.nread = 1)
    IN  IF ch \in DOMAIN Hex
        THEN [To(r, "chunk_size") EXCEPT !.content_length = Hex[ch]]
        ELSE Fail(r, "INVALID_CHUNK_SIZE")

\* The conservative limit that keeps length * base + digit below 2^64.
TooLarge(length, base) == length > (MaxLength - base) \div base

Longer(q, base, digit) ==
    IF TooLarge(q.content_length, base) THEN Fail(q, "INVALID_CONTENT_LENGTH")
    ELSE [q EXCEPT !.content_length = (@ * base + digit) % (MaxLength + 1)]

ChunkSize(q, ch) ==
    LET r == Chunked(q)
    IN  CASE ch = "CR" -> To(r, "chunk_size_almost_done")
          [] ch \in DOMAIN Hex -> Longer(r, 16, Hex[ch])
          [] ch \in {";", "SP"} -> To(r, "chunk_parameters")
          [] OTHER -> Fail(r, "INVALID_CHUNK_SIZE")

ChunkParameters(q, ch) == IF ch = "CR" THEN To(Chunked(q), "chunk_size_almost_done") ELSE Chunked(q)

ChunkSizeAlmostDone(q, ch) ==
    LET r == [Chunked(q) EXCEPT !.nread = 0]
        last == q.content_length = 0
    IN  IF ch # "LF" THEN Fail(Chunked(q), "STRICT")
        ELSE Notify(IF last THEN [To(r, "header_field_start") EXCEPT !.flags = @ \cup {"trailing"}]
                            ELSE To(r, "chunk_data"),
                    <<"chunk_header", q.content_length>>)

ChunkData(q, ch) ==
    LET r == Counted(Chunked(q))
    IN  IF r.content_length = 0 THEN To(r, "chunk_data_almost_done") ELSE r

ChunkDataAlmostDone(q, ch) ==
    LET r == Asserting(Chunked(q), q.content_length = 0)
    IN  IF ch # "CR" THEN Fail(r, "STRICT") ELSE Data(To(r, "chunk_data_done"))

ChunkDataDone(q, ch) ==
    IF ch # "LF" THEN Fail(Chunked(q), "STRICT")
    ELSE Notify([To(Chunked(q), "chunk_size_start") EXCEPT !.nread = 0], <<"chunk_complete">>)

HeadersDone(q, ch) ==
    LET r == [q EXCEPT !.nread = 0]
        hasBody == "chunked" \in q.flags \/ q.content_length \notin {0, MaxLength}
        done == Complete(r)
    IN  CASE ch # "LF" -> Fail(q, "STRICT")
          [] q.upgrade /\ (q.method = "CONNECT" \/ "skipbody" \in q.flags \/ ~hasBody) ->
                [done EXCEPT !.returned = Ok(done)]
          [] OTHER ->
                CASE "skipbody" \in q.flags -> done
                  [] "chunked" \in q.flags -> To(r, "chunk_size_start")
                  [] q.content_length = 0 -> done
                  [] q.content_length # MaxLength -> To(r, "body_identity")
                  [] ~NeedsEof(q) -> done
                  [] OTHER -> To(r, "body_identity_eof")

HeadersAlmostDone(q, ch) ==
    LET trailer == Notify(To(q, "message_done"), <<"chunk_complete">>)
        upgrade == {"upgrade", "conn_upgrade"} \subseteq q.flags \/ q.method = "CONNECT"
        what == IF q.type = "request" THEN q.method ELSE q.status_code
        told == Notify([To(q, "headers_done") EXCEPT !.upgrade = upgrade],
                       <<"headers", what, q.major, q.minor, upgrade>>)
        answered == [told EXCEPT !.upgrade = @ \/ q.answer = 2,
                                 !.flags = IF q.answer = 0 THEN @ ELSE @ \cup {"skipbody"}]
    IN  CASE ch # "LF" -> Fail(q, "STRICT")
          [] "trailing" \in q.flags -> IF Ok(trailer) THEN MessageDone(trailer, ch) ELSE trailer
          [] {"chunked", "contentlength"} \subseteq q.flags /\ "trailing" \notin q.flags ->
                Fail(q, "UNEXPECTED_CONTENT_LENGTH")
          [] OTHER -> IF Ok(told) THEN HeadersDone(answered, ch) ELSE told

-----------------------------------------------------------------------------
(* Header lines.  header_state and index, which follow a word character by *)
(* character, are the part of the word so far and what it can be.          *)

KnownFields ==
    (<<"con", "nection">> :> "connection")
    @@ (<<"proxy-", "con", "nection">> :> "connection")
    @@ (<<"con", "tent-length">> :> "content_length")
    @@ (<<"transfer-", "encoding">> :> "transfer_encoding")
    @@ (<<"up", "grade">> :> "upgrade")

KnownTokens ==
    (<<"keep-", "alive">> :> "keep_alive") @@ (<<"clo", "se">> :> "close")
    @@ (<<"up", "grade">> :> "conn_upgrade")

\* The state of header_state after the symbols of word.
Matched(word, known, otherwise) ==
    CASE word \in DOMAIN known -> known[word]
      [] \E k \in DOMAIN known : IsStrictPrefix(word, k) -> "matching"
      [] OTHER -> otherwise

FieldWord(q, word) ==
    LET s == Matched(word, KnownFields, "general")
    IN  [q EXCEPT !.header_state = s, !.word = IF s = "general" THEN <<>> ELSE word]

HeaderFieldStart(q, ch) ==
    CASE ch = "CR" -> To(q, "headers_almost_done")
      [] ch = "LF" -> HeadersAlmostDone(To(q, "headers_almost_done"), ch)
      [] ~IsToken(ch) /\ ch \notin EndOfLine -> Fail(q, "INVALID_HEADER_TOKEN")
      [] OTHER -> FieldWord(To(Mark(q, "field"), "header_field"), <<ch>>)

\* The inner loops count what they took when they end.
Looping(q) == IF q.loop = "no" THEN [q EXCEPT !.loop = "yes", !.run = 0] ELSE q
LoopEnds(q) == [Count(q, q.run) EXCEPT !.loop = "no", !.run = 0]

HeaderField(q0, ch) ==
    LET q == Looping(q0)
        ended == LoopEnds(q)
    IN  CASE IsToken(ch) ->
                LET r == [q EXCEPT !.run = @ + 1]
                IN  IF q.header_state = "general" THEN r ELSE FieldWord(r, Append(q.word, ch))
          [] ~IsToken(ch) /\ ~Ok(ended) -> ended
          [] ch = ":" /\ Ok(ended) -> Data(To(ended, "header_value_discard_ws"))
          [] OTHER -> Fail(ended, "INVALID_HEADER_TOKEN")

\* What the flags say once a word is complete.
Flagged(q) ==
    IF q.header_state \in {"keep_alive", "close", "conn_upgrade", "chunked"}
    THEN [q EXCEPT !.flags = @ \cup {q.header_state}] ELSE q

TokenWord(q, word) ==
    LET s == Matched(word, KnownTokens, "token")
    IN  [q EXCEPT !.header_state = IF s = "matching" THEN "connection_matching" ELSE s,
                  !.word = IF s = "matching" THEN word ELSE <<>>]

FirstDigit(q, ch) ==
    CASE ~IsDigit(ch) -> Fail(q, "INVALID_CONTENT_LENGTH")
      [] IsDigit(ch) /\ "contentlength" \in q.flags -> Fail(q, "UNEXPECTED_CONTENT_LENGTH")
      [] OTHER -> [q EXCEPT !.flags = @ \cup {"contentlength"}, !.content_length = Digits[ch]]

HeaderValueStart(q, ch) ==
    LET r == [To(Mark(q, "value"), "header_value") EXCEPT !.word = <<>>]
        general == [r EXCEPT !.header_state = "general"]
    IN  CASE q.header_state = "upgrade" -> [general EXCEPT !.flags = @ \cup {"upgrade"}]
          [] q.header_state = "transfer_encoding" ->
                IF ch = "chun" THEN [r EXCEPT !.header_state = "chunked_matching"] ELSE general
          [] q.header_state = "content_length" -> FirstDigit(r, ch)
          [] q.header_state = "connection" -> TokenWord(r, <<ch>>)
          [] q.header_state = "token_start" -> r
          [] OTHER -> general

\* A character of a value, by header_state.
ValueChar(q, ch) ==
    LET state(s) == [q EXCEPT !.header_state = s]
    IN  CASE q.header_state = "content_length" ->
                CASE ch = "SP" -> q
                  [] IsDigit(ch) -> Longer(q, 10, Digits[ch])
                  [] OTHER -> Fail(q, "INVALID_CONTENT_LENGTH")
          [] q.header_state = "chunked_matching" -> state(IF ch = "ked" THEN "chunked" ELSE "general")
          [] q.header_state = "chunked" -> IF ch = "SP" THEN q ELSE state("general")
          [] q.header_state = "token_start" ->
                CASE IsToken(ch) -> TokenWord(q, <<ch>>)
                  [] ch \in Blank -> q
                  [] OTHER -> state("general")
          [] q.header_state = "connection_matching" -> TokenWord(q, Append(q.word, ch))
          [] q.header_state = "token" -> IF ch = "," THEN state("token_start") ELSE q
          [] q.header_state \in {"keep_alive", "close", "conn_upgrade"} ->
                CASE ch = "," -> [Flagged(q) EXCEPT !.header_state = "token_start"]
                  [] ch = "SP" -> q
                  [] OTHER -> state("token")
          [] OTHER -> state("general")

HeaderAlmostDone(q, ch) ==
    IF ch = "LF" THEN To(q, "header_value_lws") ELSE Fail(q, "LF_EXPECTED")

HeaderValue(q0, ch) ==
    LET q == Looping(q0)
        told == Data(To(q, "header_almost_done"))
        counted == LoopEnds(To(q, "header_almost_done"))
        both == Data(counted)
        next == [ValueChar(q, ch) EXCEPT !.run = @ + 1,
                                         !.loop = IF q.header_state = "general" THEN "skip" ELSE "yes"]
    IN  CASE ch = "CR" -> IF Ok(told) THEN LoopEnds(told) ELSE told
          [] ch = "LF" -> CASE ~Ok(counted) -> counted
                            [] Ok(counted) /\ ~Ok(both) -> both
                            [] OTHER -> HeaderAlmostDone(both, ch)
          [] ch \notin EndOfLine /\ q.loop = "skip" -> [q EXCEPT !.run = @ + 1]
          [] OTHER -> IF IsHeaderChar(ch) THEN next ELSE Fail(q, "INVALID_HEADER_TOKEN")

HeaderValueLws(q, ch) ==
    IF ch \in Blank THEN HeaderValueStart(q, ch)
    ELSE HeaderFieldStart(To(Flagged(q), "header_field_start"), ch)

HeaderValueDiscardWs(q, ch) ==
    CASE ch \in Blank -> q
      [] ch = "CR" -> To(q, "header_value_discard_ws_almost_done")
      [] ch = "LF" -> To(q, "header_value_discard_lws")
      [] OTHER -> HeaderValueStart(q, ch)

HeaderValueDiscardLws(q, ch) ==
    LET empty == Data(Mark(To(Flagged(q), "header_field_start"), "value"))
    IN  CASE ch \in Blank -> To(q, "header_value_discard_ws")
          [] ch \notin Blank /\ Ok(empty) -> HeaderFieldStart(empty, ch)
          [] OTHER -> empty

-----------------------------------------------------------------------------
(* Start lines.                                                            *)

\* Each message starts without flags and without a length.
Fresh(q) == [q EXCEPT !.flags = {}, !.content_length = MaxLength]

\* The method the first letter stands for, the rest of its name, and the
\* methods another rest turns it into.
FirstLetter == ("G" :> "GET") @@ ("H" :> "HEAD") @@ ("P" :> "POST") @@ ("C" :> "CONNECT")
RestOf == ("GET" :> "ET") @@ ("HEAD" :> "EAD") @@ ("POST" :> "OST") @@ ("CONNECT" :> "ONNECT")
Turns == (<<"POST", "UT">> :> "PUT") @@ (<<"CONNECT", "OPY">> :> "COPY")

StartReq(q, ch) ==
    CASE ch \in EndOfLine -> q
      [] ch \in DOMAIN FirstLetter ->
            Notify([To(Fresh(q), "req_method") EXCEPT !.method = FirstLetter[ch], !.index = 1],
                   <<"begin">>)
      [] OTHER -> Fail(Fresh(q), "INVALID_METHOD")

ReqMethod(q, ch) ==
    LET rest == q.index = 1
    IN  CASE ch = "SP" /\ ~rest -> To(q, "spaces_before_url")
          [] rest /\ ch = RestOf[q.method] -> [q EXCEPT !.index = 2]
          [] rest /\ <<q.method, ch>> \in DOMAIN Turns ->
                [q EXCEPT !.method = Turns[q.method, ch], !.index = 2]
          [] OTHER -> Fail(q, "INVALID_METHOD")

StartRes(q, ch) ==
    CASE ch = "H" -> Notify(To(Fresh(q), "res_http"), <<"begin">>)
      [] ch \in EndOfLine -> Notify(Fresh(q), <<"begin">>)
      [] OTHER -> Fail(Fresh(q), "INVALID_CONSTANT")

StartReqOrRes(q, ch) ==
    CASE ch \in EndOfLine -> q
      [] ch = "H" -> Notify(To(Fresh(q), "res_or_resp_H"), <<"begin">>)
      [] OTHER -> StartReq([To(Fresh(q), "start_req") EXCEPT !.type = "request"], ch)

ResOrRespH(q, ch) ==
    CASE ch = "TTP/" -> [To(q, "res_first_http_major") EXCEPT !.type = "response"]
      [] ch = "EAD" -> [To(q, "req_method") EXCEPT !.type = "request", !.method = "HEAD", !.index = 2]
      [] OTHER -> Fail(q, "INVALID_CONSTANT")

\* "TTP/" after the "H" of a version.
Http(q, ch) ==
    IF ch = "TTP/"
    THEN To(q, IF q.state = "res_http" THEN "res_first_http_major" ELSE "req_first_http_major")
    ELSE Fail(q, "STRICT")

ReqHttpStart(q, ch) ==
    CASE ch = "H" -> To(q, "req_http")
      [] ch = "SP" -> q
      [] OTHER -> Fail(q, "INVALID_CONSTANT")

SpacesBeforeUrl(q, ch) ==
    LET s == UrlNext(IF q.method = "CONNECT" THEN "server_start" ELSE q.state, ch)
    IN  CASE ch = "SP" -> q
          [] ch # "SP" /\ s = "dead" -> Fail(q, "INVALID_URL")
          [] OTHER -> To(Mark(q, "url"), s)

Url(q, ch) ==
    LET s == UrlNext(q.state, ch)
        old == [q EXCEPT !.major = 0, !.minor = 9]
    IN  CASE s # "dead" -> To(q, s)
          [] ch = "SP" /\ q.state \notin UrlBegins -> Data(To(q, "req_http_start"))
          [] ch = "CR" /\ q.state \notin UrlBegins -> Data(To(old, "req_line_almost_done"))
          [] ch = "LF" /\ q.state \notin UrlBegins -> Data(To(old, "header_field_start"))
          [] OTHER -> Fail(q, "INVALID_URL")

\* A further digit of a number that has at most three.
Number(n, digit) == 10 * n + digit

FirstMajor(q, ch, next, least) ==
    IF IsDigit(ch) /\ Digits[ch] >= least THEN [To(q, next) EXCEPT !.major = Digits[ch]]
    ELSE Fail(q, "INVALID_VERSION")

Major(q, ch, next) ==
    CASE ch = "." -> To(q, next)
      [] IsDigit(ch) /\ Number(q.major, Digits[ch]) <= 999 -> [q EXCEPT !.major = Number(@, Digits[ch])]
      [] OTHER -> Fail(q, "INVALID_VERSION")

FirstMinor(q, ch, next) ==
    IF IsDigit(ch) THEN [To(q, next) EXCEPT !.minor = Digits[ch]] ELSE Fail(q, "INVALID_VERSION")

\* ends maps the symbols that may follow the version to the next state.
Minor(q, ch, ends) ==
    CASE ch \in DOMAIN ends -> To(q, ends[ch])
      [] IsDigit(ch) /\ Number(q.minor, Digits[ch]) <= 999 -> [q EXCEPT !.minor = Number(@, Digits[ch])]
      [] OTHER -> Fail(q, "INVALID_VERSION")

LineEnds == ("CR" :> "req_line_almost_done") @@ ("LF" :> "header_field_start")
StatusEnds == ("CR" :> "res_line_almost_done") @@ ("LF" :> "header_field_start")

FirstStatusCode(q, ch) ==
    CASE IsDigit(ch) -> [To(q, "res_status_code") EXCEPT !.status_code = Digits[ch]]
      [] ch = "SP" -> q
      [] OTHER -> Fail(q, "INVALID_STATUS")

StatusCode(q, ch) ==
    CASE ch = "SP" -> To(q, "res_status_start")
      [] ch \in EndOfLine -> To(q, StatusEnds[ch])
      [] IsDigit(ch) /\ Number(q.status_code, Digits[ch]) <= 999 ->
            [q EXCEPT !.status_code = Number(@, Digits[ch])]
      [] OTHER -> Fail(q, "INVALID_STATUS")

StatusStart(q, ch) ==
    IF ch \in EndOfLine THEN To(q, StatusEnds[ch]) ELSE To(Mark(q, "status"), "res_status")

Status(q, ch) == IF ch \in EndOfLine THEN Data(To(q, StatusEnds[ch])) ELSE q

LineAlmostDone(q, ch, next, error) == IF ch = "LF" THEN To(q, next) ELSE Fail(q, error)

-----------------------------------------------------------------------------
(* http_parser_execute.                                                    *)

Dispatch(q, ch) ==
    CASE q.state = "dead" -> IF ch \in EndOfLine THEN q ELSE Fail(q, "CLOSED_CONNECTION")
      [] q.state = "start_req_or_res" -> StartReqOrRes(q, ch)
      [] q.state = "res_or_resp_H" -> ResOrRespH(q, ch)
      [] q.state = "start_res" -> StartRes(q, ch)
      [] q.state \in {"res_http", "req_http"} -> Http(q, ch)
      [] q.state = "res_first_http_major" -> FirstMajor(q, ch, "res_http_major", 0)
      [] q.state = "res_http_major" -> Major(q, ch, "res_first_http_minor")
      [] q.state = "res_first_http_minor" -> FirstMinor(q, ch, "res_http_minor")
      [] q.state = "res_http_minor" -> Minor(q, ch, "SP" :> "res_first_status_code")
      [] q.state = "res_first_status_code" -> FirstStatusCode(q, ch)
      [] q.state = "res_status_code" -> StatusCode(q, ch)
      [] q.state = "res_status_start" -> StatusStart(q, ch)
      [] q.state = "res_status" -> Status(q, ch)
      [] q.state = "res_line_almost_done" -> LineAlmostDone(q, ch, "header_field_start", "STRICT")
      [] q.state = "start_req" -> StartReq(q, ch)
      [] q.state = "req_method" -> ReqMethod(q, ch)
      [] q.state = "spaces_before_url" -> SpacesBeforeUrl(q, ch)
      [] q.state \in UrlStates -> Url(q, ch)
      [] q.state = "req_http_start" -> ReqHttpStart(q, ch)
      [] q.state = "req_first_http_major" -> FirstMajor(q, ch, "req_http_major", 1)
      [] q.state = "req_http_major" -> Major(q, ch, "req_first_http_minor")
      [] q.state = "req_first_http_minor" -> FirstMinor(q, ch, "req_http_minor")
      [] q.state = "req_http_minor" -> Minor(q, ch, LineEnds)
      [] q.state = "req_line_almost_done" -> LineAlmostDone(q, ch, "header_field_start", "LF_EXPECTED")
      [] q.state = "header_field_start" -> HeaderFieldStart(q, ch)
      [] q.state = "header_field" -> HeaderField(q, ch)
      [] q.state = "header_value_discard_ws" -> HeaderValueDiscardWs(q, ch)
      [] q.state = "header_value" -> HeaderValue(q, ch)
      [] q.state = "header_almost_done" -> HeaderAlmostDone(q, ch)
      [] q.state = "header_value_lws" -> HeaderValueLws(q, ch)
      [] q.state = "header_value_discard_ws_almost_done" ->
            LineAlmostDone(q, ch, "header_value_discard_lws", "STRICT")
      [] q.state = "header_value_discard_lws" -> HeaderValueDiscardLws(q, ch)
      [] q.state = "headers_almost_done" -> HeadersAlmostDone(q, ch)
      [] q.state = "body_identity" -> BodyIdentity(q, ch)
      [] q.state = "body_identity_eof" -> Mark(q, "body")
      [] q.state = "chunk_size_start" -> ChunkSizeStart(q, ch)
      [] q.state = "chunk_size" -> ChunkSize(q, ch)
      [] q.state = "chunk_parameters" -> ChunkParameters(q, ch)
      [] q.state = "chunk_size_almost_done" -> ChunkSizeAlmostDone(q, ch)
      [] q.state = "chunk_data" -> ChunkData(q, ch)
      [] q.state = "chunk_data_almost_done" -> ChunkDataAlmostDone(q, ch)
      [] q.state = "chunk_data_done" -> ChunkDataDone(q, ch)
      [] OTHER -> Asserting(q, FALSE)

\* One turn of the loop over the bytes of a piece: what remains under a mark
\* belongs to its text.
Execute(q, ch) ==
    LET counted == IF q.state \in BodyStates \/ q.loop # "no" THEN q ELSE Count(q, 1)
        r == Dispatch(counted, ch)
    IN  CASE ~Ok(counted) -> counted
          [] Ok(counted) /\ Ok(r) /\ r.mark # "none" -> [r EXCEPT !.marked = Append(@, ch)]
          [] OTHER -> r

\* The mark a piece starts with.
ResumedMark(q) ==
    CASE q.state = "header_field" -> "field"
      [] q.state = "header_value" -> "value"
      [] q.state \in UrlStates -> "url"
      [] q.state = "res_status" -> "status"
      [] OTHER -> "none"

\* Mutant of PieceEnds: a value that goes on in the next piece is not marked.
PieceEndsUnmarked(q) ==
    LET counted == IF q.loop = "no" THEN q ELSE LoopEnds(q)
        flushed == Data(counted)
    IN  CASE ~Ok(counted) -> counted
          [] Ok(counted) /\ ~Ok(flushed) -> flushed
          [] OTHER -> [flushed EXCEPT !.mark = IF q.state = "header_value" THEN "none"
                                               ELSE ResumedMark(q)]

\* The end of a piece and the beginning of the next.
PieceEnds(q) ==
    LET counted == IF q.loop = "no" THEN q ELSE LoopEnds(q)
        flushed == Data(counted)
    IN  CASE ~Ok(counted) -> counted
          [] Ok(counted) /\ ~Ok(flushed) -> flushed
          [] OTHER -> [flushed EXCEPT !.mark = ResumedMark(q)]

\* http_parser_execute for a piece of no bytes: the stream has ended.
StreamEnds(q) ==
    CASE q.state = "body_identity_eof" -> Notify(q, <<"complete">>)
      [] q.state \in {"dead", "start_req_or_res", "start_res", "start_req"} -> q
      [] OTHER -> Fail(q, "INVALID_EOF_STATE")

-----------------------------------------------------------------------------
(* The peer (external).  It writes items: a symbol and what it says.        *)

\* What the callbacks said is what the peer said, whatever the cuts: an empty
\* text tells nothing if it is a part of a longer one, and a message that
\* begins after an empty line begins once.
AddEvent(events, event) ==
    CASE events # <<>> /\ event[1] \in {"field", "value", "url", "status", "body"} /\ event[2] = ""
            /\ Last(events)[1] = event[1] -> events
      [] events # <<>> /\ Last(events) = <<event[1], "">> -> Append(Front(events), event)
      [] events # <<>> /\ event = <<"begin">> /\ Last(events) = event -> events
      [] OTHER -> Append(events, event)

Merge(events, more) == FoldLeft(AddEvent, events, more)

Unwritten(plan) ==
    [plan |-> plan, todo |-> <<>>, place |-> "start", start |-> CHOOSE s \in StartLines : TRUE,
     lines |-> 0, messages |-> 0, flags |-> {}, length |-> MaxLength, excuses |-> {},
     noisy |-> FALSE, piece |-> 0, size |-> 0]

Init ==
    /\ \E type \in {"request", "response", "both"}, plan \in Plans :
        /\ p = InitParser(type, plan.refuses, plan.answer)
        /\ w = Unwritten(plan)
    /\ heard = <<>>
    /\ said = <<>>

\* The peer starts a message: the connection may have been closed to it.
WriteStart ==
    /\ w.todo = <<>> /\ w.place \in {"start", "closing"} /\ w.messages < w.plan.messages
    /\ \E s \in StartLines :
        /\ p.type \in {s.type, "both"}
        /\ w' = [w EXCEPT !.todo = s.text, !.place = "headers", !.start = [s EXCEPT !.text = <<>>], !.lines = 0, !.size = 0,
                          !.messages = @ + 1, !.flags = {}, !.length = MaxLength,
                          !.excuses = @ \cup s.excuses
                                        \cup IF w.place = "closing" THEN {"CLOSED_CONNECTION"} ELSE {}]
    /\ UNCHANGED <<p, heard, said>>

WriteLine ==
    /\ w.todo = <<>> /\ w.place = "headers" /\ w.lines < w.plan.lines
    /\ \E l \in Lines :
        w' = [w EXCEPT !.todo = l.text, !.lines = @ + 1, !.flags = @ \cup l.flags,
                       !.length = IF @ = MaxLength THEN l.length ELSE @,
                       !.excuses = @ \cup l.excuses
                                     \cup IF w.length # MaxLength /\ l.length # MaxLength
                                          THEN {"UNEXPECTED_CONTENT_LENGTH"} ELSE {}]
    /\ UNCHANGED <<p, heard, said>>

IsResponse == w.start.type = "response"
Upgrades == {"upgrade", "conn_upgrade"} \subseteq w.flags \/ w.start.method = "CONNECT"
NoBody == p.answer # 0

\* How the body of the message is delimited.
BodyIs ==
    CASE NoBody \/ w.start.method = "CONNECT" -> "none"
      [] "chunked" \in w.flags /\ ~NoBody -> "chunks"
      [] w.length \notin {0, MaxLength} /\ "chunked" \notin w.flags -> "length"
      [] IsResponse /\ w.length = MaxLength /\ w.start.status \notin {100, 204, 304} -> "eof"
      [] OTHER -> "none"

Stays ==
    /\ IF w.start.persistent THEN "close" \notin w.flags ELSE "keep_alive" \in w.flags
    /\ BodyIs # "eof"

AfterMessage ==
    CASE Upgrades \/ p.answer = 2 -> "foreign"
      [] Stays -> "start"
      [] OTHER -> "closing"

WriteEmptyLine ==
    /\ w.todo = <<>> /\ w.place = "headers"
    /\ LET s == w.start
           what == IF IsResponse THEN s.status ELSE s.method
           headers == <<"headers", what, s.major, s.minor, Upgrades>>
           ends == BodyIs = "none" \/ (BodyIs = "eof" /\ Upgrades)
       IN  w' = [w EXCEPT
                  !.todo = Plain(<<"CR">>)
                             \o Saying(IF ends THEN <<headers, <<"complete">>>> ELSE <<headers>>),
                  !.place = IF ends THEN AfterMessage ELSE BodyIs,
                  !.excuses = IF w.length # MaxLength /\ "chunked" \in w.flags
                              THEN @ \cup {"UNEXPECTED_CONTENT_LENGTH"} ELSE @]
    /\ UNCHANGED <<p, heard, said>>

\* The bytes of a body of known length.
WriteBody ==
    /\ w.todo = <<>> /\ w.place = "length"
    /\ w' = [w EXCEPT
              !.todo = [i \in 1 .. w.length |->
                            [symbol |-> "x",
                             says |-> IF i < w.length THEN <<<<"body", "x">>>>
                                      ELSE <<<<"body", "x">>, <<"complete">>>>]],
              !.place = AfterMessage]
    /\ UNCHANGED <<p, heard, said>>

WriteUntilEof ==
    /\ w.todo = <<>> /\ w.place = "eof" /\ w.lines <= w.plan.lines
    /\ w' = [w EXCEPT !.todo = Says("body", <<"x">>), !.lines = @ + 1]
    /\ UNCHANGED <<p, heard, said>>

WriteChunk ==
    /\ w.todo = <<>> /\ w.place = "chunks" /\ w.lines <= w.plan.lines
    /\ \E c \in Chunks :
        w' = [w EXCEPT
               !.todo = Plain(c.digits) \o Plain(c.parameters) \o Plain(<<"CR">>)
                          \o Saying(<<<<"chunk_header", c.size>>>>)
                          \o Says("body", [i \in 1 .. c.size |-> "x"])
                          \o Plain(<<"CR">>) \o Saying(<<<<"chunk_complete">>>>),
               !.lines = @ + 1,
               !.excuses = @ \cup c.excuses]
    /\ UNCHANGED <<p, heard, said>>

\* The last chunk, without or with a trailer.
WriteLastChunk ==
    /\ w.todo = <<>> /\ w.place = "chunks"
    /\ \E trailer \in {<<>>, Says("field", <<"x">>) \o Plain(<<":">>) \o Says("value", <<"x">>) \o Eol} :
        w' = [w EXCEPT
               !.todo = Plain(<<"0", "CR">>) \o Saying(<<<<"chunk_header", 0>>>>)
                          \o trailer \o Plain(<<"CR">>) \o Saying(<<<<"chunk_complete">>, <<"complete">>>>),
               !.place = AfterMessage]
    /\ UNCHANGED <<p, heard, said>>

\* Of what was said and heard alike, only the last event is kept.
Compare(q, told, events) ==
    /\ p' = [q EXCEPT !.calls = <<>>]
    /\ CASE w'.noisy -> heard' = <<>> /\ said' = <<>>
         [] ~w'.noisy /\ Ok(q) /\ told = events /\ Len(told) > 1 ->
                heard' = <<Last(told)>> /\ said' = heard'
         [] OTHER -> heard' = told /\ said' = events

\* The next symbol reaches the parser.
Send ==
    /\ w.todo # <<>> /\ Ok(p) /\ ~p.returned
    /\ w' = [w EXCEPT !.todo = Tail(@), !.piece = 1,
                      !.size = IF w.place = "headers" THEN @ + 1 ELSE @]
    /\ LET q == Execute(p, Head(w.todo).symbol)
       IN  Compare(q, Merge(heard, q.calls), Merge(said, Head(w.todo).says))

\* Another symbol than the peer's reaches the parser.
Garble ==
    /\ w.todo # <<>> /\ Ok(p) /\ ~p.returned /\ w.plan.noise /\ ~w.noisy
    /\ w' = [w EXCEPT !.todo = Tail(@), !.piece = 1, !.noisy = TRUE]
    /\ \E ch \in Noise :
        LET q == Execute(p, ch) IN Compare(q, heard, said)

\* The stream is cut here.
Cut ==
    /\ w.piece > 0 /\ Ok(p) /\ ~p.returned
    /\ w' = [w EXCEPT !.piece = 0]
    /\ LET q == PieceEnds(p) IN Compare(q, Merge(heard, q.calls), said)

\* The peer closes the connection, at the end of a message or too early; a body
\* that only the end of the stream delimits has no too early.
Eof ==
    LET ends == w.place = "eof" /\ \A i \in DOMAIN w.todo : w.todo[i].says = <<<<"body", "x">>>>
        between == w.todo = <<>> /\ w.place \in {"start", "closing"}
        q == StreamEnds(p)
    IN  /\ Ok(p) /\ ~p.returned /\ w.piece = 0 /\ w.place # "closed"
        /\ w' = [w EXCEPT !.place = "closed", !.todo = <<>>,
                          !.excuses = IF ends \/ between THEN @ ELSE @ \cup {"INVALID_EOF_STATE"}]
        /\ Compare(q, Merge(heard, q.calls), IF ends THEN Append(said, <<"complete">>) ELSE said)

Next ==
    \/ WriteStart \/ WriteLine \/ WriteEmptyLine
    \/ WriteBody \/ WriteUntilEof \/ WriteChunk \/ WriteLastChunk
    \/ Send \/ Garble \/ Cut \/ Eof

Spec == Init /\ [][Next]_vars

-----------------------------------------------------------------------------
(* Properties.                                                             *)

\* The asserts of http_parser_execute hold for every stream, also for one with
\* a symbol that should not be there: no state is unknown, one text at a time
\* is marked, the counter of header bytes is 1 at the first digit of a chunk
\* size, and lengths are what their states say.
AssertsHold == p.asserts

\* HTTP_MAX_HEADER_SIZE limits the header of a message, and no cut of the
\* stream lets bytes of it escape the counter.
HeaderLimited == Ok(p) /\ w.place = "headers" /\ p.loop = "no" /\ ~w.noisy => w.size <= MaxHeader

\* http_parser_execute: however the stream is cut into pieces, what was
\* delivered and what still stands under a mark is what the peer wrote, no
\* text is lost, repeated or given to another callback, bodies have their
\* length, and an error has a reason in what was written (or is the limit of
\* the header size, which each cut within a word makes a byte tighter).  An
\* empty value is only reported with the next line.
HeardAsWritten ==
    LET marked == [i \in DOMAIN p.marked |-> <<p.mark, p.marked[i]>>]
        late == IF p.state = "header_value_discard_lws" THEN <<<<"value", "">>>> ELSE <<>>
    IN  /\ AssertsHold
        /\ HeaderLimited
        /\ \/ w.noisy
           \/ Ok(p) /\ said \in {Merge(heard, marked), Merge(heard, marked \o late)}
           \/ /\ ~Ok(p) /\ IsPrefix(heard, said)
              /\ \/ p.http_errno \in w.excuses \cup {"HEADER_OVERFLOW"}
                 \/ p.http_errno = "CB" /\ Last(heard)[1] = p.refuses
=============================================================================
