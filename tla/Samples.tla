------------------------------ MODULE Samples ------------------------------
(***************************************************************************)
(* The inputs MCFormats feeds to the checkers and parsers.                 *)
(***************************************************************************)
EXTENDS HttpChars, SequencesExt

CONSTANT MaxLength

-----------------------------------------------------------------------------
(* HttpParser *)

Version(minor) == Plain(<<"H", "TTP/", "1", ".", minor, "CR", "LF">>)

\* The first symbol of a message tells of its beginning.
Begin(symbols) ==
    <<[symbol |-> symbols[1], says |-> <<<<"begin">>>>]>> \o Plain(Tail(symbols))

Request(method, symbols, url, minor, end) ==
    [type |-> "request", method |-> method, status |-> 0, major |-> IF minor = 9 THEN 0 ELSE 1,
     minor |-> minor, persistent |-> minor = 1, excuses |-> {},
     text |-> Begin(symbols \o <<"SP">>) \o Says("url", url) \o end]

Response(status, symbols, reason, minor) ==
    [type |-> "response", method |-> "", status |-> status, major |-> 1, minor |-> minor,
     persistent |-> minor = 1, excuses |-> {},
     text |-> Begin(<<"H", "TTP/", "1", ".", IF minor = 1 THEN "1" ELSE "0", "SP">> \o symbols)
                \o reason \o Eol]

\* Numbers with too many digits.
Long(r) == [r EXCEPT !.excuses = {"INVALID_VERSION", "INVALID_STATUS"}]

SP == Plain(<<"SP">>)
Http11 == SP \o Version("1")
Http10 == SP \o Version("0")

SampleStartLines ==
    {Request("GET", <<"G", "ET">>, <<"/", "?", "x", "#", "x">>, 1, Http11),
     [Request("GET", <<"G", "ET">>, <<"x", ":", "/", "/", "x", "@", "x", "?">>, 0, Http10)
        EXCEPT !.text = Plain(<<"CR", "LF">>) \o @],
     Request("GET", <<"G", "ET">>, <<"/">>, 9, Eol),
     Long(Request("PUT", <<"P", "UT">>, <<"/">>, 1,
                  Plain(<<"SP", "H", "TTP/", "1", "0", "0", "0">>))),
     Request("CONNECT", <<"C", "ONNECT">>, <<"x", ":", "9">>, 1, Http11),
     Request("HEAD", <<"H", "EAD">>, <<"/">>, 1, Http11),
     Request("COPY", <<"C", "OPY">>, <<"/">>, 1, Http11),
     Response(200, <<"2", "0", "0">>, SP \o Says("status", <<"x", "x">>), 1),
     Response(204, <<"2", "0", "4">>, SP, 0),
     Response(100, <<"1", "0", "0">>, <<>>, 1),
     Long(Response(999, <<"9", "9", "9", "9">>, SP, 1))}

Line(field, value, flags) ==
    [text |-> Says("field", field) \o Plain(<<":", "SP">>) \o Says("value", value) \o Eol,
     flags |-> flags, length |-> MaxLength, excuses |-> {}]

Length(digits, length, excuses) ==
    [Line(<<"con", "tent-length">>, digits, {}) EXCEPT !.length = length, !.excuses = excuses]

Connection(value, flags) == Line(<<"con", "nection">>, value, flags)

SampleLines ==
    {Line(<<"x">>, <<"x", "SP", ",">>, {}),
     [Line(<<"up", "x">>, <<>>, {}) EXCEPT
        !.text = Says("field", <<"up", "x">>) \o Plain(<<":", "CR">>) \o Saying(<<<<"value", "">>>>)],
     [Line(<<"x">>, <<>>, {}) EXCEPT
        !.text = Says("field", <<"x">>) \o Plain(<<":", "LF", "TAB">>) \o Says("value", <<"x">>)
                   \o Plain(<<"LF">>)],
     Connection(<<"clo", "se">>, {"close"}),
     Connection(<<"x", ",", "SP", "keep-", "alive", "SP">>, {"keep_alive"}),
     [Connection(<<>>, {"conn_upgrade"}) EXCEPT
        !.text = Says("field", <<"proxy-", "con", "nection">>) \o Plain(<<":">>)
                   \o Says("value", <<"keep-", "x", ",">>) \o Eol
                   \o Says("value", <<"SP", "up", "grade">>) \o Plain(<<"LF">>)],
     Connection(<<"up", "grade", "x", ",", "TAB", "clo", "x">>, {}),
     Line(<<"up", "grade">>, <<"x">>, {"upgrade"}),
     Line(<<"transfer-", "encoding">>, <<"chun", "ked">>, {"chunked"}),
     Line(<<"transfer-", "encoding">>, <<"chun", "ked", ",", "x">>, {}),
     Length(<<"0">>, 0, {}),
     Length(<<"0", "2">>, 2, {}),
     Length(<<"4", "1">>, 41, {"INVALID_CONTENT_LENGTH"}),
     Length(<<"x">>, MaxLength, {"INVALID_CONTENT_LENGTH"})}

Chunk(size, digits, parameters, excuses) ==
    [size |-> size, digits |-> digits, parameters |-> parameters, excuses |-> excuses]

SampleChunks ==
    {Chunk(1, <<"1">>, <<>>, {}),
     Chunk(2, <<"0", "2">>, <<";", "x">>, {}),
     Chunk(41, <<"2", "9">>, <<>>, {"INVALID_CONTENT_LENGTH"})}

Plan(lines, messages, refuses, answer, noise) ==
    [lines |-> lines, messages |-> messages, refuses |-> refuses, answer |-> answer, noise |-> noise]

SamplePlans ==
    {Plan(2, 1, "none", 0, FALSE), Plan(1, 2, "none", 0, FALSE), Plan(0, 1, "none", 0, TRUE)}
        \cup {Plan(1, 1, "none", answer, FALSE) : answer \in {1, 2}}
        \cup {Plan(1, 1, refuses, 0, FALSE) :
                refuses \in {"begin", "url", "field", "value", "headers", "body", "chunk_header",
                             "chunk_complete", "complete"}}

-----------------------------------------------------------------------------
(* UrlParser *)

Absolute == <<"x", ":", "/", "/">>

\* All URLs of up to four symbols, and longer ones after "x://".
SampleUrlChars(prefix) ==
    CASE Len(prefix) < 4 -> {"x", "/", ":", "?", "#", "@", "[", "]", "9", "%", "SP"}
      [] Len(prefix) \in 4 .. 8 /\ IsPrefix(Absolute, prefix) ->
            {"x", "/", ":", "?", "#", "@", "[", "]", "9", "%"}
      [] OTHER -> {}

-----------------------------------------------------------------------------
(* Utf8Checker: the ends of all ranges of bytes *)

Ends == {65, 127, 128, 143, 144, 159, 160, 191, 192, 193, 194, 223, 224, 225, 237, 239, 240, 241,
         244, 245, 255}

Pairs == {<<65, 66>>, <<192, 128>>, <<193, 191>>, <<194, 128>>, <<223, 191>>}

SampleWords ==
    [1 .. 4 -> {65, 128, 160, 193, 194, 224}]
        \cup {FlattenSeq(p) : p \in [1 .. 4 -> Pairs]}

Repeat(char, n) == FlattenSeq([i \in 1 .. n |-> char])

\* Characters of two, three and four bytes, an overlong one in a word, and a
\* surrogate: they straddle the words at some alignments.
SampleTexts ==
    {Repeat(<<194, 169>>, 9), Repeat(<<226, 130, 172>>, 6), Repeat(<<240, 159, 152, 128>>, 5),
     Repeat(<<65>>, 19), Repeat(<<193, 191, 194, 128>>, 5), Repeat(<<237, 160, 128>>, 6)}

-----------------------------------------------------------------------------
(* Json: leaves, and lists of one, two and three children; in some of them *)
(* a level below.                                                          *)

Strings == {"'a'", "''"}
SampleWidth == ("null" :> 4) @@ ("7" :> 1) @@ ("'a'" :> 3) @@ ("''" :> 2)

Value(type) == [type |-> type, kids |-> <<>>, names |-> <<>>]
List(kids) == [type |-> "array", kids |-> kids, names |-> <<>>]
Struct(names, kids) == [type |-> "object", kids |-> kids, names |-> names]

Nested(kids) ==
    UNION {{List(<<a>>), List(<<a, b>>), Struct(<<"''">>, <<a>>),
            Struct(<<"'a'", "''", "'a'">>, <<a, b, a>>)} : a \in kids, b \in kids}

SampleTrees ==
    {Value(type) : type \in {"null", "7", "'a'", "array", "object"}}
        \cup Nested({Value("'a'"), Value("array")})
        \cup {List(<<a, Value("7")>>) : a \in Nested({Value("null"), Value("object")})}
        \cup {Struct(<<"''">>, <<List(<<List(<<>>)>>)>>), Struct(<<"'a'">>, <<Value("7")>>)}
        \cup {Struct(<<"'a'", "''">>, <<Value("7"), Value("null")>>),
              Struct(<<"''", "'a'">>, <<Value("null"), Value("7")>>),
              Struct(<<"''", "'a'">>, <<Value("7"), Value("null")>>)}

SampleNoise == {"space", ",", "]", "}", "'a'", "{", "nul"}

\* JsonString: x, a line feed, another control character, escapes, a quote,
\* complete and incomplete code units (e9, 83, a high and a low surrogate,
\* zero), and a backslash before whatever follows
SampleGroups ==
    LET u == <<92, 117>>
    IN  {<<120>>, <<10>>, <<1>>, <<92, 110>>, <<92, 34>>, <<92, 92>>, <<34>>, <<92>>,
         u \o <<48, 48>>, u \o <<48, 48, 101, 57>>, u \o <<56, 51, 48, 67>>,
         u \o <<100, 56, 51, 100>>, u \o <<100, 99, 48, 48>>, u \o <<48, 48, 48, 48>>}

-----------------------------------------------------------------------------
(* Matchers: every path object of up to three members, of each rule and of *)
(* what is none, with the option in both spellings                         *)

SampleLower == [letter \in {"a", "A", "b", "B"} |->
                    CASE letter = "A" -> "a" [] letter = "B" -> "b" [] OTHER -> letter]

SampleStatePaths == UNION {[1 .. n -> {"a", "A", "b"}] : n \in 0 .. 3}

PathElement(t) == [type |-> "String", text |-> t]
Member(string, type, elements) == [string |-> string, type |-> type, elements |-> elements]
AllOf(elements) == Member("containsAllOf", "Array", elements)

SampleMembers ==
    {Member(name, "String", <<PathElement(t)>>) :
        name \in {"equals", "contains", "startsWith", "endsWith", "equalsNot"},
        t \in {<<"A">>, <<"a", "b">>}}
        \cup {AllOf(<<>>), AllOf(<<PathElement(<<>>)>>),
              AllOf(<<PathElement(<<"a">>), PathElement(<<"b">>)>>),
              AllOf(<<PathElement(<<"B">>), [type |-> "Number", text |-> <<>>]>>),
              Member("containsAllOf", "String", <<PathElement(<<"b">>)>>),
              Member("equals", "Number", <<>>),
              Member("other", "String", <<PathElement(<<"a">>)>>),
              Member("caseInsensitive", "True", <<>>), Member("caseInsensitive", "False", <<>>),
              Member("CASEINSENSITIVE", "True", <<>>)}

PathObject(type, members) == [type |-> type, members |-> members]

SamplePaths ==
    {PathObject("missing", <<>>), PathObject("Array", <<>>)}
        \cup {PathObject("Object", members) : members \in UNION {[1 .. n -> SampleMembers] : n \in 0 .. 3}}
=============================================================================
