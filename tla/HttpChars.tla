----------------------------- MODULE HttpChars -----------------------------
(***************************************************************************)
(* The classes of characters of http-parser (strict), over the symbols its *)
(* models use, and parse_url_char, which http_parser_execute and           *)
(* http_parser_parse_url share.                                            *)
(***************************************************************************)
EXTENDS Naturals, Sequences, TLC

EndOfLine == {"CR", "LF"}
Blank == {"SP", "TAB"}

Digits ==
    [d \in {"0", "1", "2", "4", "9"} |->
        CASE d = "0" -> 0 [] d = "1" -> 1 [] d = "2" -> 2 [] d = "4" -> 4 [] d = "9" -> 9]
Hex == [d \in DOMAIN Digits \cup {"a"} |-> IF d = "a" THEN 10 ELSE Digits[d]]
IsDigit(ch) == ch \in DOMAIN Digits

Alphas == {"a", "x", "H", "G", "P", "C"}
IsAlpha(ch) == ch \in Alphas

\* tokens[]
IsToken(ch) == ch \notin EndOfLine \cup Blank \cup {"NUL", ",", "/", ":", ";", "?", "@", "[", "]"}

\* normal_url_char[]
IsUrlChar(ch) == ch \notin EndOfLine \cup Blank \cup {"NUL", "#", "?"}

IsUserinfoChar(ch) == IsUrlChar(ch) /\ ch \notin {"/", "@", "[", "]"}

IsHeaderChar(ch) == ch # "NUL"

-----------------------------------------------------------------------------
(* parse_url_char.                                                         *)

UrlNext(s, ch) ==
    CASE ch \in EndOfLine \cup Blank -> "dead"
      [] s = "spaces_before_url" /\ ch = "/" -> "path"
      [] s \in {"spaces_before_url", "schema"} /\ IsAlpha(ch) -> "schema"
      [] s = "schema" /\ ch = ":" -> "schema_slash"
      [] s = "schema_slash" /\ ch = "/" -> "schema_slash_slash"
      [] s = "schema_slash_slash" /\ ch = "/" -> "server_start"
      [] s \in {"server_start", "server", "server_with_at"} /\ ch = "/" -> "path"
      [] s \in {"server_start", "server", "server_with_at"} /\ ch = "?" -> "query_string_start"
      [] s \in {"server_start", "server"} /\ ch = "@" -> "server_with_at"
      [] s \in {"server_start", "server", "server_with_at"}
            /\ (IsUserinfoChar(ch) \/ ch \in {"[", "]"}) -> "server"
      [] s = "path" /\ IsUrlChar(ch) -> "path"
      [] s = "path" /\ ch = "?" -> "query_string_start"
      [] s \in {"query_string_start", "query_string"} /\ (IsUrlChar(ch) \/ ch = "?") -> "query_string"
      [] s \in {"path", "query_string_start", "query_string"} /\ ch = "#" -> "fragment_start"
      [] s \in {"fragment_start", "fragment"} /\ (IsUrlChar(ch) \/ ch = "?") -> "fragment"
      [] s \in {"fragment_start", "fragment"} /\ ch = "#" -> s
      [] OTHER -> "dead"

UrlBegins == {"schema", "schema_slash", "schema_slash_slash", "server_start"}
UrlStates ==
    UrlBegins \cup {"server", "server_with_at", "path", "query_string_start", "query_string",
                    "fragment_start", "fragment"}

-----------------------------------------------------------------------------
(* What a peer writes (external): items of a symbol and what it says.      *)

Plain(symbols) == [i \in DOMAIN symbols |-> [symbol |-> symbols[i], says |-> <<>>]]
Says(kind, symbols) ==
    [i \in DOMAIN symbols |-> [symbol |-> symbols[i], says |-> <<<<kind, symbols[i]>>>>]]

Eol == Plain(<<"CR", "LF">>)
Saying(event) == <<[symbol |-> "LF", says |-> event]>>
=============================================================================
