----------------------------- MODULE UrlParser -----------------------------
(***************************************************************************)
(* http_parser_parse_url, with which the daemon takes the path out of the  *)
(* URL of a request (on_url of http_connection.c): one step for each turn  *)
(* of its loop, and one for what follows the loop.                         *)
(***************************************************************************)
EXTENDS HttpChars

CONSTANTS
    UrlChars(_),    \* the symbols that are tried after those of a sequence
    MaxPort         \* 65535

VARIABLES
    url,            \* the symbols taken so far
    is_connect,
    s,              \* the state of the loop
    uf,             \* old_uf: the field of the symbol before
    found_at,
    u,              \* struct http_parser_url: for each field that is set, [off, len]
    result          \* "parsing", "ok" or "refused"

vars == <<url, is_connect, s, uf, found_at, u, result>>

Init ==
    /\ url = <<>>
    /\ is_connect \in BOOLEAN
    /\ s = IF is_connect THEN "server_start" ELSE "spaces_before_url"
    /\ uf = "max"
    /\ found_at = FALSE
    /\ u = <<>>
    /\ result = "parsing"

Set(v, field, off, len) ==
    [f \in DOMAIN v \cup {field} |-> IF f = field THEN [off |-> off, len |-> len] ELSE v[f]]

Longer(v, field) == [v EXCEPT ![field].len = @ + 1]

\* The field a state belongs to; the other states are delimiters.
FieldOf ==
    [schema |-> "schema", server_with_at |-> "host", server |-> "host", path |-> "path",
     query_string |-> "query", fragment |-> "fragment"]

\* One turn of the loop.
Step ==
    /\ result = "parsing"
    /\ \E ch \in UrlChars(url) :
        /\ url' = Append(url, ch)
        /\ s' = UrlNext(s, ch)
        /\ result' = IF s' = "dead" THEN "refused" ELSE "parsing"
        /\ found_at' = (found_at \/ s' = "server_with_at")
        /\ IF s' \in DOMAIN FieldOf
           THEN /\ uf' = FieldOf[s']
                /\ u' = IF uf' = uf THEN Longer(u, uf) ELSE Set(u, uf', Len(url) + 1, 1)
           ELSE UNCHANGED <<uf, u>>
    /\ UNCHANGED is_connect

-----------------------------------------------------------------------------
(* http_parse_host.                                                        *)

HostChars == Alphas \cup DOMAIN Digits

HostNext(h, ch) ==
    CASE h \in {"userinfo", "userinfo_start"} /\ ch = "@" -> "host_start"
      [] h \in {"userinfo", "userinfo_start"} /\ IsUserinfoChar(ch) -> "userinfo"
      [] h = "host_start" /\ ch = "[" -> "host_v6_start"
      [] h \in {"host_start", "host"} /\ ch \in HostChars -> "host"
      [] h \in {"host", "host_v6_end"} /\ ch = ":" -> "port_start"
      [] h \in {"host_v6", "host_v6_zone"} /\ ch = "]" -> "host_v6_end"
      [] h \in {"host_v6", "host_v6_start"} /\ (ch \in DOMAIN Hex \/ ch = ":") -> "host_v6"
      [] h = "host_v6" /\ ch = "%" -> "host_v6_zone_start"
      [] h \in {"host_v6_zone", "host_v6_zone_start"} /\ (ch \in HostChars \/ ch = "%") -> "host_v6_zone"
      [] h \in {"port", "port_start"} /\ IsDigit(ch) -> "port"
      [] OTHER -> "dead"

HostFieldOf ==
    [host |-> "host", host_v6 |-> "host", port |-> "port", userinfo |-> "userinfo"]

\* Mutant of HostStep: a field that begins anew keeps its offset.
HostStepKeeps(a, off) ==
    LET h == HostNext(a.h, url[off])
    IN  CASE h \in {"host_v6_zone_start", "host_v6_zone"} -> [h |-> h, u |-> Longer(a.u, "host")]
          [] h \in DOMAIN HostFieldOf ->
                LET field == HostFieldOf[h]
                    begins == h # a.h /\ field # "host"
                    begun == IF begins THEN Set(a.u, field, off, 0) ELSE a.u
                IN  [h |-> h, u |-> Longer(begun, field)]
          [] OTHER -> [h |-> h, u |-> a.u]

\* One turn of the loop: host and port begin where their state begins.
HostStep(a, off) ==
    LET h == HostNext(a.h, url[off])
    IN  CASE h \in {"host_v6_zone_start", "host_v6_zone"} -> [h |-> h, u |-> Longer(a.u, "host")]
          [] h \in DOMAIN HostFieldOf ->
                LET field == HostFieldOf[h]
                    begun == CASE h = a.h -> a.u
                               [] h # a.h /\ field = "host" -> [a.u EXCEPT !.host.off = off]
                               [] OTHER -> Set(a.u, field, off, 0)
                IN  [h |-> h, u |-> Longer(begun, field)]
          [] OTHER -> [h |-> h, u |-> a.u]

\* The last state and the fields, for a URL with a host.
ParseHost ==
    LET start == [h |-> IF found_at THEN "userinfo_start" ELSE "host_start",
                  u |-> [u EXCEPT !.host.len = 0]]
        turn[n \in 0 .. u.host.len] ==
            IF n = 0 THEN start ELSE HostStep(turn[n - 1], u.host.off + n - 1)
    IN  turn[u.host.len]

HostAccepted(h) == h \in {"host", "host_v6_end", "port"}

-----------------------------------------------------------------------------
Text(field, v) == SubSeq(url, v[field].off, v[field].off + v[field].len - 1)

Number(digits) ==
    LET read[n \in 0 .. Len(digits)] ==
            IF n = 0 THEN 0 ELSE 10 * read[n - 1] + Digits[digits[n]]
    IN  read[Len(digits)]

\* What follows the loop.
Finish ==
    /\ result = "parsing" /\ url # <<>>
    /\ LET host == "host" \in DOMAIN u
           parsed == IF host THEN ParseHost ELSE [h |-> "host", u |-> u]
           port == "port" \in DOMAIN parsed.u
           ok == /\ "schema" \in DOMAIN u => host
                 /\ HostAccepted(parsed.h)
                 /\ is_connect => DOMAIN parsed.u = {"host", "port"}
                 /\ port => Number(Text("port", parsed.u)) <= MaxPort
       IN  /\ result' = IF ok THEN "ok" ELSE "refused"
           /\ u' = IF ok THEN parsed.u ELSE u
    /\ UNCHANGED <<url, is_connect, s, uf, found_at>>

Next == Step \/ Finish

Spec == Init /\ [][Next]_vars

-----------------------------------------------------------------------------
End(field) == u[field].off + u[field].len - 1
Span(field) == u[field].off .. End(field)

Before(field) == IF u[field].off = 1 THEN "start" ELSE url[u[field].off - 1]
After(field) == IF End(field) = Len(url) THEN "end" ELSE url[End(field) + 1]

\* What may stand before and after each field.
Leads ==
    [schema |-> {"start"}, userinfo |-> {"start", "/"}, host |-> {"start", "/", "@", "["},
     port |-> {":"}, path |-> {"start", "]"} \cup HostChars, query |-> {"?"}, fragment |-> {"#"}]
Follows ==
    [schema |-> {":"}, userinfo |-> {"@"}, host |-> {"end", ":", "/", "?", "]"},
     port |-> {"end", "/", "?"}, path |-> {"end", "?", "#"}, query |-> {"end", "#"},
     fragment |-> {"end"}]

\* http_parser_parse_url, http_parse_host: the fields of a URL that is accepted
\* are what lies between its delimiters: none overlaps another, whatever is in
\* no field is a delimiter, each stands between the delimiters it must stand
\* between, and the port is a number that fits into 16 bits.
UrlPartsSound ==
    result = "ok" =>
        /\ \A f, g \in DOMAIN u : f # g => Span(f) \cap Span(g) = {}
        /\ \A f \in DOMAIN u :
            /\ u[f].len > 0 /\ Span(f) \subseteq DOMAIN url
            /\ Before(f) \in Leads[f] /\ After(f) \in Follows[f]
        /\ \A i \in DOMAIN url \ UNION {Span(f) : f \in DOMAIN u} :
                url[i] \in {":", "/", "@", "[", "]", "?", "#"}
        /\ "port" \in DOMAIN u => Number(Text("port", u)) \in 0 .. MaxPort
        /\ is_connect => DOMAIN u = {"host", "port"}
=============================================================================
