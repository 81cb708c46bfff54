--------------------------- MODULE HandshakeProofs --------------------------
(***************************************************************************)
(* Proofs about the machines of Handshake, for all values of its constants *)
(* and for all samples.                                                    *)
(***************************************************************************)
EXTENDS Handshake, FiniteSetTheorems, WellFoundedInduction, TLAPS

-----------------------------------------------------------------------------
(* Recursive functions, sequences and numbers *)

\* A set of numbers has a least one.
LEMMA LeastExists ==
  ASSUME NEW S, S \subseteq Nat, S # {}
  PROVE  \E n \in S : \A k \in S : n <= k
<1>1. \E n \in S : \A k \in S : ~(<<k, n>> \in OpToRel(<, Nat))
  BY NatLessThanWellFounded, WFMin
<1>2. \E n \in S : \A k \in S : ~(k \in Nat /\ n \in Nat /\ k < n)
  BY <1>1, Zenon DEF OpToRel
<1> QED BY <1>2

\* A set that has zero and with a number the next one has all.
LEMMA StepByStep ==
  ASSUME NEW n \in Nat, NEW S, 0 \in S,
         \A i \in 0 .. n : i \in S /\ i < n => i + 1 \in S
  PROVE  \A i \in 0 .. n : i \in S
<1> DEFINE bad == {i \in 0 .. n : i \notin S}
<1> SUFFICES ASSUME bad # {} PROVE FALSE
  OBVIOUS
<1>1. bad \subseteq Nat
  OBVIOUS
<1>2. PICK i \in bad : \A j \in bad : i <= j
  <2> HIDE DEF bad
  <2> QED BY <1>1, LeastExists
<1>3. i \in 1 .. n /\ i - 1 \in 0 .. n /\ i - 1 < n /\ i - 1 \notin bad
  BY <1>2
<1>4. i - 1 \in S
  BY <1>3
<1>5. i - 1 + 1 \in S
  BY <1>3, <1>4
<1> QED BY <1>2, <1>3, <1>5

\* Each of n steps stays within X; f begins at base and takes the steps.
Steps(steps, n, X) == \A i \in 1 .. n : \A x \in X : steps[i][x] \in X

Follows(f, base, steps, n, X) ==
    /\ f = [i \in 0 .. n |-> f[i]]
    /\ \A i \in 0 .. n : f[i] \in X
    /\ f[0] = base
    /\ \A i \in 1 .. n : f[i] = steps[i][f[i - 1]]

\* There is a function over 0 .. n that has its first value and goes from each
\* value to the next by its step: what a recursive function is.
LEMMA Recursion ==
  ASSUME NEW n \in Nat, NEW X, NEW base \in X, NEW steps, Steps(steps, n, X)
  PROVE  \E f : Follows(f, base, steps, n, X)
<1> DEFINE reached == {k \in 0 .. n : \E f : Follows(f, base, steps, k, X)}
<1>1. 0 \in reached
  <2> DEFINE f == [i \in 0 .. 0 |-> base]
  <2>1. f = [i \in 0 .. 0 |-> f[i]] /\ f[0] = base
    OBVIOUS
  <2> HIDE DEF f
  <2> QED BY <2>1 DEF Follows
<1>2. ASSUME NEW k \in 0 .. n, k \in reached, k < n PROVE k + 1 \in reached
  <2> PICK f : Follows(f, base, steps, k, X)
    BY <1>2
  <2> DEFINE g == [i \in 0 .. k + 1 |-> IF i = k + 1 THEN steps[k + 1][f[k]] ELSE f[i]]
  <2>1. k + 1 \in 1 .. n /\ f[k] \in X /\ steps[k + 1][f[k]] \in X
    BY <1>2 DEF Follows, Steps
  <2>2. \A i \in 0 .. k + 1 : g[i] \in X
    BY <2>1 DEF Follows
  <2>3. ASSUME NEW i \in 1 .. k + 1 PROVE g[i] = steps[i][g[i - 1]]
    <3>1. CASE i = k + 1
      <4>1. k + 1 - 1 = k /\ g[k + 1] = steps[k + 1][f[k]] /\ g[k] = f[k]
        OBVIOUS
      <4> HIDE DEF g
      <4> QED BY <3>1, <4>1
    <3>2. CASE i # k + 1
      <4>1. i \in 1 .. k /\ i - 1 \in 0 .. k
        BY <3>2
      <4>2. g[i] = f[i] /\ g[i - 1] = f[i - 1]
        BY <4>1
      <4> HIDE DEF g
      <4> QED BY <4>1, <4>2 DEF Follows
    <3> QED BY <3>1, <3>2
  <2>4. g[0] = base /\ k + 1 \in 0 .. n
    BY <1>2 DEF Follows
  <2>5. g = [i \in 0 .. k + 1 |-> g[i]]
    OBVIOUS
  <2> HIDE DEF g
  <2>6. Follows(g, base, steps, k + 1, X)
    BY <2>2, <2>3, <2>4, <2>5 DEF Follows
  <2> QED BY <2>4, <2>6
<1>3. n \in reached
  <2> HIDE DEF reached
  <2>1. \A i \in 0 .. n : i \in reached
    BY <1>1, <1>2, StepByStep
  <2> QED BY <2>1
<1> QED BY <1>3

\* A sequence of n elements
IsSeq(f, n) == f = [i \in 1 .. n |-> f[i]]

\* What \o does to sequences of known lengths
LEMMA Joined ==
  ASSUME NEW a \in Nat, NEW b \in Nat, NEW f, NEW g, IsSeq(f, a), IsSeq(g, b)
  PROVE  f \o g = [i \in 1 .. a + b |-> IF i <= a THEN f[i] ELSE g[i - a]]
<1> DEFINE F(i) == f[i]
     G(i) == g[i]
<1> HIDE DEF F, G
<1>1. f = [i \in 1 .. a |-> F(i)] /\ g = [i \in 1 .. b |-> G(i)]
  BY DEF IsSeq, F, G
<1>2. [i \in 1 .. a |-> F(i)] \o [i \in 1 .. b |-> G(i)] = [i \in 1 .. a + b |-> IF i <= a THEN F(i) ELSE G(i - a)]
  OBVIOUS
<1> QED BY <1>1, <1>2 DEF F, G

\* h is f, of a elements, and then g, of b.
IsJoined(h, f, g, a, b) == h = [i \in 1 .. a + b |-> IF i <= a THEN f[i] ELSE g[i - a]]

\* Joined, as one fact
LEMMA JoinedTo ==
  ASSUME NEW a \in Nat, NEW b \in Nat, NEW f, NEW g, IsSeq(f, a), IsSeq(g, b)
  PROVE  IsJoined(f \o g, f, g, a, b)
BY Joined DEF IsJoined

\* What Append does to a sequence of known length
LEMMA Appended ==
  ASSUME NEW a \in Nat, NEW e, NEW f, IsSeq(f, a)
  PROVE  Append(f, e) = [i \in 1 .. a + 1 |-> IF i <= a THEN f[i] ELSE e] /\ Len(f) = a
<1> DEFINE F(i) == f[i]
<1> HIDE DEF F
<1>1. f = [i \in 1 .. a |-> F(i)]
  BY DEF IsSeq, F
<1>2. Append([i \in 1 .. a |-> F(i)], e) = [i \in 1 .. a + 1 |-> IF i <= a THEN F(i) ELSE e]
  OBVIOUS
<1>3. Len([i \in 1 .. a |-> F(i)]) = a
  OBVIOUS
<1> QED BY <1>1, <1>2, <1>3 DEF F

\* What SubSeq cuts out of a sequence
LEMMA Cut ==
  ASSUME NEW a \in Nat, NEW f, IsSeq(f, a), NEW m \in Nat, NEW n \in Nat, m >= 1, n <= a, m <= n + 1
  PROVE  SubSeq(f, m, n) = [i \in 1 .. n + 1 - m |-> f[m + i - 1]]
<1> DEFINE F(i) == f[i]
<1> HIDE DEF F
<1>1. f = [i \in 1 .. a |-> F(i)]
  BY DEF IsSeq, F
<1>2. SubSeq([i \in 1 .. a |-> F(i)], m, n) = [i \in 1 .. n + 1 - m |-> F(m + i - 1)]
  OBVIOUS
<1> QED BY <1>1, <1>2 DEF F

\* Quotient and remainder are found from a sum.
LEMMA Divided ==
  ASSUME NEW d \in Nat \ {0}, NEW q \in Nat, NEW r \in 0 .. d - 1, NEW a \in Nat, a = q * d + r
  PROVE  a \div d = q /\ a % d = r
OBVIOUS

\* The length of a sequence of n elements
LEMMA LengthIs ==
  ASSUME NEW a \in Nat, NEW f, IsSeq(f, a)
  PROVE  Len(f) = a
<1> DEFINE F(i) == f[i]
<1> HIDE DEF F
<1>1. f = [i \in 1 .. a |-> F(i)]
  BY DEF IsSeq, F
<1>2. Len([i \in 1 .. a |-> F(i)]) = a
  OBVIOUS
<1> QED BY <1>1, <1>2

-----------------------------------------------------------------------------
(* UrlParser: the loop over a URL.  q is what has been read of it, n symbols, *)
(* st the state, cf the field of the symbol before, and v the fields.      *)

UrlEnd(v, f) == v[f].off + v[f].len - 1
Delims == {":", "/", "@", "[", "]", "?", "#"}

\* The fields that may be set in each state
UrlKnown ==
    [spaces_before_url |-> {}, schema |-> {"schema"}, schema_slash |-> {"schema"},
     schema_slash_slash |-> {"schema"}, server_start |-> {"schema"},
     server |-> {"schema", "host"}, server_with_at |-> {"schema", "host"},
     path |-> {"schema", "host", "path"}, query_string_start |-> {"schema", "host", "path"},
     query_string |-> {"schema", "host", "path", "query"},
     fragment_start |-> {"schema", "host", "path", "query"},
     fragment |-> {"schema", "host", "path", "query", "fragment"}]

\* What ends each field; nothing ends a fragment.
UrlAfter ==
    [schema |-> {":"}, host |-> {"/", "?"}, path |-> {"?", "#"}, query |-> {"#"}, fragment |-> {}]

AreFields(v) == v = [f \in DOMAIN v |-> [off |-> v[f].off, len |-> v[f].len]]

UrlTyped(n, v) ==
    \A f \in DOMAIN v : v[f].off \in 1 .. n /\ v[f].len \in 1 .. n /\ UrlEnd(v, f) <= n

UrlApart(v) ==
    \A f, g \in DOMAIN v : f # g => UrlEnd(v, f) < v[g].off \/ UrlEnd(v, g) < v[f].off

UrlStarted(q, v) ==
    \A f \in DOMAIN v :
        /\ f = "schema" => v[f].off = 1
        /\ f = "host" => v[f].off = 1 \/ q[v[f].off - 1] = "/"
        /\ f = "query" => v[f].off > 1 /\ q[v[f].off - 1] = "?"
        /\ f = "fragment" => v[f].off > 1 /\ q[v[f].off - 1] = "#"

UrlLeft(q, n, v) == \A f \in DOMAIN v : UrlEnd(v, f) < n => q[UrlEnd(v, f) + 1] \in UrlAfter[f]

UrlDelimited(q, n, v) ==
    \A i \in 1 .. n : (\A f \in DOMAIN v : i < v[f].off \/ i > UrlEnd(v, f)) => q[i] \in Delims

UrlAt(n, st, cf, v) ==
    /\ DOMAIN v \subseteq UrlKnown[st] /\ cf \in {"max"} \cup UrlKnown[st]
    /\ IF st \in DOMAIN Url!FieldOf
       THEN cf = Url!FieldOf[st] /\ cf \in DOMAIN v /\ UrlEnd(v, cf) = n
       ELSE \A f \in DOMAIN v : UrlEnd(v, f) < n

UrlDelimiter(q, n, st, v) ==
    /\ st = "spaces_before_url" => n = 0
    /\ st \in {"schema_slash", "schema_slash_slash"} => "schema" \in DOMAIN v
    /\ st = "server_start" => n = 0 \/ (q[n] = "/" /\ "schema" \in DOMAIN v)
    /\ st = "query_string_start" => n > 0 /\ q[n] = "?"
    /\ st = "fragment_start" => n > 0 /\ q[n] = "#"

\* A path begins where the host ends.
UrlPathAt(v) ==
    "path" \in DOMAIN v =>
        IF "host" \in DOMAIN v THEN v["path"].off = UrlEnd(v, "host") + 1
        ELSE v["path"].off = 1 \/ "schema" \in DOMAIN v

UrlLoop(q, n, st, cf, v) ==
    /\ n \in Nat /\ IsSeq(q, n) /\ st \in DOMAIN UrlKnown
    /\ AreFields(v) /\ UrlTyped(n, v) /\ UrlApart(v) /\ UrlStarted(q, v) /\ UrlLeft(q, n, v)
    /\ UrlDelimited(q, n, v) /\ UrlAt(n, st, cf, v) /\ UrlDelimiter(q, n, st, v) /\ UrlPathAt(v)

UrlInv ==
    /\ result = "parsing" => UrlLoop(url, Len(url), s, uf, u)
    /\ Url!UrlPartsSound

-----------------------------------------------------------------------------
(* UrlParser: the loop over the host, which begins at o.  a is what it has *)
(* after the symbol at e; v are the fields before it.                      *)

HostStates ==
    {"userinfo_start", "userinfo", "host_start", "host_v6_start", "host", "host_v6",
     "host_v6_zone_start", "host_v6_zone", "host_v6_end", "port_start", "port"}
InHost == {"host", "host_v6", "host_v6_zone_start", "host_v6_zone"}
BeforeHost == {"userinfo_start", "userinfo", "host_start", "host_v6_start"}

HostTyped(v, a) ==
    /\ a.h \in HostStates \cup {"dead"} /\ AreFields(a.u) /\ "host" \in DOMAIN a.u
    /\ DOMAIN v \subseteq DOMAIN a.u /\ DOMAIN a.u \subseteq DOMAIN v \cup {"userinfo", "port"}
    /\ \A f \in DOMAIN v \ {"host"} : a.u[f] = v[f]
    /\ \A f \in {"host", "userinfo", "port"} \cap DOMAIN a.u : a.u[f].off \in Nat /\ a.u[f].len \in Nat

UserinfoAt(q, o, h, x, e) ==
    /\ h = "userinfo_start" => e = o - 1
    /\ h = "userinfo" => "userinfo" \in DOMAIN x
    /\ "userinfo" \in DOMAIN x =>
          /\ h # "userinfo_start" /\ x["userinfo"].off = o /\ x["userinfo"].len > 0
          /\ IF h = "userinfo" THEN UrlEnd(x, "userinfo") = e
             ELSE UrlEnd(x, "userinfo") < e /\ q[UrlEnd(x, "userinfo") + 1] = "@"

HostAt(q, o, h, x, e) ==
    /\ h = "host_start" => e = o - 1 \/ (e >= o /\ q[e] = "@")
    /\ h = "host_v6_start" => e >= o /\ q[e] = "["
    /\ h \in BeforeHost => x["host"].len = 0
    /\ h \notin BeforeHost =>
          /\ x["host"].len > 0 /\ x["host"].off >= o
          /\ x["host"].off = o \/ q[x["host"].off - 1] \in {"@", "["}
          /\ IF h \in InHost THEN UrlEnd(x, "host") = e
             ELSE UrlEnd(x, "host") < e /\ q[UrlEnd(x, "host") + 1] \in {":", "]"}
          /\ "userinfo" \in DOMAIN x => UrlEnd(x, "userinfo") < x["host"].off
    /\ h = "host" => q[e] \in Url!HostChars
    /\ h = "host_v6_end" => q[e] = "]"

PortAt(q, o, h, x, e) ==
    /\ h = "port_start" => e >= o /\ q[e] = ":"
    /\ h = "port" <=> "port" \in DOMAIN x
    /\ "port" \in DOMAIN x =>
          /\ UrlEnd(x, "host") < x["port"].off /\ q[x["port"].off - 1] = ":"
          /\ x["port"].len > 0 /\ UrlEnd(x, "port") = e
          /\ \A i \in x["port"].off .. e : q[i] \in DOMAIN Url!Digits

HostDelimited(q, o, x, e) ==
    \A i \in o .. e :
        (\A f \in {"host", "userinfo", "port"} \cap DOMAIN x : i < x[f].off \/ i > UrlEnd(x, f))
            => q[i] \in Delims

HostFields(q, o, h, x, e) ==
    /\ h \in HostStates /\ AreFields(x) /\ "host" \in DOMAIN x
    /\ \A f \in {"host", "userinfo", "port"} \cap DOMAIN x : x[f].off \in Nat /\ x[f].len \in Nat
    /\ UserinfoAt(q, o, h, x, e) /\ HostAt(q, o, h, x, e)
    /\ PortAt(q, o, h, x, e) /\ HostDelimited(q, o, x, e)

HostLoop(q, v, a, e) == HostTyped(v, a) /\ (a.h # "dead" => HostFields(q, v["host"].off, a.h, a.u, e))

\* What parse_url_char lets follow each state
LEMMA UrlNextIs ==
  ASSUME NEW st \in DOMAIN UrlKnown, NEW ch, NEW t, t = Url!UrlNext(st, ch), t # "dead"
  PROVE  /\ st = "spaces_before_url" => t \in {"path", "schema"}
         /\ st = "schema" => t = "schema" \/ (t = "schema_slash" /\ ch = ":")
         /\ st = "schema_slash" => t = "schema_slash_slash" /\ ch = "/"
         /\ st = "schema_slash_slash" => t = "server_start" /\ ch = "/"
         /\ st \in {"server_start", "server", "server_with_at"} =>
               \/ t \in {"server", "server_with_at"}
               \/ t = "path" /\ ch = "/"
               \/ t = "query_string_start" /\ ch = "?"
         /\ st = "path" => \/ t = "path"
                           \/ t = "query_string_start" /\ ch = "?"
                           \/ t = "fragment_start" /\ ch = "#"
         /\ st \in {"query_string_start", "query_string"} =>
               t = "query_string" \/ (t = "fragment_start" /\ ch = "#")
         /\ st = "fragment_start" => t = "fragment" \/ (t = "fragment_start" /\ ch = "#")
         /\ st = "fragment" => t = "fragment"
<1>1. st = "spaces_before_url" => t \in {"path", "schema"}
  BY DEF Url!UrlNext
<1>2. st = "schema" => t = "schema" \/ (t = "schema_slash" /\ ch = ":")
  BY DEF Url!UrlNext
<1>3. st = "schema_slash" => t = "schema_slash_slash" /\ ch = "/"
  BY DEF Url!UrlNext
<1>4. st = "schema_slash_slash" => t = "server_start" /\ ch = "/"
  BY DEF Url!UrlNext
<1>5. st \in {"server_start", "server", "server_with_at"} =>
         \/ t \in {"server", "server_with_at"}
         \/ t = "path" /\ ch = "/"
         \/ t = "query_string_start" /\ ch = "?"
  BY DEF Url!UrlNext
<1>6. st = "path" => \/ t = "path"
                     \/ t = "query_string_start" /\ ch = "?"
                     \/ t = "fragment_start" /\ ch = "#"
  BY DEF Url!UrlNext
<1>7. st \in {"query_string_start", "query_string"} =>
         t = "query_string" \/ (t = "fragment_start" /\ ch = "#")
  BY DEF Url!UrlNext
<1>8. st = "fragment_start" => t = "fragment" \/ (t = "fragment_start" /\ ch = "#")
  BY DEF Url!UrlNext
<1>9. st = "fragment" => t = "fragment"
  BY DEF Url!UrlNext
<1> QED BY <1>1, <1>2, <1>3, <1>4, <1>5, <1>6, <1>7, <1>8, <1>9

\* A turn goes on with a field, begins one that is not set, or takes a
\* delimiter; what ends a field is the symbol that may follow it.
UrlGoesOn(st, t) == st \in DOMAIN Url!FieldOf /\ t \in DOMAIN Url!FieldOf /\ Url!FieldOf[st] = Url!FieldOf[t]

LEMMA UrlTurns ==
  ASSUME NEW st \in DOMAIN UrlKnown, NEW ch, NEW t, t = Url!UrlNext(st, ch), t # "dead"
  PROVE  /\ t \in DOMAIN UrlKnown /\ UrlKnown[st] \subseteq UrlKnown[t]
         /\ t \in DOMAIN Url!FieldOf => Url!FieldOf[t] \in UrlKnown[t]
         /\ t \in DOMAIN Url!FieldOf /\ ~UrlGoesOn(st, t) => Url!FieldOf[t] \notin UrlKnown[st] \cup {"max"}
         /\ st \in DOMAIN Url!FieldOf /\ ~UrlGoesOn(st, t) => ch \in UrlAfter[Url!FieldOf[st]]
         /\ t \notin DOMAIN Url!FieldOf => ch \in Delims
<1>1. CASE st \in {"spaces_before_url", "schema", "schema_slash", "schema_slash_slash"}
  BY <1>1, UrlNextIs DEF UrlKnown, UrlAfter, Delims, UrlGoesOn, Url!FieldOf
<1>2. CASE st \in {"server_start", "server", "server_with_at"}
  BY <1>2, UrlNextIs DEF UrlKnown, UrlAfter, Delims, UrlGoesOn, Url!FieldOf
<1>3. CASE st \in {"path", "query_string_start", "query_string"}
  BY <1>3, UrlNextIs DEF UrlKnown, UrlAfter, Delims, UrlGoesOn, Url!FieldOf
<1>4. CASE st \in {"fragment_start", "fragment"}
  BY <1>4, UrlNextIs DEF UrlKnown, UrlAfter, Delims, UrlGoesOn, Url!FieldOf
<1> QED BY <1>1, <1>2, <1>3, <1>4 DEF UrlKnown

\* What a turn makes of the fields
IsLonger(x, v, f) ==
    /\ AreFields(x) /\ DOMAIN x = DOMAIN v
    /\ x[f].off = v[f].off /\ x[f].len = v[f].len + 1
    /\ \A g \in DOMAIN v : g # f => x[g] = v[g]

IsSet(x, v, f, off, len) ==
    /\ AreFields(x) /\ DOMAIN x = DOMAIN v \cup {f}
    /\ x[f].off = off /\ x[f].len = len
    /\ \A g \in DOMAIN v : g # f => x[g] = v[g]

LEMMA UrlLonger ==
  ASSUME NEW v, AreFields(v), NEW f \in DOMAIN v
  PROVE  IsLonger(Url!Longer(v, f), v, f)
<1> DEFINE x == Url!Longer(v, f)
<1>1. x = [g \in DOMAIN v |-> IF g = f THEN [off |-> v[f].off, len |-> v[f].len + 1] ELSE v[g]]
  BY DEF Url!Longer, AreFields
<1> HIDE DEF x
<1>2. \A g \in DOMAIN v : v[g] = [off |-> v[g].off, len |-> v[g].len]
  BY DEF AreFields
<1>3. DOMAIN x = DOMAIN v
  BY <1>1
<1>4. x[f] = [off |-> v[f].off, len |-> v[f].len + 1] /\ \A g \in DOMAIN v : g # f => x[g] = v[g]
  BY <1>1
<1>5. \A g \in DOMAIN v : x[g] = [off |-> x[g].off, len |-> x[g].len]
  BY <1>2, <1>4
<1>6. AreFields(x)
  BY <1>1, <1>3, <1>5 DEF AreFields
<1>7. x[f].off = v[f].off /\ x[f].len = v[f].len + 1
  BY <1>4
<1> QED BY <1>3, <1>4, <1>6, <1>7 DEF x, IsLonger

LEMMA UrlSet ==
  ASSUME NEW v, AreFields(v), NEW f, NEW off, NEW len
  PROVE  IsSet(Url!Set(v, f, off, len), v, f, off, len)
<1> DEFINE x == Url!Set(v, f, off, len)
<1>1. x = [g \in DOMAIN v \cup {f} |-> IF g = f THEN [off |-> off, len |-> len] ELSE v[g]]
  BY DEF Url!Set
<1> HIDE DEF x
<1>2. \A g \in DOMAIN v : v[g] = [off |-> v[g].off, len |-> v[g].len]
  BY DEF AreFields
<1>3. DOMAIN x = DOMAIN v \cup {f}
  BY <1>1
<1>4. x[f] = [off |-> off, len |-> len] /\ \A g \in DOMAIN v : g # f => x[g] = v[g]
  BY <1>1
<1>5. \A g \in DOMAIN x : x[g] = [off |-> x[g].off, len |-> x[g].len]
  BY <1>2, <1>3, <1>4
<1>6. AreFields(x)
  BY <1>1, <1>3, <1>5 DEF AreFields
<1> QED BY <1>3, <1>4, <1>6 DEF x, IsSet

\* The loop reads one more symbol; t, cg and x are what the turn makes of the
\* state, the field and the fields.
UrlTakes(q, n, q2, ch) ==
    IsSeq(q2, n + 1) /\ (\A i \in 1 .. n : q2[i] = q[i]) /\ q2[n + 1] = ch

LEMMA UrlGoingOn ==
  ASSUME NEW q, NEW n, NEW st, NEW cf, NEW v, UrlLoop(q, n, st, cf, v),
         NEW q2, NEW ch, UrlTakes(q, n, q2, ch),
         NEW t, t = Url!UrlNext(st, ch), UrlGoesOn(st, t), t # "dead"
  PROVE  UrlLoop(q2, n + 1, t, cf, Url!Longer(v, cf))
<1> DEFINE x == Url!Longer(v, cf)
<1>1. n \in Nat /\ st \in DOMAIN UrlKnown /\ AreFields(v)
  BY DEF UrlLoop
<1>2. cf = Url!FieldOf[st] /\ cf \in DOMAIN v /\ UrlEnd(v, cf) = n /\ DOMAIN v \subseteq UrlKnown[st]
  BY DEF UrlLoop, UrlAt, UrlGoesOn
<1>3. t \in DOMAIN UrlKnown /\ UrlKnown[st] \subseteq UrlKnown[t] /\ cf = Url!FieldOf[t] /\ t \in DOMAIN Url!FieldOf /\ cf \in UrlKnown[t]
  BY <1>1, <1>2, UrlTurns DEF UrlGoesOn
<1>4. /\ AreFields(x) /\ DOMAIN x = DOMAIN v
      /\ x[cf].off = v[cf].off /\ x[cf].len = v[cf].len + 1
      /\ \A g \in DOMAIN v : g # cf => x[g] = v[g]
  <2>1. IsLonger(x, v, cf)
    BY <1>1, <1>2, UrlLonger
  <2> HIDE DEF x
  <2> QED BY <2>1 DEF IsLonger
<1> HIDE DEF x
<1>5. UrlTyped(n, v)
  BY DEF UrlLoop
<1>6. UrlEnd(x, cf) = n + 1 /\ \A g \in DOMAIN v : g # cf => UrlEnd(x, g) = UrlEnd(v, g)
  BY <1>1, <1>2, <1>4, <1>5 DEF UrlEnd, UrlTyped
<1>7. UrlTyped(n + 1, x)
  <2> SUFFICES ASSUME NEW g \in DOMAIN v
               PROVE  x[g].off \in 1 .. n + 1 /\ x[g].len \in 1 .. n + 1 /\ UrlEnd(x, g) <= n + 1
    BY <1>4 DEF UrlTyped
  <2>1. v[g].off \in 1 .. n /\ v[g].len \in 1 .. n /\ UrlEnd(v, g) <= n
    BY <1>5 DEF UrlTyped
  <2>2. UrlEnd(v, g) \in Int
    BY <1>1, <2>1 DEF UrlEnd
  <2> QED BY <1>1, <1>4, <1>6, <2>1, <2>2
<1>8. UrlApart(x)
  <2>1. UrlApart(v)
    BY DEF UrlLoop
  <2>2. \A g \in DOMAIN v : g # cf => UrlEnd(v, g) < v[cf].off
    <3> SUFFICES ASSUME NEW g \in DOMAIN v, g # cf PROVE UrlEnd(v, g) < v[cf].off
      OBVIOUS
    <3>1. UrlEnd(v, g) < v[cf].off \/ UrlEnd(v, cf) < v[g].off
      BY <1>2, <2>1 DEF UrlApart
    <3>2. v[g].off \in 1 .. n
      BY <1>5 DEF UrlTyped
    <3> QED BY <1>1, <1>2, <3>1, <3>2
  <2> QED BY <1>4, <1>6, <2>1, <2>2 DEF UrlApart
<1>9. UrlStarted(q2, x)
  <2>1. UrlStarted(q, v)
    BY DEF UrlLoop
  <2>2. \A g \in DOMAIN v : x[g].off = v[g].off
    BY <1>4
  <2>3. \A g \in DOMAIN v : v[g].off > 1 => q2[v[g].off - 1] = q[v[g].off - 1]
    BY <1>1, <1>5 DEF UrlTyped, UrlTakes
  <2>4. \A g \in DOMAIN v : v[g].off \in 1 .. n
    BY <1>5 DEF UrlTyped
  <2> QED BY <1>1, <1>4, <2>1, <2>2, <2>3, <2>4 DEF UrlStarted
<1>10. UrlLeft(q2, n + 1, x)
  <2> SUFFICES ASSUME NEW g \in DOMAIN v, UrlEnd(x, g) < n + 1
               PROVE  q2[UrlEnd(x, g) + 1] \in UrlAfter[g]
    BY <1>4 DEF UrlLeft
  <2>1. g # cf /\ UrlEnd(x, g) = UrlEnd(v, g)
    BY <1>1, <1>6
  <2>2. UrlEnd(v, g) < n /\ UrlEnd(v, g) + 1 \in 1 .. n
    <3>1. UrlEnd(v, g) < v[cf].off \/ UrlEnd(v, cf) < v[g].off
      BY <1>2, <2>1 DEF UrlLoop, UrlApart
    <3>2. v[g].off \in 1 .. n /\ v[g].len \in 1 .. n /\ v[cf].off \in 1 .. n /\ v[cf].len \in 1 .. n
      BY <1>2, <1>5 DEF UrlTyped
    <3> QED BY <1>1, <1>2, <3>1, <3>2 DEF UrlEnd
  <2> QED BY <2>1, <2>2 DEF UrlLoop, UrlLeft, UrlTakes
<1>11. UrlDelimited(q2, n + 1, x)
  <2> SUFFICES ASSUME NEW i \in 1 .. n + 1, \A g \in DOMAIN x : i < x[g].off \/ i > UrlEnd(x, g)
               PROVE  q2[i] \in Delims
    BY DEF UrlDelimited
  <2>1. v[cf].off \in 1 .. n /\ (i < v[cf].off \/ i > n + 1)
    BY <1>2, <1>4, <1>5, <1>6 DEF UrlTyped
  <2>2. i \in 1 .. n
    BY <1>1, <2>1
  <2>3. \A g \in DOMAIN v : i < v[g].off \/ i > UrlEnd(v, g)
    BY <1>1, <1>2, <1>4, <1>6, <2>1, <2>2
  <2> QED BY <2>2, <2>3 DEF UrlLoop, UrlDelimited, UrlTakes
<1>12. UrlAt(n + 1, t, cf, x)
  BY <1>2, <1>3, <1>4, <1>6 DEF UrlAt
<1>13. UrlDelimiter(q2, n + 1, t, x)
  BY <1>3 DEF UrlDelimiter, Url!FieldOf
<1>14. UrlPathAt(x)
  <2>1. UrlPathAt(v)
    BY DEF UrlLoop
  <2>2. "path" \in DOMAIN v => cf # "host"
    <3>1. st \in DOMAIN Url!FieldOf
      BY DEF UrlGoesOn
    <3> QED BY <1>1, <1>2, <3>1 DEF Url!FieldOf, UrlKnown
  <2>3. "path" \in DOMAIN v => x["path"].off = v["path"].off
    BY <1>4
  <2> QED BY <1>4, <1>6, <2>1, <2>2, <2>3 DEF UrlPathAt
<1>15. n + 1 \in Nat /\ IsSeq(q2, n + 1)
  BY <1>1 DEF UrlTakes
<1> QED BY <1>3, <1>4, <1>7, <1>8, <1>9, <1>10, <1>11, <1>12, <1>13, <1>14, <1>15 DEF UrlLoop, x

\* A symbol that does not go on with a field may follow the one before.
LEMMA UrlLeaves ==
  ASSUME NEW q, NEW n, NEW st, NEW cf, NEW v, UrlLoop(q, n, st, cf, v),
         NEW q2, NEW ch, UrlTakes(q, n, q2, ch),
         NEW t, t = Url!UrlNext(st, ch), ~UrlGoesOn(st, t), t # "dead"
  PROVE  /\ UrlLeft(q2, n + 1, v) /\ UrlTyped(n + 1, v) /\ \A f \in DOMAIN v : UrlEnd(v, f) < n + 1
         /\ \A f \in DOMAIN v : v[f].off > 1 => q2[v[f].off - 1] = q[v[f].off - 1]
<1>1. n \in Nat /\ st \in DOMAIN UrlKnown /\ UrlTyped(n, v) /\ UrlApart(v) /\ UrlLeft(q, n, v) /\ UrlAt(n, st, cf, v)
  BY DEF UrlLoop
<1>2. \A f \in DOMAIN v : v[f].off \in 1 .. n /\ v[f].len \in 1 .. n /\ UrlEnd(v, f) \in 1 .. n
  BY <1>1 DEF UrlTyped, UrlEnd
<1>3. UrlTyped(n + 1, v) /\ \A f \in DOMAIN v : UrlEnd(v, f) < n + 1
  BY <1>1, <1>2 DEF UrlTyped
<1>4. \A f \in DOMAIN v : v[f].off > 1 => q2[v[f].off - 1] = q[v[f].off - 1]
  BY <1>1, <1>2 DEF UrlTakes
<1>5. ASSUME NEW f \in DOMAIN v PROVE q2[UrlEnd(v, f) + 1] \in UrlAfter[f]
  <2>1. CASE UrlEnd(v, f) < n
    <3>1. UrlEnd(v, f) + 1 \in 1 .. n
      BY <1>1, <1>2, <2>1
    <3> QED BY <1>1, <2>1, <3>1 DEF UrlLeft, UrlTakes
  <2>2. CASE UrlEnd(v, f) = n
    <3>1. st \in DOMAIN Url!FieldOf /\ cf = Url!FieldOf[st] /\ cf \in DOMAIN v /\ UrlEnd(v, cf) = n
      BY <1>1, <1>2, <2>2 DEF UrlAt
    <3>2. f = cf
      <4> SUFFICES ASSUME f # cf PROVE FALSE
        OBVIOUS
      <4>1. UrlEnd(v, f) < v[cf].off \/ UrlEnd(v, cf) < v[f].off
        BY <1>1, <3>1 DEF UrlApart
      <4>2. v[f].off \in 1 .. n /\ v[cf].off \in 1 .. n
        BY <1>2, <3>1
      <4> QED BY <1>1, <2>2, <3>1, <4>1, <4>2
    <3>3. ch \in UrlAfter[Url!FieldOf[st]]
      BY <1>1, <3>1, UrlTurns
    <3> QED BY <2>2, <3>1, <3>2, <3>3 DEF UrlTakes
  <2> QED BY <1>1, <1>2, <2>1, <2>2
<1> QED BY <1>3, <1>4, <1>5 DEF UrlLeft

LEMMA UrlBeginning ==
  ASSUME NEW q, NEW n, NEW st, NEW cf, NEW v, UrlLoop(q, n, st, cf, v),
         NEW q2, NEW ch, UrlTakes(q, n, q2, ch),
         NEW t, t = Url!UrlNext(st, ch), ~UrlGoesOn(st, t), t # "dead", t \in DOMAIN Url!FieldOf
  PROVE  /\ Url!FieldOf[t] # cf
         /\ UrlLoop(q2, n + 1, t, Url!FieldOf[t], Url!Set(v, Url!FieldOf[t], n + 1, 1))
<1> DEFINE cg == Url!FieldOf[t]
      x == Url!Set(v, cg, n + 1, 1)
<1>1. /\ n \in Nat /\ st \in DOMAIN UrlKnown /\ AreFields(v) /\ UrlTyped(n, v) /\ UrlApart(v) /\ UrlStarted(q, v)
      /\ UrlDelimited(q, n, v) /\ UrlAt(n, st, cf, v) /\ UrlDelimiter(q, n, st, v) /\ UrlPathAt(v)
  BY DEF UrlLoop
<1>2. DOMAIN v \subseteq UrlKnown[st] /\ cf \in {"max"} \cup UrlKnown[st]
  BY <1>1 DEF UrlAt
<1>3. /\ t \in DOMAIN UrlKnown /\ UrlKnown[st] \subseteq UrlKnown[t] /\ cg \in UrlKnown[t]
      /\ cg \notin UrlKnown[st] \cup {"max"}
  BY <1>1, UrlTurns
<1>4. cg # cf /\ cg \notin DOMAIN v
  BY <1>2, <1>3
<1>5. /\ AreFields(x) /\ DOMAIN x = DOMAIN v \cup {cg}
      /\ x[cg].off = n + 1 /\ x[cg].len = 1 /\ UrlEnd(x, cg) = n + 1
      /\ \A g \in DOMAIN v : x[g] = v[g] /\ UrlEnd(x, g) = UrlEnd(v, g)
  <2> HIDE DEF cg
  <2>1. IsSet(x, v, cg, n + 1, 1)
    BY <1>1, UrlSet
  <2> HIDE DEF x
  <2> QED BY <1>1, <1>4, <2>1 DEF UrlEnd, IsSet
<1> HIDE DEF x
<1>6. /\ UrlLeft(q2, n + 1, v) /\ UrlTyped(n + 1, v) /\ \A f \in DOMAIN v : UrlEnd(v, f) < n + 1
      /\ \A f \in DOMAIN v : v[f].off > 1 => q2[v[f].off - 1] = q[v[f].off - 1]
  BY UrlLeaves
<1>7. /\ cg = "schema" => n = 0
      /\ cg = "host" => n = 0 \/ q2[n] = "/"
      /\ cg = "query" => n > 0 /\ q2[n] = "?"
      /\ cg = "fragment" => n > 0 /\ q2[n] = "#"
      /\ cg = "path" => \/ n = 0 /\ "host" \notin DOMAIN v
                        \/ "schema" \in DOMAIN v /\ "host" \notin DOMAIN v
                        \/ "host" \in DOMAIN v /\ UrlEnd(v, "host") = n
  <2>1. n > 0 => q2[n] = q[n]
    BY <1>1 DEF UrlTakes
  <2>2. CASE st \in {"spaces_before_url", "schema", "schema_slash", "schema_slash_slash"}
    BY <1>1, <1>2, <2>2, UrlNextIs DEF UrlDelimiter, UrlKnown, Url!FieldOf, UrlGoesOn
  <2>3. CASE st = "server_start"
    BY <1>1, <1>2, <2>1, <2>3, UrlNextIs DEF UrlDelimiter, UrlKnown, Url!FieldOf, UrlGoesOn
  <2>4. CASE st \in {"server", "server_with_at"}
    BY <1>1, <1>2, <2>4, UrlNextIs DEF UrlAt, UrlKnown, Url!FieldOf, UrlGoesOn
  <2>5. CASE st \in {"path", "query_string", "fragment"}
    BY <1>1, <1>2, <2>5, UrlNextIs DEF UrlKnown, Url!FieldOf, UrlGoesOn
  <2>6. CASE st \in {"query_string_start", "fragment_start"}
    BY <1>1, <1>2, <2>1, <2>6, UrlNextIs DEF UrlDelimiter, UrlKnown, Url!FieldOf, UrlGoesOn
  <2> QED BY <1>1, <2>2, <2>3, <2>4, <2>5, <2>6 DEF UrlKnown
<1>8. UrlTyped(n + 1, x)
  <2> SUFFICES ASSUME NEW g \in DOMAIN v \cup {cg}
               PROVE  x[g].off \in 1 .. n + 1 /\ x[g].len \in 1 .. n + 1 /\ UrlEnd(x, g) <= n + 1
    BY <1>5 DEF UrlTyped
  <2>1. CASE g = cg
    BY <1>1, <1>5, <2>1
  <2>2. CASE g \in DOMAIN v
    BY <1>5, <1>6, <2>2 DEF UrlTyped
  <2> QED BY <2>1, <2>2
<1>9. UrlApart(x)
  <2>1. \A f, g \in DOMAIN v : f # g => UrlEnd(x, f) < x[g].off \/ UrlEnd(x, g) < x[f].off
    BY <1>1, <1>5 DEF UrlApart
  <2>2. \A f \in DOMAIN v : UrlEnd(x, f) < x[cg].off
    BY <1>5, <1>6
  <2> HIDE DEF cg
  <2> QED BY <1>5, <2>1, <2>2 DEF UrlApart
<1>10. UrlStarted(q2, x)
  <2>1. n + 1 > 1 <=> n > 0
    BY <1>1
  <2>2. n + 1 - 1 = n /\ (n = 0 => n + 1 = 1)
    BY <1>1
  <2>3. \A f \in DOMAIN v :
        /\ f = "schema" => v[f].off = 1
        /\ f = "host" => v[f].off = 1 \/ q2[v[f].off - 1] = "/"
        /\ f = "query" => v[f].off > 1 /\ q2[v[f].off - 1] = "?"
        /\ f = "fragment" => v[f].off > 1 /\ q2[v[f].off - 1] = "#"
    <3>1. \A f \in DOMAIN v : v[f].off = 1 \/ v[f].off > 1
      BY <1>6 DEF UrlTyped
    <3> QED BY <1>1, <1>6, <3>1 DEF UrlStarted
  <2>4. ASSUME NEW f \in DOMAIN x
        PROVE
        /\ f = "schema" => x[f].off = 1
        /\ f = "host" => x[f].off = 1 \/ q2[x[f].off - 1] = "/"
        /\ f = "query" => x[f].off > 1 /\ q2[x[f].off - 1] = "?"
        /\ f = "fragment" => x[f].off > 1 /\ q2[x[f].off - 1] = "#"
    <3>1. CASE f = cg
      <4> HIDE DEF cg
      <4>1. x[f].off = n + 1 /\ x[f].off - 1 = n
        <5>1. x[f].off = n + 1
          BY <1>5, <3>1, Zenon
        <5> QED BY <1>1, <5>1
      <4> QED BY <1>7, <2>1, <2>2, <3>1, <4>1
    <3>2. CASE f \in DOMAIN v
      BY <1>5, <2>3, <3>2
    <3> QED BY <1>5, <3>1, <3>2
  <2> QED BY <2>4 DEF UrlStarted
<1>11. UrlLeft(q2, n + 1, x)
  <2> SUFFICES ASSUME NEW g \in DOMAIN v \cup {cg}, UrlEnd(x, g) < n + 1
               PROVE  q2[UrlEnd(x, g) + 1] \in UrlAfter[g]
    BY <1>5 DEF UrlLeft
  <2>1. g \in DOMAIN v /\ UrlEnd(x, g) = UrlEnd(v, g)
    BY <1>1, <1>5
  <2> QED BY <1>6, <2>1 DEF UrlLeft
<1>12. UrlDelimited(q2, n + 1, x)
  <2> SUFFICES ASSUME NEW i \in 1 .. n + 1, \A g \in DOMAIN x : i < x[g].off \/ i > UrlEnd(x, g)
               PROVE  q2[i] \in Delims
    BY DEF UrlDelimited
  <2>1. i < n + 1 \/ i > n + 1
    BY <1>5
  <2>2. i \in 1 .. n
    BY <1>1, <2>1
  <2>3. \A g \in DOMAIN v : i < v[g].off \/ i > UrlEnd(v, g)
    BY <1>5
  <2> QED BY <1>1, <2>2, <2>3 DEF UrlDelimited, UrlTakes
<1>13. UrlAt(n + 1, t, cg, x)
  BY <1>2, <1>3, <1>5 DEF UrlAt
<1>14. UrlDelimiter(q2, n + 1, t, x)
  BY DEF UrlDelimiter, Url!FieldOf
<1>15. UrlPathAt(x)
  <2>1. CASE cg = "path"
    BY <1>5, <1>7, <2>1 DEF UrlPathAt
  <2>2. CASE cg # "path"
    <3>1. cg = "host" => "path" \notin DOMAIN v
      <4>1. cg = "host" => t \in {"server", "server_with_at"}
        BY DEF Url!FieldOf
      <4> QED BY <1>2, <1>3, <4>1 DEF UrlKnown
    <3> QED BY <1>1, <1>5, <2>2, <3>1 DEF UrlPathAt
  <2> QED BY <2>1, <2>2
<1>16. n + 1 \in Nat /\ IsSeq(q2, n + 1)
  BY <1>1 DEF UrlTakes
<1> QED BY <1>3, <1>4, <1>5, <1>8, <1>9, <1>10, <1>11, <1>12, <1>13, <1>14, <1>15, <1>16 DEF UrlLoop, x

LEMMA UrlDelimiting ==
  ASSUME NEW q, NEW n, NEW st, NEW cf, NEW v, UrlLoop(q, n, st, cf, v),
         NEW q2, NEW ch, UrlTakes(q, n, q2, ch),
         NEW t, t = Url!UrlNext(st, ch), t # "dead", t \notin DOMAIN Url!FieldOf
  PROVE  UrlLoop(q2, n + 1, t, cf, v)
<1>1. /\ n \in Nat /\ st \in DOMAIN UrlKnown /\ AreFields(v) /\ UrlTyped(n, v) /\ UrlApart(v) /\ UrlStarted(q, v)
      /\ UrlDelimited(q, n, v) /\ UrlAt(n, st, cf, v) /\ UrlDelimiter(q, n, st, v) /\ UrlPathAt(v)
  BY DEF UrlLoop
<1>2. ~UrlGoesOn(st, t)
  BY DEF UrlGoesOn
<1>3. /\ UrlLeft(q2, n + 1, v) /\ UrlTyped(n + 1, v) /\ \A f \in DOMAIN v : UrlEnd(v, f) < n + 1
      /\ \A f \in DOMAIN v : v[f].off > 1 => q2[v[f].off - 1] = q[v[f].off - 1]
  BY <1>2, UrlLeaves
<1>4. t \in DOMAIN UrlKnown /\ UrlKnown[st] \subseteq UrlKnown[t] /\ ch \in Delims
  BY <1>1, UrlTurns
<1>5. UrlStarted(q2, v)
  <2>1. \A f \in DOMAIN v : v[f].off = 1 \/ v[f].off > 1
    BY <1>3 DEF UrlTyped
  <2> QED BY <1>1, <1>3, <2>1 DEF UrlStarted
<1>6. UrlDelimited(q2, n + 1, v)
  <2> SUFFICES ASSUME NEW i \in 1 .. n + 1, \A g \in DOMAIN v : i < v[g].off \/ i > UrlEnd(v, g)
               PROVE  q2[i] \in Delims
    BY DEF UrlDelimited
  <2>1. CASE i = n + 1
    BY <1>4, <2>1 DEF UrlTakes
  <2>2. CASE i # n + 1
    <3>1. i \in 1 .. n
      BY <1>1, <2>2
    <3> QED BY <1>1, <3>1 DEF UrlDelimited, UrlTakes
  <2> QED BY <2>1, <2>2
<1>7. UrlAt(n + 1, t, cf, v)
  BY <1>1, <1>3, <1>4 DEF UrlAt
<1>8. UrlDelimiter(q2, n + 1, t, v)
  <2>1. CASE st \in {"spaces_before_url", "schema", "schema_slash", "schema_slash_slash"}
    <3>1. st \in {"schema", "schema_slash", "schema_slash_slash"} => "schema" \in DOMAIN v
      BY <1>1 DEF UrlAt, UrlDelimiter, Url!FieldOf
    <3> QED BY <1>1, <2>1, <3>1, UrlNextIs DEF UrlDelimiter, Url!FieldOf, UrlTakes
  <2>2. CASE st \notin {"spaces_before_url", "schema", "schema_slash", "schema_slash_slash"}
    BY <1>1, <2>2, UrlNextIs DEF UrlDelimiter, Url!FieldOf, UrlKnown, UrlTakes
  <2> QED BY <2>1, <2>2
<1>9. n + 1 \in Nat /\ IsSeq(q2, n + 1)
  BY <1>1 DEF UrlTakes
<1> QED BY <1>1, <1>3, <1>4, <1>5, <1>6, <1>7, <1>8, <1>9 DEF UrlLoop

\* What http_parse_host_char lets follow each state
LEMMA HostNextIs ==
  ASSUME NEW h \in HostStates, NEW ch, NEW g, g = Url!HostNext(h, ch), g # "dead"
  PROVE  /\ h \in {"userinfo_start", "userinfo"} => g = "userinfo" \/ (g = "host_start" /\ ch = "@")
         /\ h = "host_start" => (g = "host_v6_start" /\ ch = "[") \/ (g = "host" /\ ch \in Url!HostChars)
         /\ h = "host_v6_start" => g = "host_v6"
         /\ h = "host" => (g = "host" /\ ch \in Url!HostChars) \/ (g = "port_start" /\ ch = ":")
         /\ h = "host_v6" => g \in {"host_v6", "host_v6_zone_start"} \/ (g = "host_v6_end" /\ ch = "]")
         /\ h \in {"host_v6_zone_start", "host_v6_zone"} =>
               g = "host_v6_zone" \/ (g = "host_v6_end" /\ ch = "]")
         /\ h = "host_v6_end" => g = "port_start" /\ ch = ":"
         /\ h \in {"port_start", "port"} => g = "port" /\ ch \in DOMAIN Url!Digits
<1>1. h \in {"userinfo_start", "userinfo"} => g = "userinfo" \/ (g = "host_start" /\ ch = "@")
  BY DEF Url!HostNext
<1>2. h = "host_start" => (g = "host_v6_start" /\ ch = "[") \/ (g = "host" /\ ch \in Url!HostChars)
  BY DEF Url!HostNext
<1>3. h = "host_v6_start" => g = "host_v6"
  BY DEF Url!HostNext
<1>4. h = "host" => (g = "host" /\ ch \in Url!HostChars) \/ (g = "port_start" /\ ch = ":")
  BY DEF Url!HostNext
<1>5. h = "host_v6" => g \in {"host_v6", "host_v6_zone_start"} \/ (g = "host_v6_end" /\ ch = "]")
  BY DEF Url!HostNext
<1>6. h \in {"host_v6_zone_start", "host_v6_zone"} => g = "host_v6_zone" \/ (g = "host_v6_end" /\ ch = "]")
  BY DEF Url!HostNext
<1>7. h = "host_v6_end" => g = "port_start" /\ ch = ":"
  BY DEF Url!HostNext
<1>8. h \in {"port_start", "port"} => g = "port" /\ ch \in DOMAIN Url!Digits
  <2>1. h = "port" => g = "port" /\ Url!IsDigit(ch)
    BY DEF Url!HostNext
  <2>2. h = "port_start" => g = "port" /\ Url!IsDigit(ch)
    BY DEF Url!HostNext
  <2> QED BY <2>1, <2>2 DEF Url!IsDigit
<1> QED BY <1>1, <1>2, <1>3, <1>4, <1>5, <1>6, <1>7, <1>8

\* A symbol that is in no field
LEMMA HostDelimits ==
  ASSUME NEW o \in Nat, NEW e \in Nat, NEW h, NEW x, HostFields(url, o, h, x, e),
         NEW g, g = Url!HostNext(h, url[e + 1]),
         g \in {"host_start", "host_v6_start", "host_v6_end", "port_start"}, o >= 1, e >= o - 1
  PROVE  HostFields(url, o, g, x, e + 1)
<1> DEFINE ch == url[e + 1]
<1>1. /\ h \in {"userinfo_start", "userinfo"} => g = "host_start" /\ ch = "@"
      /\ h = "host_start" => g = "host_v6_start" /\ ch = "["
      /\ h = "host" => g = "port_start" /\ ch = ":"
      /\ h \in {"host_v6", "host_v6_zone_start", "host_v6_zone"} => g = "host_v6_end" /\ ch = "]"
      /\ h = "host_v6_end" => g = "port_start" /\ ch = ":"
      /\ h \in {"userinfo_start", "userinfo", "host_start", "host", "host_v6", "host_v6_zone_start",
                "host_v6_zone", "host_v6_end"}
  BY HostNextIs DEF HostFields, HostStates
<1> HIDE DEF ch
<1>2. /\ UserinfoAt(url, o, h, x, e) /\ HostAt(url, o, h, x, e) /\ PortAt(url, o, h, x, e)
      /\ HostDelimited(url, o, x, e)
      /\ \A f \in {"host", "userinfo", "port"} \cap DOMAIN x :
            x[f].off \in Nat /\ x[f].len \in Nat /\ UrlEnd(x, f) \in Int
  BY DEF HostFields, UrlEnd
<1>3. UserinfoAt(url, o, g, x, e + 1)
  BY <1>1, <1>2 DEF UserinfoAt, ch
<1>4. HostAt(url, o, g, x, e + 1)
  <2>1. x["host"].off \in Nat /\ x["host"].len \in Nat /\ UrlEnd(x, "host") \in Int
    BY <1>2 DEF HostFields
  <2>2. CASE h \in {"userinfo_start", "userinfo", "host_start"}
    BY <1>1, <1>2, <2>1, <2>2 DEF HostAt, BeforeHost, ch
  <2>3. CASE h \in InHost
    BY <1>1, <1>2, <2>1, <2>3 DEF HostAt, BeforeHost, InHost, ch
  <2>4. CASE h = "host_v6_end"
    BY <1>1, <1>2, <2>1, <2>4 DEF HostAt, BeforeHost, InHost, ch
  <2> QED BY <1>1, <2>2, <2>3, <2>4 DEF InHost
<1>5. PortAt(url, o, g, x, e + 1)
  BY <1>1, <1>2 DEF PortAt, ch
<1>6. HostDelimited(url, o, x, e + 1)
  <2> SUFFICES ASSUME NEW i \in o .. e + 1,
                      \A f \in {"host", "userinfo", "port"} \cap DOMAIN x : i < x[f].off \/ i > UrlEnd(x, f)
               PROVE  url[i] \in Delims
    BY DEF HostDelimited
  <2>1. CASE i = e + 1
    BY <1>1, <2>1 DEF Delims, ch
  <2>2. CASE i # e + 1
    <3>1. i \in o .. e
      BY <2>2
    <3> QED BY <1>2, <3>1 DEF HostDelimited
  <2> QED BY <2>1, <2>2
<1> QED BY <1>2, <1>3, <1>4, <1>5, <1>6 DEF HostFields, HostStates

\* The fields that go on or begin when state g follows h
GoesOn(f, h, g) ==
    \/ f = "host" /\ h \in InHost /\ g \in InHost
    \/ f = "port" /\ h = "port" /\ g = "port"
    \/ f = "userinfo" /\ h = "userinfo" /\ g = "userinfo"

Starts(f, h, g) ==
    \/ f = "host" /\ h \in {"host_start", "host_v6_start"} /\ g \in {"host", "host_v6"}
    \/ f = "port" /\ h = "port_start" /\ g = "port"
    \/ f = "userinfo" /\ h = "userinfo_start" /\ g = "userinfo"

\* A field that goes on
LEMMA HostGoesOn ==
  ASSUME NEW o \in Nat, NEW e \in Nat, NEW h, NEW x, HostFields(url, o, h, x, e),
         NEW g, g = Url!HostNext(h, url[e + 1]), o >= 1, e >= o - 1,
         NEW f, NEW y, IsLonger(y, x, f), f \in DOMAIN x, GoesOn(f, h, g)
  PROVE  HostFields(url, o, g, y, e + 1)
<1> USE DEF GoesOn
<1> DEFINE ch == url[e + 1]
<1>1. /\ g = "host" => ch \in Url!HostChars
      /\ g = "port" => ch \in DOMAIN Url!Digits
  BY HostNextIs DEF HostFields, HostStates, InHost
<1> HIDE DEF ch
<1>2. /\ UserinfoAt(url, o, h, x, e) /\ HostAt(url, o, h, x, e) /\ PortAt(url, o, h, x, e)
      /\ HostDelimited(url, o, x, e) /\ "host" \in DOMAIN x
      /\ \A k \in {"host", "userinfo", "port"} \cap DOMAIN x :
            x[k].off \in Nat /\ x[k].len \in Nat /\ UrlEnd(x, k) \in Int
  BY DEF HostFields, UrlEnd
<1>3. AreFields(y) /\ DOMAIN y = DOMAIN x /\ "host" \in DOMAIN y
  BY <1>2 DEF IsLonger
<1>4. /\ y[f].off = x[f].off /\ y[f].len = x[f].len + 1
      /\ \A k \in DOMAIN x : k # f => y[k] = x[k] /\ UrlEnd(y, k) = UrlEnd(x, k)
  BY DEF IsLonger, UrlEnd
<1>5. x[f].off \in Nat /\ x[f].len \in Nat
  BY <1>2
<1>6. UrlEnd(x, f) = e
  <2>1. CASE f = "host"
    BY <1>2, <2>1 DEF HostAt, InHost, BeforeHost
  <2>2. CASE f = "port"
    BY <1>2, <2>2 DEF PortAt
  <2>3. CASE f = "userinfo"
    BY <1>2, <2>3 DEF UserinfoAt
  <2> QED BY <2>1, <2>2, <2>3
<1>7. UrlEnd(y, f) = e + 1
  BY <1>4, <1>5, <1>6 DEF UrlEnd
<1>8. \A k \in {"host", "userinfo", "port"} \cap DOMAIN y : y[k].off \in Nat /\ y[k].len \in Nat
  BY <1>2, <1>3, <1>4, <1>5
<1>9. UserinfoAt(url, o, g, y, e + 1)
  <2>1. CASE f = "userinfo"
    BY <1>2, <1>3, <1>4, <1>5, <1>7, <2>1 DEF UserinfoAt
  <2>2. CASE f # "userinfo"
    BY <1>2, <1>3, <1>4, <2>2 DEF UserinfoAt, InHost
  <2> QED BY <2>1, <2>2
<1>10. HostAt(url, o, g, y, e + 1)
  <2>1. CASE f = "userinfo"
    BY <1>2, <1>3, <1>4, <2>1 DEF HostAt, BeforeHost
  <2>2. CASE f = "port"
    BY <1>2, <1>3, <1>4, <2>2 DEF HostAt, BeforeHost, InHost
  <2>3. CASE f = "host"
    BY <1>1, <1>2, <1>3, <1>4, <1>5, <1>7, <2>3 DEF HostAt, BeforeHost, InHost, ch
  <2> QED BY <2>1, <2>2, <2>3
<1>11. PortAt(url, o, g, y, e + 1)
  <2>1. CASE f = "port"
    <3>1. \A i \in y["port"].off .. e + 1 : url[i] \in DOMAIN Url!Digits
      <4>1. \A i \in x["port"].off .. e : url[i] \in DOMAIN Url!Digits
        BY <1>2, <2>1 DEF PortAt
      <4>2. x["port"].off \in Nat /\ y["port"].off = x["port"].off /\ url[e + 1] \in DOMAIN Url!Digits
        BY <1>1, <1>4, <1>5, <2>1 DEF ch
      <4> QED BY <4>1, <4>2
    <3>2. /\ UrlEnd(x, "host") < x["port"].off /\ url[x["port"].off - 1] = ":"
          /\ y["port"].off = x["port"].off /\ y["port"].len > 0 /\ UrlEnd(y, "host") = UrlEnd(x, "host")
      BY <1>2, <1>4, <1>5, <2>1 DEF PortAt
    <3> QED BY <1>3, <1>7, <2>1, <3>1, <3>2 DEF PortAt
  <2>2. CASE f # "port"
    BY <1>2, <1>3, <2>2 DEF PortAt, InHost
  <2> QED BY <2>1, <2>2
<1>12. HostDelimited(url, o, y, e + 1)
  <2> SUFFICES ASSUME NEW i \in o .. e + 1,
                      \A k \in {"host", "userinfo", "port"} \cap DOMAIN y : i < y[k].off \/ i > UrlEnd(y, k)
               PROVE  url[i] \in Delims
    BY DEF HostDelimited
  <2>1. i < x[f].off \/ i > e + 1
    BY <1>3, <1>4, <1>7
  <2>2. x[f].off <= e
    <3>1. x[f].len > 0
      <4>1. CASE f = "host"
        BY <1>2, <4>1 DEF HostAt, InHost, BeforeHost
      <4>2. CASE f = "port"
        BY <1>2, <4>2 DEF PortAt
      <4>3. CASE f = "userinfo"
        BY <1>2, <4>3 DEF UserinfoAt
      <4> QED BY <4>1, <4>2, <4>3
    <3> QED BY <1>5, <1>6, <3>1 DEF UrlEnd
  <2>3. i \in o .. e
    BY <1>5, <2>1, <2>2
  <2>4. \A k \in {"host", "userinfo", "port"} \cap DOMAIN x : i < x[k].off \/ i > UrlEnd(x, k)
    BY <1>3, <1>4, <1>5, <1>6, <2>1, <2>3
  <2> QED BY <1>2, <2>3, <2>4 DEF HostDelimited
<1> QED BY <1>3, <1>8, <1>9, <1>10, <1>11, <1>12 DEF HostFields, HostStates, InHost

\* A field begins with the symbol.
Begins(y, x, f, off) ==
    /\ AreFields(y) /\ DOMAIN y = DOMAIN x \cup {f} /\ y[f].off = off /\ y[f].len = 1
    /\ \A k \in DOMAIN x : k # f => y[k] = x[k]

LEMMA HostBegins ==
  ASSUME NEW o \in Nat, NEW e \in Nat, NEW h, NEW x, HostFields(url, o, h, x, e),
         NEW g, g = Url!HostNext(h, url[e + 1]), o >= 1, e >= o - 1,
         NEW f, NEW y, Begins(y, x, f, e + 1), Starts(f, h, g)
  PROVE  HostFields(url, o, g, y, e + 1)
<1> USE DEF Starts
<1> DEFINE ch == url[e + 1]
<1>1. /\ g = "host" => ch \in Url!HostChars
      /\ g = "port" => ch \in DOMAIN Url!Digits
      /\ h = "host_start" /\ g \in {"host", "host_v6"} => g = "host"
      /\ h = "host_v6_start" => g = "host_v6"
  BY HostNextIs DEF HostFields, HostStates
<1> HIDE DEF ch
<1>2. /\ UserinfoAt(url, o, h, x, e) /\ HostAt(url, o, h, x, e) /\ PortAt(url, o, h, x, e)
      /\ HostDelimited(url, o, x, e) /\ "host" \in DOMAIN x
      /\ \A k \in {"host", "userinfo", "port"} \cap DOMAIN x :
            x[k].off \in Nat /\ x[k].len \in Nat /\ UrlEnd(x, k) \in Int
  BY DEF HostFields, UrlEnd
<1>3. AreFields(y) /\ DOMAIN y = DOMAIN x \cup {f} /\ "host" \in DOMAIN y
  BY <1>2 DEF Begins
<1>4. /\ y[f].off = e + 1 /\ y[f].len = 1 /\ UrlEnd(y, f) = e + 1
      /\ \A k \in DOMAIN x : k # f => y[k] = x[k] /\ UrlEnd(y, k) = UrlEnd(x, k)
  <2>1. e + 1 + 1 - 1 = e + 1
    OBVIOUS
  <2> QED BY <2>1 DEF Begins, UrlEnd
<1>5. \A k \in {"host", "userinfo", "port"} \cap DOMAIN y : y[k].off \in Nat /\ y[k].len \in Nat
  BY <1>2, <1>3, <1>4
<1>6. UserinfoAt(url, o, g, y, e + 1)
  <2>1. CASE f = "userinfo"
    BY <1>2, <1>3, <1>4, <2>1 DEF UserinfoAt
  <2>2. CASE f # "userinfo"
    BY <1>2, <1>3, <1>4, <2>2 DEF UserinfoAt
  <2> QED BY <2>1, <2>2
<1>7. HostAt(url, o, g, y, e + 1)
  <2>1. CASE f = "userinfo"
    BY <1>2, <1>3, <1>4, <2>1 DEF HostAt, BeforeHost
  <2>2. CASE f = "port"
    BY <1>2, <1>3, <1>4, <2>2 DEF HostAt, BeforeHost, InHost
  <2>3. CASE f = "host"
    <3>1. e + 1 = o \/ url[e + 1 - 1] \in {"@", "["}
      BY <1>2, <2>3 DEF HostAt
    <3>2. "userinfo" \in DOMAIN x => UrlEnd(x, "userinfo") < e + 1
      BY <1>2, <2>3 DEF UserinfoAt
    <3> QED BY <1>1, <1>2, <1>3, <1>4, <2>3, <3>1, <3>2 DEF HostAt, BeforeHost, InHost, ch
  <2> QED BY <2>1, <2>2, <2>3
<1>8. PortAt(url, o, g, y, e + 1)
  <2>1. CASE f = "port"
    <3>1. UrlEnd(x, "host") < e + 1 /\ url[e + 1 - 1] = ":"
      BY <1>2, <2>1 DEF PortAt, HostAt, BeforeHost, InHost
    <3>2. \A i \in e + 1 .. e + 1 : url[i] \in DOMAIN Url!Digits
      BY <1>1, <2>1 DEF ch
    <3> QED BY <1>2, <1>3, <1>4, <2>1, <3>1, <3>2 DEF PortAt
  <2>2. CASE f # "port"
    BY <1>2, <1>3, <2>2 DEF PortAt
  <2> QED BY <2>1, <2>2
<1>9. HostDelimited(url, o, y, e + 1)
  <2> SUFFICES ASSUME NEW i \in o .. e + 1,
                      \A k \in {"host", "userinfo", "port"} \cap DOMAIN y : i < y[k].off \/ i > UrlEnd(y, k)
               PROVE  url[i] \in Delims
    BY DEF HostDelimited
  <2>1. i < e + 1 \/ i > e + 1
    BY <1>3, <1>4
  <2>2. i \in o .. e
    BY <2>1
  <2>3. ASSUME NEW k \in {"host", "userinfo", "port"} \cap DOMAIN x PROVE i < x[k].off \/ i > UrlEnd(x, k)
    <3>1. CASE k # f
      BY <1>3, <1>4, <3>1
    <3>2. CASE k = f
      <4>1. k = "host" /\ x["host"].len = 0
        BY <1>2, <3>2 DEF HostAt, BeforeHost, PortAt, UserinfoAt
      <4> QED BY <1>2, <2>2, <4>1 DEF UrlEnd
    <3> QED BY <3>1, <3>2
  <2> QED BY <1>2, <2>2, <2>3 DEF HostDelimited
<1> QED BY <1>3, <1>5, <1>6, <1>7, <1>8, <1>9 DEF HostFields, HostStates

\* The fields y that a turn makes of x
HostMakes(y, x, o, g, e) ==
    /\ HostFields(url, o, g, y, e + 1)
    /\ DOMAIN x \subseteq DOMAIN y /\ DOMAIN y \subseteq DOMAIN x \cup {"userinfo", "port"}
    /\ \A k \in DOMAIN x : k \notin {"host", "userinfo", "port"} => y[k] = x[k]

\* What one turn of the loop over the host makes of the fields
LEMMA HostTurn ==
  ASSUME NEW v, "host" \in DOMAIN v, v["host"].off \in Nat, v["host"].off >= 1,
         "userinfo" \notin DOMAIN v, "port" \notin DOMAIN v,
         NEW a, NEW e \in Nat, e >= v["host"].off - 1, HostLoop(url, v, a, e)
  PROVE  HostLoop(url, v, Url!HostStep(a, e + 1), e + 1)
<1> DEFINE o == v["host"].off
      b == Url!HostStep(a, e + 1)
      g == Url!HostNext(a.h, url[e + 1])
      x == a.u
<1> SUFFICES HostLoop(url, v, b, e + 1)
  OBVIOUS
<1>1. HostTyped(v, a) /\ (a.h # "dead" => HostFields(url, o, a.h, x, e))
  BY DEF HostLoop
<1>2. AreFields(x) /\ "host" \in DOMAIN x /\ x["host"].off \in Nat /\ x["host"].len \in Nat
  BY <1>1 DEF HostTyped
<1>3. ASSUME b.h = "dead", b.u = x PROVE HostLoop(url, v, b, e + 1)
  BY <1>1, <1>3 DEF HostLoop, HostTyped
<1>4. CASE a.h = "dead" \/ g = "dead"
  <2>1. g = "dead"
    BY <1>4 DEF Url!HostNext
  <2>2. b.h = "dead" /\ b.u = x
    BY <2>1 DEF Url!HostStep, Url!HostFieldOf
  <2> QED BY <1>3, <2>2
<1>5. CASE a.h # "dead" /\ g # "dead"
  <2>1. a.h \in HostStates /\ HostFields(url, o, a.h, x, e)
    BY <1>1, <1>5 DEF HostTyped
  <2>2. ASSUME NEW y, b = [h |-> g, u |-> y], HostMakes(y, x, o, g, e)
        PROVE  HostLoop(url, v, b, e + 1)
    <3>1. b.h = g /\ b.u = y
      BY <2>2
    <3>2. HostTyped(v, b)
      <4>1. g \in HostStates /\ AreFields(y) /\ "host" \in DOMAIN y
            /\ \A k \in {"host", "userinfo", "port"} \cap DOMAIN y : y[k].off \in Nat /\ y[k].len \in Nat
        BY <2>2 DEF HostMakes, HostFields
      <4>2. DOMAIN v \subseteq DOMAIN y /\ DOMAIN y \subseteq DOMAIN v \cup {"userinfo", "port"}
        BY <1>1, <2>2 DEF HostMakes, HostTyped
      <4>3. \A k \in DOMAIN v \ {"host"} : y[k] = v[k]
        BY <1>1, <2>2 DEF HostMakes, HostTyped
      <4> HIDE DEF b
      <4> QED BY <3>1, <4>1, <4>2, <4>3 DEF HostTyped
    <3> HIDE DEF b, g, o
    <3> QED BY <2>2, <3>1, <3>2 DEF HostLoop, HostMakes, o
  <2>3. CASE g \in {"host_start", "host_v6_start", "host_v6_end", "port_start"}
    <3>1. b = [h |-> g, u |-> x]
      BY <2>3 DEF Url!HostStep, Url!HostFieldOf
    <3>2. HostFields(url, o, g, x, e + 1)
      BY <2>1, <2>3, HostDelimits
    <3> HIDE DEF b, g, x, o
    <3>3. HostMakes(x, x, o, g, e)
      BY <3>2 DEF HostMakes
    <3> QED BY <2>2, <3>1, <3>3
  <2>4. ASSUME NEW f \in {"host", "port", "userinfo"}, f \in DOMAIN x, b = [h |-> g, u |-> Url!Longer(x, f)],
               GoesOn(f, a.h, g)
        PROVE  HostLoop(url, v, b, e + 1)
    <3> DEFINE y == Url!Longer(x, f)
    <3>1. IsLonger(y, x, f)
      BY <1>2, <2>4, UrlLonger
    <3> HIDE DEF y
    <3>2. HostFields(url, o, g, y, e + 1)
      BY <2>1, <2>4, <3>1, HostGoesOn
    <3>3. b = [h |-> g, u |-> y]
      BY <2>4 DEF y
    <3> HIDE DEF b, g, x, o
    <3>4. HostMakes(y, x, o, g, e)
      BY <2>4, <3>1, <3>2 DEF IsLonger, HostMakes
    <3> QED BY <2>2, <3>3, <3>4
  <2>5. ASSUME NEW f \in {"host", "port", "userinfo"}, NEW y, Begins(y, x, f, e + 1), b = [h |-> g, u |-> y],
               Starts(f, a.h, g)
        PROVE  HostLoop(url, v, b, e + 1)
    <3>1. HostFields(url, o, g, y, e + 1)
      BY <2>1, <2>5, HostBegins
    <3> HIDE DEF b, g, x, o
    <3>2. DOMAIN y = DOMAIN x \cup {f}
      BY <2>5 DEF Begins
    <3>3. f = "host" => "host" \in DOMAIN x
      BY <1>2
    <3>4. HostMakes(y, x, o, g, e)
      BY <2>5, <3>1, <3>2, <3>3 DEF Begins, HostMakes
    <3> QED BY <2>2, <2>5, <3>4
  <2>6. CASE g \in {"host_v6_zone_start", "host_v6_zone"}
    <3>1. b = [h |-> g, u |-> Url!Longer(x, "host")]
      BY <2>6 DEF Url!HostStep, Url!HostFieldOf
    <3>2. a.h \in InHost /\ g \in InHost
      BY <2>1, <2>6, HostNextIs DEF InHost, HostStates
    <3>3. GoesOn("host", a.h, g)
      BY <3>2 DEF GoesOn
    <3> HIDE DEF b, g, x
    <3> QED BY <1>2, <2>4, <3>1, <3>3
  <2>7. CASE g \in {"host", "host_v6"}
    <3>1. CASE g = a.h
      <4>1. b = [h |-> g, u |-> Url!Longer(x, "host")]
        BY <2>7, <3>1 DEF Url!HostStep, Url!HostFieldOf
      <4>2. GoesOn("host", a.h, g)
        BY <2>7, <3>1 DEF GoesOn, InHost
      <4> HIDE DEF b, g, x
      <4> QED BY <1>2, <2>4, <4>1, <4>2
    <3>2. CASE g # a.h
      <4> DEFINE z == [x EXCEPT !["host"].off = e + 1]
            y == Url!Longer(z, "host")
      <4>1. b = [h |-> g, u |-> y]
        BY <2>7, <3>2 DEF Url!HostStep, Url!HostFieldOf
      <4>2. a.h \in {"host_start", "host_v6_start"}
        BY <2>1, <2>7, <3>2, HostNextIs DEF HostStates
      <4>3. x["host"].len = 0
        BY <2>1, <4>2 DEF HostFields, HostAt, BeforeHost
      <4>4. AreFields(z) /\ DOMAIN z = DOMAIN x /\ z["host"].off = e + 1 /\ z["host"].len = 0
            /\ \A k \in DOMAIN x : k # "host" => z[k] = x[k]
        <5> HIDE DEF x
        <5>1. z = [k \in DOMAIN x |-> IF k = "host" THEN [off |-> e + 1, len |-> x[k].len] ELSE x[k]]
          BY <1>2 DEF AreFields
        <5> HIDE DEF z
        <5>2. \A k \in DOMAIN x : x[k] = [off |-> x[k].off, len |-> x[k].len]
          BY <1>2 DEF AreFields
        <5>3. z["host"] = [off |-> e + 1, len |-> 0] /\ \A k \in DOMAIN x : k # "host" => z[k] = x[k]
          BY <1>2, <4>3, <5>1
        <5>4. \A k \in DOMAIN z : z[k] = [off |-> z[k].off, len |-> z[k].len]
          BY <5>1, <5>2, <5>3
        <5> QED BY <5>1, <5>3, <5>4 DEF AreFields
      <4> HIDE DEF z
      <4>5. IsLonger(y, z, "host")
        BY <1>2, <4>4, UrlLonger
      <4> HIDE DEF b, g, x, y
      <4>6. y["host"].len = 1
        BY <4>4, <4>5 DEF IsLonger
      <4>7. Begins(y, x, "host", e + 1)
        BY <1>2, <4>4, <4>5, <4>6 DEF IsLonger, Begins
      <4>8. Starts("host", a.h, g)
        BY <2>7, <4>2 DEF Starts
      <4> QED BY <2>5, <4>1, <4>7, <4>8
    <3> QED BY <3>1, <3>2
  <2>8. ASSUME NEW f \in {"port", "userinfo"}, g = f PROVE HostLoop(url, v, b, e + 1)
    <3>1. CASE g = a.h
      <4>1. b = [h |-> g, u |-> Url!Longer(x, f)]
        BY <2>8, <3>1 DEF Url!HostStep, Url!HostFieldOf
      <4>2. f \in DOMAIN x /\ GoesOn(f, a.h, g)
        BY <2>1, <2>8, <3>1 DEF HostFields, PortAt, UserinfoAt, GoesOn
      <4> HIDE DEF b, g, x
      <4> QED BY <2>4, <4>1, <4>2
    <3>2. CASE g # a.h
      <4> DEFINE z == Url!Set(x, f, e + 1, 0)
            y == Url!Longer(z, f)
      <4>1. b = [h |-> g, u |-> y]
        BY <2>8, <3>2 DEF Url!HostStep, Url!HostFieldOf
      <4>2. Starts(f, a.h, g)
        <5>1. a.h \in HostStates /\ a.h # g /\ g \in {"port", "userinfo"}
          BY <2>1, <2>8, <3>2
        <5>2. (g = "port" /\ a.h = "port_start") \/ (g = "userinfo" /\ a.h = "userinfo_start")
          BY <1>5, <5>1, HostNextIs DEF HostStates
        <5> QED BY <2>8, <5>2 DEF Starts
      <4>3. IsSet(z, x, f, e + 1, 0)
        BY <1>2, UrlSet
      <4> HIDE DEF z
      <4>4. IsLonger(y, z, f)
        BY <4>3, UrlLonger DEF IsSet
      <4> HIDE DEF b, g, x, y
      <4>5. y[f].len = 1
        BY <4>3, <4>4 DEF IsSet, IsLonger
      <4>6. Begins(y, x, f, e + 1)
        BY <4>3, <4>4, <4>5 DEF IsSet, IsLonger, Begins
      <4> QED BY <2>5, <4>1, <4>2, <4>6
    <3> QED BY <3>1, <3>2
  <2>9. g \in HostStates \ {"userinfo_start"}
    BY <2>1, <1>5, HostNextIs DEF HostStates
  <2> HIDE DEF b, g
  <2> QED BY <2>3, <2>6, <2>7, <2>8, <2>9 DEF HostStates
<1> QED BY <1>4, <1>5

\* The records of the loop over the host, whatever it has read
FieldNames == DOMAIN UrlAfter \cup {"userinfo", "port"}
FieldMaps == UNION {[D -> [off : Int, len : Int]] : D \in SUBSET FieldNames}
HostRecords == [h : HostStates \cup {"dead"}, u : FieldMaps]

LEMMA MapOf ==
  ASSUME NEW D \in SUBSET FieldNames, NEW v \in [D -> [off : Int, len : Int]]
  PROVE  v \in FieldMaps
BY DEF FieldMaps

LEMMA LongerTyped ==
  ASSUME NEW v \in FieldMaps, NEW f
  PROVE  Url!Longer(v, f) \in FieldMaps
<1>1. PICK D \in SUBSET FieldNames : v \in [D -> [off : Int, len : Int]]
  BY DEF FieldMaps
<1>2. Url!Longer(v, f) \in [D -> [off : Int, len : Int]]
  <2>1. CASE f \notin D
    BY <1>1, <2>1 DEF Url!Longer
  <2>2. CASE f \in D
    <3> DEFINE e == [v[f] EXCEPT !.len = @ + 1]
    <3>1. e \in [off : Int, len : Int]
      BY <1>1, <2>2
    <3>2. Url!Longer(v, f) = [v EXCEPT ![f] = e]
      BY <1>1, <2>2 DEF Url!Longer
    <3> HIDE DEF e
    <3> QED BY <1>1, <3>1, <3>2
  <2> QED BY <2>1, <2>2
<1> QED BY <1>1, <1>2, MapOf

LEMMA SetTyped ==
  ASSUME NEW v \in FieldMaps, NEW f \in FieldNames, NEW off \in Int, NEW len \in Int
  PROVE  Url!Set(v, f, off, len) \in FieldMaps
<1>1. PICK D \in SUBSET FieldNames : v \in [D -> [off : Int, len : Int]]
  BY DEF FieldMaps
<1>2. Url!Set(v, f, off, len) \in [D \cup {f} -> [off : Int, len : Int]]
  BY <1>1 DEF Url!Set
<1>3. D \cup {f} \in SUBSET FieldNames
  BY <1>1
<1> QED BY <1>2, <1>3, MapOf

LEMMA HostStepTyped ==
  ASSUME NEW a \in HostRecords, NEW off \in Int
  PROVE  Url!HostStep(a, off) \in HostRecords
<1> DEFINE g == Url!HostNext(a.h, url[off])
      moved == [a.u EXCEPT !["host"].off = off]
      b == Url!HostStep(a, off)
<1> SUFFICES b \in HostRecords
  OBVIOUS
<1>1. g \in HostStates \cup {"dead"}
  BY DEF Url!HostNext, HostStates
<1>2. a.u \in FieldMaps
  BY DEF HostRecords
<1>3. moved \in FieldMaps
  <2>1. PICK D \in SUBSET FieldNames : a.u \in [D -> [off : Int, len : Int]]
    BY <1>2 DEF FieldMaps
  <2>2. moved \in [D -> [off : Int, len : Int]]
    BY <2>1
  <2> QED BY <2>1, <2>2, MapOf
<1>4. \/ \E f \in FieldNames : b = [h |-> g, u |-> Url!Longer(a.u, f)]
      \/ \E f \in FieldNames : b = [h |-> g, u |-> Url!Longer(moved, f)]
      \/ \E f \in FieldNames : b = [h |-> g, u |-> Url!Longer(Url!Set(a.u, f, off, 0), f)]
      \/ b = [h |-> g, u |-> a.u]
  <2>1. "host" \in FieldNames /\ "port" \in FieldNames /\ "userinfo" \in FieldNames
    BY DEF FieldNames, UrlAfter
  <2> HIDE DEF g
  <2>2. CASE g \in {"host_v6_zone_start", "host_v6_zone"}
    BY <2>1, <2>2 DEF Url!HostStep, Url!HostFieldOf, g
  <2>3. CASE g \in {"host", "host_v6", "port", "userinfo"} /\ g = a.h
    BY <2>1, <2>3 DEF Url!HostStep, Url!HostFieldOf, g
  <2>4. CASE g \in {"host", "host_v6"} /\ g # a.h
    BY <2>1, <2>4 DEF Url!HostStep, Url!HostFieldOf, g
  <2>5. CASE g \in {"port", "userinfo"} /\ g # a.h
    BY <2>1, <2>5 DEF Url!HostStep, Url!HostFieldOf, g
  <2>6. CASE g \notin {"host", "host_v6", "port", "userinfo", "host_v6_zone_start", "host_v6_zone"}
    BY <2>6 DEF Url!HostStep, Url!HostFieldOf, g
  <2> QED BY <2>2, <2>3, <2>4, <2>5, <2>6
<1> HIDE DEF b, g, moved
<1>5. \A f \in FieldNames : /\ Url!Longer(a.u, f) \in FieldMaps /\ Url!Longer(moved, f) \in FieldMaps
                            /\ Url!Longer(Url!Set(a.u, f, off, 0), f) \in FieldMaps
  BY <1>2, <1>3, LongerTyped, SetTyped
<1>6. \A y \in FieldMaps : [h |-> g, u |-> y] \in HostRecords
  BY <1>1 DEF HostRecords
<1> QED BY <1>2, <1>4, <1>5, <1>6

\* The loop over the host ends as it should.
LEMMA HostRead ==
  ASSUME UrlLoop(url, Len(url), s, uf, u), "host" \in DOMAIN u
  PROVE  HostLoop(url, u, Url!ParseHost, UrlEnd(u, "host"))
<1> DEFINE o == u["host"].off
      len == u["host"].len
      cleared == [u EXCEPT !["host"].len = 0]
      start == [h |-> IF found_at THEN "userinfo_start" ELSE "host_start", u |-> cleared]
      Turn(f) == [n \in 0 .. len |-> IF n = 0 THEN start ELSE Url!HostStep(f[n - 1], o + n - 1)]
      turn == CHOOSE f : f = Turn(f)
      steps == [n \in 1 .. len |-> [x \in HostRecords |-> Url!HostStep(x, o + n - 1)]]
<1>1. /\ AreFields(u) /\ DOMAIN u \subseteq UrlKnown[s] /\ s \in DOMAIN UrlKnown
      /\ Len(url) \in Nat /\ UrlTyped(Len(url), u)
  BY DEF UrlLoop, UrlAt
<1>2. DOMAIN u \subseteq DOMAIN UrlAfter
  BY <1>1 DEF UrlKnown, UrlAfter
<1>3. o \in Nat /\ o >= 1 /\ len \in Nat /\ len > 0
  BY <1>1 DEF UrlTyped
<1>4. /\ AreFields(cleared) /\ DOMAIN cleared = DOMAIN u /\ cleared["host"].off = o /\ cleared["host"].len = 0
      /\ \A f \in DOMAIN u : f # "host" => cleared[f] = u[f]
  <2>1. cleared = [f \in DOMAIN u |-> IF f = "host" THEN [off |-> o, len |-> 0] ELSE u[f]]
    BY <1>1 DEF AreFields
  <2> HIDE DEF cleared, o
  <2>2. \A f \in DOMAIN u : u[f] = [off |-> u[f].off, len |-> u[f].len]
    BY <1>1 DEF AreFields
  <2>3. cleared["host"] = [off |-> o, len |-> 0] /\ \A f \in DOMAIN u : f # "host" => cleared[f] = u[f]
    BY <2>1
  <2>4. \A f \in DOMAIN cleared : cleared[f] = [off |-> cleared[f].off, len |-> cleared[f].len]
    BY <2>1, <2>2, <2>3
  <2> QED BY <2>1, <2>3, <2>4 DEF AreFields
<1>5. cleared \in FieldMaps
  <2>1. \A f \in DOMAIN cleared : cleared[f].off \in Int /\ cleared[f].len \in Int
    BY <1>1, <1>3, <1>4 DEF UrlTyped
  <2>2. cleared \in [DOMAIN cleared -> [off : Int, len : Int]]
    <3> HIDE DEF cleared
    <3> QED BY <1>4, <2>1 DEF AreFields
  <2>3. DOMAIN cleared \in SUBSET FieldNames
    BY <1>2, <1>4 DEF FieldNames
  <2> HIDE DEF cleared
  <2> QED BY <2>2, <2>3, MapOf
<1> HIDE DEF cleared
<1>6. start \in HostRecords
  BY <1>5 DEF HostRecords, HostStates
<1>7. \A n \in 1 .. len : \A x \in HostRecords : steps[n][x] \in HostRecords /\ steps[n][x] = Url!HostStep(x, o + n - 1)
  <2> SUFFICES ASSUME NEW n \in 1 .. len, NEW x \in HostRecords
               PROVE  steps[n][x] \in HostRecords /\ steps[n][x] = Url!HostStep(x, o + n - 1)
    OBVIOUS
  <2>1. o + n - 1 \in Int
    BY <1>3
  <2> QED BY <2>1, HostStepTyped
<1>8. HostLoop(url, u, start, o - 1)
  <2>1. "port" \notin DOMAIN u /\ "userinfo" \notin DOMAIN u
    BY <1>2 DEF UrlAfter
  <2>2. HostTyped(u, start)
    BY <1>3, <1>4, <2>1 DEF HostTyped, HostStates
  <2>3. HostFields(url, o, start.h, cleared, o - 1)
    <3>1. start.h \in {"userinfo_start", "host_start"}
      OBVIOUS
    <3>2. /\ UserinfoAt(url, o, start.h, cleared, o - 1) /\ HostAt(url, o, start.h, cleared, o - 1)
          /\ PortAt(url, o, start.h, cleared, o - 1)
      BY <1>4, <2>1, <3>1 DEF UserinfoAt, HostAt, PortAt, BeforeHost
    <3>3. HostDelimited(url, o, cleared, o - 1)
      BY <1>3 DEF HostDelimited
    <3> HIDE DEF start, o
    <3> QED BY <1>3, <1>4, <2>1, <3>1, <3>2, <3>3 DEF HostFields, HostStates
  <2>4. start.u = cleared
    OBVIOUS
  <2> HIDE DEF start
  <2> QED BY <2>2, <2>3, <2>4 DEF HostLoop
<1> HIDE DEF start, steps
<1>9. PICK f : Follows(f, start, steps, len, HostRecords)
  <2>1. Steps(steps, len, HostRecords)
    BY <1>7 DEF Steps
  <2> QED BY <1>3, <1>6, <2>1, Recursion, Zenon
<1>10. f = Turn(f)
  <2>1. f = [n \in 0 .. len |-> f[n]] /\ f[0] = start /\ \A n \in 0 .. len : f[n] \in HostRecords
    BY <1>9 DEF Follows
  <2>2. \A n \in 1 .. len : f[n] = Url!HostStep(f[n - 1], o + n - 1)
    <3> SUFFICES ASSUME NEW n \in 1 .. len PROVE f[n] = Url!HostStep(f[n - 1], o + n - 1)
      OBVIOUS
    <3>1. f[n] = steps[n][f[n - 1]]
      BY <1>9 DEF Follows
    <3>2. f[n - 1] \in HostRecords
      BY <1>3, <2>1
    <3> QED BY <1>7, <3>1, <3>2
  <2>3. \A n \in 0 .. len : f[n] = IF n = 0 THEN start ELSE Url!HostStep(f[n - 1], o + n - 1)
    <3> SUFFICES ASSUME NEW n \in 0 .. len
                 PROVE  f[n] = IF n = 0 THEN start ELSE Url!HostStep(f[n - 1], o + n - 1)
      OBVIOUS
    <3>1. CASE n = 0
      BY <2>1, <3>1
    <3>2. CASE n # 0
      <4>1. n \in 1 .. len
        BY <1>3, <3>2
      <4> QED BY <2>2, <3>2, <4>1
    <3> QED BY <3>1, <3>2
  <2> QED BY <2>1, <2>3
<1>11. turn = Turn(turn)
  BY <1>10
<1>12. Url!ParseHost = turn[len]
  BY DEF Url!ParseHost, start, cleared
<1> HIDE DEF turn
<1>13. turn[0] = start /\ \A n \in 1 .. len : turn[n] = Url!HostStep(turn[n - 1], o + n - 1)
  BY <1>3, <1>11
<1>14. \A n \in 0 .. len : n \in {k \in Nat : HostLoop(url, u, turn[k], o + k - 1)}
  <2> DEFINE S == {k \in Nat : HostLoop(url, u, turn[k], o + k - 1)}
  <2>1. 0 \in S
    <3>1. o + 0 - 1 = o - 1
      BY <1>3
    <3> QED BY <1>8, <1>13, <3>1
  <2>2. \A n \in 0 .. len : n \in S /\ n < len => n + 1 \in S
    <3> SUFFICES ASSUME NEW n \in 0 .. len, n \in S, n < len PROVE n + 1 \in S
      OBVIOUS
    <3> DEFINE e == o + n - 1
    <3>1. e \in Nat /\ e >= o - 1 /\ e + 1 = o + (n + 1) - 1 /\ HostLoop(url, u, turn[n], e)
      BY <1>3
    <3>2. "userinfo" \notin DOMAIN u /\ "port" \notin DOMAIN u
      BY <1>2 DEF UrlAfter
    <3>3. HostLoop(url, u, Url!HostStep(turn[n], e + 1), e + 1)
      <4> HIDE DEF e
      <4> QED BY <1>3, <3>1, <3>2, HostTurn
    <3>4. turn[n + 1] = Url!HostStep(turn[n], o + (n + 1) - 1)
      <4>1. n + 1 \in 1 .. len /\ n + 1 - 1 = n
        BY <1>3
      <4> QED BY <1>13, <4>1
    <3> HIDE DEF e
    <3>5. HostLoop(url, u, turn[n + 1], o + (n + 1) - 1)
      BY <3>1, <3>3, <3>4
    <3> QED BY <3>5
  <2> HIDE DEF S
  <2>3. \A n \in 0 .. len : n \in S
    BY <1>3, <2>1, <2>2, StepByStep
  <2> QED BY <2>3 DEF S
<1>15. HostLoop(url, u, turn[len], o + len - 1)
  BY <1>3, <1>14
<1> QED BY <1>12, <1>15 DEF UrlEnd

\* The digits of a port are a number.
LEMMA PortIsNumber ==
  ASSUME NEW n \in Nat, IsSeq(url, n), NEW off \in 1 .. n, NEW len \in 1 .. n, off + len - 1 <= n,
         \A i \in off .. off + len - 1 : url[i] \in DOMAIN Url!Digits
  PROVE  Url!Number(SubSeq(url, off, off + len - 1)) \in Nat
<1> DEFINE digits == SubSeq(url, off, off + len - 1)
      Read(f) == [k \in 0 .. Len(digits) |-> IF k = 0 THEN 0 ELSE 10 * f[k - 1] + Url!Digits[digits[k]]]
      read == CHOOSE f : f = Read(f)
      steps == [k \in 1 .. len |-> [x \in Nat |-> 10 * x + Url!Digits[digits[k]]]]
<1>1. digits = [k \in 1 .. len |-> url[off + k - 1]]
  <2>1. off + len - 1 \in Nat /\ off + len - 1 + 1 - off = len
    OBVIOUS
  <2>2. SubSeq(url, off, off + len - 1) = [k \in 1 .. off + len - 1 + 1 - off |-> url[off + k - 1]]
    BY <2>1, Cut
  <2> QED BY <2>1, <2>2
<1>2. \A k \in 1 .. len : digits[k] \in DOMAIN Url!Digits
  <2> HIDE DEF digits
  <2> SUFFICES ASSUME NEW k \in 1 .. len PROVE digits[k] \in DOMAIN Url!Digits
    OBVIOUS
  <2>1. off + k - 1 \in off .. off + len - 1
    OBVIOUS
  <2> QED BY <1>1, <2>1
<1>3. \A d \in DOMAIN Url!Digits : Url!Digits[d] \in Nat
  BY DEF Url!Digits
<1>4. Len(digits) = len
  <2> HIDE DEF digits
  <2>1. IsSeq(digits, len)
    BY <1>1 DEF IsSeq
  <2> QED BY <2>1, LengthIs
<1> HIDE DEF digits
<1>5. \A k \in 1 .. len : \A x \in Nat : steps[k][x] \in Nat /\ steps[k][x] = 10 * x + Url!Digits[digits[k]]
  BY <1>2, <1>3
<1> HIDE DEF steps
<1>6. PICK f : Follows(f, 0, steps, len, Nat)
  <2>1. Steps(steps, len, Nat)
    BY <1>5 DEF Steps
  <2>2. 0 \in Nat /\ len \in Nat
    OBVIOUS
  <2> QED BY <2>1, <2>2, Recursion, Zenon
<1>7. f = Read(f)
  <2>1. f = [k \in 0 .. len |-> f[k]] /\ f[0] = 0 /\ \A k \in 0 .. len : f[k] \in Nat
    BY <1>6 DEF Follows
  <2>2. ASSUME NEW k \in 0 .. len PROVE f[k] = IF k = 0 THEN 0 ELSE 10 * f[k - 1] + Url!Digits[digits[k]]
    <3>1. CASE k = 0
      BY <2>1, <3>1
    <3>2. CASE k # 0
      <4>1. k \in 1 .. len /\ k - 1 \in 0 .. len
        BY <3>2
      <4>2. f[k] = steps[k][f[k - 1]] /\ f[k - 1] \in Nat
        BY <1>6, <2>1, <4>1 DEF Follows
      <4> QED BY <1>5, <3>2, <4>1, <4>2
    <3> QED BY <3>1, <3>2
  <2> QED BY <1>4, <2>1, <2>2
<1>8. read = Read(read)
  BY <1>7
<1>9. Url!Number(digits) = read[len]
  BY <1>4 DEF Url!Number
<1> HIDE DEF read
<1>10. read[0] = 0 /\ \A k \in 1 .. len : read[k] = 10 * read[k - 1] + Url!Digits[digits[k]]
  BY <1>4, <1>8
<1>11. \A k \in 0 .. len : k \in {j \in Nat : read[j] \in Nat}
  <2> DEFINE S == {j \in Nat : read[j] \in Nat}
  <2>1. 0 \in S
    BY <1>10
  <2>2. ASSUME NEW k \in 0 .. len, k \in S, k < len PROVE k + 1 \in S
    <3>1. k + 1 \in 1 .. len /\ k + 1 - 1 = k /\ read[k] \in Nat
      BY <2>2
    <3>2. Url!Digits[digits[k + 1]] \in Nat
      BY <1>2, <1>3, <3>1
    <3>3. read[k + 1] = 10 * read[k] + Url!Digits[digits[k + 1]]
      BY <1>10, <3>1
    <3> QED BY <3>1, <3>2, <3>3
  <2> HIDE DEF S
  <2>3. \A k \in 0 .. len : k \in S
    BY <2>1, <2>2, StepByStep
  <2> QED BY <2>3 DEF S
<1> QED BY <1>9, <1>11 DEF digits

\* What UrlPartsSound says of the fields x of a URL of n symbols
Leading(x, f) == IF x[f].off = 1 THEN "start" ELSE url[x[f].off - 1]
Trailing(x, f, n) == IF UrlEnd(x, f) = n THEN "end" ELSE url[UrlEnd(x, f) + 1]

PartsSound(x, n) ==
    /\ UrlTyped(n, x) /\ UrlApart(x) /\ UrlDelimited(url, n, x)
    /\ \A f \in DOMAIN x : Leading(x, f) \in Url!Leads[f] /\ Trailing(x, f, n) \in Url!Follows[f]
    /\ "port" \in DOMAIN x => Url!Number(Url!Text("port", x)) \in Nat

\* What the loop leaves of the fields outside of the host
LEMMA OuterParts ==
  ASSUME NEW n, UrlLoop(url, n, s, uf, u), NEW f \in DOMAIN u, f # "host",
         "schema" \in DOMAIN u => "host" \in DOMAIN u,
         "host" \in DOMAIN u => url[UrlEnd(u, "host")] \in {"]"} \cup Url!HostChars
  PROVE  Leading(u, f) \in Url!Leads[f] /\ Trailing(u, f, n) \in Url!Follows[f]
<1>1. /\ n \in Nat /\ UrlTyped(n, u) /\ UrlApart(u) /\ UrlStarted(url, u) /\ UrlLeft(url, n, u)
      /\ UrlPathAt(u) /\ DOMAIN u \subseteq UrlKnown[s] /\ s \in DOMAIN UrlKnown
  BY DEF UrlLoop, UrlAt
<1>2. f \in {"schema", "path", "query", "fragment"}
  BY <1>1 DEF UrlKnown
<1>3. u[f].off \in 1 .. n /\ u[f].len \in 1 .. n /\ UrlEnd(u, f) \in 1 .. n
  BY <1>1 DEF UrlTyped, UrlEnd
<1>4. Leading(u, f) \in Url!Leads[f]
  <2>1. CASE f = "schema"
    BY <1>1, <2>1 DEF UrlStarted, Leading, Url!Leads
  <2>2. CASE f = "path" /\ "host" \in DOMAIN u
    <3>1. u[f].off = UrlEnd(u, "host") + 1 /\ UrlEnd(u, "host") \in Int
      BY <1>1, <2>2 DEF UrlPathAt, UrlTyped, UrlEnd
    <3>2. Leading(u, f) = "start" \/ Leading(u, f) = url[UrlEnd(u, "host")]
      <4>1. u[f].off - 1 = UrlEnd(u, "host")
        BY <3>1
      <4> QED BY <4>1 DEF Leading
    <3> QED BY <2>2, <3>2 DEF Url!Leads
  <2>3. CASE f = "path" /\ "host" \notin DOMAIN u
    BY <1>1, <2>3 DEF UrlPathAt, Leading, Url!Leads
  <2>4. CASE f \in {"query", "fragment"}
    BY <1>1, <1>3, <2>4 DEF UrlStarted, Leading, Url!Leads
  <2> QED BY <1>2, <2>1, <2>2, <2>3, <2>4
<1>5. Trailing(u, f, n) \in Url!Follows[f]
  <2>1. UrlEnd(u, f) < n => url[UrlEnd(u, f) + 1] \in UrlAfter[f]
    BY <1>1 DEF UrlLeft
  <2>2. CASE f = "schema"
    <3>1. u["host"].off \in 1 .. n /\ UrlEnd(u, "host") \in 1 .. n /\ "host" \in DOMAIN u
      BY <1>1, <2>2 DEF UrlTyped, UrlEnd
    <3>2. UrlEnd(u, "host") < u[f].off \/ UrlEnd(u, f) < u["host"].off
      BY <2>2, <3>1, <1>1 DEF UrlApart
    <3>3. u[f].off = 1
      BY <1>1, <2>2 DEF UrlStarted
    <3>4. UrlEnd(u, f) < n
      BY <1>1, <1>3, <3>1, <3>2, <3>3
    <3> QED BY <1>1, <1>3, <2>1, <2>2, <3>4 DEF Trailing, UrlAfter, Url!Follows
  <2>3. CASE f # "schema"
    BY <1>1, <1>2, <1>3, <2>1, <2>3 DEF Trailing, UrlAfter, Url!Follows
  <2> QED BY <2>2, <2>3
<1> QED BY <1>4, <1>5

\* A URL without a host
LEMMA PartsWithoutHost ==
  ASSUME UrlLoop(url, Len(url), s, uf, u), "host" \notin DOMAIN u, "schema" \notin DOMAIN u
  PROVE  PartsSound(u, Len(url))
<1>1. \A f \in DOMAIN u : Leading(u, f) \in Url!Leads[f] /\ Trailing(u, f, Len(url)) \in Url!Follows[f]
  BY OuterParts
<1>2. "port" \notin DOMAIN u
  BY DEF UrlLoop, UrlAt, UrlKnown
<1> QED BY <1>1, <1>2 DEF PartsSound, UrlLoop

\* A URL with a host that is accepted
LEMMA PartsWithHost ==
  ASSUME UrlLoop(url, Len(url), s, uf, u), "host" \in DOMAIN u, Url!HostAccepted(Url!ParseHost.h)
  PROVE  PartsSound(Url!ParseHost.u, Len(url))
<1> DEFINE n == Len(url)
      o == u["host"].off
      e == UrlEnd(u, "host")
      h == Url!ParseHost.h
      x == Url!ParseHost.u
      Inner == {"host", "userinfo", "port"} \cap DOMAIN x
<1>1. /\ n \in Nat /\ IsSeq(url, n) /\ AreFields(u) /\ UrlTyped(n, u) /\ UrlApart(u) /\ UrlStarted(url, u)
      /\ UrlLeft(url, n, u) /\ UrlDelimited(url, n, u)
  BY DEF UrlLoop
<1>2. "userinfo" \notin DOMAIN u /\ "port" \notin DOMAIN u
  BY DEF UrlLoop, UrlAt, UrlKnown
<1>3. HostTyped(u, Url!ParseHost) /\ HostFields(url, o, h, x, e) /\ h \in {"host", "host_v6_end", "port"}
  <2>1. h \in {"host", "host_v6_end", "port"}
    BY DEF Url!HostAccepted
  <2> QED BY <2>1, HostRead DEF HostLoop
<1> HIDE DEF x, h
<1>4. n \in Nat /\ o \in 1 .. n /\ e \in 1 .. n /\ o <= e /\ e <= n
  BY <1>1 DEF UrlTyped, UrlEnd
<1>5. /\ "host" \in DOMAIN x /\ DOMAIN u \subseteq DOMAIN x /\ DOMAIN x \subseteq DOMAIN u \cup {"userinfo", "port"}
      /\ \A f \in DOMAIN x : f \notin Inner => f \in DOMAIN u \ {"host"} /\ x[f] = u[f] /\ UrlEnd(x, f) = UrlEnd(u, f)
  BY <1>3 DEF HostTyped, UrlEnd, x
<1>6. /\ \A f \in Inner : x[f].off \in Nat /\ x[f].len \in Nat
      /\ UserinfoAt(url, o, h, x, e) /\ HostAt(url, o, h, x, e)
      /\ PortAt(url, o, h, x, e) /\ HostDelimited(url, o, x, e)
  BY <1>3 DEF HostFields
<1> HIDE DEF o, e, n
<1>7. /\ x["host"].len > 0 /\ x["host"].off >= o /\ UrlEnd(x, "host") \in Nat /\ UrlEnd(x, "host") <= e
      /\ x["host"].off = o \/ url[x["host"].off - 1] \in {"@", "["}
      /\ UrlEnd(x, "host") < e => url[UrlEnd(x, "host") + 1] \in {":", "]"}
  <2>1. x["host"].off \in Nat /\ x["host"].len \in Nat
    BY <1>5, <1>6
  <2>2. x["host"].len > 0 /\ x["host"].off >= o /\ (x["host"].off = o \/ url[x["host"].off - 1] \in {"@", "["})
    BY <1>3, <1>6 DEF HostAt, BeforeHost
  <2>3. UrlEnd(x, "host") \in Nat
    BY <1>4, <2>1, <2>2 DEF UrlEnd
  <2>4. UrlEnd(x, "host") = e \/ (UrlEnd(x, "host") < e /\ url[UrlEnd(x, "host") + 1] \in {":", "]"})
    BY <1>3, <1>6 DEF HostAt, BeforeHost
  <2> QED BY <1>4, <2>2, <2>3, <2>4
<1>8. "userinfo" \in DOMAIN x =>
        /\ x["userinfo"].off = o /\ x["userinfo"].len > 0 /\ UrlEnd(x, "userinfo") < x["host"].off
        /\ UrlEnd(x, "userinfo") < e /\ url[UrlEnd(x, "userinfo") + 1] = "@"
  BY <1>3, <1>6 DEF UserinfoAt, HostAt, BeforeHost
<1>9. "port" \in DOMAIN x =>
        /\ UrlEnd(x, "host") < x["port"].off /\ url[x["port"].off - 1] = ":"
        /\ x["port"].len > 0 /\ UrlEnd(x, "port") = e
        /\ \A i \in x["port"].off .. e : url[i] \in DOMAIN Url!Digits
  BY <1>6 DEF PortAt
<1>10. \A f \in Inner : x[f].off >= o /\ x[f].len > 0 /\ UrlEnd(x, f) <= e /\ x[f].off <= UrlEnd(x, f)
  <2> SUFFICES ASSUME NEW f \in Inner
               PROVE  x[f].off >= o /\ x[f].len > 0 /\ UrlEnd(x, f) <= e /\ x[f].off <= UrlEnd(x, f)
    OBVIOUS
  <2>1. x[f].off \in Nat /\ x[f].len \in Nat
    BY <1>6
  <2>2. x["host"].off \in Nat /\ x["host"].len \in Nat
    BY <1>5, <1>6
  <2>3. x["host"].off <= UrlEnd(x, "host")
    BY <1>7, <2>2 DEF UrlEnd
  <2>4. x[f].off >= o /\ x[f].len > 0 /\ UrlEnd(x, f) <= e
    <3>1. CASE f = "host"
      BY <1>7, <3>1
    <3>2. CASE f = "userinfo"
      BY <1>4, <1>8, <2>1, <3>2 DEF UrlEnd
    <3>3. CASE f = "port"
      <4>1. UrlEnd(x, "host") < x[f].off
        BY <1>9, <3>3
      <4> QED BY <1>4, <1>7, <1>9, <2>1, <2>2, <2>3, <3>3, <4>1
    <3> QED BY <3>1, <3>2, <3>3
  <2>5. x[f].off <= UrlEnd(x, f)
    BY <2>1, <2>4 DEF UrlEnd
  <2> QED BY <2>4, <2>5
<1>11. \A f \in DOMAIN x \ Inner : /\ u[f].off \in 1 .. n /\ u[f].len \in 1 .. n /\ UrlEnd(u, f) \in 1 .. n
                                   /\ UrlEnd(u, f) < o \/ e < u[f].off
  <2> SUFFICES ASSUME NEW f \in DOMAIN x \ Inner
               PROVE  /\ u[f].off \in 1 .. n /\ u[f].len \in 1 .. n /\ UrlEnd(u, f) \in 1 .. n
                      /\ UrlEnd(u, f) < o \/ e < u[f].off
    OBVIOUS
  <2>1. f \in DOMAIN u /\ f # "host"
    BY <1>5
  <2>2. UrlEnd(u, f) < o \/ e < u[f].off
    BY <1>1, <2>1 DEF UrlApart, o, e
  <2>3. u[f].off \in 1 .. n /\ u[f].len \in 1 .. n /\ UrlEnd(u, f) <= n
    BY <1>1, <2>1 DEF UrlTyped, n
  <2> QED BY <1>1, <2>2, <2>3 DEF UrlEnd, n
<1>12. UrlTyped(n, x)
  <2> SUFFICES ASSUME NEW f \in DOMAIN x
               PROVE  x[f].off \in 1 .. n /\ x[f].len \in 1 .. n /\ UrlEnd(x, f) <= n
    BY DEF UrlTyped
  <2>1. CASE f \in Inner
    <3>1. x[f].off \in Nat /\ x[f].len \in Nat /\ UrlEnd(x, f) = x[f].off + x[f].len - 1
      BY <1>6, <2>1 DEF UrlEnd
    <3>2. x[f].off >= o /\ x[f].len > 0 /\ UrlEnd(x, f) <= e
      BY <1>10, <2>1
    <3> QED BY <1>4, <3>1, <3>2
  <2>2. CASE f \notin Inner
    BY <1>5, <1>11, <2>2
  <2> QED BY <2>1, <2>2
<1>13. UrlApart(x)
  <2> SUFFICES ASSUME NEW f \in DOMAIN x, NEW g \in DOMAIN x, f # g
               PROVE  UrlEnd(x, f) < x[g].off \/ UrlEnd(x, g) < x[f].off
    BY DEF UrlApart
  <2>1. CASE f \in Inner /\ g \in Inner
    <3>1. \A k \in Inner : x[k].off \in Nat /\ UrlEnd(x, k) \in Int /\ x[k].off <= UrlEnd(x, k)
      BY <1>6, <1>10 DEF UrlEnd
    <3>2. "userinfo" \in DOMAIN x /\ "port" \in DOMAIN x => UrlEnd(x, "userinfo") < x["port"].off
      BY <1>5, <1>8, <1>9, <3>1
    <3> QED BY <1>8, <1>9, <2>1, <3>2
  <2>a. ASSUME NEW k \in Inner, NEW m \in DOMAIN x \ Inner
        PROVE  UrlEnd(x, k) < x[m].off \/ UrlEnd(x, m) < x[k].off
    <3>1. x[k].off \in Nat /\ UrlEnd(x, k) \in Int /\ x[k].off >= o /\ UrlEnd(x, k) <= e
      BY <1>6, <1>10 DEF UrlEnd
    <3>2. x[m] = u[m] /\ UrlEnd(x, m) = UrlEnd(u, m)
      BY <1>5
    <3>3. u[m].off \in 1 .. n /\ UrlEnd(u, m) \in 1 .. n /\ (UrlEnd(u, m) < o \/ e < u[m].off)
      BY <1>11
    <3> QED BY <1>4, <3>1, <3>2, <3>3
  <2>2. CASE f \in Inner /\ g \notin Inner
    BY <2>2, <2>a
  <2>3. CASE f \notin Inner /\ g \in Inner
    BY <2>3, <2>a
  <2>4. CASE f \notin Inner /\ g \notin Inner
    BY <1>1, <1>5, <2>4 DEF UrlApart
  <2> QED BY <2>1, <2>2, <2>3, <2>4
<1>14. UrlDelimited(url, n, x)
  <2> SUFFICES ASSUME NEW i \in 1 .. n, \A f \in DOMAIN x : i < x[f].off \/ i > UrlEnd(x, f)
               PROVE  url[i] \in Delims
    BY DEF UrlDelimited
  <2>1. CASE i \in o .. e
    BY <1>6, <2>1 DEF HostDelimited
  <2>2. CASE i \notin o .. e
    <3>1. i < o \/ i > e
      BY <1>4, <2>2
    <3>2. \A f \in DOMAIN u : i < u[f].off \/ i > UrlEnd(u, f)
      <4> SUFFICES ASSUME NEW f \in DOMAIN u PROVE i < u[f].off \/ i > UrlEnd(u, f)
        OBVIOUS
      <4>1. CASE f = "host"
        BY <3>1, <4>1 DEF o, e
      <4>2. CASE f # "host"
        <5>1. f \in DOMAIN x /\ f \notin Inner
          BY <1>2, <1>5, <4>2
        <5> QED BY <1>5, <5>1
      <4> QED BY <4>1, <4>2
    <3> QED BY <1>1, <3>2 DEF UrlDelimited, n
  <2> QED BY <2>1, <2>2
<1>15. url[e] \in {"]"} \cup Url!HostChars
  <2>1. CASE h = "host" \/ h = "host_v6_end"
    BY <1>6, <2>1 DEF HostAt
  <2>2. CASE h = "port"
    <3>1. "port" \in DOMAIN x
      BY <1>6, <2>2 DEF PortAt
    <3>2. e \in x["port"].off .. e
      BY <1>4, <1>6, <1>9, <1>10, <3>1
    <3> QED BY <1>9, <3>1, <3>2 DEF Url!HostChars
  <2> QED BY <1>3, <2>1, <2>2
<1>16. ASSUME NEW f \in DOMAIN x, f \notin Inner
       PROVE  Leading(x, f) \in Url!Leads[f] /\ Trailing(x, f, n) \in Url!Follows[f]
  <2>1. f \in DOMAIN u /\ f # "host" /\ x[f] = u[f] /\ UrlEnd(x, f) = UrlEnd(u, f)
    BY <1>5, <1>16
  <2>2. Leading(u, f) \in Url!Leads[f] /\ Trailing(u, f, n) \in Url!Follows[f]
    BY <1>15, <2>1, OuterParts DEF e, n
  <2> QED BY <2>1, <2>2 DEF Leading, Trailing
<1>17. o = 1 \/ url[o - 1] = "/"
  BY <1>1 DEF UrlStarted, o
<1>18. e < n => url[e + 1] \in {"/", "?"}
  BY <1>1 DEF UrlLeft, UrlAfter, e, n
<1>19. ASSUME NEW f \in Inner
       PROVE  Leading(x, f) \in Url!Leads[f] /\ Trailing(x, f, n) \in Url!Follows[f]
  <2>1. x[f].off \in Nat /\ UrlEnd(x, f) \in Int /\ UrlEnd(x, f) <= e /\ x[f].off <= UrlEnd(x, f) /\ x[f].off >= o
    BY <1>6, <1>10 DEF UrlEnd
  <2>2. CASE f = "userinfo"
    <3>1. Leading(x, f) \in {"start", "/"}
      BY <1>8, <1>17, <2>2 DEF Leading
    <3>2. Trailing(x, f, n) = "@"
      BY <1>4, <1>8, <2>1, <2>2 DEF Trailing
    <3> QED BY <2>2, <3>1, <3>2 DEF Url!Leads, Url!Follows
  <2>3. CASE f = "host"
    <3>1. Leading(x, f) \in {"start", "/", "@", "["}
      BY <1>7, <1>17, <2>3 DEF Leading
    <3>2. Trailing(x, f, n) \in {"end", ":", "]", "/", "?"}
      <4>1. CASE UrlEnd(x, f) < e
        BY <1>4, <1>7, <2>1, <2>3, <4>1 DEF Trailing
      <4>2. CASE UrlEnd(x, f) = e
        BY <1>4, <1>18, <4>2 DEF Trailing
      <4> QED BY <1>4, <2>1, <4>1, <4>2
    <3> QED BY <2>3, <3>1, <3>2 DEF Url!Leads, Url!Follows
  <2>4. CASE f = "port"
    <3>1. x[f].off > 1
      <4>1. UrlEnd(x, "host") < x[f].off /\ x["host"].off <= UrlEnd(x, "host") /\ x["host"].off >= o
        BY <1>5, <1>9, <1>10, <2>4
      <4>2. x["host"].off \in Nat
        BY <1>5, <1>6
      <4> QED BY <1>4, <1>7, <2>1, <4>1, <4>2
    <3>2. Leading(x, f) = ":"
      BY <1>9, <2>1, <2>4, <3>1 DEF Leading
    <3>3. Trailing(x, f, n) \in {"end", "/", "?"}
      BY <1>4, <1>9, <1>18, <2>4 DEF Trailing
    <3> QED BY <2>4, <3>2, <3>3 DEF Url!Leads, Url!Follows
  <2> QED BY <2>2, <2>3, <2>4
<1>20. "port" \in DOMAIN x => Url!Number(Url!Text("port", x)) \in Nat
  <2> SUFFICES ASSUME "port" \in DOMAIN x PROVE Url!Number(Url!Text("port", x)) \in Nat
    OBVIOUS
  <2> DEFINE off == x["port"].off
        len == x["port"].len
  <2>1. off \in 1 .. n /\ len \in 1 .. n /\ off + len - 1 <= n /\ off + len - 1 = e
    BY <1>9, <1>12 DEF UrlTyped, UrlEnd
  <2>2. \A i \in off .. off + len - 1 : url[i] \in DOMAIN Url!Digits
    BY <1>9, <2>1
  <2>3. Url!Text("port", x) = SubSeq(url, off, off + len - 1)
    BY DEF Url!Text
  <2>4. n \in Nat /\ IsSeq(url, n)
    BY <1>1 DEF n
  <2> HIDE DEF off, len
  <2> QED BY <2>1, <2>2, <2>3, <2>4, PortIsNumber
<1>21. \A f \in DOMAIN x : Leading(x, f) \in Url!Leads[f] /\ Trailing(x, f, n) \in Url!Follows[f]
  BY <1>16, <1>19
<1>22. PartsSound(x, n)
  BY <1>12, <1>13, <1>14, <1>20, <1>21 DEF PartsSound
<1> QED BY <1>22 DEF x, n

\* UrlPartsSound of the next state, by its fields x
LEMMA PartsAre ==
  ASSUME NEW x, u' = x, url' = url, is_connect' = is_connect, PartsSound(x, Len(url)), Len(url) \in Nat,
         IsSeq(url, Len(url)), "port" \in DOMAIN x => Url!Number(Url!Text("port", x)) <= MaxPort,
         is_connect => DOMAIN x = {"host", "port"}
  PROVE  Url!UrlPartsSound'
<1> DEFINE n == Len(url)
      Span(f) == x[f].off .. UrlEnd(x, f)
<1>1. /\ UrlTyped(n, x) /\ UrlApart(x) /\ UrlDelimited(url, n, x)
      /\ \A f \in DOMAIN x : Leading(x, f) \in Url!Leads[f] /\ Trailing(x, f, n) \in Url!Follows[f]
  BY DEF PartsSound
<1>2. DOMAIN url = 1 .. n
  BY DEF IsSeq
<1> HIDE DEF n
<1>3. \A f \in DOMAIN x : x[f].off \in 1 .. n /\ x[f].len > 0 /\ UrlEnd(x, f) \in 1 .. n
  BY <1>1 DEF UrlTyped, UrlEnd, n
<1>4. \A f \in DOMAIN x : Url!Span(f)' = Span(f) /\ Url!End(f)' = UrlEnd(x, f)
  BY DEF Url!Span, Url!End, UrlEnd
<1>5. \A f, g \in DOMAIN x : f # g => Span(f) \cap Span(g) = {}
  BY <1>1, <1>3 DEF UrlApart
<1>6. \A f \in DOMAIN x : Span(f) \subseteq 1 .. n
  BY <1>3 DEF n
<1>7. \A f \in DOMAIN x : Url!Before(f)' \in Url!Leads[f]
  BY <1>1 DEF Url!Before, Leading
<1>8. \A f \in DOMAIN x : Url!After(f)' \in Url!Follows[f]
  BY <1>1, <1>4 DEF Url!After, Trailing, n
<1>9. ASSUME NEW i \in (1 .. n) \ UNION {Span(f) : f \in DOMAIN x} PROVE url[i] \in Delims
  <2>1. \A f \in DOMAIN x : i \notin Span(f)
    BY <1>9
  <2>2. \A f \in DOMAIN x : i < x[f].off \/ i > UrlEnd(x, f)
    BY <1>3, <2>1 DEF n
  <2> QED BY <1>1, <2>2 DEF UrlDelimited
<1>10. "port" \in DOMAIN x => Url!Number(Url!Text("port", u))' \in 0 .. MaxPort
  <2>1. "port" \in DOMAIN x => Url!Number(Url!Text("port", x)) \in Nat
    BY DEF PartsSound
  <2>2. Url!Number(Url!Text("port", u))' = Url!Number(Url!Text("port", x))
    BY DEF Url!Text
  <2> QED BY <2>1, <2>2
<1> HIDE DEF Span
<1>11. /\ \A f, g \in DOMAIN u' : f # g => Url!Span(f)' \cap Url!Span(g)' = {}
       /\ \A f \in DOMAIN u' : u'[f].len > 0 /\ Url!Span(f)' \subseteq DOMAIN url'
       /\ UNION {Url!Span(f)' : f \in DOMAIN u'} = UNION {Span(f) : f \in DOMAIN x}
  BY <1>2, <1>3, <1>4, <1>5, <1>6
<1>12. \A i \in DOMAIN url' \ UNION {Url!Span(f)' : f \in DOMAIN u'} : url'[i] \in {":", "/", "@", "[", "]", "?", "#"}
  BY <1>2, <1>9, <1>11 DEF Delims
<1> QED BY <1>7, <1>8, <1>10, <1>11, <1>12 DEF Url!UrlPartsSound

LEMMA UrlInit == Url!Init => UrlInv
<1> SUFFICES ASSUME Url!Init PROVE UrlInv
  OBVIOUS
<1>1. url = <<>> /\ u = <<>> /\ uf = "max" /\ s \in {"server_start", "spaces_before_url"} /\ result = "parsing"
  BY DEF Url!Init
<1>2. Len(url) = 0 /\ IsSeq(url, 0) /\ DOMAIN u = {}
  BY <1>1 DEF IsSeq
<1>3. AreFields(u)
  BY <1>1 DEF AreFields
<1>4. UrlLoop(url, 0, s, uf, u)
  BY <1>1, <1>2, <1>3 DEF UrlLoop, UrlKnown, UrlTyped, UrlApart, UrlStarted, UrlLeft, UrlDelimited, UrlAt,
        UrlDelimiter, UrlPathAt, Url!FieldOf
<1> QED BY <1>1, <1>2, <1>4 DEF UrlInv, Url!UrlPartsSound

\* A turn of the loop
LEMMA UrlStepKeeps == UrlInv /\ Url!Step => UrlInv'
<1> SUFFICES ASSUME UrlInv, Url!Step PROVE UrlInv'
  OBVIOUS
<1> DEFINE n == Len(url)
<1>1. PICK ch \in SampleUrlChars(url) :
        /\ url' = Append(url, ch)
        /\ s' = Url!UrlNext(s, ch)
        /\ result' = IF s' = "dead" THEN "refused" ELSE "parsing"
        /\ IF s' \in DOMAIN Url!FieldOf
           THEN /\ uf' = Url!FieldOf[s']
                /\ u' = IF uf' = uf THEN Url!Longer(u, uf) ELSE Url!Set(u, uf', n + 1, 1)
           ELSE UNCHANGED <<uf, u>>
  BY DEF Url!Step
<1>2. UrlLoop(url, n, s, uf, u)
  BY DEF Url!Step, UrlInv
<1>3. UrlTakes(url, n, url', ch) /\ Len(url') = n + 1
  <2>1. n \in Nat /\ IsSeq(url, n)
    BY <1>2 DEF UrlLoop
  <2>2. url' = [i \in 1 .. n + 1 |-> IF i <= n THEN url[i] ELSE ch]
    BY <1>1, <2>1, Appended
  <2> HIDE DEF n
  <2>3. IsSeq(url', n + 1)
    BY <2>2 DEF IsSeq
  <2>4. Len(url') = n + 1
    BY <2>1, <2>3, LengthIs
  <2> QED BY <2>1, <2>2, <2>3, <2>4 DEF UrlTakes
<1> HIDE DEF n
<1>4. ASSUME s' # "dead" PROVE UrlLoop(url', n + 1, s', uf', u')
  <2>1. CASE UrlGoesOn(s, s')
    <3>1. uf = Url!FieldOf[s'] /\ s' \in DOMAIN Url!FieldOf
      BY <1>2, <2>1 DEF UrlGoesOn, UrlLoop, UrlAt
    <3>2. uf' = uf /\ u' = Url!Longer(u, uf)
      BY <1>1, <3>1
    <3> QED BY <1>1, <1>2, <1>3, <1>4, <2>1, <3>2, UrlGoingOn
  <2>2. CASE ~UrlGoesOn(s, s') /\ s' \in DOMAIN Url!FieldOf
    <3>1. /\ Url!FieldOf[s'] # uf
          /\ UrlLoop(url', n + 1, s', Url!FieldOf[s'], Url!Set(u, Url!FieldOf[s'], n + 1, 1))
      BY <1>1, <1>2, <1>3, <1>4, <2>2, UrlBeginning
    <3> QED BY <1>1, <2>2, <3>1
  <2>3. CASE s' \notin DOMAIN Url!FieldOf
    <3>1. uf' = uf /\ u' = u
      BY <1>1, <2>3
    <3> QED BY <1>1, <1>2, <1>3, <1>4, <2>3, <3>1, UrlDelimiting
  <2> QED BY <2>1, <2>2, <2>3
<1>5. result' # "ok" /\ (result' = "parsing" => s' # "dead")
  BY <1>1
<1> QED BY <1>3, <1>4, <1>5 DEF UrlInv, Url!UrlPartsSound

\* What follows the loop
LEMMA UrlFinishKeeps == UrlInv /\ Url!Finish => UrlInv'
<1> SUFFICES ASSUME UrlInv, Url!Finish PROVE UrlInv'
  OBVIOUS
<1> DEFINE parsed == IF "host" \in DOMAIN u THEN Url!ParseHost ELSE [h |-> "host", u |-> u]
<1>1. UrlLoop(url, Len(url), s, uf, u) /\ url' = url /\ is_connect' = is_connect /\ result' \in {"ok", "refused"}
  BY DEF Url!Finish, UrlInv
<1>2. CASE result' = "ok"
  <2>1. /\ "schema" \in DOMAIN u => "host" \in DOMAIN u
        /\ Url!HostAccepted(parsed.h)
        /\ is_connect => DOMAIN parsed.u = {"host", "port"}
        /\ "port" \in DOMAIN parsed.u => Url!Number(Url!Text("port", parsed.u)) <= MaxPort
        /\ u' = parsed.u
    BY <1>2, Zenon DEF Url!Finish
  <2>2. PartsSound(parsed.u, Len(url))
    <3>1. CASE "host" \in DOMAIN u
      BY <1>1, <2>1, <3>1, PartsWithHost
    <3>2. CASE "host" \notin DOMAIN u
      BY <1>1, <2>1, <3>2, PartsWithoutHost
    <3> QED BY <3>1, <3>2
  <2>3. Len(url) \in Nat /\ IsSeq(url, Len(url))
    BY <1>1 DEF UrlLoop
  <2> HIDE DEF parsed
  <2>4. Url!UrlPartsSound'
    BY <1>1, <2>1, <2>2, <2>3, PartsAre
  <2> QED BY <1>2, <2>4 DEF UrlInv
<1>3. CASE result' = "refused"
  BY <1>3 DEF UrlInv, Url!UrlPartsSound
<1> QED BY <1>1, <1>2, <1>3

LEMMA UrlStep == UrlInv /\ [Url!Next]_(Url!vars) => UrlInv'
<1> SUFFICES ASSUME UrlInv, [Url!Next]_(Url!vars) PROVE UrlInv'
  OBVIOUS
<1>1. CASE Url!Step
  BY <1>1, UrlStepKeeps
<1>2. CASE Url!Finish
  BY <1>2, UrlFinishKeeps
<1>3. CASE UNCHANGED Url!vars
  BY <1>3 DEF Url!vars, UrlInv, Url!UrlPartsSound, Url!Before, Url!After, Url!End, Url!Span, Url!Text
<1> QED BY <1>1, <1>2, <1>3 DEF Url!Next

\* The invariant says of the parts what UrlPartsSound says.
LEMMA UrlImplied == UrlInv => Url!UrlPartsSound
BY DEF UrlInv

-----------------------------------------------------------------------------
(* Utf8Checker: q is a text, of which n bytes have been read and the first e *)
(* are complete characters.                                                *)

Ready == Utf8!InitChecker

IsByte(b) == b \in Nat /\ b <= 255
IsLead(b) == b \in Nat /\ 194 <= b /\ b <= 244

\* The checkers there are: one that waits for a character, or for a byte of it
Checkers ==
    {Ready} \cup {c \in [start_byte : Nat, length : 2 .. 4, next_byte : 2 .. 4] :
                     IsLead(c.start_byte) /\ c.next_byte <= c.length}
Results == [ok : BOOLEAN, checker : Checkers]

IsBytes(q, n) == n \in Nat /\ IsSeq(q, n) /\ \A i \in 1 .. n : IsByte(q[i])

Size(lead) == Utf8!LengthOf(lead, 1)
SecondOk(lead, b) == Utf8!IsContinuation(b) /\ Utf8!SecondByteOk(lead, b)

\* The k bytes after the first e are a character, byte by byte.
CharacterAt(q, e, k) ==
    \/ k = 1 /\ q[e + 1] < 128
    \/ /\ k \in 2 .. 4 /\ IsLead(q[e + 1]) /\ k = Size(q[e + 1])
       /\ SecondOk(q[e + 1], q[e + 2])
       /\ k >= 3 => Utf8!IsContinuation(q[e + 3])
       /\ k = 4 => Utf8!IsContinuation(q[e + 4])

\* They are the beginning of one, and not all of it.
BegunAt(q, e, k) ==
    /\ k \in 1 .. 3 /\ IsLead(q[e + 1]) /\ k < Size(q[e + 1])
    /\ k >= 2 => SecondOk(q[e + 1], q[e + 2])
    /\ k = 3 => Utf8!IsContinuation(q[e + 3])

\* No character begins with them.
BrokenAt(q, e, k) ==
    /\ k >= 1
    /\ \/ q[e + 1] > 127 /\ ~IsLead(q[e + 1])
       \/ /\ IsLead(q[e + 1])
          /\ \/ k >= 2 /\ ~SecondOk(q[e + 1], q[e + 2])
             \/ k >= 3 /\ Size(q[e + 1]) >= 3 /\ ~Utf8!IsContinuation(q[e + 3])
             \/ k >= 4 /\ Size(q[e + 1]) = 4 /\ ~Utf8!IsContinuation(q[e + 4])

\* What the checker c and its answer ok say of the n bytes
Judged(q, e, n, c, ok) ==
    /\ e \in 0 .. n /\ c \in Checkers /\ ok \in BOOLEAN
    /\ ok => IF e = n THEN c = Ready
             ELSE /\ BegunAt(q, e, n - e)
                  /\ c = [start_byte |-> q[e + 1], length |-> Size(q[e + 1]), next_byte |-> n - e + 1]
    /\ ~ok => BrokenAt(q, e, n - e)

\* How many bytes are complete characters, after each of them
Counts(f, q, n) ==
    /\ f = [i \in 0 .. n |-> f[i]]
    /\ \A i \in 0 .. n : f[i] \in Nat
    /\ f[0] = 0
    /\ \A i \in 1 .. n : f[i] = IF Utf8!IsCharacter(SubSeq(q, f[i - 1] + 1, i)) THEN i ELSE f[i - 1]

\* What is_byte_valid says after each of n bytes
Readings(f, c, bytes, n) ==
    /\ f = [i \in 0 .. n |-> f[i]]
    /\ \A i \in 0 .. n : f[i] \in Results
    /\ f[0] = [ok |-> TRUE, checker |-> c]
    /\ \A i \in 1 .. n : f[i] = IF f[i - 1].ok THEN Utf8!IsByteValid(f[i - 1].checker, bytes[i]) ELSE f[i - 1]

\* What is said after each of n words
WordReadings(f, c, words, n) ==
    /\ f = [i \in 0 .. n |-> f[i]]
    /\ \A i \in 0 .. n : f[i] \in Results
    /\ f[0] = [ok |-> TRUE, checker |-> c]
    /\ \A i \in 1 .. n : f[i] = IF ~f[i - 1].ok \/ Utf8!Skips(f[i - 1].checker, words[i]) THEN f[i - 1]
                                ELSE Utf8!AreBytesValid(f[i - 1].checker, words[i])

\* What an answer r says of the first n bytes, f[n] of which are characters
JudgedAt(q, f, n, r) == r \in Results /\ Judged(q, f[n], n, r.checker, r.ok)


\* What was said of the text so far, unless a word was skipped that hides
\* something: then only what the checker is
Utf8Inv ==
    /\ checker \in Checkers /\ valid \in BOOLEAN /\ hidden \in BOOLEAN
    /\ verdict \in {"none", "text", "incomplete"}
    /\ ~hidden =>
          /\ IsBytes(text, Len(text))
          /\ valid <=> Utf8!IsBeginningOfText(text)
          /\ verdict = "none" => Judged(text, Utf8!Complete(text), Len(text), checker, valid)
          /\ verdict # "none" => (verdict = "text" <=> Utf8!IsText(text))

\* What an answer ok and the checker c after it mean
Means(q, c, ok) ==
    /\ ok <=> Utf8!IsBeginningOfText(q)
    /\ ok => (c.start_byte = 255 <=> Utf8!IsText(q))

\* q is a beginning, and the checker c waits for what follows; h is q and k bytes.
TextBegins(q, n, c) == IsBytes(q, n) /\ Judged(q, Utf8!Complete(q), n, c, TRUE)

Longer(h, n, bytes, k, c) ==
    /\ IsBytes(h, n + k) /\ \A i \in 1 .. k : bytes[i] = h[n + i]
    /\ \E f : /\ Counts(f, h, n + k) /\ Utf8!Complete(h) = f[n + k]
              /\ JudgedAt(h, f, n, [ok |-> TRUE, checker |-> c])

\* How long a character is
LEMMA CharLengths ==
  ASSUME NEW lead, IsLead(lead)
  PROVE  /\ Size(lead) \in 2 .. 4
         /\ Size(lead) = 2 <=> lead <= 223
         /\ Size(lead) = 3 <=> 224 <= lead /\ lead <= 239
         /\ Size(lead) = 4 <=> 240 <= lead
BY DEF Size, Utf8!LengthOf, Utf8!Between, IsLead

\* The ranges of code points of three bytes, bits by bits
LEMMA ThreeBytes ==
  ASSUME NEW h \in Nat, NEW x \in Nat, NEW y \in Nat, h < 16, x < 64, y < 64, NEW p, p = (h * 64 + x) * 64 + y
  PROVE  p >= 2048 /\ ~(55296 <= p /\ p <= 57343) <=> (h = 0 => x >= 32) /\ (h = 13 => x < 32)
<1>1. CASE h = 0
  BY <1>1
<1>2. CASE h = 13
  BY <1>2
<1>3. CASE 1 <= h /\ h <= 12
  BY <1>3
<1>4. CASE 14 <= h
  BY <1>4
<1> QED BY <1>1, <1>2, <1>3, <1>4

\* The ranges of those of four
LEMMA FourBytes ==
  ASSUME NEW h \in Nat, NEW x \in Nat, NEW y \in Nat, NEW z \in Nat, h < 8, x < 64, y < 64, z < 64,
         NEW p, p = ((h * 64 + x) * 64 + y) * 64 + z
  PROVE  65536 <= p /\ p <= 1114111 <=> (h = 0 => x >= 16) /\ (h = 4 => x < 16) /\ h < 5
<1>1. CASE h = 0
  BY <1>1
<1>2. CASE h = 4
  BY <1>2
<1>3. CASE 1 <= h /\ h <= 3
  BY <1>3
<1>4. CASE 5 <= h
  BY <1>4
<1> QED BY <1>1, <1>2, <1>3, <1>4

\* A code point in its range and in its shortest form, byte by byte
LEMMA CharacterByBytes ==
  ASSUME NEW k \in Nat, NEW char, IsBytes(char, k)
  PROVE  Utf8!IsCharacter(char) <=> CharacterAt(char, 0, k)
<1>1. Len(char) = k
  BY LengthIs DEF IsBytes
<1>2. \A i \in 1 .. k : IsByte(char[i])
  BY DEF IsBytes
<1>3. CASE k = 1
  BY <1>1, <1>2, <1>3 DEF Utf8!IsCharacter, CharacterAt
<1>4. CASE k = 2
  <2>1. Utf8!IsCharacter(char) <=>
          Utf8!IsContinuation(char[2]) /\ Utf8!Between(char[1], 192, 223) /\ Utf8!With(char[1] - 192, char[2]) >= 128
    BY <1>1, <1>4 DEF Utf8!IsCharacter
  <2>2. CharacterAt(char, 0, k) <=> IsLead(char[1]) /\ char[1] <= 223 /\ Utf8!IsContinuation(char[2])
    <3>1. ASSUME IsLead(char[1]), char[1] <= 223 PROVE Utf8!SecondByteOk(char[1], char[2])
      BY <3>1 DEF Utf8!SecondByteOk, IsLead
    <3> QED BY <1>4, <3>1, CharLengths DEF CharacterAt, SecondOk
  <2>3. IsByte(char[1]) /\ IsByte(char[2])
    BY <1>2, <1>4
  <2> QED BY <2>1, <2>2, <2>3 DEF Utf8!IsContinuation, Utf8!With, Utf8!Between, IsByte, IsLead
<1>5. CASE k = 3
  <2> DEFINE p == Utf8!With(Utf8!With(char[1] - 224, char[2]), char[3])
  <2>1. Utf8!IsCharacter(char) <=>
          /\ Utf8!IsContinuation(char[2]) /\ Utf8!IsContinuation(char[3]) /\ Utf8!Between(char[1], 224, 239)
          /\ p >= 2048 /\ ~Utf8!Between(p, 55296, 57343)
    BY <1>1, <1>5 DEF Utf8!IsCharacter
  <2>2. CharacterAt(char, 0, k) <=>
          IsLead(char[1]) /\ 224 <= char[1] /\ char[1] <= 239 /\ SecondOk(char[1], char[2]) /\ Utf8!IsContinuation(char[3])
    BY <1>5, CharLengths DEF CharacterAt
  <2>3. IsByte(char[1]) /\ IsByte(char[2]) /\ IsByte(char[3])
    BY <1>2, <1>5
  <2>4. ASSUME Utf8!Between(char[1], 224, 239), Utf8!IsContinuation(char[2]), Utf8!IsContinuation(char[3])
        PROVE  p >= 2048 /\ ~Utf8!Between(p, 55296, 57343) <=> Utf8!SecondByteOk(char[1], char[2])
    <3> DEFINE h == char[1] - 224
               x == char[2] - 128
               y == char[3] - 128
    <3>1. h \in Nat /\ x \in Nat /\ y \in Nat /\ h < 16 /\ x < 64 /\ y < 64
      BY <2>3, <2>4 DEF Utf8!Between, Utf8!IsContinuation, IsByte
    <3>2. p = (h * 64 + x) * 64 + y
      BY DEF Utf8!With
    <3>3. Utf8!SecondByteOk(char[1], char[2]) <=> (h = 0 => x >= 32) /\ (h = 13 => x < 32)
      BY <2>3, <2>4 DEF Utf8!Between, Utf8!IsContinuation, Utf8!SecondByteOk, IsByte
    <3> HIDE DEF h, x, y, p
    <3>4. p >= 2048 /\ ~(55296 <= p /\ p <= 57343) <=> (h = 0 => x >= 32) /\ (h = 13 => x < 32)
      BY <3>1, <3>2, ThreeBytes
    <3> QED BY <3>3, <3>4 DEF Utf8!Between
  <2>5. Utf8!Between(char[1], 224, 239) <=> IsLead(char[1]) /\ 224 <= char[1] /\ char[1] <= 239
    BY <2>3 DEF Utf8!Between, IsByte, IsLead
  <2> HIDE DEF p
  <2> QED BY <2>1, <2>2, <2>4, <2>5 DEF SecondOk
<1>6. CASE k = 4
  <2> DEFINE p == Utf8!With(Utf8!With(Utf8!With(char[1] - 240, char[2]), char[3]), char[4])
  <2>1. Utf8!IsCharacter(char) <=>
          /\ Utf8!IsContinuation(char[2]) /\ Utf8!IsContinuation(char[3]) /\ Utf8!IsContinuation(char[4])
          /\ Utf8!Between(char[1], 240, 247) /\ Utf8!Between(p, 65536, 1114111)
    BY <1>1, <1>6 DEF Utf8!IsCharacter
  <2>2. CharacterAt(char, 0, k) <=>
          /\ IsLead(char[1]) /\ 240 <= char[1] /\ SecondOk(char[1], char[2])
          /\ Utf8!IsContinuation(char[3]) /\ Utf8!IsContinuation(char[4])
    BY <1>6, CharLengths DEF CharacterAt
  <2>3. IsByte(char[1]) /\ IsByte(char[2]) /\ IsByte(char[3]) /\ IsByte(char[4])
    BY <1>2, <1>6
  <2>4. ASSUME Utf8!Between(char[1], 240, 247), Utf8!IsContinuation(char[2]), Utf8!IsContinuation(char[3]),
               Utf8!IsContinuation(char[4])
        PROVE  Utf8!Between(p, 65536, 1114111) <=> IsLead(char[1]) /\ Utf8!SecondByteOk(char[1], char[2])
    <3> DEFINE h == char[1] - 240
               x == char[2] - 128
               y == char[3] - 128
               z == char[4] - 128
    <3>1. h \in Nat /\ x \in Nat /\ y \in Nat /\ z \in Nat /\ h < 8 /\ x < 64 /\ y < 64 /\ z < 64
      BY <2>3, <2>4 DEF Utf8!Between, Utf8!IsContinuation, IsByte
    <3>2. p = ((h * 64 + x) * 64 + y) * 64 + z
      BY DEF Utf8!With
    <3>3. IsLead(char[1]) /\ Utf8!SecondByteOk(char[1], char[2]) <=> (h = 0 => x >= 16) /\ (h = 4 => x < 16) /\ h < 5
      BY <2>3, <2>4 DEF Utf8!Between, Utf8!IsContinuation, Utf8!SecondByteOk, IsByte, IsLead
    <3> HIDE DEF h, x, y, z, p
    <3>4. 65536 <= p /\ p <= 1114111 <=> (h = 0 => x >= 16) /\ (h = 4 => x < 16) /\ h < 5
      BY <3>1, <3>2, FourBytes
    <3> QED BY <3>3, <3>4 DEF Utf8!Between
  <2>5. IsLead(char[1]) /\ 240 <= char[1] => Utf8!Between(char[1], 240, 247)
    BY <2>3 DEF Utf8!Between, IsByte, IsLead
  <2>6. Utf8!Between(char[1], 240, 247) => 240 <= char[1]
    BY DEF Utf8!Between
  <2> HIDE DEF p
  <2> QED BY <2>1, <2>2, <2>4, <2>5, <2>6 DEF SecondOk
<1>7. CASE k \notin 1 .. 4
  BY <1>1, <1>7 DEF Utf8!IsCharacter, CharacterAt
<1> QED BY <1>3, <1>4, <1>5, <1>6, <1>7

\* The same of bytes in the middle of a text
LEMMA CharacterWithin ==
  ASSUME NEW m \in Nat, NEW q, IsBytes(q, m), NEW e \in Nat, NEW n \in Nat, e < n, n <= m
  PROVE  Utf8!IsCharacter(SubSeq(q, e + 1, n)) <=> CharacterAt(q, e, n - e)
<1> DEFINE k == n - e
     char == SubSeq(q, e + 1, n)
<1>1. char = [i \in 1 .. n + 1 - (e + 1) |-> q[e + 1 + i - 1]]
  BY Cut DEF IsBytes
<1>2. k \in Nat /\ n + 1 - (e + 1) = k /\ \A i \in 1 .. k : e + 1 + i - 1 = e + i
  OBVIOUS
<1>3. char = [i \in 1 .. k |-> q[e + i]]
  BY <1>1, <1>2
<1>4. \A i \in 1 .. k : e + i \in 1 .. m
  OBVIOUS
<1> HIDE DEF k, char
<1>5. IsBytes(char, k)
  BY <1>2, <1>3, <1>4 DEF IsBytes, IsSeq
<1>6. Utf8!IsCharacter(char) <=> CharacterAt(char, 0, k)
  BY <1>2, <1>5, CharacterByBytes
<1>7. CharacterAt(char, 0, k) <=> CharacterAt(q, e, k)
  BY <1>2, <1>3 DEF CharacterAt
<1> QED BY <1>6, <1>7 DEF char, k

\* is_byte_valid by its parts
AcceptsByte(c, start, b) ==
    \/ c.next_byte = 1 /\ (b <= 127 \/ Utf8!Between(b, 194, 244))
    \/ c.next_byte = 2 /\ Utf8!IsContinuation(b) /\ Utf8!SecondByteOk(start, b)
    \/ c.next_byte \in {3, 4} /\ Utf8!IsContinuation(b)

NextChecker(c, start, size) == [start_byte |-> start, length |-> size, next_byte |-> c.next_byte + 1]

\* A first byte
LEMMA FirstByteParts ==
  ASSUME NEW c, c.next_byte = 1, NEW b
  PROVE  /\ Utf8!IsByteValid(c, b).ok = AcceptsByte(c, b, b)
         /\ Utf8!IsByteValid(c, b).checker =
                IF b <= 127 \/ ~AcceptsByte(c, b, b) THEN Ready ELSE NextChecker(c, b, Utf8!LengthOf(b, c.length))
BY Zenon DEF Utf8!IsByteValid, AcceptsByte, NextChecker, Ready

\* A later one
LEMMA LaterByteParts ==
  ASSUME NEW c, c.next_byte # 1, NEW b
  PROVE  /\ Utf8!IsByteValid(c, b).ok = AcceptsByte(c, c.start_byte, b)
         /\ Utf8!IsByteValid(c, b).checker =
                IF c.next_byte = c.length \/ ~AcceptsByte(c, c.start_byte, b) THEN Ready
                ELSE NextChecker(c, c.start_byte, c.length)
BY Zenon DEF Utf8!IsByteValid, AcceptsByte, NextChecker, Ready

\* is_byte_valid with the first byte of a character
LEMMA FirstByte ==
  ASSUME NEW b, IsByte(b), NEW r, r = Utf8!IsByteValid(Ready, b)
  PROVE  /\ r.ok \in BOOLEAN
         /\ b <= 127 => r.ok /\ r.checker = Ready
         /\ IsLead(b) => r.ok /\ r.checker = [start_byte |-> b, length |-> Size(b), next_byte |-> 2]
         /\ b > 127 /\ ~IsLead(b) => ~r.ok /\ r.checker = Ready
<1>1. Ready.next_byte = 1 /\ Ready.length = 1 /\ Ready.next_byte + 1 = 2
  BY DEF Ready, Utf8!InitChecker
<1>2. AcceptsByte(Ready, b, b) <=> b <= 127 \/ IsLead(b)
  BY <1>1 DEF AcceptsByte, Utf8!Between, IsByte, IsLead
<1>3. AcceptsByte(Ready, b, b) \in BOOLEAN
  BY Zenon DEF AcceptsByte
<1>4. b > 127 <=> ~(b <= 127)
  BY DEF IsByte
<1>5. IsLead(b) => b > 127
  BY DEF IsLead
<1>6. NextChecker(Ready, b, Utf8!LengthOf(b, Ready.length)) = [start_byte |-> b, length |-> Size(b), next_byte |-> 2]
  BY <1>1 DEF NextChecker, Size
<1> QED BY <1>1, <1>2, <1>3, <1>4, <1>5, <1>6, FirstByteParts, Zenon

\* is_byte_valid with a later one
LEMMA LaterByte ==
  ASSUME NEW c, c.next_byte \in 2 .. 4, c.length \in 2 .. 4, c.next_byte <= c.length, NEW b,
         NEW r, r = Utf8!IsByteValid(c, b)
  PROVE  /\ r.ok \in BOOLEAN
         /\ c.next_byte = 2 => (r.ok <=> SecondOk(c.start_byte, b))
         /\ c.next_byte # 2 => (r.ok <=> Utf8!IsContinuation(b))
         /\ r.ok /\ c.next_byte < c.length => r.checker = NextChecker(c, c.start_byte, c.length)
         /\ ~(r.ok /\ c.next_byte < c.length) => r.checker = Ready
<1>1. c.next_byte # 1 /\ (c.next_byte = c.length <=> ~(c.next_byte < c.length))
  OBVIOUS
<1>2. /\ c.next_byte = 2 => (AcceptsByte(c, c.start_byte, b) <=> SecondOk(c.start_byte, b))
      /\ c.next_byte # 2 => (AcceptsByte(c, c.start_byte, b) <=> Utf8!IsContinuation(b))
  BY DEF AcceptsByte, SecondOk
<1>3. AcceptsByte(c, c.start_byte, b) \in BOOLEAN
  BY Zenon DEF AcceptsByte
<1> QED BY <1>1, <1>2, <1>3, LaterByteParts, Zenon

\* One byte more
LEMMA ByteJudged ==
  ASSUME NEW q, NEW e \in Nat, NEW n \in Nat, NEW c, Judged(q, e, n, c, TRUE), IsByte(q[n + 1]),
         NEW r, r = Utf8!IsByteValid(c, q[n + 1])
  PROVE  Judged(q, IF CharacterAt(q, e, n + 1 - e) THEN n + 1 ELSE e, n + 1, r.checker, r.ok)
<1> DEFINE b == q[n + 1]
           k == n - e
           lead == q[e + 1]
<1>1. CASE e = n
  <2>1. c = Ready /\ n + 1 - e = 1 /\ lead = b
    BY <1>1 DEF Judged
  <2>2. /\ r.ok \in BOOLEAN
        /\ b <= 127 => r.ok /\ r.checker = Ready
        /\ IsLead(b) => r.ok /\ r.checker = [start_byte |-> b, length |-> Size(b), next_byte |-> 2]
        /\ b > 127 /\ ~IsLead(b) => ~r.ok /\ r.checker = Ready
    <3> HIDE DEF b
    <3> QED BY <2>1, FirstByte DEF b
  <2>3. CharacterAt(q, e, 1) <=> b <= 127
    BY <2>1 DEF CharacterAt, IsByte
  <2>4. Ready \in Checkers
    BY DEF Checkers
  <2>5. CASE b <= 127
    BY <1>1, <2>1, <2>2, <2>3, <2>4, <2>5 DEF Judged
  <2>6. CASE IsLead(b)
    <3>1. Size(b) \in 2 .. 4
      BY <2>6, CharLengths
    <3>2. BegunAt(q, e, 1)
      BY <2>1, <2>6, <3>1 DEF BegunAt
    <3>3. [start_byte |-> b, length |-> Size(b), next_byte |-> 2] \in Checkers
      BY <2>6, <3>1 DEF Checkers, IsLead
    <3>4. ~CharacterAt(q, e, 1) /\ n + 1 - e + 1 = 2 /\ e # n + 1
      BY <1>1, <2>3, <2>6 DEF IsLead
    <3> HIDE DEF b
    <3> QED BY <1>1, <2>1, <2>2, <2>6, <3>2, <3>3, <3>4 DEF Judged, lead
  <2>7. CASE b > 127 /\ ~IsLead(b)
    <3>1. BrokenAt(q, e, 1)
      BY <2>1, <2>7 DEF BrokenAt
    <3>2. ~CharacterAt(q, e, 1)
      BY <2>3, <2>7 DEF IsByte
    <3> HIDE DEF b
    <3> QED BY <1>1, <2>1, <2>2, <2>4, <2>7, <3>1, <3>2 DEF Judged
  <2> QED BY <2>5, <2>6, <2>7 DEF IsByte
<1>2. CASE e < n
  <2>1. BegunAt(q, e, k) /\ c = [start_byte |-> lead, length |-> Size(lead), next_byte |-> k + 1]
    BY <1>2 DEF Judged
  <2>2. k \in 1 .. 3 /\ IsLead(lead) /\ k < Size(lead) /\ Size(lead) \in 2 .. 4
    BY <2>1, CharLengths DEF BegunAt
  <2>3. /\ n + 1 - e = k + 1 /\ k + 1 \in 2 .. 4 /\ k + 1 <= Size(lead)
        /\ k + 1 = 2 <=> k = 1
        /\ n + 1 = e + (k + 1)
    BY <2>2
  <2>4. /\ r.ok \in BOOLEAN
        /\ r.ok <=> IF k = 1 THEN SecondOk(lead, b) ELSE Utf8!IsContinuation(b)
        /\ r.checker = IF r.ok /\ k + 1 < Size(lead)
                       THEN [start_byte |-> lead, length |-> Size(lead), next_byte |-> k + 1 + 1] ELSE Ready
    <3>1. /\ c.start_byte = lead /\ c.length = Size(lead) /\ c.next_byte = k + 1
          /\ k + 1 \in 2 .. 4 /\ Size(lead) \in 2 .. 4 /\ k + 1 <= Size(lead)
      BY <2>1, <2>2, <2>3
    <3>2. NextChecker(c, lead, Size(lead)) = [start_byte |-> lead, length |-> Size(lead), next_byte |-> k + 1 + 1]
      BY <3>1 DEF NextChecker
    <3> HIDE DEF lead, b, k
    <3>3. /\ r.ok \in BOOLEAN
          /\ c.next_byte = 2 => (r.ok <=> SecondOk(c.start_byte, b))
          /\ c.next_byte # 2 => (r.ok <=> Utf8!IsContinuation(b))
          /\ r.ok /\ c.next_byte < c.length => r.checker = NextChecker(c, c.start_byte, c.length)
          /\ ~(r.ok /\ c.next_byte < c.length) => r.checker = Ready
      BY <3>1, LaterByte DEF b
    <3> QED BY <2>3, <3>1, <3>2, <3>3, Zenon
  <2>5. q[e + (k + 1)] = b
    BY <2>3
  <2>6. CharacterAt(q, e, k + 1) <=> r.ok /\ k + 1 = Size(lead)
    <3>1. CASE k = 1
      BY <2>1, <2>2, <2>4, <2>5, <3>1 DEF BegunAt, CharacterAt
    <3>2. CASE k = 2
      BY <2>1, <2>2, <2>4, <2>5, <3>2 DEF BegunAt, CharacterAt
    <3>3. CASE k = 3
      BY <2>1, <2>2, <2>4, <2>5, <3>3 DEF BegunAt, CharacterAt
    <3> QED BY <2>2, <3>1, <3>2, <3>3
  <2>7. r.ok /\ k + 1 < Size(lead) => BegunAt(q, e, k + 1)
    <3>1. CASE k = 1
      BY <2>1, <2>2, <2>4, <2>5, <3>1 DEF BegunAt
    <3>2. CASE k = 2
      BY <2>1, <2>2, <2>4, <2>5, <3>2 DEF BegunAt
    <3> QED BY <2>2, <3>1, <3>2
  <2>8. ~r.ok => BrokenAt(q, e, k + 1)
    <3>1. CASE k = 1
      BY <2>1, <2>2, <2>4, <2>5, <3>1 DEF BrokenAt
    <3>2. CASE k = 2
      BY <2>1, <2>2, <2>4, <2>5, <3>2 DEF BrokenAt
    <3>3. CASE k = 3
      BY <2>1, <2>2, <2>4, <2>5, <3>3 DEF BrokenAt
    <3> QED BY <2>2, <3>1, <3>2, <3>3
  <2>9. Ready \in Checkers
    BY DEF Checkers
  <2>10. ASSUME k + 1 < Size(lead)
         PROVE  [start_byte |-> lead, length |-> Size(lead), next_byte |-> k + 1 + 1] \in Checkers
    BY <2>2, <2>10 DEF Checkers, IsLead
  <2>11. k + 1 + 1 = n + 1 - e + 1 /\ e \in 0 .. n + 1 /\ e # n + 1 /\ n + 1 \in 0 .. n + 1
    BY <1>2
  <2> HIDE DEF b, lead, k
  <2>12. CASE r.ok /\ k + 1 = Size(lead)
    <3>1. CharacterAt(q, e, n + 1 - e) /\ r.checker = Ready
      BY <2>2, <2>3, <2>4, <2>6, <2>12
    <3> QED BY <2>9, <2>11, <2>12, <3>1 DEF Judged
  <2>13. CASE r.ok /\ k + 1 < Size(lead)
    <3>1. ~CharacterAt(q, e, n + 1 - e) /\ BegunAt(q, e, n + 1 - e)
      BY <2>2, <2>3, <2>6, <2>7, <2>13
    <3>2. r.checker = [start_byte |-> lead, length |-> Size(lead), next_byte |-> n + 1 - e + 1] /\ r.checker \in Checkers
      BY <2>4, <2>10, <2>11, <2>13, Zenon
    <3> QED BY <2>11, <2>13, <3>1, <3>2 DEF Judged, lead
  <2>14. CASE ~r.ok
    <3>1. ~CharacterAt(q, e, n + 1 - e) /\ BrokenAt(q, e, n + 1 - e)
      BY <2>3, <2>6, <2>8, <2>14
    <3>2. r.checker = Ready
      BY <2>4, <2>14
    <3> QED BY <2>4, <2>9, <2>11, <2>14, <3>1, <3>2 DEF Judged
  <2> QED BY <2>2, <2>3, <2>4, <2>12, <2>13, <2>14
<1> QED BY <1>1, <1>2 DEF Judged

\* What is broken stays broken.
LEMMA BrokenStays ==
  ASSUME NEW q, NEW e \in Nat, NEW k \in Nat, NEW l \in Nat, k <= l, IsByte(q[e + 1]), BrokenAt(q, e, k)
  PROVE  BrokenAt(q, e, l) /\ ~CharacterAt(q, e, l)
<1>1. BrokenAt(q, e, l)
  BY DEF BrokenAt
<1>2. CASE q[e + 1] > 127 /\ ~IsLead(q[e + 1])
  BY <1>1, <1>2 DEF CharacterAt, IsByte
<1>3. CASE IsLead(q[e + 1])
  <2>1. ~(q[e + 1] < 128)
    BY <1>3 DEF IsLead
  <2> QED BY <1>1, <1>3, <2>1, CharLengths DEF BrokenAt, CharacterAt
<1> QED BY <1>1, <1>2, <1>3 DEF BrokenAt

\* Complete counts the characters byte by byte.
LEMMA CompleteCounts ==
  ASSUME NEW q, NEW n, IsBytes(q, n)
  PROVE  \E f : Counts(f, q, n) /\ Utf8!Complete(q) = f[n]
<1> DEFINE counting == [i \in 1 .. n |-> [x \in Nat |-> IF Utf8!IsCharacter(SubSeq(q, x + 1, i)) THEN i ELSE x]]
           Is(f) == f = [i \in 0 .. n |-> IF i = 0 THEN 0
                                         ELSE IF Utf8!IsCharacter(SubSeq(q, f[i - 1] + 1, i)) THEN i ELSE f[i - 1]]
<1>1. n \in Nat /\ Len(q) = n
  BY LengthIs DEF IsBytes
<1>2. \E f : Follows(f, 0, counting, n, Nat)
  <2>1. Steps(counting, n, Nat)
    BY <1>1 DEF Steps
  <2>2. 0 \in Nat
    OBVIOUS
  <2> HIDE DEF counting
  <2> QED BY <1>1, <2>1, <2>2, Recursion, Zenon
<1>3. \E f : Is(f)
  <2> PICK f : Follows(f, 0, counting, n, Nat)
    BY <1>2
  <2>1. ASSUME NEW i \in 1 .. n
        PROVE  f[i] = IF Utf8!IsCharacter(SubSeq(q, f[i - 1] + 1, i)) THEN i ELSE f[i - 1]
    <3>1. i - 1 \in 0 .. n
      BY <1>1
    <3>2. f[i - 1] \in Nat /\ f[i] = counting[i][f[i - 1]]
      BY <3>1 DEF Follows
    <3> QED BY <3>2
  <2>2. \A i \in 0 .. n : i # 0 => i \in 1 .. n
    BY <1>1
  <2>3. f = [i \in 0 .. n |-> f[i]] /\ f[0] = 0
    BY <1>1 DEF Follows
  <2> HIDE DEF counting
  <2>4. \A i \in 0 .. n : f[i] = IF i = 0 THEN 0
                                ELSE IF Utf8!IsCharacter(SubSeq(q, f[i - 1] + 1, i)) THEN i ELSE f[i - 1]
    BY <2>1, <2>2, <2>3, Zenon
  <2>5. Is(f)
    BY <2>3, <2>4, Zenon
  <2> QED BY <2>5
<1> DEFINE counts == CHOOSE f : Is(f)
<1>4. Is(counts)
  BY <1>3
<1>5. Utf8!Complete(q) = counts[n]
  BY <1>1, Zenon DEF Utf8!Complete
<1> HIDE DEF counts
<1>6. \A i \in 0 .. n : counts[i] = IF i = 0 THEN 0
                        ELSE IF Utf8!IsCharacter(SubSeq(q, counts[i - 1] + 1, i)) THEN i ELSE counts[i - 1]
  BY <1>4, Zenon
<1>7. 0 \in 0 .. n /\ \A i \in 1 .. n : i \in 0 .. n /\ i # 0
  BY <1>1
<1>8. counts[0] = 0
  BY <1>6, <1>7, Zenon
<1>9. \A i \in 1 .. n :
        counts[i] = IF Utf8!IsCharacter(SubSeq(q, counts[i - 1] + 1, i)) THEN i ELSE counts[i - 1]
  BY <1>6, <1>7, Zenon
<1>10. \A i \in 0 .. n : counts[i] \in Nat
  <2> DEFINE good == {i \in 0 .. n : counts[i] \in Nat}
  <2>1. 0 \in good
    BY <1>7, <1>8
  <2>2. ASSUME NEW i \in 0 .. n, i \in good, i < n PROVE i + 1 \in good
    <3>1. i + 1 \in 1 .. n /\ i + 1 \in 0 .. n /\ i + 1 - 1 = i /\ i + 1 \in Nat
      BY <1>1, <2>2
    <3>2. counts[i + 1] = i + 1 \/ counts[i + 1] = counts[i]
      BY <1>9, <3>1
    <3> QED BY <2>2, <3>1, <3>2
  <2> HIDE DEF good
  <2>3. \A i \in 0 .. n : i \in good
    BY <1>1, <2>1, <2>2, StepByStep
  <2> QED BY <2>3 DEF good
<1>11. counts = [i \in 0 .. n |-> counts[i]]
  BY <1>4, <1>6, Zenon
<1>12. Counts(counts, q, n)
  BY <1>8, <1>9, <1>10, <1>11 DEF Counts
<1> QED BY <1>5, <1>12

\* Only the bytes count.
LEMMA CountsAgree ==
  ASSUME NEW q, NEW n, IsBytes(q, n), NEW h, NEW m, IsBytes(h, m), n <= m, \A i \in 1 .. n : h[i] = q[i],
         NEW f, Counts(f, q, n), NEW g, Counts(g, h, m)
  PROVE  \A i \in 0 .. n : g[i] = f[i] /\ f[i] <= i
<1> DEFINE same == {i \in 0 .. n : g[i] = f[i] /\ f[i] <= i}
<1>1. n \in Nat /\ m \in Nat
  BY DEF IsBytes
<1>2. 0 \in same
  BY <1>1 DEF Counts
<1>3. ASSUME NEW i \in 0 .. n, i \in same, i < n PROVE i + 1 \in same
  <2> DEFINE j == i + 1
             e == f[i]
  <2>1. j \in 1 .. n /\ j \in 1 .. m /\ j - 1 = i /\ j \in Nat /\ j \in 0 .. n
    BY <1>1, <1>3
  <2>2. e \in Nat /\ e <= i /\ g[i] = e
    BY <1>3 DEF Counts
  <2>3. SubSeq(q, e + 1, j) = [k \in 1 .. j + 1 - (e + 1) |-> q[e + 1 + k - 1]]
    <3> DEFINE a == e + 1
    <3>1. IsSeq(q, n) /\ a \in Nat /\ a >= 1 /\ j \in Nat /\ j <= n /\ a <= j + 1
      BY <1>1, <2>1, <2>2 DEF IsBytes
    <3> HIDE DEF a, e, j
    <3> QED BY <1>1, <3>1, Cut DEF a
  <2>4. SubSeq(h, e + 1, j) = [k \in 1 .. j + 1 - (e + 1) |-> h[e + 1 + k - 1]]
    <3> DEFINE a == e + 1
    <3>1. IsSeq(h, m) /\ a \in Nat /\ a >= 1 /\ j \in Nat /\ j <= m /\ a <= j + 1
      BY <1>1, <2>1, <2>2 DEF IsBytes
    <3> HIDE DEF a, e, j
    <3> QED BY <1>1, <3>1, Cut DEF a
  <2>5. \A k \in 1 .. j + 1 - (e + 1) : h[e + 1 + k - 1] = q[e + 1 + k - 1]
    BY <1>1, <2>1, <2>2
  <2>6. SubSeq(q, e + 1, j) = SubSeq(h, e + 1, j)
    BY <2>3, <2>4, <2>5
  <2>7. f[j] = IF Utf8!IsCharacter(SubSeq(q, e + 1, j)) THEN j ELSE e
    BY <2>1 DEF Counts
  <2>8. g[j] = IF Utf8!IsCharacter(SubSeq(h, e + 1, j)) THEN j ELSE e
    BY <2>1, <2>2 DEF Counts
  <2>9. g[j] = f[j] /\ f[j] <= j
    <3> HIDE DEF j, e
    <3>1. e <= j /\ j <= j
      BY <2>1, <2>2
    <3> QED BY <2>6, <2>7, <2>8, <3>1, Zenon
  <2> QED BY <2>1, <2>9
<1> HIDE DEF same
<1>4. \A i \in 0 .. n : i \in same
  BY <1>1, <1>2, <1>3, StepByStep
<1> QED BY <1>4 DEF same

\* is_byte_valid leaves a checker as there may be.
LEMMA ByteResults ==
  ASSUME NEW c \in Checkers, NEW b, IsByte(b)
  PROVE  Utf8!IsByteValid(c, b) \in Results
<1> DEFINE r == Utf8!IsByteValid(c, b)
<1>1. r = [ok |-> r.ok, checker |-> r.checker]
  BY Zenon DEF Utf8!IsByteValid
<1>2. r.ok \in BOOLEAN /\ r.checker \in Checkers
  <2> HIDE DEF r
  <2>1. CASE c = Ready
    <3>1. r = Utf8!IsByteValid(Ready, b)
      BY <2>1 DEF r
    <3>2. IsLead(b) => [start_byte |-> b, length |-> Size(b), next_byte |-> 2] \in Checkers
      <4>1. IsLead(b) => Size(b) \in 2 .. 4
        BY CharLengths
      <4> QED BY <4>1 DEF Checkers, IsLead
    <3>3. Ready \in Checkers
      BY DEF Checkers
    <3>4. b <= 127 \/ b > 127
      BY DEF IsByte
    <3> QED BY <3>1, <3>2, <3>3, <3>4, FirstByte
  <2>2. CASE c # Ready
    <3>1. /\ c.next_byte \in 2 .. 4 /\ c.length \in 2 .. 4 /\ c.next_byte <= c.length /\ IsLead(c.start_byte)
          /\ c.start_byte \in Nat
      BY <2>2 DEF Checkers
    <3>2. c.next_byte < c.length => NextChecker(c, c.start_byte, c.length) \in Checkers
      BY <3>1 DEF Checkers, NextChecker
    <3>3. Ready \in Checkers
      BY DEF Checkers
    <3>4. /\ r.ok \in BOOLEAN
          /\ r.ok /\ c.next_byte < c.length => r.checker = NextChecker(c, c.start_byte, c.length)
          /\ ~(r.ok /\ c.next_byte < c.length) => r.checker = Ready
      BY <3>1, LaterByte DEF r
    <3> QED BY <3>2, <3>3, <3>4, Zenon
  <2> QED BY <2>1, <2>2
<1> HIDE DEF r
<1> QED BY <1>1, <1>2 DEF Results, r

\* cjet_is_text_valid takes byte by byte.
LEMMA BytesRead ==
  ASSUME NEW c \in Checkers, NEW bytes, NEW n, IsBytes(bytes, n)
  PROVE  \E f : Readings(f, c, bytes, n) /\ Utf8!AreBytesValid(c, bytes) = f[n]
<1> DEFINE base == [ok |-> TRUE, checker |-> c]
           reading == [i \in 1 .. n |-> [r \in Results |->
                            IF r.ok THEN Utf8!IsByteValid(r.checker, bytes[i]) ELSE r]]
           Is(f) == f = [i \in 0 .. n |-> IF i = 0 THEN [ok |-> TRUE, checker |-> c]
                                         ELSE IF f[i - 1].ok THEN Utf8!IsByteValid(f[i - 1].checker, bytes[i])
                                         ELSE f[i - 1]]
<1>1. n \in Nat /\ Len(bytes) = n /\ \A i \in 1 .. n : IsByte(bytes[i])
  BY LengthIs DEF IsBytes
<1>2. base \in Results
  BY DEF Results
<1>3. ASSUME NEW i \in 1 .. n, NEW r \in Results
      PROVE  (IF r.ok THEN Utf8!IsByteValid(r.checker, bytes[i]) ELSE r) \in Results
  <2>1. r.checker \in Checkers /\ IsByte(bytes[i])
    BY <1>1 DEF Results
  <2> QED BY <2>1, ByteResults
<1>4. \E f : Follows(f, base, reading, n, Results)
  <2>1. Steps(reading, n, Results)
    BY <1>3, Zenon DEF Steps
  <2> HIDE DEF reading, base
  <2> QED BY <1>1, <1>2, <2>1, Recursion, Zenon
<1>5. \E f : Is(f)
  <2> PICK f : Follows(f, base, reading, n, Results)
    BY <1>4
  <2>1. ASSUME NEW i \in 1 .. n
        PROVE  f[i] = IF f[i - 1].ok THEN Utf8!IsByteValid(f[i - 1].checker, bytes[i]) ELSE f[i - 1]
    <3>1. i - 1 \in 0 .. n
      BY <1>1
    <3>2. f[i - 1] \in Results /\ f[i] = reading[i][f[i - 1]]
      BY <3>1 DEF Follows
    <3> QED BY <3>2, Zenon
  <2>2. \A i \in 0 .. n : i # 0 => i \in 1 .. n
    BY <1>1
  <2>3. f = [i \in 0 .. n |-> f[i]] /\ f[0] = base
    BY <1>1 DEF Follows
  <2> HIDE DEF reading
  <2>4. \A i \in 0 .. n : f[i] = IF i = 0 THEN [ok |-> TRUE, checker |-> c]
                                ELSE IF f[i - 1].ok THEN Utf8!IsByteValid(f[i - 1].checker, bytes[i])
                                ELSE f[i - 1]
    BY <2>1, <2>2, <2>3, Zenon
  <2>5. Is(f)
    BY <2>3, <2>4, Zenon
  <2> QED BY <2>5
<1> DEFINE after == CHOOSE f : Is(f)
<1>6. Is(after)
  BY <1>5, Zenon
<1>7. Utf8!AreBytesValid(c, bytes) = after[n]
  BY <1>1, Zenon DEF Utf8!AreBytesValid
<1> HIDE DEF after
<1>8. \A i \in 0 .. n : after[i] = IF i = 0 THEN [ok |-> TRUE, checker |-> c]
                        ELSE IF after[i - 1].ok THEN Utf8!IsByteValid(after[i - 1].checker, bytes[i])
                        ELSE after[i - 1]
  BY <1>6, Zenon
<1>9. 0 \in 0 .. n /\ \A i \in 1 .. n : i \in 0 .. n /\ i # 0
  BY <1>1
<1>10. after[0] = [ok |-> TRUE, checker |-> c]
  BY <1>8, <1>9, Zenon
<1>11. \A i \in 1 .. n :
        after[i] = IF after[i - 1].ok THEN Utf8!IsByteValid(after[i - 1].checker, bytes[i]) ELSE after[i - 1]
  BY <1>8, <1>9, Zenon
<1>12. \A i \in 0 .. n : after[i] \in Results
  <2> DEFINE good == {i \in 0 .. n : after[i] \in Results}
  <2>1. 0 \in good
    BY <1>2, <1>9, <1>10
  <2>2. ASSUME NEW i \in 0 .. n, i \in good, i < n PROVE i + 1 \in good
    <3>1. i + 1 \in 1 .. n /\ i + 1 \in 0 .. n /\ i + 1 - 1 = i
      BY <1>1, <2>2
    <3>2. after[i + 1] = IF after[i].ok THEN Utf8!IsByteValid(after[i].checker, bytes[i + 1]) ELSE after[i]
      <4> DEFINE j == i + 1
      <4>1. j \in 1 .. n /\ j - 1 = i
        BY <3>1
      <4> HIDE DEF j
      <4>2. after[j] = IF after[j - 1].ok THEN Utf8!IsByteValid(after[j - 1].checker, bytes[j]) ELSE after[j - 1]
        BY <1>11, <4>1, Zenon
      <4> QED BY <4>1, <4>2, Zenon DEF j
    <3>3. after[i] \in Results
      BY <2>2
    <3>4. after[i + 1] \in Results
      BY <1>3, <3>1, <3>2, <3>3, Zenon
    <3> QED BY <3>1, <3>4
  <2> HIDE DEF good
  <2>3. \A i \in 0 .. n : i \in good
    BY <1>1, <2>1, <2>2, StepByStep
  <2> QED BY <2>3 DEF good
<1>13. after = [i \in 0 .. n |-> after[i]]
  BY <1>6, <1>8, Zenon
<1>14. Readings(after, c, bytes, n)
  BY <1>10, <1>11, <1>12, <1>13, Zenon DEF Readings
<1> QED BY <1>7, <1>14

\* Bytes in the middle of a text
LEMMA CutBytes ==
  ASSUME NEW q, NEW m, IsBytes(q, m), NEW a \in Nat, NEW b \in Nat, a <= b, b <= m
  PROVE  IsBytes(SubSeq(q, a + 1, b), b - a) /\ \A i \in 1 .. b - a : SubSeq(q, a + 1, b)[i] = q[a + i]
<1> DEFINE c == a + 1
           k == b - a
           cut == SubSeq(q, c, b)
<1>1. c \in Nat /\ c >= 1 /\ c <= b + 1 /\ m \in Nat /\ IsSeq(q, m)
  BY DEF IsBytes
<1>2. cut = [i \in 1 .. b + 1 - c |-> q[c + i - 1]]
  <2> HIDE DEF c
  <2> QED BY <1>1, Cut
<1>3. b + 1 - c = k /\ k \in Nat /\ \A i \in 1 .. k : c + i - 1 = a + i /\ a + i \in 1 .. m
  BY <1>1
<1> HIDE DEF c, k
<1>4. cut = [i \in 1 .. k |-> q[a + i]]
  BY <1>2, <1>3
<1> HIDE DEF cut
<1>5. IsBytes(cut, k) /\ \A i \in 1 .. k : cut[i] = q[a + i]
  BY <1>3, <1>4 DEF IsBytes, IsSeq
<1> QED BY <1>5 DEF cut, c, k

\* What follows the count of complete characters
LEMMA CountStep ==
  ASSUME NEW q, NEW m, IsBytes(q, m), NEW f, Counts(f, q, m), NEW n \in Nat, n < m, f[n] <= n
  PROVE  /\ f[n] \in Nat /\ n + 1 - f[n] \in Nat
         /\ f[n + 1] = IF CharacterAt(q, f[n], n + 1 - f[n]) THEN n + 1 ELSE f[n]
<1> DEFINE l == n + 1
           e == f[n]
<1>1. l \in 1 .. m /\ l \in Nat /\ l - 1 = n /\ n \in 0 .. m /\ l <= m /\ m \in Nat
  BY DEF IsBytes
<1>2. e \in Nat /\ e < l /\ l - e \in Nat
  BY <1>1 DEF Counts
<1>3. f[l] = IF Utf8!IsCharacter(SubSeq(q, e + 1, l)) THEN l ELSE e
  BY <1>1 DEF Counts
<1> HIDE DEF l, e
<1>4. Utf8!IsCharacter(SubSeq(q, e + 1, l)) <=> CharacterAt(q, e, l - e)
  BY <1>1, <1>2, CharacterWithin
<1>5. f[l] = IF CharacterAt(q, e, l - e) THEN l ELSE e
  BY <1>3, <1>4
<1> QED BY <1>2, <1>5 DEF l, e

\* A byte that the checker looks at, and one that follows what is broken
LEMMA StepJudged ==
  ASSUME NEW q, NEW m, IsBytes(q, m), NEW f, Counts(f, q, m), NEW n \in Nat, n < m,
         NEW r, JudgedAt(q, f, n, r)
  PROVE  /\ r.ok => JudgedAt(q, f, n + 1, Utf8!IsByteValid(r.checker, q[n + 1]))
         /\ ~r.ok => \A z \in Results : ~z.ok => JudgedAt(q, f, n + 1, z)
<1> DEFINE e == f[n]
<1>1. /\ e \in Nat /\ e <= n /\ r \in Results /\ r.checker \in Checkers /\ r.ok \in BOOLEAN
      /\ Judged(q, e, n, r.checker, r.ok) /\ n + 1 \in 1 .. m /\ IsByte(q[n + 1])
  BY DEF JudgedAt, Judged, IsBytes
<1>2. f[n + 1] = IF CharacterAt(q, e, n + 1 - e) THEN n + 1 ELSE e
  BY <1>1, CountStep
<1> HIDE DEF e
<1>3. ASSUME r.ok PROVE JudgedAt(q, f, n + 1, Utf8!IsByteValid(r.checker, q[n + 1]))
  <2> DEFINE z == Utf8!IsByteValid(r.checker, q[n + 1])
  <2>1. Judged(q, e, n, r.checker, TRUE)
    <3>1. r.ok = TRUE
      BY <1>1, <1>3
    <3> QED BY <1>1, <3>1, Zenon
  <2>2. z \in Results
    BY <1>1, ByteResults
  <2>3. Judged(q, IF CharacterAt(q, e, n + 1 - e) THEN n + 1 ELSE e, n + 1, z.checker, z.ok)
    BY <1>1, <2>1, ByteJudged, Zenon
  <2> HIDE DEF z
  <2>4. JudgedAt(q, f, n + 1, z)
    BY <1>2, <2>2, <2>3, Zenon DEF JudgedAt
  <2> QED BY <2>4 DEF z
<1>4. ASSUME ~r.ok, NEW z \in Results, ~z.ok PROVE JudgedAt(q, f, n + 1, z)
  <2>1. BrokenAt(q, e, n - e)
    BY <1>1, <1>4 DEF Judged
  <2>2. n - e \in Nat /\ n + 1 - e \in Nat /\ n - e <= n + 1 - e /\ e \in 0 .. n + 1 /\ n - e >= 1
    BY <1>1, <2>1 DEF BrokenAt
  <2>3. IsByte(q[e + 1])
    <3>1. e + 1 \in 1 .. m
      BY <1>1, <2>2 DEF IsBytes
    <3> QED BY <3>1 DEF IsBytes
  <2>4. BrokenAt(q, e, n + 1 - e) /\ ~CharacterAt(q, e, n + 1 - e)
    BY <1>1, <2>1, <2>2, <2>3, BrokenStays
  <2>5. f[n + 1] = e
    BY <1>2, <2>4, Zenon
  <2>6. z.checker \in Checkers /\ z.ok \in BOOLEAN
    BY <1>4 DEF Results
  <2>7. Judged(q, e, n + 1, z.checker, z.ok)
    BY <1>4, <2>2, <2>4, <2>6 DEF Judged
  <2> QED BY <1>4, <2>5, <2>7, Zenon DEF JudgedAt
<1> QED BY <1>3, <1>4

\* Nothing that follows mends what is broken.
LEMMA BrokenLater ==
  ASSUME NEW q, NEW m, IsBytes(q, m), NEW f, Counts(f, q, m), NEW a \in Nat, NEW k \in Nat, a + k <= m,
         NEW r, JudgedAt(q, f, a, r), ~r.ok, NEW z \in Results, ~z.ok
  PROVE  JudgedAt(q, f, a + k, z)
<1> DEFINE broken == {i \in 0 .. k : \E t \in Results : ~t.ok /\ JudgedAt(q, f, a + i, t)}
<1>1. m \in Nat
  BY DEF IsBytes
<1>2. 0 \in broken
  <2>1. r \in Results /\ a + 0 = a /\ 0 \in 0 .. k
    BY DEF JudgedAt
  <2> QED BY <2>1
<1>3. ASSUME NEW i \in 0 .. k, i \in broken, i < k PROVE i + 1 \in broken
  <2> PICK t \in Results : ~t.ok /\ JudgedAt(q, f, a + i, t)
    BY <1>3
  <2>1. a + i \in Nat /\ a + i < m /\ a + (i + 1) = a + i + 1 /\ i + 1 \in 0 .. k
    BY <1>1, <1>3
  <2>2. JudgedAt(q, f, a + i + 1, t)
    <3> DEFINE n == a + i
    <3> HIDE DEF n
    <3>1. JudgedAt(q, f, n + 1, t)
      BY <2>1, StepJudged, Zenon DEF n
    <3> QED BY <3>1 DEF n
  <2> QED BY <2>1, <2>2
<1>4. k \in broken
  <2> HIDE DEF broken
  <2>1. \A i \in 0 .. k : i \in broken
    BY <1>2, <1>3, StepByStep
  <2> QED BY <2>1
<1>5. PICK t \in Results : ~t.ok /\ JudgedAt(q, f, a + k, t)
  BY <1>4
<1>6. z.ok \in BOOLEAN /\ z.checker \in Checkers
  BY DEF Results
<1> QED BY <1>5, <1>6 DEF JudgedAt, Judged

\* cjet_is_text_valid, from any byte of a text
LEMMA BytesJudged ==
  ASSUME NEW q, NEW m, IsBytes(q, m), NEW f, Counts(f, q, m), NEW a \in Nat,
         NEW k, NEW bytes, IsBytes(bytes, k), a + k <= m, \A i \in 1 .. k : bytes[i] = q[a + i],
         NEW c, JudgedAt(q, f, a, [ok |-> TRUE, checker |-> c])
  PROVE  JudgedAt(q, f, a + k, Utf8!AreBytesValid(c, bytes))
<1>1. c \in Checkers /\ k \in Nat /\ m \in Nat
  BY DEF JudgedAt, Judged, IsBytes
<1> PICK g : Readings(g, c, bytes, k) /\ Utf8!AreBytesValid(c, bytes) = g[k]
  BY <1>1, BytesRead
<1> DEFINE right == {i \in 0 .. k : JudgedAt(q, f, a + i, g[i])}
<1>2. 0 \in right
  <2>1. g[0] = [ok |-> TRUE, checker |-> c] /\ a + 0 = a /\ 0 \in 0 .. k
    BY <1>1 DEF Readings
  <2> QED BY <2>1
<1>3. ASSUME NEW i \in 0 .. k, i \in right, i < k PROVE i + 1 \in right
  <2> DEFINE n == a + i
             j == i + 1
  <2>1. n \in Nat /\ n < m /\ a + j = n + 1 /\ j \in 1 .. k /\ j \in 0 .. k /\ j - 1 = i
    BY <1>1, <1>3
  <2>2. bytes[j] = q[n + 1]
    BY <2>1
  <2>3. JudgedAt(q, f, n, g[i]) /\ g[j] \in Results
    BY <1>3, <2>1 DEF Readings
  <2> HIDE DEF n, j
  <2>4. g[j] = IF g[i].ok THEN Utf8!IsByteValid(g[i].checker, q[n + 1]) ELSE g[i]
    <3>1. g[j] = IF g[j - 1].ok THEN Utf8!IsByteValid(g[j - 1].checker, bytes[j]) ELSE g[j - 1]
      BY <2>1, Zenon DEF Readings
    <3> QED BY <2>1, <2>2, <3>1, Zenon
  <2>5. CASE g[i].ok
    <3>1. g[j] = Utf8!IsByteValid(g[i].checker, q[n + 1])
      BY <2>4, <2>5, Zenon
    <3>2. JudgedAt(q, f, n + 1, g[j])
      BY <2>1, <2>3, <2>5, <3>1, StepJudged, Zenon
    <3> QED BY <2>1, <3>2 DEF j
  <2>6. CASE ~g[i].ok
    <3>1. g[j] = g[i]
      BY <2>4, <2>6, Zenon
    <3>2. JudgedAt(q, f, n + 1, g[j])
      BY <2>1, <2>3, <2>6, <3>1, StepJudged, Zenon
    <3> QED BY <2>1, <3>2 DEF j
  <2> QED BY <2>5, <2>6
<1>4. k \in right
  <2> HIDE DEF right
  <2>1. \A i \in 0 .. k : i \in right
    BY <1>1, <1>2, <1>3, StepByStep
  <2> QED BY <1>1, <2>1
<1> QED BY <1>4

\* A byte of its own and a pair, at the beginning of a character
LEMMA LowAndPair ==
  ASSUME NEW q, NEW m, IsBytes(q, m), NEW f, Counts(f, q, m), NEW n \in Nat, n < m, f[n] = n
  PROVE  /\ q[n + 1] < 128 => f[n + 1] = n + 1
         /\ n + 2 <= m /\ IsLead(q[n + 1]) /\ q[n + 1] <= 223 /\ Utf8!IsContinuation(q[n + 2]) => f[n + 2] = n + 2
<1> DEFINE l == n + 1
<1>1. m \in Nat /\ n + 1 - n = 1 /\ n <= n /\ l + 1 = n + 2 /\ l \in Nat /\ l + 1 - n = 2 /\ n <= l
  BY DEF IsBytes
<1>2. f[l] = IF CharacterAt(q, n, 1) THEN l ELSE n
  <2>1. f[l] = IF CharacterAt(q, f[n], n + 1 - f[n]) THEN l ELSE f[n]
    BY <1>1, CountStep
  <2> QED BY <1>1, <2>1
<1>3. ASSUME q[n + 1] < 128 PROVE f[n + 1] = n + 1
  BY <1>2, <1>3 DEF CharacterAt
<1>4. ASSUME n + 2 <= m, IsLead(q[n + 1]), q[n + 1] <= 223, Utf8!IsContinuation(q[n + 2])
      PROVE  f[n + 2] = n + 2
  <2>1. ~CharacterAt(q, n, 1)
    BY <1>4 DEF CharacterAt, IsLead
  <2>2. f[l] = n
    BY <1>2, <2>1
  <2>3. l < m /\ f[l] <= l
    BY <1>1, <1>4, <2>2
  <2>4. f[l + 1] = IF CharacterAt(q, n, 2) THEN l + 1 ELSE n
    <3> HIDE DEF l
    <3>1. f[l + 1] = IF CharacterAt(q, f[l], l + 1 - f[l]) THEN l + 1 ELSE f[l]
      BY <1>1, <2>3, CountStep
    <3> QED BY <1>1, <2>2, <3>1
  <2>5. CharacterAt(q, n, 2)
    <3>1. Size(q[n + 1]) = 2
      BY <1>4, CharLengths
    <3>2. Utf8!SecondByteOk(q[n + 1], q[n + 2])
      BY <1>4 DEF Utf8!SecondByteOk, IsLead
    <3> QED BY <1>4, <3>1, <3>2 DEF CharacterAt, SecondOk
  <2> QED BY <1>1, <2>4, <2>5
<1> QED BY <1>3, <1>4

\* The masks of a pair
LEMMA PairIs ==
  ASSUME NEW b, IsByte(b), Utf8!Lead2(b), Utf8!Bits(b) > 1
  PROVE  IsLead(b) /\ b <= 223
<1>1. b \in Nat /\ (b \div 32 = 6 => b = 192 + (b % 32)) /\ b % 32 \in 0 .. 31
  BY DEF IsByte
<1> QED BY <1>1 DEF IsByte, Utf8!Lead2, Utf8!Bits, IsLead

\* A word that is skipped consists of characters.
LEMMA SkippedCounts ==
  ASSUME NEW q, NEW m, IsBytes(q, m), NEW f, Counts(f, q, m), NEW a \in Nat, f[a] = a,
         NEW k \in {4, 8}, NEW w, IsBytes(w, k), a + k <= m, \A i \in 1 .. k : w[i] = q[a + i],
         k = 4 => Utf8!SkipsWord(w), k = 8 => Utf8!SkipsWord64(w), ~Utf8!Hides(w)
  PROVE  f[a + k] = a + k
<1> DEFINE At(i) == f[a + i] = a + i
<1> SUFFICES At(k)
  OBVIOUS
<1>1. m \in Nat /\ \A i \in 1 .. k : IsByte(w[i])
  BY DEF IsBytes
<1>2. At(0)
  OBVIOUS
<1>3. ASSUME NEW i \in 0 .. k, i < k, At(i), w[i + 1] < 128 PROVE At(i + 1)
  <2> DEFINE n == a + i
  <2>1. n \in Nat /\ n < m /\ q[n + 1] < 128 /\ a + (i + 1) = n + 1 /\ f[n] = n
    BY <1>1, <1>3
  <2> HIDE DEF n
  <2>2. f[n + 1] = n + 1
    BY <2>1, LowAndPair
  <2> QED BY <2>1, <2>2
<1>4. ASSUME NEW i \in 0 .. k, i + 1 < k, At(i),
             Utf8!Lead2(w[i + 1]), Utf8!Bits(w[i + 1]) > 1, Utf8!IsContinuation(w[i + 2])
      PROVE  At(i + 2)
  <2> DEFINE n == a + i
  <2>1. /\ n \in Nat /\ n < m /\ n + 2 <= m /\ q[n + 1] = w[i + 1] /\ q[n + 2] = w[i + 2]
        /\ a + (i + 2) = n + 2 /\ f[n] = n /\ i + 1 \in 1 .. k
    BY <1>1, <1>4
  <2>2. IsLead(w[i + 1]) /\ w[i + 1] <= 223
    BY <1>1, <1>4, <2>1, PairIs
  <2> HIDE DEF n
  <2>3. f[n + 2] = n + 2
    BY <1>4, <2>1, <2>2, LowAndPair
  <2> QED BY <2>1, <2>3
<1>5. ASSUME Utf8!AllPairs(w) PROVE \A i \in 1 .. k : IF i % 2 = 1 THEN Utf8!Lead2(w[i]) /\ Utf8!Bits(w[i]) > 1
                                                      ELSE Utf8!IsContinuation(w[i])
  <2>1. DOMAIN w = 1 .. k
    BY DEF IsBytes, IsSeq
  <2>2. ASSUME NEW i \in 1 .. k, i % 2 = 1 PROVE Utf8!Bits(w[i]) > 1
    <3>1. ~(Utf8!Bits(w[i]) <= 1)
      BY <1>5, <2>1, <2>2 DEF Utf8!Hides
    <3>2. Utf8!Bits(w[i]) \in Nat
      BY <1>1 DEF Utf8!Bits, IsByte
    <3> QED BY <3>1, <3>2
  <2> QED BY <1>5, <2>1, <2>2 DEF Utf8!AllPairs
<1> HIDE DEF At
<1>6. CASE k = 4
  <2>1. /\ At(0) /\ w[1] < 128 => At(1)
        /\ At(1) /\ w[2] < 128 => At(2)
        /\ At(2) /\ w[3] < 128 => At(3)
        /\ At(3) /\ w[4] < 128 => At(4)
    <3>1. \A i \in 0 .. k : i < k /\ At(i) /\ w[i + 1] < 128 => At(i + 1)
      BY <1>3
    <3> QED BY <1>6, <3>1
  <2>6. /\ At(0) /\ Utf8!Lead2(w[1]) /\ Utf8!Bits(w[1]) > 1 /\ Utf8!IsContinuation(w[2]) => At(2)
        /\ At(1) /\ Utf8!Lead2(w[2]) /\ Utf8!Bits(w[2]) > 1 /\ Utf8!IsContinuation(w[3]) => At(3)
        /\ At(2) /\ Utf8!Lead2(w[3]) /\ Utf8!Bits(w[3]) > 1 /\ Utf8!IsContinuation(w[4]) => At(4)
    <3>1. \A i \in 0 .. k : i + 1 < k /\ At(i) /\ Utf8!Lead2(w[i + 1]) /\ Utf8!Bits(w[i + 1]) > 1
                               /\ Utf8!IsContinuation(w[i + 2]) => At(i + 2)
      BY <1>4
    <3> QED BY <1>6, <3>1
  <2>2. CASE \A i \in 1 .. 4 : Utf8!Low(w[i])
    BY <1>2, <2>1, <2>6, <2>2, <1>6 DEF Utf8!Low
  <2>3. CASE \E i \in 1 .. 3 : /\ Utf8!Lead2(w[i]) /\ Utf8!IsContinuation(w[i + 1]) /\ Utf8!Bits(w[i]) > 1
                               /\ \A j \in (1 .. 4) \ {i, i + 1} : Utf8!Low(w[j])
    <3> PICK i \in 1 .. 3 : /\ Utf8!Lead2(w[i]) /\ Utf8!IsContinuation(w[i + 1]) /\ Utf8!Bits(w[i]) > 1
                            /\ \A j \in (1 .. 4) \ {i, i + 1} : Utf8!Low(w[j])
      BY <2>3
    <3>1. CASE i = 1
      BY <1>2, <2>1, <2>6, <1>6, <3>1 DEF Utf8!Low
    <3>2. CASE i = 2
      BY <1>2, <2>1, <2>6, <1>6, <3>2 DEF Utf8!Low
    <3>3. CASE i = 3
      BY <1>2, <2>1, <2>6, <1>6, <3>3 DEF Utf8!Low
    <3> QED BY <3>1, <3>2, <3>3
  <2>4. CASE Utf8!AllPairs(w)
    <3>1. /\ Utf8!Lead2(w[1]) /\ Utf8!Bits(w[1]) > 1 /\ Utf8!IsContinuation(w[2])
          /\ Utf8!Lead2(w[3]) /\ Utf8!Bits(w[3]) > 1 /\ Utf8!IsContinuation(w[4])
      BY <1>5, <1>6, <2>4
    <3> QED BY <1>2, <2>1, <2>6, <1>6, <3>1
  <2>5. Utf8!SkipsWord(w)
    BY <1>6
  <2> QED BY <2>2, <2>3, <2>4, <2>5, <1>6, Zenon DEF Utf8!SkipsWord
<1>7. CASE k = 8
  <2>1. /\ At(0) /\ w[1] < 128 => At(1)
        /\ At(1) /\ w[2] < 128 => At(2)
        /\ At(2) /\ w[3] < 128 => At(3)
        /\ At(3) /\ w[4] < 128 => At(4)
        /\ At(4) /\ w[5] < 128 => At(5)
        /\ At(5) /\ w[6] < 128 => At(6)
        /\ At(6) /\ w[7] < 128 => At(7)
        /\ At(7) /\ w[8] < 128 => At(8)
    <3>1. \A i \in 0 .. k : i < k /\ At(i) /\ w[i + 1] < 128 => At(i + 1)
      BY <1>3
    <3> QED BY <1>7, <3>1
  <2>6. /\ At(0) /\ Utf8!Lead2(w[1]) /\ Utf8!Bits(w[1]) > 1 /\ Utf8!IsContinuation(w[2]) => At(2)
        /\ At(2) /\ Utf8!Lead2(w[3]) /\ Utf8!Bits(w[3]) > 1 /\ Utf8!IsContinuation(w[4]) => At(4)
        /\ At(4) /\ Utf8!Lead2(w[5]) /\ Utf8!Bits(w[5]) > 1 /\ Utf8!IsContinuation(w[6]) => At(6)
        /\ At(6) /\ Utf8!Lead2(w[7]) /\ Utf8!Bits(w[7]) > 1 /\ Utf8!IsContinuation(w[8]) => At(8)
    <3>1. \A i \in 0 .. k : i + 1 < k /\ At(i) /\ Utf8!Lead2(w[i + 1]) /\ Utf8!Bits(w[i + 1]) > 1
                               /\ Utf8!IsContinuation(w[i + 2]) => At(i + 2)
      BY <1>4
    <3> QED BY <1>7, <3>1
  <2>2. CASE \A i \in 1 .. 8 : Utf8!Low(w[i])
    BY <1>2, <2>1, <2>6, <2>2, <1>7 DEF Utf8!Low
  <2>3. CASE Utf8!AllPairs(w)
    <3>1. /\ Utf8!Lead2(w[1]) /\ Utf8!Bits(w[1]) > 1 /\ Utf8!IsContinuation(w[2])
          /\ Utf8!Lead2(w[3]) /\ Utf8!Bits(w[3]) > 1 /\ Utf8!IsContinuation(w[4])
          /\ Utf8!Lead2(w[5]) /\ Utf8!Bits(w[5]) > 1 /\ Utf8!IsContinuation(w[6])
          /\ Utf8!Lead2(w[7]) /\ Utf8!Bits(w[7]) > 1 /\ Utf8!IsContinuation(w[8])
      BY <1>5, <1>7, <2>3
    <3> QED BY <1>2, <2>1, <2>6, <1>7, <3>1
  <2>4. Utf8!SkipsWord64(w)
    BY <1>7
  <2> QED BY <2>2, <2>3, <2>4, <1>7, Zenon DEF Utf8!SkipsWord64
<1> QED BY <1>6, <1>7

\* The checker waits for a character where one begins, and nowhere else.
LEMMA ReadyAt ==
  ASSUME NEW q, NEW f, NEW a \in Nat, NEW r \in Results, r.ok
  PROVE  /\ JudgedAt(q, f, a, r) /\ r.checker.next_byte = 1 => r.checker = Ready /\ f[a] = a
         /\ r.checker = Ready /\ f[a] = a => JudgedAt(q, f, a, r)
<1>1. r.checker \in Checkers /\ r.ok \in BOOLEAN
  BY DEF Results
<1>2. ASSUME JudgedAt(q, f, a, r), r.checker.next_byte = 1 PROVE r.checker = Ready /\ f[a] = a
  <2>1. r.checker = Ready
    BY <1>1, <1>2 DEF Checkers
  <2>2. CASE f[a] # a
    <3>1. r.checker.next_byte = a - f[a] + 1 /\ f[a] \in 0 .. a
      BY <1>2, <2>2 DEF JudgedAt, Judged
    <3> QED BY <1>2, <2>2, <3>1
  <2> QED BY <2>1, <2>2
<1>3. ASSUME r.checker = Ready, f[a] = a PROVE JudgedAt(q, f, a, r)
  <2>1. a \in 0 .. a
    OBVIOUS
  <2> QED BY <1>1, <1>3, <2>1 DEF JudgedAt, Judged
<1> QED BY <1>2, <1>3

\* A word, skipped or not
LEMMA WordJudged ==
  ASSUME NEW q, NEW m, IsBytes(q, m), NEW f, Counts(f, q, m), NEW a \in Nat,
         NEW k \in {4, 8}, NEW w, IsBytes(w, k), a + k <= m, \A i \in 1 .. k : w[i] = q[a + i],
         NEW r, JudgedAt(q, f, a, r), r.ok, Utf8!Skips(r.checker, w) => ~Utf8!Hides(w),
         NEW z, z = IF ~r.ok \/ Utf8!Skips(r.checker, w) THEN r ELSE Utf8!AreBytesValid(r.checker, w)
  PROVE  JudgedAt(q, f, a + k, z)
<1>1. r \in Results /\ r.ok \in BOOLEAN /\ r.checker \in Checkers /\ k \in Nat /\ a + k \in Nat
  BY DEF JudgedAt, Results
<1>2. CASE Utf8!Skips(r.checker, w)
  <2>1. z = r
    BY <1>2, Zenon
  <2>2. Len(w) = k
    BY <1>1, LengthIs DEF IsBytes
  <2>3. r.checker.next_byte = 1 /\ (k = 4 => Utf8!SkipsWord(w)) /\ (k = 8 => Utf8!SkipsWord64(w))
    BY <1>2, <2>2 DEF Utf8!Skips
  <2>4. r.checker = Ready /\ f[a] = a
    BY <1>1, <2>3, ReadyAt
  <2>5. f[a + k] = a + k
    BY <1>2, <2>3, <2>4, SkippedCounts
  <2> QED BY <1>1, <2>1, <2>4, <2>5, ReadyAt
<1>3. CASE ~Utf8!Skips(r.checker, w)
  <2>1. z = Utf8!AreBytesValid(r.checker, w)
    BY <1>3, Zenon
  <2>2. r = [ok |-> TRUE, checker |-> r.checker]
    <3>1. r = [ok |-> r.ok, checker |-> r.checker]
      BY <1>1 DEF Results
    <3>2. r.ok = TRUE
      BY <1>1
    <3> QED BY <3>1, <3>2, Zenon
  <2> DEFINE c == r.checker
  <2>3. JudgedAt(q, f, a, [ok |-> TRUE, checker |-> c])
    BY <2>2, Zenon
  <2> HIDE DEF c
  <2>4. JudgedAt(q, f, a + k, Utf8!AreBytesValid(c, w))
    BY <2>3, BytesJudged
  <2> QED BY <2>1, <2>4 DEF c
<1> QED BY <1>2, <1>3

\* cjet_is_word_sequence_valid takes word by word.
LEMMA WordsRead ==
  ASSUME NEW c \in Checkers, NEW words, NEW n \in Nat, IsSeq(words, n), NEW k, \A i \in 1 .. n : IsBytes(words[i], k)
  PROVE  \E f : WordReadings(f, c, words, n) /\ Utf8!AreWordsValid(c, words) = f[n]
<1> DEFINE base == [ok |-> TRUE, checker |-> c]
           reading == [i \in 1 .. n |-> [r \in Results |->
                          IF ~r.ok \/ Utf8!Skips(r.checker, words[i]) THEN r
                          ELSE Utf8!AreBytesValid(r.checker, words[i])]]
           Is(f) == f = [i \in 0 .. n |-> IF i = 0 THEN [ok |-> TRUE, checker |-> c]
                                         ELSE IF ~f[i - 1].ok \/ Utf8!Skips(f[i - 1].checker, words[i]) THEN f[i - 1]
                                         ELSE Utf8!AreBytesValid(f[i - 1].checker, words[i])]
<1>1. Len(words) = n
  BY LengthIs
<1>2. base \in Results
  BY DEF Results
<1>3. ASSUME NEW i \in 1 .. n, NEW r \in Results
      PROVE  (IF ~r.ok \/ Utf8!Skips(r.checker, words[i]) THEN r
              ELSE Utf8!AreBytesValid(r.checker, words[i])) \in Results
  <2>1. r.checker \in Checkers /\ IsBytes(words[i], k) /\ k \in Nat /\ k \in 0 .. k
    BY DEF Results, IsBytes
  <2>2. \E g : Readings(g, r.checker, words[i], k) /\ Utf8!AreBytesValid(r.checker, words[i]) = g[k]
    BY <2>1, BytesRead
  <2>3. Utf8!AreBytesValid(r.checker, words[i]) \in Results
    BY <2>1, <2>2 DEF Readings
  <2> QED BY <2>3
<1>4. \E f : Follows(f, base, reading, n, Results)
  <2>1. Steps(reading, n, Results)
    BY <1>3, Zenon DEF Steps
  <2> HIDE DEF reading, base
  <2> QED BY <1>1, <1>2, <2>1, Recursion, Zenon
<1>5. \E f : Is(f)
  <2> PICK f : Follows(f, base, reading, n, Results)
    BY <1>4
  <2>1. ASSUME NEW i \in 1 .. n
        PROVE  f[i] = IF ~f[i - 1].ok \/ Utf8!Skips(f[i - 1].checker, words[i]) THEN f[i - 1]
                      ELSE Utf8!AreBytesValid(f[i - 1].checker, words[i])
    <3>1. i - 1 \in 0 .. n
      BY <1>1
    <3>2. f[i - 1] \in Results /\ f[i] = reading[i][f[i - 1]]
      BY <3>1 DEF Follows
    <3> QED BY <3>2, Zenon
  <2>2. \A i \in 0 .. n : i # 0 => i \in 1 .. n
    BY <1>1
  <2>3. f = [i \in 0 .. n |-> f[i]] /\ f[0] = base
    BY <1>1 DEF Follows
  <2> HIDE DEF reading
  <2>4. \A i \in 0 .. n : f[i] = IF i = 0 THEN [ok |-> TRUE, checker |-> c]
                                ELSE IF ~f[i - 1].ok \/ Utf8!Skips(f[i - 1].checker, words[i]) THEN f[i - 1]
                                ELSE Utf8!AreBytesValid(f[i - 1].checker, words[i])
    BY <2>1, <2>2, <2>3, Zenon
  <2>5. Is(f)
    BY <2>3, <2>4, Zenon
  <2> QED BY <2>5
<1> DEFINE after == CHOOSE f : Is(f)
<1>6. Is(after)
  BY <1>5, Zenon
<1>7. Utf8!AreWordsValid(c, words) = after[n]
  BY <1>1, Zenon DEF Utf8!AreWordsValid
<1> HIDE DEF after
<1>8. \A i \in 0 .. n : after[i] = IF i = 0 THEN [ok |-> TRUE, checker |-> c]
                        ELSE IF ~after[i - 1].ok \/ Utf8!Skips(after[i - 1].checker, words[i]) THEN after[i - 1]
                        ELSE Utf8!AreBytesValid(after[i - 1].checker, words[i])
  BY <1>6, Zenon
<1>9. 0 \in 0 .. n /\ \A i \in 1 .. n : i \in 0 .. n /\ i # 0
  BY <1>1
<1>10. after[0] = [ok |-> TRUE, checker |-> c]
  BY <1>8, <1>9, Zenon
<1>11. \A i \in 1 .. n : after[i] = IF ~after[i - 1].ok \/ Utf8!Skips(after[i - 1].checker, words[i]) THEN after[i - 1]
                                    ELSE Utf8!AreBytesValid(after[i - 1].checker, words[i])
  BY <1>8, <1>9, Zenon
<1>12. \A i \in 0 .. n : after[i] \in Results
  <2> DEFINE good == {i \in 0 .. n : after[i] \in Results}
  <2>1. 0 \in good
    BY <1>2, <1>9, <1>10
  <2>2. ASSUME NEW i \in 0 .. n, i \in good, i < n PROVE i + 1 \in good
    <3> DEFINE j == i + 1
    <3>1. j \in 1 .. n /\ j \in 0 .. n /\ j - 1 = i /\ after[i] \in Results
      BY <1>1, <2>2
    <3> HIDE DEF j
    <3>2. after[j] = IF ~after[i].ok \/ Utf8!Skips(after[i].checker, words[j]) THEN after[i]
                     ELSE Utf8!AreBytesValid(after[i].checker, words[j])
      <4>1. after[j] = IF ~after[j - 1].ok \/ Utf8!Skips(after[j - 1].checker, words[j]) THEN after[j - 1]
                       ELSE Utf8!AreBytesValid(after[j - 1].checker, words[j])
        BY <1>11, <3>1, Zenon
      <4> QED BY <3>1, <4>1, Zenon
    <3>3. after[j] \in Results
      BY <1>3, <3>1, <3>2, Zenon
    <3> QED BY <3>1, <3>3 DEF j
  <2> HIDE DEF good
  <2>3. \A i \in 0 .. n : i \in good
    BY <1>1, <2>1, <2>2, StepByStep
  <2> QED BY <2>3 DEF good
<1>13. after = [i \in 0 .. n |-> after[i]]
  BY <1>6, <1>8, Zenon
<1>14. WordReadings(after, c, words, n)
  BY <1>10, <1>11, <1>12, <1>13, Zenon DEF WordReadings
<1> QED BY <1>7, <1>14

\* Words of 8 bytes, one after the other
LEMMA WordsJudged ==
  ASSUME NEW q, NEW m, IsBytes(q, m), NEW f, Counts(f, q, m), NEW a \in Nat,
         NEW n \in Nat, a + 8 * n <= m, NEW words, IsSeq(words, n), \A i \in 1 .. n : IsBytes(words[i], 8),
         \A i \in 1 .. n : \A j \in 1 .. 8 : words[i][j] = q[a + 8 * (i - 1) + j],
         \A i \in 1 .. n : ~Utf8!Hides(words[i]),
         NEW c, JudgedAt(q, f, a, [ok |-> TRUE, checker |-> c])
  PROVE  JudgedAt(q, f, a + 8 * n, Utf8!AreWordsValid(c, words))
<1>1. c \in Checkers /\ m \in Nat
  BY DEF JudgedAt, Judged, IsBytes
<1> PICK g : WordReadings(g, c, words, n) /\ Utf8!AreWordsValid(c, words) = g[n]
  BY <1>1, WordsRead
<1> DEFINE right == {i \in 0 .. n : JudgedAt(q, f, a + 8 * i, g[i])}
<1>2. 0 \in right
  <2>1. g[0] = [ok |-> TRUE, checker |-> c] /\ a + 8 * 0 = a /\ 0 \in 0 .. n
    BY <1>1 DEF WordReadings
  <2> QED BY <2>1
<1>3. ASSUME NEW i \in 0 .. n, i \in right, i < n PROVE i + 1 \in right
  <2> DEFINE b == a + 8 * i
             j == i + 1
  <2>1. /\ b \in Nat /\ b + 8 <= m /\ a + 8 * j = b + 8 /\ a + 8 * (j - 1) = b
        /\ j \in 1 .. n /\ j \in 0 .. n /\ j - 1 = i
    BY <1>1, <1>3
  <2>2. \A k \in 1 .. 8 : words[j][k] = q[b + k]
    <3> HIDE DEF j, b
    <3> QED BY <2>1
  <2>3. JudgedAt(q, f, b, g[i]) /\ g[i] \in Results /\ IsBytes(words[j], 8) /\ ~Utf8!Hides(words[j])
    BY <1>3, <2>1 DEF WordReadings
  <2> HIDE DEF b, j
  <2>4. g[j] = IF ~g[i].ok \/ Utf8!Skips(g[i].checker, words[j]) THEN g[i]
               ELSE Utf8!AreBytesValid(g[i].checker, words[j])
    <3>1. g[j] = IF ~g[j - 1].ok \/ Utf8!Skips(g[j - 1].checker, words[j]) THEN g[j - 1]
                 ELSE Utf8!AreBytesValid(g[j - 1].checker, words[j])
      BY <2>1, Zenon DEF WordReadings
    <3> QED BY <2>1, <3>1, Zenon
  <2>5. JudgedAt(q, f, b + 8, g[j])
    <3>1. CASE g[i].ok
      <4> DEFINE w == words[j]
      <4>1. g[j] = IF ~g[i].ok \/ Utf8!Skips(g[i].checker, w) THEN g[i] ELSE Utf8!AreBytesValid(g[i].checker, w)
        BY <2>4
      <4>2. IsBytes(w, 8) /\ ~Utf8!Hides(w) /\ (\A k \in 1 .. 8 : w[k] = q[b + k]) /\ 8 \in {4, 8}
        BY <2>2, <2>3
      <4> HIDE DEF w
      <4> QED BY <2>1, <2>3, <3>1, <4>1, <4>2, WordJudged, Zenon
    <3>2. CASE ~g[i].ok
      <4>1. g[j] = g[i] /\ 8 \in Nat
        BY <2>4, <3>2
      <4> QED BY <2>1, <2>3, <3>2, <4>1, BrokenLater, Zenon
    <3> QED BY <3>1, <3>2
  <2>6. JudgedAt(q, f, a + 8 * j, g[j])
    BY <2>1, <2>5
  <2> QED BY <2>1, <2>6 DEF j
<1>4. n \in right
  <2> HIDE DEF right
  <2>1. \A i \in 0 .. n : i \in right
    BY <1>1, <1>2, <1>3, StepByStep
  <2> QED BY <1>1, <2>1
<1> QED BY <1>4


\* cjet_is_word_sequence_valid_auto_alligned, at any alignment
LEMMA AlignedJudged ==
  ASSUME NEW q, NEW m \in Nat, m >= 8, IsBytes(q, m), NEW f, Counts(f, q, m), NEW offset \in 0 .. 7
  PROVE  /\ Utf8!IsAlignedValid(Ready, q, offset) \in Results
         /\ (\A i \in DOMAIN Utf8!Aligned(q, offset).words : ~Utf8!Hides(Utf8!Aligned(q, offset).words[i]))
               => JudgedAt(q, f, m, Utf8!IsAlignedValid(Ready, q, offset))
<1> DEFINE pre == 8 - offset
           n == (m - pre) \div 8
           last == pre + 8 * n
           head == SubSeq(q, 0 + 1, pre)
           words == [i \in 1 .. n |-> SubSeq(q, pre + 8 * i - 7, pre + 8 * i)]
           tail == SubSeq(q, last + 1, m)
           r1 == Utf8!AreBytesValid(Ready, head)
           r2 == Utf8!AreWordsValid(r1.checker, words)
           r3 == Utf8!AreBytesValid(r2.checker, tail)
           z == [ok |-> r1.ok /\ r2.ok /\ r3.ok, checker |-> r3.checker]
           NoneHides == \A i \in DOMAIN Utf8!Aligned(q, offset).words : ~Utf8!Hides(Utf8!Aligned(q, offset).words[i])
<1>1. pre \in Nat /\ pre <= m /\ n \in Nat /\ last \in Nat /\ last <= m /\ 0 + 1 = 1 /\ 0 + pre = pre
  OBVIOUS
<1>2. Len(q) = m
  BY LengthIs DEF IsBytes
<1>3. Utf8!Aligned(q, offset) = [head |-> head, words |-> words, tail |-> tail]
  BY <1>2 DEF Utf8!Aligned
<1>4. Utf8!IsAlignedValid(Ready, q, offset) = z
  <2>1. Utf8!Aligned(q, offset).head = head /\ Utf8!Aligned(q, offset).words = words /\ Utf8!Aligned(q, offset).tail = tail
    <3> HIDE DEF head, words, tail
    <3> QED BY <1>3
  <2> HIDE DEF head, words, tail
  <2> QED BY <2>1, Zenon DEF Utf8!IsAlignedValid
<1>5. IsBytes(head, pre) /\ \A i \in 1 .. pre : head[i] = q[0 + i]
  <2>1. pre - 0 = pre /\ 0 \in Nat /\ 0 <= pre
    BY <1>1
  <2> HIDE DEF pre
  <2>2. IsBytes(SubSeq(q, 0 + 1, pre), pre - 0) /\ \A i \in 1 .. pre - 0 : SubSeq(q, 0 + 1, pre)[i] = q[0 + i]
    BY <1>1, <2>1, CutBytes
  <2> QED BY <2>1, <2>2, Zenon
<1>6. IsBytes(tail, m - last) /\ \A i \in 1 .. m - last : tail[i] = q[last + i]
  <2>1. m <= m /\ last \in Nat /\ last <= m
    BY <1>1
  <2> HIDE DEF last
  <2> QED BY <2>1, CutBytes, Zenon
<1>7. IsSeq(words, n) /\ \A i \in 1 .. n : IsBytes(words[i], 8) /\ \A j \in 1 .. 8 : words[i][j] = q[pre + 8 * (i - 1) + j]
  <2>1. IsSeq(words, n)
    BY DEF IsSeq
  <2>2. ASSUME NEW i \in 1 .. n PROVE IsBytes(words[i], 8) /\ \A j \in 1 .. 8 : words[i][j] = q[pre + 8 * (i - 1) + j]
    <3> DEFINE a == pre + 8 * (i - 1)
               b == pre + 8 * i
    <3>1. a \in Nat /\ b \in Nat /\ a <= b /\ b <= m /\ b - a = 8 /\ pre + 8 * i - 7 = a + 1
      BY <1>1
    <3>2. words[i] = SubSeq(q, a + 1, b)
      BY <3>1
    <3> HIDE DEF a, b, words
    <3>3. IsBytes(SubSeq(q, a + 1, b), b - a) /\ \A j \in 1 .. b - a : SubSeq(q, a + 1, b)[j] = q[a + j]
      BY <3>1, CutBytes
    <3>4. IsBytes(words[i], 8) /\ \A j \in 1 .. 8 : words[i][j] = q[a + j]
      BY <3>1, <3>2, <3>3, Zenon
    <3> QED BY <3>4 DEF a
  <2> HIDE DEF words, n, pre
  <2> QED BY <2>1, <2>2
<1>8. NoneHides => \A i \in 1 .. n : ~Utf8!Hides(words[i])
  <2>1. Utf8!Aligned(q, offset).words = words /\ DOMAIN words = 1 .. n
    <3>1. DOMAIN words = 1 .. n
      OBVIOUS
    <3> HIDE DEF head, words, tail
    <3> QED BY <1>3, <3>1
  <2> HIDE DEF words
  <2> QED BY <2>1
<1>9. JudgedAt(q, f, 0, [ok |-> TRUE, checker |-> Ready])
  <2>1. f[0] = 0 /\ Ready \in Checkers /\ 0 \in 0 .. 0
    BY DEF Counts, Checkers
  <2> QED BY <2>1 DEF JudgedAt, Judged, Results
<1> HIDE DEF pre, n, last, head, words, tail, r1, NoneHides
<1>10. JudgedAt(q, f, pre, r1) /\ r1 \in Results /\ r1.checker \in Checkers /\ r1.ok \in BOOLEAN
  <2>1. JudgedAt(q, f, 0 + pre, r1)
    BY <1>1, <1>5, <1>9, BytesJudged DEF r1
  <2> QED BY <1>1, <2>1 DEF JudgedAt, Results
<1> HIDE DEF r2
<1>11. r2 \in Results /\ r2.checker \in Checkers /\ r2.ok \in BOOLEAN
  <2>1. PICK g : WordReadings(g, r1.checker, words, n) /\ Utf8!AreWordsValid(r1.checker, words) = g[n]
    BY <1>1, <1>7, <1>10, WordsRead
  <2>2. r2 = g[n] /\ n \in 0 .. n
    BY <1>1, <2>1 DEF r2
  <2> QED BY <2>1, <2>2 DEF WordReadings, Results
<1>12. NoneHides /\ r1.ok => JudgedAt(q, f, last, r2)
  <2> SUFFICES ASSUME NoneHides, r1.ok PROVE JudgedAt(q, f, last, r2)
    OBVIOUS
  <2>1. r1 = [ok |-> TRUE, checker |-> r1.checker]
    BY <1>10 DEF Results
  <2>2. JudgedAt(q, f, pre, [ok |-> TRUE, checker |-> r1.checker])
    BY <1>10, <2>1, Zenon
  <2>3. pre + 8 * n <= m /\ (\A i \in 1 .. n : IsBytes(words[i], 8))
        /\ (\A i \in 1 .. n : \A j \in 1 .. 8 : words[i][j] = q[pre + 8 * (i - 1) + j])
    BY <1>1, <1>7 DEF last
  <2>4. JudgedAt(q, f, pre + 8 * n, Utf8!AreWordsValid(r1.checker, words))
    BY <1>1, <1>7, <1>8, <2>2, <2>3, WordsJudged, Zenon
  <2> QED BY <2>4 DEF r2, last
<1> HIDE DEF r3
<1>13. r3 \in Results /\ r3.checker \in Checkers /\ r3.ok \in BOOLEAN
  <2>1. PICK g : Readings(g, r2.checker, tail, m - last) /\ Utf8!AreBytesValid(r2.checker, tail) = g[m - last]
    BY <1>6, <1>11, BytesRead
  <2>2. r3 = g[m - last] /\ m - last \in 0 .. m - last
    BY <1>1, <2>1 DEF r3
  <2> QED BY <2>1, <2>2 DEF Readings, Results
<1>14. NoneHides /\ r1.ok /\ r2.ok => JudgedAt(q, f, m, r3)
  <2> SUFFICES ASSUME NoneHides, r1.ok, r2.ok PROVE JudgedAt(q, f, m, r3)
    OBVIOUS
  <2>1. r2 = [ok |-> TRUE, checker |-> r2.checker]
    BY <1>11 DEF Results
  <2>2. JudgedAt(q, f, last, [ok |-> TRUE, checker |-> r2.checker])
    BY <1>12, <2>1, Zenon
  <2>3. last + (m - last) = m /\ m - last \in Nat /\ last + (m - last) <= m
    BY <1>1
  <2>4. JudgedAt(q, f, last + (m - last), Utf8!AreBytesValid(r2.checker, tail))
    BY <1>1, <1>6, <2>2, <2>3, BytesJudged
  <2> QED BY <2>3, <2>4 DEF r3
<1>15. z \in Results
  BY <1>13 DEF Results
<1>16. z.ok = (r1.ok /\ r2.ok /\ r3.ok) /\ z.checker = r3.checker
  OBVIOUS
<1>17. /\ pre + (m - pre) = m /\ m - pre \in Nat /\ pre + (m - pre) <= m
       /\ last + (m - last) = m /\ m - last \in Nat /\ last + (m - last) <= m
  BY <1>1
<1> HIDE DEF z
<1>18. ASSUME NoneHides PROVE JudgedAt(q, f, m, z)
  <2>1. CASE ~r1.ok
    <3>1. ~z.ok
      BY <1>16, <2>1
    <3>2. JudgedAt(q, f, pre + (m - pre), z)
      BY <1>1, <1>10, <1>15, <1>17, <1>18, <2>1, <3>1, BrokenLater
    <3> QED BY <1>17, <3>2, Zenon
  <2>2. CASE r1.ok /\ ~r2.ok
    <3>1. ~z.ok
      BY <1>16, <2>2
    <3>2. JudgedAt(q, f, last + (m - last), z)
      BY <1>1, <1>11, <1>12, <1>15, <1>17, <1>18, <2>2, <3>1, BrokenLater
    <3> QED BY <1>17, <3>2, Zenon
  <2>3. CASE r1.ok /\ r2.ok
    <3>1. z.ok = r3.ok
      BY <1>13, <1>16, <2>3
    <3>2. JudgedAt(q, f, m, r3)
      BY <1>14, <1>18, <2>3
    <3> QED BY <1>15, <1>16, <3>1, <3>2, Zenon DEF JudgedAt
  <2> QED BY <2>1, <2>2, <2>3
<1> QED BY <1>4, <1>15, <1>18 DEF NoneHides

\* A character that has begun can be completed.
LEMMA Completed ==
  ASSUME NEW q, NEW k \in 1 .. 3, IsBytes(q, k), BegunAt(q, 0, k)
  PROVE  \E n \in 1 .. 4 - k : \E more \in [1 .. n -> {128, 143, 144, 159, 160, 191}] : Utf8!IsCharacter(q \o more)
<1> DEFINE lead == q[1]
           size == Size(lead)
           n == size - k
           second == IF lead = 224 THEN 160 ELSE IF lead = 240 THEN 144 ELSE 128
           more == [i \in 1 .. n |-> IF k + i = 2 THEN second ELSE 128]
           char == q \o more
<1>1. /\ IsLead(lead) /\ k < size /\ size \in 2 .. 4 /\ n \in 1 .. 4 - k /\ n \in Nat /\ k + n = size
      /\ k >= 2 => SecondOk(lead, q[2])
      /\ k = 3 => Utf8!IsContinuation(q[3])
  <2>1. IsLead(q[1]) /\ k < Size(q[1]) /\ (k >= 2 => SecondOk(q[1], q[2])) /\ (k = 3 => Utf8!IsContinuation(q[3]))
    BY DEF BegunAt
  <2>2. Size(q[1]) \in 2 .. 4
    BY <2>1, CharLengths
  <2>3. n \in 1 .. 4 - k /\ n \in Nat /\ k + n = size
    <3> HIDE DEF size
    <3>1. k < size /\ size \in 2 .. 4
      BY <2>1, <2>2 DEF size
    <3> QED BY <3>1
  <2> HIDE DEF n
  <2> QED BY <2>1, <2>2, <2>3, Zenon
<1>2. IsSeq(q, k) /\ IsSeq(more, n) /\ k \in Nat
  BY DEF IsBytes, IsSeq
<1>3. more \in [1 .. n -> {128, 143, 144, 159, 160, 191}]
  OBVIOUS
<1>4. Utf8!IsContinuation(128) /\ SecondOk(lead, second)
  <2> HIDE DEF lead, size
  <2> QED BY <1>1 DEF Utf8!IsContinuation, Utf8!Between, SecondOk, Utf8!SecondByteOk, IsLead
<1>5. \A i \in 1 .. n : more[i] = IF k + i = 2 THEN second ELSE 128
  OBVIOUS
<1>6. IsByte(second) /\ IsByte(128)
  BY DEF IsByte
<1> HIDE DEF more, second, n, size
<1>7. IsSeq(char, size) /\ \A i \in 1 .. size : char[i] = IF i <= k THEN q[i] ELSE more[i - k]
  <2>1. IsJoined(char, q, more, k, n)
    BY <1>1, <1>2, JoinedTo
  <2> HIDE DEF char
  <2> QED BY <1>1, <2>1 DEF IsJoined, IsSeq
<1> HIDE DEF char
<1>8. \A i \in 1 .. size : char[i] = IF i <= k THEN q[i] ELSE IF i = 2 THEN second ELSE 128
  <2> TAKE i \in 1 .. size
  <2>1. CASE i <= k
    BY <1>7, <2>1
  <2>2. CASE ~(i <= k)
    <3>1. i - k \in 1 .. n /\ k + (i - k) = i
      BY <1>1, <2>2
    <3> QED BY <1>5, <1>7, <2>2, <3>1
  <2> QED BY <2>1, <2>2
<1>9. IsBytes(char, size) /\ size \in Nat
  <2>1. \A i \in 1 .. k : IsByte(q[i])
    BY DEF IsBytes
  <2>2. \A i \in 1 .. size : IsByte(char[i])
    BY <1>6, <1>8, <2>1
  <2> QED BY <1>1, <1>7, <2>2 DEF IsBytes
<1>10. /\ char[1] = lead /\ SecondOk(lead, char[2])
       /\ size >= 3 => Utf8!IsContinuation(char[3])
       /\ size = 4 => Utf8!IsContinuation(char[4])
  <2>1. char[1] = lead
    BY <1>1, <1>8
  <2>2. SecondOk(lead, char[2])
    <3>1. 2 \in 1 .. size
      BY <1>1
    <3>2. char[2] = IF 2 <= k THEN q[2] ELSE second
      BY <1>8, <3>1
    <3> QED BY <1>1, <1>4, <3>2
  <2>3. ASSUME size >= 3 PROVE Utf8!IsContinuation(char[3])
    <3>1. 3 \in 1 .. size
      BY <1>1, <2>3
    <3>2. char[3] = IF 3 <= k THEN q[3] ELSE 128
      BY <1>8, <3>1
    <3> QED BY <1>1, <1>4, <3>2
  <2>4. ASSUME size = 4 PROVE Utf8!IsContinuation(char[4])
    <3>1. 4 \in 1 .. size
      BY <1>1, <2>4
    <3>2. char[4] = 128
      BY <1>8, <3>1
    <3> QED BY <1>4, <3>2
  <2> QED BY <2>1, <2>2, <2>3, <2>4
<1>11. CharacterAt(char, 0, size)
  <2> HIDE DEF lead
  <2>1. IsLead(char[0 + 1]) /\ size = Size(char[0 + 1]) /\ size \in 2 .. 4
    BY <1>1, <1>10 DEF size
  <2>2. SecondOk(char[0 + 1], char[0 + 2]) /\ (size >= 3 => Utf8!IsContinuation(char[0 + 3]))
        /\ (size = 4 => Utf8!IsContinuation(char[0 + 4]))
    BY <1>10
  <2> QED BY <2>1, <2>2, Zenon DEF CharacterAt
<1>12. Utf8!IsCharacter(char)
  BY <1>9, <1>11, CharacterByBytes
<1>13. Utf8!IsCharacter(q \o more)
  BY <1>12 DEF char
<1> QED BY <1>1, <1>3, <1>13

\* What is broken cannot.
LEMMA NotCompleted ==
  ASSUME NEW q, NEW k \in 1 .. 3, IsBytes(q, k), BrokenAt(q, 0, k), NEW n \in 1 .. 4 - k,
         NEW more \in [1 .. n -> {128, 143, 144, 159, 160, 191}]
  PROVE  ~Utf8!IsCharacter(q \o more)
<1> DEFINE char == q \o more
           l == k + n
<1>1. IsSeq(q, k) /\ IsSeq(more, n) /\ k \in Nat /\ n \in Nat /\ l \in Nat /\ k <= l
  BY DEF IsBytes, IsSeq
<1>2. IsJoined(char, q, more, k, n)
  BY <1>1, JoinedTo
<1> HIDE DEF char
<1>3. IsSeq(char, l) /\ \A i \in 1 .. l : char[i] = IF i <= k THEN q[i] ELSE more[i - k]
  BY <1>2 DEF IsJoined, IsSeq
<1>4. \A i \in 1 .. l : IsByte(char[i])
  <2> TAKE i \in 1 .. l
  <2>1. CASE i <= k
    BY <1>3, <2>1 DEF IsBytes
  <2>2. CASE ~(i <= k)
    <3>1. i - k \in 1 .. n
      BY <2>2
    <3>2. more[i - k] \in {128, 143, 144, 159, 160, 191}
      BY <3>1
    <3>3. char[i] \in {128, 143, 144, 159, 160, 191}
      BY <1>3, <2>2, <3>2
    <3> QED BY <3>3 DEF IsByte
  <2> QED BY <2>1, <2>2
<1>5. IsBytes(char, l)
  BY <1>1, <1>3, <1>4 DEF IsBytes
<1>6. \A i \in 1 .. k : char[i] = q[i]
  BY <1>1, <1>3
<1> HIDE DEF l
<1>7. BrokenAt(char, 0, k)
  BY <1>6 DEF BrokenAt
<1>8. IsByte(char[0 + 1])
  <2>1. 1 \in 1 .. l /\ 0 + 1 = 1
    BY <1>1
  <2> QED BY <1>4, <2>1
<1>9. ~CharacterAt(char, 0, l)
  BY <1>1, <1>7, <1>8, BrokenStays
<1>10. ~Utf8!IsCharacter(char)
  BY <1>1, <1>5, <1>9, CharacterByBytes
<1> QED BY <1>10 DEF char

\* What is judged is what is said of texts.
LEMMA Meaning ==
  ASSUME NEW q, NEW n, IsBytes(q, n), NEW c, NEW ok, Judged(q, Utf8!Complete(q), n, c, ok)
  PROVE  Means(q, c, ok)
<1> DEFINE e == Utf8!Complete(q)
           k == n - e
           rest == SubSeq(q, e + 1, n)
<1>1. Len(q) = n /\ n \in Nat
  BY LengthIs DEF IsBytes
<1>2. e \in Nat /\ e <= n /\ k \in Nat /\ Judged(q, e, n, c, ok)
  BY <1>1 DEF Judged
<1>3. IsBytes(rest, k) /\ \A i \in 1 .. k : rest[i] = q[e + i]
  <2> HIDE DEF e
  <2> QED BY <1>1, <1>2, CutBytes
<1>4. Len(rest) = k
  <2> HIDE DEF k, rest
  <2> QED BY <1>2, <1>3, LengthIs DEF IsBytes
<1>5. Utf8!IsBeginningOfText(q) <=>
        \/ rest = <<>>
        \/ /\ k < 4
           /\ \A i \in 2 .. k : Utf8!IsContinuation(rest[i])
           /\ \E l \in 1 .. 4 - k : \E more \in [1 .. l -> {128, 143, 144, 159, 160, 191}] : Utf8!IsCharacter(rest \o more)
  <2>1. rest = SubSeq(q, Utf8!Complete(q) + 1, Len(q))
    BY <1>1
  <2> DEFINE TextStarts(r, l) ==
               \/ r = <<>>
               \/ /\ l < 4
                  /\ \A i \in 2 .. l : Utf8!IsContinuation(r[i])
                  /\ \E j \in 1 .. 4 - l :
                     \E more \in [1 .. j -> {128, 143, 144, 159, 160, 191}] : Utf8!IsCharacter(r \o more)
             all == SubSeq(q, Utf8!Complete(q) + 1, Len(q))
  <2>2. Utf8!IsBeginningOfText(q) = TextStarts(all, Len(all))
    BY DEF Utf8!IsBeginningOfText
  <2>3. all = rest /\ Len(all) = k
    BY <1>4, <2>1
  <2> HIDE DEF all, rest, k
  <2>4. TextStarts(all, Len(all)) <=> TextStarts(rest, k)
    <3> HIDE DEF TextStarts
    <3> QED BY <2>3, Zenon
  <2>5. Utf8!IsBeginningOfText(q) <=> TextStarts(rest, k)
    <3> HIDE DEF TextStarts
    <3> QED BY <2>2, <2>4, Zenon
  <2> QED BY <2>5, Zenon
<1>6. Utf8!IsText(q) <=> e = n
  BY <1>1, Zenon DEF Utf8!IsText
<1>7. e = n <=> k = 0
  BY <1>1, <1>2
<1>8. k = 0 <=> rest = <<>>
  <2> HIDE DEF k, rest
  <2>1. ASSUME k = 0 PROVE rest = <<>>
    <3>1. rest = [i \in 1 .. 0 |-> rest[i]]
      BY <1>3, <2>1 DEF IsBytes, IsSeq
    <3> QED BY <3>1
  <2>2. ASSUME rest = <<>> PROVE k = 0
    BY <1>4, <2>2
  <2> QED BY <2>1, <2>2
<1> HIDE DEF rest
<1>9. CASE ok /\ k = 0
  <2>1. c = Ready /\ Ready.start_byte = 255
    BY <1>2, <1>7, <1>9 DEF Judged, Ready, Utf8!InitChecker
  <2> QED BY <1>5, <1>6, <1>7, <1>8, <1>9, <2>1 DEF Means
<1>10. CASE ok /\ k # 0
  <2>1. BegunAt(q, e, k) /\ c.start_byte = q[e + 1]
    BY <1>2, <1>7, <1>10 DEF Judged
  <2>2. k \in 1 .. 3 /\ IsLead(q[e + 1])
    BY <2>1 DEF BegunAt
  <2>3. c.start_byte # 255
    BY <2>1, <2>2 DEF IsLead
  <2> HIDE DEF e, k
  <2>4. BegunAt(rest, 0, k)
    <3>1. rest[0 + 1] = q[e + 1] /\ (k >= 2 => rest[0 + 2] = q[e + 2]) /\ (k = 3 => rest[0 + 3] = q[e + 3])
      BY <1>3, <2>2
    <3> QED BY <2>1, <2>2, <3>1 DEF BegunAt
  <2>5. \A i \in 2 .. k : Utf8!IsContinuation(rest[i])
    <3>1. (k >= 2 => Utf8!IsContinuation(rest[2])) /\ (k = 3 => Utf8!IsContinuation(rest[3]))
      BY <2>4 DEF BegunAt, SecondOk
    <3>2. \A i \in 2 .. k : i = 2 \/ (i = 3 /\ k = 3)
      BY <2>2
    <3> QED BY <2>2, <3>1, <3>2
  <2>6. \E l \in 1 .. 4 - k : \E more \in [1 .. l -> {128, 143, 144, 159, 160, 191}] : Utf8!IsCharacter(rest \o more)
    BY <1>3, <2>2, <2>4, Completed
  <2>7. k < 4
    BY <2>2
  <2>8. Utf8!IsBeginningOfText(q)
    BY <1>5, <2>5, <2>6, <2>7, Zenon
  <2> QED BY <1>6, <1>7, <1>10, <2>3, <2>8 DEF Means
<1>11. CASE ~ok
  <2>1. BrokenAt(q, e, k) /\ k >= 1
    BY <1>2, <1>11 DEF Judged, BrokenAt
  <2> HIDE DEF e, k
  <2>2. BrokenAt(rest, 0, k)
    <3>1. /\ rest[0 + 1] = q[e + 1] /\ (k >= 2 => rest[0 + 2] = q[e + 2])
          /\ (k >= 3 => rest[0 + 3] = q[e + 3]) /\ (k >= 4 => rest[0 + 4] = q[e + 4])
      BY <1>2, <1>3, <2>1
    <3> QED BY <2>1, <3>1 DEF BrokenAt
  <2>3. ASSUME k < 4, NEW l \in 1 .. 4 - k, NEW more \in [1 .. l -> {128, 143, 144, 159, 160, 191}]
        PROVE  ~Utf8!IsCharacter(rest \o more)
    <3>1. k \in 1 .. 3
      BY <1>2, <2>1, <2>3
    <3> QED BY <1>3, <2>2, <2>3, <3>1, NotCompleted
  <2>4. k # 0
    BY <2>1
  <2>5. ~Utf8!IsBeginningOfText(q)
    BY <1>5, <1>8, <2>3, <2>4
  <2> QED BY <1>11, <2>5 DEF Means
<1> QED BY <1>9, <1>10, <1>11

\* What is known of sequences of octets
LEMMA BytesOf ==
  ASSUME NEW q \in Seq(Utf8!Octet)
  PROVE  IsBytes(q, Len(q))
<1>1. \A b \in Utf8!Octet : IsByte(b)
  BY DEF Utf8!Octet, IsByte
<1>2. Len(q) \in Nat /\ q = [i \in 1 .. Len(q) |-> q[i]] /\ \A i \in 1 .. Len(q) : q[i] \in Utf8!Octet
  OBVIOUS
<1> QED BY <1>1, <1>2 DEF IsBytes, IsSeq

\* What was said of a text is said of it as the beginning of a longer one.
LEMMA TextLonger ==
  ASSUME NEW q, NEW n, NEW c, TextBegins(q, n, c), NEW bytes, NEW k, IsBytes(bytes, k), NEW h, h = q \o bytes
  PROVE  Longer(h, n, bytes, k, c)
<1> IsBytes(q, n) /\ Judged(q, Utf8!Complete(q), n, c, TRUE)
  BY DEF TextBegins
<1>1. n \in Nat /\ k \in Nat /\ n + k \in Nat /\ n <= n + k /\ IsSeq(q, n) /\ IsSeq(bytes, k)
  BY DEF IsBytes
<1>2. IsJoined(h, q, bytes, n, k)
  BY <1>1, JoinedTo
<1>3. IsSeq(h, n + k) /\ \A i \in 1 .. n + k : h[i] = IF i <= n THEN q[i] ELSE bytes[i - n]
  BY <1>2 DEF IsJoined, IsSeq
<1>4. ASSUME NEW i \in 1 .. n PROVE h[i] = q[i]
  <2>1. i \in 1 .. n + k /\ i <= n
    BY <1>1
  <2> QED BY <1>3, <2>1, Zenon
<1>5. ASSUME NEW i \in 1 .. k PROVE bytes[i] = h[n + i]
  <2> DEFINE j == n + i
  <2>1. j \in 1 .. n + k /\ ~(j <= n) /\ j - n = i
    BY <1>1
  <2> HIDE DEF j
  <2>2. h[j] = IF j <= n THEN q[j] ELSE bytes[j - n]
    BY <1>3, <2>1, Zenon
  <2>3. h[j] = bytes[i]
    BY <2>1, <2>2
  <2> QED BY <2>3 DEF j
<1>6. ASSUME NEW i \in 1 .. n + k PROVE IsByte(h[i])
  <2>1. CASE i <= n
    <3>1. i \in 1 .. n
      BY <1>1, <2>1
    <3>2. h[i] = q[i] /\ IsByte(q[i])
      BY <1>4, <3>1, Zenon DEF IsBytes
    <3> QED BY <3>2, Zenon
  <2>2. CASE ~(i <= n)
    <3>1. i - n \in 1 .. k
      BY <1>1, <2>2
    <3> QED BY <1>3, <2>2, <3>1 DEF IsBytes
  <2> QED BY <2>1, <2>2
<1>7. IsBytes(h, n + k)
  BY <1>1, <1>3, <1>6 DEF IsBytes
<1>8. PICK g : Counts(g, q, n) /\ Utf8!Complete(q) = g[n]
  BY CompleteCounts
<1>9. PICK f : Counts(f, h, n + k) /\ Utf8!Complete(h) = f[n + k]
  <2> DEFINE m == n + k
  <2>1. IsBytes(h, m)
    BY <1>7
  <2> HIDE DEF m
  <2>2. \E f : Counts(f, h, m) /\ Utf8!Complete(h) = f[m]
    BY <2>1, CompleteCounts
  <2> QED BY <2>2 DEF m
<1>10. f[n] = g[n]
  <2> DEFINE m == n + k
  <2>1. IsBytes(h, m) /\ n <= m /\ Counts(f, h, m) /\ n \in 0 .. n
    BY <1>1, <1>7, <1>9
  <2> HIDE DEF m
  <2>2. \A i \in 0 .. n : f[i] = g[i] /\ g[i] <= i
    BY <1>4, <1>8, <2>1, CountsAgree
  <2> QED BY <2>1, <2>2
<1> DEFINE e == f[n]
<1>11. Judged(q, e, n, c, TRUE)
  BY <1>8, <1>10
<1> HIDE DEF e
<1>12. Judged(h, e, n, c, TRUE)
  <2>1. e \in 0 .. n /\ c \in Checkers
    BY <1>11 DEF Judged
  <2>2. CASE e = n
    BY <1>11, <2>1, <2>2 DEF Judged
  <2>3. CASE e # n
    <3>1. /\ BegunAt(q, e, n - e)
          /\ c = [start_byte |-> q[e + 1], length |-> Size(q[e + 1]), next_byte |-> n - e + 1]
      BY <1>11, <2>3 DEF Judged
    <3>2. /\ h[e + 1] = q[e + 1] /\ (n - e >= 2 => h[e + 2] = q[e + 2])
          /\ (n - e = 3 => h[e + 3] = q[e + 3])
      <4>1. /\ e + 1 \in 1 .. n /\ (n - e >= 2 => e + 2 \in 1 .. n)
            /\ (n - e = 3 => e + 3 \in 1 .. n)
        BY <1>1, <2>1, <2>3
      <4> QED BY <1>4, <4>1, Zenon
    <3>3. BegunAt(h, e, n - e)
      BY <3>1, <3>2 DEF BegunAt
    <3> QED BY <2>1, <2>3, <3>1, <3>2, <3>3 DEF Judged
  <2> QED BY <2>2, <2>3
<1>13. JudgedAt(h, f, n, [ok |-> TRUE, checker |-> c])
  <2>1. c \in Checkers
    BY <1>12 DEF Judged
  <2> QED BY <1>12, <2>1 DEF JudgedAt, Results, e
<1> QED BY <1>5, <1>7, <1>9, <1>13, Zenon DEF Longer

\* cjet_is_word_sequence_valid with one word
LEMMA OneWord ==
  ASSUME NEW c \in Checkers, NEW w, NEW k, IsBytes(w, k)
  PROVE  /\ Utf8!AreWordsValid(c, <<w>>) \in Results
         /\ Utf8!AreWordsValid(c, <<w>>) =
               IF Utf8!Skips(c, w) THEN [ok |-> TRUE, checker |-> c] ELSE Utf8!AreBytesValid(c, w)
<1> DEFINE words == <<w>>
<1>1. IsSeq(words, 1) /\ words[1] = w /\ \A i \in 1 .. 1 : words[i] = w
  BY DEF IsSeq
<1> HIDE DEF words
<1>2. \A i \in 1 .. 1 : IsBytes(words[i], k)
  BY <1>1
<1>3. PICK f : WordReadings(f, c, words, 1) /\ Utf8!AreWordsValid(c, words) = f[1]
  <2>1. 1 \in Nat
    OBVIOUS
  <2> QED BY <1>1, <1>2, <2>1, WordsRead
<1>4. f[0] = [ok |-> TRUE, checker |-> c] /\ f[1] \in Results
  BY <1>3 DEF WordReadings
<1>5. f[1] = IF ~f[0].ok \/ Utf8!Skips(f[0].checker, w) THEN f[0] ELSE Utf8!AreBytesValid(f[0].checker, w)
  <2>1. 1 \in 1 .. 1 /\ 1 - 1 = 0
    OBVIOUS
  <2>2. f[1] = IF ~f[1 - 1].ok \/ Utf8!Skips(f[1 - 1].checker, words[1]) THEN f[1 - 1]
               ELSE Utf8!AreBytesValid(f[1 - 1].checker, words[1])
    BY <1>3, <2>1, Zenon DEF WordReadings
  <2> QED BY <1>1, <2>1, <2>2, Zenon
<1>6. f[0].ok /\ f[0].checker = c
  BY <1>4
<1>7. f[1] = IF Utf8!Skips(c, w) THEN [ok |-> TRUE, checker |-> c] ELSE Utf8!AreBytesValid(c, w)
  BY <1>4, <1>5, <1>6, Zenon
<1> QED BY <1>3, <1>4, <1>7 DEF words

\* What holds again when something was fed
LEMMA FedKeeps ==
  ASSUME Utf8Inv, NEW bytes, NEW r \in Results, Utf8!Feed(bytes, r), Utf8!CanFeed, hidden' \in BOOLEAN,
         ~hidden' => /\ IsBytes(text', Len(text'))
                     /\ Judged(text', Utf8!Complete(text'), Len(text'), r.checker, r.ok)
  PROVE  Utf8Inv'
<1>1. /\ checker' = r.checker /\ valid' = r.ok /\ verdict' = verdict /\ verdict = "none"
      /\ r.checker \in Checkers /\ r.ok \in BOOLEAN
  BY DEF Utf8!Feed, Utf8!CanFeed, Results
<1>2. ~hidden' => (valid' <=> Utf8!IsBeginningOfText(text'))
  <2> SUFFICES ASSUME ~hidden' PROVE valid' <=> Utf8!IsBeginningOfText(text')
    OBVIOUS
  <2> DEFINE q == text'
             n == Len(q)
             ok == r.ok
             c == r.checker
  <2>1. IsBytes(q, n) /\ Judged(q, Utf8!Complete(q), n, c, ok)
    OBVIOUS
  <2> HIDE DEF q, n, ok, c
  <2>2. Means(q, c, ok)
    BY <2>1, Meaning, Zenon
  <2> QED BY <1>1, <2>2, Zenon DEF q, ok, Means
<1>3. ~hidden' => Judged(text', Utf8!Complete(text'), Len(text'), checker', valid')
  BY <1>1, Zenon
<1> QED BY <1>1, <1>2, <1>3, Zenon DEF Utf8Inv

\* What Feed finds: a text that is so far a beginning
LEMMA BeforeFeed ==
  ASSUME Utf8Inv, Utf8!CanFeed
  PROVE  TextBegins(text, Len(text), checker) /\ Len(text) \in Nat /\ checker \in Checkers
<1>1. valid = TRUE
  BY DEF Utf8!CanFeed, Utf8Inv
<1> QED BY <1>1, Zenon DEF Utf8!CanFeed, Utf8Inv, TextBegins, IsBytes

LEMMA FeedByteKeeps == HandshakeAssumption /\ Utf8Inv /\ Utf8!FeedByte => Utf8Inv'
<1> SUFFICES ASSUME HandshakeAssumption, Utf8Inv, Utf8!FeedByte PROVE Utf8Inv'
  OBVIOUS
<1>1. Utf8!CanFeed /\ hidden' = hidden /\ hidden \in BOOLEAN
  BY DEF Utf8!FeedByte, Utf8Inv
<1>2. PICK b \in Ends : Utf8!Feed(<<b>>, Utf8!AreBytesValid(checker, <<b>>))
  BY Zenon DEF Utf8!FeedByte
<1>3. b \in Utf8!Octet
  BY Zenon DEF HandshakeAssumption, Utf8!BytesAssumption
<1> DEFINE bytes == <<b>>
           n == Len(text)
           q == text
           c == checker
           h == text'
           r == Utf8!AreBytesValid(c, bytes)
<1>4. IsBytes(bytes, 1)
  <2>1. bytes \in Seq(Utf8!Octet) /\ Len(bytes) = 1
    BY <1>3
  <2> QED BY <2>1, BytesOf
<1>5. TextBegins(q, n, c) /\ n \in Nat /\ c \in Checkers
  BY <1>1, BeforeFeed
<1>6. Utf8!Feed(bytes, r) /\ h = q \o bytes
  BY <1>2 DEF Utf8!Feed
<1> HIDE DEF bytes, n, q, c, h
<1>7. /\ IsBytes(h, n + 1) /\ \A i \in 1 .. 1 : bytes[i] = h[n + i]
      /\ \E f : /\ Counts(f, h, n + 1) /\ Utf8!Complete(h) = f[n + 1]
                /\ JudgedAt(h, f, n, [ok |-> TRUE, checker |-> c])
  <2>1. Longer(h, n, bytes, 1, c)
    BY <1>4, <1>5, <1>6, TextLonger, Zenon
  <2> QED BY <2>1, Zenon DEF Longer
<1>8. PICK f : /\ Counts(f, h, n + 1) /\ Utf8!Complete(h) = f[n + 1]
               /\ JudgedAt(h, f, n, [ok |-> TRUE, checker |-> c])
  BY <1>7
<1>9. JudgedAt(h, f, n + 1, r)
  <2> DEFINE m == n + 1
  <2>1. IsBytes(h, m) /\ Counts(f, h, m) /\ n + 1 <= m
    BY <1>5, <1>7, <1>8
  <2> HIDE DEF m
  <2> QED BY <1>4, <1>5, <1>7, <1>8, <2>1, BytesJudged
<1> HIDE DEF r
<1>10. Len(h) = n + 1
  <2> DEFINE m == n + 1
  <2>1. IsSeq(h, m) /\ m \in Nat
    BY <1>5, <1>7 DEF IsBytes
  <2> HIDE DEF m
  <2>2. Len(h) = m
    BY <2>1, LengthIs
  <2> QED BY <2>2 DEF m
<1>11. r \in Results /\ IsBytes(h, Len(h)) /\ Judged(h, Utf8!Complete(h), Len(h), r.checker, r.ok)
  BY <1>7, <1>8, <1>9, <1>10, Zenon DEF JudgedAt
<1>12. hidden' \in BOOLEAN
  BY <1>1
<1> QED BY <1>1, <1>6, <1>11, <1>12, FedKeeps DEF h

LEMMA FeedWordKeeps == HandshakeAssumption /\ Utf8Inv /\ Utf8!FeedWord => Utf8Inv'
<1> SUFFICES ASSUME HandshakeAssumption, Utf8Inv, Utf8!FeedWord PROVE Utf8Inv'
  OBVIOUS
<1>1. Utf8!CanFeed
  BY DEF Utf8!FeedWord
<1>2. PICK w \in SampleWords :
        /\ Utf8!Feed(w, Utf8!AreWordsValid(checker, <<w>>))
        /\ hidden' = (Utf8!Skips(checker, w) /\ Utf8!Hides(w))
  BY Zenon DEF Utf8!FeedWord
<1>3. w \in Seq(Utf8!Octet) /\ Len(w) \in {4, 8}
  BY Zenon DEF HandshakeAssumption, Utf8!BytesAssumption
<1> DEFINE k == Len(w)
           n == Len(text)
           q == text
           c == checker
           h == text'
           r == Utf8!AreWordsValid(c, <<w>>)
           now == [ok |-> TRUE, checker |-> c]
<1>4. IsBytes(w, k) /\ k \in {4, 8} /\ k \in Nat
  BY <1>3, BytesOf
<1>5. TextBegins(q, n, c) /\ n \in Nat /\ c \in Checkers
  BY <1>1, BeforeFeed
<1>6. Utf8!Feed(w, r) /\ h = q \o w
  BY <1>2 DEF Utf8!Feed
<1>7. hidden' \in BOOLEAN /\ (~hidden' => (Utf8!Skips(c, w) => ~Utf8!Hides(w)))
  BY <1>2
<1> HIDE DEF k, n, q, c, h
<1>8. r \in Results /\ r = IF Utf8!Skips(c, w) THEN now ELSE Utf8!AreBytesValid(c, w)
  BY <1>4, <1>5, OneWord, Zenon
<1>9. /\ IsBytes(h, n + k) /\ \A i \in 1 .. k : w[i] = h[n + i]
      /\ \E f : /\ Counts(f, h, n + k) /\ Utf8!Complete(h) = f[n + k]
                /\ JudgedAt(h, f, n, now)
  <2>1. Longer(h, n, w, k, c)
    BY <1>4, <1>5, <1>6, TextLonger, Zenon
  <2> QED BY <2>1, Zenon DEF Longer, now
<1>10. PICK f : Counts(f, h, n + k) /\ Utf8!Complete(h) = f[n + k] /\ JudgedAt(h, f, n, now)
  BY <1>9
<1>11. now.ok /\ now.checker = c
  OBVIOUS
<1> HIDE DEF r, now
<1>12. ASSUME ~hidden' PROVE JudgedAt(h, f, n + k, r)
  <2> DEFINE m == n + k
  <2>1. IsBytes(h, m) /\ Counts(f, h, m) /\ n + k <= m
    BY <1>4, <1>5, <1>9, <1>10
  <2>2. Utf8!Skips(now.checker, w) => ~Utf8!Hides(w)
    BY <1>7, <1>11, <1>12, Zenon
  <2>3. r = IF ~now.ok \/ Utf8!Skips(now.checker, w) THEN now ELSE Utf8!AreBytesValid(now.checker, w)
    BY <1>8, <1>11, Zenon
  <2> HIDE DEF m
  <2> QED BY <1>4, <1>5, <1>9, <1>10, <1>11, <2>1, <2>2, <2>3, WordJudged, Zenon
<1>13. Len(h) = n + k
  <2> DEFINE m == n + k
  <2>1. IsSeq(h, m) /\ m \in Nat
    BY <1>4, <1>5, <1>9 DEF IsBytes
  <2> HIDE DEF m
  <2>2. Len(h) = m
    BY <2>1, LengthIs
  <2> QED BY <2>2 DEF m
<1>14. ASSUME ~hidden' PROVE IsBytes(h, Len(h)) /\ Judged(h, Utf8!Complete(h), Len(h), r.checker, r.ok)
  BY <1>9, <1>10, <1>12, <1>13, <1>14, Zenon DEF JudgedAt
<1> QED BY <1>1, <1>6, <1>7, <1>8, <1>14, FedKeeps DEF h

LEMMA FeedAlignedKeeps == HandshakeAssumption /\ Utf8Inv /\ Utf8!FeedAligned => Utf8Inv'
<1> SUFFICES ASSUME HandshakeAssumption, Utf8Inv, Utf8!FeedAligned PROVE Utf8Inv'
  OBVIOUS
<1>1. Utf8!CanFeed /\ text = <<>>
  BY DEF Utf8!FeedAligned
<1>2. PICK bytes \in SampleTexts, offset \in 0 .. 7 :
        /\ Utf8!Feed(bytes, Utf8!IsAlignedValid(checker, bytes, offset))
        /\ hidden' = \E i \in DOMAIN Utf8!Aligned(bytes, offset).words : Utf8!Hides(Utf8!Aligned(bytes, offset).words[i])
  BY Zenon DEF Utf8!FeedAligned
<1>3. bytes \in Seq(Utf8!Octet) /\ Len(bytes) >= 8
  BY Zenon DEF HandshakeAssumption, Utf8!BytesAssumption
<1> DEFINE m == Len(bytes)
           r == Utf8!IsAlignedValid(Ready, bytes, offset)
<1>4. IsBytes(bytes, m) /\ m \in Nat /\ m >= 8
  BY <1>3, BytesOf
<1>5. checker = Ready
  <2>1. Judged(text, Utf8!Complete(text), Len(text), checker, TRUE) /\ Len(text) = 0
    BY <1>1, BeforeFeed DEF TextBegins
  <2>2. Utf8!Complete(text) = 0
    BY <2>1 DEF Judged
  <2> QED BY <2>1, <2>2 DEF Judged
<1>6. text' = bytes
  <2>1. bytes = [i \in 1 .. Len(bytes) |-> bytes[i]]
    BY <1>3
  <2>2. text' = <<>> \o bytes
    BY <1>1, <1>2 DEF Utf8!Feed
  <2> QED BY <1>3, <2>2
<1>7. Utf8!Feed(bytes, r)
  BY <1>2, <1>5, Zenon
<1> HIDE DEF m
<1>8. PICK f : Counts(f, bytes, m) /\ Utf8!Complete(bytes) = f[m]
  BY <1>4, CompleteCounts
<1>9. /\ r \in Results
      /\ (\A i \in DOMAIN Utf8!Aligned(bytes, offset).words : ~Utf8!Hides(Utf8!Aligned(bytes, offset).words[i]))
            => JudgedAt(bytes, f, m, r)
  BY <1>4, <1>8, AlignedJudged
<1> HIDE DEF r
<1>10. hidden' \in BOOLEAN /\ (~hidden' => JudgedAt(bytes, f, m, r))
  BY <1>2, <1>9
<1>11. ASSUME ~hidden' PROVE IsBytes(text', Len(text')) /\ Judged(text', Utf8!Complete(text'), Len(text'), r.checker, r.ok)
  <2>1. IsBytes(bytes, Len(bytes)) /\ Judged(bytes, Utf8!Complete(bytes), Len(bytes), r.checker, r.ok)
    BY <1>4, <1>8, <1>10, <1>11, Zenon DEF JudgedAt, m
  <2> QED BY <1>6, <2>1, Zenon
<1> QED BY <1>1, <1>7, <1>9, <1>10, <1>11, FedKeeps

LEMMA Utf8FinishKeeps == Utf8Inv /\ Utf8!Finish => Utf8Inv'
<1> SUFFICES ASSUME Utf8Inv, Utf8!Finish PROVE Utf8Inv'
  OBVIOUS
<1>1. /\ valid /\ ~hidden /\ verdict = "none" /\ text' = text /\ valid' = valid /\ hidden' = hidden
      /\ checker' \in {checker, Ready} /\ verdict' = IF checker.start_byte = 255 THEN "text" ELSE "incomplete"
  BY DEF Utf8!Finish, Utf8!CanFeed, Ready
<1>2. IsBytes(text, Len(text)) /\ Judged(text, Utf8!Complete(text), Len(text), checker, TRUE) /\ checker \in Checkers
  BY BeforeFeed DEF Utf8!Finish, TextBegins
<1>3. checker.start_byte = 255 <=> Utf8!IsText(text)
  <2> DEFINE n == Len(text)
             ok == TRUE
  <2>1. IsBytes(text, n) /\ Judged(text, Utf8!Complete(text), n, checker, ok)
    BY <1>2
  <2> HIDE DEF n, ok
  <2>2. Means(text, checker, ok)
    BY <2>1, Meaning, Zenon
  <2> QED BY <2>2, Zenon DEF ok, Means
<1>4. verdict' # "none" /\ verdict' \in {"none", "text", "incomplete"} /\ (verdict' = "text" <=> Utf8!IsText(text))
  BY <1>1, <1>3
<1>5. checker' \in Checkers
  BY <1>1, <1>2 DEF Checkers
<1>6. valid \in BOOLEAN /\ hidden \in BOOLEAN /\ (valid <=> Utf8!IsBeginningOfText(text))
  BY <1>1 DEF Utf8Inv
<1>7. Utf8!IsText(text') = Utf8!IsText(text) /\ Utf8!IsBeginningOfText(text') = Utf8!IsBeginningOfText(text)
  BY <1>1, Zenon
<1>8. IsBytes(text', Len(text'))
  BY <1>1, <1>2, Zenon
<1> QED BY <1>1, <1>4, <1>5, <1>6, <1>7, <1>8, Zenon DEF Utf8Inv

LEMMA Utf8Init == Utf8!Init => Utf8Inv
<1> SUFFICES ASSUME Utf8!Init PROVE Utf8Inv
  OBVIOUS
<1>1. checker = Ready /\ text = <<>> /\ valid = TRUE /\ verdict = "none" /\ hidden = FALSE
  BY DEF Utf8!Init, Ready
<1>2. IsBytes(text, Len(text)) /\ Len(text) = 0
  <2>1. text \in Seq(Utf8!Octet) /\ Len(text) = 0
    BY <1>1
  <2> QED BY <2>1, BytesOf
<1>3. Judged(text, Utf8!Complete(text), Len(text), checker, valid)
  <2>1. PICK f : Counts(f, text, 0) /\ Utf8!Complete(text) = f[0]
    BY <1>2, CompleteCounts
  <2>2. Utf8!Complete(text) = 0
    BY <2>1 DEF Counts
  <2>3. checker \in Checkers /\ 0 \in 0 .. 0
    BY <1>1 DEF Checkers
  <2> QED BY <1>1, <1>2, <2>2, <2>3 DEF Judged
<1>4. valid <=> Utf8!IsBeginningOfText(text)
  <2> DEFINE n == Len(text)
  <2>1. IsBytes(text, n) /\ Judged(text, Utf8!Complete(text), n, checker, valid)
    BY <1>2, <1>3
  <2> HIDE DEF n
  <2>2. Means(text, checker, valid)
    BY <2>1, Meaning, Zenon
  <2> QED BY <2>2, Zenon DEF Means
<1>5. checker \in Checkers
  BY <1>1 DEF Checkers
<1>6. valid \in BOOLEAN /\ hidden \in BOOLEAN /\ verdict \in {"none", "text", "incomplete"}
  BY <1>1
<1> QED BY <1>1, <1>2, <1>3, <1>4, <1>5, <1>6, Zenon DEF Utf8Inv

\* Every step of the checker keeps its invariant.
LEMMA Utf8Step == HandshakeAssumption /\ Utf8Inv /\ [Utf8!Next]_(Utf8!vars) => Utf8Inv'
<1> SUFFICES ASSUME HandshakeAssumption, Utf8Inv, [Utf8!Next]_(Utf8!vars) PROVE Utf8Inv'
  OBVIOUS
<1>1. CASE Utf8!Next
  BY <1>1, FeedByteKeeps, FeedWordKeeps, FeedAlignedKeeps, Utf8FinishKeeps DEF Utf8!Next
<1>2. CASE UNCHANGED Utf8!vars
  <2>1. checker' = checker /\ text' = text /\ valid' = valid /\ verdict' = verdict /\ hidden' = hidden
    BY <1>2 DEF Utf8!vars
  <2> QED BY <2>1, Zenon DEF Utf8Inv
<1> QED BY <1>1, <1>2

LEMMA Utf8Implied == Utf8Inv => Utf8!TellsText
<1> SUFFICES ASSUME Utf8Inv PROVE Utf8!TellsText
  OBVIOUS
<1>1. checker \in [start_byte : Utf8!Octet, length : 1 .. 4, next_byte : 1 .. 4]
  <2>1. CASE checker = Ready
    BY <2>1 DEF Ready, Utf8!InitChecker, Utf8!Octet
  <2>2. CASE checker # Ready
    <3>1. checker \in [start_byte : Nat, length : 2 .. 4, next_byte : 2 .. 4] /\ IsLead(checker.start_byte)
      BY <2>2 DEF Utf8Inv, Checkers
    <3>2. checker.start_byte \in Utf8!Octet /\ checker.length \in 1 .. 4 /\ checker.next_byte \in 1 .. 4
      BY <3>1 DEF IsLead, Utf8!Octet
    <3> QED BY <3>1, <3>2
  <2> QED BY <2>1, <2>2
<1>2. Utf8!TypeOK
  BY <1>1 DEF Utf8!TypeOK, Utf8Inv
<1>3. ASSUME ~hidden PROVE valid = Utf8!IsBeginningOfText(text)
  <2>1. valid <=> Utf8!IsBeginningOfText(text)
    BY <1>3 DEF Utf8Inv
  <2>2. valid \in BOOLEAN /\ Utf8!IsBeginningOfText(text) \in BOOLEAN
    BY DEF Utf8Inv, Utf8!IsBeginningOfText
  <2> QED BY <2>1, <2>2
<1>4. ASSUME ~hidden, verdict # "none" PROVE (verdict = "text") = Utf8!IsText(text)
  <2>1. verdict = "text" <=> Utf8!IsText(text)
    BY <1>4 DEF Utf8Inv
  <2>2. Utf8!IsText(text) \in BOOLEAN
    BY DEF Utf8!IsText
  <2> QED BY <2>1, <2>2
<1> QED BY <1>2, <1>3, <1>4 DEF Utf8!TellsText

-----------------------------------------------------------------------------
(* Extension *)

\* The names that are known, and what an answer may say of them
ExtensionNames == Extension!Windows \cup Extension!Takeovers
Parameters == [name : ExtensionNames, value : Nat]

\* write_to_response writes a number of bytes.
LEMMA WrittenCounted ==
  ASSUME NEW q \in Parameters PROVE Extension!Written(q) \in Nat
BY DEF Parameters, Extension!Written, Extension!NameLength

\* The bytes of an answer are added up parameter by parameter.
ByteCounts(r, counts) ==
    /\ counts \in [0 .. Len(r) -> Nat]
    /\ counts[0] = 18
    /\ \A n \in 1 .. Len(r) : counts[n] = counts[n - 1] + Extension!Written(r[n])
    /\ Extension!ResponseLength(r) = counts[Len(r)]

\* The sums that ResponseLength computes exist.
LEMMA ByteCountsExist ==
  ASSUME NEW r \in Seq(Parameters)
  PROVE  \E counts : ByteCounts(r, counts)
<1> DEFINE last == Len(r)
           adding == [n \in 1 .. last |-> [x \in Nat |-> x + Extension!Written(r[n])]]
           Is(f) == f = [n \in 0 .. last |-> IF n = 0 THEN 18 ELSE f[n - 1] + Extension!Written(r[n])]
<1>1. last \in Nat /\ \A n \in 1 .. last : Extension!Written(r[n]) \in Nat
  BY WrittenCounted
<1>2. \E f : Follows(f, 18, adding, last, Nat)
  <2>1. Steps(adding, last, Nat)
    BY <1>1 DEF Steps
  <2>2. 18 \in Nat
    OBVIOUS
  <2> HIDE DEF adding, last
  <2> QED BY <1>1, <2>1, <2>2, Recursion, Zenon
<1>3. \E f : Is(f)
  <2> PICK f : Follows(f, 18, adding, last, Nat)
    BY <1>2
  <2>1. ASSUME NEW n \in 1 .. last PROVE f[n] = f[n - 1] + Extension!Written(r[n])
    <3>1. n - 1 \in 0 .. last
      BY <1>1
    <3> QED BY <3>1 DEF Follows
  <2>2. \A n \in 0 .. last : n # 0 => n \in 1 .. last
    BY <1>1
  <2>3. \A n \in 0 .. last : f[n] = IF n = 0 THEN 18 ELSE f[n - 1] + Extension!Written(r[n])
    BY <2>1, <2>2 DEF Follows
  <2>4. f = [n \in 0 .. last |-> f[n]]
    BY DEF Follows
  <2>5. Is(f)
    BY <2>3, <2>4
  <2> QED BY <2>5
<1> DEFINE counts == CHOOSE f : Is(f)
<1>4. Is(counts)
  BY <1>3
<1>5. Extension!ResponseLength(r) = counts[last]
  BY DEF Extension!ResponseLength
<1> HIDE DEF counts
<1>6. counts[0] = 18 /\ \A n \in 1 .. last : counts[n] = counts[n - 1] + Extension!Written(r[n])
  <2>1. \A n \in 0 .. last : counts[n] = IF n = 0 THEN 18 ELSE counts[n - 1] + Extension!Written(r[n])
    BY <1>4
  <2> QED BY <1>1, <2>1
<1>7. \A n \in 0 .. last : counts[n] \in Nat
  <2> DEFINE good == {n \in 0 .. last : counts[n] \in Nat}
  <2>1. 0 \in good /\ \A n \in 0 .. last : n \in good /\ n < last => n + 1 \in good
    <3>1. 0 \in good
      BY <1>1, <1>6
    <3>2. ASSUME NEW n \in 0 .. last, n \in good, n < last PROVE n + 1 \in good
      <4>1. n + 1 \in 1 .. last /\ n + 1 - 1 = n /\ n + 1 \in 0 .. last
        BY <1>1, <3>2
      <4> QED BY <1>1, <1>6, <3>2, <4>1
    <3> QED BY <3>1, <3>2
  <2> HIDE DEF good
  <2>2. \A n \in 0 .. last : n \in good
    BY <1>1, <2>1, StepByStep
  <2> QED BY <2>2 DEF good
<1> QED BY <1>4, <1>5, <1>6, <1>7 DEF ByteCounts

\* ResponseLength of no parameters, and of one more
LEMMA LengthGrows ==
  ASSUME NEW r \in Seq(Parameters), NEW q \in Parameters
  PROVE  /\ Extension!ResponseLength(<<>>) = 18
         /\ Extension!ResponseLength(r) \in Nat
         /\ Extension!ResponseLength(Append(r, q)) = Extension!ResponseLength(r) + Extension!Written(q)
<1> DEFINE longer == Append(r, q)
           n == Len(r)
<1>1. /\ longer \in Seq(Parameters) /\ Len(longer) = n + 1 /\ longer[n + 1] = q /\ n \in Nat
      /\ \A i \in 1 .. n : longer[i] = r[i]
  OBVIOUS
<1> PICK old : ByteCounts(r, old)
  BY ByteCountsExist
<1> PICK new : ByteCounts(longer, new)
  BY <1>1, ByteCountsExist
<1>2. \A i \in 0 .. n : new[i] = old[i]
  <2> DEFINE same == {i \in 0 .. n : new[i] = old[i]}
  <2>1. 0 \in same
    BY <1>1 DEF ByteCounts
  <2>2. ASSUME NEW i \in 0 .. n, i \in same, i < n PROVE i + 1 \in same
    <3>1. i + 1 \in 1 .. n /\ i + 1 \in 1 .. n + 1 /\ i + 1 - 1 = i
      BY <1>1, <2>2
    <3>2. new[i + 1] = new[i] + Extension!Written(longer[i + 1]) /\ old[i + 1] = old[i] + Extension!Written(r[i + 1])
      <4> HIDE DEF longer
      <4> QED BY <1>1, <3>1 DEF ByteCounts
    <3> HIDE DEF longer
    <3> QED BY <1>1, <2>2, <3>1, <3>2
  <2> HIDE DEF same
  <2>3. \A i \in 0 .. n : i \in same
    BY <1>1, <2>1, <2>2, StepByStep
  <2> QED BY <2>3 DEF same
<1>3. new[n + 1] = new[n] + Extension!Written(q)
  <2> HIDE DEF longer
  <2>1. n + 1 \in 1 .. Len(longer) /\ n + 1 - 1 = n
    BY <1>1
  <2>2. \A i \in 1 .. Len(longer) : new[i] = new[i - 1] + Extension!Written(longer[i])
    BY DEF ByteCounts
  <2> DEFINE last == n + 1
  <2>3. new[last] = new[last - 1] + Extension!Written(longer[last])
    <3>1. last \in 1 .. Len(longer)
      BY <2>1
    <3> HIDE DEF last
    <3> QED BY <2>2, <3>1
  <2>4. longer[last] = q /\ last - 1 = n
    BY <1>1, <2>1
  <2> HIDE DEF n
  <2> QED BY <2>3, <2>4
<1>4. Extension!ResponseLength(<<>>) = 18
  <2>1. <<>> \in Seq(Parameters) /\ Len(<<>>) = 0
    OBVIOUS
  <2> PICK none : ByteCounts(<<>>, none)
    BY <2>1, ByteCountsExist
  <2> QED BY <2>1 DEF ByteCounts
<1>5. Extension!ResponseLength(longer) = new[n + 1] /\ Extension!ResponseLength(r) = old[n] /\ old[n] \in Nat
  <2> HIDE DEF longer
  <2> QED BY <1>1 DEF ByteCounts
<1>6. new[n] = old[n]
  BY <1>1, <1>2
<1> QED BY <1>3, <1>4, <1>5, <1>6

\* The bytes of a parameter, and of an answer that tells of the parameters S
Part(name, S, e) == IF name \in S THEN Extension!Written(Extension!Answered(name, e)) ELSE 0
Bytes(S, e) ==
    18 + Part(Extension!ClientWindow, S, e) + Part(Extension!ServerWindow, S, e)
       + Part(Extension!ClientTakeover, S, e) + Part(Extension!ServerTakeover, S, e)

\* The parameters are such as zlib takes: no window of 8 for deflate.
ParametersOK(e) ==
    /\ e = [name \in ExtensionNames |-> e[name]]
    /\ e[Extension!ClientWindow] \in 8 .. 15 /\ e[Extension!ServerWindow] \in 9 .. 15
    /\ \A name \in Extension!Takeovers : e[name] \in BOOLEAN

\* The answer r tells of the parameters S, of each once, as e has them.
Tells(r, S, e) ==
    /\ r \in Seq(Parameters)
    /\ S \subseteq ExtensionNames
    /\ {r[i].name : i \in 1 .. Len(r)} = S
    /\ \A i, j \in 1 .. Len(r) : r[i].name = r[j].name => i = j
    /\ \A i \in 1 .. Len(r) : r[i] = Extension!Answered(r[i].name, e)
    /\ Extension!ResponseLength(r) = Bytes(S, e)

\* What the answer says of a parameter is well formed.
LEMMA AnsweredTyped ==
  ASSUME NEW e, ParametersOK(e), NEW name \in ExtensionNames
  PROVE  /\ Extension!Answered(name, e) \in Parameters /\ Extension!Answered(name, e).name = name
         /\ Extension!Answered(name, e).value \in 0 .. 15
BY DEF ParametersOK, Extension!Answered, Extension!Parameter, Parameters, ExtensionNames, Extension!Windows, Extension!Takeovers

\* All four parameters fit into the response.
LEMMA BytesFit ==
  ASSUME NEW e, ParametersOK(e), NEW S
  PROVE  Bytes(S, e) \in Nat /\ Bytes(S, e) < Extension!ResponseMaxLength
<1>1. \A name \in Extension!Windows : Extension!Written(Extension!Answered(name, e)) \in 0 .. 27
  <2> SUFFICES ASSUME NEW name \in Extension!Windows PROVE Extension!Written(Extension!Answered(name, e)) \in 0 .. 27
    OBVIOUS
  <2>1. Extension!Answered(name, e).name = name /\ Extension!Answered(name, e).value \in 0 .. 15
    BY AnsweredTyped DEF ExtensionNames
  <2> HIDE DEF Extension!Answered
  <2> QED BY <2>1 DEF Extension!Written, Extension!NameLength
<1>2. \A name \in Extension!Takeovers : Extension!Written(Extension!Answered(name, e)) = 28
  BY DEF Extension!Written, Extension!NameLength, Extension!Answered, Extension!Parameter, Extension!Takeovers, Extension!Windows, Extension!ClientWindow, Extension!ServerWindow,
         Extension!ClientTakeover, Extension!ServerTakeover
<1>3. /\ Part(Extension!ClientWindow, S, e) \in 0 .. 27 /\ Part(Extension!ServerWindow, S, e) \in 0 .. 27
      /\ Part(Extension!ClientTakeover, S, e) \in 0 .. 28 /\ Part(Extension!ServerTakeover, S, e) \in 0 .. 28
  BY <1>1, <1>2 DEF Part, Extension!Windows, Extension!Takeovers
<1> DEFINE a == Part(Extension!ClientWindow, S, e)
           b == Part(Extension!ServerWindow, S, e)
           c == Part(Extension!ClientTakeover, S, e)
           d == Part(Extension!ServerTakeover, S, e)
<1>4. Bytes(S, e) = 18 + a + b + c + d
  BY DEF Bytes
<1>5. a \in 0 .. 27 /\ b \in 0 .. 27 /\ c \in 0 .. 28 /\ d \in 0 .. 28
  BY <1>3
<1> HIDE DEF a, b, c, d
<1>6. 18 + a + b + c + d \in Nat /\ 18 + a + b + c + d < 129
  BY <1>5
<1>7. Extension!ResponseMaxLength = 129
  BY DEF Extension!ResponseMaxLength
<1> QED BY <1>4, <1>6, <1>7

\* An answer tells of one parameter more, and is as much longer.
LEMMA TellsMore ==
  ASSUME NEW r, NEW S, NEW e, Tells(r, S, e), NEW name \in ExtensionNames \ S,
         NEW f, ParametersOK(f), \A n \in S : f[n] = e[n]
  PROVE  Tells(Append(r, Extension!Answered(name, f)), S \cup {name}, f)
<1> DEFINE q == Extension!Answered(name, f)
           longer == Append(r, q)
           n == Len(r)
<1>1. q \in Parameters /\ q.name = name
  BY AnsweredTyped
<1> HIDE DEF q
<1>2. r \in Seq(Parameters) /\ n \in Nat
  BY DEF Tells
<1>3. /\ longer \in Seq(Parameters) /\ Len(longer) = n + 1 /\ longer[n + 1] = q
      /\ \A i \in 1 .. n : longer[i] = r[i]
  BY <1>1, <1>2
<1>4. Extension!ResponseLength(longer) = Extension!ResponseLength(r) + Extension!Written(q)
  BY <1>1, <1>2, LengthGrows
<1> HIDE DEF longer
<1>5. {longer[i].name : i \in 1 .. Len(longer)} = S \cup {name}
  <2>1. ASSUME NEW i \in 1 .. Len(longer) PROVE longer[i].name \in S \cup {name}
    <3>1. i = n + 1 \/ i \in 1 .. n
      BY <1>2, <1>3
    <3> QED BY <1>1, <1>3, <3>1 DEF Tells
  <2>2. ASSUME NEW m \in S PROVE \E i \in 1 .. Len(longer) : longer[i].name = m
    <3> PICK i \in 1 .. n : r[i].name = m
      BY DEF Tells
    <3>1. i \in 1 .. Len(longer)
      BY <1>2, <1>3
    <3> QED BY <1>3, <3>1
  <2>3. n + 1 \in 1 .. Len(longer) /\ longer[n + 1].name = name
    BY <1>1, <1>2, <1>3
  <2> QED BY <2>1, <2>2, <2>3
<1>6. ASSUME NEW i \in 1 .. Len(longer), NEW j \in 1 .. Len(longer), longer[i].name = longer[j].name PROVE i = j
  <2>1. \A k \in 1 .. n : longer[k].name \in S
    BY <1>3 DEF Tells
  <2>2. (i = n + 1 \/ i \in 1 .. n) /\ (j = n + 1 \/ j \in 1 .. n)
    BY <1>2, <1>3
  <2> QED BY <1>1, <1>3, <1>6, <2>1, <2>2 DEF Tells
<1>7. ASSUME NEW i \in 1 .. Len(longer) PROVE longer[i] = Extension!Answered(longer[i].name, f)
  <2>1. CASE i = n + 1
    BY <1>1, <1>3, <2>1 DEF q
  <2>2. CASE i # n + 1
    <3>1. i \in 1 .. n /\ longer[i] = r[i] /\ r[i].name \in S /\ r[i] = Extension!Answered(r[i].name, e)
      BY <1>2, <1>3, <2>2 DEF Tells
    <3>2. f[r[i].name] = e[r[i].name]
      BY <3>1
    <3> QED BY <3>1, <3>2 DEF Extension!Answered
  <2> QED BY <2>1, <2>2
<1>8. Bytes(S \cup {name}, f) = Bytes(S, e) + Extension!Written(q)
  <2>1. \A m \in S : Extension!Answered(m, f) = Extension!Answered(m, e)
    BY DEF Extension!Answered
  <2>2. \A m \in ExtensionNames \ {name} : Part(m, S \cup {name}, f) = Part(m, S, e)
    BY <2>1 DEF Part
  <2>3. Part(name, S \cup {name}, f) = Extension!Written(q) /\ Part(name, S, e) = 0
    BY DEF Part, q
  <2>4. \A m \in ExtensionNames : Part(m, S, e) \in Nat
    <3> SUFFICES ASSUME NEW m \in ExtensionNames PROVE Part(m, S, e) \in Nat
      OBVIOUS
    <3>1. CASE m \in S
      <4>1. Extension!Answered(m, f) \in Parameters
        BY AnsweredTyped
      <4> QED BY <2>1, <3>1, <4>1, WrittenCounted DEF Part
    <3>2. CASE m \notin S
      BY <3>2 DEF Part
    <3> QED BY <3>1, <3>2
  <2>5. Extension!Written(q) \in Nat
    BY <1>1, WrittenCounted
  <2>6. name \in {Extension!ClientWindow, Extension!ServerWindow, Extension!ClientTakeover, Extension!ServerTakeover}
    BY DEF ExtensionNames, Extension!Windows, Extension!Takeovers
  <2>7. /\ Extension!ClientWindow \in ExtensionNames /\ Extension!ServerWindow \in ExtensionNames /\ Extension!ClientTakeover \in ExtensionNames
        /\ Extension!ServerTakeover \in ExtensionNames
        /\ Extension!ClientWindow # Extension!ServerWindow /\ Extension!ClientWindow # Extension!ClientTakeover /\ Extension!ClientWindow # Extension!ServerTakeover
        /\ Extension!ServerWindow # Extension!ClientTakeover /\ Extension!ServerWindow # Extension!ServerTakeover
        /\ Extension!ClientTakeover # Extension!ServerTakeover
    BY DEF ExtensionNames, Extension!Windows, Extension!Takeovers, Extension!ClientWindow, Extension!ServerWindow, Extension!ClientTakeover, Extension!ServerTakeover
  <2> HIDE DEF q
  <2> QED BY <2>2, <2>3, <2>4, <2>5, <2>6, <2>7 DEF Bytes
<1>9. S \cup {name} \subseteq ExtensionNames
  BY DEF Tells
<1> QED BY <1>3, <1>4, <1>5, <1>6, <1>7, <1>8, <1>9 DEF Tells, longer, q

-----------------------------------------------------------------------------
\* No window that was offered is exceeded.
Kept(e) ==
    \A q \in offered :
        IF q.name \in Extension!Windows THEN q.value # 0 => e[q.name] <= q.value ELSE e[q.name]

\* While an offer is judged, the answer tells of what was offered so far, as the
\* connection has it; what a refused offer changed stays in range.
ExtensionInv ==
    /\ ParametersOK(extension)
    /\ offered \subseteq Parameters
    /\ judged \in {"nothing", "offer", "accepted"}
    /\ judged # "accepted" => Tells(response, Extension!NamesIn(offered), extension) /\ Kept(extension)
    /\ judged = "accepted" => Extension!AnswerMatchesStreams

\* An answer without parameters tells of none.
LEMMA TellsNothing ==
  ASSUME NEW e PROVE Tells(<<>>, {}, e)
<1>1. Extension!ResponseLength(<<>>) = 18
  <2>1. <<>> \in Seq(Parameters) /\ Extension!Parameter(Extension!ClientTakeover, 0) \in Parameters
    BY DEF Extension!Parameter, Parameters, ExtensionNames, Extension!Windows, Extension!Takeovers
  <2> QED BY <2>1, LengthGrows
<1> QED BY <1>1 DEF Tells, Bytes, Part

\* The levels of websocket_init are parameters in range.
LEMMA ExtensionInit == Extension!Init => ExtensionInv
<1> SUFFICES ASSUME Extension!Init PROVE ExtensionInv
  OBVIOUS
<1>1. ParametersOK(extension)
  <2> PICK level \in Levels : extension = Extension!Defaults(level)
    BY DEF Extension!Init
  <2> DEFINE All(client, server, takeover) ==
                [name \in ExtensionNames |-> CASE name = Extension!ClientWindow -> client
                                     [] name = Extension!ServerWindow -> server
                                     [] OTHER -> takeover]
  <2>1. \/ extension = All(8, 9, TRUE)
        \/ extension = All(12, 12, FALSE)
        \/ extension = All(15, 15, FALSE)
    BY DEF Extension!Defaults, ExtensionNames
  <2>2. ParametersOK(All(8, 9, TRUE)) /\ ParametersOK(All(12, 12, FALSE))
    BY DEF ParametersOK, ExtensionNames, Extension!Windows, Extension!Takeovers, Extension!ClientWindow, Extension!ServerWindow,
           Extension!ClientTakeover, Extension!ServerTakeover
  <2>3. ParametersOK(All(15, 15, FALSE))
    BY DEF ParametersOK, ExtensionNames, Extension!Windows, Extension!Takeovers, Extension!ClientWindow, Extension!ServerWindow,
           Extension!ClientTakeover, Extension!ServerTakeover
  <2> HIDE DEF All
  <2> QED BY <2>1, <2>2, <2>3
<1>2. response = <<>> /\ judged = "nothing" /\ offered = {} /\ Extension!NamesIn(offered) = {}
  BY DEF Extension!Init, Extension!NamesIn
<1> QED BY <1>1, <1>2, TellsNothing DEF ExtensionInv, Kept

\* A new offer begins a new answer.
LEMMA OfferKeeps == ExtensionInv /\ Extension!Offer => ExtensionInv'
<1> SUFFICES ASSUME ExtensionInv, Extension!Offer PROVE ExtensionInv'
  OBVIOUS
<1>1. /\ response' = <<>> /\ judged' = "offer" /\ offered' = {} /\ extension' = extension
      /\ Extension!NamesIn(offered') = {}
  BY DEF Extension!Offer, Extension!NamesIn
<1>2. Tells(response', Extension!NamesIn(offered'), extension')
  BY <1>1, TellsNothing
<1>3. ParametersOK(extension') /\ Kept(extension)'
  BY <1>1 DEF ExtensionInv, Kept
<1> QED BY <1>1, <1>2, <1>3 DEF ExtensionInv

\* A parameter is refused, or it is agreed on and told.
LEMMA ParameterKeeps ==
  ASSUME ExtensionInv, NEW name \in ExtensionNames \cup {"other"}, NEW number \in Values,
         Extension!OfferedParameter(name, number)
  PROVE  ExtensionInv'
<1>0. judged = "offer" /\ Tells(response, Extension!NamesIn(offered), extension) /\ Kept(extension)
      /\ ParametersOK(extension) /\ offered \subseteq Parameters
  BY DEF ExtensionInv, Extension!OfferedParameter
<1>1. CASE ~Extension!Legal(name, number) \/ Extension!IsIn(name, offered)
  <2>1. UNCHANGED <<extension, response, offered>> /\ judged' = "nothing"
    BY <1>1 DEF Extension!OfferedParameter, Extension!Refuse
  <2> QED BY <1>0, <2>1 DEF ExtensionInv, Kept
<1>2. CASE Extension!Legal(name, number) /\ ~Extension!IsIn(name, offered)
  <2>1. /\ extension' = [extension EXCEPT ![name] = Extension!Agreed(name, number)]
        /\ response' = Append(response, Extension!Answered(name, extension'))
        /\ offered' = offered \cup {Extension!Parameter(name, number)}
        /\ judged' = "offer"
    BY <1>0, <1>2 DEF Extension!OfferedParameter
  <2>2. name \in ExtensionNames /\ number \in Nat
    <3>1. name # "other"
      BY <1>2 DEF Extension!Legal, ExtensionNames, Extension!Windows, Extension!Takeovers, Extension!ClientWindow, Extension!ServerWindow, Extension!ClientTakeover,
                  Extension!ServerTakeover
    <3> QED BY <3>1, HandshakeAssumption DEF Extension!ValuesAssumption
  <2>3. name \notin Extension!NamesIn(offered) /\ Extension!NamesIn(offered') = Extension!NamesIn(offered) \cup {name}
    <3>1. name \notin Extension!NamesIn(offered)
      BY <1>2 DEF Extension!IsIn
    <3>2. Extension!Parameter(name, number).name = name
      BY DEF Extension!Parameter
    <3>3. Extension!NamesIn(offered \cup {Extension!Parameter(name, number)}) = Extension!NamesIn(offered) \cup {Extension!Parameter(name, number).name}
      BY DEF Extension!NamesIn
    <3> QED BY <2>1, <3>1, <3>2, <3>3
  <2>4. /\ extension' = [n \in ExtensionNames |-> extension'[n]]
        /\ extension'[name] = Extension!Agreed(name, number)
        /\ \A n \in ExtensionNames \ {name} : extension'[n] = extension[n]
    BY <1>0, <2>1, <2>2 DEF ParametersOK
  <2>5. IF name \in Extension!Windows
        THEN /\ name = Extension!ClientWindow => extension'[name] \in 8 .. 15
             /\ name = Extension!ServerWindow => extension'[name] \in 9 .. 15
             /\ number # 0 => extension'[name] <= number
        ELSE extension'[name] = TRUE
    <3>1. CASE name \in Extension!Takeovers
      BY <2>4, <3>1 DEF Extension!Agreed, Extension!Windows, Extension!Takeovers, Extension!ClientWindow, Extension!ServerWindow, Extension!ClientTakeover,
                        Extension!ServerTakeover
    <3>2. CASE name = Extension!ClientWindow
      <4>1. number = 0 \/ number \in 8 .. 15
        BY <1>2, <3>2 DEF Extension!Legal
      <4>2. Extension!Agreed(name, number) = IF number # 0 /\ number < extension[name] THEN number ELSE extension[name]
        BY <3>2 DEF Extension!Agreed, Extension!Windows, Extension!Takeovers, Extension!ClientWindow, Extension!ServerWindow, Extension!ClientTakeover, Extension!ServerTakeover
      <4>3. extension[name] \in 8 .. 15 /\ name # Extension!ServerWindow
        BY <1>0, <3>2 DEF ParametersOK, Extension!ClientWindow, Extension!ServerWindow
      <4>4. name \in Extension!Windows
        BY <3>2 DEF Extension!Windows
      <4> QED BY <2>2, <2>4, <4>1, <4>2, <4>3, <4>4
    <3>3. CASE name = Extension!ServerWindow
      <4>1. number \in 9 .. 15
        BY <1>2, <3>3 DEF Extension!Legal, Extension!ClientWindow, Extension!ServerWindow
      <4>2. Extension!Agreed(name, number) = IF number # 0 /\ number < extension[name] THEN number ELSE extension[name]
        BY <3>3 DEF Extension!Agreed, Extension!Windows, Extension!Takeovers, Extension!ClientWindow, Extension!ServerWindow, Extension!ClientTakeover, Extension!ServerTakeover
      <4>3. extension[name] \in 9 .. 15 /\ name # Extension!ClientWindow
        BY <1>0, <3>3 DEF ParametersOK, Extension!ClientWindow, Extension!ServerWindow
      <4>4. name \in Extension!Windows
        BY <3>3 DEF Extension!Windows
      <4> QED BY <2>2, <2>4, <4>1, <4>2, <4>3, <4>4
    <3> QED BY <2>2, <3>1, <3>2, <3>3 DEF ExtensionNames, Extension!Windows
  <2>6. ParametersOK(extension')
    <3>1. \A n \in Extension!Takeovers : n \in ExtensionNames /\ n \notin Extension!Windows
      BY DEF ExtensionNames, Extension!Windows, Extension!Takeovers, Extension!ClientWindow, Extension!ServerWindow, Extension!ClientTakeover, Extension!ServerTakeover
    <3>2. Extension!ClientWindow \in Extension!Windows /\ Extension!ServerWindow \in Extension!Windows /\ Extension!Windows \subseteq ExtensionNames
      BY DEF ExtensionNames, Extension!Windows
    <3> QED BY <1>0, <2>4, <2>5, <3>1, <3>2 DEF ParametersOK
  <2>7. Tells(response', Extension!NamesIn(offered'), extension')
    <3>1. \A n \in Extension!NamesIn(offered) : extension'[n] = extension[n]
      BY <1>0, <2>3, <2>4 DEF Tells
    <3> DEFINE S == Extension!NamesIn(offered)
               e == extension
               f == extension'
    <3>2. /\ Tells(response, S, e) /\ name \in ExtensionNames \ S /\ ParametersOK(f)
          /\ \A n \in S : f[n] = e[n]
      BY <1>0, <2>2, <2>3, <2>6, <3>1
    <3>3. response' = Append(response, Extension!Answered(name, f)) /\ Extension!NamesIn(offered') = S \cup {name}
      BY <2>1, <2>3
    <3> HIDE DEF S, e, f
    <3>4. Tells(Append(response, Extension!Answered(name, f)), S \cup {name}, f)
      BY <3>2, TellsMore
    <3> QED BY <3>3, <3>4 DEF f
  <2>8. Kept(extension)'
    <3>1. ASSUME NEW q \in offered'
          PROVE IF q.name \in Extension!Windows THEN q.value # 0 => extension'[q.name] <= q.value
                ELSE extension'[q.name]
      <4>1. CASE q \in offered
        <5>1. q.name \in Extension!NamesIn(offered) /\ q.name \in ExtensionNames
          BY <1>0, <4>1 DEF Extension!NamesIn, Parameters
        <5>2. extension'[q.name] = extension[q.name]
          BY <2>3, <2>4, <5>1
        <5> QED BY <1>0, <4>1, <5>2 DEF Kept
      <4>2. CASE q \notin offered
        <5>1. q.name = name /\ q.value = number
          BY <2>1, <4>2 DEF Extension!Parameter
        <5> QED BY <2>5, <5>1
      <4> QED BY <4>1, <4>2
    <3> QED BY <3>1 DEF Kept
  <2>9. offered' \subseteq Parameters
    BY <1>0, <2>1, <2>2 DEF Extension!Parameter, Parameters
  <2> QED BY <2>1, <2>6, <2>7, <2>8, <2>9 DEF ExtensionInv
<1> QED BY <1>1, <1>2

\* What the answer adds beyond the offer leaves nothing twice.
LEMMA CompletedTells ==
  ASSUME ExtensionInv, judged = "offer"
  PROVE  \E S : /\ Tells(Extension!Completed(response, extension), S, extension)
                /\ Extension!NamesIn(offered) \subseteq S
                /\ Extension!ClientWindow \in S => Extension!ClientWindow \in Extension!NamesIn(offered)
                /\ Extension!ServerWindow \notin S => extension[Extension!ServerWindow] = 15
                /\ \A name \in Extension!Takeovers : name \in S <=> extension[name]
<1> DEFINE requested == Extension!NamesIn(offered)
           e == extension
           Also(S, name) == IF Extension!Unasked(name, e) THEN S \cup {name} ELSE S
           S1 == Also(requested, Extension!ServerWindow)
           S2 == Also(S1, Extension!ClientTakeover)
           S3 == Also(S2, Extension!ServerTakeover)
<1>0. /\ Tells(response, requested, e) /\ ParametersOK(e)
      /\ \A name \in ExtensionNames : name \in requested => ~Extension!Unasked(name, e)
      /\ \A name \in requested : name \in Extension!Takeovers => e[name]
  <2>1. Tells(response, requested, e) /\ ParametersOK(e) /\ Kept(e)
    BY DEF ExtensionInv
  <2>2. \A name \in requested : ~Extension!Unasked(name, e)
    BY DEF Extension!Unasked, Extension!IsIn
  <2>3. \A name \in Extension!Takeovers : name \notin Extension!Windows
    BY DEF Extension!Windows, Extension!Takeovers, Extension!ClientWindow, Extension!ServerWindow, Extension!ClientTakeover, Extension!ServerTakeover
  <2>4. \A name \in requested : \E q \in offered : q.name = name
    BY DEF Extension!NamesIn
  <2> HIDE DEF requested, e
  <2> QED BY <2>1, <2>2, <2>3, <2>4 DEF Kept
<1>1. /\ Extension!ClientWindow \in ExtensionNames /\ Extension!ServerWindow \in ExtensionNames /\ Extension!Takeovers \subseteq ExtensionNames
      /\ Extension!ClientTakeover \in Extension!Takeovers /\ Extension!ServerTakeover \in Extension!Takeovers
      /\ Extension!ClientWindow # Extension!ServerWindow /\ Extension!ClientWindow # Extension!ClientTakeover /\ Extension!ClientWindow # Extension!ServerTakeover
      /\ Extension!ServerWindow # Extension!ClientTakeover /\ Extension!ServerWindow # Extension!ServerTakeover
      /\ Extension!ClientTakeover # Extension!ServerTakeover
      /\ \A name \in Extension!Takeovers : name = Extension!ClientTakeover \/ name = Extension!ServerTakeover
  BY DEF ExtensionNames, Extension!Windows, Extension!Takeovers, Extension!ClientWindow, Extension!ServerWindow, Extension!ClientTakeover, Extension!ServerTakeover
<1>2. ASSUME NEW r, NEW S, Tells(r, S, e), NEW name \in ExtensionNames, name \in S => ~Extension!Unasked(name, e)
      PROVE  Tells(Extension!WithUnasked(r, name, e), Also(S, name), e)
  <2>1. CASE Extension!Unasked(name, e)
    <3>1. name \in ExtensionNames \ S
      BY <1>2, <2>1
    <3> HIDE DEF e
    <3>2. Tells(Append(r, Extension!Answered(name, e)), S \cup {name}, e)
      BY <1>0, <1>2, <3>1, TellsMore
    <3> QED BY <2>1, <3>2 DEF Extension!WithUnasked
  <2>2. CASE ~Extension!Unasked(name, e)
    BY <1>2, <2>2 DEF Extension!WithUnasked
  <2> QED BY <2>1, <2>2
<1> HIDE DEF e, requested
<1>3. Tells(Extension!WithUnasked(response, Extension!ServerWindow, e), S1, e)
  BY <1>0, <1>1, <1>2
<1>4. Tells(Extension!WithUnasked(Extension!WithUnasked(response, Extension!ServerWindow, e), Extension!ClientTakeover, e), S2, e)
  <2>1. Extension!ClientTakeover \in S1 => ~Extension!Unasked(Extension!ClientTakeover, e)
    BY <1>0, <1>1
  <2> HIDE DEF S1
  <2> QED BY <1>1, <1>2, <1>3, <2>1
<1>5. Tells(Extension!Completed(response, e), S3, e)
  <2>1. Extension!ServerTakeover \in S2 => ~Extension!Unasked(Extension!ServerTakeover, e)
    BY <1>0, <1>1
  <2> HIDE DEF S2
  <2> QED BY <1>1, <1>2, <1>4, <2>1 DEF Extension!Completed
<1>6. /\ Extension!Unasked(Extension!ServerWindow, e) <=> Extension!ServerWindow \notin requested /\ e[Extension!ServerWindow] < 15
      /\ \A name \in Extension!Takeovers : Extension!Unasked(name, e) <=> name \notin requested /\ e[name]
  BY <1>1 DEF Extension!Unasked, Extension!IsIn, requested
<1>7. requested \subseteq S3 /\ (Extension!ClientWindow \in S3 => Extension!ClientWindow \in requested)
  BY <1>1
<1>8. Extension!ServerWindow \notin S3 => e[Extension!ServerWindow] = 15
  BY <1>0, <1>1, <1>6 DEF ParametersOK
<1>9. \A name \in Extension!Takeovers : name \in S3 <=> e[name]
  BY <1>0, <1>1, <1>6 DEF ParametersOK
<1> HIDE DEF S3
<1> QED BY <1>5, <1>7, <1>8, <1>9 DEF e, requested

\* The answer is completed and the streams are made.
LEMMA AcceptKeeps == ExtensionInv /\ Extension!Accept => ExtensionInv'
<1> SUFFICES ASSUME ExtensionInv, Extension!Accept PROVE ExtensionInv'
  OBVIOUS
<1>1. /\ judged = "offer" /\ judged' = "accepted" /\ offered' = offered
      /\ extension' = Extension!Settled(extension) /\ response' = Extension!Completed(response, extension)
      /\ streams' \in Extension!Allocated(extension')
  BY DEF Extension!Accept
<1>2. ParametersOK(extension) /\ Kept(extension) /\ offered \subseteq Parameters
  BY <1>1 DEF ExtensionInv
<1> PICK S : /\ Tells(response', S, extension)
             /\ Extension!NamesIn(offered) \subseteq S
             /\ Extension!ClientWindow \in S => Extension!ClientWindow \in Extension!NamesIn(offered)
             /\ Extension!ServerWindow \notin S => extension[Extension!ServerWindow] = 15
             /\ \A name \in Extension!Takeovers : name \in S <=> extension[name]
  BY <1>1, CompletedTells
<1>3. /\ Extension!ClientWindow \in ExtensionNames /\ Extension!ServerWindow \in ExtensionNames /\ Extension!Takeovers \subseteq ExtensionNames
      /\ Extension!ClientWindow # Extension!ServerWindow /\ Extension!ClientWindow \notin Extension!Takeovers /\ Extension!ServerWindow \notin Extension!Takeovers
      /\ Extension!Windows = {Extension!ClientWindow, Extension!ServerWindow}
  BY DEF ExtensionNames, Extension!Windows, Extension!Takeovers, Extension!ClientWindow, Extension!ServerWindow, Extension!ClientTakeover, Extension!ServerTakeover
<1>4. /\ extension' = [name \in ExtensionNames |-> extension'[name]]
      /\ extension'[Extension!ClientWindow] =
            IF Extension!ClientWindow \in Extension!NamesIn(offered) THEN extension[Extension!ClientWindow] ELSE 15
      /\ \A name \in ExtensionNames \ {Extension!ClientWindow} : extension'[name] = extension[name]
  BY <1>1, <1>2, <1>3 DEF Extension!Settled, Extension!IsIn, ParametersOK
<1>5. ParametersOK(extension')
  <2>1. \A name \in Extension!Takeovers : name \in ExtensionNames \ {Extension!ClientWindow}
    BY <1>3
  <2> QED BY <1>2, <1>3, <1>4, <2>1 DEF ParametersOK
<1> DEFINE told == {response'[i] : i \in DOMAIN response'}
           Told(name, otherwise) ==
              IF Extension!IsIn(name, told) THEN (CHOOSE q \in told : q.name = name).value ELSE otherwise
<1>6. response' \in Seq(Parameters) /\ DOMAIN response' = 1 .. Len(response')
  BY DEF Tells
<1>7. \A name : Extension!IsIn(name, told) <=> name \in S
  <2>1. S = {response'[i].name : i \in 1 .. Len(response')}
    BY DEF Tells
  <2>2. Extension!NamesIn(told) = {response'[i].name : i \in 1 .. Len(response')}
    BY <1>6 DEF Extension!NamesIn
  <2> QED BY <2>1, <2>2 DEF Extension!IsIn
<1>8. \A name \in S : \A otherwise : Told(name, otherwise) = Extension!Answered(name, extension).value
  <2> SUFFICES ASSUME NEW name \in S, NEW otherwise
               PROVE  Told(name, otherwise) = Extension!Answered(name, extension).value
    OBVIOUS
  <2> DEFINE q == CHOOSE x \in told : x.name = name
  <2>1. \E x \in told : x.name = name
    BY <1>7 DEF Extension!IsIn, Extension!NamesIn
  <2>2. q \in told /\ q.name = name
    BY <2>1
  <2>3. Told(name, otherwise) = q.value
    BY <1>7
  <2> HIDE DEF q
  <2>4. PICK i \in 1 .. Len(response') : q = response'[i]
    BY <1>6, <2>2
  <2>5. q = Extension!Answered(q.name, extension)
    BY <2>4 DEF Tells
  <2> HIDE DEF Told
  <2> QED BY <2>2, <2>3, <2>5
<1>9. \A name \in Extension!Windows : Told(name, 15) = IF name \in S THEN extension[name] ELSE 15
  <2> SUFFICES ASSUME NEW name \in Extension!Windows
               PROVE  Told(name, 15) = IF name \in S THEN extension[name] ELSE 15
    OBVIOUS
  <2>1. CASE name \in S
    <3>1. Told(name, 15) = Extension!Answered(name, extension).value
      BY <1>8, <2>1
    <3> HIDE DEF Told
    <3> QED BY <2>1, <3>1 DEF Extension!Answered, Extension!Parameter
  <2>2. CASE name \notin S
    BY <1>7, <2>2
  <2> QED BY <2>1, <2>2
<1> HIDE DEF Told
<1>10. Extension!ResponseLength(response') < Extension!ResponseMaxLength
  BY <1>2, BytesFit DEF Tells
<1>11. \A i, j \in DOMAIN response' : response'[i].name = response'[j].name => i = j
  BY <1>6 DEF Tells
<1>12. Extension!IsIn(Extension!ClientWindow, told) => Extension!IsIn(Extension!ClientWindow, offered)
  BY <1>7 DEF Extension!IsIn
<1>13. \A q \in offered : q.name \in Extension!Windows /\ q.value # 0 => Told(q.name, 15) <= q.value
  <2> SUFFICES ASSUME NEW q \in offered, q.name \in Extension!Windows, q.value # 0
               PROVE  Told(q.name, 15) <= q.value
    OBVIOUS
  <2>1. q.name \in S
    BY DEF Extension!NamesIn
  <2>2. extension[q.name] <= q.value
    BY <1>2 DEF Kept
  <2> QED BY <1>9, <2>1, <2>2
<1>14. streams'.inflate \in {0, Told(Extension!ClientWindow, 15)}
  <2>1. streams'.inflate \in {0, extension'[Extension!ClientWindow]}
    BY <1>1 DEF Extension!Allocated
  <2>2. Told(Extension!ClientWindow, 15) = IF Extension!ClientWindow \in S THEN extension[Extension!ClientWindow] ELSE 15
    BY <1>3, <1>9
  <2> QED BY <1>4, <2>1, <2>2
<1>15. streams'.deflate \in {0, Told(Extension!ServerWindow, 15)} \ 1 .. 8
  <2>1. streams'.deflate \in {0, extension'[Extension!ServerWindow]}
    BY <1>1 DEF Extension!Allocated
  <2>2. Told(Extension!ServerWindow, 15) = IF Extension!ServerWindow \in S THEN extension[Extension!ServerWindow] ELSE 15
    BY <1>3, <1>9
  <2>3. extension'[Extension!ServerWindow] = extension[Extension!ServerWindow] /\ extension[Extension!ServerWindow] \in 9 .. 15
    BY <1>2, <1>3, <1>4 DEF ParametersOK
  <2> QED BY <2>1, <2>2, <2>3
<1>16. \A name \in Extension!Takeovers : extension'[name] <=> Extension!IsIn(name, told)
  <2> SUFFICES ASSUME NEW name \in Extension!Takeovers PROVE extension'[name] <=> Extension!IsIn(name, told)
    OBVIOUS
  <2>1. extension'[name] = extension[name]
    BY <1>3, <1>4
  <2> QED BY <1>7, <2>1
<1>17. Extension!AnswerMatchesStreams'
  BY <1>1, <1>10, <1>11, <1>12, <1>13, <1>14, <1>15, <1>16 DEF Extension!AnswerMatchesStreams, told, Told
<1> QED BY <1>1, <1>2, <1>5, <1>17 DEF ExtensionInv

\* ExtensionInv is inductive.
LEMMA ExtensionStep == ExtensionInv /\ [Extension!Next]_(Extension!vars) => ExtensionInv'
<1> SUFFICES ASSUME ExtensionInv, [Extension!Next]_(Extension!vars) PROVE ExtensionInv'
  OBVIOUS
<1>1. CASE UNCHANGED Extension!vars
  <2>1. /\ extension' = extension /\ response' = response /\ judged' = judged
        /\ offered' = offered /\ streams' = streams
    BY <1>1 DEF Extension!vars
  <2> DEFINE Matches(e, r, j, o, z) ==
        LET told == {r[i] : i \in DOMAIN r}
            Told(name, otherwise) ==
                IF Extension!IsIn(name, told) THEN (CHOOSE q \in told : q.name = name).value ELSE otherwise
        IN  /\ Extension!ResponseLength(r) < Extension!ResponseMaxLength
            /\ j = "accepted" =>
                /\ \A i, k \in DOMAIN r : r[i].name = r[k].name => i = k
                /\ Extension!IsIn(Extension!ClientWindow, told) => Extension!IsIn(Extension!ClientWindow, o)
                /\ \A q \in o : q.name \in Extension!Windows /\ q.value # 0 => Told(q.name, 15) <= q.value
                /\ z.inflate \in {0, Told(Extension!ClientWindow, 15)}
                /\ z.deflate \in {0, Told(Extension!ServerWindow, 15)} \ 1 .. 8
                /\ \A name \in Extension!Takeovers : e[name] <=> Extension!IsIn(name, told)
  <2>2. Extension!AnswerMatchesStreams <=> Matches(extension, response, judged, offered, streams)
    BY DEF Extension!AnswerMatchesStreams
  <2>3. Extension!AnswerMatchesStreams' <=> Matches(extension', response', judged', offered', streams')
    BY DEF Extension!AnswerMatchesStreams
  <2> HIDE DEF Matches
  <2>4. Extension!AnswerMatchesStreams => Extension!AnswerMatchesStreams'
    BY <2>1, <2>2, <2>3
  <2> QED BY <2>1, <2>4 DEF ExtensionInv, Kept
<1>2. CASE Extension!Offer
  BY <1>2, OfferKeeps
<1>3. ASSUME NEW name \in Extension!Windows \cup Extension!Takeovers \cup {"other"}, NEW number \in Values,
             Extension!OfferedParameter(name, number)
      PROVE  ExtensionInv'
  BY <1>3, ParameterKeeps DEF ExtensionNames
<1>4. CASE Extension!Accept
  BY <1>4, AcceptKeeps
<1> QED BY <1>1, <1>2, <1>3, <1>4 DEF Extension!Next

\* Before the streams are made, the answer fits all the same.
LEMMA ExtensionImplied == ExtensionInv => Extension!AnswerMatchesStreams
<1> SUFFICES ASSUME ExtensionInv PROVE Extension!AnswerMatchesStreams
  OBVIOUS
<1>1. CASE judged = "accepted"
  BY <1>1 DEF ExtensionInv
<1>2. CASE judged # "accepted"
  <2>1. Extension!ResponseLength(response) < Extension!ResponseMaxLength
    BY <1>2, BytesFit DEF ExtensionInv, Tells
  <2> QED BY <1>2, <2>1 DEF Extension!AnswerMatchesStreams
<1> QED BY <1>1, <1>2

-----------------------------------------------------------------------------
(* Octets *)

\* unmask_payload: words of 4 and of 8 octets, all alignments and lengths
LEMMA UnmaskedAlways ==
  ASSUME NEW word \in {4, 8}, NEW offset \in 0 .. word - 1, NEW amount \in Nat,
         NEW i \in 0 .. amount - 1
  PROVE  Octets!MaskOctets(word, offset, amount)[i] = {i % 4}
<1>1. CASE amount < word
  BY <1>1 DEF Octets!MaskOctets
<1>2. CASE amount >= word /\ word = 4
  <2> DEFINE pre == (4 - offset) % 4
             words == (amount - pre) \div 4
             post == amount - pre - words * 4
  <2>1. pre \in 0 .. 3 /\ words \in Nat /\ post \in 0 .. 3 /\ pre + words * 4 + post = amount
    BY <1>2
  <2> HIDE DEF pre, words, post
  <2> DEFINE aligned == [k \in 0 .. 3 |-> (k + pre) % 4]
             Single == IF i < pre \/ i >= amount - post THEN {i % 4} ELSE {}
             InWord == IF i - pre \in 0 .. words * 4 - 1 THEN {aligned[(i - pre) % 4]} ELSE {}
  <2>2. Octets!MaskOctets(word, offset, amount)[i] = Single \cup InWord
    BY <1>2 DEF Octets!MaskOctets, pre, words, post
  <2>3. CASE i < pre \/ i >= amount - post
    BY <2>1, <2>2, <2>3
  <2>4. CASE ~(i < pre \/ i >= amount - post)
    <3>1. i - pre \in 0 .. words * 4 - 1 /\ (i - pre) % 4 \in 0 .. 3
      BY <2>1, <2>4
    <3>2. aligned[(i - pre) % 4] = i % 4
      BY <2>1, <2>4, <3>1
    <3> QED BY <2>2, <2>4, <3>1, <3>2
  <2> QED BY <2>3, <2>4
<1>3. CASE amount >= word /\ word = 8
  <2> DEFINE pre == (8 - offset) % 8
             words == (amount - pre) \div 8
             post == amount - pre - words * 8
  <2>1. pre \in 0 .. 7 /\ words \in Nat /\ post \in 0 .. 7 /\ pre + words * 8 + post = amount
    BY <1>3
  <2> HIDE DEF pre, words, post
  <2> DEFINE aligned == [k \in 0 .. 7 |-> (k + pre) % 4]
             Single == IF i < pre \/ i >= amount - post THEN {i % 4} ELSE {}
             InWord == IF i - pre \in 0 .. words * 8 - 1 THEN {aligned[(i - pre) % 8]} ELSE {}
  <2>2. Octets!MaskOctets(word, offset, amount)[i] = Single \cup InWord
    BY <1>3 DEF Octets!MaskOctets, pre, words, post
  <2>3. CASE i < pre \/ i >= amount - post
    BY <2>1, <2>2, <2>3
  <2>4. CASE ~(i < pre \/ i >= amount - post)
    <3>1. i - pre \in 0 .. words * 8 - 1 /\ (i - pre) % 8 \in 0 .. 7
      BY <2>1, <2>4
    <3>2. aligned[(i - pre) % 8] = i % 4
      BY <2>1, <2>4, <3>1
    <3> QED BY <2>2, <2>4, <3>1, <3>2
  <2> QED BY <2>3, <2>4
<1> QED BY <1>1, <1>2, <1>3

-----------------------------------------------------------------------------
\* base64.c
\* A bit of an octet is that of a character.
SameBit(x, y, t) ==
    (x \div Octets!BitValues[8 - (t % 8)]) % 2 = (y \div Octets!BitValues[6 - (t % 6)]) % 2

\* The bits of three octets are those of the four characters made of them.
AllSame(a, b, c) ==
    /\ \A t \in 0 .. 5 : SameBit(a, a \div 4, t)
    /\ \A t \in 6 .. 7 : SameBit(a, (a % 4) * 16 + b \div 16, t)
    /\ \A t \in 8 .. 11 : SameBit(b, (a % 4) * 16 + b \div 16, t)
    /\ \A t \in 12 .. 15 : SameBit(b, (b % 16) * 4 + c \div 64, t)
    /\ \A t \in 16 .. 17 : SameBit(c, (b % 16) * 4 + c \div 64, t)
    /\ \A t \in 18 .. 23 : SameBit(c, c % 64, t)

\* Quad keeps all 24 bits.
LEMMA SameBits ==
  ASSUME NEW a \in 0 .. 255, NEW b \in 0 .. 255, NEW c \in 0 .. 255
  PROVE  AllSame(a, b, c)
<1>1. /\ Octets!BitValues[1] = 1 /\ Octets!BitValues[2] = 2 /\ Octets!BitValues[3] = 4 /\ Octets!BitValues[4] = 8
      /\ Octets!BitValues[5] = 16 /\ Octets!BitValues[6] = 32 /\ Octets!BitValues[7] = 64 /\ Octets!BitValues[8] = 128
  BY DEF Octets!BitValues
<1>2. \A t \in 0 .. 5 : SameBit(a, a \div 4, t)
  <2>1. SameBit(a, a \div 4, 0)
    BY <1>1 DEF SameBit
  <2>2. SameBit(a, a \div 4, 1)
    BY <1>1 DEF SameBit
  <2>3. SameBit(a, a \div 4, 2)
    BY <1>1 DEF SameBit
  <2>4. SameBit(a, a \div 4, 3)
    BY <1>1 DEF SameBit
  <2>5. SameBit(a, a \div 4, 4)
    BY <1>1 DEF SameBit
  <2>6. SameBit(a, a \div 4, 5)
    BY <1>1 DEF SameBit
  <2> QED BY <2>1, <2>2, <2>3, <2>4, <2>5, <2>6
<1>3. \A t \in 6 .. 7 : SameBit(a, (a % 4) * 16 + b \div 16, t)
  <2>1. SameBit(a, (a % 4) * 16 + b \div 16, 6)
    BY <1>1 DEF SameBit
  <2>2. SameBit(a, (a % 4) * 16 + b \div 16, 7)
    BY <1>1 DEF SameBit
  <2> QED BY <2>1, <2>2
<1>4. \A t \in 8 .. 11 : SameBit(b, (a % 4) * 16 + b \div 16, t)
  <2>1. SameBit(b, (a % 4) * 16 + b \div 16, 8)
    BY <1>1 DEF SameBit
  <2>2. SameBit(b, (a % 4) * 16 + b \div 16, 9)
    BY <1>1 DEF SameBit
  <2>3. SameBit(b, (a % 4) * 16 + b \div 16, 10)
    BY <1>1 DEF SameBit
  <2>4. SameBit(b, (a % 4) * 16 + b \div 16, 11)
    BY <1>1 DEF SameBit
  <2> QED BY <2>1, <2>2, <2>3, <2>4
<1>5. \A t \in 12 .. 15 : SameBit(b, (b % 16) * 4 + c \div 64, t)
  <2>1. SameBit(b, (b % 16) * 4 + c \div 64, 12)
    BY <1>1 DEF SameBit
  <2>2. SameBit(b, (b % 16) * 4 + c \div 64, 13)
    BY <1>1 DEF SameBit
  <2>3. SameBit(b, (b % 16) * 4 + c \div 64, 14)
    BY <1>1 DEF SameBit
  <2>4. SameBit(b, (b % 16) * 4 + c \div 64, 15)
    BY <1>1 DEF SameBit
  <2> QED BY <2>1, <2>2, <2>3, <2>4
<1>6. \A t \in 16 .. 17 : SameBit(c, (b % 16) * 4 + c \div 64, t)
  <2>1. SameBit(c, (b % 16) * 4 + c \div 64, 16)
    BY <1>1 DEF SameBit
  <2>2. SameBit(c, (b % 16) * 4 + c \div 64, 17)
    BY <1>1 DEF SameBit
  <2> QED BY <2>1, <2>2
<1>7. \A t \in 18 .. 23 : SameBit(c, c % 64, t)
  <2>1. SameBit(c, c % 64, 18)
    BY <1>1 DEF SameBit
  <2>2. SameBit(c, c % 64, 19)
    BY <1>1 DEF SameBit
  <2>3. SameBit(c, c % 64, 20)
    BY <1>1 DEF SameBit
  <2>4. SameBit(c, c % 64, 21)
    BY <1>1 DEF SameBit
  <2>5. SameBit(c, c % 64, 22)
    BY <1>1 DEF SameBit
  <2>6. SameBit(c, c % 64, 23)
    BY <1>1 DEF SameBit
  <2> QED BY <2>1, <2>2, <2>3, <2>4, <2>5, <2>6
<1> QED BY <1>2, <1>3, <1>4, <1>5, <1>6, <1>7 DEF AllSame

\* b64_encode_buffer: every bit of every octet is where it belongs, and the
\* characters after the last are '='.
LEMMA EncodedAlways ==
  ASSUME in \in Seq(0 .. 255) PROVE Octets!EncodedBitsKept
<1> DEFINE n == Len(in)
           chars == Octets!Encoded(in)
           final == 4 * ((n + 2) \div 3)
           Octet3(q, k) == IF 3 * q + k <= n THEN in[3 * q + k] ELSE 0
           Char(q) == Octets!Quad([k \in 1 .. 3 |-> Octet3(q, k)], n - 3 * q)
           Bit(x, width, k) == (x \div Octets!BitValues[width - k]) % 2
<1>1. n \in Nat /\ \A k \in 1 .. n : in[k] \in 0 .. 255
  <2> DEFINE S == 0 .. 255
  <2>1. in \in Seq(S)
    OBVIOUS
  <2> HIDE DEF S
  <2>2. n \in Nat /\ \A k \in 1 .. n : in[k] \in S
    BY <2>1
  <2> QED BY <2>2 DEF S
<1>2. final \in Nat /\ chars = [c \in 1 .. final |-> Char((c - 1) \div 4)[1 + ((c - 1) % 4)]]
  BY <1>1 DEF Octets!Encoded
<1> HIDE DEF chars, n
<1>3. Len(chars) = Octets!EncodedLength(n)
  BY <1>1, <1>2 DEF Octets!EncodedLength
<1>4. ASSUME NEW k \in 0 .. 8 * n - 1
      PROVE  chars[k \div 6 + 1] # 64 /\ Bit(in[k \div 8 + 1], 8, k % 8) = Bit(chars[k \div 6 + 1], 6, k % 6)
  <2> DEFINE q == k \div 24
             t == k % 24
  <2>1. q \in Nat /\ t \in 0 .. 23 /\ k = 24 * q + t
    BY <1>1
  <2> HIDE DEF q, t
  <2>2. /\ k \div 6 + 1 \in 1 .. final
        /\ (k \div 6 + 1 - 1) \div 4 = q /\ (k \div 6 + 1 - 1) % 4 = t \div 6
        /\ k \div 8 + 1 = 3 * q + (t \div 8) + 1 /\ k % 8 = t % 8 /\ k % 6 = t % 6
        /\ k \div 8 + 1 <= n
    BY <1>1, <2>1
  <2>3. chars[k \div 6 + 1] = Char(q)[1 + (t \div 6)]
    <3> DEFINE at_c == k \div 6 + 1
    <3>1. at_c \in 1 .. final /\ (at_c - 1) \div 4 = q /\ (at_c - 1) % 4 = t \div 6
      BY <2>2
    <3> HIDE DEF at_c, Char
    <3>2. chars[at_c] = Char((at_c - 1) \div 4)[1 + ((at_c - 1) % 4)]
      BY <1>2, <3>1
    <3> QED BY <3>1, <3>2 DEF at_c
  <2> DEFINE a == Octet3(q, 1)
             b == Octet3(q, 2)
             c == Octet3(q, 3)
             left == n - 3 * q
  <2>4. a \in 0 .. 255 /\ b \in 0 .. 255 /\ c \in 0 .. 255 /\ left \in Int
    BY <1>1, <2>1
  <2>5. /\ t \div 8 = 0 => in[k \div 8 + 1] = a
        /\ t \div 8 = 1 => in[k \div 8 + 1] = b
        /\ t \div 8 = 2 => in[k \div 8 + 1] = c
    BY <1>1, <2>1, <2>2
  <2>6. Char(q) = <<a \div 4, (a % 4) * 16 + b \div 16,
                    IF left > 1 THEN (b % 16) * 4 + c \div 64 ELSE 64,
                    IF left > 2 THEN c % 64 ELSE 64>>
    BY DEF Octets!Quad
  <2>7. t \div 8 < left
    BY <1>1, <2>1, <2>2
  <2> DEFINE x == in[k \div 8 + 1]
             y == chars[k \div 6 + 1]
  <2>b. /\ y = Char(q)[1 + (t \div 6)]
        /\ (t \div 8 = 0 => x = a) /\ (t \div 8 = 1 => x = b) /\ (t \div 8 = 2 => x = c)
    BY <2>3, <2>5
  <2>8. SameBit(x, y, t) => Bit(x, 8, k % 8) = Bit(y, 6, k % 6)
    BY <2>2 DEF SameBit
  <2> SUFFICES y # 64 /\ SameBit(x, y, t)
    BY <2>8
  <2> HIDE DEF a, b, c, left, Char, x, y, Bit
  <2>c. AllSame(a, b, c)
    BY <2>4, SameBits, Zenon
  <2>d. /\ Char(q)[1] = a \div 4 /\ Char(q)[2] = (a % 4) * 16 + b \div 16
        /\ left > 1 => Char(q)[3] = (b % 16) * 4 + c \div 64
        /\ left > 2 => Char(q)[4] = c % 64
    BY <2>6
  <2>9. CASE t \in 0 .. 5
    <3>1. t \div 8 = 0 /\ 1 + (t \div 6) = 1
      BY <2>9
    <3>2. x = a /\ y = a \div 4
      BY <2>4, <2>7, <2>b, <2>d, <3>1
    <3>3. a \div 4 # 64
      BY <2>4
    <3>4. SameBit(a, a \div 4, t)
      BY <2>9, <2>c DEF AllSame
    <3> QED BY <3>2, <3>3, <3>4
  <2>10. CASE t \in 6 .. 7
    <3>1. t \div 8 = 0 /\ 1 + (t \div 6) = 2
      BY <2>10
    <3>2. x = a /\ y = (a % 4) * 16 + b \div 16
      BY <2>4, <2>7, <2>b, <2>d, <3>1
    <3>3. (a % 4) * 16 + b \div 16 # 64
      BY <2>4
    <3>4. SameBit(a, (a % 4) * 16 + b \div 16, t)
      BY <2>10, <2>c DEF AllSame
    <3> QED BY <3>2, <3>3, <3>4
  <2>11. CASE t \in 8 .. 11
    <3>1. t \div 8 = 1 /\ 1 + (t \div 6) = 2
      BY <2>11
    <3>2. x = b /\ y = (a % 4) * 16 + b \div 16
      BY <2>4, <2>7, <2>b, <2>d, <3>1
    <3>3. (a % 4) * 16 + b \div 16 # 64
      BY <2>4
    <3>4. SameBit(b, (a % 4) * 16 + b \div 16, t)
      BY <2>11, <2>c DEF AllSame
    <3> QED BY <3>2, <3>3, <3>4
  <2>12. CASE t \in 12 .. 15
    <3>1. t \div 8 = 1 /\ 1 + (t \div 6) = 3
      BY <2>12
    <3>2. x = b /\ y = (b % 16) * 4 + c \div 64
      BY <2>4, <2>7, <2>b, <2>d, <3>1
    <3>3. (b % 16) * 4 + c \div 64 # 64
      BY <2>4
    <3>4. SameBit(b, (b % 16) * 4 + c \div 64, t)
      BY <2>12, <2>c DEF AllSame
    <3> QED BY <3>2, <3>3, <3>4
  <2>13. CASE t \in 16 .. 17
    <3>1. t \div 8 = 2 /\ 1 + (t \div 6) = 3
      BY <2>13
    <3>2. x = c /\ y = (b % 16) * 4 + c \div 64
      BY <2>4, <2>7, <2>b, <2>d, <3>1
    <3>3. (b % 16) * 4 + c \div 64 # 64
      BY <2>4
    <3>4. SameBit(c, (b % 16) * 4 + c \div 64, t)
      BY <2>13, <2>c DEF AllSame
    <3> QED BY <3>2, <3>3, <3>4
  <2>14. CASE t \in 18 .. 23
    <3>1. t \div 8 = 2 /\ 1 + (t \div 6) = 4
      BY <2>14
    <3>2. x = c /\ y = c % 64
      BY <2>4, <2>7, <2>b, <2>d, <3>1
    <3>3. c % 64 # 64
      BY <2>4
    <3>4. SameBit(c, c % 64, t)
      BY <2>14, <2>c DEF AllSame
    <3> QED BY <3>2, <3>3, <3>4
  <2> QED BY <2>1, <2>9, <2>10, <2>11, <2>12, <2>13, <2>14
<1>5. ASSUME NEW c \in 1 .. final PROVE chars[c] = 64 <=> 6 * (c - 1) >= 8 * n
  <2> DEFINE q == (c - 1) \div 4
             t == (c - 1) % 4
             left == n - 3 * q
  <2> DEFINE groups == (n + 2) \div 3
  <2>a. groups \in Nat /\ 3 * groups <= n + 2 /\ c - 1 \in 0 .. 4 * groups - 1
    BY <1>1
  <2> HIDE DEF groups
  <2>b. q \in Nat /\ t \in 0 .. 3 /\ c = 4 * q + t + 1 /\ q + 1 <= groups
    BY <2>a
  <2> HIDE DEF q, t
  <2>1. q \in Nat /\ t \in 0 .. 3 /\ c = 4 * q + t + 1 /\ left > 0 /\ left \in Int
    BY <1>1, <2>a, <2>b
  <2> DEFINE b1 == Octet3(q, 1)
             b2 == Octet3(q, 2)
             b3 == Octet3(q, 3)
  <2>2. b1 \in 0 .. 255 /\ b2 \in 0 .. 255 /\ b3 \in 0 .. 255
    BY <1>1, <2>1
  <2>3. chars[c] = Char(q)[1 + t]
    BY <1>2 DEF q, t
  <2>4. Char(q) = <<b1 \div 4, (b1 % 4) * 16 + b2 \div 16,
                    IF left > 1 THEN (b2 % 16) * 4 + b3 \div 64 ELSE 64,
                    IF left > 2 THEN b3 % 64 ELSE 64>>
    BY DEF Octets!Quad
  <2> HIDE DEF b1, b2, b3, Char
  <2>5. 6 * (c - 1) >= 8 * n <=> 6 * t >= 8 * left
    BY <1>1, <2>1
  <2> HIDE DEF left
  <2>6. CASE t = 0
    BY <2>1, <2>2, <2>3, <2>4, <2>5, <2>6
  <2>7. CASE t = 1
    BY <2>1, <2>2, <2>3, <2>4, <2>5, <2>7
  <2>8. CASE t = 2
    BY <2>1, <2>2, <2>3, <2>4, <2>5, <2>8
  <2>9. CASE t = 3
    BY <2>1, <2>2, <2>3, <2>4, <2>5, <2>9
  <2> QED BY <2>1, <2>6, <2>7, <2>8, <2>9
<1>6. DOMAIN chars = 1 .. final
  BY <1>2
<1> HIDE DEF final
<1>7. /\ Len(Octets!Encoded(in)) = Octets!EncodedLength(Len(in))
      /\ \A k \in 0 .. 8 * Len(in) - 1 :
            /\ Octets!Encoded(in)[k \div 6 + 1] # 64
            /\ Bit(in[k \div 8 + 1], 8, k % 8) = Bit(Octets!Encoded(in)[k \div 6 + 1], 6, k % 6)
      /\ \A c \in DOMAIN Octets!Encoded(in) : Octets!Encoded(in)[c] = 64 <=> 6 * (c - 1) >= 8 * Len(in)
  BY <1>3, <1>4, <1>5, <1>6 DEF chars, n
<1> QED BY <1>7, Zenon DEF Octets!EncodedBitsKept

(* sha1.c *)

\* What SHA1Input reads: q blocks, and the first r octets of the next
MessageOctets == {Octets!Octet("message", k) : k \in Nat}
Contexts ==
    [Length_Low : 0 .. Octets!Word - 1, Length_High : 0 .. Octets!Word - 1,
     Message_Block : Seq(MessageOctets),
     Intermediate_Hash : Seq(Seq(MessageOctets)),
     Computed : BOOLEAN, Corrupted : BOOLEAN]

\* The first r octets of block b, and the blocks before block q
Block(b, r) == [k \in 1 .. r |-> Octets!Octet("message", b * HashBlock + k)]
Blocks(q) == [b \in 1 .. q |-> Block(b - 1, HashBlock)]

\* The context has q blocks and r octets of a message of m octets, and counts
\* its bits in two words.
Reading(c, m, q, r) ==
    /\ m = q * HashBlock + r
    /\ c.Message_Block = Block(q, r) /\ c.Intermediate_Hash = Blocks(q)
    /\ c.Length_High * Octets!Word + c.Length_Low = 8 * m

\* No hash was made yet, and the context is right unless m is too long for it.
Hashed(c, m) ==
    /\ c \in Contexts /\ ~c.Computed
    /\ IF c.Corrupted THEN m * 8 >= Octets!Word * Octets!Word
       ELSE \E q \in Nat, r \in 0 .. HashBlock - 1 : Reading(c, m, q, r)

\* What is used of the sizes
LEMMA Constants ==
    /\ HashBlock \in Nat \ {0} /\ WordOctets \in Nat /\ HashBlock > 2 * WordOctets
    /\ Octets!Word \in Nat \ {0} /\ Octets!Word % 8 = 0
  BY HandshakeAssumption DEF Octets!ConstantsAssumption

\* The length in bits is counted in two words, and is right until there is
\* no room for it.
LEMMA Counted ==
  ASSUME NEW low \in 0 .. Octets!Word - 1, NEW high \in 0 .. Octets!Word - 1, NEW m \in Nat,
         high * Octets!Word + low = 8 * m
  PROVE  LET l == (low + 8) % Octets!Word
             h == IF l = 0 THEN (high + 1) % Octets!Word ELSE high
         IN  /\ l \in 0 .. Octets!Word - 1 /\ h \in 0 .. Octets!Word - 1
             /\ IF l = 0 /\ h = 0 THEN (m + 1) * 8 >= Octets!Word * Octets!Word
                ELSE h * Octets!Word + l = 8 * (m + 1)
<1>1. Octets!Word \in Nat \ {0} /\ Octets!Word % 8 = 0
  BY Constants
<1> DEFINE modulus == Octets!Word
<1>2. modulus \in Nat \ {0} /\ modulus % 8 = 0 /\ low \in 0 .. modulus - 1 /\ high \in 0 .. modulus - 1 /\ high * modulus + low = 8 * m
  BY <1>1
<1> HIDE DEF modulus
<1>3. PICK e \in Nat : modulus = 8 * e
  BY <1>2
<1>4. high * modulus \in Nat /\ high * modulus = 8 * (high * e) /\ high * e \in Nat
  BY <1>2, <1>3
<1>5. low % 8 = 0
  <2>1. PICK pp \in Nat : high * modulus = 8 * pp
    BY <1>4
  <2>2. low = 8 * (m - pp)
    BY <1>2, <2>1
  <2> QED BY <1>2, <2>1, <2>2
<1>6. low + 8 <= modulus
  BY <1>2, <1>3, <1>5
<1>7. CASE low + 8 < modulus
  <2>1. (low + 8) % modulus = low + 8
    BY <1>2, <1>7
  <2> QED BY <1>2, <1>4, <1>7, <2>1 DEF modulus
<1>8. CASE low + 8 = modulus
  <2>1. (low + 8) % modulus = 0
    BY <1>2, <1>8
  <2>2. high * modulus + modulus = 8 * (m + 1) /\ (high + 1) * modulus = high * modulus + modulus
    BY <1>2, <1>4, <1>8
  <2>3. CASE high + 1 < modulus
    <3>1. (high + 1) % modulus = high + 1
      BY <1>2, <2>3
    <3> QED BY <1>2, <2>1, <2>2, <2>3, <3>1 DEF modulus
  <2>4. CASE high + 1 = modulus
    <3>1. (high + 1) % modulus = 0
      BY <1>2, <2>4
    <3>2. modulus * modulus = 8 * (m + 1)
      BY <2>2, <2>4
    <3> QED BY <1>2, <2>1, <3>1, <3>2 DEF modulus
  <2> QED BY <1>2, <2>3, <2>4
<1> QED BY <1>2, <1>6, <1>7, <1>8

\* InputOctet: one octet more, which may complete a block or the count
LEMMA OctetTaken ==
  ASSUME NEW c, NEW m \in Nat, Hashed(c, m)
  PROVE  Hashed(Octets!InputOctet(c, Octets!Octet("message", m + 1)), m + 1)
<1> DEFINE octet == Octets!Octet("message", m + 1)
           low == (c.Length_Low + 8) % Octets!Word
           high == IF low = 0 THEN (c.Length_High + 1) % Octets!Word ELSE c.Length_High
           lost == low = 0 /\ high = 0
           d == [c EXCEPT !.Message_Block = Append(@, octet),
                          !.Length_Low = low, !.Length_High = high, !.Corrupted = lost]
<1>1. c \in Contexts /\ ~c.Computed
  BY DEF Hashed
<1>2. CASE c.Corrupted
  <2>1. m * 8 >= Octets!Word * Octets!Word
    BY <1>2 DEF Hashed
  <2>2. Octets!InputOctet(c, octet) = c
    BY <1>2 DEF Octets!InputOctet
  <2>3. Octets!Word * Octets!Word \in Nat
    BY Constants
  <2> QED BY <1>1, <1>2, <2>1, <2>2, <2>3 DEF Hashed
<1>3. CASE ~c.Corrupted
  <2>1. PICK q \in Nat, r \in 0 .. HashBlock - 1 : Reading(c, m, q, r)
    BY <1>3 DEF Hashed
  <2>2. Octets!InputOctet(c, octet) = IF Len(d.Message_Block) = HashBlock THEN Octets!ProcessMessageBlock(d) ELSE d
    BY <1>3 DEF Octets!InputOctet
  <2>3. /\ low \in 0 .. Octets!Word - 1 /\ high \in 0 .. Octets!Word - 1
        /\ IF lost THEN (m + 1) * 8 >= Octets!Word * Octets!Word ELSE high * Octets!Word + low = 8 * (m + 1)
    BY <1>1, <2>1, Counted DEF Contexts, Reading
  <2> HIDE DEF low, high, lost
  <2>4. lost \in BOOLEAN
    BY DEF lost
  <2>5. octet \in MessageOctets
    BY DEF MessageOctets
  <2> HIDE DEF octet
  <2>a. /\ c.Message_Block \in Seq(MessageOctets)
        /\ Append(c.Message_Block, octet) \in Seq(MessageOctets)
    BY <1>1, <2>5 DEF Contexts
  <2>6. /\ d \in Contexts /\ d.Computed = c.Computed /\ d.Corrupted = lost
        /\ d.Length_Low = low /\ d.Length_High = high
        /\ d.Message_Block = Append(c.Message_Block, octet)
        /\ d.Intermediate_Hash = c.Intermediate_Hash
    BY <1>1, <2>3, <2>4, <2>a DEF Contexts
  <2> HIDE DEF d
  <2>b. Append(d.Intermediate_Hash, d.Message_Block) \in Seq(Seq(MessageOctets)) /\ <<>> \in Seq(MessageOctets)
    <3>1. d.Message_Block \in Seq(MessageOctets) /\ d.Intermediate_Hash \in Seq(Seq(MessageOctets))
      BY <2>6 DEF Contexts
    <3> QED BY <3>1
  <2>7. /\ Octets!ProcessMessageBlock(d) \in Contexts
        /\ Octets!ProcessMessageBlock(d).Computed = c.Computed /\ Octets!ProcessMessageBlock(d).Corrupted = lost
        /\ Octets!ProcessMessageBlock(d).Length_Low = low /\ Octets!ProcessMessageBlock(d).Length_High = high
        /\ Octets!ProcessMessageBlock(d).Message_Block = <<>>
        /\ Octets!ProcessMessageBlock(d).Intermediate_Hash = Append(c.Intermediate_Hash, d.Message_Block)
    BY <2>6, <2>b DEF Contexts, Octets!ProcessMessageBlock
  <2>8. m + 1 = q * HashBlock + (r + 1) /\ octet = Octets!Octet("message", q * HashBlock + (r + 1))
    BY <2>1, Constants DEF Reading, octet
  <2>9. d.Message_Block = Block(q, r + 1) /\ Len(d.Message_Block) = r + 1
    <3>1. c.Message_Block = Block(q, r) /\ IsSeq(Block(q, r), r)
      BY <2>1 DEF Reading, Block, IsSeq
    <3>2. Append(Block(q, r), octet) = [i \in 1 .. r + 1 |-> IF i <= r THEN Block(q, r)[i] ELSE octet]
      BY <3>1, Appended
    <3>3. Append(Block(q, r), octet) = Block(q, r + 1)
      <4>1. \A i \in 1 .. r + 1 : (IF i <= r THEN Block(q, r)[i] ELSE octet) = Octets!Octet("message", q * HashBlock + i)
        BY <2>8 DEF Block
      <4> QED BY <3>2, <4>1 DEF Block
    <3>4. Len(Block(q, r + 1)) = r + 1
      BY DEF Block
    <3> QED BY <2>6, <3>1, <3>3, <3>4
  <2>10. CASE lost
    <3>1. (m + 1) * 8 >= Octets!Word * Octets!Word
      BY <2>3, <2>10
    <3> QED BY <1>1, <2>2, <2>6, <2>7, <2>10, <3>1 DEF Hashed, octet
  <2>11. CASE ~lost /\ r + 1 # HashBlock
    <3>1. r + 1 \in 0 .. HashBlock - 1
      BY Constants, <2>11
    <3>2. Reading(d, m + 1, q, r + 1)
      BY <2>1, <2>3, <2>6, <2>8, <2>9, <2>11 DEF Reading
    <3> QED BY <1>1, <2>2, <2>6, <2>9, <2>11, <3>1, <3>2 DEF Hashed, octet
  <2>12. CASE ~lost /\ r + 1 = HashBlock
    <3>1. Append(Blocks(q), Block(q, HashBlock)) = Blocks(q + 1)
      <4>1. IsSeq(Blocks(q), q)
        BY DEF Blocks, IsSeq
      <4>2. Append(Blocks(q), Block(q, HashBlock))
              = [b \in 1 .. q + 1 |-> IF b <= q THEN Blocks(q)[b] ELSE Block(q, HashBlock)]
        <5> DEFINE f == Blocks(q)
                   e == Block(q, HashBlock)
        <5>1. IsSeq(f, q)
          BY <4>1
        <5> HIDE DEF f, e
        <5>2. Append(f, e) = [i \in 1 .. q + 1 |-> IF i <= q THEN f[i] ELSE e]
          BY <2>1, <5>1, Appended
        <5> QED BY <5>2 DEF f, e
      <4>3. \A b \in 1 .. q + 1 : (IF b <= q THEN Blocks(q)[b] ELSE Block(q, HashBlock)) = Block(b - 1, HashBlock)
        BY DEF Blocks
      <4> QED BY <4>2, <4>3 DEF Blocks
    <3>2. Block(q + 1, 0) = <<>>
      BY DEF Block
    <3>3. q * HashBlock + HashBlock = (q + 1) * HashBlock + 0
      BY Constants
    <3>4. Reading(Octets!ProcessMessageBlock(d), m + 1, q + 1, 0)
      BY <2>1, <2>3, <2>7, <2>8, <2>9, <2>12, <3>1, <3>2, <3>3 DEF Reading
    <3>5. 0 \in 0 .. HashBlock - 1 /\ q + 1 \in Nat
      BY Constants
    <3> QED BY <1>1, <2>2, <2>7, <2>9, <2>12, <3>4, <3>5 DEF Hashed, octet
  <2> QED BY <2>10, <2>11, <2>12
<1> QED BY <1>2, <1>3

\* The loop of SHA1Input, over however many octets
LEMMA AllTaken ==
  ASSUME NEW c, NEW n \in Nat, NEW amount \in Nat, Hashed(c, n)
  PROVE  Hashed(Octets!Taken(c, n, amount), n + amount)
<1> DEFINE After(g) == [k \in 0 .. amount |->
                IF k = 0 THEN c ELSE Octets!InputOctet(g[k - 1], Octets!Octet("message", n + k))]
           after == CHOOSE g : g = After(g)
           taking == [k \in 1 .. amount |-> [x \in Contexts |-> Octets!InputOctet(x, Octets!Octet("message", n + k))]]
<1>1. c \in Contexts
  BY DEF Hashed
<1>2. \A k \in 1 .. amount : \A x \in Contexts : Octets!InputOctet(x, Octets!Octet("message", n + k)) \in Contexts
  <2> SUFFICES ASSUME NEW k \in 1 .. amount, NEW x \in Contexts
               PROVE  Octets!InputOctet(x, Octets!Octet("message", n + k)) \in Contexts
    OBVIOUS
  <2> DEFINE octet == Octets!Octet("message", n + k)
             low == (x.Length_Low + 8) % Octets!Word
             high == IF low = 0 THEN (x.Length_High + 1) % Octets!Word ELSE x.Length_High
             lost == low = 0 /\ high = 0
             d == [x EXCEPT !.Message_Block = Append(@, octet),
                            !.Length_Low = low, !.Length_High = high, !.Corrupted = lost]
  <2>1. low \in 0 .. Octets!Word - 1 /\ high \in 0 .. Octets!Word - 1 /\ lost \in BOOLEAN
    BY Constants DEF Contexts
  <2>2. octet \in MessageOctets
    BY DEF MessageOctets
  <2>3. Octets!InputOctet(x, octet) = IF x.Corrupted THEN x ELSE IF Len(d.Message_Block) = HashBlock THEN Octets!ProcessMessageBlock(d) ELSE d
    BY DEF Octets!InputOctet
  <2> HIDE DEF low, high, lost, octet
  <2>a. Append(x.Message_Block, octet) \in Seq(MessageOctets)
    <3>1. x.Message_Block \in Seq(MessageOctets)
      BY DEF Contexts
    <3> QED BY <2>2, <3>1
  <2>4. d \in Contexts
    BY <2>1, <2>a DEF Contexts
  <2> HIDE DEF d
  <2>b. Append(d.Intermediate_Hash, d.Message_Block) \in Seq(Seq(MessageOctets)) /\ <<>> \in Seq(MessageOctets)
    <3>1. d.Message_Block \in Seq(MessageOctets) /\ d.Intermediate_Hash \in Seq(Seq(MessageOctets))
      BY <2>4 DEF Contexts
    <3> QED BY <3>1
  <2>5. Octets!ProcessMessageBlock(d) \in Contexts
    BY <2>4, <2>b DEF Octets!ProcessMessageBlock, Contexts
  <2> QED BY <2>3, <2>4, <2>5 DEF octet
<1>3. \A k \in 1 .. amount : \A x \in Contexts : taking[k][x] = Octets!InputOctet(x, Octets!Octet("message", n + k))
  OBVIOUS
<1> HIDE DEF taking
<1>4. PICK f : Follows(f, c, taking, amount, Contexts)
  <2>1. Steps(taking, amount, Contexts)
    BY <1>2, <1>3 DEF Steps
  <2> QED BY <1>1, <2>1, Recursion, Zenon
<1>5. f = After(f)
  BY <1>3, <1>4 DEF Follows
<1>6. after = After(after)
  BY <1>5
<1> HIDE DEF after
<1>7. /\ after[0] = c
      /\ \A k \in 1 .. amount : after[k] = Octets!InputOctet(after[k - 1], Octets!Octet("message", n + k))
  BY <1>6
<1>8. \A k \in 0 .. amount : k \in {j \in Nat : Hashed(after[j], n + j)}
  <2> DEFINE S == {j \in Nat : Hashed(after[j], n + j)}
  <2>1. 0 \in S
    BY <1>7
  <2>2. \A k \in 0 .. amount : k \in S /\ k < amount => k + 1 \in S
    <3> SUFFICES ASSUME NEW k \in 0 .. amount, k \in S, k < amount PROVE k + 1 \in S
      OBVIOUS
    <3>1. Hashed(after[k], n + k) /\ n + k \in Nat
      OBVIOUS
    <3>2. after[k + 1] = Octets!InputOctet(after[k], Octets!Octet("message", (n + k) + 1))
      BY <1>7
    <3>3. Hashed(after[k + 1], (n + k) + 1)
      BY <3>1, <3>2, OctetTaken
    <3> QED BY <3>3
  <2> HIDE DEF S
  <2>3. \A k \in 0 .. amount : k \in S
    BY <2>1, <2>2, StepByStep
  <2> QED BY <2>3 DEF S
<1>9. Octets!Taken(c, n, amount) = after[amount]
  BY DEF Octets!Taken, after
<1> QED BY <1>8, <1>9

\* The padded message of PaddedBlocks, octet by octet, when its length is a
\* whole number of blocks.
PaddedOctet(m, zeros, high, low, i) ==
    IF i <= m THEN Octets!Octet("message", i)
    ELSE IF i = m + 1 THEN Octets!Value(128)
    ELSE IF i <= m + 1 + zeros THEN Octets!Value(0)
    ELSE IF i <= m + 1 + zeros + WordOctets THEN Octets!OctetsOf(high)[i - (m + 1 + zeros)]
    ELSE Octets!OctetsOf(low)[i - (m + 1 + zeros + WordOctets)]

\* The message, 128, the zeros and the two words of the length in bits
Padded(m, zeros, high, low) ==
    [k \in 1 .. m |-> Octets!Octet("message", k)] \o <<Octets!Value(128)>> \o [k \in 1 .. zeros |-> Octets!Value(0)]
        \o Octets!OctetsOf(high) \o Octets!OctetsOf(low)

IsPadded(f, m, zeros, high, low) ==
    f = [i \in 1 .. m + 1 + zeros + WordOctets + WordOctets |-> PaddedOctet(m, zeros, high, low, i)]

\* Which octet is where in the padded message
LEMMA PaddedByOctets ==
  ASSUME NEW m \in Nat, NEW zeros \in 0 .. HashBlock - 1, NEW high, NEW low
  PROVE  IsPadded(Padded(m, zeros, high, low), m, zeros, high, low)
<1> DEFINE a == [k \in 1 .. m |-> Octets!Octet("message", k)]
           b == <<Octets!Value(128)>>
           c == [k \in 1 .. zeros |-> Octets!Value(0)]
           W == WordOctets
           E(i) == PaddedOctet(m, zeros, high, low, i)
<1>1. W \in Nat /\ zeros \in Nat
  BY Constants
<1>2. IsSeq(a, m) /\ IsSeq(b, 1) /\ IsSeq(c, zeros) /\ IsSeq(Octets!OctetsOf(high), W) /\ IsSeq(Octets!OctetsOf(low), W)
  BY DEF IsSeq, Octets!OctetsOf
<1>3. a \o b = [i \in 1 .. m + 1 |-> E(i)]
  <2>1. a \o b = [i \in 1 .. m + 1 |-> IF i <= m THEN a[i] ELSE b[i - m]]
    BY <1>2, Joined
  <2>2. \A i \in 1 .. m + 1 : (IF i <= m THEN a[i] ELSE b[i - m]) = E(i)
    BY DEF PaddedOctet
  <2> HIDE DEF a, b, E
  <2> QED BY <2>1, <2>2
<1> DEFINE ab == a \o b
<1>4. IsSeq(ab, m + 1) /\ \A i \in 1 .. m + 1 : ab[i] = E(i)
  BY <1>3 DEF IsSeq
<1> HIDE DEF ab
<1>5. ab \o c = [i \in 1 .. m + 1 + zeros |-> E(i)]
  <2>1. ab \o c = [i \in 1 .. m + 1 + zeros |-> IF i <= m + 1 THEN ab[i] ELSE c[i - (m + 1)]]
    <3> DEFINE l == m + 1
    <3>1. l \in Nat /\ IsSeq(ab, l)
      BY <1>4
    <3> HIDE DEF l, c
    <3>2. IsJoined(ab \o c, ab, c, l, zeros)
      BY <1>1, <1>2, <3>1, JoinedTo
    <3> QED BY <3>2 DEF l, IsJoined
  <2>2. \A i \in 1 .. m + 1 + zeros : (IF i <= m + 1 THEN ab[i] ELSE c[i - (m + 1)]) = E(i)
    BY <1>1, <1>4 DEF PaddedOctet
  <2> HIDE DEF c, E
  <2> QED BY <2>1, <2>2
<1> DEFINE abc == ab \o c
           n == m + 1 + zeros
<1>6. IsSeq(abc, n) /\ (\A i \in 1 .. n : abc[i] = E(i)) /\ n \in Nat
  <2>1. n \in Nat
    BY <1>1
  <2> HIDE DEF E
  <2>2. abc = [i \in 1 .. n |-> E(i)]
    BY <1>5
  <2> HIDE DEF n, abc
  <2> QED BY <2>1, <2>2 DEF IsSeq
<1> HIDE DEF abc
<1>7. abc \o Octets!OctetsOf(high) = [i \in 1 .. n + W |-> E(i)]
  <2>1. abc \o Octets!OctetsOf(high) = [i \in 1 .. n + W |-> IF i <= n THEN abc[i] ELSE Octets!OctetsOf(high)[i - n]]
    <3> DEFINE e == Octets!OctetsOf(high)
    <3>1. IsSeq(e, W) /\ W \in Nat /\ n \in Nat /\ IsSeq(abc, n)
      BY <1>1, <1>2, <1>6
    <3> HIDE DEF e, n, W
    <3>2. IsJoined(abc \o e, abc, e, n, W)
      BY <3>1, JoinedTo
    <3> QED BY <3>2 DEF IsJoined, e
  <2>2. \A i \in 1 .. n + W : (IF i <= n THEN abc[i] ELSE Octets!OctetsOf(high)[i - n]) = E(i)
    BY <1>1, <1>6 DEF PaddedOctet
  <2> HIDE DEF n, E
  <2> QED BY <2>1, <2>2
<1> DEFINE abcd == abc \o Octets!OctetsOf(high)
<1>8. IsSeq(abcd, n + W) /\ (\A i \in 1 .. n + W : abcd[i] = E(i)) /\ n + W \in Nat
  <2> DEFINE l == n + W
  <2>1. l \in Nat
    BY <1>1, <1>6
  <2> HIDE DEF E
  <2>2. abcd = [i \in 1 .. l |-> E(i)]
    BY <1>7
  <2> HIDE DEF n, abcd, l
  <2>3. IsSeq(abcd, l) /\ \A i \in 1 .. l : abcd[i] = E(i)
    BY <2>1, <2>2 DEF IsSeq
  <2> QED BY <2>1, <2>3 DEF l
<1> HIDE DEF abcd
<1>9. abcd \o Octets!OctetsOf(low) = [i \in 1 .. n + W + W |-> E(i)]
  <2>1. abcd \o Octets!OctetsOf(low) = [i \in 1 .. n + W + W |-> IF i <= n + W THEN abcd[i] ELSE Octets!OctetsOf(low)[i - (n + W)]]
    BY <1>1, <1>2, <1>8, Joined
  <2>2. \A i \in 1 .. n + W + W : (IF i <= n + W THEN abcd[i] ELSE Octets!OctetsOf(low)[i - (n + W)]) = E(i)
    BY <1>1, <1>6, <1>8 DEF PaddedOctet
  <2> HIDE DEF n, E
  <2> QED BY <2>1, <2>2
<1> HIDE DEF E
<1> QED BY <1>9 DEF abcd, abc, ab, E, Padded, IsPadded

\* What makes whole blocks of whole blocks is one block or two.
LEMMA WholeBlocks ==
  ASSUME NEW d \in Nat \ {0}, NEW q \in Nat, NEW sum \in 1 .. 3 * d - 1, (q * d + sum) % d = 0
  PROVE  sum = d \/ sum = 2 * d
<1> DEFINE a == q * d + sum
<1>1. a \in Nat /\ q * d \in Nat
  OBVIOUS
<1>2. (q + 1) * d = q * d + d /\ (q + 2) * d = q * d + 2 * d
  OBVIOUS
<1>3. CASE sum < d
  <2> DEFINE t == sum
  <2>1. a = q * d + t /\ t \in 1 .. d - 1
    BY <1>3
  <2> HIDE DEF a, t
  <2>2. a % d = t
    BY <1>1, <2>1, Divided
  <2> QED BY <2>1, <2>2 DEF a
<1>4. CASE d < sum /\ sum < 2 * d
  <2> DEFINE pp == q + 1
             t == sum - d
  <2>1. a = pp * d + t /\ t \in 1 .. d - 1 /\ pp \in Nat
    BY <1>1, <1>2, <1>4
  <2> HIDE DEF a, pp, t
  <2>2. a % d = t
    BY <1>1, <2>1, Divided
  <2> QED BY <2>1, <2>2 DEF a
<1>5. CASE 2 * d < sum
  <2> DEFINE pp == q + 2
             t == sum - 2 * d
  <2>1. a = pp * d + t /\ t \in 1 .. d - 1 /\ pp \in Nat
    BY <1>1, <1>2, <1>5
  <2> HIDE DEF a, pp, t
  <2>2. a % d = t
    BY <1>1, <2>1, Divided
  <2> QED BY <2>1, <2>2 DEF a
<1> QED BY <1>3, <1>4, <1>5

\* The blocks that PaddedBlocks has, when count of them are filled
PaddedIn(m, count, zeros, high, low) ==
    Octets!PaddedBlocks(m) =
        [b \in 1 .. count |->
            [k \in 1 .. HashBlock |-> PaddedOctet(m, zeros, high, low, (b - 1) * HashBlock + k)]]

\* PaddedBlocks, block by block
LEMMA PaddedInBlocks ==
  ASSUME NEW m \in Nat, NEW q \in Nat, NEW r \in 0 .. HashBlock - 1, m = q * HashBlock + r,
         NEW high \in 0 .. Octets!Word - 1, NEW low \in 0 .. Octets!Word - 1, high * Octets!Word + low = 8 * m,
         NEW zeros \in 0 .. HashBlock - 1, NEW count \in Nat,
         \/ /\ r < HashBlock - 2 * WordOctets
            /\ zeros = HashBlock - 2 * WordOctets - r - 1 /\ count = q + 1
         \/ /\ r >= HashBlock - 2 * WordOctets
            /\ zeros = 2 * HashBlock - 2 * WordOctets - r - 1 /\ count = q + 2
  PROVE  PaddedIn(m, count, zeros, high, low)
<1> DEFINE B == HashBlock
           W == WordOctets
           Fits(z) == (m + 1 + z + 2 * W) % B = 0
<1>1. /\ B \in Nat \ {0} /\ W \in Nat /\ B > 2 * W /\ q * B \in Nat
      /\ Octets!Word \in Nat \ {0}
  BY Constants
<1>2. zeros \in 0 .. B - 1 /\ count \in Nat
  BY <1>1
<1>3. (q + 1) * B = q * B + B /\ (q + 2) * B = q * B + 2 * B
  BY <1>1
<1>4. m + 1 + zeros + 2 * W = count * B
  BY <1>1, <1>3
<1>5. (count * B) % B = 0 /\ (count * B) \div B = count /\ count * B \in Nat
  <2> DEFINE a == count * B
             none == 0
  <2>1. a \in Nat /\ a = count * B + none /\ none \in 0 .. B - 1
    BY <1>1, <1>2
  <2> HIDE DEF a, none
  <2>2. a \div B = count /\ a % B = none
    BY <1>1, <1>2, <2>1, Divided
  <2> QED BY <2>1, <2>2 DEF a, none
<1>a. Fits(zeros)
  BY <1>4, <1>5
<1>6. ASSUME NEW z \in 0 .. B - 1, Fits(z) PROVE z = zeros
  <2> DEFINE sum == r + 1 + z + 2 * W
  <2>1. sum \in 1 .. 3 * B - 1 /\ m + 1 + z + 2 * W = q * B + sum
    BY <1>1
  <2> HIDE DEF sum
  <2>2. (q * B + sum) % B = 0
    BY <1>6, <2>1
  <2>3. sum = B \/ sum = 2 * B
    BY <1>1, <2>1, <2>2, WholeBlocks
  <2> QED BY <1>1, <2>3 DEF sum
<1>7. (CHOOSE z \in 0 .. B - 1 : Fits(z)) = zeros
  <2> HIDE DEF Fits
  <2> QED BY <1>2, <1>a, <1>6
<1>8. (m * 8) \div Octets!Word = high /\ (m * 8) % Octets!Word = low
  <2>1. m * 8 = high * Octets!Word + low /\ m * 8 \in Nat /\ high \in Nat
    BY <1>1
  <2> QED BY <1>1, <2>1, Divided
<1> DEFINE padded == Padded(m, zeros, high, low)
           Cuts(pp) == [b \in 1 .. Len(pp) \div B |-> SubSeq(pp, (b - 1) * B + 1, b * B)]
<1>9. Octets!PaddedBlocks(m) = Cuts(padded)
  <2> HIDE DEF Fits
  <2>1. Octets!PaddedBlocks(m) = Cuts(Padded(m, CHOOSE z \in 0 .. B - 1 : Fits(z), (m * 8) \div Octets!Word, (m * 8) % Octets!Word))
    BY Zenon DEF Octets!PaddedBlocks, Padded, Fits
  <2> HIDE DEF Cuts
  <2> QED BY <1>7, <1>8, <2>1
<1> DEFINE E(i) == PaddedOctet(m, zeros, high, low, i)
<1>10. padded = [i \in 1 .. count * B |-> E(i)]
  <2> HIDE DEF E
  <2>1. m \in Nat /\ zeros \in 0 .. HashBlock - 1
    BY <1>2
  <2>2. padded = [i \in 1 .. m + 1 + zeros + WordOctets + WordOctets |-> PaddedOctet(m, zeros, high, low, i)]
    <3>1. IsPadded(padded, m, zeros, high, low)
      BY PaddedByOctets
    <3> HIDE DEF padded
    <3> QED BY <3>1, Zenon DEF IsPadded
  <2>3. m + 1 + zeros + WordOctets + WordOctets = count * B
    BY <1>1, <1>2, <1>4
  <2> HIDE DEF padded
  <2> QED BY <2>2, <2>3 DEF E
<1> HIDE DEF padded, E
<1>11. Len(padded) \div B = count
  <2> DEFINE a == count * B
  <2>1. a \in Nat /\ a \div B = count
    BY <1>5
  <2> HIDE DEF a
  <2>2. Len([i \in 1 .. a |-> E(i)]) = a
    BY <2>1
  <2> QED BY <1>10, <2>1, <2>2 DEF a
<1>12. ASSUME NEW b \in 1 .. count
       PROVE  SubSeq(padded, (b - 1) * B + 1, b * B) = [k \in 1 .. B |-> E((b - 1) * B + k)]
  <2>1. PICK pp \in Nat, a \in Nat : pp = (b - 1) * B /\ a = count * B /\ b * B = pp + B /\ pp + B <= a
    BY <1>1, <1>2, <1>5
  <2>2. PICK l \in Nat : l = B
    BY <1>1
  <2>3. pp \in Nat /\ a \in Nat /\ l \in Nat /\ pp + l <= a
    BY <2>1, <2>2
  <2>4. SubSeq([i \in 1 .. a |-> E(i)], pp + 1, pp + l) = [k \in 1 .. l |-> E(pp + k)]
    BY <2>3
  <2> QED BY <1>10, <2>1, <2>2, <2>4
<1> QED BY <1>9, <1>11, <1>12 DEF E, PaddedIn

\* A context has the fields of SHA1Context.
IsContext(c) ==
    c = [Length_Low |-> c.Length_Low, Length_High |-> c.Length_High,
         Message_Block |-> c.Message_Block, Intermediate_Hash |-> c.Intermediate_Hash,
         Computed |-> c.Computed, Corrupted |-> c.Corrupted]

\* What SHA1PadMessage does not touch.
SameFlags(c, d) ==
    /\ IsContext(d)
    /\ d.Length_Low = c.Length_Low /\ d.Length_High = c.Length_High
    /\ d.Computed = c.Computed /\ d.Corrupted = c.Corrupted

\* The loop that fills the block with zeros
LEMMA FilledUp ==
  ASSUME NEW c, IsContext(c), NEW a \in Nat, IsSeq(c.Message_Block, a), NEW upto \in Nat, a <= upto
  PROVE  /\ SameFlags(c, Octets!Filled(c, upto))
         /\ Octets!Filled(c, upto).Intermediate_Hash = c.Intermediate_Hash
         /\ Octets!Filled(c, upto).Message_Block
              = [k \in 1 .. upto |-> IF k <= a THEN c.Message_Block[k] ELSE Octets!Value(0)]
<1> DEFINE f == c.Message_Block
           g == [k \in 1 .. upto - Len(f) |-> Octets!Value(0)]
           left == upto - a
<1>1. Len(f) = a
  <2> HIDE DEF f
  <2>1. IsSeq(f, a)
    BY DEF f
  <2> QED BY <2>1, LengthIs
<1>2. left \in Nat /\ a + left = upto /\ g = [k \in 1 .. left |-> Octets!Value(0)]
  BY <1>1
<1>3. /\ SameFlags(c, Octets!Filled(c, upto))
      /\ Octets!Filled(c, upto).Intermediate_Hash = c.Intermediate_Hash
      /\ Octets!Filled(c, upto).Message_Block = f \o g
  <2> DEFINE h == f \o g
  <2>1. Octets!Filled(c, upto) = [c EXCEPT !.Message_Block = h]
    BY DEF Octets!Filled
  <2> HIDE DEF h
  <2> QED BY <2>1 DEF IsContext, SameFlags, h
<1>4. f \o g = [k \in 1 .. a + left |-> IF k <= a THEN f[k] ELSE g[k - a]]
  <2>1. IsSeq(f, a) /\ IsSeq(g, left) /\ left \in Nat
    BY <1>2 DEF IsSeq
  <2> HIDE DEF f, g, left
  <2>2. IsJoined(f \o g, f, g, a, left)
    BY <2>1, JoinedTo
  <2> QED BY <2>2 DEF IsJoined
<1>5. \A k \in 1 .. upto : k > a => g[k - a] = Octets!Value(0)
  BY <1>2
<1> HIDE DEF f, g, left
<1>6. f \o g = [k \in 1 .. upto |-> IF k <= a THEN f[k] ELSE Octets!Value(0)]
  <2>1. \A k \in 1 .. upto : (IF k <= a THEN f[k] ELSE g[k - a]) = IF k <= a THEN f[k] ELSE Octets!Value(0)
    BY <1>5
  <2>2. f \o g = [k \in 1 .. upto |-> IF k <= a THEN f[k] ELSE g[k - a]]
    BY <1>2, <1>4
  <2> QED BY <2>1, <2>2
<1> QED BY <1>3, <1>6 DEF f

\* SHA1ProcessMessageBlock takes the block into the hash and empties it.
LEMMA Processed ==
  ASSUME NEW c, IsContext(c)
  PROVE  /\ SameFlags(c, Octets!ProcessMessageBlock(c))
         /\ Octets!ProcessMessageBlock(c).Message_Block = <<>>
         /\ Octets!ProcessMessageBlock(c).Intermediate_Hash = Append(c.Intermediate_Hash, c.Message_Block)
<1> DEFINE h == Append(c.Intermediate_Hash, c.Message_Block)
<1>1. Octets!ProcessMessageBlock(c) = [c EXCEPT !.Intermediate_Hash = h, !.Message_Block = <<>>]
  BY DEF Octets!ProcessMessageBlock
<1> HIDE DEF h
<1> QED BY <1>1 DEF IsContext, SameFlags, h

\* The block that ends with the length in bits.
IsLastBlock(g, f, high, low, pp) ==
    g = [k \in 1 .. HashBlock |->
            IF k <= pp THEN f[k]
            ELSE IF k <= pp + WordOctets THEN Octets!OctetsOf(high)[k - pp]
            ELSE Octets!OctetsOf(low)[k - (pp + WordOctets)]]

\* Where the length in bits comes to be
LEMMA LastBlock ==
  ASSUME NEW f, NEW high, NEW low, NEW pp \in Nat, pp + 2 * WordOctets = HashBlock, IsSeq(f, pp)
  PROVE  IsLastBlock(SubSeq(f, 1, pp) \o Octets!OctetsOf(high) \o Octets!OctetsOf(low), f, high, low, pp)
<1> DEFINE W == WordOctets
           n == pp + W
           g == f \o Octets!OctetsOf(high)
<1>1. W \in Nat /\ n \in Nat /\ n + W = HashBlock
  BY Constants
<1>2. IsSeq(Octets!OctetsOf(high), W) /\ IsSeq(Octets!OctetsOf(low), W)
  BY DEF Octets!OctetsOf, IsSeq
<1>3. SubSeq(f, 1, pp) = f
  <2> DEFINE one == 1
  <2>1. one \in Nat /\ one >= 1 /\ one <= pp + 1
    OBVIOUS
  <2> HIDE DEF one
  <2>2. SubSeq(f, one, pp) = [i \in 1 .. pp + 1 - one |-> f[one + i - 1]]
    BY <2>1, Cut
  <2>3. SubSeq(f, 1, pp) = [i \in 1 .. pp |-> f[i]]
    BY <2>2 DEF one
  <2> QED BY <2>3 DEF IsSeq
<1>4. g = [k \in 1 .. n |-> IF k <= pp THEN f[k] ELSE Octets!OctetsOf(high)[k - pp]]
  <2> DEFINE e == Octets!OctetsOf(high)
  <2>1. IsSeq(e, W) /\ W \in Nat /\ pp \in Nat /\ IsSeq(f, pp)
    BY <1>1, <1>2
  <2> HIDE DEF e, W
  <2>2. IsJoined(f \o e, f, e, pp, W)
    BY <2>1, JoinedTo
  <2> QED BY <2>2 DEF IsJoined, e
<1>5. IsSeq(g, n)
  <2> HIDE DEF g
  <2> QED BY <1>4 DEF IsSeq
<1> HIDE DEF n, g
<1>6. g \o Octets!OctetsOf(low) = [k \in 1 .. n + W |-> IF k <= n THEN g[k] ELSE Octets!OctetsOf(low)[k - n]]
  <2> DEFINE e == Octets!OctetsOf(low)
  <2>1. IsSeq(e, W) /\ W \in Nat /\ n \in Nat /\ IsSeq(g, n)
    BY <1>1, <1>2, <1>5
  <2> HIDE DEF e, W
  <2>2. IsJoined(g \o e, g, e, n, W)
    BY <2>1, JoinedTo
  <2> QED BY <2>2 DEF IsJoined, e
<1>7. \A k \in 1 .. n + W : k <= n => g[k] = IF k <= pp THEN f[k] ELSE Octets!OctetsOf(high)[k - pp]
  BY <1>1, <1>4
<1>8. g \o Octets!OctetsOf(low)
        = [k \in 1 .. n + W |->
              IF k <= pp THEN f[k] ELSE IF k <= n THEN Octets!OctetsOf(high)[k - pp] ELSE Octets!OctetsOf(low)[k - n]]
  <2>1. \A k \in 1 .. n + W :
           (IF k <= n THEN g[k] ELSE Octets!OctetsOf(low)[k - n])
             = IF k <= pp THEN f[k] ELSE IF k <= n THEN Octets!OctetsOf(high)[k - pp] ELSE Octets!OctetsOf(low)[k - n]
    BY <1>1, <1>7 DEF n
  <2> QED BY <1>6, <2>1
<1> QED BY <1>1, <1>3, <1>8 DEF g, n, IsLastBlock

\* The steps of SHA1PadMessage, for a message that fills q blocks and r octets:
\* there is room for the length in the block begun, or it takes another.
LEMMA PaddedAsMeant ==
  ASSUME NEW c, NEW m \in Nat, Hashed(c, m), ~c.Corrupted
  PROVE  LET d == Octets!SHA1PadMessage(c)
         IN  SameFlags(c, d) /\ d.Intermediate_Hash = Octets!PaddedBlocks(m)
<1> DEFINE B == HashBlock
           W == WordOctets
           P == B - 2 * W
           high == c.Length_High
           low == c.Length_Low
           begun == [c EXCEPT !.Message_Block = Append(@, Octets!Value(128))]
<1>1. /\ B \in Nat \ {0} /\ W \in Nat /\ P \in 1 .. B /\ P + 2 * W = B
      /\ IsContext(c) /\ high \in 0 .. Octets!Word - 1 /\ low \in 0 .. Octets!Word - 1
  BY Constants DEF Hashed, Contexts, IsContext
<1>2. PICK q \in Nat, r \in 0 .. B - 1 : Reading(c, m, q, r)
  BY DEF Hashed
<1>3. m = q * B + r /\ q * B \in Nat /\ high * Octets!Word + low = 8 * m
  BY <1>1, <1>2 DEF Reading
<1>4. /\ SameFlags(c, begun) /\ begun.Intermediate_Hash = Blocks(q)
      /\ begun.Message_Block = Append(Block(q, r), Octets!Value(128))
  <2> DEFINE f == Append(c.Message_Block, Octets!Value(128))
  <2>1. begun = [c EXCEPT !.Message_Block = f]
    OBVIOUS
  <2>2. f = Append(Block(q, r), Octets!Value(128)) /\ c.Intermediate_Hash = Blocks(q)
    BY <1>2 DEF Reading
  <2> HIDE DEF f, begun
  <2>3. SameFlags(c, begun) /\ begun.Intermediate_Hash = c.Intermediate_Hash /\ begun.Message_Block = f
    BY <1>1, <2>1 DEF IsContext, SameFlags
  <2> QED BY <2>2, <2>3
<1> HIDE DEF begun, P
<1>5. /\ IsSeq(begun.Message_Block, r + 1)
      /\ \A k \in 1 .. r + 1 : begun.Message_Block[k] = IF k <= r THEN Octets!Octet("message", q * B + k) ELSE Octets!Value(128)
  <2>1. IsSeq(Block(q, r), r) /\ r \in Nat
    BY <1>2 DEF IsSeq, Block
  <2>2. Append(Block(q, r), Octets!Value(128)) = [i \in 1 .. r + 1 |-> IF i <= r THEN Block(q, r)[i] ELSE Octets!Value(128)]
    <3> DEFINE b == Block(q, r)
         e == Octets!Value(128)
    <3> HIDE DEF b, e
    <3>1. Append(b, e) = [i \in 1 .. r + 1 |-> IF i <= r THEN b[i] ELSE e]
      BY <2>1, Appended DEF b
    <3> QED BY <3>1 DEF b, e
  <2> DEFINE f == begun.Message_Block
  <2>3. f = [i \in 1 .. r + 1 |-> IF i <= r THEN Block(q, r)[i] ELSE Octets!Value(128)]
    BY <1>4, <2>2
  <2> HIDE DEF f
  <2>4. IsSeq(f, r + 1) /\ \A k \in 1 .. r + 1 : f[k] = IF k <= r THEN Block(q, r)[k] ELSE Octets!Value(128)
    BY <2>3 DEF IsSeq
  <2>5. \A k \in 1 .. r : Block(q, r)[k] = Octets!Octet("message", q * B + k)
    BY DEF Block
  <2>6. \A k \in 1 .. r + 1 : k <= r => k \in 1 .. r
    BY <2>1
  <2> QED BY <2>4, <2>5, <2>6 DEF f
<1>6. Len(c.Message_Block) = r
  BY <1>2 DEF Reading, Block
<1>7. IsSeq(Blocks(q), q)
  BY DEF IsSeq, Blocks
<1>a. \A b \in 1 .. q : Blocks(q)[b] = Block(b - 1, B)
  BY DEF Blocks
<1> DEFINE Ended(filled) == Octets!ProcessMessageBlock([filled EXCEPT !.Message_Block =
                                SubSeq(@, 1, P) \o Octets!OctetsOf(high) \o Octets!OctetsOf(low)])
<1>8. ASSUME NEW filled, SameFlags(c, filled), IsSeq(filled.Message_Block, P)
      PROVE  /\ SameFlags(c, Ended(filled))
             /\ Ended(filled).Intermediate_Hash
                  = Append(filled.Intermediate_Hash,
                           [k \in 1 .. B |-> IF k <= P THEN filled.Message_Block[k]
                                             ELSE IF k <= P + W THEN Octets!OctetsOf(high)[k - P]
                                             ELSE Octets!OctetsOf(low)[k - (P + W)]])
  <2> DEFINE f == filled.Message_Block
             final == SubSeq(f, 1, P) \o Octets!OctetsOf(high) \o Octets!OctetsOf(low)
             d == [filled EXCEPT !.Message_Block = final]
  <2>1. final = [k \in 1 .. B |-> IF k <= P THEN f[k] ELSE IF k <= P + W THEN Octets!OctetsOf(high)[k - P]
                                 ELSE Octets!OctetsOf(low)[k - (P + W)]]
    <3>1. P \in Nat /\ P + 2 * WordOctets = HashBlock /\ IsSeq(f, P)
      BY <1>1, <1>8
    <3> HIDE DEF f
    <3>2. IsLastBlock(final, f, high, low, P)
      BY <3>1, LastBlock
    <3> HIDE DEF final
    <3> QED BY <3>2 DEF IsLastBlock
  <2>2. Ended(filled) = Octets!ProcessMessageBlock(d)
    OBVIOUS
  <2> HIDE DEF final
  <2>3. SameFlags(c, d) /\ IsContext(d) /\ d.Message_Block = final /\ d.Intermediate_Hash = filled.Intermediate_Hash
    BY <1>8 DEF SameFlags, IsContext
  <2> HIDE DEF d, Ended
  <2>4. /\ SameFlags(d, Octets!ProcessMessageBlock(d))
        /\ Octets!ProcessMessageBlock(d).Intermediate_Hash = Append(d.Intermediate_Hash, d.Message_Block)
    BY <2>3, Processed
  <2> QED BY <2>1, <2>2, <2>3, <2>4 DEF SameFlags
<1>9. CASE r < P
  <2> DEFINE zeros == P - r - 1
             filled == Octets!Filled(begun, P)
             E(i) == PaddedOctet(m, zeros, high, low, i)
  <2>1. zeros \in 0 .. B - 1 /\ q + 1 \in Nat /\ r < HashBlock - 2 * WordOctets
        /\ zeros = HashBlock - 2 * WordOctets - r - 1
    BY <1>1, <1>2, <1>9 DEF P
  <2>2. Octets!PaddedBlocks(m) = [b \in 1 .. q + 1 |-> [k \in 1 .. B |-> E((b - 1) * B + k)]]
    <3> DEFINE count == q + 1
    <3>1. /\ zeros \in 0 .. HashBlock - 1 /\ count \in Nat /\ q \in Nat /\ r \in 0 .. HashBlock - 1
          /\ r < HashBlock - 2 * WordOctets
          /\ zeros = HashBlock - 2 * WordOctets - r - 1 /\ count = q + 1
          /\ m = q * HashBlock + r /\ high * Octets!Word + low = 8 * m
      BY <1>1, <1>2, <1>3, <2>1
    <3> HIDE DEF zeros, count, high, low
    <3>2. PaddedIn(m, count, zeros, high, low)
      BY <1>1, <3>1, PaddedInBlocks
    <3> QED BY <3>2 DEF PaddedIn, count
  <2>3. Octets!SHA1PadMessage(c) = Ended(filled)
    <3>1. ~(Len(c.Message_Block) > P - 1)
      BY <1>1, <1>2, <1>6, <1>9
    <3> QED BY <3>1 DEF Octets!SHA1PadMessage, begun, P
  <2>4. /\ SameFlags(c, filled) /\ filled.Intermediate_Hash = Blocks(q)
        /\ filled.Message_Block = [k \in 1 .. P |-> IF k <= r + 1 THEN begun.Message_Block[k] ELSE Octets!Value(0)]
    <3>1. IsContext(begun) /\ r + 1 \in Nat /\ P \in Nat /\ r + 1 <= P
      BY <1>1, <1>2, <1>4, <1>9 DEF SameFlags
    <3>2. /\ SameFlags(begun, filled) /\ filled.Intermediate_Hash = begun.Intermediate_Hash
          /\ filled.Message_Block = [k \in 1 .. P |-> IF k <= r + 1 THEN begun.Message_Block[k] ELSE Octets!Value(0)]
      BY <1>5, <3>1, FilledUp
    <3> HIDE DEF filled
    <3> QED BY <1>4, <3>2 DEF SameFlags
  <2> HIDE DEF filled, zeros
  <2> DEFINE g == [k \in 1 .. B |-> IF k <= P THEN filled.Message_Block[k]
                                     ELSE IF k <= P + W THEN Octets!OctetsOf(high)[k - P]
                                     ELSE Octets!OctetsOf(low)[k - (P + W)]]
  <2>5. IsSeq(filled.Message_Block, P)
    BY <2>4 DEF IsSeq
  <2>6. SameFlags(c, Ended(filled)) /\ Ended(filled).Intermediate_Hash = Append(Blocks(q), g)
    BY <1>8, <2>4, <2>5
  <2>7. g = [k \in 1 .. B |-> E(q * B + k)]
    <3> SUFFICES ASSUME NEW k \in 1 .. B PROVE g[k] = E(q * B + k)
      OBVIOUS
    <3> DEFINE x == q * B + k
               before == q * B
    <3>1. m = before + r /\ x = before + k /\ before \in Nat
      BY <1>3
    <3>2. m + zeros + 1 = before + P
      BY <1>1, <1>2, <1>9, <3>1 DEF zeros
    <3>3. /\ k <= P => filled.Message_Block[k] = IF k <= r + 1 THEN begun.Message_Block[k] ELSE Octets!Value(0)
          /\ k <= r + 1 => begun.Message_Block[k] = IF k <= r THEN Octets!Octet("message", x) ELSE Octets!Value(128)
      BY <1>1, <1>2, <1>5, <2>4
    <3>4. zeros \in Nat /\ r \in Nat /\ P \in Nat /\ W \in Nat /\ r < P
      BY <1>1, <1>2, <1>9, <2>1
    <3>5. g[k] = IF k <= P THEN filled.Message_Block[k]
                 ELSE IF k <= P + W THEN Octets!OctetsOf(high)[k - P]
                 ELSE Octets!OctetsOf(low)[k - (P + W)]
      OBVIOUS
    <3> HIDE DEF x, before, g
    <3>6. CASE k <= r
      <4>1. g[k] = Octets!Octet("message", x) /\ x <= m
        BY <3>1, <3>3, <3>4, <3>5, <3>6
      <4> QED BY <4>1 DEF PaddedOctet, x
    <3>7. CASE k = r + 1
      <4>1. g[k] = Octets!Value(128) /\ x = m + 1 /\ ~(x <= m)
        BY <3>1, <3>3, <3>4, <3>5, <3>7
      <4> QED BY <4>1 DEF PaddedOctet, x
    <3>8. CASE k > r + 1 /\ k <= P
      <4>1. g[k] = Octets!Value(0) /\ ~(x <= m) /\ x # m + 1 /\ x <= m + 1 + zeros
        BY <3>1, <3>2, <3>3, <3>4, <3>5, <3>8
      <4> QED BY <4>1 DEF PaddedOctet, x
    <3>9. CASE k > P /\ k <= P + W
      <4>1. /\ g[k] = Octets!OctetsOf(high)[k - P] /\ k - P = x - (m + 1 + zeros)
            /\ ~(x <= m) /\ x # m + 1 /\ ~(x <= m + 1 + zeros) /\ x <= m + 1 + zeros + W
        BY <3>1, <3>2, <3>4, <3>5, <3>9
      <4> QED BY <4>1 DEF PaddedOctet, x
    <3>10. CASE k > P + W
      <4>1. /\ g[k] = Octets!OctetsOf(low)[k - (P + W)] /\ k - (P + W) = x - (m + 1 + zeros + W)
            /\ ~(x <= m) /\ x # m + 1 /\ ~(x <= m + 1 + zeros) /\ ~(x <= m + 1 + zeros + W)
        BY <3>1, <3>2, <3>4, <3>5, <3>10
      <4> QED BY <4>1 DEF PaddedOctet, x
    <3> QED BY <3>4, <3>6, <3>7, <3>8, <3>9, <3>10
  <2> HIDE DEF g, Ended
  <2>8. Append(Blocks(q), g) = [b \in 1 .. q + 1 |-> IF b <= q THEN Blocks(q)[b] ELSE g]
    <3> DEFINE f == Blocks(q)
    <3>1. IsSeq(f, q) /\ q \in Nat
      BY <1>2, <1>7
    <3> HIDE DEF f
    <3>2. Append(f, g) = [b \in 1 .. q + 1 |-> IF b <= q THEN f[b] ELSE g]
      BY <3>1, Appended
    <3> QED BY <3>2 DEF f
  <2>9. ASSUME NEW b \in 1 .. q + 1
        PROVE  (IF b <= q THEN Blocks(q)[b] ELSE g) = [k \in 1 .. B |-> E((b - 1) * B + k)]
    <3>1. ASSUME b <= q PROVE Blocks(q)[b] = [k \in 1 .. B |-> E((b - 1) * B + k)]
      <4>1. (b - 1) * B + B <= q * B /\ (b - 1) * B \in Nat
        BY <1>1, <1>2, <3>1
      <4>2. \A k \in 1 .. B : E((b - 1) * B + k) = Octets!Octet("message", (b - 1) * B + k)
        BY <1>1, <1>2, <1>3, <4>1 DEF PaddedOctet
      <4>3. Blocks(q)[b] = [k \in 1 .. B |-> Octets!Octet("message", (b - 1) * B + k)]
        <5>1. b \in 1 .. q
          BY <1>2, <3>1
        <5> QED BY <1>a, <5>1, Zenon DEF Block
      <4> HIDE DEF E
      <4> QED BY <4>2, <4>3
    <3>2. ASSUME b = q + 1 PROVE g = [k \in 1 .. B |-> E((b - 1) * B + k)]
      <4>1. b - 1 = q
        BY <1>2, <3>2
      <4> HIDE DEF E
      <4> QED BY <2>7, <4>1
    <3>3. b <= q \/ (b = q + 1 /\ ~(b <= q))
      BY <1>2
    <3> HIDE DEF E
    <3> QED BY <3>1, <3>2, <3>3
  <2> HIDE DEF E
  <2>10. Append(Blocks(q), g) = Octets!PaddedBlocks(m)
    BY <2>2, <2>8, <2>9
  <2> QED BY <2>3, <2>6, <2>10
<1>10. CASE r >= P
  <2> DEFINE zeros == 2 * B - 2 * W - r - 1
             full == Octets!Filled(begun, B)
             processed == Octets!ProcessMessageBlock(full)
             filled == Octets!Filled(processed, P)
             E(i) == PaddedOctet(m, zeros, high, low, i)
  <2>1. zeros \in 0 .. B - 1 /\ zeros = B - (r + 1) + P
    BY <1>1, <1>2, <1>10 DEF P
  <2>2. Octets!PaddedBlocks(m) = [b \in 1 .. q + 2 |-> [k \in 1 .. B |-> E((b - 1) * B + k)]]
    <3> DEFINE count == q + 2
    <3>1. /\ zeros \in 0 .. HashBlock - 1 /\ count \in Nat /\ q \in Nat /\ r \in 0 .. HashBlock - 1
          /\ r >= HashBlock - 2 * WordOctets
          /\ zeros = 2 * HashBlock - 2 * WordOctets - r - 1 /\ count = q + 2
          /\ m = q * HashBlock + r /\ high * Octets!Word + low = 8 * m
      BY <1>1, <1>2, <1>3, <1>10, <2>1 DEF P
    <3> HIDE DEF zeros, count, high, low
    <3>2. PaddedIn(m, count, zeros, high, low)
      BY <1>1, <3>1, PaddedInBlocks
    <3> QED BY <3>2 DEF PaddedIn, count
  <2>3. Octets!SHA1PadMessage(c) = Ended(filled)
    <3>1. Len(c.Message_Block) > P - 1
      BY <1>1, <1>2, <1>6, <1>10
    <3> QED BY <3>1 DEF Octets!SHA1PadMessage, begun, P
  <2>4. /\ SameFlags(c, full) /\ full.Intermediate_Hash = Blocks(q)
        /\ full.Message_Block = [k \in 1 .. B |-> IF k <= r + 1 THEN begun.Message_Block[k] ELSE Octets!Value(0)]
    <3>1. IsContext(begun) /\ r + 1 \in Nat /\ B \in Nat /\ r + 1 <= B
      BY <1>1, <1>2, <1>4 DEF SameFlags
    <3>2. /\ SameFlags(begun, full) /\ full.Intermediate_Hash = begun.Intermediate_Hash
          /\ full.Message_Block = [k \in 1 .. B |-> IF k <= r + 1 THEN begun.Message_Block[k] ELSE Octets!Value(0)]
      BY <1>5, <3>1, FilledUp
    <3> HIDE DEF full
    <3> QED BY <1>4, <3>2 DEF SameFlags
  <2> DEFINE g == full.Message_Block
  <2>5. /\ SameFlags(c, processed) /\ processed.Message_Block = <<>>
        /\ processed.Intermediate_Hash = Append(Blocks(q), g)
    <3>1. IsContext(full)
      BY <2>4 DEF SameFlags
    <3> HIDE DEF full
    <3>2. /\ SameFlags(full, processed) /\ processed.Message_Block = <<>>
          /\ processed.Intermediate_Hash = Append(full.Intermediate_Hash, full.Message_Block)
      BY <3>1, Processed
    <3> HIDE DEF processed
    <3> QED BY <2>4, <3>2 DEF SameFlags
  <2> HIDE DEF full, processed, zeros
  <2>6. /\ SameFlags(c, filled) /\ filled.Intermediate_Hash = processed.Intermediate_Hash
        /\ filled.Message_Block = [k \in 1 .. P |-> Octets!Value(0)]
    <3> DEFINE none == 0
    <3>1. IsContext(processed) /\ none \in Nat /\ P \in Nat /\ none <= P /\ IsSeq(processed.Message_Block, none)
      BY <1>1, <2>5 DEF SameFlags, IsSeq
    <3> HIDE DEF none
    <3>2. /\ SameFlags(processed, filled) /\ filled.Intermediate_Hash = processed.Intermediate_Hash
          /\ filled.Message_Block = [k \in 1 .. P |-> IF k <= none THEN processed.Message_Block[k] ELSE Octets!Value(0)]
      BY <3>1, FilledUp
    <3> HIDE DEF filled
    <3>3. filled.Message_Block = [k \in 1 .. P |-> Octets!Value(0)]
      BY <1>1, <3>2 DEF none
    <3> QED BY <2>5, <3>2, <3>3 DEF SameFlags
  <2> HIDE DEF filled
  <2> DEFINE h == [k \in 1 .. B |-> IF k <= P THEN filled.Message_Block[k]
                                     ELSE IF k <= P + W THEN Octets!OctetsOf(high)[k - P]
                                     ELSE Octets!OctetsOf(low)[k - (P + W)]]
  <2>7. IsSeq(filled.Message_Block, P)
    BY <2>6 DEF IsSeq
  <2>8. SameFlags(c, Ended(filled)) /\ Ended(filled).Intermediate_Hash = Append(processed.Intermediate_Hash, h)
    BY <1>8, <2>6, <2>7
  <2>9. g = [k \in 1 .. B |-> E(q * B + k)]
    <3>1. \A k \in 1 .. B : (IF k <= r + 1 THEN begun.Message_Block[k] ELSE Octets!Value(0)) = E(q * B + k)
      BY <1>1, <1>2, <1>3, <1>5, <2>1 DEF PaddedOctet
    <3> HIDE DEF E
    <3> QED BY <2>4, <3>1
  <2>10. h = [k \in 1 .. B |-> E((q + 1) * B + k)]
    <3>1. (q + 1) * B = q * B + B
      BY <1>1, <1>2
    <3>2. \A k \in 1 .. B : h[k] = E(q * B + B + k)
      <4> TAKE k \in 1 .. B
      <4>1. CASE k <= P
        BY <1>1, <1>2, <1>3, <2>1, <2>6, <4>1 DEF PaddedOctet
      <4>2. CASE k > P
        BY <1>1, <1>2, <1>3, <2>1, <4>2 DEF PaddedOctet
      <4> QED BY <1>1, <4>1, <4>2
    <3> HIDE DEF E
    <3> QED BY <3>1, <3>2
  <2> HIDE DEF g, h, Ended
  <2> DEFINE f == Blocks(q)
             fg == Append(f, g)
  <2>11. IsSeq(f, q) /\ q \in Nat /\ q + 1 \in Nat
    BY <1>2, <1>7
  <2>12. fg = [b \in 1 .. q + 1 |-> IF b <= q THEN f[b] ELSE g]
    <3> HIDE DEF f
    <3> QED BY <2>11, Appended
  <2>13. Append(fg, h) = [b \in 1 .. q + 2 |-> IF b <= q + 1 THEN fg[b] ELSE h]
    <3> DEFINE n == q + 1
    <3>1. IsSeq(fg, n) /\ n \in Nat
      BY <2>11, <2>12 DEF IsSeq
    <3> HIDE DEF fg, n
    <3>2. Append(fg, h) = [b \in 1 .. n + 1 |-> IF b <= n THEN fg[b] ELSE h]
      BY <3>1, Appended
    <3>3. n + 1 = q + 2
      BY <2>11 DEF n
    <3> QED BY <3>2, <3>3 DEF n
  <2>14. ASSUME NEW b \in 1 .. q + 2
         PROVE  (IF b <= q + 1 THEN fg[b] ELSE h) = [k \in 1 .. B |-> E((b - 1) * B + k)]
    <3>1. ASSUME b <= q PROVE fg[b] = [k \in 1 .. B |-> E((b - 1) * B + k)] /\ b <= q + 1
      <4>1. (b - 1) * B + B <= q * B /\ (b - 1) * B \in Nat
        BY <1>1, <1>2, <3>1
      <4>2. \A k \in 1 .. B : E((b - 1) * B + k) = Octets!Octet("message", (b - 1) * B + k)
        BY <1>1, <1>2, <1>3, <4>1 DEF PaddedOctet
      <4>3. f[b] = [k \in 1 .. B |-> Octets!Octet("message", (b - 1) * B + k)]
        <5>1. b \in 1 .. q
          BY <1>2, <3>1
        <5> QED BY <1>a, <5>1, Zenon DEF Block
      <4> HIDE DEF E, f, fg
      <4>4. fg[b] = f[b] /\ b <= q + 1
        BY <2>11, <2>12, <3>1
      <4> QED BY <4>2, <4>3, <4>4
    <3>2. ASSUME b = q + 1 PROVE fg[b] = [k \in 1 .. B |-> E((b - 1) * B + k)]
      <4>1. b - 1 = q
        BY <1>2, <3>2
      <4> HIDE DEF E, f, fg
      <4>2. fg[b] = g
        BY <2>11, <2>12, <3>2
      <4> QED BY <2>9, <4>1, <4>2
    <3>3. ASSUME b = q + 2 PROVE h = [k \in 1 .. B |-> E((b - 1) * B + k)]
      <4>1. b - 1 = q + 1
        BY <1>2, <3>3
      <4> HIDE DEF E
      <4> QED BY <2>10, <4>1
    <3>4. b <= q \/ (b = q + 1 /\ b <= q + 1) \/ (b = q + 2 /\ ~(b <= q + 1))
      BY <1>2
    <3> HIDE DEF E, fg
    <3> QED BY <3>1, <3>2, <3>3, <3>4
  <2> HIDE DEF E
  <2>15. Append(fg, h) = Octets!PaddedBlocks(m)
    <3> HIDE DEF fg
    <3> QED BY <2>2, <2>13, <2>14
  <2> QED BY <2>3, <2>5, <2>6, <2>8, <2>15
<1> QED BY <1>1, <1>2, <1>9, <1>10

\* The hash is made once, from all of the message; what is said of it stays so.
HashInv ==
    /\ message \in Nat
    /\ digest = [code |-> digest.code, hash |-> digest.hash]
    /\ IsContext(context)
    /\ \/ Hashed(context, message)
       \/ context.Computed /\ context.Intermediate_Hash = Octets!PaddedBlocks(message)
    /\ digest.code = "success" => context.Computed /\ digest.hash = context.Intermediate_Hash
    /\ digest.code = "error" => context.Computed \/ message * 8 >= Octets!Word * Octets!Word

\* The hash, the octets to encode and the payload
OctetsInv ==
    /\ HashInv
    /\ in \in Seq(0 .. 255)
    /\ \/ frame.length = 0
       \/ frame.word \in {4, 8} /\ frame.offset \in 0 .. frame.word - 1 /\ frame.length \in Nat

\* SHA1Reset
LEMMA OctetsInit == Octets!Init => OctetsInv
<1> SUFFICES ASSUME Octets!Init PROVE OctetsInv
  OBVIOUS
<1>1. context = Octets!Context /\ message = 0 /\ in = <<>> /\ frame.length = 0
  BY DEF Octets!Init
<1>2. digest = [code |-> digest.code, hash |-> digest.hash] /\ digest.code = "none"
  BY DEF Octets!Init
<1>3. Octets!Context \in Contexts /\ ~Octets!Context.Computed /\ ~Octets!Context.Corrupted /\ IsContext(Octets!Context)
  BY Constants DEF Octets!Context, Contexts, IsContext
<1>4. Reading(Octets!Context, 0, 0, 0)
  <2>1. Block(0, 0) = <<>> /\ Blocks(0) = <<>>
    BY DEF Block, Blocks
  <2> QED BY <2>1, Constants DEF Reading, Octets!Context
<1>5. Hashed(Octets!Context, 0)
  <2>1. 0 \in Nat /\ 0 \in 0 .. HashBlock - 1
    BY Constants
  <2> QED BY <1>3, <1>4, <2>1 DEF Hashed
<1>6. in \in Seq(0 .. 255)
  BY <1>1
<1> QED BY <1>1, <1>2, <1>3, <1>5, <1>6 DEF OctetsInv, HashInv

\* SHA1Input, before and after the hash was made
LEMMA InputKeeps ==
  ASSUME HashInv, NEW amount \in Nat, Octets!SHA1Input(amount)
  PROVE  HashInv'
<1>1. digest' = digest /\ message \in Nat /\ IsContext(context)
  BY DEF HashInv, Octets!SHA1Input
<1>2. CASE context.Computed
  <2>1. context' = [context EXCEPT !.Corrupted = TRUE] /\ message' = message
    BY <1>2 DEF Octets!SHA1Input
  <2>2. /\ IsContext(context') /\ context'.Computed = context.Computed
        /\ context'.Intermediate_Hash = context.Intermediate_Hash
    BY <1>1, <2>1 DEF IsContext
  <2>3. context.Intermediate_Hash = Octets!PaddedBlocks(message)
    BY <1>2 DEF HashInv, Hashed
  <2>4. Octets!PaddedBlocks(message)' = Octets!PaddedBlocks(message')
    BY Zenon DEF Octets!PaddedBlocks
  <2> QED BY <1>1, <1>2, <2>1, <2>2, <2>3 DEF HashInv
<1>3. CASE ~context.Computed
  <2>1. context' = Octets!Taken(context, message, amount) /\ message' = message + amount
    BY <1>3 DEF Octets!SHA1Input
  <2>2. Hashed(context, message)
    BY <1>3 DEF HashInv
  <2>3. Hashed(context', message') /\ message' \in Nat
    BY <1>1, <2>1, <2>2, AllTaken
  <2>4. IsContext(context')
    BY <2>3 DEF Hashed, Contexts, IsContext
  <2>5. digest.code # "success"
    BY <1>3 DEF HashInv
  <2>6. digest.code = "error" => message' * 8 >= Octets!Word * Octets!Word
    <3>1. digest.code = "error" => message * 8 >= Octets!Word * Octets!Word
      BY <1>3 DEF HashInv
    <3>2. Octets!Word * Octets!Word \in Nat
      BY Constants
    <3> QED BY <1>1, <2>1, <3>1, <3>2
  <2>7. digest = [code |-> digest.code, hash |-> digest.hash]
    BY DEF HashInv
  <2> QED BY <1>1, <2>3, <2>4, <2>5, <2>6, <2>7 DEF HashInv
<1> QED BY <1>2, <1>3

\* SHA1Result, asked once or again
LEMMA ResultKeeps ==
  ASSUME HashInv, Octets!SHA1Result
  PROVE  HashInv'
<1>1. message' = message /\ message \in Nat /\ IsContext(context)
  BY DEF HashInv, Octets!SHA1Result
<1>2. CASE context.Corrupted
  <2>1. digest' = [digest EXCEPT !.code = "error"] /\ context' = context
    BY <1>2 DEF Octets!SHA1Result
  <2>2. digest'.code = "error" /\ digest' = [code |-> digest'.code, hash |-> digest'.hash]
    BY <2>1 DEF HashInv
  <2>3. context.Computed \/ message * 8 >= Octets!Word * Octets!Word
    BY <1>2 DEF HashInv, Hashed
  <2> QED BY <1>1, <2>1, <2>2, <2>3 DEF HashInv
<1>3. CASE ~context.Corrupted
  <2> DEFINE padded == Octets!SHA1PadMessage(context)
             finished == [padded EXCEPT !.Length_Low = 0, !.Length_High = 0, !.Computed = TRUE]
  <2>1. context' = IF context.Computed THEN context ELSE finished
    BY <1>3 DEF Octets!SHA1Result
  <2>2. /\ digest'.code = "success" /\ digest'.hash = context'.Intermediate_Hash
        /\ digest' = [code |-> digest'.code, hash |-> digest'.hash]
    BY <1>3 DEF Octets!SHA1Result
  <2> HIDE DEF padded
  <2>3. CASE context.Computed
    <3>1. context.Intermediate_Hash = Octets!PaddedBlocks(message)
      BY <2>3 DEF HashInv, Hashed
    <3> QED BY <1>1, <2>1, <2>2, <2>3, <3>1 DEF HashInv
  <2>4. CASE ~context.Computed
    <3>1. Hashed(context, message)
      BY <2>4 DEF HashInv
    <3>2. SameFlags(context, padded) /\ padded.Intermediate_Hash = Octets!PaddedBlocks(message)
      BY <1>1, <1>3, <3>1, PaddedAsMeant DEF padded
    <3>3. /\ IsContext(finished) /\ finished.Computed = TRUE
          /\ finished.Intermediate_Hash = padded.Intermediate_Hash
      <4>1. IsContext(padded) /\ finished = [padded EXCEPT !.Length_Low = 0, !.Length_High = 0, !.Computed = TRUE]
        BY <3>2 DEF SameFlags
      <4> HIDE DEF finished
      <4> QED BY <4>1 DEF IsContext
    <3> HIDE DEF finished
    <3> QED BY <1>1, <2>1, <2>2, <2>4, <3>2, <3>3 DEF HashInv
  <2> QED BY <2>3, <2>4
<1> QED BY <1>2, <1>3

\* OctetsInv is inductive.
LEMMA OctetsStep == OctetsInv /\ [Octets!Next]_(Octets!vars) => OctetsInv'
<1> SUFFICES ASSUME OctetsInv, [Octets!Next]_(Octets!vars) PROVE OctetsInv'
  OBVIOUS
<1>1. ASSUME NEW amount \in Inputs, Octets!SHA1Input(amount) PROVE OctetsInv'
  <2>1. amount \in Nat
    BY HandshakeAssumption DEF Octets!ConstantsAssumption
  <2>2. HashInv'
    BY <1>1, <2>1, InputKeeps DEF OctetsInv
  <2> QED BY <1>1, <2>2 DEF OctetsInv, Octets!SHA1Input
<1>2. CASE Octets!SHA1Result
  <2>1. HashInv'
    BY <1>2, ResultKeeps DEF OctetsInv
  <2> QED BY <1>2, <2>1 DEF OctetsInv, Octets!SHA1Result
<1>3. CASE Octets!Encode
  <2>1. PICK octet \in InOctets : in' = Append(in, octet)
    BY <1>3 DEF Octets!Encode
  <2>2. octet \in 0 .. 255 /\ in \in Seq(0 .. 255)
    BY <2>1, HandshakeAssumption DEF Octets!ConstantsAssumption, OctetsInv
  <2>3. in' \in Seq(0 .. 255)
    BY <2>1, <2>2
  <2>4. context' = context /\ message' = message /\ digest' = digest /\ frame' = frame
    BY <1>3 DEF Octets!Encode
  <2> QED BY <2>3, <2>4 DEF OctetsInv, HashInv
<1>4. CASE Octets!Unmask
  <2>1. context' = context /\ message' = message /\ digest' = digest /\ in' = in
    BY <1>4 DEF Octets!Unmask
  <2>2. PICK word \in FastWords, amount \in 1 .. MaxPayload :
           \E offset \in 0 .. word - 1 : frame' = [word |-> word, offset |-> offset, length |-> amount]
    BY <1>4 DEF Octets!Unmask
  <2>3. word \in {4, 8} /\ amount \in Nat
    BY <2>2, HandshakeAssumption DEF Octets!ConstantsAssumption
  <2> QED BY <2>1, <2>2, <2>3 DEF OctetsInv, HashInv
<1>5. CASE UNCHANGED Octets!vars
  BY <1>5 DEF Octets!vars, OctetsInv, HashInv
<1> QED BY <1>1, <1>2, <1>3, <1>4, <1>5 DEF Octets!Next

\* What HandshakeSound asks of Octets follows from OctetsInv.
LEMMA OctetsImplied == OctetsInv => Octets!HashedAsPadded /\ Octets!EncodedBitsKept /\ Octets!UnmaskedOnce
<1> SUFFICES ASSUME OctetsInv PROVE Octets!HashedAsPadded /\ Octets!EncodedBitsKept /\ Octets!UnmaskedOnce
  OBVIOUS
<1>1. Octets!HashedAsPadded
  BY DEF OctetsInv, HashInv, Octets!HashedAsPadded, Hashed
<1>2. Octets!EncodedBitsKept
  BY EncodedAlways DEF OctetsInv
<1>3. Octets!UnmaskedOnce
  <2>1. CASE frame.length = 0
    BY <2>1 DEF Octets!UnmaskedOnce
  <2>2. CASE frame.length # 0
    <3> DEFINE word == frame.word
               offset == frame.offset
               amount == frame.length
    <3>1. word \in {4, 8} /\ offset \in 0 .. word - 1 /\ amount \in Nat
      BY <2>2 DEF OctetsInv
    <3> SUFFICES \A i \in 0 .. amount - 1 : Octets!MaskOctets(word, offset, amount)[i] = {i % 4}
      BY DEF Octets!UnmaskedOnce
    <3> HIDE DEF word, offset, amount
    <3> QED BY <3>1, UnmaskedAlways
  <2> QED BY <2>1, <2>2
<1> QED BY <1>1, <1>2, <1>3
=============================================================================
