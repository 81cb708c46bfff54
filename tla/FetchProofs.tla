----------------------------- MODULE FetchProofs ----------------------------
(***************************************************************************)
(* Proofs about Fetch for any peers, paths, values, fetch ids and groups,  *)
(* any initial size of the fetcher tables and any number of failures.      *)
(***************************************************************************)
EXTENDS Fetch, FiniteSetTheorems, SequenceTheorems, WellFoundedInduction, TLAPS

-----------------------------------------------------------------------------
\* Lists: what list_add_tail and list_del make of a list without repetition.

\* list_add_tail: one more member, at the end.  A list without repetitions
\* stays one when the member is new.
LEMMA Appended ==
  ASSUME NEW S, NEW s \in Seq(S), NEW x \in S
  PROVE  /\ Append(s, x) \in Seq(S)
         /\ ToSet(Append(s, x)) = ToSet(s) \cup {x}
         /\ IsInjective(s) /\ x \notin ToSet(s) => IsInjective(Append(s, x))
<1> DEFINE t == Append(s, x)
<1>1. t \in Seq(S) /\ Len(t) = Len(s) + 1 /\ Len(s) \in Nat
  OBVIOUS
<1>2. /\ DOMAIN t = 1 .. Len(s) + 1 /\ DOMAIN s = 1 .. Len(s)
      /\ \A i \in DOMAIN s : t[i] = s[i]
      /\ t[Len(s) + 1] = x
  OBVIOUS
<1> HIDE DEF t
<1>3. ToSet(t) = ToSet(s) \cup {x}
  <2>1. \A i \in DOMAIN t : t[i] \in ToSet(s) \cup {x}
    BY <1>1, <1>2 DEF ToSet
  <2>2. \A i \in DOMAIN s : s[i] \in ToSet(t)
    BY <1>1, <1>2 DEF ToSet
  <2>3. x \in ToSet(t)
    BY <1>1, <1>2 DEF ToSet
  <2> QED BY <2>1, <2>2, <2>3 DEF ToSet
<1>4. IsInjective(s) /\ x \notin ToSet(s) => IsInjective(t)
  BY <1>1, <1>2 DEF IsInjective, ToSet
<1> QED BY <1>1, <1>3, <1>4 DEF t

\* list_del of the i-th member: the ones behind it move up.
LEMMA RemovedAt ==
  ASSUME NEW S, NEW s \in Seq(S), NEW i \in DOMAIN s
  PROVE  /\ RemoveAt(s, i) \in Seq(S)
         /\ DOMAIN RemoveAt(s, i) = 1 .. Len(s) - 1
         /\ \A k \in DOMAIN RemoveAt(s, i) :
               RemoveAt(s, i)[k] = IF k < i THEN s[k] ELSE s[k + 1]
<1> DEFINE u == SubSeq(s, 1, i - 1)
           v == SubSeq(s, i + 1, Len(s))
<1>1. Len(s) \in Nat /\ i \in 1 .. Len(s)
  OBVIOUS
<1>2. /\ u \in Seq(S) /\ Len(u) = i - 1
      /\ \A k \in 1 .. i - 1 : u[k] = s[k]
  BY <1>1
<1>3. /\ v \in Seq(S) /\ Len(v) = Len(s) - i
      /\ \A k \in 1 .. Len(s) - i : v[k] = s[k + i]
  BY <1>1
<1> HIDE DEF u, v
<1> DEFINE r == u \o v
<1>4. r \in Seq(S)
  BY <1>2, <1>3
<1>5. /\ Len(r) = Len(u) + Len(v)
      /\ \A k \in 1 .. Len(u) + Len(v) :
            r[k] = IF k <= Len(u) THEN u[k] ELSE v[k - Len(u)]
  BY <1>2, <1>3, ConcatProperties
<1> HIDE DEF r
<1>6. /\ DOMAIN r = 1 .. Len(s) - 1
      /\ \A k \in 1 .. Len(s) - 1 :
            r[k] = IF k <= i - 1 THEN u[k] ELSE v[k - (i - 1)]
  <2>1. Len(u) = i - 1 /\ Len(u) + Len(v) = Len(s) - 1
    BY <1>1, <1>2, <1>3
  <2>2. DOMAIN r = 1 .. Len(r)
    BY <1>4
  <2> QED BY <1>5, <2>1, <2>2
<1>7. ASSUME NEW k \in 1 .. Len(s) - 1
      PROVE  r[k] = IF k < i THEN s[k] ELSE s[k + 1]
  <2>1. CASE k <= i - 1
    <3>1. r[k] = u[k] /\ u[k] = s[k]
      BY <1>1, <1>2, <1>6, <2>1
    <3> QED BY <1>1, <2>1, <3>1
  <2>2. CASE k > i - 1
    <3>1. r[k] = v[k - (i - 1)] /\ k - (i - 1) \in 1 .. Len(s) - i
      BY <1>1, <1>6, <2>2
    <3>2. v[k - (i - 1)] = s[k - (i - 1) + i]
      BY <1>3, <3>1
    <3>3. k - (i - 1) + i = k + 1
      BY <1>1
    <3> QED BY <1>1, <2>2, <3>1, <3>2, <3>3
  <2> QED BY <1>1, <2>1, <2>2
<1>8. RemoveAt(s, i) = r
  BY DEF RemoveAt, u, v, r
<1> QED BY <1>4, <1>6, <1>7, <1>8

\* The least number of a set of numbers
LEMMA LeastExists ==
  ASSUME NEW S, S \subseteq Nat, S # {}
  PROVE  \E n \in S : \A k \in S : n <= k
<1>1. \E n \in S : \A k \in S : ~(<<k, n>> \in OpToRel(<, Nat))
  BY NatLessThanWellFounded, WFMin
<1>2. \E n \in S : \A k \in S : ~(k \in Nat /\ n \in Nat /\ k < n)
  BY <1>1, Zenon DEF OpToRel
<1> QED BY <1>2

\* list_del from a list without repetitions takes the member out of it.
LEMMA RemovedFrom ==
  ASSUME NEW S, NEW s \in Seq(S), NEW i \in DOMAIN s, IsInjective(s)
  PROVE  ToSet(RemoveAt(s, i)) = ToSet(s) \ {s[i]} /\ IsInjective(RemoveAt(s, i))
<1> DEFINE r == RemoveAt(s, i)
<1>1. /\ DOMAIN r = 1 .. Len(s) - 1
      /\ \A k \in DOMAIN r : r[k] = IF k < i THEN s[k] ELSE s[k + 1]
  BY RemovedAt
<1>2. DOMAIN s = 1 .. Len(s) /\ Len(s) \in Nat
  OBVIOUS
<1> HIDE DEF r
<1>3. IsInjective(r)
  BY <1>1, <1>2 DEF IsInjective
<1>4. \A k \in DOMAIN r : r[k] \in ToSet(s) \ {s[i]}
  BY <1>1, <1>2 DEF IsInjective, ToSet
<1>5. ASSUME NEW k \in DOMAIN s, k # i PROVE s[k] \in ToSet(r)
  <2>1. CASE k < i
    BY <1>1, <1>2, <2>1 DEF ToSet
  <2>2. CASE k > i
    <3>1. k - 1 \in DOMAIN r /\ r[k - 1] = s[k]
      BY <1>1, <1>2, <2>2
    <3> QED BY <3>1 DEF ToSet
  <2> QED BY <1>2, <1>5, <2>1, <2>2
<1>6. ToSet(r) = ToSet(s) \ {s[i]}
  BY <1>4, <1>5 DEF ToSet
<1> QED BY <1>3, <1>6 DEF r

-----------------------------------------------------------------------------
\* Fetcher tables: what add_fetch_to_state makes of one.

Tables == Seq(FetchRecord \cup {NoFetch})

\* No two of the fetches have the same client.
DistinctClients(fs) ==
    \A f, g \in fs : f.peer = g.peer /\ f.id = g.id => f = g

\* A slot each for the fetches fs, and a size add_fetch_to_state can give.
Holds(table, fs) ==
    /\ table \in Tables
    /\ Len(table) >= InitialTableSize
    /\ Len(table) = InitialTableSize \/ Len(table) < 2 * Cardinality(Clients)
    /\ InSlots(table) = fs
    /\ \A i, j \in DOMAIN table : table[i] = table[j] /\ table[i] # NoFetch => i = j

\* A table is full and another client adds a fetch: there are less fetches in
\* the table than clients.
LEMMA FullTableSmall ==
  ASSUME NEW table \in Tables, NEW f \in FetchRecord,
         \A i, j \in DOMAIN table : table[i] = table[j] /\ table[i] # NoFetch => i = j,
         NoFetch \notin ToSet(table), f \notin ToSet(table),
         DistinctClients(ToSet(table) \cup {f})
  PROVE  Len(table) < Cardinality(Clients) /\ Cardinality(Clients) \in Nat
<1> DEFINE n == Len(table)
           g == [i \in 1 .. n + 1 |-> IF i = n + 1 THEN <<f.peer, f.id>>
                                      ELSE <<table[i].peer, table[i].id>>]
<1>1. n \in Nat /\ DOMAIN table = 1 .. n
  BY DEF Tables
<1>2. \A i \in 1 .. n : table[i] \in FetchRecord /\ table[i] \in ToSet(table)
  BY <1>1 DEF Tables, ToSet
<1>3. IsFiniteSet(Clients)
  BY ConstantsAssumption, FS_Product DEF Clients
<1>4. \A i \in 1 .. n + 1 : g[i] \in Clients
  BY <1>1, <1>2 DEF Clients, FetchRecord
<1>5. ASSUME NEW i \in 1 .. n + 1, NEW j \in 1 .. n + 1, g[i] = g[j] PROVE i = j
  <2> DEFINE x(k) == IF k = n + 1 THEN f ELSE table[k]
  <2>1. x(i) \in ToSet(table) \cup {f} /\ x(j) \in ToSet(table) \cup {f}
    BY <1>1, <1>2
  <2>2. x(i).peer = x(j).peer /\ x(i).id = x(j).id
    BY <1>5
  <2>3. x(i) = x(j)
    BY <2>1, <2>2 DEF DistinctClients
  <2> QED BY <1>1, <1>2, <2>3 DEF ToSet
<1>6. g \in Injection(1 .. n + 1, Clients)
  BY <1>4, <1>5 DEF Injection, IsInjective
<1>7. Cardinality(1 .. n + 1) <= Cardinality(Clients)
  BY <1>3, <1>6, FS_Injection
<1>8. Cardinality(1 .. n + 1) = n + 1
  BY <1>1, FS_Interval
<1>9. Cardinality(Clients) \in Nat
  BY <1>3, FS_CardinalityType
<1> QED BY <1>1, <1>7, <1>8, <1>9

\* add_fetch_to_state gives one more fetch a slot and leaves the others theirs,
\* in a table of a size it may have.
LEMMA SlotAdded ==
  ASSUME NEW table, NEW fs, NEW f \in FetchRecord,
         Holds(table, fs), f \notin fs, DistinctClients(fs \cup {f})
  PROVE  Holds(AddFetchToState(table, f), fs \cup {f})
<1> DEFINE I == {i \in 1 .. Len(table) : table[i] = NoFetch}
           free == SelectInSeq(table, LAMBDA s : s = NoFetch)
           t == AddFetchToState(table, f)
<1>1. /\ table \in Tables /\ Len(table) \in Nat /\ DOMAIN table = 1 .. Len(table)
      /\ InSlots(table) = fs
      /\ InitialTableSize \in Nat \ {0} /\ Len(table) >= InitialTableSize
  BY ConstantsAssumption DEF Holds, Tables
<1>2. free = IF I # {} THEN Min(I) ELSE 0
  BY DEF SelectInSeq
<1>3. f # NoFetch
  BY NullAssumption
<1>4. CASE I # {}
  <2>1. \E n \in I : \A k \in I : n <= k
    <3>1. I \subseteq Nat
      OBVIOUS
    <3> HIDE DEF I
    <3> QED BY <1>4, <3>1, LeastExists
  <2>2. free \in I
    BY <1>2, <1>4, <2>1 DEF Min
  <2>3. free \in 1 .. Len(table) /\ table[free] = NoFetch /\ free # 0
    BY <1>1, <2>2
  <2>4. t = [table EXCEPT ![free] = f]
    BY <2>3 DEF AddFetchToState
  <2> HIDE DEF free, t, I
  <2>5. t \in Tables /\ Len(t) = Len(table) /\ DOMAIN t = DOMAIN table
    BY <1>1, <2>3, <2>4 DEF Tables
  <2>6. \A i \in DOMAIN table : t[i] = IF i = free THEN f ELSE table[i]
    BY <1>1, <2>4
  <2>7. InSlots(t) = fs \cup {f}
    BY <1>1, <1>3, <2>3, <2>5, <2>6 DEF InSlots, ToSet
  <2>8. \A i \in DOMAIN table : table[i] # f
    BY <1>1, <1>3 DEF InSlots, ToSet
  <2>9. \A i, j \in DOMAIN t : t[i] = t[j] /\ t[i] # NoFetch => i = j
    BY <2>5, <2>6, <2>8 DEF Holds
  <2> QED BY <2>5, <2>7, <2>9 DEF Holds, t
<1>5. CASE I = {}
  <2> DEFINE half == [i \in 1 .. Len(table) |-> IF i = 1 THEN f ELSE NoFetch]
  <2>1. free = 0
    BY <1>2, <1>5
  <2>2. t = table \o half
    BY <2>1 DEF AddFetchToState
  <2>3. half \in Tables /\ Len(half) = Len(table)
    BY <1>1 DEF Tables
  <2> HIDE DEF free, t, half
  <2>4. /\ t \in Tables /\ Len(t) = Len(table) + Len(table)
        /\ \A i \in 1 .. Len(table) + Len(table) :
              t[i] = IF i <= Len(table) THEN table[i] ELSE half[i - Len(table)]
    BY <1>1, <2>2, <2>3, ConcatProperties DEF Tables
  <2>5. DOMAIN t = 1 .. Len(table) + Len(table)
    BY <2>4 DEF Tables
  <2>6. \A i \in DOMAIN t :
           t[i] = IF i <= Len(table) THEN table[i]
                  ELSE IF i = Len(table) + 1 THEN f ELSE NoFetch
    <3>1. \A k \in 1 .. Len(table) : half[k] = IF k = 1 THEN f ELSE NoFetch
      BY DEF half
    <3> SUFFICES ASSUME NEW i \in DOMAIN t, i > Len(table)
                 PROVE  t[i] = IF i = Len(table) + 1 THEN f ELSE NoFetch
      BY <1>1, <2>4, <2>5
    <3>2. i - Len(table) \in 1 .. Len(table) /\ t[i] = half[i - Len(table)]
      BY <1>1, <2>4, <2>5
    <3> QED BY <1>1, <2>5, <3>1, <3>2
  <2>7. NoFetch \notin ToSet(table)
    BY <1>1, <1>5 DEF ToSet
  <2>8. ToSet(table) = fs
    BY <1>1, <2>7 DEF InSlots
  <2>9. Len(table) < Cardinality(Clients) /\ Cardinality(Clients) \in Nat
    BY <1>1, <2>7, <2>8, FullTableSmall DEF Holds
  <2>10. InSlots(t) = fs \cup {f}
    <3>1. \A i \in DOMAIN t : t[i] \in fs \cup {f, NoFetch}
      BY <1>1, <2>5, <2>6, <2>8 DEF ToSet
    <3>2. \A i \in DOMAIN table : table[i] \in ToSet(t)
      BY <1>1, <2>5, <2>6 DEF ToSet
    <3>3. f \in ToSet(t)
      <4>1. Len(table) + 1 \in DOMAIN t /\ ~(Len(table) + 1 <= Len(table))
        BY <1>1, <2>5
      <4>2. t[Len(table) + 1] = f
        BY <2>6, <4>1
      <4> QED BY <4>1, <4>2 DEF ToSet
    <3>4. fs \subseteq ToSet(t)
      BY <2>8, <3>2 DEF ToSet
    <3>5. ToSet(t) \subseteq fs \cup {f, NoFetch}
      BY <3>1 DEF ToSet
    <3> QED BY <1>3, <2>7, <2>8, <3>3, <3>4, <3>5 DEF InSlots
  <2>11. \A i \in DOMAIN table : table[i] # f
    BY <1>1, <1>3 DEF InSlots, ToSet
  <2>12. ASSUME NEW i \in DOMAIN t, NEW j \in DOMAIN t, t[i] = t[j], t[i] # NoFetch
         PROVE  i = j
    <3>1. i \in 1 .. Len(table) + 1 /\ j \in 1 .. Len(table) + 1
      BY <1>1, <2>5, <2>6, <2>12
    <3>2. \A k \in 1 .. Len(table) : t[k] = table[k] /\ t[k] # f
      BY <1>1, <2>5, <2>6, <2>11
    <3>3. t[Len(table) + 1] = f
      BY <1>1, <2>5, <2>6
    <3>4. i = Len(table) + 1 <=> t[i] = f
      BY <1>1, <3>1, <3>2, <3>3
    <3>5. j = Len(table) + 1 <=> t[j] = f
      BY <1>1, <3>1, <3>2, <3>3
    <3>6. CASE t[i] = f
      BY <2>12, <3>4, <3>5, <3>6
    <3>7. CASE t[i] # f
      <4>1. i \in DOMAIN table /\ j \in DOMAIN table
        BY <1>1, <2>12, <3>1, <3>4, <3>5, <3>7
      <4>2. table[i] = table[j] /\ table[i] # NoFetch
        BY <1>1, <2>12, <3>2, <4>1
      <4> QED BY <4>1, <4>2 DEF Holds
    <3> QED BY <3>6, <3>7
  <2>13. Len(t) >= InitialTableSize /\ Len(t) < 2 * Cardinality(Clients)
    BY <1>1, <2>4, <2>9
  <2> QED BY <2>4, <2>10, <2>12, <2>13 DEF Holds, t
<1> QED BY <1>4, <1>5

\* The recursion of FetcherTable is well defined: fs has only so many elements.
LEMMA FetcherTableUnfolds ==
  ASSUME NEW fs, Len(fs) \in Nat
  PROVE  \E t : /\ t[0] = EmptyTable
                /\ \A i \in 1 .. Len(fs) : t[i] = AddFetchToState(t[i - 1], fs[i])
                /\ FetcherTable(fs) = t[Len(fs)]
<1> DEFINE Step(t, i) == IF i = 0 THEN EmptyTable ELSE AddFetchToState(t[i - 1], fs[i])
           Unfolds(n) == \E t : t = [i \in 0 .. n |-> Step(t, i)]
<1> HIDE DEF Unfolds
<1>1. Unfolds(0)
  <2> DEFINE t == [i \in 0 .. 0 |-> EmptyTable]
  <2>1. t = [i \in 0 .. 0 |-> Step(t, i)]
    OBVIOUS
  <2> HIDE DEF t
  <2> QED BY <2>1 DEF Unfolds
<1>2. ASSUME NEW n \in Nat, Unfolds(n) PROVE Unfolds(n + 1)
  <2> PICK t : t = [i \in 0 .. n |-> Step(t, i)]
    BY <1>2 DEF Unfolds
  <2> DEFINE u == [i \in 0 .. n + 1 |-> IF i = n + 1 THEN AddFetchToState(t[n], fs[n + 1])
                                        ELSE t[i]]
  <2>1. ASSUME NEW i \in 0 .. n + 1 PROVE u[i] = Step(u, i)
    <3>1. CASE i = n + 1
      BY <3>1
    <3>2. CASE i # n + 1 /\ i # 0
      <4>1. i \in 0 .. n /\ i - 1 \in 0 .. n
        BY <3>2
      <4>2. u[i] = t[i] /\ u[i - 1] = t[i - 1]
        BY <4>1
      <4>3. t[i] = Step(t, i)
        BY <4>1
      <4> QED BY <3>2, <4>2, <4>3
    <3>3. CASE i = 0
      BY <3>3
    <3> QED BY <3>1, <3>2, <3>3
  <2>2. u = [i \in 0 .. n + 1 |-> Step(u, i)]
    BY <2>1
  <2> HIDE DEF u
  <2> QED BY <2>2 DEF Unfolds
<1>3. \A n \in Nat : Unfolds(n)
  <2> DEFINE bad == {n \in Nat : ~ Unfolds(n)}
  <2> SUFFICES ASSUME bad # {} PROVE FALSE
    OBVIOUS
  <2>1. PICK n \in bad : \A k \in bad : n <= k
    <3>1. bad \subseteq Nat
      OBVIOUS
    <3> HIDE DEF bad
    <3> QED BY <3>1, LeastExists
  <2>2. n # 0
    BY <1>1
  <2>3. n - 1 \in Nat /\ n - 1 \notin bad
    BY <2>1, <2>2
  <2>4. Unfolds(n - 1 + 1)
    BY <1>2, <2>3
  <2> QED BY <2>4
<1> DEFINE table == CHOOSE t : t = [i \in 0 .. Len(fs) |-> Step(t, i)]
<1>4. table = [i \in 0 .. Len(fs) |-> Step(table, i)]
  BY <1>3 DEF Unfolds
<1>5. FetcherTable(fs) = table[Len(fs)]
  BY DEF FetcherTable
<1> HIDE DEF table
<1>6. table[0] = EmptyTable
  BY <1>4
<1>7. \A i \in 1 .. Len(fs) : table[i] = AddFetchToState(table[i - 1], fs[i])
  BY <1>4
<1> QED BY <1>5, <1>6, <1>7

\* The table of a new element holds the fetches it was added to.
LEMMA FetcherTableHolds ==
  ASSUME NEW fs \in Seq(FetchRecord), IsInjective(fs), DistinctClients(ToSet(fs))
  PROVE  Holds(FetcherTable(fs), ToSet(fs))
<1>1. PICK t : /\ t[0] = EmptyTable
               /\ \A i \in 1 .. Len(fs) : t[i] = AddFetchToState(t[i - 1], fs[i])
               /\ FetcherTable(fs) = t[Len(fs)]
  BY FetcherTableUnfolds
<1> DEFINE first(n) == {fs[i] : i \in 1 .. n}
           bad == {n \in 0 .. Len(fs) : ~ Holds(t[n], first(n))}
<1>2. Len(fs) \in Nat /\ DOMAIN fs = 1 .. Len(fs)
  OBVIOUS
<1>3. 0 \notin bad
  <2>1. first(0) = {}
    OBVIOUS
  <2>2. /\ EmptyTable \in Tables /\ Len(EmptyTable) = InitialTableSize
        /\ InSlots(EmptyTable) = {}
        /\ \A i \in DOMAIN EmptyTable : EmptyTable[i] = NoFetch
    BY ConstantsAssumption DEF EmptyTable, Tables, InSlots, ToSet
  <2>3. Holds(EmptyTable, {})
    BY <2>2, ConstantsAssumption DEF Holds
  <2> QED BY <1>1, <2>1, <2>3
<1>4. ASSUME NEW n \in 1 .. Len(fs), Holds(t[n - 1], first(n - 1))
      PROVE  Holds(t[n], first(n))
  <2>1. fs[n] \in FetchRecord /\ fs[n] \notin first(n - 1)
    BY <1>2 DEF IsInjective
  <2>2. first(n) = first(n - 1) \cup {fs[n]}
    <3>1. 1 .. n = (1 .. n - 1) \cup {n}
      BY <1>2
    <3> QED BY <3>1
  <2>3. first(n) \subseteq ToSet(fs)
    BY <1>2 DEF ToSet
  <2>4. DistinctClients(first(n - 1) \cup {fs[n]})
    BY <2>2, <2>3 DEF DistinctClients
  <2>5. Holds(AddFetchToState(t[n - 1], fs[n]), first(n - 1) \cup {fs[n]})
    <3> HIDE DEF first
    <3> QED BY <1>4, <2>1, <2>4, SlotAdded
  <2> QED BY <1>1, <2>2, <2>5
<1>5. \A n \in 0 .. Len(fs) : n \notin bad
  <2> SUFFICES ASSUME bad # {} PROVE FALSE
    OBVIOUS
  <2>1. bad \subseteq 0 .. Len(fs)
    OBVIOUS
  <2>2. PICK n \in bad : \A k \in bad : n <= k
    <3> HIDE DEF bad
    <3>1. bad \subseteq Nat
      BY <1>2, <2>1
    <3> QED BY <3>1, LeastExists
  <2>3. n \in 1 .. Len(fs) /\ n - 1 \in 0 .. Len(fs) /\ n - 1 \notin bad
    <3> HIDE DEF bad
    <3>1. n # 0 /\ n \in 0 .. Len(fs)
      BY <1>3, <2>1
    <3> QED BY <1>2, <2>2, <3>1
  <2>4. Holds(t[n - 1], first(n - 1))
    BY <2>3
  <2>5. Holds(t[n], first(n))
    BY <1>4, <2>3, <2>4
  <2> QED BY <2>5
<1>6. Holds(t[Len(fs)], first(Len(fs)))
  <2>1. Len(fs) \in 0 .. Len(fs)
    BY <1>2
  <2> QED BY <1>5, <2>1
<1>7. first(Len(fs)) = ToSet(fs)
  BY <1>2 DEF ToSet
<1> QED BY <1>1, <1>6, <1>7

-----------------------------------------------------------------------------
(* The invariant                                                           *)

Types ==
    /\ peer_list \in Seq(Peers)
    /\ freed_peers \subseteq Peers
    /\ closing \in Peers \cup {NoPeer}
    /\ fetch_groups \in [Peers -> SUBSET Groups]
    /\ element_table \in [Paths -> Element \cup {NoElement}]
    /\ element_list \in [Peers -> Seq(Paths)]
    /\ fetch_list \in [Peers -> Seq(FetchRecord)]
    /\ failures \in 0 .. MaxFailures
    /\ view \in [Clients -> [Paths -> ElementValues \cup {Absent}]]
    /\ disturbed \subseteq Clients

\* A peer is connected once and not after it was freed.
PeersSound ==
    /\ IsInjective(peer_list)
    /\ ToSet(peer_list) \cap freed_peers = {}
    /\ closing \in ToSet(peer_list) \cup {NoPeer}

\* A peer has one fetch for an id.
FetchListsSound ==
    \A p \in Peers :
        /\ IsInjective(fetch_list[p])
        /\ DistinctClients(ToSet(fetch_list[p]))
        /\ \A f \in ToSet(fetch_list[p]) : f.peer = p /\ p \in ToSet(peer_list)

ListsSound ==
    /\ \A path \in Paths : Exists(path) =>
          /\ element_table[path].peer \in ToSet(peer_list)
          /\ path \in ToSet(element_list[element_table[path].peer])
    /\ \A p \in Peers :
          /\ IsInjective(element_list[p])
          /\ \A path \in ToSet(element_list[p]) :
                Exists(path) /\ element_table[path].peer = p

Registered(f) == f.peer \in ToSet(peer_list) /\ f \in ToSet(fetch_list[f.peer])

\* The fetch f is to be told of the element path.
Concerns(f, path) ==
    Exists(path) /\ Interested(element_table[path].fetch_groups, path, f)

SlotsHold ==
    \A path \in Paths : Exists(path) =>
        /\ Holds(element_table[path].fetcher_table, Fetchers(path))
        /\ \A f \in Fetchers(path) : Registered(f) /\ Concerns(f, path)

StructInv == Types /\ PeersSound /\ FetchListsSound /\ ListsSound /\ SlotsHold

\* A client without the fetch knows nothing.
NothingUnfetched ==
    \A p \in Peers, id \in FetchIds :
        (\A f \in ToSet(fetch_list[p]) : f.id # id) => view[<<p, id>>] = NothingKnown

\* What is known to the client of an undisturbed fetch, element by element.
Mirrors ==
    \A p \in Peers : \A f \in ToSet(fetch_list[p]) :
        <<p, f.id>> \in disturbed \/
        \A path \in Paths :
            IF Concerns(f, path)
            THEN /\ f \in Fetchers(path)
                 /\ view[<<p, f.id>>][path] = element_table[path].value
            ELSE view[<<p, f.id>>][path] = Absent

ViewInv == NothingUnfetched /\ Mirrors /\ ClosedViews

IInv == StructInv /\ ViewInv

-----------------------------------------------------------------------------
(* What the invariant says about the sets the handlers work with.          *)

\* The assumptions on the constants, as the proofs use them.
LEMMA Constants ==
  /\ NoPeer \notin Peers
  /\ NoFetch \notin FetchRecord /\ NoElement \notin Element
  /\ InitialTableSize \in Nat \ {0}
  /\ Absent \notin ElementValues
  /\ IsFiniteSet(Clients)
<1>1. IsFiniteSet(Clients)
  BY ConstantsAssumption, FS_Product DEF Clients
<1> QED BY <1>1, ConstantsAssumption, NullAssumption DEF ElementValues

\* The members of a list have the type of its elements.
LEMMA Members ==
  ASSUME NEW S, NEW s \in Seq(S)
  PROVE  ToSet(s) \subseteq S /\ (\A i \in DOMAIN s : s[i] \in ToSet(s))
         /\ (s = << >> <=> ToSet(s) = {})
<1>1. Len(s) \in Nat /\ DOMAIN s = 1 .. Len(s)
  OBVIOUS
<1>2. ToSet(s) \subseteq S /\ \A i \in DOMAIN s : s[i] \in ToSet(s)
  BY <1>1 DEF ToSet
<1>3. s = << >> => ToSet(s) = {}
  BY DEF ToSet
<1>4. ASSUME s # << >> PROVE ToSet(s) # {}
  <2>1. 1 \in DOMAIN s
    BY <1>1, <1>4
  <2> QED BY <1>2, <2>1
<1> QED BY <1>2, <1>3, <1>4

\* A walk over the lists of the connected peers meets every element.
LEMMA ListedElements ==
  ASSUME StructInv
  PROVE  UNION {ToSet(element_list[p]) : p \in ToSet(peer_list)} = {path \in Paths : Exists(path)}
<1>1. ToSet(peer_list) \subseteq Peers
  BY Members DEF StructInv, Types
<1>2. ASSUME NEW p \in ToSet(peer_list), NEW path \in ToSet(element_list[p])
      PROVE  path \in Paths /\ Exists(path)
  <2>1. ToSet(element_list[p]) \subseteq Paths
    BY <1>1, Members DEF StructInv, Types
  <2> QED BY <1>1, <2>1 DEF StructInv, ListsSound
<1>3. ASSUME NEW path \in Paths, Exists(path)
      PROVE  \E p \in ToSet(peer_list) : path \in ToSet(element_list[p])
  BY <1>3 DEF StructInv, ListsSound
<1> QED BY <1>2, <1>3

\* A walk over the elements of all peers finds the ones a fetch is to be told
\* of (add_fetch_to_states, get_elements).
LEMMA ConcernedElements ==
  ASSUME StructInv, NEW f
  PROVE  ElementsInPeers(f) = {path \in Paths : Concerns(f, path)}
BY ListedElements DEF ElementsInPeers, Concerns

\* A walk over the fetches of the connected peers meets the registered ones.
LEMMA Targets ==
  ASSUME StructInv, NEW g, NEW path
  PROVE  FindFetchersForElement(g, path) =
            {f \in FetchRecord : Registered(f) /\ Interested(g, path, f)}
<1>1. ToSet(peer_list) \subseteq Peers
  BY Members DEF StructInv, Types
<1>2. ASSUME NEW p \in ToSet(peer_list), NEW f \in ToSet(fetch_list[p])
      PROVE  f \in FetchRecord /\ Registered(f)
  <2>1. ToSet(fetch_list[p]) \subseteq FetchRecord
    BY <1>1, Members DEF StructInv, Types
  <2> QED BY <1>1, <2>1 DEF StructInv, FetchListsSound, Registered
<1> QED BY <1>2 DEF FindFetchersForElement, Registered

\* Registered fetches differ in peer or id.
LEMMA RegisteredDistinct ==
  ASSUME StructInv, NEW fs, \A f \in fs : Registered(f)
  PROVE  DistinctClients(fs)
<1>1. ToSet(peer_list) \subseteq Peers
  BY Members DEF StructInv, Types
<1> QED BY <1>1 DEF StructInv, FetchListsSound, Registered, DistinctClients

\* There are no more fetches than clients.
LEMMA FetchesFinite ==
  ASSUME NEW fs \in SUBSET FetchRecord, DistinctClients(fs)
  PROVE  IsFiniteSet(fs) /\ Cardinality(fs) \in Nat
<1> DEFINE c == [f \in fs |-> <<f.peer, f.id>>]
<1>1. c \in Injection(fs, Clients)
  BY DEF Injection, IsInjective, DistinctClients, Clients, FetchRecord
<1> QED BY <1>1, Constants, FS_Injection, FS_CardinalityType

\* The fetches of a new element in their order, and its table.
LEMMA InOrderHolds ==
  ASSUME StructInv, NEW g, NEW path,
         NEW fs \in InOrder(FindFetchersForElement(g, path), FetchPrecedes)
  PROVE  Holds(FetcherTable(fs), FindFetchersForElement(g, path))
<1> DEFINE T == FindFetchersForElement(g, path)
<1>1. T \in SUBSET FetchRecord /\ \A f \in T : Registered(f)
  BY Targets
<1> HIDE DEF T
<1>2. DistinctClients(T)
  BY <1>1, RegisteredDistinct
<1>3. Cardinality(T) \in Nat
  BY <1>1, <1>2, FetchesFinite
<1>4. /\ fs \in [1 .. Cardinality(T) -> T]
      /\ ToSet(fs) = T
      /\ \A i, j \in DOMAIN fs : i < j => FetchPrecedes(fs[i], fs[j])
  BY DEF InOrder, T
<1>5. fs \in Seq(FetchRecord)
  BY <1>1, <1>3, <1>4
<1>6. ASSUME NEW f \in T PROVE ~ FetchPrecedes(f, f)
  <2>1. ~ Precedes(peer_list, f.peer, f.peer)
    BY DEF StructInv, Types, PeersSound, Precedes, IsInjective
  <2>2. f.peer \in Peers
    BY <1>1 DEF FetchRecord
  <2>3. ~ Precedes(fetch_list[f.peer], f, f)
    BY <2>2 DEF StructInv, Types, FetchListsSound, Precedes, IsInjective
  <2> QED BY <2>1, <2>3 DEF FetchPrecedes
<1>7. IsInjective(fs)
  <2> SUFFICES ASSUME NEW i \in DOMAIN fs, NEW j \in DOMAIN fs, fs[i] = fs[j]
               PROVE  i = j
    BY DEF IsInjective
  <2>1. ~(i < j) /\ ~(j < i)
    BY <1>4, <1>6
  <2> QED BY <1>3, <1>4, <2>1
<1>8. Holds(FetcherTable(fs), ToSet(fs))
  BY <1>2, <1>4, <1>5, <1>7, FetcherTableHolds
<1> QED BY <1>4, <1>8 DEF T

-----------------------------------------------------------------------------
(* Lists, tables and slots: StructInv is an invariant.                     *)

\* An empty server is sound.
LEMMA StructInit == Init => StructInv
<1> SUFFICES ASSUME Init PROVE StructInv
  OBVIOUS
<1>1. Types
  BY Constants, ConstantsAssumption DEF Init, Types, NothingKnown
<1>2. \A path \in Paths : ~ Exists(path)
  BY DEF Init, Exists
<1>3. \A p \in Peers : fetch_list[p] = << >> /\ element_list[p] = << >>
  BY DEF Init
<1>4. ToSet(<< >>) = {} /\ IsInjective(<< >>)
  BY DEF ToSet, IsInjective
<1>5. PeersSound
  BY <1>4 DEF Init, PeersSound
<1>6. FetchListsSound
  BY <1>3, <1>4 DEF FetchListsSound, DistinctClients
<1>7. ListsSound
  BY <1>2, <1>3, <1>4 DEF ListsSound
<1>8. SlotsHold
  BY <1>2 DEF SlotsHold
<1> QED BY <1>1, <1>5, <1>6, <1>7, <1>8 DEF StructInv

\* Sending a response keeps the count of failures, and closes at most a
\* connected peer.
LEMMA ResponseTyped ==
  ASSUME Types, NEW p \in Peers, PeerEvent(p), NEW failed \in Nat, SendResponse(p, failed)
  PROVE  /\ failures' \in 0 .. MaxFailures
         /\ closing' \in Peers \cup {NoPeer}
         /\ closing' \in ToSet(peer_list) \cup {NoPeer}
BY ConstantsAssumption DEF Types, SendResponse, PeerEvent

\* A notification of a value, or of a removal, makes a view of a view.
LEMMA NotifiedTyped ==
  ASSUME Types, NEW fs, NEW path, NEW x \in ElementValues \cup {Absent}
  PROVE  Notified(view, fs, path, x) \in [Clients -> [Paths -> ElementValues \cup {Absent}]]
BY DEF Types, Notified

\* What StructInv is about, but for the types
lists == <<peer_list, freed_peers, element_table, element_list, fetch_list>>

\* A step that leaves the lists, the tables and the groups alone.
LEMMA QuietStruct ==
  ASSUME StructInv, UNCHANGED lists, UNCHANGED fetch_groups, Types',
         closing' \in ToSet(peer_list) \cup {NoPeer}
  PROVE  StructInv'
<1>1. PeersSound' /\ FetchListsSound'
  BY DEF lists, StructInv, PeersSound, FetchListsSound
<1>2. ListsSound'
  BY DEF lists, StructInv, ListsSound, Exists
<1>3. SlotsHold'
  BY DEF lists, StructInv, SlotsHold, Exists, Fetchers, Registered, Concerns, Interested
<1> QED BY <1>1, <1>2, <1>3 DEF StructInv

\* A new peer has no elements and no fetches, so its groups are nobody's
\* concern (init_peer).
LEMMA StructInitPeer ==
  ASSUME StructInv, NEW p \in Peers, InitPeer(p)
  PROVE  StructInv'
<1>1. /\ closing = NoPeer
      /\ p \notin ToSet(peer_list) /\ p \notin freed_peers
      /\ peer_list' = Append(peer_list, p)
      /\ UNCHANGED <<freed_peers, closing, element_table, element_list, fetch_list,
                     failures, view, disturbed>>
  BY DEF InitPeer
<1>2. PICK g \in SUBSET Groups : fetch_groups' = [fetch_groups EXCEPT ![p] = g]
  BY DEF InitPeer
<1>3. /\ peer_list' \in Seq(Peers)
      /\ ToSet(peer_list') = ToSet(peer_list) \cup {p}
      /\ IsInjective(peer_list')
  BY <1>1, Appended DEF StructInv, Types, PeersSound
<1>4. Types'
  BY <1>1, <1>2, <1>3 DEF StructInv, Types
<1>5. PeersSound'
  BY <1>1, <1>3 DEF StructInv, PeersSound
<1>6. FetchListsSound'
  BY <1>1, <1>3 DEF StructInv, FetchListsSound
<1>7. ListsSound'
  BY <1>1, <1>3 DEF StructInv, ListsSound, Exists
<1>8. \A q \in Peers : q \in ToSet(peer_list) => fetch_groups'[q] = fetch_groups[q]
  BY <1>1, <1>2 DEF StructInv, Types
<1>9. ToSet(peer_list) \subseteq Peers
  BY Members DEF StructInv, Types
<1>10. SlotsHold'
  BY <1>1, <1>3, <1>8, <1>9 DEF StructInv, SlotsHold, Exists, Fetchers, Registered, Concerns, Interested
<1> QED BY <1>4, <1>5, <1>6, <1>7, <1>10 DEF StructInv

\* No slot can lose its right to be there: a peer that authenticates has no
\* fetch (handle_authentication).
LEMMA StructAuthenticate ==
  ASSUME StructInv, NEW p \in Peers, NEW g \in SUBSET Groups, Authenticate(p, g)
  PROVE  StructInv'
<1>1. /\ PeerEvent(p) /\ fetch_list[p] = << >>
      /\ fetch_groups' = [fetch_groups EXCEPT ![p] = g]
      /\ SendResponse(p, 0)
      /\ UNCHANGED lists /\ UNCHANGED <<view, disturbed>>
  BY DEF Authenticate, lists
<1>2. Types'
  BY <1>1, ResponseTyped DEF StructInv, Types, lists
<1>3. closing' \in ToSet(peer_list) \cup {NoPeer}
  BY <1>1, ResponseTyped DEF StructInv
<1>4. PeersSound' /\ FetchListsSound'
  BY <1>1, <1>3 DEF lists, StructInv, PeersSound, FetchListsSound
<1>5. ListsSound'
  BY <1>1 DEF lists, StructInv, ListsSound, Exists
<1>6. \A f : Registered(f) => f.peer # p
  BY <1>1 DEF Registered, ToSet
<1>7. ToSet(peer_list) \subseteq Peers
  BY Members DEF StructInv, Types
<1>8. \A f : Registered(f) => fetch_groups'[f.peer] = fetch_groups[f.peer]
  BY <1>1, <1>6, <1>7 DEF StructInv, Types, Registered
<1>9. SlotsHold'
  BY <1>1, <1>8 DEF lists, StructInv, SlotsHold, Exists, Fetchers, Registered, Concerns, Interested
<1> QED BY <1>2, <1>4, <1>5, <1>9 DEF StructInv

\* A refused or reading request at most closes the peer that made it.
LEMMA StructRequestWithoutEffect ==
  ASSUME StructInv, NEW p \in Peers, RequestWithoutEffect(p)
  PROVE  StructInv'
<1>1. /\ PeerEvent(p) /\ SendResponse(p, 0)
      /\ UNCHANGED lists /\ UNCHANGED <<fetch_groups, view, disturbed>>
  BY DEF RequestWithoutEffect, lists
<1>2. Types' /\ closing' \in ToSet(peer_list) \cup {NoPeer}
  BY <1>1, ResponseTyped DEF StructInv, Types, lists
<1> QED BY <1>1, <1>2, QuietStruct

\* The loss of a connection is only noted until the peer is freed.
LEMMA StructDisconnect ==
  ASSUME StructInv, NEW p \in Peers, Disconnect(p)
  PROVE  StructInv'
<1>1. /\ UNCHANGED lists /\ UNCHANGED <<fetch_groups, failures, view, disturbed>>
      /\ closing' = p /\ p \in ToSet(peer_list)
  BY DEF Disconnect, lists, PeerEvent
<1>2. Types'
  BY <1>1 DEF StructInv, Types, lists
<1> QED BY <1>1, <1>2, QuietStruct

\* A refused add leaves nothing behind in tables and lists (add_element after
\* notify_fetchers or element_table_put failed).
LEMMA StructAddElementFailed ==
  ASSUME StructInv, NEW p \in Peers, NEW path \in Paths, NEW value \in ElementValues,
         NEW g \in SUBSET Groups, AddElementFailed(p, path, value, g)
  PROVE  StructInv'
<1>1. /\ PeerEvent(p) /\ SendResponse(p, 1)
      /\ UNCHANGED lists /\ UNCHANGED fetch_groups
  BY DEF AddElementFailed, lists
<1>2. PICK told \in SUBSET FindFetchersForElement(g, path) :
         /\ view' = Notified(view, told, path, value)
         /\ disturbed' = disturbed \cup ClientsOf(told)
  BY DEF AddElementFailed, Walks
<1>3. told \subseteq FetchRecord
  BY Targets
<1>4. ClientsOf(told) \subseteq Clients
  BY <1>3 DEF ClientsOf, Clients, FetchRecord
<1>5. view' \in [Clients -> [Paths -> ElementValues \cup {Absent}]]
  BY <1>2, NotifiedTyped DEF StructInv
<1>6. Types' /\ closing' \in ToSet(peer_list) \cup {NoPeer}
  BY <1>1, <1>2, <1>4, <1>5, ResponseTyped DEF StructInv, Types, lists
<1> QED BY <1>1, <1>6, QuietStruct

\* The clients of the slots are clients.
LEMMA SlotClients ==
  ASSUME NEW table \in Tables, NEW n \in 0 .. Len(table)
  PROVE  /\ Reached(table, n) \subseteq InSlots(table) /\ Missed(table, n) \subseteq InSlots(table)
         /\ InSlots(table) \subseteq FetchRecord
         /\ ClientsOf(InSlots(table)) \subseteq Clients
<1>1. Len(table) \in Nat /\ DOMAIN table = 1 .. Len(table)
  BY DEF Tables
<1>2. InSlots(table) \subseteq FetchRecord
  BY <1>1 DEF InSlots, ToSet, Tables
<1>3. ClientsOf(InSlots(table)) \subseteq Clients
  BY <1>2 DEF ClientsOf, Clients, FetchRecord
<1>4. Reached(table, n) \subseteq InSlots(table)
  BY <1>1 DEF Reached, InSlots, ToSet
<1>5. Missed(table, n) \subseteq InSlots(table)
  BY <1>1 DEF Missed, InSlots, ToSet
<1> QED BY <1>2, <1>3, <1>4, <1>5

\* change leaves owner, groups and slots of the element alone.
LEMMA StructChangeState ==
  ASSUME StructInv, NEW p \in Peers, NEW path \in Paths, NEW value \in Values, NEW n,
         ChangeState(p, path, value, n)
  PROVE  StructInv'
<1> DEFINE table == element_table[path].fetcher_table
<1>1. /\ PeerEvent(p) /\ Exists(path) /\ SendResponse(p, Fails(table, n))
      /\ n \in 0 .. Len(table)
      /\ element_table' = [element_table EXCEPT ![path].value = value]
      /\ view' = Notified(view, Reached(table, n), path, value)
      /\ disturbed' = disturbed \cup ClientsOf(Missed(table, n))
      /\ UNCHANGED <<peer_list, freed_peers, fetch_groups, element_list, fetch_list>>
  BY DEF ChangeState, StopsAfter
<1>2. table \in Tables
  BY <1>1 DEF StructInv, SlotsHold, Holds
<1> HIDE DEF table
<1>3. ClientsOf(Missed(table, n)) \subseteq Clients
  BY <1>1, <1>2, SlotClients DEF ClientsOf
<1>4. view' \in [Clients -> [Paths -> ElementValues \cup {Absent}]]
  BY <1>1, NotifiedTyped DEF StructInv, ElementValues
<1>5. failures' \in 0 .. MaxFailures /\ closing' \in ToSet(peer_list) \cup {NoPeer}
      /\ closing' \in Peers \cup {NoPeer}
  BY <1>1, ResponseTyped DEF StructInv, Fails
<1>6. /\ element_table' \in [Paths -> Element \cup {NoElement}]
      /\ \A q \in Paths : /\ element_table'[q] = NoElement <=> element_table[q] = NoElement
                          /\ element_table[q] # NoElement =>
                               /\ element_table'[q].peer = element_table[q].peer
                               /\ element_table'[q].fetch_groups = element_table[q].fetch_groups
                               /\ element_table'[q].fetcher_table = element_table[q].fetcher_table
  <2> DEFINE e == [element_table[path] EXCEPT !.value = value]
  <2>1. element_table[path] \in Element
    BY <1>1 DEF StructInv, Types, Exists
  <2>2. /\ e \in Element /\ e # NoElement
        /\ e.peer = element_table[path].peer
        /\ e.fetch_groups = element_table[path].fetch_groups
        /\ e.fetcher_table = element_table[path].fetcher_table
    BY <2>1, Constants DEF Element, ElementValues
  <2>3. element_table' = [element_table EXCEPT ![path] = e]
    BY <1>1
  <2> HIDE DEF e
  <2> QED BY <1>1, <2>2, <2>3 DEF StructInv, Types, Exists
<1>7. Types'
  BY <1>1, <1>3, <1>4, <1>5, <1>6 DEF StructInv, Types
<1>8. PeersSound' /\ FetchListsSound'
  BY <1>1, <1>5 DEF StructInv, PeersSound, FetchListsSound
<1>9. ListsSound'
  BY <1>1, <1>6 DEF StructInv, ListsSound, Exists, Types
<1>10. SlotsHold'
  BY <1>1, <1>6 DEF StructInv, SlotsHold, Exists, Fetchers, Registered, Concerns, Interested
<1> QED BY <1>7, <1>8, <1>9, <1>10 DEF StructInv

\* add puts the element into the table and the owner's list, with a slot for
\* each fetch that matches (add_element).
LEMMA StructAddElement ==
  ASSUME StructInv, NEW p \in Peers, NEW path \in Paths, NEW value \in ElementValues,
         NEW g \in SUBSET Groups, AddElement(p, path, value, g)
  PROVE  StructInv'
<1> DEFINE T == FindFetchersForElement(g, path)
<1>1. /\ PeerEvent(p) /\ ~ Exists(path) /\ SendResponse(p, 0)
      /\ element_list' = [element_list EXCEPT ![p] = Append(@, path)]
      /\ view' = Notified(view, T, path, value)
      /\ UNCHANGED <<peer_list, freed_peers, fetch_groups, fetch_list, disturbed>>
  BY DEF AddElement
<1>2. PICK fs \in InOrder(T, FetchPrecedes) :
         element_table' = [element_table EXCEPT ![path] = NewElement(p, value, g, fs)]
  BY DEF AddElement
<1> DEFINE e == NewElement(p, value, g, fs)
<1>3. /\ e.peer = p /\ e.fetch_groups = g
      /\ e.fetcher_table = FetcherTable(fs)
  BY DEF NewElement
<1>4. Holds(FetcherTable(fs), T)
  BY <1>2, InOrderHolds
<1>5. T = {f \in FetchRecord : Registered(f) /\ Interested(g, path, f)}
  BY Targets
<1> HIDE DEF T
<1>6. e \in Element /\ e # NoElement
  BY <1>4, Constants DEF NewElement, Element, Holds, Tables
<1> HIDE DEF e
<1>7. view' \in [Clients -> [Paths -> ElementValues \cup {Absent}]]
  BY <1>1, NotifiedTyped DEF StructInv
<1>8. /\ failures' \in 0 .. MaxFailures /\ closing' \in ToSet(peer_list) \cup {NoPeer}
      /\ closing' \in Peers \cup {NoPeer}
  BY <1>1, ResponseTyped DEF StructInv
<1>9. path \notin ToSet(element_list[p]) /\ element_list[p] \in Seq(Paths)
  BY <1>1 DEF StructInv, ListsSound, Types
<1>10. /\ Append(element_list[p], path) \in Seq(Paths)
       /\ ToSet(Append(element_list[p], path)) = ToSet(element_list[p]) \cup {path}
       /\ IsInjective(Append(element_list[p], path))
  BY <1>9, Appended DEF StructInv, ListsSound
<1>11. \A q \in Peers :
          element_list'[q] = IF q = p THEN Append(element_list[p], path) ELSE element_list[q]
  BY <1>1 DEF StructInv, Types
<1>12. \A q \in Paths : element_table'[q] = IF q = path THEN e ELSE element_table[q]
  BY <1>2 DEF StructInv, Types, e
<1>13. /\ element_table' \in [Paths -> Element \cup {NoElement}]
       /\ element_list' \in [Peers -> Seq(Paths)]
  BY <1>1, <1>2, <1>6, <1>10, <1>11 DEF StructInv, Types, e
<1>14. Types'
  BY <1>1, <1>7, <1>8, <1>13 DEF StructInv, Types
<1>15. PeersSound' /\ FetchListsSound'
  BY <1>1, <1>8 DEF StructInv, PeersSound, FetchListsSound
<1>16. ListsSound'
  <2>1. p \in ToSet(peer_list)
    BY <1>1 DEF PeerEvent
  <2>2. ASSUME NEW q \in Paths, Exists(q)'
        PROVE  (/\ element_table[q].peer \in ToSet(peer_list)
                /\ q \in ToSet(element_list[element_table[q].peer]))'
    <3>1. CASE q = path
      BY <1>1, <1>3, <1>10, <1>11, <1>12, <2>1, <3>1 DEF e
    <3>2. CASE q # path
      <4>1. /\ element_table'[q] = element_table[q] /\ Exists(q)
            /\ element_table[q].peer \in ToSet(peer_list)
            /\ q \in ToSet(element_list[element_table[q].peer])
        BY <1>12, <2>2, <3>2 DEF StructInv, ListsSound, Exists
      <4>2. element_table[q].peer \in Peers
        BY <4>1, Members DEF StructInv, Types
      <4> QED BY <1>1, <1>10, <1>11, <4>1, <4>2
    <3> QED BY <3>1, <3>2
  <2>3. ASSUME NEW r \in Peers
        PROVE  (/\ IsInjective(element_list[r])
                /\ \A q \in ToSet(element_list[r]) :
                      Exists(q) /\ element_table[q].peer = r)'
    <3>1. IsInjective(element_list'[r])
      BY <1>10, <1>11 DEF StructInv, ListsSound
    <3>2. \A q \in ToSet(element_list'[r]) : (q = path /\ r = p) \/ q \in ToSet(element_list[r])
      BY <1>10, <1>11
    <3>3. ASSUME NEW q \in ToSet(element_list[r]) PROVE q \in Paths /\ q # path
      BY <1>1, Members DEF StructInv, ListsSound, Types
    <3> QED BY <1>3, <1>6, <1>12, <3>1, <3>2, <3>3 DEF StructInv, ListsSound, Exists, e
  <2> QED BY <2>2, <2>3 DEF ListsSound
<1>17. SlotsHold'
  <2> SUFFICES ASSUME NEW q \in Paths, Exists(q)'
               PROVE  (/\ Holds(element_table[q].fetcher_table, Fetchers(q))
                       /\ \A f \in Fetchers(q) : Registered(f) /\ Concerns(f, q))'
    BY DEF SlotsHold
  <2>1. CASE q = path
    <3>1. Holds(FetcherTable(fs), InSlots(FetcherTable(fs))) /\ InSlots(FetcherTable(fs)) = T
      BY <1>4 DEF Holds
    <3>2. element_table'[q].fetcher_table = FetcherTable(fs) /\ element_table'[q].fetch_groups = g
      BY <1>3, <1>12, <2>1 DEF e
    <3>3. Fetchers(q)' = T
      BY <3>1, <3>2 DEF Fetchers
    <3>4. \A f \in T : Registered(f)' /\ Interested(g, path, f)'
      BY <1>1, <1>5 DEF Registered, Interested
    <3>5. \A f \in T : Concerns(f, q)'
      BY <1>1, <2>1, <3>2, <3>4, <1>6, <1>12 DEF Concerns, Exists, Interested
    <3> QED BY <3>1, <3>2, <3>3, <3>4, <3>5
  <2>2. CASE q # path
    <3>1. element_table'[q] = element_table[q]
      BY <1>12, <2>2
    <3> QED BY <1>1, <3>1 DEF StructInv, SlotsHold, Exists, Fetchers, Registered, Concerns, Interested
  <2> QED BY <2>1, <2>2
<1> QED BY <1>14, <1>15, <1>16, <1>17 DEF StructInv

\* remove takes the element out of the table and the owner's list, also when
\* a notification fails (remove_element).
LEMMA StructRemoveElement ==
  ASSUME StructInv, NEW p \in Peers, NEW i \in DOMAIN element_list[p], NEW n,
         RemoveElement(p, i, n)
  PROVE  StructInv'
<1> DEFINE path == element_list[p][i]
           table == element_table[path].fetcher_table
<1>1. /\ PeerEvent(p) /\ SendResponse(p, Fails(table, n))
      /\ n \in 0 .. Len(table)
      /\ element_table' = [element_table EXCEPT ![path] = NoElement]
      /\ element_list' = [element_list EXCEPT ![p] = RemoveAt(@, i)]
      /\ view' = Notified(view, Reached(table, n), path, Absent)
      /\ disturbed' = disturbed \cup ClientsOf(Missed(table, n))
      /\ UNCHANGED <<peer_list, freed_peers, fetch_groups, fetch_list>>
  BY DEF RemoveElement, StopsAfter
<1>2. element_list[p] \in Seq(Paths) /\ path \in ToSet(element_list[p]) /\ path \in Paths
  BY Members DEF StructInv, Types
<1>3. Exists(path) /\ element_table[path].peer = p
  BY <1>2 DEF StructInv, ListsSound
<1>4. table \in Tables
  BY <1>2, <1>3 DEF StructInv, SlotsHold, Holds
<1>5. /\ RemoveAt(element_list[p], i) \in Seq(Paths)
      /\ ToSet(RemoveAt(element_list[p], i)) = ToSet(element_list[p]) \ {path}
      /\ IsInjective(RemoveAt(element_list[p], i))
  BY <1>2, RemovedAt, RemovedFrom DEF StructInv, ListsSound
<1> HIDE DEF table, path
<1>6. ClientsOf(Missed(table, n)) \subseteq Clients
  BY <1>1, <1>4, SlotClients DEF ClientsOf
<1>7. view' \in [Clients -> [Paths -> ElementValues \cup {Absent}]]
  BY <1>1, NotifiedTyped DEF StructInv
<1>8. /\ failures' \in 0 .. MaxFailures /\ closing' \in ToSet(peer_list) \cup {NoPeer}
      /\ closing' \in Peers \cup {NoPeer}
  BY <1>1, ResponseTyped DEF StructInv, Fails
<1>9. \A q \in Peers :
         element_list'[q] = IF q = p THEN RemoveAt(element_list[p], i) ELSE element_list[q]
  BY <1>1 DEF StructInv, Types
<1>10. \A q \in Paths : element_table'[q] = IF q = path THEN NoElement ELSE element_table[q]
  BY <1>1 DEF StructInv, Types
<1>11. /\ element_table' \in [Paths -> Element \cup {NoElement}]
       /\ element_list' \in [Peers -> Seq(Paths)]
  BY <1>1, <1>5, <1>9 DEF StructInv, Types
<1>12. Types'
  BY <1>1, <1>6, <1>7, <1>8, <1>11 DEF StructInv, Types
<1>13. PeersSound' /\ FetchListsSound'
  BY <1>1, <1>8 DEF StructInv, PeersSound, FetchListsSound
<1>14. ListsSound'
  <2>1. ASSUME NEW q \in Paths, Exists(q)'
        PROVE  (/\ element_table[q].peer \in ToSet(peer_list)
                /\ q \in ToSet(element_list[element_table[q].peer]))'
    <3>1. /\ q # path /\ element_table'[q] = element_table[q] /\ Exists(q)
          /\ element_table[q].peer \in ToSet(peer_list)
          /\ q \in ToSet(element_list[element_table[q].peer])
      BY <1>10, <2>1 DEF StructInv, ListsSound, Exists
    <3>2. element_table[q].peer \in Peers
      BY <3>1, Members DEF StructInv, Types
    <3> QED BY <1>1, <1>5, <1>9, <3>1, <3>2
  <2>2. ASSUME NEW r \in Peers
        PROVE  (/\ IsInjective(element_list[r])
                /\ \A q \in ToSet(element_list[r]) :
                      Exists(q) /\ element_table[q].peer = r)'
    <3>1. IsInjective(element_list'[r])
      BY <1>5, <1>9 DEF StructInv, ListsSound
    <3>2. \A q \in ToSet(element_list'[r]) :
             /\ q \in Paths /\ q # path
             /\ Exists(q) /\ element_table[q].peer = r
      <4>1. \A q \in ToSet(element_list[r]) :
               q \in Paths /\ Exists(q) /\ element_table[q].peer = r
        BY Members DEF StructInv, ListsSound, Types
      <4>2. ToSet(element_list'[r]) = ToSet(element_list[r]) \ {path}
        <5>1. r # p => path \notin ToSet(element_list[r])
          BY <1>3, <4>1
        <5> QED BY <1>5, <1>9, <5>1
      <4> QED BY <4>1, <4>2
    <3> QED BY <1>10, <3>1, <3>2 DEF Exists
  <2> QED BY <2>1, <2>2 DEF ListsSound
<1>15. SlotsHold'
  BY <1>1, <1>10 DEF StructInv, SlotsHold, Exists, Fetchers, Registered, Concerns, Interested
<1> QED BY <1>12, <1>13, <1>14, <1>15 DEF StructInv

\* fetch puts the new fetch into the list of its peer and into a slot of
\* elements it matches, of some of them when it fails halfway.
LEMMA StructAddFetch ==
  ASSUME StructInv, NEW p \in Peers, NEW id \in FetchIds, NEW matcher \in MatchSets,
         AddFetch(p, id, matcher)
  PROVE  StructInv'
<1> DEFINE f == [peer |-> p, id |-> id, matcher |-> matcher]
           c == <<p, id>>
           es == ElementsInPeers(f)
<1>1. /\ PeerEvent(p)
      /\ \A i \in DOMAIN fetch_list[p] : fetch_list[p][i].id # id
      /\ fetch_list' = [fetch_list EXCEPT ![p] = Append(@, f)]
      /\ UNCHANGED <<peer_list, freed_peers, fetch_groups, element_list>>
  BY DEF AddFetch
<1>2. PICK slotted \in SUBSET es :
        \E told \in SUBSET slotted :
           /\ element_table' = [path \in Paths |->
                 IF path \in slotted
                 THEN [element_table[path] EXCEPT !.fetcher_table = AddFetchToState(@, f)]
                 ELSE element_table[path]]
           /\ view' = [view EXCEPT ![c] = [path \in Paths |->
                 IF path \in told THEN element_table[path].value ELSE Absent]]
           /\ disturbed' = IF told = es THEN disturbed ELSE disturbed \cup {c}
           /\ SendResponse(p, IF told = es THEN 0 ELSE 1)
  BY DEF AddFetch, Walks
<1>3. PICK told \in SUBSET slotted :
           /\ element_table' = [path \in Paths |->
                 IF path \in slotted
                 THEN [element_table[path] EXCEPT !.fetcher_table = AddFetchToState(@, f)]
                 ELSE element_table[path]]
           /\ view' = [view EXCEPT ![c] = [path \in Paths |->
                 IF path \in told THEN element_table[path].value ELSE Absent]]
           /\ disturbed' = IF told = es THEN disturbed ELSE disturbed \cup {c}
           /\ SendResponse(p, IF told = es THEN 0 ELSE 1)
  BY <1>2
<1>4. f \in FetchRecord /\ f.peer = p /\ f.id = id /\ c \in Clients
  BY ConstantsAssumption DEF FetchRecord, Clients
<1>5. es = {path \in Paths : Concerns(f, path)}
  BY ConcernedElements
<1> HIDE DEF f, es
<1>6. p \in ToSet(peer_list)
  BY <1>1 DEF PeerEvent
<1>7. fetch_list[p] \in Seq(FetchRecord) /\ \A h \in ToSet(fetch_list[p]) : h.id # id
  BY <1>1 DEF StructInv, Types, ToSet
<1>8. f \notin ToSet(fetch_list[p]) /\ ~ Registered(f)
  BY <1>4, <1>7 DEF Registered
<1>9. /\ Append(fetch_list[p], f) \in Seq(FetchRecord)
      /\ ToSet(Append(fetch_list[p], f)) = ToSet(fetch_list[p]) \cup {f}
      /\ IsInjective(Append(fetch_list[p], f))
  BY <1>4, <1>7, <1>8, Appended DEF StructInv, FetchListsSound
<1>10. \A q \in Peers :
          fetch_list'[q] = IF q = p THEN Append(fetch_list[p], f) ELSE fetch_list[q]
  BY <1>1 DEF StructInv, Types
<1>11. \A h : Registered(h) => Registered(h)'
  <2> SUFFICES ASSUME NEW h, Registered(h) PROVE Registered(h)'
    OBVIOUS
  <2>1. h.peer \in Peers
    BY Members DEF Registered, StructInv, Types
  <2> QED BY <1>1, <1>9, <1>10, <2>1 DEF Registered
<1>12. Registered(f)'
  BY <1>1, <1>4, <1>6, <1>9, <1>10 DEF Registered
<1>13. ASSUME NEW path \in slotted
       PROVE  /\ path \in Paths /\ Exists(path) /\ element_table[path] \in Element
              /\ f \notin Fetchers(path)
              /\ Holds(AddFetchToState(element_table[path].fetcher_table, f),
                       Fetchers(path) \cup {f})
  <2>1. path \in Paths /\ Exists(path) /\ element_table[path] \in Element
    BY <1>2, <1>5 DEF Concerns, StructInv, Types, Exists
  <2>2. /\ Holds(element_table[path].fetcher_table, Fetchers(path))
        /\ \A h \in Fetchers(path) : Registered(h)
    BY <2>1 DEF StructInv, SlotsHold
  <2>3. f \notin Fetchers(path)
    BY <1>8, <2>2
  <2>4. DistinctClients(Fetchers(path) \cup {f})
    <3>1. DistinctClients(Fetchers(path))
      BY <2>2, RegisteredDistinct
    <3>2. \A h \in Fetchers(path) : h.peer = p => h.id # id
      BY <1>7, <2>2 DEF Registered
    <3> QED BY <1>4, <3>1, <3>2 DEF DistinctClients
  <2> QED BY <1>4, <2>1, <2>2, <2>3, <2>4, SlotAdded
<1>14. ASSUME NEW path \in Paths
       PROVE  /\ element_table'[path] \in Element \cup {NoElement}
              /\ Exists(path)' <=> Exists(path)
              /\ Exists(path) =>
                   /\ element_table'[path].peer = element_table[path].peer
                   /\ element_table'[path].fetch_groups = element_table[path].fetch_groups
                   /\ element_table'[path].value = element_table[path].value
                   /\ element_table'[path].fetcher_table =
                         IF path \in slotted
                         THEN AddFetchToState(element_table[path].fetcher_table, f)
                         ELSE element_table[path].fetcher_table
  <2>1. CASE path \in slotted
    <3> DEFINE t == AddFetchToState(element_table[path].fetcher_table, f)
               e == [element_table[path] EXCEPT !.fetcher_table = t]
    <3>1. t \in Tables
      BY <1>13, <2>1 DEF Holds
    <3>2. element_table'[path] = e
      BY <1>3, <2>1
    <3> HIDE DEF t
    <3>3. /\ e \in Element /\ e.peer = element_table[path].peer
          /\ e.fetch_groups = element_table[path].fetch_groups
          /\ e.value = element_table[path].value /\ e.fetcher_table = t
      BY <1>13, <2>1, <3>1 DEF Element, Tables
    <3> HIDE DEF e
    <3> QED BY <1>13, <2>1, <3>2, <3>3, Constants DEF t, Exists
  <2>2. CASE path \notin slotted
    BY <1>3, <2>2 DEF StructInv, Types, Exists
  <2> QED BY <2>1, <2>2
<1>15. element_table' \in [Paths -> Element \cup {NoElement}]
  BY <1>3, <1>14
<1>16. view' \in [Clients -> [Paths -> ElementValues \cup {Absent}]]
  <2> DEFINE v == [path \in Paths |-> IF path \in told THEN element_table[path].value ELSE Absent]
  <2>1. \A path \in told : element_table[path].value \in ElementValues
    BY <1>3, <1>13 DEF Element
  <2>2. v \in [Paths -> ElementValues \cup {Absent}]
    BY <2>1
  <2>3. view' = [view EXCEPT ![c] = v]
    BY <1>3
  <2> HIDE DEF v, c
  <2> QED BY <2>2, <2>3 DEF StructInv, Types
<1>17. /\ failures' \in 0 .. MaxFailures /\ closing' \in ToSet(peer_list) \cup {NoPeer}
       /\ closing' \in Peers \cup {NoPeer}
  BY <1>1, <1>3, ResponseTyped DEF StructInv
<1>18. Types'
  <2>1. disturbed' \subseteq Clients
    BY <1>3, <1>4 DEF StructInv, Types
  <2>2. fetch_list' \in [Peers -> Seq(FetchRecord)]
    BY <1>1, <1>9, <1>10 DEF StructInv, Types
  <2> HIDE DEF c
  <2> QED BY <1>1, <1>15, <1>16, <1>17, <2>1, <2>2 DEF StructInv, Types
<1>19. PeersSound'
  BY <1>1, <1>17 DEF StructInv, PeersSound
<1>20. FetchListsSound'
  <2> SUFFICES ASSUME NEW q \in Peers
               PROVE  (/\ IsInjective(fetch_list[q])
                       /\ DistinctClients(ToSet(fetch_list[q]))
                       /\ \A h \in ToSet(fetch_list[q]) : h.peer = q /\ q \in ToSet(peer_list))'
    BY DEF FetchListsSound
  <2>1. CASE q = p
    <3>1. DistinctClients(ToSet(fetch_list[p]) \cup {f})
      BY <1>4, <1>7 DEF StructInv, FetchListsSound, DistinctClients
    <3>2. fetch_list'[q] = Append(fetch_list[p], f)
      BY <1>10, <2>1
    <3>3. \A h \in ToSet(fetch_list[p]) \cup {f} : h.peer = q
      BY <1>4, <2>1 DEF StructInv, FetchListsSound
    <3> QED BY <1>1, <1>6, <1>9, <2>1, <3>1, <3>2, <3>3
  <2>2. CASE q # p
    BY <1>1, <1>10, <2>2 DEF StructInv, FetchListsSound
  <2> QED BY <2>1, <2>2
<1>21. ListsSound'
  <2>1. ASSUME NEW q \in Paths, Exists(q)'
        PROVE  (/\ element_table[q].peer \in ToSet(peer_list)
                /\ q \in ToSet(element_list[element_table[q].peer]))'
    BY <1>1, <1>14, <2>1 DEF StructInv, ListsSound
  <2>2. ASSUME NEW r \in Peers
        PROVE  (/\ IsInjective(element_list[r])
                /\ \A q \in ToSet(element_list[r]) :
                      Exists(q) /\ element_table[q].peer = r)'
    <3>1. \A q \in ToSet(element_list[r]) :
             q \in Paths /\ Exists(q) /\ element_table[q].peer = r
      BY Members DEF StructInv, ListsSound, Types
    <3> QED BY <1>1, <1>14, <3>1 DEF StructInv, ListsSound
  <2> QED BY <2>1, <2>2 DEF ListsSound
<1>22. SlotsHold'
  <2> SUFFICES ASSUME NEW q \in Paths, Exists(q)'
               PROVE  (/\ Holds(element_table[q].fetcher_table, Fetchers(q))
                       /\ \A h \in Fetchers(q) : Registered(h) /\ Concerns(h, q))'
    BY DEF SlotsHold
  <2>1. /\ Exists(q)
        /\ Holds(element_table[q].fetcher_table, Fetchers(q))
        /\ \A h \in Fetchers(q) : Registered(h) /\ Concerns(h, q)
    BY <1>14 DEF StructInv, SlotsHold
  <2>2. \A h : Concerns(h, q) => Concerns(h, q)'
    BY <1>1, <1>14, <2>1 DEF Concerns, Interested
  <2>3. CASE q \in slotted
    <3>1. Fetchers(q)' = Fetchers(q) \cup {f}
      BY <1>13, <1>14, <2>1, <2>3 DEF Fetchers, Holds
    <3>2. Concerns(f, q)
      BY <1>2, <1>5, <2>3
    <3> QED BY <1>11, <1>12, <1>13, <1>14, <2>1, <2>2, <2>3, <3>1, <3>2
  <2>4. CASE q \notin slotted
    <3>1. Fetchers(q)' = Fetchers(q)
      BY <1>14, <2>1, <2>4 DEF Fetchers
    <3> QED BY <1>11, <1>14, <2>1, <2>2, <2>4, <3>1
  <2> QED BY <2>3, <2>4
<1> QED BY <1>18, <1>19, <1>20, <1>21, <1>22 DEF StructInv

\* remove_fetch_from_state frees slots.
LEMMA SlotsFreed ==
  ASSUME NEW table, NEW fs, NEW gs, Holds(table, fs)
  PROVE  Holds([i \in DOMAIN table |-> IF table[i] \in gs THEN NoFetch ELSE table[i]], fs \ gs)
<1> DEFINE t == [i \in DOMAIN table |-> IF table[i] \in gs THEN NoFetch ELSE table[i]]
<1>1. table \in Tables /\ Len(table) \in Nat /\ DOMAIN table = 1 .. Len(table)
  BY DEF Holds, Tables
<1>2. t \in Tables /\ Len(t) = Len(table) /\ DOMAIN t = DOMAIN table
  BY <1>1 DEF Tables
<1>3. \A i \in DOMAIN table : t[i] = IF table[i] \in gs THEN NoFetch ELSE table[i]
  OBVIOUS
<1> HIDE DEF t
<1>4. InSlots(t) = fs \ gs
  BY <1>2, <1>3 DEF InSlots, ToSet, Holds
<1>5. \A i, j \in DOMAIN t : t[i] = t[j] /\ t[i] # NoFetch => i = j
  BY <1>2, <1>3 DEF Holds
<1> QED BY <1>2, <1>4, <1>5 DEF Holds, t

\* remove_fetch_from_states takes fetches out of all slots of all elements and
\* changes nothing else.
LEMMA WithoutFetchesSound ==
  ASSUME StructInv, NEW gs
  PROVE  /\ WithoutFetches(gs) \in [Paths -> Element \cup {NoElement}]
         /\ \A path \in Paths :
               /\ WithoutFetches(gs)[path] = NoElement <=> ~ Exists(path)
               /\ Exists(path) =>
                    /\ WithoutFetches(gs)[path].peer = element_table[path].peer
                    /\ WithoutFetches(gs)[path].fetch_groups = element_table[path].fetch_groups
                    /\ WithoutFetches(gs)[path].value = element_table[path].value
                    /\ InSlots(WithoutFetches(gs)[path].fetcher_table) = Fetchers(path) \ gs
                    /\ Holds(WithoutFetches(gs)[path].fetcher_table, Fetchers(path) \ gs)
<1> DEFINE w == WithoutFetches(gs)
           free(table) == [i \in DOMAIN table |-> IF table[i] \in gs THEN NoFetch ELSE table[i]]
<1>1. w = [path \in Paths |->
             IF path \in {q \in Paths : Exists(q)}
             THEN [element_table[path] EXCEPT !.fetcher_table = free(@)]
             ELSE element_table[path]]
  BY ListedElements, Zenon DEF WithoutFetches
<1> HIDE DEF w
<1>2. ASSUME NEW path \in Paths, ~ Exists(path)
      PROVE  w[path] = NoElement
  BY <1>1, <1>2 DEF Exists
<1>3. ASSUME NEW path \in Paths, Exists(path)
      PROVE  /\ w[path] \in Element /\ w[path] # NoElement
             /\ w[path].peer = element_table[path].peer
             /\ w[path].fetch_groups = element_table[path].fetch_groups
             /\ w[path].value = element_table[path].value
             /\ Holds(w[path].fetcher_table, Fetchers(path) \ gs)
  <2> DEFINE t == free(element_table[path].fetcher_table)
             e == [element_table[path] EXCEPT !.fetcher_table = t]
  <2>1. Holds(t, Fetchers(path) \ gs)
    BY <1>3, SlotsFreed DEF StructInv, SlotsHold
  <2>2. w[path] = e
    BY <1>1, <1>3
  <2> HIDE DEF t
  <2>3. element_table[path] \in Element
    BY <1>3 DEF StructInv, Types, Exists
  <2>4. t \in Tables
    BY <2>1 DEF Holds
  <2>5. /\ e \in Element /\ e.peer = element_table[path].peer
        /\ e.fetch_groups = element_table[path].fetch_groups
        /\ e.value = element_table[path].value /\ e.fetcher_table = t
    BY <2>3, <2>4 DEF Element, Tables
  <2> HIDE DEF e
  <2> QED BY <2>1, <2>2, <2>5, Constants
<1>4. w \in [Paths -> Element \cup {NoElement}]
  <2>1. \A path \in Paths : w[path] \in Element \cup {NoElement}
    BY <1>2, <1>3
  <2>2. w = [path \in Paths |-> w[path]]
    BY <1>1
  <2> QED BY <2>1, <2>2
<1>5. \A path \in Paths : w[path] = NoElement <=> ~ Exists(path)
  BY <1>2, <1>3
<1>6. \A path \in Paths : Exists(path) =>
         InSlots(w[path].fetcher_table) = Fetchers(path) \ gs
  BY <1>3 DEF Holds
<1> QED BY <1>3, <1>4, <1>5, <1>6 DEF w

\* unfetch frees the slots of the fetch before its memory.
LEMMA StructRemoveFetch ==
  ASSUME StructInv, NEW p \in Peers, NEW i \in DOMAIN fetch_list[p], RemoveFetch(p, i)
  PROVE  StructInv'
<1> DEFINE f == fetch_list[p][i]
           r == RemoveAt(fetch_list[p], i)
<1>1. /\ PeerEvent(p) /\ SendResponse(p, 0)
      /\ element_table' = WithoutFetches({f})
      /\ fetch_list' = [fetch_list EXCEPT ![p] = r]
      /\ view' = Forgotten({<<p, f.id>>})
      /\ disturbed' = disturbed \ {<<p, f.id>>}
      /\ UNCHANGED <<peer_list, freed_peers, fetch_groups, element_list>>
  BY DEF RemoveFetch
<1>2. fetch_list[p] \in Seq(FetchRecord) /\ f \in ToSet(fetch_list[p])
  BY Members DEF StructInv, Types
<1>3. r \in Seq(FetchRecord) /\ ToSet(r) = ToSet(fetch_list[p]) \ {f} /\ IsInjective(r)
  BY <1>2, RemovedAt, RemovedFrom DEF StructInv, FetchListsSound
<1> HIDE DEF f, r
<1>4. \A q \in Peers : fetch_list'[q] = IF q = p THEN r ELSE fetch_list[q]
  BY <1>1 DEF StructInv, Types
<1>5. view' \in [Clients -> [Paths -> ElementValues \cup {Absent}]]
  BY <1>1 DEF StructInv, Types, Forgotten, NothingKnown
<1>6. /\ failures' \in 0 .. MaxFailures /\ closing' \in ToSet(peer_list) \cup {NoPeer}
      /\ closing' \in Peers \cup {NoPeer}
  BY <1>1, ResponseTyped DEF StructInv
<1>7. /\ element_table' \in [Paths -> Element \cup {NoElement}]
      /\ \A path \in Paths :
            /\ Exists(path)' <=> Exists(path)
            /\ Exists(path) =>
                 /\ element_table'[path].peer = element_table[path].peer
                 /\ element_table'[path].fetch_groups = element_table[path].fetch_groups
                 /\ Fetchers(path)' = Fetchers(path) \ {f}
                 /\ Holds(element_table'[path].fetcher_table, Fetchers(path) \ {f})
  BY <1>1, WithoutFetchesSound DEF Exists, Fetchers
<1>8. Types'
  BY <1>1, <1>3, <1>4, <1>5, <1>6, <1>7 DEF StructInv, Types
<1>9. PeersSound'
  BY <1>1, <1>6 DEF StructInv, PeersSound
<1>10. FetchListsSound'
  BY <1>1, <1>3, <1>4 DEF StructInv, FetchListsSound, DistinctClients
<1>11. ListsSound'
  <2>1. ASSUME NEW q \in Paths, Exists(q)'
        PROVE  (/\ element_table[q].peer \in ToSet(peer_list)
                /\ q \in ToSet(element_list[element_table[q].peer]))'
    BY <1>1, <1>7, <2>1 DEF StructInv, ListsSound
  <2>2. ASSUME NEW q \in Peers
        PROVE  (/\ IsInjective(element_list[q])
                /\ \A path \in ToSet(element_list[q]) :
                      Exists(path) /\ element_table[path].peer = q)'
    <3>1. \A path \in ToSet(element_list[q]) :
             path \in Paths /\ Exists(path) /\ element_table[path].peer = q
      BY Members DEF StructInv, ListsSound, Types
    <3> QED BY <1>1, <1>7, <3>1 DEF StructInv, ListsSound
  <2> QED BY <2>1, <2>2 DEF ListsSound
<1>12. SlotsHold'
  <2> SUFFICES ASSUME NEW q \in Paths, Exists(q)'
               PROVE  (/\ Holds(element_table[q].fetcher_table, Fetchers(q))
                       /\ \A h \in Fetchers(q) : Registered(h) /\ Concerns(h, q))'
    BY DEF SlotsHold
  <2>1. /\ Exists(q)
        /\ \A h \in Fetchers(q) : Registered(h) /\ Concerns(h, q)
    BY <1>7 DEF StructInv, SlotsHold
  <2>2. \A h : Concerns(h, q) => Concerns(h, q)'
    BY <1>1, <1>7, <2>1 DEF Concerns, Interested
  <2>3. ASSUME NEW h, Registered(h), h # f PROVE Registered(h)'
    <3>1. h.peer \in Peers
      BY <2>3, Members DEF Registered, StructInv, Types
    <3> QED BY <1>1, <1>3, <1>4, <2>3, <3>1 DEF Registered
  <2> QED BY <1>7, <2>1, <2>2, <2>3
<1> QED BY <1>8, <1>9, <1>10, <1>11, <1>12 DEF StructInv

\* A list has finitely many members.
LEMMA MembersFinite ==
  ASSUME NEW S, NEW s \in Seq(S)
  PROVE  IsFiniteSet(ToSet(s))
<1>1. Len(s) \in Nat /\ DOMAIN s = 1 .. Len(s) /\ s \in [1 .. Len(s) -> S]
  OBVIOUS
<1>2. s \in Surjection(1 .. Len(s), ToSet(s))
  BY <1>1 DEF Surjection, ToSet
<1>3. ExistsSurjection(1 .. Len(s), ToSet(s))
  BY <1>2 DEF ExistsSurjection
<1> QED BY <1>1, <1>3, FS_NatSurjection

\* free_peer_resources takes the elements and fetches of the peer out of all
\* tables, lists and slots.
LEMMA StructFreePeerResources ==
  ASSUME StructInv, NEW p \in Peers, NEW i \in DOMAIN peer_list,
         NEW stops \in [ToSet(element_list[p]) -> Stops], FreePeerResources(p, i, stops)
  PROVE  StructInv'
<1> DEFINE gs == ToSet(fetch_list[p])
           without == WithoutFetches(gs)
           own == ToSet(element_list[p])
           table(path) == without[path].fetcher_table
           missed(path) == ClientsOf(Missed(table(path), stops[path]))
           reached(path) == ClientsOf(Reached(table(path), stops[path]))
           mine == {p} \X FetchIds
           cut == {path \in own : stops[path] < Len(table(path))}
           r == RemoveAt(peer_list, i)
<1>1. /\ closing = p /\ peer_list[i] = p
      /\ \A path \in own : StopsAfter(table(path), stops[path])
      /\ failures + Cardinality(cut) <= MaxFailures
      /\ failures' = failures + Cardinality(cut)
      /\ element_table' = [path \in Paths |->
            IF path \in own THEN NoElement ELSE without[path]]
      /\ view' = [c \in Clients |-> [path \in Paths |->
            IF c \in mine \/ (path \in own /\ c \in reached(path))
            THEN Absent ELSE view[c][path]]]
      /\ disturbed' = (disturbed \cup UNION {missed(path) : path \in own}) \ mine
      /\ fetch_list' = [fetch_list EXCEPT ![p] = << >>]
      /\ element_list' = [element_list EXCEPT ![p] = << >>]
      /\ peer_list' = r
      /\ freed_peers' = freed_peers \cup {p}
      /\ closing' = NoPeer
      /\ UNCHANGED fetch_groups
  BY DEF FreePeerResources
<1>2. r \in Seq(Peers) /\ ToSet(r) = ToSet(peer_list) \ {p} /\ IsInjective(r)
  BY <1>1, RemovedAt, RemovedFrom DEF StructInv, Types, PeersSound
<1>3. own = {path \in Paths : Exists(path) /\ element_table[path].peer = p}
  <2>1. own \subseteq Paths
    BY Members DEF StructInv, Types
  <2> QED BY <2>1 DEF StructInv, ListsSound
<1>4. /\ without \in [Paths -> Element \cup {NoElement}]
      /\ \A path \in Paths :
            /\ without[path] = NoElement <=> ~ Exists(path)
            /\ Exists(path) =>
                 /\ without[path].peer = element_table[path].peer
                 /\ without[path].fetch_groups = element_table[path].fetch_groups
                 /\ InSlots(table(path)) = Fetchers(path) \ gs
                 /\ Holds(table(path), Fetchers(path) \ gs)
  BY WithoutFetchesSound
<1>5. IsFiniteSet(own) /\ own \subseteq Paths
  BY Members, MembersFinite DEF StructInv, Types
<1> HIDE DEF r, without, own
<1>6. failures' \in 0 .. MaxFailures
  <2>1. cut \in SUBSET own
    OBVIOUS
  <2>2. Cardinality(cut) \in Nat
    <3> HIDE DEF cut
    <3> QED BY <1>5, <2>1, FS_Subset, FS_CardinalityType
  <2> HIDE DEF cut
  <2> QED BY <1>1, <2>2, ConstantsAssumption DEF StructInv, Types
<1>7. \A path \in own : missed(path) \subseteq Clients
  <2> SUFFICES ASSUME NEW path \in own PROVE missed(path) \subseteq Clients
    OBVIOUS
  <2>1. table(path) \in Tables
    BY <1>3, <1>4 DEF Holds
  <2>2. stops[path] \in 0 .. Len(table(path))
    BY <1>1 DEF StopsAfter
  <2> QED BY <2>1, <2>2, SlotClients DEF ClientsOf
<1>8. disturbed' \subseteq Clients
  <2> HIDE DEF missed, mine
  <2> QED BY <1>1, <1>7 DEF StructInv, Types
<1>9. view' \in [Clients -> [Paths -> ElementValues \cup {Absent}]]
  <2> HIDE DEF reached, mine
  <2>1. \A c \in Clients : view'[c] \in [Paths -> ElementValues \cup {Absent}]
    BY <1>1 DEF StructInv, Types
  <2> QED BY <1>1, <2>1
<1>10. /\ element_table' \in [Paths -> Element \cup {NoElement}]
       /\ \A path \in Paths :
             /\ Exists(path)' <=> Exists(path) /\ element_table[path].peer # p
             /\ Exists(path)' =>
                  /\ element_table'[path].peer = element_table[path].peer
                  /\ element_table'[path].fetch_groups = element_table[path].fetch_groups
                  /\ Fetchers(path)' = Fetchers(path) \ gs
                  /\ Holds(element_table'[path].fetcher_table, Fetchers(path) \ gs)
  <2>1. \A path \in Paths : element_table'[path] = IF path \in own THEN NoElement ELSE without[path]
    BY <1>1
  <2>2. element_table' \in [Paths -> Element \cup {NoElement}]
    BY <1>1, <1>4
  <2> QED BY <1>3, <1>4, <2>1, <2>2 DEF Exists, Fetchers
<1>11. /\ \A q \in Peers : fetch_list'[q] = IF q = p THEN << >> ELSE fetch_list[q]
       /\ \A q \in Peers : element_list'[q] = IF q = p THEN << >> ELSE element_list[q]
       /\ fetch_list' \in [Peers -> Seq(FetchRecord)]
       /\ element_list' \in [Peers -> Seq(Paths)]
  BY <1>1 DEF StructInv, Types
<1>12. Types'
  BY <1>1, <1>2, <1>6, <1>8, <1>9, <1>10, <1>11 DEF StructInv, Types
<1>13. PeersSound'
  BY <1>1, <1>2 DEF StructInv, PeersSound
<1>14. ToSet(<< >>) = {} /\ IsInjective(<< >>)
  BY DEF ToSet, IsInjective
<1>15. FetchListsSound'
  BY <1>1, <1>2, <1>11, <1>14 DEF StructInv, FetchListsSound, DistinctClients
<1>16. ListsSound'
  <2>1. ASSUME NEW q \in Paths, Exists(q)'
        PROVE  (/\ element_table[q].peer \in ToSet(peer_list)
                /\ q \in ToSet(element_list[element_table[q].peer]))'
    <3>1. /\ Exists(q) /\ element_table[q].peer # p
          /\ element_table'[q].peer = element_table[q].peer
          /\ element_table[q].peer \in ToSet(peer_list)
          /\ q \in ToSet(element_list[element_table[q].peer])
      BY <1>10, <2>1 DEF StructInv, ListsSound
    <3>2. element_table[q].peer \in Peers
      BY <3>1, Members DEF StructInv, Types
    <3> QED BY <1>1, <1>2, <1>11, <3>1, <3>2
  <2>2. ASSUME NEW q \in Peers
        PROVE  (/\ IsInjective(element_list[q])
                /\ \A path \in ToSet(element_list[q]) :
                      Exists(path) /\ element_table[path].peer = q)'
    <3>1. \A path \in ToSet(element_list[q]) :
             path \in Paths /\ Exists(path) /\ element_table[path].peer = q
      BY Members DEF StructInv, ListsSound, Types
    <3> QED BY <1>10, <1>11, <1>14, <3>1 DEF StructInv, ListsSound
  <2> QED BY <2>1, <2>2 DEF ListsSound
<1>17. SlotsHold'
  <2> SUFFICES ASSUME NEW q \in Paths, Exists(q)'
               PROVE  (/\ Holds(element_table[q].fetcher_table, Fetchers(q))
                       /\ \A h \in Fetchers(q) : Registered(h) /\ Concerns(h, q))'
    BY DEF SlotsHold
  <2>1. /\ Exists(q)
        /\ \A h \in Fetchers(q) : Registered(h) /\ Concerns(h, q)
    BY <1>10 DEF StructInv, SlotsHold
  <2>2. \A h : Concerns(h, q) => Concerns(h, q)'
    BY <1>1, <1>10, <2>1 DEF Concerns, Interested
  <2>3. ASSUME NEW h, Registered(h), h \notin gs PROVE Registered(h)'
    <3>1. h.peer \in Peers /\ h.peer # p
      BY <2>3, Members DEF Registered, StructInv, Types
    <3> QED BY <1>1, <1>2, <1>11, <2>3, <3>1 DEF Registered
  <2> HIDE DEF gs
  <2> QED BY <1>10, <2>1, <2>2, <2>3
<1> QED BY <1>12, <1>13, <1>15, <1>16, <1>17 DEF StructInv

\* No step of the server leaves an element outside its owner's list, or a slot
\* with a fetch that is gone, must not see the element or has another slot.
LEMMA StructNext == StructInv /\ [Next]_vars => StructInv'
<1> SUFFICES ASSUME StructInv, [Next]_vars PROVE StructInv'
  OBVIOUS
<1>1. CASE UNCHANGED vars
  <2>1. /\ UNCHANGED lists /\ UNCHANGED <<closing, fetch_groups, failures, view, disturbed>>
    BY <1>1 DEF vars, lists
  <2>2. Types'
    BY <2>1 DEF StructInv, Types, lists
  <2>3. closing' \in ToSet(peer_list) \cup {NoPeer}
    BY <2>1 DEF StructInv, PeersSound
  <2> QED BY <2>1, <2>2, <2>3, QuietStruct
<1>2. CASE Next
  <2> PICK p \in Peers :
        \/ InitPeer(p)
        \/ \E g \in SUBSET Groups : Authenticate(p, g)
        \/ RequestWithoutEffect(p)
        \/ \E path \in Paths, v \in ElementValues, g \in GroupSets :
              AddElement(p, path, v, g) \/ AddElementFailed(p, path, v, g)
        \/ \E path \in Paths, v \in Values, n \in Stops :
              ChangeState(p, path, v, n)
        \/ \E i \in DOMAIN element_list[p], n \in Stops : RemoveElement(p, i, n)
        \/ \E id \in FetchIds, matcher \in MatchSets : AddFetch(p, id, matcher)
        \/ \E i \in DOMAIN fetch_list[p] : RemoveFetch(p, i)
        \/ Disconnect(p)
        \/ \E i \in DOMAIN peer_list, stops \in [ToSet(element_list[p]) -> Stops] :
              FreePeerResources(p, i, stops)
    BY <1>2 DEF Next
  <2>1. CASE InitPeer(p)
    BY <2>1, StructInitPeer
  <2>2. CASE \E g \in SUBSET Groups : Authenticate(p, g)
    BY <2>2, StructAuthenticate
  <2>3. CASE RequestWithoutEffect(p)
    BY <2>3, StructRequestWithoutEffect
  <2>4. CASE \E path \in Paths, v \in ElementValues, g \in GroupSets :
                AddElement(p, path, v, g) \/ AddElementFailed(p, path, v, g)
    <3>1. GroupSets \subseteq SUBSET Groups
      BY DEF GroupSets
    <3> QED BY <2>4, <3>1, StructAddElement, StructAddElementFailed
  <2>5. CASE \E path \in Paths, v \in Values, n \in Stops : ChangeState(p, path, v, n)
    BY <2>5, StructChangeState
  <2>6. CASE \E i \in DOMAIN element_list[p], n \in Stops : RemoveElement(p, i, n)
    BY <2>6, StructRemoveElement
  <2>7. CASE \E id \in FetchIds, matcher \in MatchSets : AddFetch(p, id, matcher)
    BY <2>7, StructAddFetch
  <2>8. CASE \E i \in DOMAIN fetch_list[p] : RemoveFetch(p, i)
    BY <2>8, StructRemoveFetch
  <2>9. CASE Disconnect(p)
    BY <2>9, StructDisconnect
  <2>10. CASE \E i \in DOMAIN peer_list, stops \in [ToSet(element_list[p]) -> Stops] :
                 FreePeerResources(p, i, stops)
    BY <2>10, StructFreePeerResources
  <2> QED BY <2>1, <2>2, <2>3, <2>4, <2>5, <2>6, <2>7, <2>8, <2>9, <2>10
<1> QED BY <1>1, <1>2

\* Elements, lists, fetches and slots fit each other in every reachable state.
THEOREM Structure == Spec => []StructInv
BY StructInit, StructNext, PTL DEF Spec

\* Every element of the table is once in the list of its connected owner, the
\* lists hold nothing else, and fetcher tables have the sizes that doubling
\* CONFIG_INITIAL_FETCH_TABLE_SIZE on demand gives (element.c add_element,
\* remove_element, free_element and fetch.c add_fetch_to_state).
THEOREM ElementLists == Spec => []ElementListsSound
<1>1. StructInv => ElementListsSound
  <2> SUFFICES ASSUME StructInv PROVE ElementListsSound
    OBVIOUS
  <2>1. TypeOK
    <3>1. \A path \in Paths : Exists(path) =>
             LET size == Len(element_table[path].fetcher_table)
             IN  /\ size >= InitialTableSize
                 /\ size = InitialTableSize \/ size < 2 * Cardinality(Clients)
      BY DEF StructInv, SlotsHold, Holds
    <3> QED BY <3>1 DEF StructInv, Types, TypeOK
  <2> QED BY <2>1 DEF StructInv, ListsSound, ElementListsSound
<1> QED BY <1>1, Structure, PTL

\* No slot of a fetcher table is a dangling pointer, a fetch without access or
\* the second slot of a fetch (notify_fetchers follows them all).
THEOREM Slots == Spec => []SlotsSound
<1>1. StructInv => SlotsSound
  BY DEF StructInv, SlotsHold, SlotsSound, Holds, Registered, Concerns, Fetchers
<1> QED BY <1>1, Structure, PTL

-----------------------------------------------------------------------------
(* The views.                                                              *)

\* Those a notification for an element with the groups g is made to
ToBeTold(fs, g, path) ==
    \A f \in fs : Registered(f) /\ Interested(g, path, f)

\* A client that was told has the fetch, with access to the element.
LEMMA ToldHaveFetch ==
  ASSUME StructInv, NEW fs, NEW g, NEW path, ToBeTold(fs, g, path)
  PROVE  /\ \A f : Registered(f) => (<<f.peer, f.id>> \in ClientsOf(fs) <=> f \in fs)
         /\ \A p \in Peers, id \in FetchIds :
               (\A f \in ToSet(fetch_list[p]) : f.id # id) => <<p, id>> \notin ClientsOf(fs)
         /\ \A p \in Peers, id \in FetchIds :
               GroupsLoaded /\ fetch_groups[p] = {} => <<p, id>> \notin ClientsOf(fs)
<1>1. ASSUME NEW f, Registered(f), <<f.peer, f.id>> \in ClientsOf(fs)
      PROVE  f \in fs
  <2>1. PICK h \in fs : h.peer = f.peer /\ h.id = f.id
    BY <1>1 DEF ClientsOf
  <2>2. DistinctClients({h, f})
    BY <1>1, <2>1, RegisteredDistinct DEF ToBeTold
  <2> QED BY <2>1, <2>2 DEF DistinctClients
<1>2. \A f \in fs : <<f.peer, f.id>> \in ClientsOf(fs)
  BY DEF ClientsOf
<1>3. ASSUME NEW p \in Peers, NEW id \in FetchIds, <<p, id>> \in ClientsOf(fs)
      PROVE  /\ \E f \in ToSet(fetch_list[p]) : f.id = id
             /\ ~ (GroupsLoaded /\ fetch_groups[p] = {})
  <2>1. PICK h \in fs : h.peer = p /\ h.id = id
    BY <1>3 DEF ClientsOf
  <2>2. Registered(h) /\ HasAccess(g, fetch_groups[p])
    BY <2>1 DEF Interested, ToBeTold
  <2> QED BY <2>1, <2>2 DEF Registered, HasAccess
<1> QED BY <1>1, <1>2, <1>3

\* What a round of notifications makes of the views: the clients told know x
\* of the element, nothing else changes.
LEMMA NotifiedViews ==
  ASSUME StructInv, NEW fs, NEW g, NEW path \in Paths, NEW x, ToBeTold(fs, g, path),
         NEW v, v = Notified(view, fs, path, x)
  PROVE  /\ \A f \in FetchRecord, r \in Paths : Registered(f) =>
               v[<<f.peer, f.id>>][r] =
                  IF f \in fs /\ r = path THEN x ELSE view[<<f.peer, f.id>>][r]
         /\ \A p \in Peers, id \in FetchIds :
               \/ \A f \in ToSet(fetch_list[p]) : f.id # id
               \/ GroupsLoaded /\ fetch_groups[p] = {}
               => v[<<p, id>>] = view[<<p, id>>]
<1>1. \A c \in Clients :
         v[c] = IF c \in ClientsOf(fs)
                                          THEN [view[c] EXCEPT ![path] = x] ELSE view[c]
  BY DEF Notified
<1>2. \A c \in Clients, r \in Paths :
         v[c][r] = IF c \in ClientsOf(fs) /\ r = path
                                             THEN x ELSE view[c][r]
  BY <1>1 DEF StructInv, Types
<1>3. ASSUME NEW f \in FetchRecord, NEW r \in Paths, Registered(f)
      PROVE  v[<<f.peer, f.id>>][r] =
                IF f \in fs /\ r = path THEN x ELSE view[<<f.peer, f.id>>][r]
  <2>1. <<f.peer, f.id>> \in Clients
    BY DEF FetchRecord, Clients
  <2>2. <<f.peer, f.id>> \in ClientsOf(fs) <=> f \in fs
    BY <1>3, ToldHaveFetch
  <2> QED BY <1>2, <2>1, <2>2
<1>4. ASSUME NEW p \in Peers, NEW id \in FetchIds,
             \/ \A f \in ToSet(fetch_list[p]) : f.id # id
             \/ GroupsLoaded /\ fetch_groups[p] = {}
      PROVE  v[<<p, id>>] = view[<<p, id>>]
  <2>1. <<p, id>> \in Clients
    BY DEF Clients
  <2>2. <<p, id>> \notin ClientsOf(fs)
    BY <1>4, ToldHaveFetch
  <2> QED BY <1>1, <2>1, <2>2
<1> QED BY <1>3, <1>4

\* Notifications reach no client without the fetch and none without groups.
LEMMA NotifiedKeeps ==
  ASSUME StructInv, ViewInv, NEW fs, NEW g, NEW path \in Paths, NEW x, ToBeTold(fs, g, path),
         view' = Notified(view, fs, path, x), UNCHANGED <<fetch_list, fetch_groups>>
  PROVE  NothingUnfetched' /\ ClosedViews'
<1>1. \A p \in Peers, id \in FetchIds :
         \/ \A f \in ToSet(fetch_list[p]) : f.id # id
         \/ GroupsLoaded /\ fetch_groups[p] = {}
         => view'[<<p, id>>] = view[<<p, id>>]
  BY NotifiedViews
<1>2. NothingUnfetched'
  BY <1>1 DEF ViewInv, NothingUnfetched, NothingKnown
<1>3. ClosedViews'
  BY <1>1 DEF ViewInv, ClosedViews, NothingKnown
<1> QED BY <1>2, <1>3

\* A registered fetch of the lists.
LEMMA ListedFetch ==
  ASSUME StructInv, NEW p \in Peers, NEW f \in ToSet(fetch_list[p])
  PROVE  /\ f \in FetchRecord /\ f.peer = p /\ Registered(f)
         /\ <<p, f.id>> \in Clients /\ p \in ToSet(peer_list)
<1>1. f \in FetchRecord
  BY Members DEF StructInv, Types
<1> QED BY <1>1 DEF StructInv, FetchListsSound, Registered, FetchRecord, Clients

\* The groups of a peer change only while it has no fetch (authenticate.c
\* refuses "fetched before authenticate"; init_peer).
LEMMA ViewGroupsSet ==
  ASSUME StructInv, ViewInv, NEW p \in Peers, NEW g, fetch_list[p] = << >>,
         fetch_groups' = [fetch_groups EXCEPT ![p] = g],
         UNCHANGED <<element_table, fetch_list, view, disturbed>>
  PROVE  ViewInv'
<1>1. \A q \in Peers : q # p => fetch_groups'[q] = fetch_groups[q]
  BY DEF StructInv, Types
<1>2. NothingUnfetched'
  BY DEF ViewInv, NothingUnfetched, NothingKnown
<1>3. \A f \in ToSet(fetch_list[p]) : FALSE
  BY DEF ToSet
<1>4. Mirrors'
  <2> SUFFICES ASSUME NEW q \in Peers, NEW f \in ToSet(fetch_list'[q]),
                      <<q, f.id>> \notin disturbed', NEW path \in Paths
               PROVE  (IF Concerns(f, path)
                       THEN /\ f \in Fetchers(path)
                            /\ view[<<q, f.id>>][path] = element_table[path].value
                       ELSE view[<<q, f.id>>][path] = Absent)'
    BY DEF Mirrors
  <2>1. f.peer = q /\ q # p
    BY <1>3, ListedFetch
  <2>2. Concerns(f, path)' <=> Concerns(f, path)
    BY <1>1, <2>1 DEF Concerns, Exists, Interested
  <2> QED BY <2>2 DEF ViewInv, Mirrors, Fetchers
<1>5. ClosedViews'
  <2> SUFFICES ASSUME GroupsLoaded, NEW q \in Peers, fetch_groups'[q] = {}, NEW id \in FetchIds
               PROVE  view'[<<q, id>>] = NothingKnown
    BY DEF ClosedViews, NothingKnown
  <2>1. CASE q = p
    BY <1>3, <2>1 DEF ViewInv, NothingUnfetched
  <2>2. CASE q # p
    BY <1>1, <2>2 DEF ViewInv, ClosedViews
  <2> QED BY <2>1, <2>2
<1> QED BY <1>2, <1>4, <1>5 DEF ViewInv

\* A step that changes neither elements nor fetches, and tells nobody.
LEMMA QuietView ==
  ASSUME ViewInv, UNCHANGED <<element_table, fetch_list, fetch_groups, view, disturbed>>
  PROVE  ViewInv'
<1>1. NothingUnfetched'
  BY DEF ViewInv, NothingUnfetched, NothingKnown
<1>2. Mirrors'
  BY DEF ViewInv, Mirrors, Concerns, Exists, Interested, Fetchers
<1>3. ClosedViews'
  BY DEF ViewInv, ClosedViews, NothingKnown
<1> QED BY <1>1, <1>2, <1>3 DEF ViewInv

\* A client that connects knows nothing, whatever groups its peer has.
LEMMA ViewInitPeer ==
  ASSUME StructInv, ViewInv, NEW p \in Peers, InitPeer(p)
  PROVE  ViewInv'
<1>1. PICK g : fetch_groups' = [fetch_groups EXCEPT ![p] = g]
  BY DEF InitPeer
<1>2. p \notin ToSet(peer_list)
  BY DEF InitPeer
<1>3. fetch_list[p] = << >>
  <2>1. ToSet(fetch_list[p]) = {}
    BY <1>2 DEF StructInv, FetchListsSound
  <2> QED BY <2>1, Members DEF StructInv, Types
<1>4. UNCHANGED <<element_table, fetch_list, view, disturbed>>
  BY DEF InitPeer
<1> QED BY <1>1, <1>3, <1>4, ViewGroupsSet

\* add tells every client that fetches the new element its value.
LEMMA ViewAddElement ==
  ASSUME StructInv, ViewInv, NEW p \in Peers, NEW path \in Paths, NEW value \in ElementValues,
         NEW g \in SUBSET Groups, AddElement(p, path, value, g)
  PROVE  ViewInv'
<1> DEFINE T == FindFetchersForElement(g, path)
<1>1. /\ ~ Exists(path)
      /\ view' = Notified(view, T, path, value)
      /\ UNCHANGED <<peer_list, fetch_groups, fetch_list, disturbed>>
  BY DEF AddElement
<1>2. PICK fs \in InOrder(T, FetchPrecedes) :
         element_table' = [element_table EXCEPT ![path] = NewElement(p, value, g, fs)]
  BY DEF AddElement
<1>3. InSlots(FetcherTable(fs)) = T /\ FetcherTable(fs) \in Tables
  BY <1>2, InOrderHolds DEF Holds
<1>4. T = {f \in FetchRecord : Registered(f) /\ Interested(g, path, f)}
  BY Targets
<1> HIDE DEF T
<1> DEFINE e == NewElement(p, value, g, fs)
<1>5. e.value = value /\ e.fetch_groups = g /\ e.fetcher_table = FetcherTable(fs)
  BY DEF NewElement
<1>6. e \in Element /\ e # NoElement
  BY <1>3, Constants DEF NewElement, Element, Tables
<1> HIDE DEF e
<1>7. \A q \in Paths : element_table'[q] = IF q = path THEN e ELSE element_table[q]
  BY <1>2 DEF StructInv, Types, e
<1>8. ToBeTold(T, g, path)
  BY <1>4 DEF ToBeTold
<1>9. NothingUnfetched' /\ ClosedViews'
  BY <1>1, <1>8, NotifiedKeeps
<1>10. Mirrors'
  <2> SUFFICES ASSUME NEW q \in Peers, NEW f \in ToSet(fetch_list'[q]),
                      <<q, f.id>> \notin disturbed', NEW r \in Paths
               PROVE  (IF Concerns(f, r)
                       THEN /\ f \in Fetchers(r)
                            /\ view[<<q, f.id>>][r] = element_table[r].value
                       ELSE view[<<q, f.id>>][r] = Absent)'
    BY DEF Mirrors
  <2>1. f \in FetchRecord /\ f.peer = q /\ Registered(f)
    BY <1>1, ListedFetch
  <2>2. view'[<<q, f.id>>][r] = IF f \in T /\ r = path THEN value ELSE view[<<q, f.id>>][r]
    BY <1>1, <1>8, <2>1, NotifiedViews
  <2>3. IF Concerns(f, r)
        THEN f \in Fetchers(r) /\ view[<<q, f.id>>][r] = element_table[r].value
        ELSE view[<<q, f.id>>][r] = Absent
    BY <1>1 DEF ViewInv, Mirrors
  <2>4. CASE r = path
    <3>1. Concerns(f, r)' <=> f \in T
      BY <1>1, <1>4, <1>5, <1>6, <1>7, <2>1, <2>4 DEF Concerns, Exists, Interested
    <3>2. Fetchers(r)' = T
      BY <1>3, <1>5, <1>7, <2>4 DEF Fetchers
    <3>3. ~ Concerns(f, r)
      BY <1>1, <2>4 DEF Concerns
    <3> QED BY <1>5, <1>7, <2>2, <2>3, <2>4, <3>1, <3>2, <3>3
  <2>5. CASE r # path
    <3>1. element_table'[r] = element_table[r]
      BY <1>7, <2>5
    <3>2. Concerns(f, r)' <=> Concerns(f, r)
      BY <1>1, <3>1 DEF Concerns, Exists, Interested
    <3> QED BY <2>2, <2>3, <2>5, <3>1, <3>2 DEF Fetchers
  <2> QED BY <2>4, <2>5
<1> QED BY <1>9, <1>10 DEF ViewInv

\* A refused add only misleads clients that count as disturbed.
LEMMA ViewAddElementFailed ==
  ASSUME StructInv, ViewInv, NEW p \in Peers, NEW path \in Paths, NEW value \in ElementValues,
         NEW g \in SUBSET Groups, AddElementFailed(p, path, value, g)
  PROVE  ViewInv'
<1>1. UNCHANGED <<peer_list, fetch_groups, element_table, fetch_list>>
  BY DEF AddElementFailed
<1>2. PICK told \in SUBSET FindFetchersForElement(g, path) :
         /\ view' = Notified(view, told, path, value)
         /\ disturbed' = disturbed \cup ClientsOf(told)
  BY DEF AddElementFailed, Walks
<1>3. ToBeTold(told, g, path)
  BY Targets DEF ToBeTold
<1>4. NothingUnfetched' /\ ClosedViews'
  BY <1>1, <1>2, <1>3, NotifiedKeeps
<1>5. Mirrors'
  <2> SUFFICES ASSUME NEW q \in Peers, NEW f \in ToSet(fetch_list'[q]),
                      <<q, f.id>> \notin disturbed', NEW r \in Paths
               PROVE  (IF Concerns(f, r)
                       THEN /\ f \in Fetchers(r)
                            /\ view[<<q, f.id>>][r] = element_table[r].value
                       ELSE view[<<q, f.id>>][r] = Absent)'
    BY DEF Mirrors
  <2>1. f \in FetchRecord /\ f.peer = q /\ Registered(f)
    BY <1>1, ListedFetch
  <2>2. <<q, f.id>> \notin disturbed /\ f \notin told
    BY <1>2, <2>1 DEF ClientsOf
  <2>3. view'[<<q, f.id>>][r] = view[<<q, f.id>>][r]
    BY <1>2, <1>3, <2>1, <2>2, NotifiedViews
  <2>4. Concerns(f, r)' <=> Concerns(f, r)
    BY <1>1 DEF Concerns, Exists, Interested
  <2> QED BY <1>1, <2>2, <2>3, <2>4 DEF ViewInv, Mirrors, Fetchers
<1> QED BY <1>4, <1>5 DEF ViewInv

\* A notification that was not made was missed.
LEMMA ReachedOrMissed ==
  ASSUME NEW table \in Tables, NEW n \in 0 .. Len(table)
  PROVE  InSlots(table) = Reached(table, n) \cup Missed(table, n)
<1>1. Len(table) \in Nat /\ DOMAIN table = 1 .. Len(table)
  BY DEF Tables
<1>2. \A i \in 1 .. Len(table) : i \in 1 .. n \/ i \in n + 1 .. Len(table)
  BY <1>1
<1>3. \A i \in 1 .. n : i \in 1 .. Len(table)
  BY <1>1
<1>4. \A i \in n + 1 .. Len(table) : i \in 1 .. Len(table)
  BY <1>1
<1> QED BY <1>1, <1>2, <1>3, <1>4 DEF InSlots, ToSet, Reached, Missed

\* change tells every client with a slot the new value; those it does not
\* reach count as disturbed.
LEMMA ViewChangeState ==
  ASSUME StructInv, ViewInv, NEW p \in Peers, NEW path \in Paths, NEW value \in Values, NEW n,
         ChangeState(p, path, value, n)
  PROVE  ViewInv'
<1> DEFINE table == element_table[path].fetcher_table
<1>1. /\ Exists(path) /\ n \in 0 .. Len(table)
      /\ element_table' = [element_table EXCEPT ![path].value = value]
      /\ view' = Notified(view, Reached(table, n), path, value)
      /\ disturbed' = disturbed \cup ClientsOf(Missed(table, n))
      /\ UNCHANGED <<peer_list, fetch_groups, fetch_list>>
  BY DEF ChangeState, StopsAfter
<1>2. table \in Tables /\ InSlots(table) = Fetchers(path)
  BY <1>1 DEF StructInv, SlotsHold, Holds
<1> HIDE DEF table
<1>3. Fetchers(path) = Reached(table, n) \cup Missed(table, n)
  BY <1>1, <1>2, ReachedOrMissed
<1>4. ToBeTold(Reached(table, n), element_table[path].fetch_groups, path)
  BY <1>1, <1>3 DEF StructInv, SlotsHold, Concerns, ToBeTold
<1>5. \A q \in Paths : /\ Exists(q)' <=> Exists(q)
                       /\ q # path => element_table'[q] = element_table[q]
      /\ element_table'[path].value = value
      /\ element_table'[path].fetch_groups = element_table[path].fetch_groups
      /\ element_table'[path].fetcher_table = element_table[path].fetcher_table
  <2> DEFINE e == [element_table[path] EXCEPT !.value = value]
  <2>1. element_table[path] \in Element
    BY <1>1 DEF StructInv, Types, Exists
  <2>2. /\ e \in Element /\ e # NoElement /\ e.value = value
        /\ e.fetch_groups = element_table[path].fetch_groups
        /\ e.fetcher_table = element_table[path].fetcher_table
    BY <2>1, Constants DEF Element, ElementValues
  <2>3. element_table' = [element_table EXCEPT ![path] = e]
    BY <1>1
  <2> HIDE DEF e
  <2> QED BY <1>1, <2>2, <2>3 DEF StructInv, Types, Exists
<1>6. NothingUnfetched' /\ ClosedViews'
  BY <1>1, <1>3, <1>4, NotifiedKeeps
<1>7. Mirrors'
  <2> SUFFICES ASSUME NEW q \in Peers, NEW f \in ToSet(fetch_list'[q]),
                      <<q, f.id>> \notin disturbed', NEW r \in Paths
               PROVE  (IF Concerns(f, r)
                       THEN /\ f \in Fetchers(r)
                            /\ view[<<q, f.id>>][r] = element_table[r].value
                       ELSE view[<<q, f.id>>][r] = Absent)'
    BY DEF Mirrors
  <2>1. f \in FetchRecord /\ f.peer = q /\ Registered(f)
    BY <1>1, ListedFetch
  <2>2. <<q, f.id>> \notin disturbed /\ f \notin Missed(table, n)
    BY <1>1, <2>1 DEF ClientsOf
  <2>3. view'[<<q, f.id>>][r] =
           IF f \in Reached(table, n) /\ r = path THEN value ELSE view[<<q, f.id>>][r]
    BY <1>1, <1>3, <1>4, <2>1, NotifiedViews
  <2>4. IF Concerns(f, r)
        THEN f \in Fetchers(r) /\ view[<<q, f.id>>][r] = element_table[r].value
        ELSE view[<<q, f.id>>][r] = Absent
    BY <1>1, <2>2 DEF ViewInv, Mirrors
  <2>5. Concerns(f, r)' <=> Concerns(f, r)
    BY <1>1, <1>5 DEF Concerns, Interested
  <2>6. Fetchers(r)' = Fetchers(r)
    BY <1>5 DEF Fetchers
  <2>7. Concerns(f, path) <=> f \in Reached(table, n)
    <3>1. \A h \in Reached(table, n) : Concerns(h, path)
      BY <1>1, <1>4 DEF ToBeTold, Concerns
    <3>2. Concerns(f, path) => f \in Fetchers(path)
      BY <1>1, <2>2 DEF ViewInv, Mirrors
    <3> QED BY <1>3, <2>2, <3>1, <3>2
  <2> QED BY <1>5, <2>3, <2>4, <2>5, <2>6, <2>7
<1> QED BY <1>6, <1>7 DEF ViewInv

\* remove tells every client with a slot; those it does not reach count as
\* disturbed.
LEMMA ViewRemoveElement ==
  ASSUME StructInv, ViewInv, NEW p \in Peers, NEW i \in DOMAIN element_list[p], NEW n,
         RemoveElement(p, i, n)
  PROVE  ViewInv'
<1> DEFINE path == element_list[p][i]
           table == element_table[path].fetcher_table
<1>1. /\ n \in 0 .. Len(table)
      /\ element_table' = [element_table EXCEPT ![path] = NoElement]
      /\ view' = Notified(view, Reached(table, n), path, Absent)
      /\ disturbed' = disturbed \cup ClientsOf(Missed(table, n))
      /\ UNCHANGED <<peer_list, fetch_groups, fetch_list>>
  BY DEF RemoveElement, StopsAfter
<1>2. path \in ToSet(element_list[p]) /\ path \in Paths
  BY Members DEF StructInv, Types
<1>3. Exists(path)
  BY <1>2 DEF StructInv, ListsSound
<1>4. table \in Tables /\ InSlots(table) = Fetchers(path)
  BY <1>2, <1>3 DEF StructInv, SlotsHold, Holds
<1> HIDE DEF table, path
<1>5. Fetchers(path) = Reached(table, n) \cup Missed(table, n)
  BY <1>1, <1>4, ReachedOrMissed
<1>6. ToBeTold(Reached(table, n), element_table[path].fetch_groups, path)
  BY <1>2, <1>3, <1>5 DEF StructInv, SlotsHold, Concerns, ToBeTold
<1>7. \A q \in Paths : element_table'[q] = IF q = path THEN NoElement ELSE element_table[q]
  BY <1>1 DEF StructInv, Types
<1>8. NothingUnfetched' /\ ClosedViews'
  BY <1>1, <1>2, <1>5, <1>6, NotifiedKeeps
<1>9. Mirrors'
  <2> SUFFICES ASSUME NEW q \in Peers, NEW f \in ToSet(fetch_list'[q]),
                      <<q, f.id>> \notin disturbed', NEW r \in Paths
               PROVE  (IF Concerns(f, r)
                       THEN /\ f \in Fetchers(r)
                            /\ view[<<q, f.id>>][r] = element_table[r].value
                       ELSE view[<<q, f.id>>][r] = Absent)'
    BY DEF Mirrors
  <2>1. f \in FetchRecord /\ f.peer = q /\ Registered(f)
    BY <1>1, ListedFetch
  <2>2. <<q, f.id>> \notin disturbed /\ f \notin Missed(table, n)
    BY <1>1, <2>1 DEF ClientsOf
  <2>3. view'[<<q, f.id>>][r] =
           IF f \in Reached(table, n) /\ r = path THEN Absent ELSE view[<<q, f.id>>][r]
    BY <1>1, <1>2, <1>5, <1>6, <2>1, NotifiedViews
  <2>4. IF Concerns(f, r)
        THEN f \in Fetchers(r) /\ view[<<q, f.id>>][r] = element_table[r].value
        ELSE view[<<q, f.id>>][r] = Absent
    BY <1>1, <2>2 DEF ViewInv, Mirrors
  <2>5. CASE r = path
    <3>1. ~ Concerns(f, r)'
      BY <1>7, <2>5 DEF Concerns, Exists
    <3>2. f \in Reached(table, n) \/ ~ Concerns(f, r)
      BY <1>5, <2>2, <2>4, <2>5
    <3> QED BY <2>3, <2>4, <2>5, <3>1, <3>2
  <2>6. CASE r # path
    <3>1. element_table'[r] = element_table[r]
      BY <1>7, <2>6
    <3>2. Concerns(f, r)' <=> Concerns(f, r)
      BY <1>1, <3>1 DEF Concerns, Exists, Interested
    <3> QED BY <2>3, <2>4, <2>6, <3>1, <3>2 DEF Fetchers
  <2> QED BY <2>5, <2>6
<1> QED BY <1>8, <1>9 DEF ViewInv

\* fetch tells the client of all elements that concern it, or counts it as
\* disturbed.
LEMMA ViewAddFetch ==
  ASSUME StructInv, ViewInv, NEW p \in Peers, NEW id \in FetchIds, NEW matcher \in MatchSets,
         AddFetch(p, id, matcher)
  PROVE  ViewInv'
<1> DEFINE f == [peer |-> p, id |-> id, matcher |-> matcher]
           c == <<p, id>>
           es == ElementsInPeers(f)
<1>1. /\ \A i \in DOMAIN fetch_list[p] : fetch_list[p][i].id # id
      /\ fetch_list' = [fetch_list EXCEPT ![p] = Append(@, f)]
      /\ UNCHANGED <<peer_list, fetch_groups>>
  BY DEF AddFetch
<1>2. PICK slotted \in SUBSET es :
        \E told \in SUBSET slotted :
           /\ element_table' = [path \in Paths |->
                 IF path \in slotted
                 THEN [element_table[path] EXCEPT !.fetcher_table = AddFetchToState(@, f)]
                 ELSE element_table[path]]
           /\ view' = [view EXCEPT ![c] = [path \in Paths |->
                 IF path \in told THEN element_table[path].value ELSE Absent]]
           /\ disturbed' = IF told = es THEN disturbed ELSE disturbed \cup {c}
  BY DEF AddFetch, Walks
<1>3. PICK told \in SUBSET slotted :
           /\ element_table' = [path \in Paths |->
                 IF path \in slotted
                 THEN [element_table[path] EXCEPT !.fetcher_table = AddFetchToState(@, f)]
                 ELSE element_table[path]]
           /\ view' = [view EXCEPT ![c] = [path \in Paths |->
                 IF path \in told THEN element_table[path].value ELSE Absent]]
           /\ disturbed' = IF told = es THEN disturbed ELSE disturbed \cup {c}
  BY <1>2
<1>4. f \in FetchRecord /\ f.peer = p /\ f.id = id /\ c \in Clients
  BY DEF FetchRecord, Clients
<1>5. es = {path \in Paths : Concerns(f, path)}
  BY ConcernedElements
<1>6. fetch_list[p] \in Seq(FetchRecord) /\ \A h \in ToSet(fetch_list[p]) : h.id # id
  BY <1>1 DEF StructInv, Types, ToSet
<1> HIDE DEF f, es
<1>7. f \notin ToSet(fetch_list[p])
  BY <1>4, <1>6
<1>8. \A q \in Peers : ToSet(fetch_list'[q]) = IF q = p THEN ToSet(fetch_list[p]) \cup {f}
                                               ELSE ToSet(fetch_list[q])
  <2>1. ToSet(Append(fetch_list[p], f)) = ToSet(fetch_list[p]) \cup {f}
    BY <1>4, <1>6, Appended
  <2> QED BY <1>1, <2>1 DEF StructInv, Types
<1>9. /\ \A d \in Clients : d # c => view'[d] = view[d]
      /\ view'[c] = [path \in Paths |-> IF path \in told THEN element_table[path].value
                                        ELSE Absent]
  <2> HIDE DEF c
  <2> QED BY <1>3, <1>4 DEF StructInv, Types
<1>10. ASSUME NEW path \in Paths
       PROVE  /\ Concerns(f, path) => f \notin Fetchers(path)
              /\ Exists(path)' <=> Exists(path)
              /\ Exists(path) =>
                   /\ element_table'[path].fetch_groups = element_table[path].fetch_groups
                   /\ element_table'[path].value = element_table[path].value
                   /\ Fetchers(path)' = IF path \in slotted THEN Fetchers(path) \cup {f}
                                        ELSE Fetchers(path)
  <2>1. CASE path \in slotted
    <3> DEFINE t == AddFetchToState(element_table[path].fetcher_table, f)
               e == [element_table[path] EXCEPT !.fetcher_table = t]
    <3>1. Exists(path) /\ element_table[path] \in Element
      BY <1>2, <1>5, <2>1 DEF Concerns, StructInv, Types, Exists
    <3>2. /\ Holds(element_table[path].fetcher_table, Fetchers(path))
          /\ \A h \in Fetchers(path) : Registered(h)
      BY <3>1 DEF StructInv, SlotsHold
    <3>3. f \notin Fetchers(path)
      BY <1>4, <1>7, <3>2 DEF Registered
    <3>4. DistinctClients(Fetchers(path) \cup {f})
      <4>1. DistinctClients(Fetchers(path))
        BY <3>2, RegisteredDistinct
      <4>2. \A h \in Fetchers(path) : h.peer = p => h.id # id
        BY <1>6, <3>2 DEF Registered
      <4> QED BY <1>4, <4>1, <4>2 DEF DistinctClients
    <3>5. Holds(t, Fetchers(path) \cup {f})
      BY <1>4, <3>2, <3>3, <3>4, SlotAdded
    <3>6. element_table'[path] = e
      BY <1>3, <2>1
    <3> HIDE DEF t
    <3>7. /\ e \in Element /\ e.fetch_groups = element_table[path].fetch_groups
          /\ e.value = element_table[path].value /\ e.fetcher_table = t
      BY <3>1, <3>5 DEF Element, Holds, Tables
    <3> HIDE DEF e
    <3> QED BY <2>1, <3>1, <3>3, <3>5, <3>6, <3>7, Constants DEF Exists, Fetchers, Holds
  <2>2. CASE path \notin slotted
    <3>1. element_table'[path] = element_table[path]
      BY <1>3, <2>2
    <3>2. Exists(path) => f \notin Fetchers(path)
      BY <1>4, <1>7 DEF StructInv, SlotsHold, Registered
    <3> QED BY <2>2, <3>1, <3>2 DEF Exists, Fetchers, Concerns
  <2> QED BY <2>1, <2>2
<1>11. NothingUnfetched'
  <2> SUFFICES ASSUME NEW q \in Peers, NEW i \in FetchIds,
                      \A h \in ToSet(fetch_list'[q]) : h.id # i
               PROVE  view'[<<q, i>>] = NothingKnown
    BY DEF NothingUnfetched, NothingKnown
  <2>1. <<q, i>> # c
    BY <1>4, <1>8
  <2>2. \A h \in ToSet(fetch_list[q]) : h.id # i
    BY <1>8
  <2>3. <<q, i>> \in Clients
    BY DEF Clients
  <2> HIDE DEF c
  <2> QED BY <1>9, <2>1, <2>2, <2>3 DEF ViewInv, NothingUnfetched
<1>12. Mirrors'
  <2> SUFFICES ASSUME NEW q \in Peers, NEW h \in ToSet(fetch_list'[q]),
                      <<q, h.id>> \notin disturbed', NEW r \in Paths
               PROVE  (IF Concerns(h, r)
                       THEN /\ h \in Fetchers(r)
                            /\ view[<<q, h.id>>][r] = element_table[r].value
                       ELSE view[<<q, h.id>>][r] = Absent)'
    BY DEF Mirrors
  <2>1. Concerns(h, r)' <=> Concerns(h, r)
    BY <1>1, <1>10 DEF Concerns, Interested
  <2>2. CASE h = f
    <3>1. f.peer = q
      <4>1. q = p \/ f \in ToSet(fetch_list[q])
        BY <1>8, <2>2
      <4> QED BY <1>4, <4>1, ListedFetch
    <3>2. <<q, h.id>> = c
      BY <1>4, <2>2, <3>1
    <3>3. told = es /\ slotted = es
      BY <1>2, <1>3, <3>2
    <3>4. r \in es <=> Concerns(f, r)
      BY <1>5
    <3>5. view'[c][r] = IF r \in told THEN element_table[r].value ELSE Absent
      BY <1>9
    <3>6. Concerns(f, r) => Exists(r)
      BY DEF Concerns
    <3> QED BY <1>10, <2>1, <2>2, <3>2, <3>3, <3>4, <3>5, <3>6
  <2>3. CASE h # f
    <3>1. h \in ToSet(fetch_list[q])
      BY <1>8, <2>3
    <3>2. <<q, h.id>> \in Clients /\ <<q, h.id>> # c
      BY <1>6, <3>1, ListedFetch
    <3>3. <<q, h.id>> \notin disturbed
      BY <1>3
    <3>4. IF Concerns(h, r)
          THEN h \in Fetchers(r) /\ view[<<q, h.id>>][r] = element_table[r].value
          ELSE view[<<q, h.id>>][r] = Absent
      BY <3>1, <3>3 DEF ViewInv, Mirrors
    <3>5. view'[<<q, h.id>>] = view[<<q, h.id>>]
      BY <1>9, <3>2
    <3>6. Concerns(h, r) => Exists(r)
      BY DEF Concerns
    <3> QED BY <1>10, <2>1, <3>4, <3>5, <3>6
  <2> QED BY <2>2, <2>3
<1>13. ClosedViews'
  <2> SUFFICES ASSUME GroupsLoaded, NEW q \in Peers, fetch_groups[q] = {}, NEW i \in FetchIds
               PROVE  view'[<<q, i>>] = NothingKnown
    BY <1>1 DEF ClosedViews, NothingKnown
  <2>1. <<q, i>> \in Clients /\ view[<<q, i>>] = NothingKnown
    BY DEF ViewInv, ClosedViews, Clients
  <2>2. CASE <<q, i>> = c
    <3>1. \A path \in Paths : ~ Concerns(f, path)
      BY <1>4, <2>2 DEF Concerns, Interested, HasAccess
    <3>2. told = {}
      BY <1>2, <1>3, <1>5, <3>1
    <3> QED BY <1>9, <2>2, <3>2 DEF NothingKnown
  <2>3. CASE <<q, i>> # c
    BY <1>9, <2>1, <2>3
  <2> QED BY <2>2, <2>3
<1> QED BY <1>11, <1>12, <1>13 DEF ViewInv

\* unfetch: the client forgets what it knew from this fetch, no other does.
LEMMA ViewRemoveFetch ==
  ASSUME StructInv, ViewInv, NEW p \in Peers, NEW i \in DOMAIN fetch_list[p], RemoveFetch(p, i)
  PROVE  ViewInv'
<1> DEFINE f == fetch_list[p][i]
           r == RemoveAt(fetch_list[p], i)
<1>1. /\ element_table' = WithoutFetches({f})
      /\ fetch_list' = [fetch_list EXCEPT ![p] = r]
      /\ view' = Forgotten({<<p, f.id>>})
      /\ disturbed' = disturbed \ {<<p, f.id>>}
      /\ UNCHANGED <<peer_list, fetch_groups>>
  BY DEF RemoveFetch
<1>2. fetch_list[p] \in Seq(FetchRecord) /\ f \in ToSet(fetch_list[p])
  BY Members DEF StructInv, Types
<1>3. ToSet(r) = ToSet(fetch_list[p]) \ {f}
  BY <1>2, RemovedFrom DEF StructInv, FetchListsSound
<1> HIDE DEF f, r
<1>4. \A q \in Peers : ToSet(fetch_list'[q]) = IF q = p THEN ToSet(fetch_list[p]) \ {f}
                                               ELSE ToSet(fetch_list[q])
  BY <1>1, <1>3 DEF StructInv, Types
<1>5. \A c \in Clients : view'[c] = IF c = <<p, f.id>> THEN NothingKnown ELSE view[c]
  BY <1>1 DEF Forgotten
<1>6. \A path \in Paths :
         /\ Exists(path)' <=> Exists(path)
         /\ Exists(path) =>
              /\ element_table'[path].fetch_groups = element_table[path].fetch_groups
              /\ element_table'[path].value = element_table[path].value
              /\ Fetchers(path)' = Fetchers(path) \ {f}
  BY <1>1, WithoutFetchesSound DEF Exists, Fetchers
<1>7. NothingUnfetched'
  <2> SUFFICES ASSUME NEW q \in Peers, NEW j \in FetchIds,
                      \A h \in ToSet(fetch_list'[q]) : h.id # j
               PROVE  view'[<<q, j>>] = NothingKnown
    BY DEF NothingUnfetched, NothingKnown
  <2>1. <<q, j>> \in Clients
    BY DEF Clients
  <2>2. CASE <<q, j>> = <<p, f.id>>
    BY <1>5, <2>1, <2>2
  <2>3. CASE <<q, j>> # <<p, f.id>>
    <3>1. \A h \in ToSet(fetch_list[q]) : h.id # j
      BY <1>4, <2>3
    <3> QED BY <1>5, <2>1, <2>3, <3>1 DEF ViewInv, NothingUnfetched
  <2> QED BY <2>2, <2>3
<1>8. Mirrors'
  <2> SUFFICES ASSUME NEW q \in Peers, NEW h \in ToSet(fetch_list'[q]),
                      <<q, h.id>> \notin disturbed', NEW path \in Paths
               PROVE  (IF Concerns(h, path)
                       THEN /\ h \in Fetchers(path)
                            /\ view[<<q, h.id>>][path] = element_table[path].value
                       ELSE view[<<q, h.id>>][path] = Absent)'
    BY DEF Mirrors
  <2>1. h \in ToSet(fetch_list[q]) /\ h # f
    <3>1. h \in ToSet(fetch_list[q]) /\ (q = p => h # f)
      BY <1>4
    <3>2. h.peer = q /\ f.peer = p
      BY <1>2, <3>1, ListedFetch
    <3> QED BY <3>1, <3>2
  <2>2. <<q, h.id>> \in Clients /\ <<q, h.id>> # <<p, f.id>>
    BY <1>2, <2>1, ListedFetch DEF StructInv, FetchListsSound, DistinctClients
  <2>3. <<q, h.id>> \notin disturbed /\ view'[<<q, h.id>>] = view[<<q, h.id>>]
    BY <1>1, <1>5, <2>2
  <2>4. IF Concerns(h, path)
        THEN h \in Fetchers(path) /\ view[<<q, h.id>>][path] = element_table[path].value
        ELSE view[<<q, h.id>>][path] = Absent
    BY <2>1, <2>3 DEF ViewInv, Mirrors
  <2>5. Concerns(h, path)' <=> Concerns(h, path)
    BY <1>1, <1>6 DEF Concerns, Interested
  <2>6. Concerns(h, path) => Exists(path)
    BY DEF Concerns
  <2> QED BY <1>6, <2>1, <2>3, <2>4, <2>5, <2>6
<1>9. ClosedViews'
  <2> SUFFICES ASSUME GroupsLoaded, NEW q \in Peers, fetch_groups[q] = {}, NEW j \in FetchIds
               PROVE  view'[<<q, j>>] = NothingKnown
    BY <1>1 DEF ClosedViews, NothingKnown
  <2>1. <<q, j>> \in Clients /\ view[<<q, j>>] = NothingKnown
    BY DEF ViewInv, ClosedViews, Clients
  <2> QED BY <1>5, <2>1
<1> QED BY <1>7, <1>8, <1>9 DEF ViewInv

\* The elements of a closed peer vanish from all views, but for the clients
\* whose notifications failed; its own clients are gone.
LEMMA ViewFreePeerResources ==
  ASSUME StructInv, ViewInv, NEW p \in Peers, NEW i \in DOMAIN peer_list,
         NEW stops \in [ToSet(element_list[p]) -> Stops], FreePeerResources(p, i, stops)
  PROVE  ViewInv'
<1> DEFINE gs == ToSet(fetch_list[p])
           without == WithoutFetches(gs)
           own == ToSet(element_list[p])
           table(path) == without[path].fetcher_table
           missed(path) == ClientsOf(Missed(table(path), stops[path]))
           reached(path) == ClientsOf(Reached(table(path), stops[path]))
           mine == {p} \X FetchIds
<1>1. /\ \A path \in own : StopsAfter(table(path), stops[path])
      /\ element_table' = [path \in Paths |->
            IF path \in own THEN NoElement ELSE without[path]]
      /\ view' = [c \in Clients |-> [path \in Paths |->
            IF c \in mine \/ (path \in own /\ c \in reached(path))
            THEN Absent ELSE view[c][path]]]
      /\ disturbed' = (disturbed \cup UNION {missed(path) : path \in own}) \ mine
      /\ fetch_list' = [fetch_list EXCEPT ![p] = << >>]
      /\ UNCHANGED fetch_groups
  BY DEF FreePeerResources
<1>2. own = {path \in Paths : Exists(path) /\ element_table[path].peer = p}
  <2>1. own \subseteq Paths
    BY Members DEF StructInv, Types
  <2> QED BY <2>1 DEF StructInv, ListsSound
<1>3. \A path \in Paths :
         /\ without[path] = NoElement <=> ~ Exists(path)
         /\ Exists(path) =>
              /\ without[path].fetch_groups = element_table[path].fetch_groups
              /\ without[path].value = element_table[path].value
              /\ InSlots(table(path)) = Fetchers(path) \ gs
              /\ table(path) \in Tables
  BY WithoutFetchesSound DEF Holds
<1> HIDE DEF without, own
<1>4. ASSUME NEW path \in own, NEW f \in Fetchers(path), f \notin gs
      PROVE  <<f.peer, f.id>> \in reached(path) \cup missed(path)
  <2>1. InSlots(table(path)) = Fetchers(path) \ gs /\ table(path) \in Tables
    BY <1>2, <1>3
  <2>2. stops[path] \in 0 .. Len(table(path))
    BY <1>1 DEF StopsAfter
  <2>3. f \in Reached(table(path), stops[path]) \cup Missed(table(path), stops[path])
    BY <1>4, <2>1, <2>2, ReachedOrMissed
  <2> QED BY <2>3 DEF ClientsOf
<1> HIDE DEF reached, missed
<1>5. \A q \in Peers : ToSet(fetch_list'[q]) = IF q = p THEN {} ELSE ToSet(fetch_list[q])
  <2>1. ToSet(<< >>) = {}
    BY DEF ToSet
  <2> QED BY <1>1, <2>1 DEF StructInv, Types
<1>6. \A c \in Clients, path \in Paths :
         view'[c][path] = IF c \in mine \/ (path \in own /\ c \in reached(path))
                          THEN Absent ELSE view[c][path]
  BY <1>1
<1>7. \A c \in Clients : view'[c] = [path \in Paths |-> view'[c][path]]
  BY <1>1
<1>8. ASSUME NEW c \in Clients, c \in mine \/ view[c] = NothingKnown
      PROVE  view'[c] = NothingKnown
  <2>1. \A path \in Paths : view'[c][path] = Absent
    BY <1>6, <1>8 DEF NothingKnown
  <2> QED BY <1>7, <2>1 DEF NothingKnown
<1>9. NothingUnfetched'
  <2> SUFFICES ASSUME NEW q \in Peers, NEW j \in FetchIds,
                      \A h \in ToSet(fetch_list'[q]) : h.id # j
               PROVE  view'[<<q, j>>] = NothingKnown
    BY DEF NothingUnfetched, NothingKnown
  <2>1. <<q, j>> \in Clients
    BY DEF Clients
  <2>2. q # p => \A h \in ToSet(fetch_list[q]) : h.id # j
    BY <1>5
  <2> QED BY <1>8, <2>1, <2>2 DEF ViewInv, NothingUnfetched
<1>10. Mirrors'
  <2> SUFFICES ASSUME NEW q \in Peers, NEW f \in ToSet(fetch_list'[q]),
                      <<q, f.id>> \notin disturbed', NEW path \in Paths
               PROVE  (IF Concerns(f, path)
                       THEN /\ f \in Fetchers(path)
                            /\ view[<<q, f.id>>][path] = element_table[path].value
                       ELSE view[<<q, f.id>>][path] = Absent)'
    BY DEF Mirrors
  <2>1. f \in ToSet(fetch_list[q]) /\ q # p
    BY <1>5
  <2>2. f.peer = q /\ <<q, f.id>> \in Clients /\ <<q, f.id>> \notin mine /\ f \notin gs
    <3>1. \A h \in gs : h.peer = p
      BY ListedFetch
    <3> HIDE DEF gs
    <3> QED BY <2>1, <3>1, ListedFetch
  <2>3. <<q, f.id>> \notin disturbed
    BY <1>1, <2>2
  <2>4. IF Concerns(f, path)
        THEN f \in Fetchers(path) /\ view[<<q, f.id>>][path] = element_table[path].value
        ELSE view[<<q, f.id>>][path] = Absent
    BY <2>1, <2>3 DEF ViewInv, Mirrors
  <2> HIDE DEF gs, mine
  <2>5. CASE path \in own
    <3>1. ~ Concerns(f, path)'
      BY <1>1, <2>5 DEF Concerns, Exists
    <3>2. <<q, f.id>> \notin missed(path)
      BY <1>1, <2>2, <2>5
    <3>3. <<q, f.id>> \in reached(path) \/ f \notin Fetchers(path)
      BY <1>4, <2>2, <2>5, <3>2
    <3>4. view'[<<q, f.id>>][path] = Absent
      BY <1>6, <2>2, <2>4, <2>5, <3>3
    <3> QED BY <3>1, <3>4
  <2>6. CASE path \notin own
    <3>1. element_table'[path] = without[path]
      BY <1>1, <2>6
    <3>2. view'[<<q, f.id>>][path] = view[<<q, f.id>>][path]
      BY <1>6, <2>2, <2>6
    <3>3. Concerns(f, path)' <=> Concerns(f, path)
      BY <1>1, <1>3, <3>1 DEF Concerns, Exists, Interested
    <3>4. Exists(path) /\ f \in Fetchers(path) => f \in Fetchers(path)'
      BY <1>3, <2>2, <3>1 DEF Fetchers
    <3>5. Concerns(f, path) => Exists(path)
      BY DEF Concerns
    <3> QED BY <1>3, <2>4, <3>1, <3>2, <3>3, <3>4, <3>5
  <2> QED BY <2>5, <2>6
<1>11. ClosedViews'
  <2> SUFFICES ASSUME GroupsLoaded, NEW q \in Peers, fetch_groups[q] = {}, NEW j \in FetchIds
               PROVE  view'[<<q, j>>] = NothingKnown
    BY <1>1 DEF ClosedViews, NothingKnown
  <2>1. <<q, j>> \in Clients /\ view[<<q, j>>] = NothingKnown
    BY DEF ViewInv, ClosedViews, Clients
  <2> QED BY <1>8, <2>1
<1> QED BY <1>9, <1>10, <1>11 DEF ViewInv

\* Nobody knows anything at the start.
LEMMA ViewInit == Init => ViewInv
<1> SUFFICES ASSUME Init PROVE ViewInv
  OBVIOUS
<1>1. \A p \in Peers, id \in FetchIds : view[<<p, id>>] = NothingKnown
  BY DEF Init, Clients
<1>2. \A p \in Peers : ToSet(fetch_list[p]) = {}
  BY DEF Init, ToSet
<1> QED BY <1>1, <1>2 DEF ViewInv, NothingUnfetched, Mirrors, ClosedViews

\* Every step keeps what the clients know in line with the elements.
LEMMA ViewNext == StructInv /\ ViewInv /\ [Next]_vars => ViewInv'
<1> SUFFICES ASSUME StructInv, ViewInv, [Next]_vars PROVE ViewInv'
  OBVIOUS
<1>1. CASE UNCHANGED vars
  BY <1>1, QuietView DEF vars
<1>2. CASE Next
  <2> PICK p \in Peers :
        \/ InitPeer(p)
        \/ \E g \in SUBSET Groups : Authenticate(p, g)
        \/ RequestWithoutEffect(p)
        \/ \E path \in Paths, v \in ElementValues, g \in GroupSets :
              AddElement(p, path, v, g) \/ AddElementFailed(p, path, v, g)
        \/ \E path \in Paths, v \in Values, n \in Stops :
              ChangeState(p, path, v, n)
        \/ \E i \in DOMAIN element_list[p], n \in Stops : RemoveElement(p, i, n)
        \/ \E id \in FetchIds, matcher \in MatchSets : AddFetch(p, id, matcher)
        \/ \E i \in DOMAIN fetch_list[p] : RemoveFetch(p, i)
        \/ Disconnect(p)
        \/ \E i \in DOMAIN peer_list, stops \in [ToSet(element_list[p]) -> Stops] :
              FreePeerResources(p, i, stops)
    BY <1>2 DEF Next
  <2>1. CASE InitPeer(p)
    BY <2>1, ViewInitPeer
  <2>2. ASSUME NEW g \in SUBSET Groups, Authenticate(p, g) PROVE ViewInv'
    <3>1. /\ fetch_list[p] = << >>
          /\ fetch_groups' = [fetch_groups EXCEPT ![p] = g]
          /\ UNCHANGED <<element_table, fetch_list, view, disturbed>>
      BY <2>2 DEF Authenticate
    <3> QED BY <3>1, ViewGroupsSet
  <2>3. CASE RequestWithoutEffect(p)
    <3>1. UNCHANGED <<element_table, fetch_list, fetch_groups, view, disturbed>>
      BY <2>3 DEF RequestWithoutEffect
    <3> QED BY <3>1, QuietView
  <2>4. CASE \E path \in Paths, v \in ElementValues, g \in GroupSets :
                AddElement(p, path, v, g) \/ AddElementFailed(p, path, v, g)
    <3>1. GroupSets \subseteq SUBSET Groups
      BY DEF GroupSets
    <3> QED BY <2>4, <3>1, ViewAddElement, ViewAddElementFailed
  <2>5. CASE \E path \in Paths, v \in Values, n \in Stops : ChangeState(p, path, v, n)
    BY <2>5, ViewChangeState
  <2>6. CASE \E i \in DOMAIN element_list[p], n \in Stops : RemoveElement(p, i, n)
    BY <2>6, ViewRemoveElement
  <2>7. CASE \E id \in FetchIds, matcher \in MatchSets : AddFetch(p, id, matcher)
    BY <2>7, ViewAddFetch
  <2>8. CASE \E i \in DOMAIN fetch_list[p] : RemoveFetch(p, i)
    BY <2>8, ViewRemoveFetch
  <2>9. CASE Disconnect(p)
    <3>1. UNCHANGED <<element_table, fetch_list, fetch_groups, view, disturbed>>
      BY <2>9 DEF Disconnect
    <3> QED BY <3>1, QuietView
  <2>10. CASE \E i \in DOMAIN peer_list, stops \in [ToSet(element_list[p]) -> Stops] :
                 FreePeerResources(p, i, stops)
    BY <2>10, ViewFreePeerResources
  <2> QED BY <2>1, <2>2, <2>3, <2>4, <2>5, <2>6, <2>7, <2>8, <2>9, <2>10
<1> QED BY <1>1, <1>2

\* The inductive invariant: the structure, and what the clients know.
THEOREM Views == Spec => [](StructInv /\ ViewInv)
<1>1. Init => StructInv /\ ViewInv
  BY StructInit, ViewInit
<1>2. StructInv /\ ViewInv /\ [Next]_vars => (StructInv /\ ViewInv)'
  BY StructNext, ViewNext
<1> QED BY <1>1, <1>2, PTL DEF Spec

\* What the client of an undisturbed fetch put together from its events is
\* what the server has: the answer a get request would get, and the elements
\* with a slot for the fetch (notify_fetchers, add_fetch_to_states).
THEOREM ViewsMirror == Spec => []ViewsMirrorElements
<1>1. StructInv /\ ViewInv => ViewsMirrorElements
  <2> SUFFICES ASSUME StructInv, ViewInv, NEW p \in Peers, NEW f \in ToSet(fetch_list[p]),
                      <<p, f.id>> \notin disturbed
               PROVE  LET v == view[<<p, f.id>>]
                          known == {path \in Paths : v[path] # Absent}
                      IN  /\ {<<path, v[path]>> : path \in {q \in known : v[q] # Method}}
                                = GetElements(f)
                          /\ known = {path \in Paths : Exists(path) /\ f \in Fetchers(path)}
    BY DEF ViewsMirrorElements
  <2> DEFINE v == view[<<p, f.id>>]
             known == {path \in Paths : v[path] # Absent}
  <2>1. ASSUME NEW path \in Paths
        PROVE  /\ v[path] # Absent <=> Concerns(f, path)
               /\ Concerns(f, path) => v[path] = element_table[path].value
               /\ Concerns(f, path) <=> Exists(path) /\ f \in Fetchers(path)
    <3>1. IF Concerns(f, path)
          THEN f \in Fetchers(path) /\ v[path] = element_table[path].value
          ELSE v[path] = Absent
      BY DEF ViewInv, Mirrors
    <3>2. Exists(path) /\ f \in Fetchers(path) => Concerns(f, path)
      BY DEF StructInv, SlotsHold
    <3>3. Exists(path) => element_table[path].value \in ElementValues
      BY DEF StructInv, Types, Exists, Element
    <3>4. Concerns(f, path) => Exists(path)
      BY DEF Concerns
    <3> QED BY <3>1, <3>2, <3>3, <3>4, Constants
  <2>2. ElementsInPeers(f) = {path \in Paths : Concerns(f, path)}
    BY ConcernedElements
  <2> HIDE DEF v
  <2>3. known = {path \in Paths : Exists(path) /\ f \in Fetchers(path)}
    BY <2>1
  <2>4. known = ElementsInPeers(f)
    BY <2>1, <2>2
  <2>5. \A path \in known : v[path] = element_table[path].value
    BY <2>1
  <2>6. {<<path, v[path]>> : path \in {q \in known : v[q] # Method}} = GetElements(f)
    <3> HIDE DEF known
    <3> QED BY <2>4, <2>5 DEF GetElements
  <2> QED BY <2>3, <2>6 DEF v
<1> QED BY <1>1, Views, PTL

\* With a password file, a client whose peer has no groups is told of nothing
\* (groups.c has_access, "fetched before authenticate" in authenticate.c).
THEOREM Closed == Spec => []ClosedViews
<1>1. ViewInv => ClosedViews
  BY DEF ViewInv
<1> QED BY <1>1, Views, PTL
=============================================================================
