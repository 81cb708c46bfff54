----------------------------- MODULE Hashtable ------------------------------
(***************************************************************************)
(* The hopscotch hash table of hashtable.h, store by store.                *)
(*                                                                         *)
(* The bitmap hop_info of a position holds the distances at which the      *)
(* entries hashed to that position are.  A put that finds no free entry    *)
(* close enough moves other entries, one per round of                      *)
(* find_closer_entry, to bring the free entry nearer.                      *)
(*                                                                         *)
(* The writer (hashtable_put, hashtable_remove) can be interrupted between *)
(* any two stores by hashtable_get, which runs to its end and changes      *)
(* nothing: what it would return is the operator Get.                      *)
(***************************************************************************)
EXTENDS Integers, FiniteSets

CONSTANTS
    Order,         \* the table has 2^Order entries
    HopRange,      \* number of bits of hop_info, 32 in the code
    Keys,
    Values,
    Hash,          \* the hash position of each key
    INVALIDENTRY,  \* the key of a free entry
    NoValue        \* the zeroed value of a free entry

Size == 2 ^ Order

AddRange == 2 ^ (Order - 1)

Positions == 0 .. (Size - 1)

\* The two sizes are powers of 2, which the provers do not compute: that they
\* are numbers is stated.  The code has 32 bits of hop_info in tables of 64 and
\* 8192 entries.
ASSUME TableAssumption ==
    /\ Order \in Nat \ {0}
    /\ Size \in Nat \ {0}
    /\ AddRange \in Nat
    /\ HopRange \in 1 .. Size
    /\ Hash \in [Keys -> Positions]
    /\ INVALIDENTRY \notin Keys
    /\ NoValue \notin Values

VARIABLES
    table,   \* position -> hop_info, key and value
    pc,      \* where the writer is
    op,      \* the call of the writer: operation, key and value
    free,    \* free_pos, the entry put works with
    closer,  \* what find_closer_entry found: the entry that moves
    moved,   \* put has moved an entry
    lost     \* history: the entries a put gave up after it had moved others

tableVars == <<table, pc, op, free, closer, moved, lost>>

NoOp == [op |-> "none", key |-> NoValue, value |-> NoValue]

NoMove == [position |-> 0, distance |-> 0, entry |-> 0]

\* hashtable_create
TableInit ==
    /\ table = [p \in Positions |-> [hop_info |-> {}, key |-> INVALIDENTRY, value |-> NoValue]]
    /\ pc = "idle"
    /\ op = NoOp
    /\ free = 0
    /\ closer = NoMove
    /\ moved = FALSE
    /\ lost = {}

-----------------------------------------------------------------------------
wrap_pos(p) == p % Size

Smallest(S) == CHOOSE x \in S : \A y \in S : x <= y

\* The distances at which the walk along hop_info meets key k.
Matches(k) == {d \in table[Hash[k]].hop_info : table[wrap_pos(Hash[k] + d)].key = k}

Found(k) == Matches(k) # {}

Place(k) == wrap_pos(Hash[k] + Smallest(Matches(k)))

\* hashtable_get
Get(k) == IF Found(k) THEN table[Place(k)].value ELSE NoValue

\* The free entries the linear search from hash_pos can meet.
FreeDistances(h) ==
    {d \in 0 .. (AddRange - 1) : table[wrap_pos(h + d)].key = INVALIDENTRY}

\* The moves find_closer_entry considers for the free entry f: an entry of
\* check_position that lies before f, which is check_distance away.
Movable(f) ==
    {m \in [position : Positions, distance : 1 .. (HopRange - 1), entry : Positions] :
        /\ m.position = wrap_pos(f - m.distance)
        /\ \E i \in table[m.position].hop_info :
              /\ i < m.distance
              /\ m.entry = wrap_pos(m.position + i)}

\* The largest check_distance comes first, and for it the nearest entry.
FindCloserEntry(f) ==
    CHOOSE m \in Movable(f) : \A n \in Movable(f) :
        \/ m.distance > n.distance
        \/ /\ m.distance = n.distance
           /\ wrap_pos(m.entry - m.position) <= wrap_pos(n.entry - n.position)

Distance == wrap_pos(free - Hash[op.key])

-----------------------------------------------------------------------------
Call(o, k, v) ==
    /\ pc = "idle"
    /\ op' = [op |-> o, key |-> k, value |-> v]
    /\ pc' = o
    /\ moved' = FALSE
    /\ UNCHANGED <<table, free, closer, lost>>

\* The key is there: its value is replaced.
PutExisting ==
    /\ pc = "put"
    /\ Found(op.key)
    /\ table' = [table EXCEPT ![Place(op.key)].value = op.value]
    /\ pc' = "success"
    /\ UNCHANGED <<op, free, closer, moved, lost>>

\* The linear search finds a free entry.
PutSearch ==
    /\ pc = "put"
    /\ ~ Found(op.key)
    /\ FreeDistances(Hash[op.key]) # {}
    /\ free' = wrap_pos(Hash[op.key] + Smallest(FreeDistances(Hash[op.key])))
    /\ pc' = "place"
    /\ UNCHANGED <<table, op, closer, moved, lost>>

PutFull ==
    /\ pc = "put"
    /\ ~ Found(op.key)
    /\ FreeDistances(Hash[op.key]) = {}
    /\ pc' = "failed"
    /\ UNCHANGED <<table, op, free, closer, moved, lost>>

\* The free entry is near enough: value, key, hop_info in this order.
PutValue ==
    /\ pc = "place"
    /\ Distance < HopRange
    /\ table' = [table EXCEPT ![free].value = op.value]
    /\ pc' = "put_key"
    /\ UNCHANGED <<op, free, closer, moved, lost>>

PutKey ==
    /\ pc = "put_key"
    /\ table' = [table EXCEPT ![free].key = op.key]
    /\ pc' = "put_hop_info"
    /\ UNCHANGED <<op, free, closer, moved, lost>>

PutHopInfo ==
    /\ pc = "put_hop_info"
    /\ table' = [table EXCEPT ![Hash[op.key]].hop_info = @ \cup {Distance}]
    /\ pc' = "success"
    /\ UNCHANGED <<op, free, closer, moved, lost>>

\* It is too far away: find_closer_entry moves an entry to it, key, value,
\* hop_info in this order, and the entry left behind is the new free one.
MoveKey ==
    /\ pc = "place"
    /\ Distance >= HopRange
    /\ Movable(free) # {}
    /\ closer' = FindCloserEntry(free)
    /\ table' = [table EXCEPT ![free].key = table[closer'.entry].key]
    /\ pc' = "move_value"
    /\ UNCHANGED <<op, free, moved, lost>>

\* Mutant of MoveValue: hop_info is stored before the value.
MoveHopInfoFirst ==
    /\ pc = "move_value"
    /\ table' = [table EXCEPT
           ![closer.position].hop_info =
               (@ \ {wrap_pos(closer.entry - closer.position)}) \cup {closer.distance}]
    /\ pc' = "move_hop_info"
    /\ UNCHANGED <<op, free, closer, moved, lost>>

MoveValue ==
    /\ pc = "move_value"
    /\ table' = [table EXCEPT ![free].value = table[closer.entry].value]
    /\ pc' = "move_hop_info"
    /\ UNCHANGED <<op, free, closer, moved, lost>>

MoveHopInfo ==
    /\ pc = "move_hop_info"
    /\ table' = [table EXCEPT
           ![closer.position].hop_info =
               (@ \ {wrap_pos(closer.entry - closer.position)}) \cup {closer.distance}]
    /\ free' = closer.entry
    /\ moved' = TRUE
    /\ pc' = "place"
    /\ UNCHANGED <<op, closer, lost>>

\* No entry can move: put fails.  After a move, the entry it worked with
\* still has the key of the entry that was moved away.
PutGivesUp ==
    /\ pc = "place"
    /\ Distance >= HopRange
    /\ Movable(free) = {}
    /\ lost' = IF moved THEN lost \cup {free} ELSE lost
    /\ pc' = "failed"
    /\ UNCHANGED <<table, op, free, closer, moved>>

\* The entry is freed: key, value, hop_info in this order.
RemoveKey ==
    /\ pc = "remove"
    /\ Found(op.key)
    /\ free' = Place(op.key)
    /\ table' = [table EXCEPT ![Place(op.key)].key = INVALIDENTRY]
    /\ pc' = "remove_value"
    /\ UNCHANGED <<op, closer, moved, lost>>

RemoveValue ==
    /\ pc = "remove_value"
    /\ table' = [table EXCEPT ![free].value = NoValue]
    /\ pc' = "remove_hop_info"
    /\ UNCHANGED <<op, free, closer, moved, lost>>

\* Mutant of RemoveHopInfo: the bit of the removed entry stays set.
RemoveKeepsHopInfo ==
    /\ pc = "remove_hop_info"
    /\ pc' = "success"
    /\ UNCHANGED <<table, op, free, closer, moved, lost>>

RemoveHopInfo ==
    /\ pc = "remove_hop_info"
    /\ table' = [table EXCEPT ![Hash[op.key]].hop_info = @ \ {Distance}]
    /\ pc' = "success"
    /\ UNCHANGED <<op, free, closer, moved, lost>>

RemoveMissing ==
    /\ pc = "remove"
    /\ ~ Found(op.key)
    /\ pc' = "failed"
    /\ UNCHANGED <<table, op, free, closer, moved, lost>>

Return ==
    /\ pc \in {"success", "failed"}
    /\ pc' = "idle"
    /\ op' = NoOp
    /\ free' = 0
    /\ closer' = NoMove
    /\ moved' = FALSE
    /\ UNCHANGED <<table, lost>>

TableNext ==
    \/ \E k \in Keys, v \in Values : Call("put", k, v) \/ Call("remove", k, v)
    \/ PutExisting \/ PutSearch \/ PutFull
    \/ PutValue \/ PutKey \/ PutHopInfo
    \/ MoveKey \/ MoveValue \/ MoveHopInfo \/ PutGivesUp
    \/ RemoveKey \/ RemoveValue \/ RemoveHopInfo \/ RemoveMissing
    \/ Return

TableSpec == TableInit /\ [][TableNext]_tableVars

-----------------------------------------------------------------------------
TableTypeOK ==
    /\ table \in [Positions -> [hop_info : SUBSET (0 .. (HopRange - 1)),
                                key : Keys \cup {INVALIDENTRY},
                                value : Values \cup {NoValue}]]
    /\ pc \in {"idle", "put", "place", "put_key", "put_hop_info", "move_value",
               "move_hop_info", "remove", "remove_value", "remove_hop_info",
               "success", "failed"}
    /\ op \in [op : {"put", "remove"}, key : Keys, value : Values] \cup {NoOp}
    /\ free \in Positions
    /\ closer \in [position : Positions, distance : 0 .. (HopRange - 1), entry : Positions]
    /\ moved \in BOOLEAN
    /\ lost \subseteq Positions

Reachable ==
    {p \in Positions : \E h \in Positions : \E d \in table[h].hop_info : p = wrap_pos(h + d)}

Occupied == {p \in Positions : table[p].key # INVALIDENTRY}

\* Between two calls every bit of every hop_info stands for an entry whose key
\* hashes to that position, no entry belongs to two bits and no key has two
\* entries: the moves of a put, also of one that fails, keep the whole table
\* in order.
HopInfoSound ==
    pc = "idle" =>
        /\ \A h \in Positions : \A d \in table[h].hop_info :
              LET k == table[wrap_pos(h + d)].key
              IN  k \in Keys /\ Hash[k] = h /\ Matches(k) = {d}
        /\ Cardinality(Reachable) = Cardinality({k \in Keys : Found(k)})

\* An entry is in use exactly if some hop_info leads to it, except the one
\* entry a put had emptied by moving when it gave up: such an entry is lost,
\* for it keeps a key and is never found nor filled again.
SlotsLostOnlyWhenGivingUp ==
    pc = "idle" => Occupied \ Reachable = lost

\* Both, for any sequence of puts and removes.
TableSound == TableTypeOK /\ HopInfoSound /\ SlotsLostOnlyWhenGivingUp

-----------------------------------------------------------------------------
CallState ==
    CASE pc = "idle" -> "none"
      [] pc \in {"success", "remove_value", "remove_hop_info"} -> "done"
      [] pc = "failed" -> "failed"
      [] OTHER -> "called"

\* What a get that interrupts the writer finds under each key.
Abstract == INSTANCE KeyValueMap WITH
    map <- [k \in Keys |-> Get(k)],
    call <- [op |-> op.op, key |-> op.key, value |-> op.value, state |-> CallState]

\* With a get between any two stores of put and remove, the table is a map:
\* each call has its effect in one step, on its own key only and only if it
\* succeeds, and moving entries is never seen.
ImplementsMap == Abstract!Spec
=============================================================================
