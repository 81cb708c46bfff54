------------------------------ MODULE JsonTree ------------------------------
(***************************************************************************)
(* The trees of cJSON: items linked by next, prev and child, and the       *)
(* operations that change them, against the sequences of children they     *)
(* stand for.                                                              *)
(*                                                                         *)
(* prev of the first child is the last child, except in a copy, where it   *)
(* is NULL: every operation must cope with both.  Items that refer to the  *)
(* children of another (cJSON_IsReference) are left out.                   *)
(***************************************************************************)
EXTENDS Naturals, SequencesExt

CONSTANTS
    Items,          \* bound: the items there is memory for
    Names,          \* names of members; NULL is also the name a failed strdup leaves
    NULL,
    MaxChildren,    \* bound: how many children an item may have
    MaxRoots        \* bound: how many trees there are at a time

VARIABLES
    heap,           \* Items -> struct cJSON
    live,           \* the items that are allocated
    children        \* what the tree is meant to be: item -> sequence of its children

vars == <<heap, live, children>>

Blank == [next |-> NULL, prev |-> NULL, child |-> NULL, string |-> NULL]

Init ==
    /\ heap = [i \in Items |-> Blank]
    /\ live = {}
    /\ children = [i \in Items |-> <<>>]

\* The items that a walk along next and child reaches from the items of a set.
Reached(h, from) ==
    FoldLeft(LAMBDA seen, n : seen \cup (UNION {{h[i].next, h[i].child} : i \in seen} \ {NULL}),
             from, [n \in 1 .. Cardinality(Items) |-> n])

Subtree(h, item) ==
    {item} \cup IF h[item].child = NULL THEN {} ELSE Reached(h, {h[item].child})

\* cJSON_Delete frees the item, everything below it, and what follows it.
Deleted(h, item) == Reached(h, {item})

\* get_array_item, get_object_item: walks along next.
Walk(h, item) ==
    FoldLeft(LAMBDA w, n : IF w # <<>> /\ h[Last(w)].next # NULL THEN Append(w, h[Last(w)].next) ELSE w,
             IF h[item].child = NULL THEN <<>> ELSE <<h[item].child>>,
             [n \in 1 .. Cardinality(Items) |-> n])

Roots == {i \in live : \A j \in live : i \notin ToSet(children[j])}

\* A parent and a root that can become its child.
Free(parent, item) == item # parent /\ parent \notin Subtree(heap, item)

\* cJSON_CreateObject and the other constructors, for which there may be no
\* memory.
Create ==
    /\ Cardinality(Roots) < MaxRoots
    /\ \E i \in Items \ live :
        /\ \A j \in Items \ live : i <= j
        /\ live' = live \cup {i}
        /\ heap' = [heap EXCEPT ![i] = Blank]
        /\ children' = [children EXCEPT ![i] = <<>>]

\* cJSON_CreateIntArray, ...StringArray: n children linked in both directions,
\* prev of the first left NULL.
CreateArrayOf ==
    \E n \in 1 .. MaxChildren :
        LET spare == SetToSortSeq(Items \ live, <)
            Link(k) == IF k \in 1 .. n THEN spare[k + 1] ELSE NULL
            Index(i) == CHOOSE k \in 0 .. n : spare[k + 1] = i
            new == {spare[k] : k \in 1 .. n + 1}
        IN  /\ Cardinality(Roots) < MaxRoots
            /\ n < Len(spare)
            /\ live' = live \cup new
            /\ children' = [children EXCEPT ![spare[1]] = SubSeq(spare, 2, n + 1)]
            /\ heap' = [i \in Items |->
                    CASE i \notin new -> heap[i]
                      [] i = spare[1] -> [Blank EXCEPT !.child = Link(1)]
                      [] OTHER -> [Blank EXCEPT !.next = Link(Index(i) + 1), !.prev = Link(Index(i) - 1)]]

\* Mutant of Linked: the last child is not noted.
LinkedFirstOnly(h, parent, item) ==
    LET first == h[parent].child
    IN  IF first = NULL
        THEN [h EXCEPT ![parent].child = item, ![item].prev = item, ![item].next = NULL]
        ELSE LET last == IF h[first].prev = NULL THEN Last(Walk(h, parent)) ELSE h[first].prev
             IN  [h EXCEPT ![last].next = item, ![item].prev = last]

\* add_item_to_array
Linked(h, parent, item) ==
    LET first == h[parent].child
    IN  IF first = NULL
        THEN [h EXCEPT ![parent].child = item, ![item].prev = item, ![item].next = NULL]
        ELSE LET last == IF h[first].prev = NULL THEN Last(Walk(h, parent)) ELSE h[first].prev
                 suffixed == [h EXCEPT ![last].next = item, ![item].prev = last]
             IN  [suffixed EXCEPT ![first].prev = item]

\* cJSON_AddItemToArray
AddItemToArray ==
    \E parent \in live, item \in Roots :
        /\ Free(parent, item) /\ Len(children[parent]) < MaxChildren
        /\ heap' = Linked(heap, parent, item)
        /\ children' = [children EXCEPT ![parent] = Append(@, item)]
        /\ UNCHANGED live

\* cJSON_AddItemToObject: without memory for the name nothing happens.
AddItemToObject ==
    \E parent \in live, item \in Roots, name \in Names :
        /\ Free(parent, item) /\ Len(children[parent]) < MaxChildren
        /\ heap' = Linked([heap EXCEPT ![item].string = name], parent, item)
        /\ children' = [children EXCEPT ![parent] = Append(@, item)]
        /\ UNCHANGED live

\* cJSON_AddNullToObject and the like: a new item is added under a name, or,
\* if there is no memory for both, deleted again.
AddNewToObject ==
    \E parent \in live, name \in Names, item \in Items \ live :
        /\ \A j \in Items \ live : item <= j
        /\ Len(children[parent]) < MaxChildren
        /\ heap' = Linked([heap EXCEPT ![item] = [Blank EXCEPT !.string = name]], parent, item)
        /\ live' = live \cup {item}
        /\ children' = [children EXCEPT ![parent] = Append(@, item), ![item] = <<>>]

\* cJSON_InsertItemInArray before the child at index which; past the end it is
\* AddItemToArray.
InsertItemInArray ==
    \E parent \in live, item \in Roots :
    \E which \in 1 .. Len(Walk(heap, parent)) :
        LET after == Walk(heap, parent)[which]
            before == heap[after].prev
            h == [heap EXCEPT ![item].next = after, ![item].prev = before, ![after].prev = item]
        IN  /\ Free(parent, item) /\ Len(children[parent]) < MaxChildren
            /\ heap' = IF after = h[parent].child THEN [h EXCEPT ![parent].child = item]
                       ELSE [h EXCEPT ![before].next = item]
            /\ children' = [children EXCEPT ![parent] = InsertAt(@, which, item)]
            /\ UNCHANGED live

\* cJSON_DetachItemViaPointer
Detached(h, parent, item) ==
    LET first == item = h[parent].child
        next == h[item].next
        prev == h[item].prev
        h1 == IF first THEN h ELSE [h EXCEPT ![prev].next = next]
        h2 == IF next = NULL THEN h1 ELSE [h1 EXCEPT ![next].prev = prev]
        h3 == CASE first -> [h2 EXCEPT ![parent].child = next]
                [] ~first /\ next = NULL -> [h2 EXCEPT ![h2[parent].child].prev = prev]
                [] OTHER -> h2
    IN  [h3 EXCEPT ![item].prev = NULL, ![item].next = NULL]

DetachItem ==
    \E parent \in live :
    \E which \in 1 .. Len(Walk(heap, parent)) :
        /\ Cardinality(Roots) < MaxRoots
        /\ heap' = Detached(heap, parent, Walk(heap, parent)[which])
        /\ children' = [children EXCEPT ![parent] = RemoveAt(@, which)]
        /\ UNCHANGED live

Forget(h, gone) == [i \in Items |-> IF i \in gone THEN Blank ELSE h[i]]

\* cJSON_ReplaceItemViaPointer; the item is unlinked before it is deleted.
Replaced(h, parent, item, by) ==
    LET next == h[item].next
        prev == h[item].prev
        h1 == [h EXCEPT ![by].next = next, ![by].prev = prev]
        h2 == IF next = NULL THEN h1 ELSE [h1 EXCEPT ![next].prev = by]
        first == h2[parent].child = item
        alone == h2[item].prev = item
        h3 == CASE first -> [h2 EXCEPT ![by].prev = IF alone THEN by ELSE @, ![parent].child = by]
                [] ~first /\ next = NULL -> [h2 EXCEPT ![prev].next = by, ![h2[parent].child].prev = by]
                [] OTHER -> [h2 EXCEPT ![prev].next = by]
    IN  [h3 EXCEPT ![item].next = NULL, ![item].prev = NULL]

\* get_object_item: the first child of that name.
Member(h, parent, name) ==
    SelectInSeq(Walk(h, parent), LAMBDA i : h[i].string = name)

\* cJSON_ReplaceItemInObject: the replacement is renamed first, whether or not
\* the object has such a member, and without memory it has no name.
ReplaceItemInObject ==
    \E parent \in live, item \in Roots, name \in Names :
    \E copied \in {name, NULL} :
        LET h == [heap EXCEPT ![item].string = copied]
            which == Member(h, parent, name)
            old == Walk(h, parent)[which]
            replaced == Replaced(h, parent, old, item)
            gone == Deleted(replaced, old)
        IN  /\ Free(parent, item)
            /\ IF which = 0 THEN heap' = h /\ UNCHANGED <<live, children>>
               ELSE /\ heap' = Forget(replaced, gone)
                    /\ live' = live \ gone
                    /\ children' = [i \in Items |->
                                        CASE i = parent -> [children[i] EXCEPT ![which] = item]
                                          [] i \in gone -> <<>>
                                          [] OTHER -> children[i]]

\* cJSON_Delete of a root
Delete ==
    \E item \in Roots :
        LET gone == Deleted(heap, item)
        IN  /\ heap' = Forget(heap, gone)
            /\ live' = live \ gone
            /\ children' = [i \in Items |-> IF i \in gone THEN <<>> ELSE children[i]]

\* cJSON_Duplicate of an item and everything below it.  If there is no memory
\* for all of it, what was copied is deleted again, which is no step here: the
\* copy is in nobody's list before it is complete.
Duplicate ==
    \E item \in live :
        LET old == Subtree(heap, item)
            spare == Items \ live
            copy == CHOOSE c \in [old -> spare] : IsInjective(c)
            Copy(i) == IF i = NULL THEN NULL ELSE copy[i]
            new == {copy[i] : i \in old}
            Original(n) == CHOOSE i \in old : copy[i] = n
            IsFirst(i) == \E j \in old : heap[j].child = i
        IN  /\ Cardinality(old) <= Cardinality(spare) /\ Cardinality(Roots) < MaxRoots
            /\ live' = live \cup new
            /\ children' = [n \in Items |-> IF n \notin new THEN children[n]
                                            ELSE [k \in DOMAIN children[Original(n)] |->
                                                    copy[children[Original(n)][k]]]]
            /\ heap' = [n \in Items |->
                    IF n \notin new THEN heap[n]
                    ELSE LET i == Original(n)
                         IN  [child |-> Copy(heap[i].child),
                              string |-> heap[i].string,
                              next |-> IF i = item THEN NULL ELSE Copy(heap[i].next),
                              prev |-> IF i = item \/ IsFirst(i) THEN NULL ELSE Copy(heap[i].prev)]]

Next ==
    \/ Create \/ CreateArrayOf \/ AddItemToArray \/ AddItemToObject
    \/ AddNewToObject \/ InsertItemInArray \/ DetachItem
    \/ ReplaceItemInObject \/ Delete \/ Duplicate

Spec == Init /\ [][Next]_vars

-----------------------------------------------------------------------------
\* The pointers are what the sequences of children say, in both directions,
\* whatever operations a list has gone through: no child is lost, found twice
\* or still linked after it was freed (the list handling of cJSON.c).
ListsSound ==
    \A i \in live :
        LET c == children[i]
        IN  /\ Walk(heap, i) = c
            /\ ToSet(c) \subseteq live /\ IsInjective(c)
            /\ \A k \in 2 .. Len(c) : heap[c[k]].prev = c[k - 1]
            /\ c # <<>> => heap[c[1]].prev \in {NULL, Last(c)}
            /\ i \in Roots => heap[i].next = NULL
=============================================================================
