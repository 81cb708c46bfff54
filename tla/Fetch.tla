-------------------------------- MODULE Fetch -------------------------------
(***************************************************************************)
(* Elements and fetches of cjet (fetch.c, the add, change and remove       *)
(* handlers of element.c, authenticate.c, groups.c and the shutdown order  *)
(* of peer.c).                                                             *)
(*                                                                         *)
(* A peer adds elements (states and methods).  Another peer registers a    *)
(* fetch; from then on the server tells it of every element that the       *)
(* fetch's matcher accepts and the peer's groups open: "add", "change",    *)
(* "remove".  An element points to its fetches from the slots of its       *)
(* fetcher_table.                                                          *)
(*                                                                         *)
(* The server is one thread, so an action is a whole request.  A           *)
(* notification fails when its message cannot be allocated or sent; the    *)
(* loop that sends the notifications of a request stops there.  `view' is  *)
(* what a client knows from the events it got.                             *)
(***************************************************************************)
EXTENDS Integers, FiniteSets, SequencesExt

CONSTANTS
    Peers,            \* struct peer instances; a freed instance is not reused
    SocketPeers,      \* the ones on a raw socket
    Paths,            \* element paths
    Values,           \* values of states
    FetchIds,         \* fetch ids the clients use
    MatchSets,        \* path sets that the matchers of a fetch accept
    Groups,           \* the groups of the password file
    GroupsLoaded,     \* whether a password file was given
    InitialTableSize, \* CONFIG_INITIAL_FETCH_TABLE_SIZE
    MaxFailures,      \* bound: number of failing sends and allocations
    Method,           \* the value of a method (NULL)
    Absent,           \* in a view: the path is not known
    NoPeer,
    NoElement,
    NoFetch

ASSUME ConstantsAssumption ==
    /\ SocketPeers \subseteq Peers
    /\ IsFiniteSet(Peers) /\ IsFiniteSet(FetchIds)
    /\ MatchSets \subseteq SUBSET Paths
    /\ GroupsLoaded \in BOOLEAN
    /\ InitialTableSize \in Nat \ {0}
    /\ MaxFailures \in Nat
    /\ Method \notin Values
    /\ Absent \notin Values \cup {Method}
    /\ NoPeer \notin Peers

VARIABLES
    peer_list,      \* connected peers, in the order they connected
    freed_peers,    \* peers whose memory was freed
    closing,        \* the peer the running handler is about to free, or NoPeer
    fetch_groups,   \* the fetch groups of every peer
    element_table,  \* path |-> element or NoElement
    element_list,   \* peer |-> paths of its elements, in the order added
    fetch_list,     \* peer |-> its fetches, in the order registered
    failures,       \* sends and allocations that failed so far
    view,           \* <<peer, fetch id>> |-> what the client knows
    disturbed       \* the fetches a failure kept an event from, or told of an
                    \* element that was then refused

vars == <<peer_list, freed_peers, closing, fetch_groups, element_table,
          element_list, fetch_list, failures, view, disturbed>>

ElementValues == Values \cup {Method}

FetchRecord == [peer : Peers, id : FetchIds, matcher : MatchSets]

Element == [peer : Peers, value : ElementValues,
            fetch_groups : SUBSET Groups,
            fetcher_table : Seq(FetchRecord \cup {NoFetch})]

ASSUME NullAssumption == NoFetch \notin FetchRecord /\ NoElement \notin Element

Clients == Peers \X FetchIds

NothingKnown == [path \in Paths |-> Absent]

Init ==
    /\ peer_list = << >>
    /\ freed_peers = {}
    /\ closing = NoPeer
    /\ fetch_groups = [p \in Peers |-> {}]
    /\ element_table = [path \in Paths |-> NoElement]
    /\ element_list = [p \in Peers |-> << >>]
    /\ fetch_list = [p \in Peers |-> << >>]
    /\ failures = 0
    /\ view = [c \in Clients |-> NothingKnown]
    /\ disturbed = {}

-----------------------------------------------------------------------------
\* has_access: without a password file every element is open, with one an
\* element without groups is open to nobody.
HasAccess(has, wants) == GroupsLoaded => has \cap wants # {}

StateMatches(path, f) == path \in f.matcher

\* The first two tests of add_fetch_to_state_and_notify and get_element, for
\* an element with the fetch groups g.
Interested(g, path, f) ==
    HasAccess(g, fetch_groups[f.peer]) /\ StateMatches(path, f)

Exists(path) == element_table[path] # NoElement

\* add_fetch_to_state: the first free slot, in a table twice as large if
\* there is none (never smaller than InitialTableSize).
AddFetchToState(table, f) ==
    LET free == SelectInSeq(table, LAMBDA s : s = NoFetch)
    IN  IF free # 0
        THEN [table EXCEPT ![free] = f]
        ELSE table \o [i \in 1 .. Len(table) |-> IF i = 1 THEN f ELSE NoFetch]

EmptyTable == [i \in 1 .. InitialTableSize |-> NoFetch]

\* The table of a new element after the fetches fs were added in this order.
FetcherTable(fs) ==
    LET table[i \in 0 .. Len(fs)] ==
            IF i = 0 THEN EmptyTable ELSE AddFetchToState(table[i - 1], fs[i])
    IN  table[Len(fs)]

\* find_fetchers_for_element: who is told of a new element.
FindFetchersForElement(g, path) ==
    {f \in UNION {ToSet(fetch_list[p]) : p \in ToSet(peer_list)} :
        Interested(g, path, f)}

\* The elements a fetch is added to (add_fetch_to_states) and a get request
\* answers with.
ElementsInPeers(f) ==
    {path \in UNION {ToSet(element_list[p]) : p \in ToSet(peer_list)} :
        Interested(element_table[path].fetch_groups, path, f)}

\* get_elements: methods have no value and are left out.
GetElements(f) ==
    {<<path, element_table[path].value>> : path \in
        {q \in ElementsInPeers(f) : element_table[q].value # Method}}

\* Fetches and elements are met in the order of the peers, those of one peer
\* in the order of its list.
Precedes(list, x, y) ==
    \E i, j \in DOMAIN list : i < j /\ list[i] = x /\ list[j] = y

FetchPrecedes(f, g) ==
    \/ Precedes(peer_list, f.peer, g.peer)
    \/ f.peer = g.peer /\ Precedes(fetch_list[f.peer], f, g)

ElementPrecedes(a, b) ==
    LET p == element_table[a].peer
        q == element_table[b].peer
    IN  \/ Precedes(peer_list, p, q)
        \/ p = q /\ Precedes(element_list[p], a, b)

\* What a walk over the set S in the order Before has met when it stops, and
\* the order of the whole walk.
Walks(S, Before(_, _)) ==
    {T \in SUBSET S : \A x \in T, y \in S : Before(y, x) => y \in T}

InOrder(S, Before(_, _)) ==
    {xs \in [1 .. Cardinality(S) -> S] :
        /\ ToSet(xs) = S
        /\ \A i, j \in DOMAIN xs : i < j => Before(xs[i], xs[j])}

-----------------------------------------------------------------------------
\* notify_fetchers walks the slots in order and skips the free ones.  It ends
\* after the last slot, or after slot n when the next notification fails.
StopsAfter(table, n) ==
    /\ n \in 0 .. Len(table)
    /\ n < Len(table) => table[n + 1] # NoFetch

Reached(table, n) == {table[i] : i \in 1 .. n} \ {NoFetch}

Missed(table, n) == {table[i] : i \in n + 1 .. Len(table)} \ {NoFetch}

Fails(table, n) == IF n < Len(table) THEN 1 ELSE 0

\* The fetches in the slots
InSlots(table) == ToSet(table) \ {NoFetch}

Fetchers(path) == InSlots(element_table[path].fetcher_table)

ClientsOf(fs) == {<<f.peer, f.id>> : f \in fs}

\* The views after the clients of the fetches fs were told x for path.
Notified(v, fs, path, x) ==
    [c \in Clients |-> IF c \in ClientsOf(fs)
                       THEN [v[c] EXCEPT ![path] = x] ELSE v[c]]

-----------------------------------------------------------------------------
PeerEvent(p) == closing = NoPeer /\ p \in ToSet(peer_list)

(***************************************************************************)
(* parse.c sends the response of the handler, during which `failed' sends  *)
(* or allocations went wrong; when the send fails the peer is closed.      *)
(***************************************************************************)
SendResponse(p, failed) ==
    \/ /\ failures + failed <= MaxFailures
       /\ failures' = failures + failed
       /\ UNCHANGED closing
    \/ /\ failures + failed < MaxFailures
       /\ failures' = failures + failed + 1
       /\ closing' = p

(***************************************************************************)
(* A peer connects.  The memory of a websocket peer is zeroed; that of a   *)
(* raw socket peer is not, and init_peer does not set its groups.          *)
(***************************************************************************)
InitPeer(p) ==
    /\ closing = NoPeer
    /\ p \notin ToSet(peer_list) \cup freed_peers
    /\ peer_list' = Append(peer_list, p)
    /\ \E g \in (IF p \in SocketPeers THEN SUBSET Groups ELSE {{}}) :
          fetch_groups' = [fetch_groups EXCEPT ![p] = g]
    /\ UNCHANGED <<freed_peers, closing, element_table, element_list,
                   fetch_list, failures, view, disturbed>>

\* Mutant of Authenticate: "fetched before authenticate" is not refused.
AuthenticateAnytime(p, g) ==
    /\ PeerEvent(p)
    /\ GroupsLoaded
    /\ fetch_groups' = [fetch_groups EXCEPT ![p] = g]
    /\ SendResponse(p, 0)
    /\ UNCHANGED <<peer_list, freed_peers, element_table, element_list,
                   fetch_list, view, disturbed>>

(***************************************************************************)
(* Valid credentials of a user with the fetch groups g.  Refused once the  *)
(* peer has a fetch; without a password file no credentials are valid.     *)
(***************************************************************************)
Authenticate(p, g) ==
    /\ PeerEvent(p)
    /\ fetch_list[p] = << >>
    /\ GroupsLoaded
    /\ fetch_groups' = [fetch_groups EXCEPT ![p] = g]
    /\ SendResponse(p, 0)
    /\ UNCHANGED <<peer_list, freed_peers, element_table, element_list,
                   fetch_list, view, disturbed>>

(***************************************************************************)
(* A request that is refused (error response), or only reads: get, info,   *)
(* config.  Only the failure of its response changes anything.             *)
(***************************************************************************)
RequestWithoutEffect(p) ==
    /\ PeerEvent(p)
    /\ SendResponse(p, 0)
    /\ UNCHANGED <<peer_list, freed_peers, fetch_groups, element_table,
                   element_list, fetch_list, view, disturbed>>

\* get_groups knows no group without a password file.
GroupSets == IF GroupsLoaded THEN SUBSET Groups ELSE {{}}

NewElement(p, value, g, fs) ==
    [peer |-> p, value |-> value, fetch_groups |-> g,
     fetcher_table |-> FetcherTable(fs)]

\* Mutant of AddElement: element_table_get(path) != NULL is not refused.
AddElementAgain(p, path, value, g) ==
    LET targets == FindFetchersForElement(g, path)
    IN  /\ PeerEvent(p)
        /\ \E fs \in InOrder(targets, FetchPrecedes) :
              element_table' = [element_table EXCEPT ![path] =
                                   NewElement(p, value, g, fs)]
        /\ element_list' = [element_list EXCEPT ![p] = Append(@, path)]
        /\ view' = Notified(view, targets, path, value)
        /\ SendResponse(p, 0)
        /\ UNCHANGED <<peer_list, freed_peers, fetch_groups, fetch_list,
                       disturbed>>

(***************************************************************************)
(* add: the path is free.  The fetchers get a slot and an "add" each, then *)
(* the element goes into the table and into the list of its owner.         *)
(***************************************************************************)
AddElement(p, path, value, g) ==
    LET targets == FindFetchersForElement(g, path)
    IN  /\ PeerEvent(p)
        /\ ~ Exists(path)
        /\ \E fs \in InOrder(targets, FetchPrecedes) :
              element_table' = [element_table EXCEPT ![path] =
                                   NewElement(p, value, g, fs)]
        /\ element_list' = [element_list EXCEPT ![p] = Append(@, path)]
        /\ view' = Notified(view, targets, path, value)
        /\ SendResponse(p, 0)
        /\ UNCHANGED <<peer_list, freed_peers, fetch_groups, fetch_list,
                       disturbed>>

(***************************************************************************)
(* add, when something fails after some fetchers were told: a notification *)
(* or its slot, or, with all told, the insertion into the element table.   *)
(* The element is freed, and nobody is told that it is gone.               *)
(***************************************************************************)
AddElementFailed(p, path, value, g) ==
    /\ PeerEvent(p)
    /\ ~ Exists(path)
    /\ \E told \in Walks(FindFetchersForElement(g, path), FetchPrecedes) :
          /\ view' = Notified(view, told, path, value)
          /\ disturbed' = disturbed \cup ClientsOf(told)
    /\ SendResponse(p, 1)
    /\ UNCHANGED <<peer_list, freed_peers, fetch_groups, element_table,
                   element_list, fetch_list>>

-----------------------------------------------------------------------------
\* Mutant of ChangeState: the fetchers are notified before the assignment.
ChangeStateNotifyFirst(p, path, value, n) ==
    LET table == element_table[path].fetcher_table
    IN  /\ PeerEvent(p)
        /\ Exists(path)
        /\ element_table[path].peer = p
        /\ element_table[path].value # Method
        /\ StopsAfter(table, n)
        /\ element_table' = [element_table EXCEPT ![path].value = value]
        /\ view' = Notified(view, Reached(table, n), path,
                            element_table[path].value)
        /\ disturbed' = disturbed \cup ClientsOf(Missed(table, n))
        /\ SendResponse(p, Fails(table, n))
        /\ UNCHANGED <<peer_list, freed_peers, fetch_groups, element_list,
                       fetch_list>>

\* change: the value stays changed when a notification fails.
ChangeState(p, path, value, n) ==
    LET table == element_table[path].fetcher_table
    IN  /\ PeerEvent(p)
        /\ Exists(path)
        /\ element_table[path].peer = p
        /\ element_table[path].value # Method
        /\ StopsAfter(table, n)
        /\ element_table' = [element_table EXCEPT ![path].value = value]
        /\ view' = Notified(view, Reached(table, n), path, value)
        /\ disturbed' = disturbed \cup ClientsOf(Missed(table, n))
        /\ SendResponse(p, Fails(table, n))
        /\ UNCHANGED <<peer_list, freed_peers, fetch_groups, element_list,
                       fetch_list>>

\* remove: the i-th element of the peer goes whatever becomes of the
\* notifications.
RemoveElement(p, i, n) ==
    LET path == element_list[p][i]
        table == element_table[path].fetcher_table
    IN  /\ PeerEvent(p)
        /\ StopsAfter(table, n)
        /\ element_table' = [element_table EXCEPT ![path] = NoElement]
        /\ element_list' = [element_list EXCEPT ![p] = RemoveAt(@, i)]
        /\ view' = Notified(view, Reached(table, n), path, Absent)
        /\ disturbed' = disturbed \cup ClientsOf(Missed(table, n))
        /\ SendResponse(p, Fails(table, n))
        /\ UNCHANGED <<peer_list, freed_peers, fetch_groups, fetch_list>>

(***************************************************************************)
(* fetch: an id the peer does not use yet.  The fetch gets a slot in every *)
(* element it is interested in, and the client an "add" for each, until    *)
(* one of them fails, with or without its slot.  The fetch stays.          *)
(***************************************************************************)
AddFetch(p, id, matcher) ==
    LET f == [peer |-> p, id |-> id, matcher |-> matcher]
        c == <<p, id>>
        es == ElementsInPeers(f)
    IN  /\ PeerEvent(p)
        /\ \A i \in DOMAIN fetch_list[p] : fetch_list[p][i].id # id
        /\ fetch_list' = [fetch_list EXCEPT ![p] = Append(@, f)]
        /\ \E slotted \in Walks(es, ElementPrecedes) :
           \E told \in Walks(slotted, ElementPrecedes) :
              /\ \A a, b \in slotted \ told : a = b
              /\ element_table' = [path \in Paths |->
                    IF path \in slotted
                    THEN [element_table[path] EXCEPT !.fetcher_table =
                             AddFetchToState(@, f)]
                    ELSE element_table[path]]
              /\ view' = [view EXCEPT ![c] = [path \in Paths |->
                    IF path \in told THEN element_table[path].value
                                     ELSE Absent]]
              /\ disturbed' = IF told = es THEN disturbed ELSE disturbed \cup {c}
              /\ SendResponse(p, IF told = es THEN 0 ELSE 1)
        /\ UNCHANGED <<peer_list, freed_peers, fetch_groups, element_list>>

\* Mutant of WithoutFetches: remove_fetch_from_states is not called.
WithoutFetchesNone(fs) == element_table

\* The element table after remove_fetch_from_states for the fetches fs: the
\* slots of every element that is in the list of a connected peer.
WithoutFetches(fs) ==
    LET listed == UNION {ToSet(element_list[p]) : p \in ToSet(peer_list)}
        free(table) == [i \in DOMAIN table |-> IF table[i] \in fs THEN NoFetch
                                               ELSE table[i]]
    IN  [path \in Paths |->
           IF path \in listed
           THEN [element_table[path] EXCEPT !.fetcher_table = free(@)]
           ELSE element_table[path]]

Forgotten(cs) == [c \in Clients |-> IF c \in cs THEN NothingKnown ELSE view[c]]

\* unfetch of the i-th fetch of the peer
RemoveFetch(p, i) ==
    LET f == fetch_list[p][i]
    IN  /\ PeerEvent(p)
        /\ element_table' = WithoutFetches({f})
        /\ fetch_list' = [fetch_list EXCEPT ![p] = RemoveAt(@, i)]
        /\ view' = Forgotten({<<p, f.id>>})
        /\ disturbed' = disturbed \ {<<p, f.id>>}
        /\ SendResponse(p, 0)
        /\ UNCHANGED <<peer_list, freed_peers, fetch_groups, element_list>>

-----------------------------------------------------------------------------
\* The connection is lost or closed by the client, or a message of it cannot
\* be parsed.
Disconnect(p) ==
    /\ PeerEvent(p)
    /\ closing' = p
    /\ UNCHANGED <<peer_list, freed_peers, fetch_groups, element_table,
                   element_list, fetch_list, failures, view, disturbed>>

(***************************************************************************)
(* free_peer_resources of the i-th peer: its fetches leave all slots, then *)
(* its elements are removed one after the other, each with its             *)
(* notifications (those of element path end after slot stops[path]), then  *)
(* the peer goes.                                                          *)
(***************************************************************************)
FreePeerResources(p, i, stops) ==
    LET without == WithoutFetches(ToSet(fetch_list[p]))
        own == ToSet(element_list[p])
        table(path) == without[path].fetcher_table
        reached(path) == ClientsOf(Reached(table(path), stops[path]))
        missed(path) == ClientsOf(Missed(table(path), stops[path]))
        mine == {p} \X FetchIds
        cut == {path \in own : stops[path] < Len(table(path))}
    IN  /\ closing = p
        /\ peer_list[i] = p
        /\ \A path \in own : StopsAfter(table(path), stops[path])
        /\ failures + Cardinality(cut) <= MaxFailures
        /\ failures' = failures + Cardinality(cut)
        /\ element_table' = [path \in Paths |->
              IF path \in own THEN NoElement ELSE without[path]]
        /\ view' = [c \in Clients |-> [path \in Paths |->
              IF c \in mine \/ (path \in own /\ c \in reached(path))
              THEN Absent ELSE view[c][path]]]
        /\ disturbed' = (disturbed \cup UNION {missed(path) : path \in own})
                            \ mine
        /\ fetch_list' = [fetch_list EXCEPT ![p] = << >>]
        /\ element_list' = [element_list EXCEPT ![p] = << >>]
        /\ peer_list' = RemoveAt(peer_list, i)
        /\ freed_peers' = freed_peers \cup {p}
        /\ closing' = NoPeer
        /\ UNCHANGED fetch_groups

-----------------------------------------------------------------------------
\* After how many slots a walk over them may end.
Stops ==
    {0} \cup UNION {DOMAIN element_table[path].fetcher_table :
                       path \in {q \in Paths : Exists(q)}}

Next ==
    \E p \in Peers :
        \/ InitPeer(p)
        \/ \E g \in SUBSET Groups : Authenticate(p, g)
        \/ RequestWithoutEffect(p)
        \/ \E path \in Paths, v \in ElementValues, g \in GroupSets :
              AddElement(p, path, v, g) \/ AddElementFailed(p, path, v, g)
        \/ \E path \in Paths, v \in Values, n \in Stops :
              ChangeState(p, path, v, n)
        \/ \E i \in DOMAIN element_list[p], n \in Stops : RemoveElement(p, i, n)
        \/ \E id \in FetchIds, matcher \in MatchSets : AddFetch(p, id, matcher)
        \/ \E i \in DOMAIN fetch_list[p] : RemoveFetch(p, i)
        \/ Disconnect(p)
        \/ \E i \in DOMAIN peer_list, stops \in [ToSet(element_list[p]) -> Stops] :
              FreePeerResources(p, i, stops)

Spec == Init /\ [][Next]_vars

-----------------------------------------------------------------------------
\* Types, and the sizes a fetcher_table can have: at least
\* CONFIG_INITIAL_FETCH_TABLE_SIZE slots and, once add_fetch_to_state doubled
\* it, less than twice the fetches the clients can have.
TypeOK ==
    /\ peer_list \in Seq(Peers)
    /\ freed_peers \subseteq Peers
    /\ closing \in Peers \cup {NoPeer}
    /\ fetch_groups \in [Peers -> SUBSET Groups]
    /\ element_table \in [Paths -> Element \cup {NoElement}]
    /\ element_list \in [Peers -> Seq(Paths)]
    /\ fetch_list \in [Peers -> Seq(FetchRecord)]
    /\ failures \in 0 .. MaxFailures
    /\ view \in [Clients -> [Paths -> ElementValues \cup {Absent}]]
    /\ disturbed \subseteq Clients
    /\ \A path \in Paths : Exists(path) =>
          LET size == Len(element_table[path].fetcher_table)
          IN  /\ size >= InitialTableSize
              /\ size = InitialTableSize \/ size < 2 * Cardinality(Clients)

\* The element table and the element lists of the connected peers hold the
\* same elements: an element is in the table exactly when it is, once, in the
\* list of its owner.  change_state and set_or_call use the table, the other
\* handlers and the shutdown of a peer use the lists.
ElementListsSound ==
    /\ TypeOK
    /\ \A path \in Paths : Exists(path) =>
          /\ element_table[path].peer \in ToSet(peer_list)
          /\ path \in ToSet(element_list[element_table[path].peer])
    /\ \A p \in Peers :
          /\ IsInjective(element_list[p])
          /\ \A path \in ToSet(element_list[p]) :
                Exists(path) /\ element_table[path].peer = p

\* notify_fetching_peer follows the pointers in the slots: each one leads to
\* a fetch that is registered by a connected peer, matches the path and has
\* access to the element, and no fetch has two slots (its client would get
\* every event twice).
SlotsSound ==
    \A path \in Paths : Exists(path) =>
        LET e == element_table[path]
            table == e.fetcher_table
        IN  /\ \A i, j \in DOMAIN table :
                  table[i] = table[j] /\ table[i] # NoFetch => i = j
            /\ \A f \in InSlots(table) :
                  /\ f.peer \in ToSet(peer_list)
                  /\ f \in ToSet(fetch_list[f.peer])
                  /\ Interested(e.fetch_groups, path, f)

\* What a client puts together from the events of a fetch is what the server
\* has: the states a get request with the same matcher would answer with, and
\* the elements that hold the fetch in a slot, methods too.  Only a fetch that
\* lost an event, or was told of an element that was then refused, may differ:
\* a failure on the way to one client spares the clients served before it.
ViewsMirrorElements ==
    \A p \in Peers : \A f \in ToSet(fetch_list[p]) :
        <<p, f.id>> \in disturbed \/
        LET v == view[<<p, f.id>>]
            known == {path \in Paths : v[path] # Absent}
        IN  /\ {<<path, v[path]>> : path \in {q \in known : v[q] # Method}}
                  = GetElements(f)
            /\ known = {path \in Paths : Exists(path) /\ f \in Fetchers(path)}

\* With a password file, the client of a peer without groups never learns of
\* an element, even from requests that fail halfway.
ClosedViews ==
    GroupsLoaded =>
        \A p \in Peers : fetch_groups[p] = {} =>
            \A id \in FetchIds : view[<<p, id>>] = NothingKnown
=============================================================================
