------------------------------- MODULE Router -------------------------------
(***************************************************************************)
(* The request router of cjet (router.c, the set/call handler of           *)
(* element.c, the shutdown order of peer.c and the epoll batch of          *)
(* linux/eventloop_epoll.c that delivers timer expirations).               *)
(*                                                                         *)
(* A peer sends "set" or "call" for a path.  The server allocates a        *)
(* routing request, stores it in the routing table of the peer that owns   *)
(* the element, arms a timer and forwards the request.  The request ends   *)
(* with the owner's response, with the timer, or with the disconnection of *)
(* the owner or of the requester.                                          *)
(*                                                                         *)
(* The server is one thread: every action is a handler that runs to        *)
(* completion.  A handler whose caller closes the peer afterwards leaves   *)
(* the peer in `closing', and nothing else runs before FreePeerResources.  *)
(*                                                                         *)
(* Requests are named by the value of the counter uuid they were allocated *)
(* with.  The routed id of the code is built from the origin id, uuid and  *)
(* the requester's address, so ids of different uuid values are different. *)
(***************************************************************************)
EXTENDS Integers, FiniteSets, Sequences

CONSTANTS
    Peers,        \* struct peer instances; a freed instance is not reused
    WsPeers,      \* the ones connected by websocket
    Authorized,   \* the ones whose groups open a restricted element
    Paths,        \* element paths
    ElementKinds, \* the elements that may be added: type, fetch_only, restricted
    MaxRequests,  \* bound: number of routing requests ever allocated
    MaxFailures,  \* bound: number of failing sends and allocations
    MaxEvents,    \* CONFIG_MAX_EPOLL_EVENTS
    TableSize,    \* number of slots of a routing table
    NoPeer,
    NoElement

Types == {"STATE", "METHOD"}

ASSUME ConstantsAssumption ==
    /\ WsPeers \subseteq Peers
    /\ Authorized \subseteq Peers
    /\ ElementKinds \subseteq
           [type : Types, fetch_only : BOOLEAN, restricted : BOOLEAN]
    /\ MaxRequests \in Nat
    /\ MaxFailures \in Nat
    /\ MaxEvents \in Nat \ {0}
    /\ TableSize \in Nat
    /\ NoPeer \notin Peers

VARIABLES
    peer_list,      \* connected peers
    freed_peers,    \* peers whose memory was freed
    closing,        \* the peer the running handler is about to free, or NoPeer
    element_table,  \* path |-> element or NoElement
    uuid,           \* next routing request
    request,        \* contents of the routing requests
    allocated,      \* requests whose memory is allocated
    routing_table,  \* owner |-> requests registered in its routing table
    armed,          \* requests whose timer was started and not cancelled
    timerfd,        \* requests whose timer descriptor is open
    batch,          \* timer events epoll_wait returned and not yet handled
    answers,        \* request |-> answers handed to its requester, in order
    failures,       \* sends and allocations that failed so far
    fault           \* the first access to freed memory, or "none"

vars == <<peer_list, freed_peers, closing, element_table, uuid, request,
          allocated, routing_table, armed, timerfd, batch, answers, failures,
          fault>>

Requests == 0 .. (MaxRequests - 1)

Element == [peer : Peers, type : Types, fetch_only : BOOLEAN,
            restricted : BOOLEAN]

RequestRecord == [requesting_peer : Peers \cup {NoPeer},
                  owner_peer : Peers \cup {NoPeer},
                  origin : BOOLEAN]

AnswerKinds == {"rejected", "send_failed", "result", "timeout", "shutdown"}

FaultKinds == {"none", "dangling_entry", "stale_event", "freed_peer",
               "freed_connection"}

-----------------------------------------------------------------------------
Init ==
    /\ peer_list = {}
    /\ freed_peers = {}
    /\ closing = NoPeer
    /\ element_table = [path \in Paths |-> NoElement]
    /\ uuid = 0
    /\ request = [r \in Requests |-> [requesting_peer |-> NoPeer,
                                      owner_peer |-> NoPeer,
                                      origin |-> FALSE]]
    /\ allocated = {}
    /\ routing_table = [p \in Peers |-> {}]
    /\ armed = {}
    /\ timerfd = {}
    /\ batch = {}
    /\ answers = [r \in Requests |-> << >>]
    /\ failures = 0
    /\ fault = "none"

(***************************************************************************)
(* The loop is about to call a handler of a connected peer.  A peer event  *)
(* needs a place in the batch next to the timer events still in it: exact  *)
(* for MaxEvents = 1 and for batches that hold every peer and timer.       *)
(***************************************************************************)
Running == fault = "none" /\ closing = NoPeer

PeerEvent(p) ==
    /\ Running
    /\ p \in peer_list
    /\ Cardinality(batch) < MaxEvents

InitPeer(p) ==
    /\ Running
    /\ p \notin peer_list \cup freed_peers
    /\ peer_list' = peer_list \cup {p}
    /\ UNCHANGED <<freed_peers, closing, element_table, uuid, request,
                   allocated, routing_table, armed, timerfd, batch, answers,
                   failures, fault>>

AddElement(p, path, kind) ==
    /\ PeerEvent(p)
    /\ element_table[path] = NoElement
    /\ element_table' = [element_table EXCEPT ![path] =
            [peer |-> p, type |-> kind.type, fetch_only |-> kind.fetch_only,
             restricted |-> kind.restricted]]
    /\ UNCHANGED <<peer_list, freed_peers, closing, uuid, request, allocated,
                   routing_table, armed, timerfd, batch, answers, failures,
                   fault>>

RemoveElement(p, path) ==
    /\ PeerEvent(p)
    /\ element_table[path] # NoElement
    /\ element_table[path].peer = p
    /\ element_table' = [element_table EXCEPT ![path] = NoElement]
    /\ UNCHANGED <<peer_list, freed_peers, closing, uuid, request, allocated,
                   routing_table, armed, timerfd, batch, answers, failures,
                   fault>>

-----------------------------------------------------------------------------
(***************************************************************************)
(* parse.c sends the response a handler returns, if there is one (a        *)
(* request without id gets none); when the send fails the peer is closed.  *)
(***************************************************************************)
SendResponse(p, origin, failed) ==
    \/ /\ failures' = failures + failed
       /\ UNCHANGED closing
    \/ /\ origin
       /\ failures + failed < MaxFailures
       /\ failures' = failures + failed + 1
       /\ closing' = p

\* The conditions set_or_call checks on the element and on the requester.
Routable(p, path, what) ==
    LET e == element_table[path]
    IN  /\ e # NoElement
        /\ ~ e.fetch_only
        /\ e.type = what
        /\ e.restricted => p \in Authorized

\* Registers the contents of the routing request allocated next.
AllocRoutingRequest(p, owner, origin) ==
    /\ uuid < MaxRequests
    /\ uuid' = uuid + 1
    /\ request' = [request EXCEPT ![uuid] =
            [requesting_peer |-> p, owner_peer |-> owner, origin |-> origin]]

\* Mutant of WithId: the check origin_request_id != NULL is dropped.
WithIdUnchecked(rs) == rs

\* The requests among rs whose requester gave an id and expects an answer.
WithId(rs) == {r \in rs : request[r].origin}

\* An answer of kind k is handed to the requesters of the requests rs.
Answered(k, rs) ==
    [r \in Requests |-> IF r \in rs THEN Append(answers[r], k)
                                    ELSE answers[r]]

(***************************************************************************)
(* Missing element, fetch-only, wrong type, no access, unusable id, or no  *)
(* memory for the request: an error response and nothing else.             *)
(***************************************************************************)
SetOrCallRejected(p, path, what, origin) ==
    /\ PeerEvent(p)
    /\ \/ ~ Routable(p, path, what) /\ SendResponse(p, origin, 0)
       \/ /\ Routable(p, path, what)
          /\ failures < MaxFailures
          /\ SendResponse(p, origin, 1)
    /\ UNCHANGED <<peer_list, freed_peers, element_table, uuid, request,
                   allocated, routing_table, armed, timerfd, batch, answers,
                   fault>>

(***************************************************************************)
(* The request was allocated but cannot be registered (no value, message   *)
(* not created, bad timeout, timer not created or not started, table full) *)
(* and is freed.  A timer that was already created is not destroyed.       *)
(***************************************************************************)
SetOrCallAborted(p, path, what, origin) ==
    /\ PeerEvent(p)
    /\ Routable(p, path, what)
    /\ AllocRoutingRequest(p, element_table[path].peer, origin)
    /\ \/ UNCHANGED timerfd
       \/ timerfd' = timerfd \cup {uuid}
    /\ answers' = Answered("rejected", IF origin THEN {uuid} ELSE {})
    /\ SendResponse(p, origin, 0)
    /\ UNCHANGED <<peer_list, freed_peers, element_table, allocated,
                   routing_table, armed, batch, fault>>

\* Mutant of SetupRoutingInformation: HASHTABLE_PUT is missing.
SetupWithoutEntry(owner) ==
    /\ Cardinality(routing_table[owner]) < TableSize
    /\ armed' = armed \cup {uuid}
    /\ timerfd' = timerfd \cup {uuid}
    /\ UNCHANGED routing_table

\* Mutant of SetupRoutingInformation: the timer is created but not started.
SetupWithoutTimer(owner) ==
    /\ Cardinality(routing_table[owner]) < TableSize
    /\ routing_table' = [routing_table EXCEPT ![owner] = @ \cup {uuid}]
    /\ timerfd' = timerfd \cup {uuid}
    /\ UNCHANGED armed

\* setup_routing_information: the entry, the timer and its descriptor.
SetupRoutingInformation(owner) ==
    /\ Cardinality(routing_table[owner]) < TableSize
    /\ routing_table' = [routing_table EXCEPT ![owner] = @ \cup {uuid}]
    /\ armed' = armed \cup {uuid}
    /\ timerfd' = timerfd \cup {uuid}

(***************************************************************************)
(* The request is registered and forwarded.  When the send to the owner    *)
(* fails the requester gets an error at once, and the entry stays.         *)
(***************************************************************************)
SetOrCallRouted(p, path, what, origin) ==
    /\ PeerEvent(p)
    /\ Routable(p, path, what)
    /\ AllocRoutingRequest(p, element_table[path].peer, origin)
    /\ SetupRoutingInformation(element_table[path].peer)
    /\ allocated' = allocated \cup {uuid}
    /\ \/ UNCHANGED <<answers, closing, failures>>
       \/ /\ failures < MaxFailures
          /\ answers' = Answered("send_failed", IF origin THEN {uuid} ELSE {})
          /\ SendResponse(p, origin, 1)
    /\ UNCHANGED <<peer_list, freed_peers, element_table, batch, fault>>

(***************************************************************************)
(* The forwarded message cannot be rendered: set_or_call frees the request *)
(* although the routing table and the running timer point to it.           *)
(***************************************************************************)
SetOrCallUnrendered(p, path, what, origin) ==
    /\ PeerEvent(p)
    /\ Routable(p, path, what)
    /\ failures < MaxFailures
    /\ AllocRoutingRequest(p, element_table[path].peer, origin)
    /\ SetupRoutingInformation(element_table[path].peer)
    /\ answers' = Answered("rejected", IF origin THEN {uuid} ELSE {})
    /\ SendResponse(p, origin, 1)
    /\ fault' = "dangling_entry"
    /\ UNCHANGED <<peer_list, freed_peers, element_table, allocated, batch>>

-----------------------------------------------------------------------------
\* Mutant of EndRequest: the timer is not cancelled.
EndRequestTimerLeft(r) ==
    /\ timerfd' = timerfd \ {r}
    /\ allocated' = allocated \ {r}
    /\ UNCHANGED armed

\* A response or a timeout ends request r: its timer is cancelled or has
\* fired, the timer is destroyed and the request freed.
EndRequest(r) ==
    /\ armed' = armed \ {r}
    /\ timerfd' = timerfd \ {r}
    /\ allocated' = allocated \ {r}

(***************************************************************************)
(* A response of peer p with the id of request r.  It is looked up in p's  *)
(* own routing table only; an id that is not there is silently ignored.    *)
(* Without memory for the answer the request is freed unanswered; if the   *)
(* copy of the result was missing, p, the owner, is closed too.            *)
(***************************************************************************)
Forward(p, r) ==
    /\ routing_table' = [routing_table EXCEPT ![p] = @ \ {r}]
    /\ EndRequest(r)
    /\ IF request[r].origin /\ request[r].requesting_peer \notin peer_list
       THEN fault' = "freed_peer" /\ UNCHANGED <<answers, failures, closing>>
       ELSE /\ UNCHANGED fault
            /\ \/ /\ answers' = Answered("result", WithId({r}))
                  /\ UNCHANGED <<failures, closing>>
               \/ /\ request[r].origin
                  /\ failures < MaxFailures
                  /\ failures' = failures + 1
                  /\ closing' \in {p, closing}
                  /\ UNCHANGED answers

HandleRoutingResponse(p, r) ==
    /\ PeerEvent(p)
    /\ r < uuid
    /\ UNCHANGED <<peer_list, freed_peers, element_table, uuid, request, batch>>
    /\ IF r \in routing_table[p]
       THEN Forward(p, r)
       ELSE UNCHANGED <<routing_table, armed, timerfd, allocated, answers,
                        failures, closing, fault>>

-----------------------------------------------------------------------------
(***************************************************************************)
(* epoll_wait returns some of the expired timers.  handle_events works     *)
(* them off in any order, mixed with peer events of the same batch.        *)
(***************************************************************************)
EpollWait(events) ==
    /\ Running
    /\ batch = {}
    /\ events # {}
    /\ events \subseteq armed
    /\ Cardinality(events) <= MaxEvents
    /\ batch' = events
    /\ UNCHANGED <<peer_list, freed_peers, closing, element_table, uuid,
                   request, allocated, routing_table, armed, timerfd, answers,
                   failures, fault>>

\* The peers request_timeout_handler reads: the owner for its table, the
\* requester when there is an answer to send or no table entry to remove.
TimeoutReadsFreedPeer(r) ==
    LET q == request[r]
    IN  \/ q.owner_peer \notin peer_list
        \/ /\ q.requesting_peer \notin peer_list
           /\ q.origin \/ r \notin routing_table[q.owner_peer]

\* The timer event of request r in the current batch: timer_read and
\* request_timeout_handler.
RequestTimeout(r) ==
    /\ Running
    /\ r \in batch
    /\ batch' = batch \ {r}
    /\ UNCHANGED <<peer_list, freed_peers, closing, element_table, uuid,
                   request, failures>>
    /\ IF r \notin allocated \/ TimeoutReadsFreedPeer(r)
       THEN /\ fault' = IF r \notin allocated THEN "stale_event"
                                              ELSE "freed_peer"
            /\ UNCHANGED <<allocated, routing_table, armed, timerfd, answers>>
       ELSE /\ routing_table' = [routing_table EXCEPT
                                   ![request[r].owner_peer] = @ \ {r}]
            /\ answers' = Answered("timeout", WithId({r}))
            /\ EndRequest(r)
            /\ UNCHANGED fault

-----------------------------------------------------------------------------
\* End of file, socket error, a malformed message, a response without a
\* string id: the transport closes the peer.
Disconnect(p) ==
    /\ PeerEvent(p)
    /\ closing' = p
    /\ UNCHANGED <<peer_list, freed_peers, element_table, uuid, request,
                   allocated, routing_table, armed, timerfd, batch, answers,
                   failures, fault>>

\* The requests remove_routing_info_from_peer and remove_peer_from_routes
\* pass to clear_routing_entry when p goes away.
ClearedBy(p) ==
    routing_table[p] \cup
    {r \in UNION {routing_table[q] : q \in peer_list} :
        request[r].requesting_peer = p}

\* Mutant of RoutingTablesAfter: the tables of the other peers are not
\* visited, so cleared requests stay in them.
RoutingTablesUnvisited(p) ==
    [q \in Peers |-> IF q = p THEN {} ELSE routing_table[q]]

\* remove_peer_from_routing_table takes every entry out of the table of
\* every peer, also the entries it does not clear.
RoutingTablesAfter(p) ==
    [q \in Peers |-> IF q \in peer_list THEN {} ELSE routing_table[q]]

\* send_shutdown_response to a freed peer, or to a websocket peer whose own
\* connection websocket_close has already freed.
ShutdownFault(p) ==
    LET answered == WithId(ClearedBy(p))
    IN  IF \E r \in answered : request[r].requesting_peer \notin peer_list
        THEN "freed_peer"
        ELSE IF p \in WsPeers /\ \E r \in answered : request[r].requesting_peer = p
             THEN "freed_connection"
             ELSE "none"

\* clear_routing_entry answers the requesters of the cleared requests.
ShutdownAnswers(p) ==
    IF ShutdownFault(p) = "none"
    THEN Answered("shutdown", WithId(ClearedBy(p)))
    ELSE answers

\* free_peer_resources; clear_routing_entry cancels the timers of the
\* requests and frees the requests but does not destroy the timers.
FreePeerResources(p) ==
    /\ fault = "none"
    /\ closing = p
    /\ closing' = NoPeer
    /\ armed' = armed \ ClearedBy(p)
    /\ allocated' = allocated \ ClearedBy(p)
    /\ routing_table' = RoutingTablesAfter(p)
    /\ fault' = ShutdownFault(p)
    /\ answers' = ShutdownAnswers(p)
    /\ element_table' = [path \in Paths |->
            IF element_table[path] # NoElement /\ element_table[path].peer = p
            THEN NoElement ELSE element_table[path]]
    /\ peer_list' = peer_list \ {p}
    /\ freed_peers' = freed_peers \cup {p}
    /\ UNCHANGED <<uuid, request, timerfd, batch, failures>>

-----------------------------------------------------------------------------
SetOrCall(p, path, what, origin) ==
    \/ SetOrCallRejected(p, path, what, origin)
    \/ SetOrCallAborted(p, path, what, origin)
    \/ SetOrCallRouted(p, path, what, origin)
    \/ SetOrCallUnrendered(p, path, what, origin)

Next ==
    \/ \E p \in Peers :
        \/ InitPeer(p)
        \/ \E path \in Paths, kind \in ElementKinds : AddElement(p, path, kind)
        \/ \E path \in Paths : RemoveElement(p, path)
        \/ \E path \in Paths, what \in Types, origin \in BOOLEAN :
              SetOrCall(p, path, what, origin)
        \/ \E r \in Requests : HandleRoutingResponse(p, r)
        \/ Disconnect(p)
        \/ FreePeerResources(p)
    \/ \E events \in SUBSET armed : EpollWait(events)
    \/ \E r \in Requests : RequestTimeout(r)

Spec == Init /\ [][Next]_vars

\* The loop works off its batch and returns to epoll_wait, an armed timer
\* expires, and a handler that has begun to close a peer finishes.
Fairness ==
    /\ \A r \in Requests :
        /\ WF_vars(\E events \in SUBSET armed : r \in events /\ EpollWait(events))
        /\ WF_vars(RequestTimeout(r))
    /\ \A p \in Peers : WF_vars(FreePeerResources(p))

FairSpec == Spec /\ Fairness

-----------------------------------------------------------------------------
(***************************************************************************)
(* Properties.  `fault' stops the model: what an access to freed memory    *)
(* does next is undefined, so the invariants speak of the states before.   *)
(***************************************************************************)

\* Every variable has its type.
TypeOK ==
    /\ peer_list \subseteq Peers
    /\ freed_peers \subseteq Peers
    /\ closing \in Peers \cup {NoPeer}
    /\ element_table \in [Paths -> Element \cup {NoElement}]
    /\ uuid \in 0 .. MaxRequests
    /\ request \in [Requests -> RequestRecord]
    /\ allocated \subseteq Requests
    /\ routing_table \in [Peers -> SUBSET Requests]
    /\ armed \subseteq Requests
    /\ timerfd \subseteq Requests
    /\ batch \subseteq Requests
    /\ answers \in [Requests -> Seq(AnswerKinds)]
    /\ failures \in 0 .. MaxFailures
    /\ fault \in FaultKinds

\* A routing table holds only requests whose memory is allocated, that were
\* routed to the table's owner, and whose owner and requester are both
\* connected: handle_routing_response and clear_routing_entry may follow
\* the pointers of any entry they find.
RegisteredRequestsSound ==
    fault = "none" =>
        \A p \in Peers : \A r \in routing_table[p] :
            /\ r \in allocated
            /\ request[r].owner_peer = p
            /\ p \in peer_list
            /\ request[r].requesting_peer \in peer_list

\* The requests with a running timer are exactly the allocated ones: no
\* timer refers to a freed request, and no request, registered or not, can
\* be forgotten by its timer.
TimersMatchRequests ==
    fault = "none" => armed = allocated

\* A requester gets at most one answer to a set or call, whichever of
\* response, timeout and shutdown comes first, and none for a request
\* without id.  The exception is the request that could not be sent to the
\* owner: its entry and timer stay, so a second answer can follow the error.
AnsweredAtMostOnce ==
    \A r \in Requests :
        /\ ~ request[r].origin => answers[r] = << >>
        /\ Len(answers[r]) > 1 =>
               /\ Len(answers[r]) = 2
               /\ answers[r][1] = "send_failed"

\* The only ways to an access of freed memory: a timer event of a batch of
\* several events outlives its request, a message cannot be rendered, a
\* websocket peer departs with requests of its own, or a request that had
\* lost its routing table entry while pending outlives one of its peers.
FaultsExplained ==
    /\ fault = "stale_event" => MaxEvents > 1
    /\ fault = "dangling_entry" => failures > 0
    /\ fault = "freed_connection" => freed_peers \cap WsPeers # {}
    /\ fault = "freed_peer" =>
           /\ freed_peers # {}
           /\ \E r \in allocated : \A p \in Peers : r \notin routing_table[p]

\* Only peers that depart do harm to the requests of others: a pending request
\* is missing from its owner's routing table only if some peer has gone
\* before, and a timer descriptor stays open in the event loop when its request
\* ends only if a peer goes (free_routing_tables, clear_routing_entry).
OnlyDeparturesDamage ==
    /\ [](\A r \in allocated :
             fault = "none" /\ freed_peers = {}
                 => r \in routing_table[request[r].owner_peer])
    /\ [][\A r \in allocated : r \notin allocated' /\ r \in timerfd'
             => peer_list' # peer_list]_vars

\* When a peer departs, every other connected peer that still waits for it
\* and gave an id is answered.
OwnerShutdownAnswers ==
    [][\A p \in peer_list \ peer_list' :
          \A r \in allocated :
             /\ request[r].owner_peer = p
             /\ request[r].origin
             /\ request[r].requesting_peer \in peer_list \ {p}
                => Len(answers'[r]) > Len(answers[r])]_vars

\* Every routed request ends: its response, its timer or a departing peer
\* frees it (or the program has read freed memory before); and one that is
\* over was answered, if it had an id and nothing failed on the way
\* (handle_routing_response, request_timeout_handler, send_shutdown_response).
RequestsEndAnswered ==
    /\ \A r \in Requests :
          r \in allocated ~> (r \notin allocated \/ fault # "none")
    /\ [](failures = 0 /\ fault = "none" =>
             \A r \in Requests :
                 r < uuid /\ r \notin allocated /\ request[r].origin
                     => answers[r] # << >>)

-----------------------------------------------------------------------------
\* What the invariants above rest on: the peer about to be closed and the
\* owners of elements are connected, the requests not yet allocated are
\* blank, and a pending request has had no answer but the error of a failed
\* send.
RouterInv ==
    /\ closing \in peer_list \cup {NoPeer}
    /\ \A path \in Paths :
          element_table[path] # NoElement
              => element_table[path].peer \in peer_list
    /\ \A r \in Requests : r >= uuid =>
          /\ r \notin allocated
          /\ answers[r] = << >>
          /\ ~ request[r].origin
    /\ fault = "none" =>
          \A r \in allocated :
              /\ request[r].owner_peer \in Peers
              /\ answers[r] \in {<< >>, <<"send_failed">>}
    /\ RegisteredRequestsSound
    /\ TimersMatchRequests
    /\ AnsweredAtMostOnce

\* As long as nobody has gone, every pending request can be found by its
\* owner; and where epoll_wait returns one event at a time, no handler runs
\* between the return of an expiry and its own, so that it is not stale.
\* What the two properties about departures rest on.
EntriesKept ==
    fault = "none" /\ freed_peers = {} =>
        \A r \in allocated : r \in routing_table[request[r].owner_peer]

ExpiriesFresh ==
    fault = "none" /\ MaxEvents = 1 =>
        /\ batch \subseteq allocated
        /\ batch # {} => closing = NoPeer

DepartureInv == EntriesKept /\ ExpiriesFresh /\ FaultsExplained
=============================================================================
