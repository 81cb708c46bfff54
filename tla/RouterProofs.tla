---------------------------- MODULE RouterProofs ----------------------------
(***************************************************************************)
(* Proofs about the routing of requests and the tables it is kept in.      *)
(*                                                                         *)
(* Router: for every set of peers and paths, every bound on the requests   *)
(* and failures, and every batch and table size.                           *)
(*                                                                         *)
(* Hashtable: for tables of every size, every hop range, every set of keys *)
(* and every hash function.                                                *)
(***************************************************************************)
EXTENDS Router, Hashtable, FiniteSetTheorems, WellFoundedInduction, TLAPS

\* Every variable keeps its type.
LEMMA TypeInit == Init => TypeOK
  BY ConstantsAssumption
  DEF ConstantsAssumption, Init, TypeOK, Requests, RequestRecord, AnswerKinds,
      FaultKinds

\* An answer to some requests keeps the type of the answer sequences.
LEMMA AnsweredType ==
  ASSUME answers \in [Requests -> Seq(AnswerKinds)],
         NEW k \in AnswerKinds, NEW rs
  PROVE  Answered(k, rs) \in [Requests -> Seq(AnswerKinds)]
<1>1. \A r \in Requests : Append(answers[r], k) \in Seq(AnswerKinds)
  OBVIOUS
<1> QED BY <1>1 DEF Answered

\* Failure counting stays within its bound.
LEMMA SendResponseType ==
  ASSUME NEW p \in Peers, NEW origin \in BOOLEAN, NEW failed \in {0, 1},
         failures \in 0 .. MaxFailures, failed = 1 => failures < MaxFailures,
         closing \in Peers \cup {NoPeer},
         SendResponse(p, origin, failed)
  PROVE  /\ failures' \in 0 .. MaxFailures
         /\ closing' \in {closing, p}
  BY ConstantsAssumption DEF ConstantsAssumption, SendResponse

\* The uuid and the request table after an allocation.
LEMMA AllocType ==
  ASSUME TypeOK, NEW p \in Peers, NEW owner \in Peers, NEW origin \in BOOLEAN,
         AllocRoutingRequest(p, owner, origin)
  PROVE  /\ uuid' \in 0 .. MaxRequests
         /\ request' \in [Requests -> RequestRecord]
         /\ uuid \in Requests
<1>1. uuid \in Requests /\ uuid' \in 0 .. MaxRequests
  BY ConstantsAssumption
  DEF ConstantsAssumption, TypeOK, Requests, AllocRoutingRequest
<1>2. request' \in [Requests -> RequestRecord]
  BY <1>1 DEF TypeOK, AllocRoutingRequest, RequestRecord
<1> QED BY <1>1, <1>2

\* A routable path has an element, and its owner is a peer.
LEMMA RoutableOwner ==
  ASSUME TypeOK, NEW p \in Peers, NEW path \in Paths, NEW what \in Types,
         Routable(p, path, what)
  PROVE  element_table[path] \in Element /\ element_table[path].peer \in Peers
  BY DEF TypeOK, Routable, Element

-----------------------------------------------------------------------------
\* No step takes a variable out of its type.
LEMMA TypeStep == TypeOK /\ [Next]_vars => TypeOK'
<1> SUFFICES ASSUME TypeOK, [Next]_vars PROVE TypeOK'
  OBVIOUS
<1> USE ConstantsAssumption DEF ConstantsAssumption
<1>1. CASE UNCHANGED vars
  BY <1>1 DEF vars, TypeOK
<1>2. ASSUME NEW p \in Peers, InitPeer(p) PROVE TypeOK'
  BY <1>2 DEF InitPeer, TypeOK
<1>3. ASSUME NEW p \in Peers, NEW path \in Paths, NEW kind \in ElementKinds,
             AddElement(p, path, kind)
      PROVE  TypeOK'
  <2>1. [peer |-> p, type |-> kind.type, fetch_only |-> kind.fetch_only,
         restricted |-> kind.restricted] \in Element
    BY DEF Element
  <2>2. element_table' \in [Paths -> Element \cup {NoElement}]
    BY <1>3, <2>1 DEF AddElement, TypeOK
  <2> QED BY <1>3, <2>2 DEF AddElement, TypeOK
<1>4. ASSUME NEW p \in Peers, NEW path \in Paths, RemoveElement(p, path)
      PROVE  TypeOK'
  BY <1>4 DEF RemoveElement, TypeOK
<1>5. ASSUME NEW p \in Peers, NEW path \in Paths, NEW what \in Types,
             NEW origin \in BOOLEAN, SetOrCallRejected(p, path, what, origin)
      PROVE  TypeOK'
  <2>1. /\ failures' \in 0 .. MaxFailures
        /\ closing' \in {closing, p}
    BY <1>5, SendResponseType DEF SetOrCallRejected, TypeOK
  <2> QED BY <1>5, <2>1 DEF SetOrCallRejected, TypeOK
<1>6. ASSUME NEW p \in Peers, NEW path \in Paths, NEW what \in Types,
             NEW origin \in BOOLEAN, SetOrCallAborted(p, path, what, origin)
      PROVE  TypeOK'
  <2>1. element_table[path].peer \in Peers
    BY <1>6, RoutableOwner DEF SetOrCallAborted
  <2>2. /\ uuid' \in 0 .. MaxRequests
        /\ request' \in [Requests -> RequestRecord]
        /\ uuid \in Requests
    BY <1>6, <2>1, AllocType DEF SetOrCallAborted
  <2>3. failures' \in 0 .. MaxFailures /\ closing' \in {closing, p}
    BY <1>6, SendResponseType DEF SetOrCallAborted, TypeOK
  <2>4. answers' \in [Requests -> Seq(AnswerKinds)]
    BY <1>6, AnsweredType DEF SetOrCallAborted, TypeOK, AnswerKinds
  <2> QED BY <1>6, <2>2, <2>3, <2>4 DEF SetOrCallAborted, TypeOK
<1>7. ASSUME NEW p \in Peers, NEW path \in Paths, NEW what \in Types,
             NEW origin \in BOOLEAN, SetOrCallRouted(p, path, what, origin)
      PROVE  TypeOK'
  <2>1. element_table[path].peer \in Peers
    BY <1>7, RoutableOwner DEF SetOrCallRouted
  <2>2. /\ uuid' \in 0 .. MaxRequests
        /\ request' \in [Requests -> RequestRecord]
        /\ uuid \in Requests
    BY <1>7, <2>1, AllocType DEF SetOrCallRouted
  <2>3. failures' \in 0 .. MaxFailures /\ closing' \in {closing, p}
    BY <1>7, SendResponseType DEF SetOrCallRouted, TypeOK
  <2>4. answers' \in [Requests -> Seq(AnswerKinds)]
    BY <1>7, AnsweredType DEF SetOrCallRouted, TypeOK, AnswerKinds
  <2>5. routing_table' \in [Peers -> SUBSET Requests]
    BY <1>7, <2>1, <2>2 DEF SetOrCallRouted, SetupRoutingInformation, TypeOK
  <2> QED BY <1>7, <2>2, <2>3, <2>4, <2>5
          DEF SetOrCallRouted, SetupRoutingInformation, TypeOK
<1>8. ASSUME NEW p \in Peers, NEW path \in Paths, NEW what \in Types,
             NEW origin \in BOOLEAN, SetOrCallUnrendered(p, path, what, origin)
      PROVE  TypeOK'
  <2>1. element_table[path].peer \in Peers
    BY <1>8, RoutableOwner DEF SetOrCallUnrendered
  <2>2. /\ uuid' \in 0 .. MaxRequests
        /\ request' \in [Requests -> RequestRecord]
        /\ uuid \in Requests
    BY <1>8, <2>1, AllocType DEF SetOrCallUnrendered
  <2>3. failures' \in 0 .. MaxFailures /\ closing' \in {closing, p}
    BY <1>8, SendResponseType DEF SetOrCallUnrendered, TypeOK
  <2>4. answers' \in [Requests -> Seq(AnswerKinds)]
    BY <1>8, AnsweredType DEF SetOrCallUnrendered, TypeOK, AnswerKinds
  <2>5. routing_table' \in [Peers -> SUBSET Requests]
    BY <1>8, <2>1, <2>2 DEF SetOrCallUnrendered, SetupRoutingInformation, TypeOK
  <2> QED BY <1>8, <2>2, <2>3, <2>4, <2>5
          DEF SetOrCallUnrendered, SetupRoutingInformation, TypeOK, FaultKinds
<1>9. ASSUME NEW p \in Peers, NEW r \in Requests, HandleRoutingResponse(p, r)
      PROVE  TypeOK'
  <2>1. CASE r \notin routing_table[p]
    BY <1>9, <2>1 DEF HandleRoutingResponse, TypeOK
  <2>2. CASE r \in routing_table[p]
    <3>1. Forward(p, r)
      BY <1>9, <2>2 DEF HandleRoutingResponse
    <3>2. answers' \in [Requests -> Seq(AnswerKinds)]
      BY <3>1, AnsweredType DEF Forward, TypeOK, AnswerKinds
    <3>3. /\ failures' \in 0 .. MaxFailures
          /\ closing' \in Peers \cup {NoPeer}
          /\ fault' \in FaultKinds
      BY <3>1 DEF Forward, TypeOK, FaultKinds
    <3> QED BY <1>9, <3>1, <3>2, <3>3
            DEF HandleRoutingResponse, Forward, EndRequest, TypeOK
  <2> QED BY <2>1, <2>2
<1>10. ASSUME NEW p \in Peers, Disconnect(p) PROVE TypeOK'
  BY <1>10 DEF Disconnect, TypeOK
<1>11. ASSUME NEW p \in Peers, FreePeerResources(p) PROVE TypeOK'
  <2>1. answers' \in [Requests -> Seq(AnswerKinds)]
    BY <1>11, AnsweredType
    DEF FreePeerResources, ShutdownAnswers, TypeOK, AnswerKinds
  <2>2. fault' \in FaultKinds
    BY <1>11 DEF FreePeerResources, ShutdownFault, FaultKinds
  <2>3. element_table' \in [Paths -> Element \cup {NoElement}]
    BY <1>11 DEF FreePeerResources, TypeOK
  <2>4. routing_table' \in [Peers -> SUBSET Requests]
    BY <1>11 DEF FreePeerResources, RoutingTablesAfter, TypeOK
  <2> QED BY <1>11, <2>1, <2>2, <2>3, <2>4 DEF FreePeerResources, TypeOK
<1>12. ASSUME NEW events \in SUBSET armed, EpollWait(events) PROVE TypeOK'
  BY <1>12 DEF EpollWait, TypeOK
<1>13. ASSUME NEW r \in Requests, RequestTimeout(r) PROVE TypeOK'
  <2>1. answers' \in [Requests -> Seq(AnswerKinds)]
    BY <1>13, AnsweredType DEF RequestTimeout, TypeOK, AnswerKinds
  <2>2. fault' \in FaultKinds
    BY <1>13 DEF RequestTimeout, TypeOK, FaultKinds
  <2>3. routing_table' \in [Peers -> SUBSET Requests]
    BY <1>13 DEF RequestTimeout, TypeOK
  <2> QED BY <1>13, <2>1, <2>2, <2>3 DEF RequestTimeout, EndRequest, TypeOK
<1> QED
  BY <1>1, <1>2, <1>3, <1>4, <1>5, <1>6, <1>7, <1>8, <1>9, <1>10, <1>11,
     <1>12, <1>13
  DEF Next, SetOrCall

\* The router keeps the type of its state: whatever the peers send and
\* whatever fails, request and timer bookkeeping stays within its domains.
THEOREM TypeCorrect == Spec => []TypeOK
<1>1. Init => TypeOK
  BY TypeInit
<1>2. TypeOK /\ [Next]_vars => TypeOK'
  BY TypeStep
<1> QED BY <1>1, <1>2, PTL DEF Spec

-----------------------------------------------------------------------------
\* The inductive invariant holds initially.
LEMMA InvInit == Init => RouterInv
  BY ConstantsAssumption
  DEF ConstantsAssumption, Init, RouterInv, RegisteredRequestsSound,
      TimersMatchRequests, AnsweredAtMostOnce, Requests

\* A pending request with one more answer still has at most two, and the
\* second one only after the error of a failed send.
LEMMA AnsweredOnceMore ==
  ASSUME TypeOK, RouterInv, fault = "none", NEW k \in AnswerKinds,
         NEW rs \in SUBSET allocated, answers' = Answered(k, WithId(rs)),
         request' = request
  PROVE  AnsweredAtMostOnce'
<1> SUFFICES ASSUME NEW r \in Requests
             PROVE  /\ ~ request'[r].origin => answers'[r] = << >>
                    /\ Len(answers'[r]) > 1 =>
                          /\ Len(answers'[r]) = 2
                          /\ answers'[r][1] = "send_failed"
  BY DEF AnsweredAtMostOnce
<1>1. CASE r \notin WithId(rs)
  BY <1>1 DEF Answered, RouterInv, AnsweredAtMostOnce
<1>2. CASE r \in WithId(rs)
  <2>1. request[r].origin /\ answers[r] \in {<< >>, <<"send_failed">>}
    BY <1>2 DEF WithId, RouterInv
  <2>2. answers'[r] = Append(answers[r], k)
    BY <1>2 DEF Answered
  <2>3. CASE answers[r] = << >>
    BY <2>1, <2>2, <2>3
  <2>4. CASE answers[r] = <<"send_failed">>
    BY <2>1, <2>2, <2>4
  <2> QED BY <2>1, <2>3, <2>4
<1> QED BY <1>1, <1>2

\* The requests a departing peer clears are allocated.
LEMMA ClearedAllocated ==
  ASSUME TypeOK, RouterInv, fault = "none", NEW p \in Peers
  PROVE  ClearedBy(p) \subseteq allocated
  BY DEF ClearedBy, TypeOK, RouterInv, RegisteredRequestsSound

\* A new request starts blank and gets at most one answer from set_or_call.
LEMMA NewRequestAnswers ==
  ASSUME TypeOK, RouterInv, NEW p \in Peers, NEW owner \in Peers,
         NEW origin \in BOOLEAN, NEW k \in AnswerKinds,
         AllocRoutingRequest(p, owner, origin),
         answers' \in {answers, Answered(k, IF origin THEN {uuid} ELSE {})}
  PROVE  /\ AnsweredAtMostOnce'
         /\ answers'[uuid] \in {<< >>, <<k>>}
         /\ \A r \in Requests : r # uuid => /\ answers'[r] = answers[r]
                                            /\ request'[r] = request[r]
         /\ request'[uuid] = [requesting_peer |-> p, owner_peer |-> owner,
                              origin |-> origin]
         /\ \A r \in Requests : r >= uuid' => r >= uuid /\ r # uuid
<1> USE ConstantsAssumption DEF ConstantsAssumption
<1>1. /\ uuid \in Requests /\ uuid \notin allocated /\ answers[uuid] = << >>
      /\ ~ request[uuid].origin
      /\ uuid' = uuid + 1
  BY AllocType DEF AllocRoutingRequest, RouterInv, TypeOK, Requests
<1>2. /\ request'[uuid] = [requesting_peer |-> p, owner_peer |-> owner,
                           origin |-> origin]
      /\ \A r \in Requests : r # uuid => request'[r] = request[r]
  BY <1>1 DEF AllocRoutingRequest, TypeOK
<1>3. \A r \in Requests : r # uuid => answers'[r] = answers[r]
  BY DEF Answered
<1>4. answers'[uuid] \in {<< >>, <<k>>} /\ (~ origin => answers'[uuid] = << >>)
  <2>1. Append(<< >>, k) = <<k>>
    OBVIOUS
  <2>2. CASE answers' = answers
    BY <1>1, <2>2
  <2>3. CASE answers' = Answered(k, IF origin THEN {uuid} ELSE {})
    BY <1>1, <2>1, <2>3 DEF Answered
  <2> QED BY <2>2, <2>3
<1>5. \A r \in Requests : r >= uuid' => r >= uuid /\ r # uuid
  BY <1>1 DEF Requests, TypeOK
<1>6. AnsweredAtMostOnce'
  <2> SUFFICES ASSUME NEW r \in Requests
               PROVE  /\ ~ request'[r].origin => answers'[r] = << >>
                      /\ Len(answers'[r]) > 1 =>
                            /\ Len(answers'[r]) = 2
                            /\ answers'[r][1] = "send_failed"
    BY DEF AnsweredAtMostOnce
  <2>1. CASE r # uuid
    BY <2>1, <1>2, <1>3 DEF RouterInv, AnsweredAtMostOnce
  <2>2. CASE r = uuid
    <3>1. ~ (Len(<< >>) > 1) /\ ~ (Len(<<k>>) > 1)
      OBVIOUS
    <3>3. ~ request'[r].origin => answers'[r] = << >>
      BY <2>2, <1>2, <1>4
    <3>4. ~ (Len(answers'[r]) > 1)
      <4>1. CASE answers'[r] = << >>
        BY ONLY <4>1, <3>1
      <4>2. CASE answers'[r] = <<k>>
        BY ONLY <4>2, <3>1
      <4> QED BY <1>4, <2>2, <4>1, <4>2
    <3> QED BY <3>3, <3>4
  <2> QED BY <2>1, <2>2
<1> QED BY <1>1, <1>2, <1>3, <1>4, <1>5, <1>6

\* Every step keeps the inductive invariant.
LEMMA InvStep == TypeOK /\ RouterInv /\ [Next]_vars => RouterInv'
<1> SUFFICES ASSUME TypeOK, RouterInv, [Next]_vars PROVE RouterInv'
  OBVIOUS
<1> USE ConstantsAssumption DEF ConstantsAssumption
<1>1. CASE UNCHANGED vars
  BY <1>1 DEF vars, RouterInv, RegisteredRequestsSound, TimersMatchRequests,
              AnsweredAtMostOnce
<1>2. ASSUME NEW p \in Peers, InitPeer(p) PROVE RouterInv'
  BY <1>2 DEF InitPeer, RouterInv, RegisteredRequestsSound,
              TimersMatchRequests, AnsweredAtMostOnce, TypeOK
<1>3. ASSUME NEW p \in Peers, NEW path \in Paths, NEW kind \in ElementKinds,
             AddElement(p, path, kind)
      PROVE  RouterInv'
  <2>1. \A q \in Paths : element_table'[q] # NoElement
                            => element_table'[q].peer \in peer_list'
    BY <1>3 DEF AddElement, PeerEvent, RouterInv, TypeOK
  <2> QED BY <1>3, <2>1 DEF AddElement, RouterInv, RegisteredRequestsSound,
                            TimersMatchRequests, AnsweredAtMostOnce
<1>4. ASSUME NEW p \in Peers, NEW path \in Paths, RemoveElement(p, path)
      PROVE  RouterInv'
  <2>1. \A q \in Paths : element_table'[q] # NoElement
                            => element_table'[q].peer \in peer_list'
    BY <1>4 DEF RemoveElement, RouterInv, TypeOK
  <2> QED BY <1>4, <2>1 DEF RemoveElement, RouterInv, RegisteredRequestsSound,
                            TimersMatchRequests, AnsweredAtMostOnce
<1>5. ASSUME NEW p \in Peers, NEW path \in Paths, NEW what \in Types,
             NEW origin \in BOOLEAN, SetOrCallRejected(p, path, what, origin)
      PROVE  RouterInv'
  <2>1. closing' \in peer_list' \cup {NoPeer}
    BY <1>5 DEF SetOrCallRejected, SendResponse, PeerEvent, RouterInv
  <2> QED BY <1>5, <2>1 DEF SetOrCallRejected, RouterInv,
             RegisteredRequestsSound, TimersMatchRequests, AnsweredAtMostOnce
<1>6. ASSUME NEW p \in Peers, NEW path \in Paths, NEW what \in Types,
             NEW origin \in BOOLEAN, SetOrCallAborted(p, path, what, origin)
      PROVE  RouterInv'
  <2> DEFINE owner == element_table[path].peer
  <2>1. owner \in Peers
    BY <1>6, RoutableOwner DEF SetOrCallAborted
  <2>2. /\ AnsweredAtMostOnce'
        /\ \A r \in Requests : r # uuid => /\ answers'[r] = answers[r]
                                           /\ request'[r] = request[r]
        /\ \A r \in Requests : r >= uuid' => r >= uuid /\ r # uuid
    BY <1>6, <2>1, NewRequestAnswers DEF SetOrCallAborted, AnswerKinds
  <2>3. closing' \in peer_list' \cup {NoPeer}
    BY <1>6 DEF SetOrCallAborted, SendResponse, PeerEvent, RouterInv
  <2>4. \A r \in Requests : r >= uuid' =>
           /\ r \notin allocated'
           /\ answers'[r] = << >>
           /\ ~ request'[r].origin
    BY <1>6, <2>2 DEF SetOrCallAborted, RouterInv
  <2>5. \A r \in allocated : r \in Requests /\ r # uuid
    BY <1>6, <2>1, AllocType DEF SetOrCallAborted, RouterInv, TypeOK
  <2>6. RegisteredRequestsSound'
    BY <1>6, <2>2, <2>5
    DEF SetOrCallAborted, RouterInv, RegisteredRequestsSound, TypeOK
  <2>7. fault' = "none" =>
          \A r \in allocated' :
              /\ request'[r].owner_peer \in Peers
              /\ answers'[r] \in {<< >>, <<"send_failed">>}
    BY <1>6, <2>2, <2>5 DEF SetOrCallAborted, RouterInv
  <2> QED BY <1>6, <2>2, <2>3, <2>4, <2>6, <2>7
          DEF SetOrCallAborted, RouterInv, TimersMatchRequests
<1>7. ASSUME NEW p \in Peers, NEW path \in Paths, NEW what \in Types,
             NEW origin \in BOOLEAN, SetOrCallRouted(p, path, what, origin)
      PROVE  RouterInv'
  <2> DEFINE owner == element_table[path].peer
  <2>0. fault = "none" /\ p \in peer_list
    BY <1>7 DEF SetOrCallRouted, PeerEvent, Running
  <2>1. owner \in Peers /\ owner \in peer_list
    BY <1>7, RoutableOwner DEF SetOrCallRouted, Routable, RouterInv
  <2>2. /\ AnsweredAtMostOnce'
        /\ answers'[uuid] \in {<< >>, <<"send_failed">>}
        /\ \A r \in Requests : r # uuid => /\ answers'[r] = answers[r]
                                           /\ request'[r] = request[r]
        /\ request'[uuid] = [requesting_peer |-> p, owner_peer |-> owner,
                             origin |-> origin]
        /\ \A r \in Requests : r >= uuid' => r >= uuid /\ r # uuid
    BY <1>7, <2>1, NewRequestAnswers DEF SetOrCallRouted, AnswerKinds
  <2>3. closing' \in peer_list' \cup {NoPeer}
    BY <1>7 DEF SetOrCallRouted, SendResponse, PeerEvent, RouterInv
  <2>4. uuid \in Requests /\ allocated' = allocated \cup {uuid}
    BY <1>7, <2>1, AllocType DEF SetOrCallRouted
  <2>5. \A r \in allocated : r \in Requests /\ r # uuid
    BY <2>4 DEF RouterInv, TypeOK, Requests
  <2>6. \A r \in Requests : r >= uuid' =>
           /\ r \notin allocated'
           /\ answers'[r] = << >>
           /\ ~ request'[r].origin
    BY <1>7, <2>2, <2>4 DEF RouterInv, TypeOK, Requests
  <2>7. RegisteredRequestsSound'
    <3> SUFFICES ASSUME NEW q \in Peers, NEW r \in routing_table'[q]
                 PROVE  /\ r \in allocated'
                        /\ request'[r].owner_peer = q
                        /\ q \in peer_list'
                        /\ request'[r].requesting_peer \in peer_list'
      BY DEF RegisteredRequestsSound
    <3>1. CASE r \in routing_table[q]
      BY <1>7, <2>0, <2>2, <2>4, <2>5, <3>1
      DEF SetOrCallRouted, RouterInv, RegisteredRequestsSound
    <3>2. CASE r \notin routing_table[q]
      <4>1. r = uuid /\ q = owner
        BY <1>7, <2>1, <3>2
        DEF SetOrCallRouted, SetupRoutingInformation, TypeOK
      <4> QED BY <1>7, <2>0, <2>1, <2>2, <2>4, <4>1 DEF SetOrCallRouted
    <3> QED BY <3>1, <3>2
  <2>8. \A r \in allocated' :
              /\ request'[r].owner_peer \in Peers
              /\ answers'[r] \in {<< >>, <<"send_failed">>}
    BY <2>0, <2>1, <2>2, <2>4, <2>5 DEF RouterInv
  <2>9. TimersMatchRequests'
    BY <1>7, <2>0, <2>4 DEF SetOrCallRouted, SetupRoutingInformation,
                            RouterInv, TimersMatchRequests
  <2> QED BY <1>7, <2>2, <2>3, <2>6, <2>7, <2>8, <2>9
          DEF SetOrCallRouted, RouterInv
<1>8. ASSUME NEW p \in Peers, NEW path \in Paths, NEW what \in Types,
             NEW origin \in BOOLEAN, SetOrCallUnrendered(p, path, what, origin)
      PROVE  RouterInv'
  <2> DEFINE owner == element_table[path].peer
  <2>1. owner \in Peers
    BY <1>8, RoutableOwner DEF SetOrCallUnrendered
  <2>2. /\ AnsweredAtMostOnce'
        /\ \A r \in Requests : r # uuid => /\ answers'[r] = answers[r]
                                           /\ request'[r] = request[r]
        /\ \A r \in Requests : r >= uuid' => r >= uuid /\ r # uuid
    BY <1>8, <2>1, NewRequestAnswers DEF SetOrCallUnrendered, AnswerKinds
  <2>3. closing' \in peer_list' \cup {NoPeer}
    BY <1>8 DEF SetOrCallUnrendered, SendResponse, PeerEvent, RouterInv
  <2>4. \A r \in Requests : r >= uuid' =>
           /\ r \notin allocated'
           /\ answers'[r] = << >>
           /\ ~ request'[r].origin
    BY <1>8, <2>2 DEF SetOrCallUnrendered, RouterInv
  <2> QED BY <1>8, <2>2, <2>3, <2>4
          DEF SetOrCallUnrendered, RouterInv, RegisteredRequestsSound,
              TimersMatchRequests
<1>9. ASSUME NEW p \in Peers, NEW r \in Requests, HandleRoutingResponse(p, r)
      PROVE  RouterInv'
  <2>0. fault = "none" /\ p \in peer_list /\ request' = request
    BY <1>9 DEF HandleRoutingResponse, PeerEvent, Running
  <2>1. CASE r \notin routing_table[p]
    BY <1>9, <2>1 DEF HandleRoutingResponse, RouterInv,
       RegisteredRequestsSound, TimersMatchRequests, AnsweredAtMostOnce
  <2>2. CASE r \in routing_table[p]
    <3>1. Forward(p, r)
      BY <1>9, <2>2 DEF HandleRoutingResponse
    <3>2. r \in allocated /\ request[r].owner_peer = p
      BY <2>0, <2>2 DEF RouterInv, RegisteredRequestsSound
    <3>3. AnsweredAtMostOnce'
      <4>1. CASE answers' = answers
        BY <2>0, <4>1 DEF RouterInv, AnsweredAtMostOnce
      <4>2. CASE answers' = Answered("result", WithId({r}))
        BY <2>0, <3>2, <4>2, AnsweredOnceMore DEF AnswerKinds
      <4> QED BY <3>1, <4>1, <4>2 DEF Forward
    <3>4. /\ allocated' = allocated \ {r}
          /\ armed' = armed \ {r}
          /\ routing_table' = [routing_table EXCEPT ![p] = @ \ {r}]
      BY <3>1 DEF Forward, EndRequest
    <3>5. \A q \in Requests : q # r => answers'[q] = answers[q]
      BY <3>1 DEF Forward, Answered, WithId
    <3>6. RegisteredRequestsSound'
      <4> SUFFICES ASSUME NEW q \in Peers, NEW s \in routing_table'[q]
                   PROVE  /\ s \in allocated'
                          /\ request'[s].owner_peer = q
                          /\ q \in peer_list'
                          /\ request'[s].requesting_peer \in peer_list'
        BY DEF RegisteredRequestsSound
      <4>1. s \in routing_table[q] /\ s # r
        BY <2>0, <3>2, <3>4 DEF TypeOK, RouterInv, RegisteredRequestsSound
      <4> QED BY <1>9, <2>0, <3>4, <4>1
              DEF HandleRoutingResponse, RouterInv, RegisteredRequestsSound
    <3>7. closing' \in peer_list' \cup {NoPeer}
      BY <1>9, <2>0, <3>1 DEF HandleRoutingResponse, Forward, RouterInv
    <3>8. \A q \in Requests : q >= uuid' =>
             /\ q \notin allocated'
             /\ answers'[q] = << >>
             /\ ~ request'[q].origin
      BY <1>9, <2>0, <3>2, <3>4, <3>5
      DEF HandleRoutingResponse, RouterInv, TypeOK, Requests
    <3>9. \A q \in allocated' :
              /\ request'[q].owner_peer \in Peers
              /\ answers'[q] \in {<< >>, <<"send_failed">>}
      BY <2>0, <3>4, <3>5 DEF RouterInv, TypeOK
    <3>10. TimersMatchRequests'
      BY <2>0, <3>4 DEF RouterInv, TimersMatchRequests
    <3>11. \A path \in Paths : element_table'[path] # NoElement
                => element_table'[path].peer \in peer_list'
      BY <1>9 DEF HandleRoutingResponse, RouterInv
    <3> QED BY <3>3, <3>6, <3>7, <3>8, <3>9, <3>10, <3>11 DEF RouterInv
  <2> QED BY <2>1, <2>2
<1>10. ASSUME NEW p \in Peers, Disconnect(p) PROVE RouterInv'
  BY <1>10 DEF Disconnect, PeerEvent, RouterInv, RegisteredRequestsSound,
               TimersMatchRequests, AnsweredAtMostOnce
<1>11. ASSUME NEW p \in Peers, FreePeerResources(p) PROVE RouterInv'
  <2>0. fault = "none" /\ request' = request /\ uuid' = uuid
    BY <1>11 DEF FreePeerResources
  <2>1. ClearedBy(p) \subseteq allocated
    BY <2>0, ClearedAllocated
  <2>2. /\ allocated' = allocated \ ClearedBy(p)
        /\ armed' = armed \ ClearedBy(p)
    BY <1>11 DEF FreePeerResources
  <2>3. AnsweredAtMostOnce'
    <3>1. CASE answers' = answers
      BY <2>0, <3>1 DEF RouterInv, AnsweredAtMostOnce
    <3>2. CASE answers' = Answered("shutdown", WithId(ClearedBy(p)))
      BY <2>0, <2>1, <3>2, AnsweredOnceMore DEF AnswerKinds
    <3> QED BY <1>11, <3>1, <3>2 DEF FreePeerResources, ShutdownAnswers
  <2>4. \A r \in Requests : r \notin ClearedBy(p) => answers'[r] = answers[r]
    BY <1>11 DEF FreePeerResources, ShutdownAnswers, Answered, WithId
  <2>5. \A q \in Peers : routing_table'[q] = {}
    BY <1>11, <2>0 DEF FreePeerResources, RoutingTablesAfter, RouterInv,
                       RegisteredRequestsSound, TypeOK
  <2>6. RegisteredRequestsSound'
    BY <2>5 DEF RegisteredRequestsSound
  <2>7. \A r \in Requests : r >= uuid' =>
           /\ r \notin allocated'
           /\ answers'[r] = << >>
           /\ ~ request'[r].origin
    BY <2>0, <2>1, <2>2, <2>4 DEF RouterInv
  <2>8. \A r \in allocated' :
              /\ request'[r].owner_peer \in Peers
              /\ answers'[r] \in {<< >>, <<"send_failed">>}
    BY <2>0, <2>2, <2>4 DEF RouterInv, TypeOK
  <2>9. TimersMatchRequests'
    BY <2>0, <2>2 DEF RouterInv, TimersMatchRequests
  <2>10. /\ closing' = NoPeer
         /\ \A path \in Paths : element_table'[path] # NoElement
                => element_table'[path].peer \in peer_list'
    BY <1>11 DEF FreePeerResources, RouterInv, TypeOK
  <2> QED BY <2>3, <2>6, <2>7, <2>8, <2>9, <2>10 DEF RouterInv
<1>12. ASSUME NEW events \in SUBSET armed, EpollWait(events) PROVE RouterInv'
  BY <1>12 DEF EpollWait, RouterInv, RegisteredRequestsSound,
               TimersMatchRequests, AnsweredAtMostOnce
<1>13. ASSUME NEW r \in Requests, RequestTimeout(r) PROVE RouterInv'
  <2>0. /\ fault = "none" /\ request' = request /\ uuid' = uuid
        /\ peer_list' = peer_list /\ closing' = closing
        /\ element_table' = element_table
    BY <1>13 DEF RequestTimeout, Running
  <2>1. CASE r \notin allocated \/ TimeoutReadsFreedPeer(r)
    BY <1>13, <2>0, <2>1 DEF RequestTimeout, RouterInv,
       RegisteredRequestsSound, TimersMatchRequests, AnsweredAtMostOnce
  <2>2. CASE ~ (r \notin allocated \/ TimeoutReadsFreedPeer(r))
    <3>1. /\ allocated' = allocated \ {r}
          /\ armed' = armed \ {r}
          /\ answers' = Answered("timeout", WithId({r}))
          /\ routing_table' = [routing_table EXCEPT
                                 ![request[r].owner_peer] = @ \ {r}]
          /\ request[r].owner_peer \in Peers
      BY <1>13, <2>0, <2>2 DEF RequestTimeout, EndRequest, RouterInv
    <3>2. AnsweredAtMostOnce'
      BY <2>0, <2>2, <3>1, AnsweredOnceMore DEF AnswerKinds
    <3>3. \A q \in Requests : q # r => answers'[q] = answers[q]
      BY <3>1 DEF Answered, WithId
    <3>4. RegisteredRequestsSound'
      <4> SUFFICES ASSUME NEW q \in Peers, NEW s \in routing_table'[q]
                   PROVE  /\ s \in allocated'
                          /\ request'[s].owner_peer = q
                          /\ q \in peer_list'
                          /\ request'[s].requesting_peer \in peer_list'
        BY DEF RegisteredRequestsSound
      <4>1. s \in routing_table[q] /\ s # r
        BY <2>0, <3>1 DEF TypeOK, RouterInv, RegisteredRequestsSound
      <4> QED BY <2>0, <3>1, <4>1 DEF RouterInv, RegisteredRequestsSound
    <3>5. \A q \in Requests : q >= uuid' =>
             /\ q \notin allocated'
             /\ answers'[q] = << >>
             /\ ~ request'[q].origin
      BY <2>0, <2>2, <3>1, <3>3 DEF RouterInv
    <3>6. \A q \in allocated' :
              /\ request'[q].owner_peer \in Peers
              /\ answers'[q] \in {<< >>, <<"send_failed">>}
      BY <2>0, <3>1, <3>3 DEF RouterInv, TypeOK
    <3>7. TimersMatchRequests'
      BY <2>0, <3>1 DEF RouterInv, TimersMatchRequests
    <3> QED BY <2>0, <3>2, <3>4, <3>5, <3>6, <3>7 DEF RouterInv
  <2> QED BY <2>1, <2>2
<1> QED
  BY <1>1, <1>2, <1>3, <1>4, <1>5, <1>6, <1>7, <1>8, <1>9, <1>10, <1>11,
     <1>12, <1>13
  DEF Next, SetOrCall

\* The inductive invariant holds in every reachable state.
THEOREM RouterInvariant == Spec => [](TypeOK /\ RouterInv)
<1>1. Init => TypeOK /\ RouterInv
  BY TypeInit, InvInit
<1>2. TypeOK /\ RouterInv /\ [Next]_vars => (TypeOK /\ RouterInv)'
  BY TypeStep, InvStep
<1> QED BY <1>1, <1>2, PTL DEF Spec

\* However many peers and requests there are, an entry of a routing table
\* always refers to an allocated request between two connected peers.
THEOREM RegisteredSound == Spec => []RegisteredRequestsSound
<1>1. RouterInv => RegisteredRequestsSound
  BY DEF RouterInv
<1> QED BY <1>1, RouterInvariant, PTL

\* The timers that can fire are those of the allocated requests.
THEOREM TimersSound == Spec => []TimersMatchRequests
<1>1. RouterInv => TimersMatchRequests
  BY DEF RouterInv
<1> QED BY <1>1, RouterInvariant, PTL

\* No request is answered twice unless its forwarding had failed.
THEOREM AnsweredOnce == Spec => []AnsweredAtMostOnce
<1>1. RouterInv => AnsweredAtMostOnce
  BY DEF RouterInv
<1> QED BY <1>1, RouterInvariant, PTL
-----------------------------------------------------------------------------
\* No handler of a peer runs while an expiry waits, where batches have one event.
LEMMA PeerEventBatch ==
  ASSUME TypeOK, NEW p \in Peers, PeerEvent(p), MaxEvents = 1
  PROVE  batch = {}
<1>1. IsFiniteSet(Requests)
  BY FS_Interval, ConstantsAssumption DEF Requests, ConstantsAssumption
<1>2. IsFiniteSet(batch)
  BY <1>1, FS_Subset DEF TypeOK
<1>3. Cardinality(batch) \in Nat /\ (Cardinality(batch) = 0 <=> batch = {})
  BY <1>2, FS_CardinalityType, FS_EmptySet
<1> QED BY <1>3 DEF PeerEvent

\* A request set_or_call registers is in the table of its owner, and no other
\* request moves.
LEMMA SetupKeepsEntries ==
  ASSUME TypeOK, RouterInv, EntriesKept, fault = "none", NEW p \in Peers,
         NEW owner \in Peers, NEW origin \in BOOLEAN,
         AllocRoutingRequest(p, owner, origin), SetupRoutingInformation(owner),
         allocated' \in {allocated, allocated \cup {uuid}}, freed_peers' = freed_peers
  PROVE  EntriesKept'
<1>1. uuid \in Requests /\ uuid \notin allocated
  BY AllocType DEF RouterInv, TypeOK, Requests
<1>2. /\ request'[uuid].owner_peer = owner
      /\ \A r \in Requests : r # uuid => request'[r] = request[r]
  BY <1>1 DEF AllocRoutingRequest, TypeOK
<1>3. uuid \in routing_table'[owner]
      /\ \A q \in Peers : routing_table[q] \subseteq routing_table'[q]
  BY DEF SetupRoutingInformation, TypeOK
<1>4. \A r \in allocated : r \in Requests /\ request[r].owner_peer \in Peers
  BY DEF RouterInv, TypeOK
<1> QED BY <1>1, <1>2, <1>3, <1>4 DEF EntriesKept

\* With an entry in some table, a request has both its peers: what an entry
\* leads to is never freed memory.
LEMMA EntryHasPeers ==
  ASSUME TypeOK, RouterInv, fault = "none", NEW q \in Peers, NEW r \in routing_table[q]
  PROVE  /\ r \in routing_table[request[r].owner_peer]
         /\ request[r].owner_peer \in peer_list
         /\ request[r].requesting_peer \in peer_list
  BY DEF RouterInv, RegisteredRequestsSound

\* The invariant of departures holds initially.
LEMMA DepartureInit == Init => DepartureInv
  BY DEF Init, DepartureInv, EntriesKept, ExpiriesFresh, FaultsExplained

\* Every step keeps it.
LEMMA DepartureStep ==
  TypeOK /\ RouterInv /\ DepartureInv /\ [Next]_vars => DepartureInv'
<1> SUFFICES ASSUME TypeOK, RouterInv, DepartureInv, [Next]_vars PROVE DepartureInv'
  OBVIOUS
<1> USE ConstantsAssumption DEF ConstantsAssumption, DepartureInv
<1>1. CASE UNCHANGED vars
  BY <1>1 DEF vars, EntriesKept, ExpiriesFresh, FaultsExplained
<1>2. ASSUME NEW p \in Peers, InitPeer(p) PROVE DepartureInv'
  BY <1>2 DEF InitPeer, Running, EntriesKept, ExpiriesFresh, FaultsExplained
<1>3. ASSUME NEW p \in Peers, NEW path \in Paths, NEW kind \in ElementKinds,
             AddElement(p, path, kind)
      PROVE  DepartureInv'
  BY <1>3 DEF AddElement, PeerEvent, Running, EntriesKept, ExpiriesFresh, FaultsExplained
<1>4. ASSUME NEW p \in Peers, NEW path \in Paths, RemoveElement(p, path)
      PROVE  DepartureInv'
  BY <1>4 DEF RemoveElement, PeerEvent, Running, EntriesKept, ExpiriesFresh, FaultsExplained
<1>5. ASSUME NEW p \in Peers, NEW path \in Paths, NEW what \in Types,
             NEW origin \in BOOLEAN, SetOrCallRejected(p, path, what, origin)
      PROVE  DepartureInv'
  <2>1. fault = "none" /\ (MaxEvents = 1 => batch = {})
    BY <1>5, PeerEventBatch DEF SetOrCallRejected, PeerEvent, Running
  <2> QED BY <1>5, <2>1 DEF SetOrCallRejected, EntriesKept, ExpiriesFresh, FaultsExplained
<1>6. ASSUME NEW p \in Peers, NEW path \in Paths, NEW what \in Types,
             NEW origin \in BOOLEAN, SetOrCallAborted(p, path, what, origin)
      PROVE  DepartureInv'
  <2>1. fault = "none" /\ (MaxEvents = 1 => batch = {})
    BY <1>6, PeerEventBatch DEF SetOrCallAborted, PeerEvent, Running
  <2>2. uuid \in Requests /\ uuid \notin allocated
    BY <1>6, RoutableOwner, AllocType DEF SetOrCallAborted, RouterInv, TypeOK, Requests
  <2>3. \A r \in allocated : request'[r] = request[r]
    BY <1>6, <2>2 DEF SetOrCallAborted, AllocRoutingRequest, TypeOK
  <2> QED BY <1>6, <2>1, <2>3
          DEF SetOrCallAborted, EntriesKept, ExpiriesFresh, FaultsExplained
<1>7. ASSUME NEW p \in Peers, NEW path \in Paths, NEW what \in Types,
             NEW origin \in BOOLEAN, SetOrCallRouted(p, path, what, origin)
      PROVE  DepartureInv'
  <2>1. fault = "none" /\ (MaxEvents = 1 => batch = {})
    BY <1>7, PeerEventBatch DEF SetOrCallRouted, PeerEvent, Running
  <2>2. EntriesKept'
    BY <1>7, <2>1, RoutableOwner, SetupKeepsEntries DEF SetOrCallRouted
  <2> QED BY <1>7, <2>1, <2>2 DEF SetOrCallRouted, ExpiriesFresh, FaultsExplained
<1>8. ASSUME NEW p \in Peers, NEW path \in Paths, NEW what \in Types,
             NEW origin \in BOOLEAN, SetOrCallUnrendered(p, path, what, origin)
      PROVE  DepartureInv'
  <2>1. failures' > 0
    BY <1>8 DEF SetOrCallUnrendered, SendResponse, TypeOK
  <2> QED BY <1>8, <2>1
          DEF SetOrCallUnrendered, EntriesKept, ExpiriesFresh, FaultsExplained
<1>9. ASSUME NEW p \in Peers, NEW r \in Requests, HandleRoutingResponse(p, r)
      PROVE  DepartureInv'
  <2>1. fault = "none" /\ (MaxEvents = 1 => batch = {})
    BY <1>9, PeerEventBatch DEF HandleRoutingResponse, PeerEvent, Running
  <2>2. CASE r \notin routing_table[p]
    BY <1>9, <2>1, <2>2
    DEF HandleRoutingResponse, EntriesKept, ExpiriesFresh, FaultsExplained
  <2>3. CASE r \in routing_table[p]
    <3>1. Forward(p, r)
      BY <1>9, <2>3 DEF HandleRoutingResponse
    <3>2. fault' = "none"
      BY <2>1, <2>3, <3>1, EntryHasPeers DEF Forward
    <3>3. EntriesKept'
      BY <1>9, <2>1, <3>1
      DEF HandleRoutingResponse, Forward, EndRequest, EntriesKept, RouterInv, TypeOK
    <3> QED BY <1>9, <2>1, <3>2, <3>3
            DEF HandleRoutingResponse, ExpiriesFresh, FaultsExplained
  <2> QED BY <2>2, <2>3
<1>10. ASSUME NEW p \in Peers, Disconnect(p) PROVE DepartureInv'
  <2>1. fault = "none" /\ (MaxEvents = 1 => batch = {})
    BY <1>10, PeerEventBatch DEF Disconnect, PeerEvent, Running
  <2> QED BY <1>10, <2>1 DEF Disconnect, EntriesKept, ExpiriesFresh, FaultsExplained
<1>11. ASSUME NEW p \in Peers, FreePeerResources(p) PROVE DepartureInv'
  <2>1. p \in freed_peers' /\ fault = "none"
    BY <1>11 DEF FreePeerResources
  <2>2. MaxEvents = 1 => batch' = {}
    BY <1>11 DEF FreePeerResources, ExpiriesFresh
  <2>3. ShutdownFault(p) # "freed_peer"
    <3>1. \A r \in ClearedBy(p) : request[r].requesting_peer \in peer_list
      BY <2>1, EntryHasPeers DEF ClearedBy, TypeOK
    <3> QED BY <3>1 DEF ShutdownFault, WithId
  <2>4. fault' \in {"none", "freed_connection"} /\ (fault' = "freed_connection" => p \in WsPeers)
    BY <1>11, <2>3 DEF FreePeerResources, ShutdownFault
  <2> QED BY <2>1, <2>2, <2>4 DEF EntriesKept, ExpiriesFresh, FaultsExplained
<1>12. ASSUME NEW events \in SUBSET armed, EpollWait(events) PROVE DepartureInv'
  BY <1>12 DEF EpollWait, Running, EntriesKept, ExpiriesFresh, FaultsExplained,
               RouterInv, TimersMatchRequests
<1>13. ASSUME NEW r \in Requests, RequestTimeout(r) PROVE DepartureInv'
  <2>1. fault = "none" /\ closing = NoPeer
    BY <1>13 DEF RequestTimeout, Running
  <2>2. CASE r \notin allocated
    <3>1. MaxEvents > 1
      BY <1>13, <2>1, <2>2 DEF RequestTimeout, ExpiriesFresh
    <3> QED BY <1>13, <2>2, <3>1
            DEF RequestTimeout, EntriesKept, ExpiriesFresh, FaultsExplained
  <2>3. CASE r \in allocated /\ TimeoutReadsFreedPeer(r)
    <3>1. \A q \in Peers : r \notin routing_table[q]
      BY <2>1, <2>3, EntryHasPeers DEF TimeoutReadsFreedPeer
    <3>2. freed_peers # {}
      BY <2>1, <2>3, <3>1 DEF EntriesKept, RouterInv
    <3> QED BY <1>13, <2>3, <3>1, <3>2
            DEF RequestTimeout, EntriesKept, ExpiriesFresh, FaultsExplained
  <2>4. CASE ~ (r \notin allocated \/ TimeoutReadsFreedPeer(r))
    <3>1. /\ allocated' = allocated \ {r}
          /\ routing_table' = [routing_table EXCEPT ![request[r].owner_peer] = @ \ {r}]
          /\ fault' = "none" /\ closing' = NoPeer
          /\ batch' = batch \ {r}
          /\ UNCHANGED <<freed_peers, request>>
      BY <1>13, <2>1, <2>4 DEF RequestTimeout, EndRequest
    <3>2. EntriesKept'
      BY <2>1, <3>1 DEF EntriesKept, RouterInv, TypeOK
    <3> QED BY <2>1, <3>1, <3>2 DEF ExpiriesFresh, FaultsExplained
  <2> QED BY <2>2, <2>3, <2>4
<1> QED
  BY <1>1, <1>2, <1>3, <1>4, <1>5, <1>6, <1>7, <1>8, <1>9, <1>10, <1>11,
     <1>12, <1>13
  DEF Next, SetOrCall

\* A timer's descriptor survives its request only if a peer departs.
LEMMA DescriptorStep ==
  ASSUME TypeOK, RouterInv, [Next]_vars
  PROVE  \A r \in allocated : r \notin allocated' /\ r \in timerfd' => peer_list' # peer_list
<1> SUFFICES ASSUME NEW r \in allocated, r \notin allocated', r \in timerfd'
             PROVE  peer_list' # peer_list
  OBVIOUS
<1>1. ASSUME NEW p \in Peers, NEW q \in Requests, HandleRoutingResponse(p, q) PROVE FALSE
  BY <1>1 DEF HandleRoutingResponse, Forward, EndRequest
<1>2. ASSUME NEW q \in Requests, RequestTimeout(q) PROVE FALSE
  BY <1>2 DEF RequestTimeout, EndRequest
<1>3. ASSUME NEW p \in Peers, FreePeerResources(p) PROVE peer_list' # peer_list
  BY <1>3, ConstantsAssumption DEF FreePeerResources, RouterInv, ConstantsAssumption
<1>4. ASSUME NEW p \in Peers, NEW path \in Paths, NEW what \in Types,
             NEW origin \in BOOLEAN, SetOrCall(p, path, what, origin)
      PROVE  FALSE
  BY <1>4 DEF SetOrCall, SetOrCallRejected, SetOrCallAborted, SetOrCallRouted,
              SetOrCallUnrendered
<1> QED
  BY <1>1, <1>2, <1>3, <1>4
  DEF Next, InitPeer, AddElement, RemoveElement, Disconnect, EpollWait, vars

\* The invariant of departures holds in every reachable state.
THEOREM DepartureInvariant == Spec => [](TypeOK /\ RouterInv /\ DepartureInv)
<1>1. Init => DepartureInv
  BY DepartureInit
<1>2. TypeOK /\ RouterInv /\ DepartureInv /\ [Next]_vars => DepartureInv'
  BY DepartureStep
<1> QED BY <1>1, <1>2, RouterInvariant, PTL DEF Spec

\* Freed memory is read only along the four ways FaultsExplained names.
THEOREM FaultsHaveCauses == Spec => []FaultsExplained
<1>1. DepartureInv => FaultsExplained
  BY DEF DepartureInv
<1> QED BY <1>1, DepartureInvariant, PTL

\* Without a departure no pending request loses its table entry and none
\* leaves its timer's descriptor behind.
THEOREM DamageByDepartures == Spec => OnlyDeparturesDamage
<1>1. DepartureInv => \A r \in allocated :
                         fault = "none" /\ freed_peers = {}
                             => r \in routing_table[request[r].owner_peer]
  BY DEF DepartureInv, EntriesKept
<1>2. TypeOK /\ RouterInv /\ [Next]_vars =>
          [\A r \in allocated : r \notin allocated' /\ r \in timerfd'
               => peer_list' # peer_list]_vars
  BY DescriptorStep
<1> QED BY <1>1, <1>2, DepartureInvariant, PTL DEF Spec, OnlyDeparturesDamage

-----------------------------------------------------------------------------
(* Hashtable: numbers                                                      *)

LEMMA WrapsBelow ==
  \A n \in Nat \ {0} : \A x \in (0 - n) .. (2 * n - 1) :
      x % n = IF x < 0 THEN x + n ELSE IF x < n THEN x ELSE x - n
<1> SUFFICES ASSUME NEW n \in Nat \ {0}, NEW x \in (0 - n) .. (2 * n - 1)
             PROVE  x % n = IF x < 0 THEN x + n ELSE IF x < n THEN x ELSE x - n
  OBVIOUS
<1>1. x % n \in 0 .. (n - 1) /\ x = n * (x \div n) + (x % n)
  OBVIOUS
<1> QED BY <1>1

\* Distance and position on the ring of the table.
LEMMA Ring ==
  ASSUME NEW h \in Positions, NEW p \in Positions, NEW d \in 0 .. (HopRange - 1)
  PROVE  /\ wrap_pos(h + d) \in Positions
         /\ wrap_pos(p - h) \in 0 .. (Size - 1)
         /\ wrap_pos(h + wrap_pos(p - h)) = p
         /\ wrap_pos(wrap_pos(h + d) - h) = d
         /\ wrap_pos(wrap_pos(p - d) + d) = p
         /\ wrap_pos(p - d) \in Positions
<1> DEFINE n == Size
<1>1. n \in Nat \ {0} /\ HopRange \in 1 .. n
  BY TableAssumption DEF TableAssumption
<1>2. Positions = 0 .. (n - 1) /\ h \in 0 .. (n - 1) /\ p \in 0 .. (n - 1)
  BY DEF Positions
<1>3. \A x \in (0 - n) .. (2 * n - 1) :
          wrap_pos(x) = IF x < 0 THEN x + n ELSE IF x < n THEN x ELSE x - n
  BY <1>1, WrapsBelow DEF wrap_pos
<1> HIDE DEF n
<1>4. d \in 0 .. (n - 1)
  BY <1>1
<1>5. wrap_pos(h + d) = IF h + d < n THEN h + d ELSE h + d - n
  BY <1>1, <1>2, <1>3, <1>4
<1>6. wrap_pos(p - h) = IF p - h < 0 THEN p - h + n ELSE p - h
  BY <1>1, <1>2, <1>3
<1>7. wrap_pos(p - d) = IF p - d < 0 THEN p - d + n ELSE p - d
  BY <1>1, <1>2, <1>3, <1>4
<1>8. wrap_pos(h + wrap_pos(p - h)) = p
  BY <1>1, <1>2, <1>3, <1>6
<1>9. wrap_pos(wrap_pos(h + d) - h) = d
  BY <1>1, <1>2, <1>3, <1>4, <1>5
<1>10. wrap_pos(wrap_pos(p - d) + d) = p
  BY <1>1, <1>2, <1>3, <1>4, <1>7
<1>11. /\ wrap_pos(h + d) \in 0 .. (n - 1) /\ wrap_pos(p - h) \in 0 .. (n - 1)
       /\ wrap_pos(p - d) \in 0 .. (n - 1)
  BY <1>1, <1>2, <1>4, <1>5, <1>6, <1>7
<1> QED BY <1>2, <1>8, <1>9, <1>10, <1>11 DEF n

LEMMA WrapsIntoTable == \A x \in Int : wrap_pos(x) \in Positions
<1> DEFINE n == Size
<1>1. n \in Nat \ {0}
  BY TableAssumption DEF TableAssumption
<1> HIDE DEF n
<1>2. \A x \in Int : x % n \in 0 .. (n - 1)
  BY <1>1
<1> QED BY <1>2 DEF n, wrap_pos, Positions

\* A set of natural numbers has a smallest one.
LEMMA SmallestExists ==
  ASSUME NEW S, S \subseteq Nat, S # {}
  PROVE  Smallest(S) \in S /\ \A y \in S : Smallest(S) <= y
<1>1. \E x \in S : \A y \in S : ~ (<<y, x>> \in OpToRel(<, Nat))
  BY NatLessThanWellFounded, WFMin
<1>2. \E x \in S : \A y \in S : ~ (y \in Nat /\ x \in Nat /\ y < x)
  BY <1>1, Zenon DEF OpToRel
<1>3. \E x \in S : \A y \in S : x <= y
  BY <1>2
<1> QED BY <1>3 DEF Smallest

LEMMA SmallestOfOne == ASSUME NEW d \in Nat PROVE Smallest({d}) = d
BY DEF Smallest

-----------------------------------------------------------------------------
(* The invariant                                                           *)

\* put works on the entry free.
Working == pc \in {"place", "put_key", "put_hop_info", "move_value", "move_hop_info"}

\* The bit a remove is about to clear, its entry is free already.
Clearing(h, d) ==
    /\ pc \in {"remove_value", "remove_hop_info"}
    /\ h = Hash[op.key] /\ d = Distance

\* Every bit stands for an entry with a key of that position and a value.
BitsSound ==
    \A h \in Positions : \A d \in table[h].hop_info :
        ~ Clearing(h, d) => /\ table[wrap_pos(h + d)].key \in Keys
                            /\ Hash[table[wrap_pos(h + d)].key] = h
                            /\ table[wrap_pos(h + d)].value \in Values

\* No two bits of a position lead to the same key.
KeysOnce ==
    \A h \in Positions : \A d, c \in table[h].hop_info :
        table[wrap_pos(h + d)].key = table[wrap_pos(h + c)].key => d = c

Unreachable(p) == \A h \in Positions : \A d \in table[h].hop_info : wrap_pos(h + d) # p

Calls ==
    /\ pc = "idle" <=> op = NoOp
    /\ Working \/ pc = "put" => op.op = "put"
    /\ pc = "put" => ~ moved
    /\ pc \in {"remove", "remove_value", "remove_hop_info"} => op.op = "remove"

Placing ==
    /\ Working => ~ Found(op.key) /\ Unreachable(free)
    /\ pc \in {"put_key", "put_hop_info"} =>
          Distance < HopRange /\ table[free].value = op.value
    /\ pc = "put_hop_info" => table[free].key = op.key

Moving ==
    /\ pc \in {"move_value", "move_hop_info"} =>
          /\ wrap_pos(closer.position + closer.distance) = free
          /\ wrap_pos(closer.entry - closer.position) \in table[closer.position].hop_info
          /\ table[free].key = table[closer.entry].key
    /\ pc = "move_hop_info" => table[free].value = table[closer.entry].value

Removing ==
    pc \in {"remove_value", "remove_hop_info"} =>
        Distance \in table[Hash[op.key]].hop_info /\ table[free].key = INVALIDENTRY

\* The entries in use that no bit leads to.
Stranded == {p \in Positions : table[p].key # INVALIDENTRY /\ Unreachable(p)}

LostSound ==
    /\ Stranded = lost \cup (IF Working /\ table[free].key # INVALIDENTRY THEN {free} ELSE {})
    /\ Working => /\ free \notin lost
                  /\ table[free].key # INVALIDENTRY <=>
                        moved \/ pc \in {"put_hop_info", "move_value", "move_hop_info"}

HashInv ==
    TableTypeOK /\ BitsSound /\ KeysOnce /\ Calls /\ Placing /\ Moving /\ Removing /\ LostSound

Entries == [hop_info : SUBSET (0 .. (HopRange - 1)), key : Keys \cup {INVALIDENTRY},
            value : Values \cup {NoValue}]

-----------------------------------------------------------------------------
(* What Get finds                                                          *)

LEMMA Constants ==
  /\ Size \in Nat \ {0} /\ AddRange \in Nat /\ HopRange \in 1 .. Size
  /\ Hash \in [Keys -> Positions] /\ INVALIDENTRY \notin Keys /\ NoValue \notin Values
  /\ 0 \in Positions /\ Positions \subseteq Int /\ HopRange \in Nat
BY TableAssumption DEF TableAssumption, Positions

\* A key that a bit leads to is found there, with its value.
GetSound ==
    \A k \in Keys :
        /\ \A d \in table[Hash[k]].hop_info :
              table[wrap_pos(Hash[k] + d)].key = k =>
                  /\ Matches(k) = {d} /\ Found(k) /\ Place(k) = wrap_pos(Hash[k] + d)
                  /\ Get(k) = table[wrap_pos(Hash[k] + d)].value
        /\ ~ Found(k) => Get(k) = NoValue
        /\ Found(k) => \E d \in table[Hash[k]].hop_info : table[wrap_pos(Hash[k] + d)].key = k

LEMMA GetFinds == TableTypeOK /\ KeysOnce => GetSound
<1> SUFFICES ASSUME TableTypeOK, KeysOnce, NEW k \in Keys
             PROVE  /\ \A d \in table[Hash[k]].hop_info :
                          table[wrap_pos(Hash[k] + d)].key = k =>
                              /\ Matches(k) = {d} /\ Found(k) /\ Place(k) = wrap_pos(Hash[k] + d)
                              /\ Get(k) = table[wrap_pos(Hash[k] + d)].value
                    /\ ~ Found(k) => Get(k) = NoValue
                    /\ Found(k) => \E d \in table[Hash[k]].hop_info :
                                        table[wrap_pos(Hash[k] + d)].key = k
  BY DEF GetSound
<1>1. ASSUME NEW d \in table[Hash[k]].hop_info, table[wrap_pos(Hash[k] + d)].key = k
      PROVE  /\ Matches(k) = {d} /\ Found(k) /\ Place(k) = wrap_pos(Hash[k] + d)
             /\ Get(k) = table[wrap_pos(Hash[k] + d)].value
  <2>0. Hash[k] \in Positions /\ table[Hash[k]].hop_info \subseteq 0 .. (HopRange - 1)
    BY Constants DEF TableTypeOK
  <2>1. Hash[k] \in Positions /\ d \in Nat
    BY <2>0, Constants
  <2>2. Matches(k) = {d}
    BY <1>1, <2>1 DEF Matches, KeysOnce
  <2>3. Smallest(Matches(k)) = d
    BY <2>1, <2>2, SmallestOfOne
  <2> QED BY <2>2, <2>3 DEF Found, Place, Get
<1>2. Found(k) => \E d \in table[Hash[k]].hop_info : table[wrap_pos(Hash[k] + d)].key = k
  BY DEF Found, Matches
<1>3. ~ Found(k) => Get(k) = NoValue
  BY DEF Get
<1> QED BY <1>1, <1>2, <1>3

\* No entry belongs to two bits.
LEMMA OneBit ==
  HashInv => \A h, g \in Positions : \A d \in table[h].hop_info, c \in table[g].hop_info :
                 wrap_pos(h + d) = wrap_pos(g + c) => h = g /\ d = c
<1> SUFFICES ASSUME HashInv, NEW h \in Positions, NEW g \in Positions,
                    NEW d \in table[h].hop_info, NEW c \in table[g].hop_info,
                    wrap_pos(h + d) = wrap_pos(g + c)
             PROVE  h = g /\ d = c
  OBVIOUS
<1>1. Clearing(h, d) => table[wrap_pos(h + d)].key = INVALIDENTRY
  <2> SUFFICES ASSUME Clearing(h, d) PROVE wrap_pos(h + d) = free /\ Removing
    BY DEF Removing, Clearing
  <2> QED BY Ring, Constants DEF Clearing, Distance, HashInv, TableTypeOK
<1>2. Clearing(g, c) => table[wrap_pos(g + c)].key = INVALIDENTRY
  <2> SUFFICES ASSUME Clearing(g, c) PROVE wrap_pos(g + c) = free /\ Removing
    BY DEF Removing, Clearing
  <2> QED BY Ring, Constants DEF Clearing, Distance, HashInv, TableTypeOK
<1>3. CASE Clearing(h, d) \/ Clearing(g, c)
  <2>1. Clearing(h, d) /\ Clearing(g, c)
    BY <1>1, <1>2, <1>3, Constants DEF HashInv, BitsSound
  <2> QED BY <2>1 DEF Clearing
<1>4. CASE ~ Clearing(h, d) /\ ~ Clearing(g, c)
  <2>1. h = g
    BY <1>4 DEF HashInv, BitsSound
  <2> QED BY <2>1 DEF HashInv, KeysOnce
<1> QED BY <1>3, <1>4

LEMMA OpTyped ==
  HashInv /\ pc # "idle" =>
      op.key \in Keys /\ op.value \in Values /\ op.op \in {"put", "remove"} /\ Hash[op.key] \in Positions
BY Constants DEF HashInv, TableTypeOK, Calls

SameMap == \A k \in Keys : Get(k)' = Get(k)

Stores(k, v) == \A j \in Keys : Get(j)' = IF j = k THEN v ELSE Get(j)

\* A step after which the same bits lead to key k, and to the same value.
LEMMA GetKeeps ==
  ASSUME TableTypeOK, KeysOnce, TableTypeOK', KeysOnce', NEW k \in Keys,
         \A d \in table[Hash[k]].hop_info : table[wrap_pos(Hash[k] + d)].key = k =>
             /\ d \in table'[Hash[k]].hop_info /\ table'[wrap_pos(Hash[k] + d)].key = k
             /\ table'[wrap_pos(Hash[k] + d)].value = table[wrap_pos(Hash[k] + d)].value,
         \A d \in table'[Hash[k]].hop_info : table'[wrap_pos(Hash[k] + d)].key = k =>
             d \in table[Hash[k]].hop_info /\ table[wrap_pos(Hash[k] + d)].key = k
  PROVE  Get(k)' = Get(k) /\ (Found(k)' <=> Found(k))
<1>1. (TableTypeOK /\ KeysOnce => GetSound)'
  BY GetFinds, PTL
<1> USE DEF GetSound
<1>2. CASE Found(k)
  <2>1. PICK d \in table[Hash[k]].hop_info : table[wrap_pos(Hash[k] + d)].key = k
    BY <1>2, GetFinds
  <2>2. Get(k) = table[wrap_pos(Hash[k] + d)].value
    BY <2>1, GetFinds
  <2>3. Found(k)' /\ Get(k)' = table'[wrap_pos(Hash[k] + d)].value
    BY <1>1, <2>1
  <2> QED BY <1>2, <2>1, <2>2, <2>3
<1>3. CASE ~ Found(k)
  <2>1. ~ Found(k)'
    BY <1>1, <1>3, GetFinds
  <2> QED BY <1>1, <1>3, <2>1, GetFinds
<1> QED BY <1>2, <1>3

-----------------------------------------------------------------------------
(* Steps that leave the table alone                                        *)

LEMMA QuietTable ==
  ASSUME HashInv, UNCHANGED table, TableTypeOK',
         pc \notin {"remove_value", "remove_hop_info"}, pc' \notin {"remove_value", "remove_hop_info"}
  PROVE  /\ BitsSound' /\ KeysOnce' /\ SameMap /\ Removing'
         /\ \A k \in Keys : Found(k)' <=> Found(k)
         /\ \A p : Unreachable(p)' <=> Unreachable(p)
         /\ Stranded' = Stranded
<1> USE DEF HashInv
<1>1. BitsSound' /\ KeysOnce' /\ Removing'
  BY DEF BitsSound, KeysOnce, Clearing, Removing
<1>2. \A k \in Keys : Get(k)' = Get(k) /\ (Found(k)' <=> Found(k))
  BY <1>1, GetKeeps
<1>3. \A p : Unreachable(p)' <=> Unreachable(p)
  BY DEF Unreachable
<1>4. Stranded' = Stranded
  BY <1>3 DEF Stranded
<1> QED BY <1>1, <1>2, <1>3, <1>4 DEF SameMap

LEMMA CallStep ==
  ASSUME HashInv, NEW o \in {"put", "remove"}, NEW k \in Keys, NEW v \in Values, Call(o, k, v)
  PROVE  HashInv' /\ SameMap
<1> USE DEF HashInv, Call
<1>1. TableTypeOK'
  BY DEF TableTypeOK
<1>2. Calls' /\ Placing' /\ Moving'
  BY DEF Calls, Placing, Moving, Working, NoOp
<1>3. LostSound'
  BY <1>1, QuietTable DEF LostSound, Working
<1> QED BY <1>1, <1>2, <1>3, QuietTable

LEMMA PutSearchStep ==
  ASSUME HashInv, PutSearch
  PROVE  HashInv' /\ SameMap
<1> USE DEF HashInv, PutSearch
<1> DEFINE d == Smallest(FreeDistances(Hash[op.key]))
<1>1. FreeDistances(Hash[op.key]) \subseteq Nat
  BY Constants DEF FreeDistances
<1>2. d \in FreeDistances(Hash[op.key])
  BY <1>1, SmallestExists
<1> HIDE DEF d
<1>3. Hash[op.key] + d \in Int
  <2>1. d \in Nat
    BY <1>1, <1>2
  <2>2. Hash[op.key] \in Int
    BY OpTyped, Constants
  <2> QED BY <2>1, <2>2
<1> USE DEF d
<1>4. free' \in Positions /\ table[free'].key = INVALIDENTRY
  BY <1>2, <1>3, WrapsIntoTable DEF FreeDistances
<1>5. TableTypeOK'
  BY <1>4 DEF TableTypeOK
<1>6. Unreachable(free')
  BY <1>4, Constants DEF BitsSound, Clearing, Unreachable
<1>7. Calls' /\ Moving'
  BY DEF Calls, Moving, Working
<1>8. Placing'
  BY <1>5, <1>6, QuietTable, OpTyped DEF Placing, Working
<1>9. LostSound'
  <2>1. Stranded' = Stranded /\ Stranded = lost
    BY <1>5, QuietTable DEF LostSound, Working
  <2>2. free' \notin lost /\ ~ moved
    BY <1>4, <2>1 DEF Stranded, Calls
  <2> QED BY <1>4, <2>1, <2>2 DEF LostSound, Working
<1> QED BY <1>5, <1>7, <1>8, <1>9, QuietTable

LEMMA FailureStep ==
  ASSUME HashInv, PutFull \/ RemoveMissing \/ PutGivesUp
  PROVE  HashInv' /\ SameMap
<1> USE DEF HashInv, PutFull, RemoveMissing, PutGivesUp
<1>1. TableTypeOK'
  BY DEF TableTypeOK
<1>2. Calls' /\ Placing' /\ Moving'
  BY DEF Calls, Placing, Moving, Working
<1>3. LostSound'
  <2>1. Stranded' = Stranded
    BY <1>1, QuietTable
  <2> QED BY <2>1 DEF LostSound, Working
<1> QED BY <1>1, <1>2, <1>3, QuietTable

LEMMA ReturnStep ==
  ASSUME HashInv, Return
  PROVE  HashInv' /\ SameMap
<1> USE DEF HashInv, Return
<1>1. TableTypeOK'
  <2>1. 0 \in 0 .. (HopRange - 1)
    BY Constants
  <2>2. NoMove \in [position : Positions, distance : 0 .. (HopRange - 1), entry : Positions]
    BY <2>1, Constants DEF NoMove
  <2> QED BY <2>2, Constants DEF TableTypeOK
<1>2. Calls' /\ Placing' /\ Moving'
  BY DEF Calls, Placing, Moving, Working
<1>3. LostSound'
  BY <1>1, QuietTable DEF LostSound, Working
<1> QED BY <1>1, <1>2, <1>3, QuietTable

-----------------------------------------------------------------------------
(* Stores into the table                                                   *)

LEMMA StoreValue ==
  ASSUME TableTypeOK, NEW x \in Positions, NEW v \in Values \cup {NoValue},
         table' = [table EXCEPT ![x].value = v]
  PROVE  /\ table' \in [Positions -> Entries]
         /\ \A p \in Positions : /\ table'[p].hop_info = table[p].hop_info
                                 /\ table'[p].key = table[p].key
                                 /\ table'[p].value = IF p = x THEN v ELSE table[p].value
BY DEF TableTypeOK, Entries

LEMMA StoreKey ==
  ASSUME TableTypeOK, NEW x \in Positions, NEW k \in Keys \cup {INVALIDENTRY},
         table' = [table EXCEPT ![x].key = k]
  PROVE  /\ table' \in [Positions -> Entries]
         /\ \A p \in Positions : /\ table'[p].hop_info = table[p].hop_info
                                 /\ table'[p].key = IF p = x THEN k ELSE table[p].key
                                 /\ table'[p].value = table[p].value
BY DEF TableTypeOK, Entries

LEMMA StoreHopInfo ==
  ASSUME TableTypeOK, NEW x \in Positions, NEW b \in SUBSET (0 .. (HopRange - 1)),
         table' = [table EXCEPT ![x].hop_info = b]
  PROVE  /\ table' \in [Positions -> Entries]
         /\ \A p \in Positions : /\ table'[p].hop_info = IF p = x THEN b ELSE table[p].hop_info
                                 /\ table'[p].key = table[p].key
                                 /\ table'[p].value = table[p].value
BY DEF TableTypeOK, Entries

\* Where a bit leads to.
LEMMA BitPosition ==
  TableTypeOK => \A h \in Positions : \A d \in table[h].hop_info :
                d \in 0 .. (HopRange - 1) /\ wrap_pos(h + d) \in Positions
BY Ring DEF TableTypeOK

\* put finds the key.
LEMMA PutExistingStep ==
  ASSUME HashInv, PutExisting
  PROVE  HashInv' /\ Stores(op.key, op.value)
<1> USE DEF HashInv, PutExisting
<1>0. op.key \in Keys /\ op.value \in Values /\ Hash[op.key] \in Positions
  BY OpTyped
<1>1. PICK c \in table[Hash[op.key]].hop_info : table[wrap_pos(Hash[op.key] + c)].key = op.key
  BY <1>0, GetFinds DEF GetSound
<1> DEFINE x == wrap_pos(Hash[op.key] + c)
<1>2. Place(op.key) = x /\ x \in Positions
  BY <1>0, <1>1, GetFinds, BitPosition DEF GetSound
<1>3. /\ table' \in [Positions -> Entries]
      /\ \A p \in Positions : /\ table'[p].hop_info = table[p].hop_info
                              /\ table'[p].key = table[p].key
                              /\ table'[p].value = IF p = x THEN op.value ELSE table[p].value
  <2>1. table' = [table EXCEPT ![x].value = op.value]
    BY <1>2
  <2> HIDE DEF x
  <2> QED BY <1>0, <1>2, <2>1, StoreValue
<1>4. TableTypeOK'
  BY <1>3 DEF TableTypeOK, Entries
<1>5. BitsSound' /\ KeysOnce'
  BY <1>0, <1>3, BitPosition DEF BitsSound, KeysOnce, Clearing
<1>6. Calls' /\ Placing' /\ Moving' /\ Removing'
  BY DEF Calls, Placing, Moving, Removing, Working
<1>7. \A p : Unreachable(p)' <=> Unreachable(p)
  BY <1>3 DEF Unreachable
<1>8. LostSound'
  BY <1>3, <1>7 DEF LostSound, Stranded, Working
<1>9. ASSUME NEW k \in Keys PROVE Get(k)' = IF k = op.key THEN op.value ELSE Get(k)
  <2>1. Hash[k] \in Positions
    BY Constants
  <2>2. CASE k = op.key
    <3>1. (TableTypeOK /\ KeysOnce => GetSound)'
      BY GetFinds, PTL
    <3> QED BY <1>0, <1>1, <1>2, <1>3, <1>4, <1>5, <2>2, <3>1 DEF GetSound
  <2>3. CASE k # op.key
    <3> HIDE DEF x
    <3>1. \A d \in table[Hash[k]].hop_info : wrap_pos(Hash[k] + d) \in Positions
      BY <2>1, BitPosition
    <3>2. table[x].key = op.key
      BY <1>1 DEF x
    <3>3. Get(k)' = Get(k)
      BY <1>3, <1>4, <1>5, <2>1, <2>3, <3>1, <3>2, GetKeeps
    <3> QED BY <2>3, <3>3
  <2> QED BY <2>2, <2>3
<1> QED BY <1>4, <1>5, <1>6, <1>8, <1>9 DEF Stores

\* Stores into an entry that no bit leads to, and that keep hop_info.
LEMMA HiddenStore ==
  ASSUME HashInv, TableTypeOK', NEW x \in Positions, Unreachable(x),
         pc \notin {"remove_value", "remove_hop_info"}, pc' \notin {"remove_value", "remove_hop_info"},
         \A p \in Positions :
             /\ table'[p].hop_info = table[p].hop_info
             /\ p # x => table'[p].key = table[p].key /\ table'[p].value = table[p].value
  PROVE  /\ BitsSound' /\ KeysOnce' /\ SameMap /\ Removing'
         /\ \A k \in Keys : Found(k)' <=> Found(k)
         /\ \A p : Unreachable(p)' <=> Unreachable(p)
<1> USE DEF HashInv
<1>1. \A h \in Positions : \A d \in table[h].hop_info :
          wrap_pos(h + d) \in Positions /\ wrap_pos(h + d) # x
  BY BitPosition DEF Unreachable
<1>2. BitsSound' /\ KeysOnce' /\ Removing'
  BY <1>1 DEF BitsSound, KeysOnce, Clearing, Removing
<1>3. ASSUME NEW k \in Keys PROVE Get(k)' = Get(k) /\ (Found(k)' <=> Found(k))
  <2>1. Hash[k] \in Positions
    BY Constants
  <2> QED BY <1>1, <1>2, <2>1, GetKeeps
<1>4. \A p : Unreachable(p)' <=> Unreachable(p)
  BY DEF Unreachable
<1> QED BY <1>2, <1>3, <1>4 DEF SameMap

LEMMA PutValueStep ==
  ASSUME HashInv, PutValue
  PROVE  HashInv' /\ SameMap
<1> USE DEF HashInv, PutValue
<1>0. op.key \in Keys /\ op.value \in Values /\ free \in Positions /\ Unreachable(free)
  BY OpTyped DEF TableTypeOK, Placing, Working
<1>1. /\ table' \in [Positions -> Entries]
      /\ \A p \in Positions : /\ table'[p].hop_info = table[p].hop_info
                              /\ table'[p].key = table[p].key
                              /\ table'[p].value = IF p = free THEN op.value ELSE table[p].value
  BY <1>0, StoreValue
<1>2. TableTypeOK'
  BY <1>1 DEF TableTypeOK, Entries
<1>3. Calls' /\ Moving'
  BY DEF Calls, Moving, Working
<1>4. Placing'
  BY <1>0, <1>1, <1>2, HiddenStore DEF Placing, Working, Distance
<1>5. LostSound'
  <2>1. Stranded' = Stranded
    BY <1>0, <1>1, <1>2, HiddenStore DEF Stranded
  <2> QED BY <1>0, <1>1, <2>1 DEF LostSound, Working
<1> QED BY <1>0, <1>1, <1>2, <1>3, <1>4, <1>5, HiddenStore

LEMMA PutKeyStep ==
  ASSUME HashInv, PutKey
  PROVE  HashInv' /\ SameMap
<1> USE DEF HashInv, PutKey
<1>0. op.key \in Keys /\ free \in Positions /\ Unreachable(free)
  BY OpTyped DEF TableTypeOK, Placing, Working
<1>1. /\ table' \in [Positions -> Entries]
      /\ \A p \in Positions : /\ table'[p].hop_info = table[p].hop_info
                              /\ table'[p].key = IF p = free THEN op.key ELSE table[p].key
                              /\ table'[p].value = table[p].value
  BY <1>0, StoreKey
<1>2. TableTypeOK'
  BY <1>1 DEF TableTypeOK, Entries
<1>3. Calls' /\ Moving'
  BY DEF Calls, Moving, Working
<1>4. Placing'
  BY <1>0, <1>1, <1>2, HiddenStore DEF Placing, Working, Distance
<1>5. LostSound'
  <2>1. Stranded' = Stranded \cup {free}
    BY <1>0, <1>1, <1>2, HiddenStore, Constants DEF Stranded
  <2>2. Stranded \cup {free} = lost \cup {free}
    BY DEF LostSound, Working
  <2> QED BY <1>0, <1>1, <2>1, <2>2, Constants DEF LostSound, Working
<1> QED BY <1>0, <1>1, <1>2, <1>3, <1>4, <1>5, HiddenStore

\* put stores hop_info, and the new key is in the map.
LEMMA PutHopInfoStep ==
  ASSUME HashInv, PutHopInfo
  PROVE  HashInv' /\ Stores(op.key, op.value)
<1> USE DEF HashInv, PutHopInfo
<1> DEFINE h0 == Hash[op.key]
           b == table[h0].hop_info \cup {Distance}
<1>0. /\ op.key \in Keys /\ op.value \in Values /\ h0 \in Positions /\ free \in Positions
      /\ Unreachable(free) /\ ~ Found(op.key) /\ Distance < HopRange
      /\ table[free].key = op.key /\ table[free].value = op.value
  BY OpTyped DEF TableTypeOK, Placing, Working
<1>1. Distance \in 0 .. (HopRange - 1) /\ wrap_pos(h0 + Distance) = free
  <2>1. 0 \in 0 .. (HopRange - 1)
    BY Constants
  <2>2. wrap_pos(free - h0) \in 0 .. (Size - 1) /\ wrap_pos(h0 + wrap_pos(free - h0)) = free
    BY <1>0, <2>1, Ring
  <2>3. Distance = wrap_pos(free - h0)
    BY DEF Distance
  <2>4. Distance \in Nat
    <3>1. Size \in Nat
      BY Constants
    <3> HIDE DEF h0
    <3> QED BY <2>2, <2>3, <3>1
  <2> HIDE DEF h0
  <2> QED BY <1>0, <2>2, <2>3, <2>4, Constants
<1> HIDE DEF h0
<1>2. b \in SUBSET (0 .. (HopRange - 1)) /\ table' = [table EXCEPT ![h0].hop_info = b]
  BY <1>0, <1>1 DEF TableTypeOK, h0
<1>3. /\ table' \in [Positions -> Entries]
      /\ \A p \in Positions : /\ table'[p].hop_info = IF p = h0 THEN b ELSE table[p].hop_info
                              /\ table'[p].key = table[p].key
                              /\ table'[p].value = table[p].value
  BY <1>0, <1>2, StoreHopInfo
<1>4. \A h \in Positions : \A d :
          d \in table'[h].hop_info <=> d \in table[h].hop_info \/ (h = h0 /\ d = Distance)
  BY <1>3
<1>5. \A h \in Positions : \A d \in table[h].hop_info :
          /\ wrap_pos(h + d) \in Positions /\ wrap_pos(h + d) # free
          /\ table[wrap_pos(h + d)].key # op.key
  <2> SUFFICES ASSUME NEW h \in Positions, NEW d \in table[h].hop_info,
                      table[wrap_pos(h + d)].key = op.key
               PROVE  FALSE
    BY <1>0, BitPosition DEF Unreachable
  <2>1. h = h0
    BY <1>0, Constants DEF BitsSound, Clearing, h0
  <2> QED BY <1>0, <2>1, GetFinds DEF GetSound, h0
<1>6. TableTypeOK'
  BY <1>3 DEF TableTypeOK, Entries
<1>7. BitsSound'
  BY <1>0, <1>1, <1>3, <1>4, <1>5 DEF BitsSound, Clearing, h0
<1>8. KeysOnce'
  BY <1>0, <1>1, <1>3, <1>4, <1>5 DEF KeysOnce
<1>9. Calls' /\ Placing' /\ Moving' /\ Removing'
  BY DEF Calls, Placing, Moving, Removing, Working
<1>10. LostSound'
  <2>1. \A p : Unreachable(p)' <=> Unreachable(p) /\ p # free
    BY <1>0, <1>1, <1>4 DEF Unreachable
  <2>2. Stranded' = Stranded \ {free}
    BY <1>3, <2>1 DEF Stranded
  <2> QED BY <1>0, <2>2, Constants DEF LostSound, Working
<1>11. ASSUME NEW k \in Keys PROVE Get(k)' = IF k = op.key THEN op.value ELSE Get(k)
  <2>1. Hash[k] \in Positions
    BY Constants
  <2>2. CASE k = op.key
    <3>1. (TableTypeOK /\ KeysOnce => GetSound)'
      BY GetFinds, PTL
    <3> QED BY <1>0, <1>1, <1>3, <1>4, <1>6, <1>8, <2>2, <3>1 DEF GetSound, h0
  <2>3. CASE k # op.key
    <3>1. Get(k)' = Get(k)
      BY <1>0, <1>1, <1>3, <1>4, <1>5, <1>6, <1>8, <2>1, <2>3, GetKeeps
    <3> QED BY <2>3, <3>1
  <2> QED BY <2>2, <2>3
<1> QED BY <1>6, <1>7, <1>8, <1>9, <1>10, <1>11 DEF Stores

-----------------------------------------------------------------------------
(* Moves                                                                   *)

\* find_closer_entry finds a move if there is one.
LEMMA CloserEntry ==
  ASSUME NEW f, Movable(f) # {}
  PROVE  FindCloserEntry(f) \in Movable(f)
<1> DEFINE Best(m, n) == \/ m.distance > n.distance
                         \/ /\ m.distance = n.distance
                            /\ wrap_pos(m.entry - m.position) <= wrap_pos(n.entry - n.position)
           D == {HopRange - m.distance : m \in Movable(f)}
           far == Smallest(D)
           E == {wrap_pos(m.entry - m.position) :
                    m \in {x \in Movable(f) : HopRange - x.distance = far}}
           near == Smallest(E)
<1>1. \A m \in Movable(f) :
          /\ m.distance \in 1 .. (HopRange - 1) /\ m.entry \in Positions /\ m.position \in Positions
          /\ wrap_pos(m.entry - m.position) \in Nat
  <2> SUFFICES ASSUME NEW m \in Movable(f)
               PROVE  /\ m.distance \in 1 .. (HopRange - 1) /\ m.entry \in Positions
                      /\ m.position \in Positions /\ wrap_pos(m.entry - m.position) \in Nat
    OBVIOUS
  <2>1. m.distance \in 1 .. (HopRange - 1) /\ m.entry \in Positions /\ m.position \in Positions
    BY DEF Movable
  <2>2. m.entry - m.position \in Int
    <3>1. m.entry \in Int /\ m.position \in Int
      BY <2>1, Constants
    <3> QED BY <3>1
  <2>3. wrap_pos(m.entry - m.position) \in Positions
    BY <2>2, WrapsIntoTable
  <2>4. Positions \subseteq Nat
    BY Constants DEF Positions
  <2> QED BY <2>1, <2>3, <2>4
<1>2. D \subseteq Nat /\ D # {}
  BY <1>1, Constants
<1>3. far \in D /\ \A y \in D : far <= y
  BY <1>2, SmallestExists
<1> HIDE DEF far
<1>4. E \subseteq Nat /\ E # {}
  BY <1>1, <1>3
<1>5. near \in E /\ \A y \in E : near <= y
  BY <1>4, SmallestExists
<1> HIDE DEF near
<1>6. PICK m \in Movable(f) : HopRange - m.distance = far /\ wrap_pos(m.entry - m.position) = near
  BY <1>5
<1>7. ASSUME NEW n \in Movable(f) PROVE Best(m, n)
  <2>1. far <= HopRange - n.distance
    BY <1>3
  <2>2. m.distance \in Int /\ n.distance \in Int /\ HopRange \in Int
    BY <1>1, Constants
  <2>3. m.distance >= n.distance
    BY <1>6, <2>1, <2>2
  <2>4. CASE m.distance = n.distance
    <3>1. near <= wrap_pos(n.entry - n.position)
      BY <1>5, <1>6, <2>4
    <3> QED BY <1>6, <2>4, <3>1
  <2> QED BY <2>2, <2>3, <2>4
<1> QED BY <1>6, <1>7 DEF FindCloserEntry

LEMMA MoveKeyStep ==
  ASSUME HashInv, MoveKey
  PROVE  HashInv' /\ SameMap
<1> USE DEF HashInv, MoveKey
<1>0. free \in Positions /\ Unreachable(free)
  BY DEF TableTypeOK, Placing, Working
<1>1. closer' \in Movable(free)
  BY CloserEntry
<1>2. /\ closer' \in [position : Positions, distance : 0 .. (HopRange - 1), entry : Positions]
      /\ closer'.position = wrap_pos(free - closer'.distance)
  <2>1. 1 .. (HopRange - 1) \subseteq 0 .. (HopRange - 1)
    BY Constants
  <2> QED BY <1>1, <2>1 DEF Movable
<1>3. PICK i \in table[closer'.position].hop_info :
          closer'.entry = wrap_pos(closer'.position + i)
  BY <1>1 DEF Movable
<1>4. closer'.position \in Positions /\ closer'.entry \in Positions /\ closer'.distance \in 0 .. (HopRange - 1)
  BY <1>2
<1>5. i \in 0 .. (HopRange - 1)
  BY <1>3, <1>4, BitPosition
<1>6. /\ wrap_pos(closer'.position + closer'.distance) = free
      /\ wrap_pos(closer'.entry - closer'.position) = i
  BY <1>0, <1>2, <1>3, <1>4, <1>5, Ring
<1>7. closer'.entry # free /\ table[closer'.entry].key \in Keys
  BY <1>0, <1>3, <1>4 DEF Unreachable, BitsSound, Clearing
<1> DEFINE k == table[closer'.entry].key
<1>8. /\ table' \in [Positions -> Entries]
      /\ \A p \in Positions : /\ table'[p].hop_info = table[p].hop_info
                              /\ table'[p].key = IF p = free THEN k ELSE table[p].key
                              /\ table'[p].value = table[p].value
  <2>1. table' = [table EXCEPT ![free].key = k] /\ k \in Keys \cup {INVALIDENTRY}
    BY <1>7
  <2> HIDE DEF k
  <2> QED BY <1>0, <2>1, StoreKey
<1>9. TableTypeOK'
  BY <1>2, <1>8 DEF TableTypeOK, Entries
<1>10. Calls'
  BY DEF Calls, Working
<1>11. Moving'
  BY <1>0, <1>3, <1>4, <1>6, <1>7, <1>8 DEF Moving
<1>12. Placing'
  BY <1>0, <1>8, <1>9, OpTyped, HiddenStore DEF Placing, Working
<1>13. LostSound'
  <2>1. Stranded' = Stranded \cup {free}
    BY <1>0, <1>7, <1>8, <1>9, HiddenStore, Constants DEF Stranded
  <2>2. Stranded \cup {free} = lost \cup {free}
    BY DEF LostSound, Working
  <2> QED BY <1>0, <1>7, <1>8, <2>1, <2>2, Constants DEF LostSound, Working
<1> QED BY <1>0, <1>8, <1>9, <1>10, <1>11, <1>12, <1>13, HiddenStore

LEMMA MoveValueStep ==
  ASSUME HashInv, MoveValue
  PROVE  HashInv' /\ SameMap
<1> USE DEF HashInv, MoveValue
<1>0. free \in Positions /\ Unreachable(free) /\ closer.entry \in Positions
  BY DEF TableTypeOK, Placing, Working
<1> DEFINE v == table[closer.entry].value
<1>1. /\ table' \in [Positions -> Entries]
      /\ \A p \in Positions : /\ table'[p].hop_info = table[p].hop_info
                              /\ table'[p].key = table[p].key
                              /\ table'[p].value = IF p = free THEN v ELSE table[p].value
  <2>1. table' = [table EXCEPT ![free].value = v] /\ v \in Values \cup {NoValue}
    BY <1>0 DEF TableTypeOK
  <2> HIDE DEF v
  <2> QED BY <1>0, <2>1, StoreValue
<1>2. TableTypeOK'
  BY <1>1 DEF TableTypeOK, Entries
<1>3. Calls'
  BY DEF Calls, Working
<1>4. Moving'
  BY <1>0, <1>1 DEF Moving, TableTypeOK
<1>5. Placing'
  BY <1>0, <1>1, <1>2, OpTyped, HiddenStore DEF Placing, Working
<1>6. LostSound'
  <2>1. Stranded' = Stranded
    BY <1>0, <1>1, <1>2, HiddenStore DEF Stranded
  <2> QED BY <1>0, <1>1, <2>1 DEF LostSound, Working
<1> QED BY <1>0, <1>1, <1>2, <1>3, <1>4, <1>5, <1>6, HiddenStore

LEMMA MoveHopInfoStep ==
  ASSUME HashInv, MoveHopInfo
  PROVE  HashInv' /\ SameMap
<1> USE DEF HashInv, MoveHopInfo
<1>0. /\ closer.position \in Positions /\ closer.entry \in Positions
      /\ closer.distance \in 0 .. (HopRange - 1)
      /\ wrap_pos(closer.entry - closer.position) \in table[closer.position].hop_info
  BY DEF TableTypeOK, Moving
<1>a. wrap_pos(closer.entry - closer.position) \in 0 .. (HopRange - 1)
  BY <1>0, BitPosition
<1>b. PICK p \in Positions, e \in Positions, far \in 0 .. (HopRange - 1), i \in 0 .. (HopRange - 1) :
          /\ p = closer.position /\ e = closer.entry /\ far = closer.distance
          /\ i = wrap_pos(closer.entry - closer.position)
  BY <1>0, <1>a
<1>c. PICK k : k = table[e].key
  OBVIOUS
<1> DEFINE b == (table[p].hop_info \ {i}) \cup {far}
<1>1. /\ free \in Positions
      /\ Unreachable(free) /\ ~ Found(op.key) /\ op.key \in Keys
      /\ wrap_pos(p + far) = free /\ i \in table[p].hop_info /\ i = wrap_pos(e - p)
      /\ table[free].key = k /\ table[free].value = table[e].value
  BY <1>b, <1>c, OpTyped DEF TableTypeOK, Placing, Moving, Working
<1>2. wrap_pos(p + i) = e
  <2>1. wrap_pos(p + wrap_pos(e - p)) = e
    BY <1>0, Ring
  <2> QED BY <1>1, <2>1
<1>3. b \in SUBSET (0 .. (HopRange - 1)) /\ table' = [table EXCEPT ![p].hop_info = b]
  BY <1>b DEF TableTypeOK
<1>4. free' = e
  BY <1>b
<1>5. k \in Keys /\ Hash[k] = p /\ table[e].value \in Values /\ e # free /\ far # i
  BY <1>1, <1>2, <1>c DEF BitsSound, Clearing, Unreachable
<1>6. /\ table' \in [Positions -> Entries]
      /\ \A q \in Positions : /\ table'[q].hop_info = IF q = p THEN b ELSE table[q].hop_info
                              /\ table'[q].key = table[q].key
                              /\ table'[q].value = table[q].value
  <2> HIDE DEF b
  <2> QED BY <1>1, <1>3, StoreHopInfo
<1>7. \A h \in Positions : \A d :
          d \in table'[h].hop_info <=> \/ d \in table[h].hop_info /\ ~ (h = p /\ d = i)
                                       \/ h = p /\ d = far
  <2>1. \A d : d \in b <=> (d \in table[p].hop_info /\ d # i) \/ d = far
    BY <1>5
  <2> HIDE DEF b
  <2> QED BY <1>6, <2>1
<1> HIDE DEF b
<1>8. \A h \in Positions : \A d \in table[h].hop_info :
          /\ wrap_pos(h + d) \in Positions /\ wrap_pos(h + d) # free
          /\ ~ (h = p /\ d = i) => wrap_pos(h + d) # e
  BY <1>1, <1>2, BitPosition, OneBit DEF Unreachable
<1>9. \A d \in table[p].hop_info : d # i => table[wrap_pos(p + d)].key # k
  BY <1>1, <1>2, <1>c DEF KeysOnce
<1>10. TableTypeOK'
  BY <1>1, <1>4, <1>6 DEF TableTypeOK, Entries
<1>11. BitsSound'
  BY <1>1, <1>5, <1>6, <1>7, <1>8, <1>c DEF BitsSound, Clearing
<1>12. KeysOnce'
  BY <1>1, <1>5, <1>c, <1>6, <1>7, <1>8, <1>9 DEF KeysOnce
<1>13. ASSUME NEW j \in Keys, j # k
       PROVE  Get(j)' = Get(j) /\ (Found(j)' <=> Found(j))
  <2>1. Hash[j] \in Positions
    BY Constants
  <2> QED BY <1>1, <1>2, <1>5, <1>6, <1>7, <1>8, <1>10, <1>12, <1>13, <1>c, <2>1, GetKeeps
<1>14. Get(k) = table[e].value /\ Found(k)
  BY <1>1, <1>2, <1>5, <1>c, GetFinds DEF GetSound
<1>15. Get(k)' = table[e].value
  <2>1. (TableTypeOK /\ KeysOnce => GetSound)'
    BY GetFinds, PTL
  <2>2. far \in table'[Hash[k]].hop_info /\ table'[wrap_pos(Hash[k] + far)].key = k
    BY <1>1, <1>5, <1>6, <1>7
  <2>3. Get(k)' = table'[wrap_pos(Hash[k] + far)].value
    BY <1>5, <1>10, <1>12, <2>1, <2>2 DEF GetSound
  <2> QED BY <1>1, <1>5, <1>6, <2>3
<1>16. k # op.key
  BY <1>1, <1>14
<1>17. Calls' /\ Moving' /\ Removing'
  BY DEF Calls, Moving, Removing, Working
<1>18. \A q : Unreachable(q)' <=> (Unreachable(q) /\ q # free) \/ q = e
  <2>1. Unreachable(e)'
    BY <1>1, <1>5, <1>7, <1>8 DEF Unreachable
  <2>2. ASSUME NEW q, q # e PROVE Unreachable(q)' <=> Unreachable(q) /\ q # free
    <3>1. Unreachable(q)' => Unreachable(q) /\ q # free
      BY <1>1, <1>2, <1>7, <2>2 DEF Unreachable
    <3>2. Unreachable(q) /\ q # free => Unreachable(q)'
      BY <1>1, <1>7 DEF Unreachable
    <3> QED BY <3>1, <3>2
  <2> QED BY <2>1, <2>2
<1>19. Placing'
  BY <1>1, <1>4, <1>13, <1>16, <1>18 DEF Placing, Working
<1>20. LostSound'
  <2>1. Stranded' = (Stranded \ {free}) \cup {e}
    BY <1>1, <1>5, <1>6, <1>18, <1>c, Constants DEF Stranded
  <2>2. Stranded = lost \cup {free} /\ free \notin lost
    BY <1>1, <1>5, Constants DEF LostSound, Working
  <2>3. ~ Unreachable(e)
    BY <1>1, <1>2 DEF Unreachable
  <2>4. e \notin lost
    BY <2>2, <2>3 DEF Stranded
  <2>5. table'[free'].key # INVALIDENTRY
    BY <1>1, <1>4, <1>5, <1>6, <1>c, Constants
  <2> QED BY <1>4, <2>1, <2>2, <2>4, <2>5 DEF LostSound, Working
<1>21. SameMap
  BY <1>13, <1>14, <1>15 DEF SameMap
<1> QED BY <1>10, <1>11, <1>12, <1>17, <1>19, <1>20, <1>21

-----------------------------------------------------------------------------
(* Removes                                                                 *)

LEMMA RemoveKeyStep ==
  ASSUME HashInv, RemoveKey
  PROVE  HashInv' /\ Stores(op.key, NoValue) /\ Get(op.key) # NoValue
<1> USE DEF HashInv, RemoveKey
<1> DEFINE h0 == Hash[op.key]
<1>0. op.key \in Keys /\ h0 \in Positions
  BY OpTyped
<1>1. PICK c \in table[h0].hop_info : table[wrap_pos(h0 + c)].key = op.key
  BY <1>0, GetFinds DEF GetSound
<1> DEFINE x == wrap_pos(h0 + c)
<1>2. /\ Place(op.key) = x /\ Get(op.key) = table[x].value
      /\ x \in Positions /\ c \in 0 .. (HopRange - 1)
  BY <1>0, <1>1, GetFinds, BitPosition DEF GetSound
<1>3. wrap_pos(x - h0) = c
  BY <1>0, <1>2, Ring
<1>4. Get(op.key) # NoValue
  BY <1>0, <1>1, <1>2, Constants DEF BitsSound, Clearing
<1>5. free' = x /\ table' = [table EXCEPT ![x].key = INVALIDENTRY]
  BY <1>2
<1>6. \A h \in Positions : \A d \in table[h].hop_info :
          wrap_pos(h + d) \in Positions /\ (wrap_pos(h + d) = x => h = h0 /\ d = c)
  BY <1>0, <1>1, BitPosition, OneBit
<1> HIDE DEF x
<1>7. /\ table' \in [Positions -> Entries]
      /\ \A p \in Positions : /\ table'[p].hop_info = table[p].hop_info
                              /\ table'[p].key = IF p = x THEN INVALIDENTRY ELSE table[p].key
                              /\ table'[p].value = table[p].value
  BY <1>2, <1>5, StoreKey
<1>8. TableTypeOK'
  BY <1>2, <1>5, <1>7 DEF TableTypeOK, Entries
<1>9. Distance' = c
  BY <1>3, <1>5 DEF Distance
<1>10. BitsSound'
  BY <1>0, <1>6, <1>7, <1>9 DEF BitsSound, Clearing
<1>11. KeysOnce'
  <2> SUFFICES ASSUME NEW h \in Positions, NEW d \in table[h].hop_info, NEW g \in table[h].hop_info,
                      table'[wrap_pos(h + d)].key = table'[wrap_pos(h + g)].key
               PROVE  d = g
    BY <1>7 DEF KeysOnce
  <2>1. table[wrap_pos(h + d)].key \in Keys /\ table[wrap_pos(h + g)].key \in Keys
    BY DEF BitsSound, Clearing
  <2> QED BY <1>6, <1>7, <2>1, Constants DEF KeysOnce
<1>12. Calls' /\ Placing' /\ Moving'
  BY DEF Calls, Placing, Moving, Working
<1>13. Removing'
  BY <1>0, <1>1, <1>2, <1>5, <1>7, <1>9 DEF Removing
<1>14. \A p : Unreachable(p)' <=> Unreachable(p)
  BY <1>7 DEF Unreachable
<1>15. ~ Unreachable(x)
  BY <1>0, <1>1 DEF Unreachable, x
<1>16. LostSound'
  <2>1. Stranded' = Stranded
    BY <1>7, <1>14, <1>15 DEF Stranded
  <2> QED BY <2>1 DEF LostSound, Working
<1>17. ASSUME NEW k \in Keys PROVE Get(k)' = IF k = op.key THEN NoValue ELSE Get(k)
  <2>1. Hash[k] \in Positions
    BY Constants
  <2>2. CASE k = op.key
    <3>1. (TableTypeOK /\ KeysOnce => GetSound)'
      BY GetFinds, PTL
    <3>2. \A d \in table[h0].hop_info : table'[wrap_pos(h0 + d)].key # k
      <4>1. INVALIDENTRY # k
        BY Constants
      <4> QED BY <1>0, <1>1, <1>6, <1>7, <2>2, <4>1 DEF KeysOnce, x
    <3>3. ~ Found(k)'
      BY <1>0, <1>7, <1>8, <1>11, <2>2, <3>1, <3>2 DEF GetSound
    <3> QED BY <1>8, <1>11, <2>2, <3>1, <3>3 DEF GetSound
  <2>3. CASE k # op.key
    <3>1. Get(k)' = Get(k)
      <4>1. table[x].key = op.key /\ INVALIDENTRY # k
        BY <1>1, Constants DEF x
      <4> QED BY <1>6, <1>7, <1>8, <1>11, <2>1, <2>3, <4>1, GetKeeps
    <3> QED BY <2>3, <3>1
  <2> QED BY <2>2, <2>3
<1> QED BY <1>4, <1>8, <1>10, <1>11, <1>12, <1>13, <1>16, <1>17 DEF Stores

LEMMA RemoveValueStep ==
  ASSUME HashInv, RemoveValue
  PROVE  HashInv' /\ SameMap
<1> USE DEF HashInv, RemoveValue
<1>0. op.key \in Keys /\ Hash[op.key] \in Positions /\ free \in Positions
  BY OpTyped DEF TableTypeOK
<1>1. table[free].key = INVALIDENTRY
  BY DEF Removing
<1>2. /\ table' \in [Positions -> Entries]
      /\ \A p \in Positions : /\ table'[p].hop_info = table[p].hop_info
                              /\ table'[p].key = table[p].key
                              /\ table'[p].value = IF p = free THEN NoValue ELSE table[p].value
  BY <1>0, StoreValue
<1>3. TableTypeOK'
  BY <1>2 DEF TableTypeOK, Entries
<1>4. BitsSound'
  BY <1>1, <1>2, Constants, BitPosition DEF BitsSound, Clearing, Distance
<1>5. KeysOnce'
  BY <1>2, BitPosition DEF KeysOnce
<1>6. Calls' /\ Placing' /\ Moving'
  BY DEF Calls, Placing, Moving, Working
<1>7. Removing'
  BY <1>0, <1>1, <1>2 DEF Removing, Distance
<1>8. LostSound'
  <2>1. \A p : Unreachable(p)' <=> Unreachable(p)
    BY <1>2 DEF Unreachable
  <2>2. Stranded' = Stranded
    BY <1>2, <2>1 DEF Stranded
  <2> QED BY <2>2 DEF LostSound, Working
<1>9. ASSUME NEW k \in Keys PROVE Get(k)' = Get(k)
  <2>1. Hash[k] \in Positions /\ k # INVALIDENTRY
    BY Constants
  <2> QED BY <1>1, <1>2, <1>3, <1>5, <2>1, BitPosition, GetKeeps
<1> QED BY <1>3, <1>4, <1>5, <1>6, <1>7, <1>8, <1>9 DEF SameMap

LEMMA RemoveHopInfoStep ==
  ASSUME HashInv, RemoveHopInfo
  PROVE  HashInv' /\ SameMap
<1> USE DEF HashInv, RemoveHopInfo
<1> DEFINE h0 == Hash[op.key]
           b == table[h0].hop_info \ {Distance}
<1>0. op.key \in Keys /\ h0 \in Positions /\ free \in Positions
  BY OpTyped DEF TableTypeOK
<1>1. /\ table[free].key = INVALIDENTRY /\ Distance \in table[h0].hop_info
      /\ wrap_pos(h0 + Distance) = free
  <2>1. table[free].key = INVALIDENTRY /\ Distance \in table[h0].hop_info
    BY DEF Removing
  <2>2. wrap_pos(h0 + wrap_pos(free - h0)) = free
    BY <1>0, <2>1, BitPosition, Ring
  <2> QED BY <2>1, <2>2 DEF Distance
<1>2. b \in SUBSET (0 .. (HopRange - 1)) /\ table' = [table EXCEPT ![h0].hop_info = b]
  BY <1>0 DEF TableTypeOK
<1> HIDE DEF h0
<1>3. /\ table' \in [Positions -> Entries]
      /\ \A p \in Positions : /\ table'[p].hop_info = IF p = h0 THEN b ELSE table[p].hop_info
                              /\ table'[p].key = table[p].key
                              /\ table'[p].value = table[p].value
  <2> HIDE DEF b
  <2> QED BY <1>0, <1>2, StoreHopInfo
<1>4. \A h \in Positions : \A d :
          d \in table'[h].hop_info <=> d \in table[h].hop_info /\ ~ (h = h0 /\ d = Distance)
  BY <1>3
<1> HIDE DEF b
<1>5. TableTypeOK'
  BY <1>3 DEF TableTypeOK, Entries
<1>6. BitsSound'
  BY <1>3, <1>4, BitPosition DEF BitsSound, Clearing, h0
<1>7. KeysOnce'
  BY <1>3, <1>4, BitPosition DEF KeysOnce
<1>8. Calls' /\ Placing' /\ Moving' /\ Removing'
  BY DEF Calls, Placing, Moving, Removing, Working
<1>9. LostSound'
  <2>1. \A p : p # free => (Unreachable(p)' <=> Unreachable(p))
    BY <1>0, <1>1, <1>4 DEF Unreachable
  <2>2. Stranded' = Stranded
    BY <1>1, <1>3, <2>1 DEF Stranded
  <2> QED BY <2>2 DEF LostSound, Working
<1>10. ASSUME NEW k \in Keys PROVE Get(k)' = Get(k)
  <2>1. Hash[k] \in Positions /\ k # INVALIDENTRY
    BY Constants
  <2> QED BY <1>1, <1>3, <1>4, <1>5, <1>7, <2>1, BitPosition, GetKeeps
<1> QED BY <1>5, <1>6, <1>7, <1>8, <1>9, <1>10 DEF SameMap

-----------------------------------------------------------------------------
(* The invariant holds                                                     *)

LEMMA HashInit == TableInit => HashInv
<1> SUFFICES ASSUME TableInit PROVE HashInv
  OBVIOUS
<1> USE DEF TableInit
<1>1. TableTypeOK
  <2>1. 0 \in 0 .. (HopRange - 1)
    BY Constants
  <2>2. closer \in [position : Positions, distance : 0 .. (HopRange - 1), entry : Positions]
    BY <2>1, Constants DEF NoMove
  <2>3. table \in [Positions -> Entries]
    BY DEF Entries
  <2> QED BY <2>2, <2>3, Constants DEF TableTypeOK, Entries
<1>2. \A p \in Positions : table[p].hop_info = {} /\ table[p].key = INVALIDENTRY
  OBVIOUS
<1>3. BitsSound /\ KeysOnce
  BY <1>2 DEF BitsSound, KeysOnce
<1>4. Calls /\ Placing /\ Moving /\ Removing
  BY DEF Calls, Placing, Moving, Removing, Working
<1>5. LostSound
  BY <1>2 DEF LostSound, Stranded, Working
<1> QED BY <1>1, <1>3, <1>4, <1>5 DEF HashInv

LEMMA UnchangedStep ==
  ASSUME HashInv, UNCHANGED tableVars
  PROVE  HashInv' /\ SameMap
<1> USE DEF HashInv, tableVars
<1>1. TableTypeOK' /\ BitsSound' /\ KeysOnce'
  BY DEF TableTypeOK, BitsSound, KeysOnce, Clearing, Distance
<1>2. \A k \in Keys : Get(k)' = Get(k) /\ (Found(k)' <=> Found(k))
  BY <1>1, GetKeeps
<1>3. Calls' /\ Moving' /\ Removing'
  BY DEF Calls, Moving, Removing, Working, Distance
<1>4. Placing'
  BY DEF Placing, Working, Distance, Found, Matches, Unreachable
<1>5. LostSound'
  BY DEF LostSound, Stranded, Unreachable, Working
<1> QED BY <1>1, <1>2, <1>3, <1>4, <1>5 DEF SameMap

LEMMA HashStep == HashInv /\ [TableNext]_tableVars => HashInv'
<1> SUFFICES ASSUME HashInv, [TableNext]_tableVars PROVE HashInv'
  OBVIOUS
<1>1. ASSUME NEW k \in Keys, NEW v \in Values, Call("put", k, v) \/ Call("remove", k, v)
      PROVE  HashInv'
  BY <1>1, CallStep
<1>2. CASE PutExisting
  BY <1>2, PutExistingStep
<1>3. CASE PutSearch
  BY <1>3, PutSearchStep
<1>4. CASE PutFull \/ RemoveMissing \/ PutGivesUp
  BY <1>4, FailureStep
<1>5. CASE PutValue
  BY <1>5, PutValueStep
<1>6. CASE PutKey
  BY <1>6, PutKeyStep
<1>7. CASE PutHopInfo
  BY <1>7, PutHopInfoStep
<1>8. CASE MoveKey
  BY <1>8, MoveKeyStep
<1>9. CASE MoveValue
  BY <1>9, MoveValueStep
<1>10. CASE MoveHopInfo
  BY <1>10, MoveHopInfoStep
<1>11. CASE RemoveKey
  BY <1>11, RemoveKeyStep
<1>12. CASE RemoveValue
  BY <1>12, RemoveValueStep
<1>13. CASE RemoveHopInfo
  BY <1>13, RemoveHopInfoStep
<1>14. CASE Return
  BY <1>14, ReturnStep
<1>15. CASE UNCHANGED tableVars
  BY <1>15, UnchangedStep
<1> QED
  BY <1>1, <1>2, <1>3, <1>4, <1>5, <1>6, <1>7, <1>8, <1>9, <1>10, <1>11, <1>12, <1>13, <1>14,
     <1>15 DEF TableNext

\* The table keeps its order at every store of put and remove, also while
\* entries move: hashtable_put and hashtable_remove of hashtable.h.
THEOREM HashtableInvariant == TableSpec => []HashInv
<1>1. TableInit => HashInv
  BY HashInit
<1>2. HashInv /\ [TableNext]_tableVars => HashInv'
  BY HashStep
<1> QED BY <1>1, <1>2, PTL DEF TableSpec

-----------------------------------------------------------------------------
(* The table between two calls                                             *)

LEMMA OneEntryPerKey ==
  ASSUME HashInv, pc = "idle"
  PROVE  Cardinality(Reachable) = Cardinality({k \in Keys : Found(k)})
<1> USE DEF HashInv
<1> DEFINE R == Reachable
           K == {k \in Keys : Found(k)}
           f == [p \in R |-> table[p].key]
<1>1. ASSUME NEW p \in R
      PROVE  \E h \in Positions : \E d \in table[h].hop_info :
                 /\ p = wrap_pos(h + d) /\ table[p].key \in Keys /\ Hash[table[p].key] = h
                 /\ Found(table[p].key)
  <2>0. PICK h \in Positions : \E d \in table[h].hop_info : p = wrap_pos(h + d)
    BY DEF Reachable
  <2>1. PICK d \in table[h].hop_info : p = wrap_pos(h + d)
    BY <2>0
  <2>2. table[p].key \in Keys /\ Hash[table[p].key] = h
    BY <2>1 DEF BitsSound, Clearing
  <2> QED BY <2>1, <2>2, GetFinds DEF GetSound
<1>2. f \in [R -> K]
  BY <1>1
<1>3. ASSUME NEW p \in R, NEW q \in R, f[p] = f[q] PROVE p = q
  BY <1>1, <1>3 DEF KeysOnce
<1>4. ASSUME NEW k \in K PROVE \E p \in R : f[p] = k
  <2>1. PICK d \in table[Hash[k]].hop_info : table[wrap_pos(Hash[k] + d)].key = k
    BY GetFinds DEF GetSound
  <2>2. Hash[k] \in Positions
    BY Constants
  <2>3. wrap_pos(Hash[k] + d) \in R
    BY <2>1, <2>2, BitPosition DEF Reachable
  <2> QED BY <2>1, <2>3
<1>5. IsFiniteSet(R)
  <2>1. IsFiniteSet(0 .. (Size - 1))
    <3>1. 0 \in Int /\ Size - 1 \in Int
      BY Constants
    <3> QED BY <3>1, FS_Interval
  <2>2. R \in SUBSET (0 .. (Size - 1))
    BY DEF Reachable, Positions
  <2> QED BY <2>1, <2>2, FS_Subset
<1>6. ExistsBijection(R, K)
  <2>1. f \in Injection(R, K)
    BY <1>2, <1>3 DEF Injection, IsInjective
  <2>2. f \in Surjection(R, K)
    BY <1>2, <1>4 DEF Surjection
  <2> QED BY <2>1, <2>2 DEF ExistsBijection, Bijection
<1> HIDE DEF R, K
<1>7. Cardinality(K) = Cardinality(R)
  BY <1>5, <1>6, FS_Bijection
<1> QED BY <1>7 DEF R, K

\* Between two calls the bits, the keys and the entries in use fit together,
\* and only entries that a put gave up are lost (find_closer_entry and the end
\* of hashtable_put, hashtable.h).
THEOREM TableIsSound == TableSpec => []TableSound
<1>1. HashInv => TableSound
  <2> SUFFICES ASSUME HashInv PROVE HopInfoSound /\ SlotsLostOnlyWhenGivingUp
    BY DEF TableSound, HashInv
  <2> USE DEF HashInv
  <2>1. CASE pc = "idle"
    <3>1. ASSUME NEW h \in Positions, NEW d \in table[h].hop_info, NEW k,
                 k = table[wrap_pos(h + d)].key
          PROVE  k \in Keys /\ Hash[k] = h /\ Matches(k) = {d}
      <4>1. k \in Keys /\ Hash[k] = h
        BY <2>1, <3>1 DEF BitsSound, Clearing
      <4> QED BY <3>1, <4>1, GetFinds DEF GetSound
    <3>2. HopInfoSound
      BY <3>1, <2>1, OneEntryPerKey DEF HopInfoSound
    <3>3. Occupied \ Reachable = Stranded
      BY DEF Occupied, Reachable, Stranded, Unreachable
    <3>4. SlotsLostOnlyWhenGivingUp
      BY <2>1, <3>3 DEF SlotsLostOnlyWhenGivingUp, LostSound, Working
    <3> QED BY <3>2, <3>4
  <2>2. CASE pc # "idle"
    BY <2>2 DEF HopInfoSound, SlotsLostOnlyWhenGivingUp
  <2> QED BY <2>1, <2>2
<1> QED BY <1>1, HashtableInvariant, PTL

-----------------------------------------------------------------------------
(* The table is a map                                                      *)

map == [k \in Keys |-> Get(k)]

call == [op |-> op.op, key |-> op.key, value |-> op.value, state |-> CallState]

LEMMA SameMapKept == SameMap => map' = map
BY DEF SameMap, map

LEMMA MapStored ==
  ASSUME NEW v, op.key \in Keys, Stores(op.key, v)
  PROVE  map' = [map EXCEPT ![op.key] = v]
BY DEF Stores, map

LEMMA CallStates ==
  /\ pc = "idle" => CallState = "none"
  /\ pc \in {"success", "remove_value", "remove_hop_info"} => CallState = "done"
  /\ pc = "failed" => CallState = "failed"
  /\ pc \in {"put", "place", "put_key", "put_hop_info", "move_value", "move_hop_info", "remove"} =>
        CallState = "called"
BY DEF CallState

LEMMA MapInit == TableInit => Abstract!Init
<1> SUFFICES ASSUME TableInit PROVE map = [k \in Keys |-> NoValue] /\ call = Abstract!Free
  BY DEF Abstract!Init, map, call
<1>1. HashInv
  BY HashInit
<1>2. \A k \in Keys : Get(k) = NoValue
  <2> SUFFICES ASSUME NEW k \in Keys PROVE Get(k) = NoValue
    OBVIOUS
  <2>1. table[Hash[k]].hop_info = {}
    BY Constants DEF TableInit
  <2> QED BY <1>1, <2>1, GetFinds DEF GetSound, HashInv
<1>3. call = Abstract!Free
  BY CallStates DEF TableInit, call, NoOp, Abstract!Free
<1> QED BY <1>2, <1>3 DEF map

LEMMA IdleCall == HashInv /\ pc = "idle" => call = Abstract!Free
BY CallStates DEF call, Abstract!Free, NoOp, HashInv, Calls

LEMMA MapStep == HashInv /\ [TableNext]_tableVars => [Abstract!Next]_(Abstract!vars)
<1> SUFFICES ASSUME HashInv, [TableNext]_tableVars PROVE [Abstract!Next]_<<map, call>>
  BY DEF Abstract!Next, Abstract!vars, Abstract!Start, Abstract!Effect, Abstract!Failure,
         Abstract!Return, Abstract!Free, map, call
<1>0. pc = "idle" => call = Abstract!Free
  BY IdleCall
<1>a. ASSUME SameMap, UNCHANGED op, CallState' = CallState
      PROVE  UNCHANGED <<map, call>>
  BY <1>a, SameMapKept DEF call
<1>b. ASSUME NEW v \in Values \cup {NoValue}, Stores(op.key, v), UNCHANGED op, pc # "idle",
             CallState = "called", CallState' = "done",
             \/ op.op = "put" /\ v = op.value
             \/ op.op = "remove" /\ v = NoValue /\ Get(op.key) # NoValue
      PROVE  Abstract!Effect
  <2>1. op.key \in Keys
    BY <1>b, OpTyped
  <2>2. map' = [map EXCEPT ![op.key] = v] /\ map[op.key] = Get(op.key)
    BY <1>b, <2>1, MapStored DEF map
  <2>3. call' = [call EXCEPT !.state = "done"] /\ call.state = "called"
    BY <1>b DEF call
  <2>4. call.op = op.op /\ call.key = op.key /\ call.value = op.value
    BY DEF call
  <2> QED BY <1>b, <2>2, <2>3, <2>4 DEF Abstract!Effect, map, call
<1>1. ASSUME NEW o \in {"put", "remove"}, NEW k \in Keys, NEW v \in Values, Call(o, k, v)
      PROVE  Abstract!Start
  <2>1. (pc = "put" \/ pc = "remove" => CallState = "called")'
    BY DEF CallState
  <2>2. call' = [op |-> o, key |-> k, value |-> v, state |-> "called"]
    BY <1>1, <2>1 DEF Call, call
  <2>3. map' = map /\ call = Abstract!Free
    BY <1>0, <1>1, CallStep, SameMapKept DEF Call
  <2> QED BY <2>2, <2>3 DEF Abstract!Start, map, call
<1>2. CASE PutExisting
  <2>1. CallState = "called" /\ CallState' = "done"
    BY <1>2 DEF PutExisting, CallState
  <2>2. op.op = "put" /\ op.value \in Values /\ pc # "idle" /\ UNCHANGED op
    BY <1>2, OpTyped DEF PutExisting, HashInv, Calls
  <2>3. Abstract!Effect
    BY <1>2, <1>b, <2>1, <2>2, PutExistingStep
  <2> QED BY <2>3 DEF Abstract!Next
<1>3. CASE PutHopInfo
  <2>1. CallState = "called" /\ CallState' = "done"
    BY <1>3 DEF PutHopInfo, CallState
  <2>2. op.op = "put" /\ op.value \in Values /\ pc # "idle" /\ UNCHANGED op
    BY <1>3, OpTyped DEF PutHopInfo, HashInv, Calls, Working
  <2>3. Abstract!Effect
    BY <1>3, <1>b, <2>1, <2>2, PutHopInfoStep
  <2> QED BY <2>3 DEF Abstract!Next
<1>4. CASE RemoveKey
  <2>1. CallState = "called" /\ CallState' = "done"
    BY <1>4 DEF RemoveKey, CallState
  <2>2. op.op = "remove" /\ pc # "idle" /\ UNCHANGED op
    BY <1>4 DEF RemoveKey, HashInv, Calls
  <2>3. Abstract!Effect
    BY <1>4, <1>b, <2>1, <2>2, RemoveKeyStep
  <2> QED BY <2>3 DEF Abstract!Next
<1>5. CASE PutFull \/ RemoveMissing \/ PutGivesUp
  <2>1. CallState = "called" /\ CallState' = "failed" /\ UNCHANGED op /\ pc # "idle"
    BY <1>5 DEF PutFull, RemoveMissing, PutGivesUp, CallState
  <2>2. op.op = "remove" => Get(op.key) = NoValue
    <3>1. op.op = "remove" => ~ Found(op.key)
      BY <1>5 DEF PutFull, RemoveMissing, PutGivesUp, HashInv, Calls, Working
    <3> QED BY <3>1, <2>1, GetFinds, OpTyped DEF GetSound, HashInv
  <2>3. op.op = "remove" => map[op.key] = NoValue
    BY <2>1, <2>2, OpTyped DEF map
  <2>4. call' = [call EXCEPT !.state = "failed"] /\ call.state = "called"
    BY <2>1 DEF call
  <2>5. call.op = op.op /\ call.key = op.key
    BY DEF call
  <2>6. map' = map
    BY <1>5, FailureStep, SameMapKept
  <2>7. Abstract!Failure
    BY <2>3, <2>4, <2>5, <2>6 DEF Abstract!Failure, map, call
  <2> QED BY <2>7 DEF Abstract!Next
<1>6. CASE Return
  <2>1. CallState \in {"done", "failed"}
    BY <1>6 DEF Return, CallState
  <2>2. (HashInv /\ pc = "idle" => call = Abstract!Free)'
    BY IdleCall, PTL
  <2>3. call' = Abstract!Free /\ map' = map
    BY <1>6, <2>2, ReturnStep, SameMapKept DEF Return, Abstract!Free
  <2>4. call.state \in {"done", "failed"}
    BY <2>1 DEF call
  <2>5. Abstract!Return
    BY <2>3, <2>4 DEF Abstract!Return, map, call
  <2> QED BY <2>5 DEF Abstract!Next
<1>7. CASE \/ PutSearch \/ PutValue \/ PutKey \/ MoveKey \/ MoveValue \/ MoveHopInfo
           \/ RemoveValue \/ RemoveHopInfo
  <2>1. UNCHANGED op /\ CallState' = CallState
    BY <1>7 DEF PutSearch, PutValue, PutKey, MoveKey, MoveValue, MoveHopInfo, RemoveValue,
                RemoveHopInfo, CallState
  <2>2. SameMap
    BY <1>7, PutSearchStep, PutValueStep, PutKeyStep, MoveKeyStep, MoveValueStep,
       MoveHopInfoStep, RemoveValueStep, RemoveHopInfoStep
  <2> QED BY <1>a, <2>1, <2>2
<1>8. CASE UNCHANGED tableVars
  <2>1. UNCHANGED op /\ CallState' = CallState
    BY <1>8 DEF tableVars, CallState
  <2> QED BY <1>8, <1>a, <2>1, UnchangedStep
<1>9. ASSUME NEW k \in Keys, NEW v \in Values, Call("put", k, v) \/ Call("remove", k, v)
      PROVE  Abstract!Next
  BY <1>1, <1>9 DEF Abstract!Next
<1> QED BY <1>2, <1>3, <1>4, <1>5, <1>6, <1>7, <1>8, <1>9 DEF TableNext

\* With a reader between any two stores, the table behaves like the map of
\* KeyValueMap: a call has its effect in one step, at its own key, and only if
\* it succeeds (hashtable_put, hashtable_remove and hashtable_get).
THEOREM HashtableImplementsMap == TableSpec => ImplementsMap
<1>1. HashInv /\ [TableNext]_tableVars => [Abstract!Next]_(Abstract!vars)
  BY MapStep
<1> QED BY MapInit, <1>1, HashtableInvariant, PTL DEF TableSpec, ImplementsMap, Abstract!Spec
=============================================================================
