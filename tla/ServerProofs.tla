---------------------------- MODULE ServerProofs ----------------------------
(***************************************************************************)
(* Proofs about Server for every list of servers, every number of clients, *)
(* descriptors and failures, and every length of a batch of events.        *)
(***************************************************************************)
EXTENDS Server, TLAPS

Targets == Servers \cup Clients

\* The daemon is about to end, or has.
Ending == {"destroy", "cleanup", "exited", "crashed"}

Starting == {"init", "create", "add"}

Types ==
    /\ plan \in Seq(Servers) /\ started \in 0 .. Len(plan)
    /\ failures \in Nat
    /\ accepting \in Servers \cup {NoServer}
    /\ waiting \in [Clients -> Servers \cup {NoServer}]
    /\ closed_by \in [Clients -> {"nobody", "itself", "another"}]
    /\ arrived \subseteq Clients
    /\ batch \in Seq([ev : Targets, events : Events])
    /\ current_ev \in Targets \cup {NoEvent}

\* Which server sockets are open: those that are started and the next one.
\* Where the thread is says how many that are.
ServersOpen ==
    /\ \A s \in open \cap Servers : \E i \in 1 .. Len(plan) :
          /\ s = plan[i]
          /\ i <= started \/ (i = started + 1 /\ pc \in {"add", "accept"})
    /\ pc \notin Ending =>
          \A s \in open \cap Servers : s \in registered \/ (pc = "add" /\ s = plan[started + 1])
    /\ pc \in {"init", "exited"} => started = 0
    /\ pc = "add" => started < Len(plan)
    /\ started < Len(plan) => pc \in Starting \cup {"accept", "cleanup", "exited"}

\* The descriptors of connections, and what epoll and the peer list know.
Connections ==
    /\ open \subseteq Servers \cup arrived
    /\ registered \subseteq Targets /\ registered \cap Clients \subseteq open
    /\ due \subseteq registered
    /\ peer_list \subseteq open \cap Clients
    /\ broken \subseteq arrived /\ broken \cap peer_list = {}
    /\ failures = 0 => open \cap Clients \subseteq registered
    /\ \A c \in Clients : waiting[c] # NoServer =>
          /\ c \in arrived /\ c \notin open /\ c \notin broken
          /\ waiting[c] \in open

\* A connection with an event in the batch is open, or another's handler has
\* closed it.
Batches ==
    /\ \A i \in DOMAIN batch : LET c == batch[i].ev IN
          c \in Clients => /\ c \in arrived /\ waiting[c] = NoServer
                           /\ c \in open \/ closed_by[c] = "another"
    /\ \A i, j \in DOMAIN batch : batch[i].ev = batch[j].ev => i = j
    /\ pc \in {"read", "write", "error"} =>
          batch # <<>> /\ batch[1].ev \in Clients /\ batch[1].ev = current_ev
    /\ pc = "accept" /\ started = Len(plan) => batch # <<>> /\ batch[1].ev = accepting
    /\ pc = "accept" /\ started < Len(plan) => batch = <<>> /\ accepting = plan[started + 1]
    /\ pc \in Starting \cup {"test", "tested", "wait"} => batch = <<>>
    /\ accepting # NoServer <=> pc = "accept"

\* Nobody waits at a server without an event that is due, in the batch or at
\* work.
Wakes ==
    pc \notin Ending => \A c \in Clients :
        waiting[c] # NoServer /\ waiting[c] \in registered =>
            \/ waiting[c] \in due \/ waiting[c] = accepting
            \/ \E i \in DOMAIN batch : batch[i].ev = waiting[c]

\* Only a loop that was never entered leaves peers.
PeersGone ==
    /\ entered \in BOOLEAN
    /\ pc \in {"cleanup", "exited"} /\ entered => peer_list = {}
    /\ pc \in Starting => ~entered
    /\ pc = "accept" /\ started < Len(plan) => ~entered

ServerInv ==
    /\ Types /\ ServersOpen /\ Connections /\ Batches /\ Wakes /\ PeersGone
    /\ CrashExplained

-----------------------------------------------------------------------------
\* The first event, and those after it.
LEMMA HeadAndTail ==
  ASSUME NEW S, NEW s \in Seq(S), s # <<>>
  PROVE  /\ s[1] \in S /\ Tail(s) \in Seq(S)
         /\ \A i \in DOMAIN Tail(s) : i + 1 \in DOMAIN s /\ Tail(s)[i] = s[i + 1]
         /\ \A i \in DOMAIN s : i = 1 \/ (i - 1 \in DOMAIN Tail(s) /\ Tail(s)[i - 1] = s[i])
OBVIOUS

LEMMA ServerInit == Init => ServerInv
<1> SUFFICES ASSUME Init PROVE ServerInv
  OBVIOUS
<1> USE ConstantsAssumption DEF ConstantsAssumption, Init
<1>1. Types
  BY DEF Types, Targets
<1>2. ServersOpen /\ Connections /\ Batches
  BY DEF ServersOpen, Connections, Batches, Ending, Starting
<1>3. Wakes /\ PeersGone /\ CrashExplained
  BY DEF Wakes, PeersGone, CrashExplained
<1> QED BY <1>1, <1>2, <1>3 DEF ServerInv

\* What the world does.
LEMMA ConnectStep ==
  ASSUME ServerInv, NEW c \in Clients, Connect(c)
  PROVE  ServerInv'
<1> USE ConstantsAssumption DEF ConstantsAssumption, Connect, loopVars
<1>1. Types' /\ PeersGone' /\ CrashExplained'
  BY DEF ServerInv, Types, PeersGone, CrashExplained
<1>2. ServersOpen'
  BY DEF ServerInv, ServersOpen
<1>3. Connections'
  BY DEF ServerInv, Types, Connections, Targets
<1>4. Batches'
  BY DEF ServerInv, Types, Batches, Connections
<1>5. Wakes'
  BY DEF ServerInv, Types, Wakes
<1> QED BY <1>1, <1>2, <1>3, <1>4, <1>5 DEF ServerInv

LEMMA EdgeStep ==
  ASSUME ServerInv, NEW c \in Clients, Edge(c)
  PROVE  ServerInv'
BY DEF Edge, loopVars, worldVars, ServerInv, Types, ServersOpen, Connections, Batches, Wakes,
       PeersGone, CrashExplained

LEMMA SigHandlerStep ==
  ASSUME ServerInv, SigHandler
  PROVE  ServerInv'
BY DEF SigHandler, loopVars, connectionVars, ServerInv, Types, ServersOpen, Connections, Batches,
       Wakes, PeersGone, CrashExplained, Ending, Starting

-----------------------------------------------------------------------------
\* Starting
LEMMA StartSteps ==
  ASSUME ServerInv, RunIo \/ CreateServerSocket \/ CreateServerSocketFails \/ RunJet
  PROVE  ServerInv'
<1> USE ConstantsAssumption
    DEF ConstantsAssumption, loopVars, worldVars, connectionVars, Fine, OneFailure, CanFail,
        Ending, Starting
<1>1. CASE RunIo
  BY <1>1 DEF RunIo, ServerInv, Types, ServersOpen, Connections, Batches, Wakes, PeersGone,
              CrashExplained
<1>2. CASE CreateServerSocket
  <2>1. Types' /\ PeersGone' /\ CrashExplained' /\ Batches'
    BY <1>2 DEF CreateServerSocket, ServerInv, Types, PeersGone, CrashExplained, Batches
  <2>2. Server = plan[started + 1] /\ Server \in Servers /\ started + 1 \in 1 .. Len(plan)
    BY <1>2 DEF CreateServerSocket, ServerInv, Types, Server
  <2>3. Connections' /\ Wakes'
    BY <1>2, <2>2 DEF CreateServerSocket, ServerInv, Types, Connections, Wakes
  <2>4. ServersOpen'
    BY <1>2, <2>2 DEF CreateServerSocket, ServerInv, Types, ServersOpen
  <2> QED BY <2>1, <2>3, <2>4 DEF ServerInv
<1>3. CASE CreateServerSocketFails
  BY <1>3 DEF CreateServerSocketFails, ServerInv, Types, ServersOpen, Connections, Batches,
              Wakes, PeersGone, CrashExplained
<1>4. CASE RunJet
  <2>1. Types' /\ CrashExplained'
    BY <1>4 DEF RunJet, ServerInv, Types, CrashExplained
  <2>4. PeersGone'
    <3>1. \/ pc' = "test" /\ entered' = TRUE
          \/ pc' = "cleanup" /\ entered' = FALSE
      BY <1>4 DEF RunJet
    <3> QED BY <3>1 DEF PeersGone
  <2>2. Batches' /\ Wakes'
    BY <1>4 DEF RunJet, ServerInv, Types, Batches, Wakes
  <2>3. Connections' /\ ServersOpen'
    BY <1>4 DEF RunJet, ServerInv, Types, Connections, ServersOpen
  <2> QED BY <2>1, <2>2, <2>3, <2>4 DEF ServerInv
<1> QED BY <1>1, <1>2, <1>3, <1>4

\* Closing a server loses its backlog.
LEMMA AddServerStep ==
  ASSUME ServerInv, AddServer
  PROVE  ServerInv'
<1> USE ConstantsAssumption
    DEF ConstantsAssumption, worldVars, Fine, OneFailure, CanFail, Ending, Starting
<1>1. /\ Server = plan[started + 1] /\ Server \in Servers /\ started + 1 \in 1 .. Len(plan)
      /\ pc = "add" /\ batch = <<>> /\ accepting = NoServer
      /\ UNCHANGED <<started, worldVars, batch, peer_list, broken, current_ev, closed_by>>
  BY DEF AddServer, ServerInv, Types, ServersOpen, Batches, Server
<1>2. CASE /\ Fine /\ registered' = registered \cup {Server}
           /\ due' = due \cup {s \in {Server} : Backlog(s) # {}}
           /\ accepting' = Server /\ pc' = "accept"
           /\ UNCHANGED <<open, waiting>>
  <2>1. Types' /\ PeersGone' /\ CrashExplained'
    BY <1>1, <1>2 DEF ServerInv, Types, PeersGone, CrashExplained, Targets
  <2>2. Batches' /\ Wakes' /\ Connections'
    BY <1>1, <1>2 DEF ServerInv, Types, Batches, Wakes, Connections, Targets, Backlog
  <2>3. ServersOpen'
    BY <1>1, <1>2 DEF ServerInv, Types, ServersOpen
  <2> QED BY <2>1, <2>2, <2>3 DEF ServerInv
<1>3. CASE /\ OneFailure /\ CloseServer(Server) /\ pc' = "cleanup"
           /\ UNCHANGED <<registered, due, accepting>>
  <2> USE DEF CloseServer
  <2>1. Types' /\ PeersGone' /\ CrashExplained'
    BY <1>1, <1>3 DEF ServerInv, Types, PeersGone, CrashExplained
  <2>2. Batches' /\ Wakes' /\ Connections'
    BY <1>1, <1>3 DEF ServerInv, Types, Batches, Wakes, Connections
  <2>3. ServersOpen'
    BY <1>1, <1>3 DEF ServerInv, Types, ServersOpen
  <2> QED BY <2>1, <2>2, <2>3 DEF ServerInv
<1> QED BY <1>2, <1>3 DEF AddServer

\* Accepting
LEMMA AcceptWouldBlockStep ==
  ASSUME ServerInv, AcceptWouldBlock
  PROVE  ServerInv'
<1> USE ConstantsAssumption
    DEF ConstantsAssumption, worldVars, connectionVars, Ending, Starting, AcceptWouldBlock
<1>1. CASE started < Len(plan)
  <2>1. Types' /\ PeersGone' /\ CrashExplained'
    BY <1>1 DEF ServerInv, Types, PeersGone, CrashExplained
  <2>2. Batches' /\ Wakes' /\ Connections'
    BY <1>1 DEF ServerInv, Types, Batches, Wakes, Connections, Backlog
  <2>3. ServersOpen'
    BY <1>1 DEF ServerInv, Types, ServersOpen, Batches
  <2> QED BY <2>1, <2>2, <2>3 DEF ServerInv
<1>2. CASE started = Len(plan)
  <2>1. /\ batch # <<>> /\ batch[1].ev = accepting /\ batch' = Tail(batch)
        /\ batch \in Seq([ev : Targets, events : Events])
    BY <1>2 DEF ServerInv, Batches, Types
  <2>2. /\ batch' \in Seq([ev : Targets, events : Events])
        /\ \A i \in DOMAIN batch' : i + 1 \in DOMAIN batch /\ batch'[i] = batch[i + 1]
        /\ \A i \in DOMAIN batch : i = 1 \/ (i - 1 \in DOMAIN batch' /\ batch'[i - 1] = batch[i])
    BY <2>1, HeadAndTail
  <2>3. Types' /\ PeersGone' /\ CrashExplained'
    BY <1>2, <2>2 DEF ServerInv, Types, PeersGone, CrashExplained
  <2>4. Batches'
    BY <1>2, <2>1, <2>2 DEF ServerInv, Types, Batches
  <2>5. Wakes'
    <3> SUFFICES ASSUME NEW c \in Clients, waiting[c] # NoServer, waiting[c] \in registered,
                        waiting[c] \notin due
                 PROVE  \E i \in DOMAIN batch' : batch'[i].ev = waiting[c]
      BY DEF Wakes
    <3>1. waiting[c] # accepting
      BY DEF Backlog
    <3>2. PICK i \in DOMAIN batch : batch[i].ev = waiting[c]
      BY <3>1 DEF ServerInv, Wakes
    <3>3. i # 1
      BY <2>1, <3>1, <3>2
    <3> QED BY <2>2, <3>2, <3>3
  <2>6. Connections' /\ ServersOpen'
    BY <1>2 DEF ServerInv, Types, Connections, ServersOpen
  <2> QED BY <2>3, <2>4, <2>5, <2>6 DEF ServerInv
<1> QED BY <1>1, <1>2 DEF ServerInv, Types

LEMMA AcceptFailsStep ==
  ASSUME ServerInv, AcceptFails
  PROVE  ServerInv'
<1> USE ConstantsAssumption
    DEF ConstantsAssumption, worldVars, Fine, OneFailure, CanFail, Ending, Starting, AcceptFails
<1>1. CASE started < Len(plan)
  <2>1. /\ Server = plan[started + 1] /\ Server \in Servers /\ started + 1 \in 1 .. Len(plan)
        /\ batch = <<>>
    BY <1>1 DEF ServerInv, Types, Batches, Server
  <2>2. Types' /\ PeersGone' /\ CrashExplained'
    BY <1>1, <2>1 DEF ServerInv, Types, PeersGone, CrashExplained, Removed, CloseServer
  <2>3. Batches' /\ Wakes' /\ Connections'
    BY <1>1, <2>1 DEF ServerInv, Types, Batches, Wakes, Connections, Removed, CloseServer
  <2>4. ServersOpen'
    BY <1>1, <2>1 DEF ServerInv, Types, ServersOpen, Removed, CloseServer
  <2> QED BY <2>2, <2>3, <2>4 DEF ServerInv
<1>2. CASE started = Len(plan)
  BY <1>2 DEF ServerInv, Types, ServersOpen, Connections, Batches, Wakes, PeersGone,
              CrashExplained
<1> QED BY <1>1, <1>2 DEF ServerInv, Types

\* What becomes of connection c when it is accepted and its first messages
\* are read: gone are closed, and the other sets hold c or nothing.
Outcome(c, gone, new, listed, known, bad) ==
    /\ gone \subseteq peer_list \cup {c} /\ new \subseteq {c}
    /\ listed \subseteq new /\ bad \subseteq new /\ known \subseteq new
    /\ listed \cap bad = {}
    /\ open' = (open \cup new) \ gone
    /\ peer_list' = (peer_list \cup listed) \ gone
    /\ broken' = broken \cup bad
    /\ registered' = (registered \cup known) \ gone
    /\ due' = (due \cup known) \ gone
    /\ closed_by' \in [Clients -> {"nobody", "itself", "another"}]
    /\ \A x \in Clients : closed_by'[x] = IF x \in gone THEN IF x = c THEN "itself" ELSE "another"
                                         ELSE closed_by[x]
    /\ failures' \in Nat /\ (failures' = 0 => failures = 0 /\ known = new)

\* The ways a connection may be accepted all have such an outcome.
LEMMA NewConnectionOutcome ==
  ASSUME ServerInv, NEW c \in Clients, NewConnection(c)
  PROVE  \E gone, new, listed, known, bad : Outcome(c, gone, new, listed, known, bad)
<1> USE ConstantsAssumption DEF ConstantsAssumption, Fine, OneFailure, CanFail
<1>1. closed_by \in [Clients -> {"nobody", "itself", "another"}] /\ failures \in Nat
  BY DEF ServerInv, Types
<1>2. CASE \E others \in SUBSET peer_list, own \in SUBSET {c}, listed \in SUBSET {c} :
             /\ Served(c, listed, others \cup own)
             /\ registered' = (registered \cup {c}) \ (others \cup own)
             /\ due' = (due \cup {c}) \ (others \cup own)
             /\ Fine /\ UNCHANGED broken
  <2>1. PICK others \in SUBSET peer_list, own \in SUBSET {c}, listed \in SUBSET {c} :
             /\ Served(c, listed, others \cup own)
             /\ registered' = (registered \cup {c}) \ (others \cup own)
             /\ due' = (due \cup {c}) \ (others \cup own)
             /\ Fine /\ UNCHANGED broken
    BY <1>2
  <2>2. closed_by' = [x \in Clients |->
          IF x \in others \cup own THEN IF x = c THEN "itself" ELSE "another" ELSE closed_by[x]]
    BY <2>1 DEF Served
  <2>3. Outcome(c, others \cup own, {c}, listed, {c}, {})
    BY <1>1, <2>1, <2>2 DEF Outcome, Served
  <2> QED BY <2>3
<1>3. CASE OneFailure /\ UNCHANGED <<open, registered, due, peer_list, broken, closed_by>>
  <2>1. Outcome(c, {}, {}, {}, {}, {})
    BY <1>1, <1>3 DEF Outcome
  <2> QED BY <2>1
<1>4. CASE /\ OneFailure /\ open' = open \cup {c} /\ registered' = registered \cup {c}
           /\ due' = due \cup {c} /\ broken' = broken \cup {c}
           /\ UNCHANGED <<peer_list, closed_by>>
  <2>1. Outcome(c, {}, {c}, {}, {c}, {c})
    BY <1>1, <1>4 DEF Outcome
  <2> QED BY <2>1
<1>5. CASE /\ OneFailure /\ open' = open \cup {c} /\ peer_list' = peer_list \cup {c}
           /\ UNCHANGED <<registered, due, broken, closed_by>>
  <2>1. Outcome(c, {}, {c}, {c}, {}, {})
    BY <1>1, <1>5 DEF Outcome
  <2> QED BY <2>1
<1> QED BY <1>2, <1>3, <1>4, <1>5 DEF NewConnection

\* One more connection: it is no longer waiting, whatever came of it.
LEMMA AcceptStep ==
  ASSUME ServerInv, Accept
  PROVE  ServerInv'
<1> USE ConstantsAssumption DEF ConstantsAssumption, loopVars, worldVars, Ending, Starting
<1>1. PICK c \in Backlog(accepting) : waiting' = [waiting EXCEPT ![c] = NoServer] /\ NewConnection(c)
  BY DEF Accept
<1>2. /\ pc = "accept" /\ UNCHANGED <<pc, started, loopVars, worldVars, current_ev>>
      /\ accepting \in Servers
  BY DEF Accept, ServerInv, Types, Batches
<1>3. /\ c \in Clients /\ waiting[c] # NoServer
      /\ c \in arrived /\ c \notin open /\ c \notin broken
      /\ c \notin peer_list /\ c \notin registered /\ c \notin Servers
      /\ \A i \in DOMAIN batch : batch[i].ev # c
  BY <1>1, <1>2 DEF Backlog, ServerInv, Types, Connections, Batches
<1>4. PICK gone, new, listed, known, bad : Outcome(c, gone, new, listed, known, bad)
  BY <1>1, <1>3, NewConnectionOutcome
<1>5. Outcome(c, gone, new, listed, known, bad)
  BY <1>4
<1> USE DEF Outcome
<1>6. gone \cap Servers = {} /\ gone \subseteq Clients
  BY <1>3, <1>5 DEF ServerInv, Connections
<1>7. Types' /\ PeersGone' /\ CrashExplained'
  BY <1>1, <1>2, <1>3, <1>5 DEF ServerInv, Types, PeersGone, CrashExplained, Connections
<1>8. ServersOpen'
  BY <1>2, <1>3, <1>5, <1>6 DEF ServerInv, ServersOpen
<1>9. Connections'
  BY <1>1, <1>2, <1>3, <1>5, <1>6 DEF ServerInv, Types, Connections, Targets
<1>10. Batches'
  BY <1>1, <1>2, <1>3, <1>5 DEF ServerInv, Types, Batches
<1>11. Wakes'
  BY <1>1, <1>2, <1>3, <1>5, <1>6 DEF ServerInv, Types, Wakes
<1> QED BY <1>7, <1>8, <1>9, <1>10, <1>11 DEF ServerInv

-----------------------------------------------------------------------------
\* The event loop
LEMMA WaitSteps ==
  ASSUME ServerInv, TestGoAhead \/ EpollWaitBlocks \/ EpollWaitFails \/ NextEvent
  PROVE  ServerInv'
<1> USE ConstantsAssumption
    DEF ConstantsAssumption, loopVars, worldVars, connectionVars, OneFailure, CanFail, Ending,
        Starting
<1>1. CASE TestGoAhead
  BY <1>1 DEF TestGoAhead, ServerInv, Types, ServersOpen, Connections, Batches, Wakes, PeersGone,
              CrashExplained
<1>2. CASE EpollWaitBlocks
  BY <1>2 DEF EpollWaitBlocks, ServerInv, Types, ServersOpen, Connections, Batches, Wakes,
              PeersGone, CrashExplained
<1>3. CASE EpollWaitFails
  BY <1>3 DEF EpollWaitFails, ServerInv, Types, ServersOpen, Connections, Batches, Wakes,
              PeersGone, CrashExplained
<1>4. CASE NextEvent /\ batch = <<>>
  BY <1>4 DEF NextEvent, ServerInv, Types, ServersOpen, Connections, Batches, Wakes, PeersGone,
              CrashExplained
<1>5. CASE NextEvent /\ batch # <<>>
  <2>1. batch[1].ev \in Targets /\ accepting = NoServer
    <3>1. pc = "events" /\ batch # <<>>
      BY <1>5 DEF NextEvent
    <3>2. batch \in Seq([ev : Targets, events : Events]) /\ accepting = NoServer
      BY <3>1 DEF ServerInv, Types, Batches
    <3>3. batch[1] \in [ev : Targets, events : Events]
      BY <3>1, <3>2, HeadAndTail
    <3> QED BY <3>2, <3>3
  <2>2. CASE batch[1].ev \in Servers
    <3>1. /\ pc' = "accept" /\ accepting' = batch[1].ev /\ current_ev' = batch[1].ev
          /\ UNCHANGED <<started, worldVars, batch, open, registered, due, waiting, peer_list,
                         broken, closed_by, failures>>
      BY <1>5, <2>2 DEF NextEvent
    <3>2. pc = "events"
      BY <1>5 DEF NextEvent
    <3> QED BY <1>5, <2>1, <2>2, <3>1, <3>2 DEF ServerInv, Types, ServersOpen, Connections, Batches,
               Wakes, PeersGone, CrashExplained
  <2>3. CASE batch[1].ev \notin Servers
    <3>1. /\ pc' \in {"read", "write", "error"} /\ current_ev' = batch[1].ev
          /\ UNCHANGED <<started, accepting, worldVars, batch, open, registered, due, waiting,
                         peer_list, broken, closed_by, failures>>
      BY <1>5, <2>3 DEF NextEvent
    <3>2. pc = "events" /\ batch[1].ev \in Clients
      BY <1>5, <2>1, <2>3 DEF NextEvent, Targets
    <3> QED BY <1>5, <2>1, <3>1, <3>2 DEF ServerInv, Types, ServersOpen, Connections, Batches,
               Wakes, PeersGone, CrashExplained
  <2> QED BY <2>2, <2>3
<1> QED BY <1>1, <1>2, <1>3, <1>4, <1>5

\* Every edge that is no longer due is in the batch.
LEMMA EpollWaitStep ==
  ASSUME ServerInv, EpollWait
  PROVE  ServerInv'
<1> USE ConstantsAssumption DEF ConstantsAssumption, worldVars, Ending, Starting
<1>1. PICK n \in 1 .. MaxBatch : \E evs \in [1 .. n -> due], what \in [1 .. n -> Events] :
          /\ \A i, j \in 1 .. n : evs[i] = evs[j] => i = j
          /\ \A i \in 1 .. n : evs[i] \in Servers => what[i] = {"in"}
          /\ batch' = [i \in 1 .. n |-> [ev |-> evs[i], events |-> what[i]]]
          /\ due' = due \ {evs[i] : i \in 1 .. n}
  BY DEF EpollWait
<1>2. PICK evs \in [1 .. n -> due], what \in [1 .. n -> Events] :
          /\ \A i, j \in 1 .. n : evs[i] = evs[j] => i = j
          /\ batch' = [i \in 1 .. n |-> [ev |-> evs[i], events |-> what[i]]]
          /\ due' = due \ {evs[i] : i \in 1 .. n}
  BY <1>1
<1>3. /\ pc = "wait" /\ pc' = "events" /\ accepting = NoServer
      /\ UNCHANGED <<started, accepting, worldVars, open, registered, waiting, peer_list,
                     broken, current_ev, closed_by, failures>>
  BY DEF EpollWait, ServerInv, Batches
<1>4. /\ batch' \in Seq([ev : Targets, events : Events]) /\ DOMAIN batch' = 1 .. n
      /\ \A i \in 1 .. n : batch'[i].ev = evs[i] /\ evs[i] \in due
  <2>1. \A i \in 1 .. n : evs[i] \in Targets /\ what[i] \in Events
    BY DEF ServerInv, Connections
  <2>2. \A i \in 1 .. n : [ev |-> evs[i], events |-> what[i]] \in [ev : Targets, events : Events]
    BY <2>1
  <2> HIDE DEF Events
  <2>3. batch' \in [1 .. n -> [ev : Targets, events : Events]]
    BY <1>2, <2>2
  <2>4. batch' \in Seq([ev : Targets, events : Events])
    <3> DEFINE S == [ev : Targets, events : Events]
    <3> HIDE DEF S
    <3>1. n \in Nat /\ batch' \in [1 .. n -> S]
      BY <2>3 DEF S
    <3>2. batch' \in Seq(S)
      BY <3>1
    <3> QED BY <3>2 DEF S
  <2> QED BY <1>2, <2>4
<1>5. Types' /\ PeersGone' /\ CrashExplained'
  BY <1>3, <1>4 DEF ServerInv, Types, PeersGone, CrashExplained
<1>6. ServersOpen' /\ Connections'
  BY <1>2, <1>3 DEF ServerInv, ServersOpen, Connections
<1>7. Batches'
  <2>1. \A c \in due \cap Clients : c \in open /\ c \in arrived /\ waiting[c] = NoServer
    BY DEF ServerInv, Connections
  <2> QED BY <1>2, <1>3, <1>4, <2>1 DEF ServerInv, Batches
<1>8. Wakes'
  BY <1>2, <1>3, <1>4 DEF ServerInv, Batches, Wakes
<1> QED BY <1>5, <1>6, <1>7, <1>8 DEF ServerInv

\* A handler runs on memory that is gone only for the reasons CrashExplained
\* gives; one that closes its own connection ends the event.
LEMMA HandleStep ==
  ASSUME ServerInv, NEW half \in {"read", "write", "error"},
         NEW ends \in SUBSET SUBSET {batch[1].ev}, Handle(half, ends)
  PROVE  ServerInv'
<1> USE ConstantsAssumption DEF ConstantsAssumption, worldVars, Ending, Starting
<1> DEFINE c == batch[1].ev
<1>1. /\ pc = half /\ batch # <<>> /\ c \in Clients /\ c = current_ev /\ accepting = NoServer
      /\ started = Len(plan)
      /\ UNCHANGED <<started, accepting, worldVars, failures>>
  BY DEF Handle, ServerInv, Types, ServersOpen, Batches
<1>2. PICK others \in SUBSET (peer_list \ {c}), own \in ends, listed \in SUBSET ({c} \ broken),
           removed \in BOOLEAN :
        IF c \notin open \/ own \cap broken # {}
        THEN pc' = "crashed" /\ UNCHANGED <<connectionVars, batch>>
        ELSE /\ Served(c, listed, others \cup own)
             /\ Removed(others \cup own)
             /\ IF half = "read" /\ ~removed /\ current_ev' # NoEvent /\ "out" \in batch[1].events
                THEN pc' = "write" /\ UNCHANGED batch
                ELSE pc' = "events" /\ batch' = Tail(batch)
             /\ UNCHANGED <<waiting, broken>>
  BY DEF Handle
<1>3. CASE c \notin open \/ own \cap broken # {}
  <2>1. pc' = "crashed" /\ UNCHANGED <<connectionVars, batch>>
    BY <1>2, <1>3
  <2>2. c \in broken \/ closed_by[c] = "another"
    <3>1. 1 \in DOMAIN batch
      BY <1>1 DEF ServerInv, Types
    <3> QED BY <1>1, <1>2, <1>3, <3>1 DEF ServerInv, Batches
  <2>3. CrashExplained'
    BY <2>1, <2>2 DEF CrashExplained, connectionVars
  <2>4. Types' /\ PeersGone' /\ ServersOpen'
    BY <1>1, <2>1 DEF ServerInv, Types, PeersGone, ServersOpen, connectionVars
  <2>5. Connections' /\ Batches' /\ Wakes'
    BY <1>1, <2>1 DEF ServerInv, Types, Connections, Batches, Wakes, connectionVars
  <2> QED BY <2>3, <2>4, <2>5 DEF ServerInv
<1>4. CASE c \in open /\ own \cap broken = {}
  <2> DEFINE gone == others \cup own
  <2>1. /\ open' = open \ gone
        /\ peer_list' = (peer_list \cup listed) \ gone
        /\ closed_by' = [x \in Clients |->
              IF x \in gone THEN IF x = c THEN "itself" ELSE "another" ELSE closed_by[x]]
        /\ registered' = registered \ gone /\ due' = due \ gone
        /\ current_ev' = IF current_ev \in gone THEN NoEvent ELSE current_ev
        /\ UNCHANGED <<waiting, broken>>
    BY <1>2, <1>4 DEF Served, Removed
  <2>2. \/ pc' = "write" /\ UNCHANGED batch /\ current_ev' # NoEvent
        \/ pc' = "events" /\ batch' = Tail(batch)
    BY <1>2, <1>4
  <2>3. gone \subseteq Clients /\ gone \cap Servers = {} /\ c \notin others
    BY <1>1, <1>2 DEF ServerInv, Connections
  <2>4. /\ batch \in Seq([ev : Targets, events : Events])
        /\ Tail(batch) \in Seq([ev : Targets, events : Events])
        /\ \A i \in DOMAIN Tail(batch) : i + 1 \in DOMAIN batch /\ Tail(batch)[i] = batch[i + 1]
        /\ \A i \in DOMAIN batch :
              i = 1 \/ (i - 1 \in DOMAIN Tail(batch) /\ Tail(batch)[i - 1] = batch[i])
        /\ DOMAIN Tail(batch) \subseteq Nat \ {0}
    BY <1>1, HeadAndTail DEF ServerInv, Types
  <2> HIDE DEF gone
  <2>5. Types' /\ PeersGone' /\ CrashExplained'
    <3>1. batch' \in Seq([ev : Targets, events : Events])
      BY <2>2, <2>4
    <3>2. PeersGone' /\ CrashExplained'
      BY <1>1, <2>1, <2>2 DEF ServerInv, PeersGone, CrashExplained
    <3>3. current_ev' \in Targets \cup {NoEvent}
      BY <2>1 DEF ServerInv, Types
    <3>4. closed_by' \in [Clients -> {"nobody", "itself", "another"}]
      BY <2>1 DEF ServerInv, Types
    <3> QED BY <1>1, <2>1, <3>1, <3>2, <3>3, <3>4 DEF ServerInv, Types
  <2>6. ServersOpen'
    BY <1>1, <2>1, <2>2, <2>3 DEF ServerInv, ServersOpen
  <2>7. Connections'
    BY <1>1, <1>2, <1>4, <2>1, <2>3 DEF ServerInv, Types, Connections
  <2>8. Batches'
    <3>1. ASSUME NEW i \in DOMAIN batch, batch[i].ev \in Clients, i # 1 \/ c \notin gone
          PROVE  LET x == batch[i].ev IN
                 /\ x \in arrived /\ waiting[x] = NoServer
                 /\ x \in open' \/ closed_by'[x] = "another"
      <4>1. 1 \in DOMAIN batch
        BY <1>1, <2>4
      <4> QED BY <1>1, <2>1, <3>1, <4>1 DEF ServerInv, Types, Batches
    <3>2. CASE pc' = "write" /\ UNCHANGED batch /\ current_ev' # NoEvent
      <4>1. c \notin gone /\ current_ev' = c
        BY <1>1, <2>1, <3>2
      <4> QED BY <1>1, <2>1, <3>1, <3>2, <4>1 DEF ServerInv, Types, Batches
    <3>3. CASE pc' = "events" /\ batch' = Tail(batch)
      <4>1. \A i \in DOMAIN batch' : /\ i + 1 \in DOMAIN batch /\ i + 1 # 1
                                     /\ batch'[i] = batch[i + 1]
        BY <2>4, <3>3
      <4>2. \A i \in DOMAIN batch' : batch'[i].ev \in Clients =>
              /\ batch'[i].ev \in arrived /\ waiting[batch'[i].ev] = NoServer
              /\ batch'[i].ev \in open' \/ closed_by'[batch'[i].ev] = "another"
        BY <3>1, <4>1
      <4>3. \A i, j \in DOMAIN batch' : batch'[i].ev = batch'[j].ev => i = j
        BY <2>4, <3>3, <4>1 DEF ServerInv, Batches
      <4> QED BY <1>1, <2>1, <3>3, <4>2, <4>3 DEF Batches
    <3> QED BY <2>2, <3>2, <3>3
  <2>9. Wakes'
    <3> SUFFICES ASSUME NEW x \in Clients, waiting[x] # NoServer, waiting[x] \in registered,
                        waiting[x] \notin due'
                 PROVE  \E i \in DOMAIN batch' : batch'[i].ev = waiting[x]
      BY <2>1 DEF Wakes
    <3>1. waiting[x] \in Servers /\ waiting[x] \notin due /\ waiting[x] # accepting
      BY <1>1, <2>1, <2>3 DEF ServerInv, Types
    <3>2. PICK i \in DOMAIN batch : batch[i].ev = waiting[x]
      BY <1>1, <3>1 DEF ServerInv, Wakes
    <3>3. i # 1
      BY <1>1, <3>1, <3>2
    <3>4. CASE UNCHANGED batch
      BY <3>2, <3>4
    <3>5. CASE batch' = Tail(batch)
      <4>1. i - 1 \in DOMAIN Tail(batch) /\ Tail(batch)[i - 1] = batch[i]
        BY <2>4, <3>2, <3>3
      <4> QED BY <3>2, <3>5, <4>1
    <3> QED BY <2>2, <3>4, <3>5
  <2> QED BY <2>5, <2>6, <2>7, <2>8, <2>9 DEF ServerInv
<1> QED BY <1>3, <1>4

-----------------------------------------------------------------------------
\* Stopping
LEMMA StopSteps ==
  ASSUME ServerInv, DestroyAllPeers \/ StopServer \/ EndOfMain
  PROVE  ServerInv'
<1> USE ConstantsAssumption
    DEF ConstantsAssumption, loopVars, worldVars, connectionVars, Ending, Starting
<1>1. CASE DestroyAllPeers
  <2> USE DEF DestroyAllPeers, Removed
  <2>1. Types' /\ PeersGone' /\ CrashExplained' /\ Wakes'
    BY <1>1 DEF ServerInv, Types, PeersGone, CrashExplained, Wakes
  <2>2. ServersOpen'
    BY <1>1 DEF ServerInv, Types, ServersOpen
  <2>3. Connections'
    BY <1>1 DEF ServerInv, Types, Connections
  <2>4. Batches'
    BY <1>1 DEF ServerInv, Types, Batches, Connections
  <2> QED BY <2>1, <2>2, <2>3, <2>4 DEF ServerInv
<1>2. CASE StopServer
  <2> USE DEF StopServer, Removed, CloseServer
  <2>1. plan[started] \in Servers
    BY <1>2 DEF ServerInv, Types
  <2>2. Types' /\ PeersGone' /\ CrashExplained' /\ Wakes'
    BY <1>2, <2>1 DEF ServerInv, Types, PeersGone, CrashExplained, Wakes
  <2>3. ServersOpen'
    BY <1>2, <2>1 DEF ServerInv, Types, ServersOpen
  <2>4. Connections' /\ Batches'
    BY <1>2, <2>1 DEF ServerInv, Types, Connections, Batches
  <2> QED BY <2>2, <2>3, <2>4 DEF ServerInv
<1>3. CASE EndOfMain
  BY <1>3 DEF EndOfMain, ServerInv, Types, ServersOpen, Connections, Batches, Wakes, PeersGone,
              CrashExplained
<1> QED BY <1>1, <1>2, <1>3

\* Every step keeps the invariant.
LEMMA ServerStep == ServerInv /\ [Next]_vars => ServerInv'
<1> SUFFICES ASSUME ServerInv, [Next]_vars PROVE ServerInv'
  OBVIOUS
<1>1. CASE UNCHANGED vars
  BY <1>1 DEF vars, ServerInv, Types, ServersOpen, Connections, Batches, Wakes, PeersGone,
              CrashExplained
<1>2. CASE ReadFunction
  <2>1. Handle("read", SUBSET {batch[1].ev})
    BY <1>2 DEF ReadFunction
  <2> QED BY <2>1, HandleStep
<1>3. CASE WriteFunction
  <2>1. Handle("write", SUBSET {batch[1].ev})
    BY <1>3 DEF WriteFunction
  <2> QED BY <2>1, HandleStep
<1>4. CASE ErrorFunction
  <2>1. Handle("error", {{batch[1].ev}})
    BY <1>4 DEF ErrorFunction
  <2> QED BY <2>1, HandleStep
<1> QED
  BY <1>1, <1>2, <1>3, <1>4, ConnectStep, EdgeStep, SigHandlerStep, StartSteps, AddServerStep,
     AcceptStep, AcceptWouldBlockStep, AcceptFailsStep, WaitSteps, EpollWaitStep, StopSteps
  DEF Next, Daemon

\* What the daemon keeps from the first system call to the last.
THEOREM ServerInvariant == Spec => []ServerInv
<1> QED BY ServerInit, ServerStep, PTL DEF Spec

\* No client waits for a daemon that sleeps without an edge of its server
\* being due (accept_common, start_server, handle_events).
THEOREM NobodyForgotten == Spec => []NobodyIsForgotten
<1>1. ServerInv => NobodyIsForgotten
  <2> SUFFICES ASSUME ServerInv PROVE NobodyIsForgotten
    OBVIOUS
  <2>1. TypeOK
    BY DEF ServerInv, Types, Connections, TypeOK, Targets
  <2>2. ASSUME pc \in {"tested", "wait"}, NEW s \in Servers, Backlog(s) # {}
        PROVE  s \in due
    <3>1. PICK c \in Clients : waiting[c] = s
      BY <2>2 DEF Backlog
    <3>2. waiting[c] # NoServer /\ s \in open
      BY <2>2, <3>1, ConstantsAssumption DEF ConstantsAssumption, ServerInv, Connections
    <3>3. s \in registered
      BY <2>2, <3>2 DEF ServerInv, ServersOpen, Ending
    <3>4. accepting = NoServer /\ batch = <<>>
      BY <2>2 DEF ServerInv, Batches
    <3> QED BY <2>2, <3>1, <3>2, <3>3, <3>4 DEF ServerInv, Wakes, Ending
  <2>3. ASSUME pc \in {"tested", "wait"}, failures = 0
        PROVE  open \subseteq registered
    BY <2>3 DEF ServerInv, Types, Connections, ServersOpen, Ending
  <2> QED BY <2>1, <2>2, <2>3 DEF NobodyIsForgotten
<1> QED BY <1>1, ServerInvariant, PTL

\* Wherever the start or the loop ended, no server socket is open in the end,
\* and no peer's connection if the loop was reached (run_io,
\* run_io_all_interfaces, run_io_only_local, destroy_all_peers).
THEOREM NothingOpenAtExit == Spec => []NothingLeftOpen
<1>1. ServerInv => NothingLeftOpen
  BY DEF ServerInv, Types, ServersOpen, PeersGone, NothingLeftOpen
<1> QED BY <1>1, ServerInvariant, PTL

\* A handler runs on freed memory only if an earlier handler of the same batch
\* closed another peer, or init_peer had failed (handle_events,
\* eventloop_epoll_remove).
THEOREM CrashesHaveCauses == Spec => []CrashExplained
<1>1. ServerInv => CrashExplained
  BY DEF ServerInv
<1> QED BY <1>1, ServerInvariant, PTL
=============================================================================
