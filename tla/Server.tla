------------------------------- MODULE Server -------------------------------
(***************************************************************************)
(* The life of the daemon on Linux: posix/main.c, linux/linux_io.c and     *)
(* linux/eventloop_epoll.c.  Listening sockets are opened one after the    *)
(* other, the event loop accepts and serves connections, and everything is *)
(* taken down in the reverse order, from wherever the start failed.        *)
(*                                                                         *)
(* A step is one system call or one callback.  Between any two clients     *)
(* connect and send, and signals arrive.  What a peer does with its        *)
(* messages is left out but for one thing: a handler may close its own     *)
(* connection and those of other peers it could not send to.               *)
(***************************************************************************)
EXTENDS Naturals, FiniteSets, Sequences

CONSTANTS
    Clients,
    AllInterfaces,  \* the servers of run_io_all_interfaces, in their order
    OnlyLocal,      \* the servers of run_io_only_local
    HttpServers,
    MaxFds,         \* the descriptors the process may have
    MaxFailures,    \* how many system calls and allocations may fail
    MaxBatch,       \* CONFIG_MAX_EPOLL_EVENTS
    NoServer,
    NoEvent

Servers == {AllInterfaces[i] : i \in DOMAIN AllInterfaces} \cup
           {OnlyLocal[i] : i \in DOMAIN OnlyLocal}

ASSUME ConstantsAssumption ==
    /\ AllInterfaces \in Seq(Servers) /\ OnlyLocal \in Seq(Servers)
    /\ Clients \cap Servers = {}
    /\ HttpServers \subseteq Servers
    /\ NoServer \notin Servers /\ NoEvent \notin Servers \cup Clients
    /\ {MaxFds, MaxFailures} \subseteq Nat /\ MaxBatch \in Nat \ {0}

VARIABLES
    pc,         \* where the only thread is
    plan,       \* the servers to be started
    started,    \* how many of them are
    accepting,  \* the server whose accept loop runs
    go_ahead,
    open,       \* the descriptors of servers and connections
    registered, \* those the epoll instance knows
    due,        \* those with an edge epoll_wait has not yet reported
    waiting,    \* clients the kernel has connected to a server
    arrived,    \* all clients that ever connected
    peer_list,  \* the connections whose peer is in the list
    broken,     \* those whose peer init_peer could not enter
    entered,    \* the event loop was reached
    batch,      \* the events still to be handled; the first is at work
    current_ev,
    closed_by,  \* how a connection was closed: by its own handler or another
    failures,
    missed      \* a signal came between the test of go_ahead and epoll_wait

vars == <<pc, plan, started, accepting, go_ahead, open, registered, due, waiting, arrived,
          peer_list, broken, entered, batch, current_ev, closed_by, failures, missed>>

connectionVars == <<open, registered, due, waiting, peer_list, broken, current_ev, closed_by>>
loopVars == <<accepting, batch>>
worldVars == <<plan, go_ahead, arrived, missed, entered>>

-----------------------------------------------------------------------------
Events == {{"in"}, {"out"}, {"in", "out"}, {"error"}}

Init ==
    /\ pc = "init"
    /\ plan \in {AllInterfaces, OnlyLocal}
    /\ started = 0
    /\ accepting = NoServer
    /\ go_ahead = TRUE
    /\ open = {} /\ registered = {} /\ due = {}
    /\ waiting = [c \in Clients |-> NoServer]
    /\ arrived = {}
    /\ peer_list = {}
    /\ broken = {}
    /\ entered = FALSE
    /\ batch = <<>>
    /\ current_ev = NoEvent
    /\ closed_by = [c \in Clients |-> "nobody"]
    /\ failures = 0
    /\ missed = FALSE

CanFail == failures < MaxFailures
Fine == failures' = failures
OneFailure == CanFail /\ failures' = failures + 1

Backlog(s) == {c \in Clients : waiting[c] = s}

\* Descriptors in use, with that of the epoll instance.
FdsInUse == Cardinality(open) + 1

-----------------------------------------------------------------------------
(* The world                                                               *)

\* A server listens from bind and listen on; an edge is due if epoll knows it.
Connect(c) ==
    /\ c \notin arrived
    /\ \E s \in open \cap Servers :
          /\ waiting' = [waiting EXCEPT ![c] = s]
          /\ due' = due \cup ({s} \cap registered)
    /\ arrived' = arrived \cup {c}
    /\ UNCHANGED <<pc, plan, started, loopVars, go_ahead, open, registered, peer_list, broken,
                   entered, current_ev, closed_by, failures, missed>>

\* Bytes, an end of the stream, room to write or an error.
Edge(c) ==
    /\ c \in registered \ due
    /\ due' = due \cup {c}
    /\ UNCHANGED <<pc, started, loopVars, worldVars, open, registered, waiting, peer_list,
                   broken, current_ev, closed_by, failures>>

\* Mutant of SigHandler: a blocked epoll_wait is restarted.
SigHandlerRestarts ==
    /\ go_ahead
    /\ pc \notin {"exited", "crashed"}
    /\ go_ahead' = FALSE
    /\ missed' = (pc = "tested")
    /\ UNCHANGED <<pc, plan, started, loopVars, connectionVars, arrived, entered, failures>>

\* sighandler.  A blocked epoll_wait is interrupted and handle_events tolerates
\* that; a signal that comes just before epoll_wait blocks is not noticed.
SigHandler ==
    /\ go_ahead
    /\ pc \notin {"exited", "crashed"}
    /\ go_ahead' = FALSE
    /\ missed' = (pc = "tested")
    /\ pc' = IF pc = "wait" THEN "test" ELSE pc
    /\ UNCHANGED <<plan, started, loopVars, connectionVars, arrived, entered, failures>>

-----------------------------------------------------------------------------
(* Starting                                                                *)

\* run_io: signal handlers and the epoll instance.
RunIo ==
    /\ pc = "init"
    /\ \/ Fine /\ pc' = "create"
       \/ OneFailure /\ pc' = "exited"
    /\ UNCHANGED <<started, loopVars, worldVars, connectionVars>>

Server == plan[started + 1]

\* stop_server and the failures of start_server; the kernel drops the backlog.
CloseServer(s) ==
    /\ open' = open \ {s}
    /\ waiting' = [c \in Clients |-> IF waiting[c] = s THEN NoServer ELSE waiting[c]]

CreateServerSocket ==
    /\ pc = "create" /\ started < Len(plan)
    /\ Fine /\ FdsInUse < MaxFds
    /\ open' = open \cup {Server}
    /\ pc' = "add"
    /\ UNCHANGED <<started, loopVars, worldVars, registered, due, waiting, peer_list, broken,
                   current_ev, closed_by>>

\* Whichever call fails, the socket is closed.
CreateServerSocketFails ==
    /\ pc = "create" /\ started < Len(plan)
    /\ OneFailure \/ (FdsInUse >= MaxFds /\ Fine)
    /\ pc' = "cleanup"
    /\ UNCHANGED <<started, loopVars, worldVars, connectionVars>>

\* The first half of start_server: epoll reports at once what is ready.
AddServer ==
    /\ pc = "add"
    /\ \/ /\ Fine
          /\ registered' = registered \cup {Server}
          /\ due' = due \cup {s \in {Server} : Backlog(s) # {}}
          /\ accepting' = Server
          /\ pc' = "accept"
          /\ UNCHANGED <<open, waiting>>
       \/ /\ OneFailure
          /\ CloseServer(Server)
          /\ pc' = "cleanup"
          /\ UNCHANGED <<registered, due, accepting>>
    /\ UNCHANGED <<started, worldVars, batch, peer_list, broken, current_ev, closed_by>>

\* run_jet: drop_privileges and daemon.
RunJet ==
    /\ pc = "create" /\ started = Len(plan)
    /\ \/ Fine /\ pc' = "test" /\ entered' = TRUE
       \/ OneFailure /\ pc' = "cleanup" /\ entered' = FALSE
    /\ UNCHANGED <<plan, started, loopVars, go_ahead, arrived, missed, connectionVars>>

-----------------------------------------------------------------------------
(* Accepting                                                               *)

\* Mutant of Removed: the event at work is not forgotten.
RemovedButCurrent(gone) ==
    /\ registered' = registered \ gone
    /\ due' = due \ gone
    /\ current_ev' = current_ev

\* eventloop_epoll_remove
Removed(gone) ==
    /\ registered' = registered \ gone
    /\ due' = due \ gone
    /\ current_ev' = IF current_ev \in gone THEN NoEvent ELSE current_ev

\* A callback of connection c closes gone; listed are peers it enters in the list.
Served(c, listed, gone) ==
    /\ open' = (open \cup {c}) \ gone
    /\ peer_list' = (peer_list \cup listed) \ gone
    /\ closed_by' = [x \in Clients |->
          IF x \in gone THEN IF x = c THEN "itself" ELSE "another" ELSE closed_by[x]]

\* The server socket is registered, the new connection may have bytes to read
\* and its first messages are read before the next accept: they may end it, or
\* other peers.
NewConnection(c) ==
    LET is_http == accepting \in HttpServers
    IN  \/ /\ Fine
           /\ \E others \in SUBSET peer_list, own \in SUBSET {c}, listed \in SUBSET {c} :
                 /\ ~is_http => listed = {c}
                 /\ listed = {} => others = {}
                 /\ Served(c, listed, others \cup own)
                 /\ registered' = (registered \cup {c}) \ (others \cup own)
                 /\ due' = (due \cup {c}) \ (others \cup own)
                 /\ UNCHANGED broken
        \/ \* prepare_peer_socket or an allocation fails, or http cannot add its
           \* event: the descriptor is closed
           /\ OneFailure
           /\ UNCHANGED <<open, registered, due, peer_list, broken, closed_by>>
        \/ \* init_peer fails: init_socket_peer goes on with a peer in no list
           /\ ~is_http /\ OneFailure
           /\ open' = open \cup {c}
           /\ registered' = registered \cup {c}
           /\ due' = due \cup {c}
           /\ broken' = broken \cup {c}
           /\ UNCHANGED <<peer_list, closed_by>>
        \/ \* the event is not added: init_socket_peer does not look
           /\ ~is_http /\ OneFailure
           /\ open' = open \cup {c}
           /\ peer_list' = peer_list \cup {c}
           /\ UNCHANGED <<registered, due, broken, closed_by>>

\* Mutant of Accept: one connection for each event.
AcceptOne ==
    /\ pc = "accept"
    /\ FdsInUse < MaxFds
    /\ \E c \in Backlog(accepting) :
          /\ waiting' = [waiting EXCEPT ![c] = NoServer]
          /\ NewConnection(c)
    /\ pc' = IF started < Len(plan) THEN "accept" ELSE "events"
    /\ batch' = IF started < Len(plan) THEN batch ELSE Tail(batch)
    /\ UNCHANGED <<started, accepting, worldVars, current_ev>>

\* accept_common takes one more connection.
Accept ==
    /\ pc = "accept"
    /\ FdsInUse < MaxFds
    /\ \E c \in Backlog(accepting) :
          /\ waiting' = [waiting EXCEPT ![c] = NoServer]
          /\ NewConnection(c)
    /\ UNCHANGED <<pc, started, loopVars, worldVars, current_ev>>

\* EAGAIN: back to start_server or to handle_events.
AcceptWouldBlock ==
    /\ pc = "accept" /\ Backlog(accepting) = {}
    /\ accepting' = NoServer
    /\ IF started < Len(plan)
       THEN started' = started + 1 /\ pc' = "create" /\ UNCHANGED batch
       ELSE started' = started /\ pc' = "events" /\ batch' = Tail(batch)
    /\ UNCHANGED <<worldVars, connectionVars, failures>>

\* Any other error ends the daemon: no descriptor is left, the connection was
\* aborted, no memory in the kernel.
AcceptFails ==
    /\ pc = "accept"
    /\ \/ Backlog(accepting) # {} /\ FdsInUse >= MaxFds /\ Fine
       \/ OneFailure
    /\ accepting' = NoServer
    /\ IF started < Len(plan)
       THEN /\ Removed({Server})
            /\ CloseServer(Server)
            /\ pc' = "cleanup"
       ELSE /\ pc' = "destroy"
            /\ UNCHANGED <<open, registered, due, current_ev, waiting>>
    /\ UNCHANGED <<started, worldVars, batch, peer_list, broken, closed_by>>

-----------------------------------------------------------------------------
(* The event loop                                                          *)

\* The head of eventloop_epoll_run's loop.
TestGoAhead ==
    /\ pc = "test"
    /\ pc' = IF go_ahead THEN "tested" ELSE "destroy"
    /\ UNCHANGED <<started, loopVars, worldVars, connectionVars, failures>>

EpollWaitBlocks ==
    /\ pc = "tested"
    /\ pc' = "wait"
    /\ UNCHANGED <<started, loopVars, worldVars, connectionVars, failures>>

\* epoll_wait reports some of the edges, in any order.
EpollWait ==
    /\ pc = "wait"
    /\ \E n \in 1 .. MaxBatch :
       \E evs \in [1 .. n -> due], what \in [1 .. n -> Events] :
          /\ \A i, j \in 1 .. n : evs[i] = evs[j] => i = j
          /\ \A i \in 1 .. n : evs[i] \in Servers => what[i] = {"in"}
          /\ batch' = [i \in 1 .. n |-> [ev |-> evs[i], events |-> what[i]]]
          /\ due' = due \ {evs[i] : i \in 1 .. n}
    /\ pc' = "events"
    /\ UNCHANGED <<started, accepting, worldVars, open, registered, waiting, peer_list,
                   broken, current_ev, closed_by, failures>>

\* epoll_wait fails with anything but EINTR: the loop is aborted.
EpollWaitFails ==
    /\ pc = "wait" /\ OneFailure
    /\ pc' = "destroy"
    /\ UNCHANGED <<started, loopVars, worldVars, connectionVars>>

\* handle_events takes the next event or has handled all.
NextEvent ==
    /\ pc = "events"
    /\ IF batch = <<>>
       THEN pc' = "test" /\ UNCHANGED <<accepting, current_ev>>
       ELSE LET e == batch[1]
            IN  /\ current_ev' = e.ev
                /\ IF e.ev \in Servers
                   THEN pc' = "accept" /\ accepting' = e.ev
                   ELSE /\ pc' = IF "error" \in e.events THEN "error"
                                 ELSE IF "in" \in e.events THEN "read" ELSE "write"
                        /\ UNCHANGED accepting
    /\ UNCHANGED <<started, worldVars, batch, open, registered, due, waiting, peer_list,
                   broken, closed_by, failures>>

\* The handler of one half of the event or of its error.  The memory of a
\* connection that is closed is freed, and free_peer_resources takes a peer
\* init_peer has failed for out of a list it is not in.
Handle(half, ends) ==
    LET c == batch[1].ev
    IN  /\ pc = half
        /\ \E others \in SUBSET (peer_list \ {c}), own \in ends, listed \in SUBSET ({c} \ broken),
              removed \in BOOLEAN :
              /\ half # "read" => others = {} /\ listed = {}
              /\ removed => own # {}
              /\ IF c \notin open \/ own \cap broken # {}
                 THEN pc' = "crashed" /\ UNCHANGED <<connectionVars, batch>>
                 ELSE /\ Served(c, listed, others \cup own)
                      /\ Removed(others \cup own)
                      /\ IF half = "read" /\ ~removed /\ current_ev' # NoEvent
                            /\ "out" \in batch[1].events
                         THEN pc' = "write" /\ UNCHANGED batch
                         ELSE pc' = "events" /\ batch' = Tail(batch)
                      /\ UNCHANGED <<waiting, broken>>
        /\ UNCHANGED <<started, accepting, worldVars, failures>>

ReadFunction == Handle("read", SUBSET {batch[1].ev})
WriteFunction == Handle("write", SUBSET {batch[1].ev})
ErrorFunction == Handle("error", {{batch[1].ev}})

-----------------------------------------------------------------------------
(* Stopping                                                                *)

\* Mutant of DestroyAllPeers: the peers are left to the end of the process.
DestroyNoPeer ==
    /\ pc = "destroy"
    /\ pc' = "cleanup"
    /\ UNCHANGED <<started, loopVars, worldVars, connectionVars, failures>>

\* destroy_all_peers: connections without a peer in the list stay open.
DestroyAllPeers ==
    /\ pc = "destroy"
    /\ open' = open \ peer_list
    /\ Removed(peer_list)
    /\ closed_by' = [c \in Clients |-> IF c \in peer_list THEN "another" ELSE closed_by[c]]
    /\ peer_list' = {}
    /\ pc' = "cleanup"
    /\ UNCHANGED <<started, loopVars, worldVars, waiting, broken, failures>>

\* stop_server, in the reverse order of the start.
StopServer ==
    /\ pc = "cleanup" /\ started > 0
    /\ Removed({plan[started]})
    /\ CloseServer(plan[started])
    /\ started' = started - 1
    /\ UNCHANGED <<pc, loopVars, worldVars, peer_list, broken, closed_by, failures>>

\* The epoll instance, the signal handlers and what main has allocated.
EndOfMain ==
    /\ pc = "cleanup" /\ started = 0
    /\ pc' = "exited"
    /\ UNCHANGED <<started, loopVars, worldVars, connectionVars, failures>>

-----------------------------------------------------------------------------
Daemon ==
    \/ RunIo \/ CreateServerSocket \/ CreateServerSocketFails \/ AddServer \/ RunJet
    \/ Accept \/ AcceptWouldBlock \/ AcceptFails
    \/ TestGoAhead \/ EpollWaitBlocks \/ EpollWait \/ EpollWaitFails \/ NextEvent
    \/ ReadFunction \/ WriteFunction \/ ErrorFunction
    \/ DestroyAllPeers \/ StopServer \/ EndOfMain

Next ==
    \/ Daemon
    \/ \E c \in Clients : Connect(c) \/ Edge(c)
    \/ SigHandler

Spec == Init /\ [][Next]_vars

\* The operating system runs the process whenever it can run.
FairSpec == Spec /\ WF_vars(Daemon)

-----------------------------------------------------------------------------
(* Properties                                                              *)

TypeOK ==
    /\ started \in 0 .. Len(plan)
    /\ open \subseteq Servers \cup arrived
    /\ due \subseteq registered
    /\ peer_list \subseteq open /\ broken \cap peer_list = {}
    /\ current_ev \in Servers \cup Clients \cup {NoEvent}

\* The daemon sleeps in epoll_wait only when every client the kernel has
\* connected will wake it (accept_common takes all there are, and start_server
\* those that came before epoll knew the socket), and every open connection has
\* an event unless the event could not be added.
NobodyIsForgotten ==
    TypeOK /\ (pc \in {"tested", "wait"} =>
        /\ \A s \in Servers : Backlog(s) # {} => s \in due
        /\ failures = 0 => open \subseteq registered)

\* From whatever step the start or the loop ended, no server socket is open in
\* the end, and no peer's connection if the loop was reached.
NothingLeftOpen ==
    pc = "exited" =>
        /\ open \cap Servers = {}
        /\ entered => open \cap peer_list = {}

\* handle_events calls no handler of a connection that has closed itself: a
\* handler runs on freed memory only if an earlier handler of the same batch
\* closed the connection of another peer, or if init_peer had failed.
CrashExplained ==
    pc = "crashed" => LET c == batch[1].ev
                      IN  c \in broken \/ closed_by[c] = "another"

\* SIGTERM ends the daemon, unless it comes between the test of go_ahead and
\* epoll_wait: then only the next event does.
SignalStops ==
    ~go_ahead /\ (~missed \/ due # {}) ~> pc \in {"exited", "crashed"}
=============================================================================
