# cjet: a TLA+ verification of the Jet daemon

cjet is a message broker for the Jet protocol. Peers connect over raw TCP or
over websockets and exchange JSON-RPC messages. A peer *adds* elements (states
and methods) under a path; other peers *fetch* them, that is, get an event for
every element they are interested in, and *set* states or *call* methods, which
the daemon routes to the owner of the element. The daemon is a single thread
around an edge triggered epoll loop. It brings along the JSON library and the HTTP parser
its messages go through.

This directory holds TLA+ modules translated from `src/src/`, TLC
configurations that check them on small instances, and TLAPS proofs for
instances of any size. `PROJECT.json` maps every definition to the lines it
models and lists the runs, the mutants, the hazards and the theorems.

## Inventory of the system

| Component (source) | State | Operations | Hard about it |
| --- | --- | --- | --- |
| Routing (`router.c`, `set_or_call` in `element.c`) | a routing table per peer, routing requests, their timers, the counter `uuid` | set, call, response, timeout, shutdown of owner and requester | response, timeout and two departures race for the same request; steps fail after others took effect |
| Timers (`timer.c`, `linux/timer_linux.c`) | a descriptor and a handler per timer | start, cancel, expire, destroy | an expiry already delivered by epoll outlives a cancellation |
| Event loop (`linux/eventloop_epoll.c`) | the batch of epoll events, `current_ev` | add, remove, handle events, destroy | handlers free objects of events later in the batch |
| Elements (`element.c`) | element table, element list of each peer | add, change, remove, set, call | two indexes of the same objects, notifications in the middle of an update |
| Fetches (`fetch.c`) | fetch list of each peer, a table of fetch slots in each element, the matchers of each fetch | fetch, unfetch, get, notify, create and free the matchers | every client must hold a mirror of the elements while notifications may fail; a dozen allocations before a fetch exists |
| Peers (`peer.c`) | list of peers | connect, `free_peer_resources` | the order in which a departing peer is taken apart |
| Access (`groups.c`, `authenticate.c`, `posix/auth_file.c`) | user data in memory and in the password file, the table of groups, groups of each peer | load, authenticate, passwd | the file is rewritten in place, call by call; a group is a bit, and there are 32 |
| Messages (`parse.c`, `response.c`) | none | dispatch, build an answer, respond | a response that cannot be sent closes its peer; every item of an answer may be refused by the heap |
| Buffered socket (`buffered_socket.c`) | read and write buffer with their pointers | read_exactly, read_until, writev, close | short reads and writes, full buffers, edge triggered events, re-entrance |
| Websocket (`websocket.c`, `websocket_peer.c`, `http_connection.c`, `http_server.c`) | protocol state of one connection | upgrade, frames, close handshake, negotiation of compression | fragments, control frames between them, closing from inside a callback, offers judged one after the other |
| Raw socket peers (`socket_peer.c`) | none but the length that is awaited | parse length, parse message, send | uninitialized memory |
| Compression (`compression.c`) | a buffer of fragments | gather, inflate, deflate | the buffer grows by doubling, once |
| UTF-8 checker (`utf8_checker.c`) | a state between bytes | check a byte, a word of 4 or 8, a sequence | words are judged without looking at single bytes |
| Hash tables (`hashtable.h`, `table.c`) | slots with hop information | get, put, remove | displacement of entries on a put that may fail |
| Start and stop (`linux/linux_io.c`, `posix/main.c`) | sockets, signals | open, accept, run, shut down | each of a dozen calls may fail half-way; signals race with the loop |
| HTTP parser (`http-parser/`) | state between two pieces of a stream | parse a piece, parse a URL | a header may be cut anywhere |
| JSON library (`json/`) | trees of items, a growing text | print, parse, compare, minify, edit lists | lengths counted before they are written; lists linked in both directions |
| Helpers (`alloc.c`, `base64.c`, `sha1/`, `jet_string.c`, `config.c`, `info.c`, log, random, endian) | heap counter, hash context | | |
| `zlib/` | | inflate, deflate | third-party, only linked |

How they interact: epoll calls a buffered socket, which calls its user
(`socket_peer.c`, `http_connection.c`, `websocket.c`) with a complete piece;
the user hands a message to `parse_message`, which calls the handler in
`element.c`, `fetch.c`, `authenticate.c` or `router.c` and sends its response.
Handlers send events and routed requests to *other* peers synchronously, through
the function pointers of `struct peer` into the write buffer of the other
connection. Timers are events of the same loop. Nothing is shared between
threads: what makes the system hard is the order of handlers, the failure of
one step in the middle of a handler, and pointers that outlive what they point to.

## Modules

| Module | What it is |
| --- | --- |
| `Router` | the life of set and call requests |
| `MCRouter` | constants of `Router` for TLC |
| `RouterProofs` | TLAPS proofs about `Router` and `Hashtable` |
| `Fetch` | elements, fetches, notifications, access |
| `MCFetch`, `FetchProofs` | constants of `Fetch` for TLC, and its proofs |
| `ReadBuffer` | the read side of `buffered_socket.c` and its edge triggered events |
| `MCReadBuffer` | runs `ReadBuffer` in TLC |
| `WriteBuffer` | the write side of `buffered_socket.c` |
| `MCWriteBuffer` | constants of `WriteBuffer` for TLC |
| `BufferedSocketProofs` | TLAPS proofs about `ReadBuffer` and `WriteBuffer` |
| `Websocket` | one HTTP connection that becomes a websocket: upgrade, frames, end |
| `MessageStream` | what the user of a websocket sees; `Websocket` implements it |
| `MCWebsocket` | constants of `Websocket` for TLC |
| `WebsocketProofs` | TLAPS proofs about `Websocket` |
| `Hashtable` | the hopscotch hash table, store by store |
| `KeyValueMap` | what the table promises; `Hashtable` implements it |
| `MCHashtable` | constants of `Hashtable` for TLC |
| `AuthFile` | groups, passwords and the rewriting of the password file, call by call |
| `MCAuthFile`, `AuthFileProofs` | constants of `AuthFile` for TLC, and its proofs |
| `Server` | start, event loop, accept loops, signals and stop of the daemon |
| `MCServer`, `ServerProofs` | constants of `Server` for TLC, and its proofs |
| `HttpChars`, `HttpParser`, `UrlParser` | character classes, `http_parser_execute`, `http_parser_parse_url` |
| `Json`, `JsonString`, `JsonTree` | printing and parsing trees, strings byte by byte, the lists of items |
| `Utf8Checker` | the UTF-8 checker and its fast paths |
| `Extension` | negotiation of permessage-deflate |
| `Reassembly` | the buffer that gathers the fragments of a compressed message |
| `Octets` | blocks of SHA-1, base64, unmasking of payloads |
| `Matchers` | from the path object of a fetch to the states it selects |
| `Answers` | building an answer item by item with a heap that runs out |
| `Timeout` | timeouts from seconds to what the kernel gets |
| `Samples` | the inputs of the parsers and checkers |
| `Handshake` | the machines that run until a connection is open, side by side: `UrlParser`, `Extension`, `Octets`, and `Utf8Checker` for its texts |
| `MCFormats` | runs the modules from `HttpParser` to `Timeout` in TLC, one at a time |
| `HandshakeProofs` | TLAPS proofs about `UrlParser`, `Utf8Checker`, `Extension` and `Octets` |
| `FormatsProofs` | TLAPS proofs about `Timeout`, `Reassembly`, `Answers`, `Matchers` and the machines of `Handshake` as machines of `MCFormats` |

### Router

An action is one handler run to completion, because the daemon has one thread.
A handler that makes its caller close the peer (a response that cannot be sent,
a message that cannot be parsed) sets `closing`, and `FreePeerResources` is then
the only step possible: the code closes the peer before it returns to epoll.

`set_or_call` is four actions, by how far it gets: `SetOrCallRejected` (nothing
allocated), `SetOrCallAborted` (allocated, then freed without registration; a
timer created by then is not destroyed), `SetOrCallRouted` (registered, with the
send to the owner succeeding or failing) and `SetOrCallUnrendered` (the message
cannot be rendered after registration). `HandleRoutingResponse` is the answer
of the owner, `RequestTimeout` the handler of the timer, `EpollWait` the
delivery of a batch of expirations. `FreePeerResources` follows
`free_peer_resources`: `remove_routing_info_from_peer` and
`remove_peer_from_routes` clear entries, answer their requesters and cancel
timers; the elements of the peer go.

`remove_peer_from_routing_table` takes *every* entry out of the tables of all
other peers, not only the entries of the departing peer. The remaining requests
are orphans: still allocated, with a running timer, but in no table. The model
keeps this behaviour (`RoutingTablesAfter`).

Accesses to freed memory end a behaviour: `fault` names the first one and
nothing happens after it, since anything might. `stale_event`: a timer event
later in the batch belongs to a request that an earlier event freed.
`dangling_entry`: `set_or_call` frees a registered request. `freed_peer`:
an orphan outlives its owner or requester. `freed_connection`: `websocket_close`
frees the connection of a peer whose own requests are then answered.

Abstractions: a routing table is a set with a capacity (a put fails when it is
full, as it does when the hash table finds no place); a request is named by its
`uuid`, which with the requester's address makes up the id of the code, so the
repetition of ids after 2^32 requests is outside the model; memory of a freed
peer is not reused; JSON is left out. `answers` counts what is handed to the
requester's send function: the code ignores whether that succeeds.

### Fetch

An action is one request. `view` is what a client has put together from the
events of a fetch; `disturbed` holds the fetches that a failure kept an event
from, or that were told of an element which was then refused. Both are ghosts:
they follow what is sent and steer nothing.

A notification fails when its message cannot be allocated or sent. The loops of
the code stop there, so the actions carry the number `n` of notifications that
went out: `AddElementFailed` (the element is freed, nobody is told),
`ChangeState` and `RemoveElement` (the change stays), `AddFetch` (the fetch
stays, in a part of the elements), `FreePeerResources` (each element of the
departing peer has its own loop). The order of notifications is that of the
code: peers in the order of connection, fetches in the order of registration
for a new element, slots for an existing one. `Walks` has the places where a loop may
stop as sets closed under what comes before, `InOrder` the whole of it; the clients told
by a loop are a set (`find_fetchers_for_element` and the other loops are operators on sets), so no
definition folds over a list. `AddFetchToState` takes the first free slot or doubles the table.

What a matcher accepts is a set of paths (`MatchSets`); `Matchers` has how a request
becomes one. Groups are sets; `AuthFile` has how they become bits. The groups of a raw socket peer are arbitrary at first: its memory is
allocated without being zeroed and `init_peer` does not set them.

### ReadBuffer

One connection, byte by byte; a byte is its position in the stream. The user of
the buffer may ask for any number of bytes, for a delimiter, or close. `pc` says
whether the connection waits in epoll or runs `go_reading`, whose rounds are the
actions `Deliver`, `DeliverAndClose`, `Fill`, `FillFails`. Bytes arrive at any
time, also while `go_reading` runs. An arrival makes an event due (`edge`);
handling it takes the event away whether or not everything was read, as
`EPOLLET` does. Offsets stand for the pointers `read_ptr` and `write_ptr`.

### WriteBuffer

One connection, byte `i` of message `k` being `<<k, i>>`. `WritevAll`,
`WritevError`, `WritevBlocks`, `WritevPart` and `WritevPartFull` are the ways a
call of `buffered_socket_writev` may end, with every place the socket may stop
at; `WriteFunction` is the handler of `EPOLLOUT`. The io vectors of a message are the
places in it at which they end (`IoVecs`), which is what decides how much of it a
partial `writev` has left for the buffer. `SendBuffer` has the same
three ends as `send_buffer`; after an error in the middle the unsent bytes are
not moved to the front, and the model keeps that. `stream` is a ghost: the
messages accepted before the first failure.

### Websocket, MessageStream and Reassembly

`Websocket` follows one connection from the start line of its HTTP request.
`reading` is the callback that is installed with the buffered socket; each call of
it is one action, together with the callbacks it calls itself (a frame without
payload is handled in the step that reads its length or mask). The contents of
lines and fields are chosen from small sets: a start line that is refused before
or after its URL, header lines that are refused or matter, every combination of
FIN, RSV, opcode, mask and length. `HandleFrame` is `ws_handle_frame`: the
refusals `RsvRefused` and `FragmentRefused` in the order of the code, the
bookkeeping of fragments `Started` and `Ended`, and one operator for each
kind of frame. `ConnectionLost` stands for both a closed connection and the error
handler, which do the same here; `SendMessage` and `Shutdown` come from the rest
of the daemon. The user's callbacks are a constant: the daemon sets those for
whole text messages and for closing (and pong, which only logs), the server in
`autobahnfiles/` those for frames and binary data too and offers compression.

Faults of this module: `null_callback` (a frame of a fragmented message, and no
frame callback), `no_buffer` (a compressed message of empty fragments),
`no_websocket` (`on_url` ignores that the peer could not be created) and
`freed_connection` (the rest of a start line is refused after `on_url` has created
the peer, which stays in the peer list until the shutdown).

`MessageStream` says what the user may rely on, and the mapping is: `phase` from
`reading` and `upgrade_complete`, the message in progress from `is_fragmented`,
unless it is compressed, for then nothing is delivered before its last frame.

`Reassembly` details what `Websocket` keeps as the flag `gathered`: sizes and free
space of the buffer in which the fragments of a compressed message wait. `Extension`
details the negotiation `Websocket` has as `accepted`.

### Hashtable and KeyValueMap

Each store of `hashtable_put` and `hashtable_remove` into the table is one action,
and the order of stores is that of the code; reads in between go with the store
they decide. `Get` is what a `hashtable_get` would return at that moment. Movable
entries and the choice among them (`FindCloserEntry`) are those of
`find_closer_entry`. The hash is a constant function, so collisions are chosen and
not computed; `HopRange` is 32 in the code and 2 here, with which the moves
begin in a table of 8 entries rather than of 128.

`KeyValueMap` is a map with one writer whose calls take effect in a single step
between call and return, exactly if they succeed; `Hashtable` implements it with
`map <- [k \in Keys |-> Get(k)]`, in every state between two stores. This is the
table that `Router` and `Fetch` take for granted: `PutGivesUp` and `PutFull` are
the failures of a put they allow.

`lost` is a ghost: the entries a put gave up after it had moved others. They keep
a key, so no search takes them for free, and no `hop_info` leads to them.

### AuthFile

`LoadPasswdData` is the start of the daemon: the file is read, its groups are entered
one by one in the order of the file, and one name more than `group_t` has bits refuses the
file. A name there is no memory for is left out in silence, so a daemon may run with fewer
groups than its file has. `Authenticate` and `ReplacePassword` are the handlers of `authenticate` and
`passwd` up to the first system call, with their refusals and with the memory that
may be short: the user's name is kept as the client spelled it, while the entry is found
in any spelling, and a password or a key that could not be copied is passed over in
silence. Then `pc` walks through `write_user_data`: `Truncate`, printing, `Write` and
their failures. `Write` writes any part of what is left; as in the code, the next round starts
again at the beginning of the text, and the loop ends as soon as less is left than was
written last. `Exit` is the end of the process at any moment, for a crash differs from a stop only in when
it comes; `LoadPasswdData` follows it only if the file can be read.

`write_user_data` never calls `fsync`, so there are two files. `file` is what every process reads and
writes, and it survives `Exit`. `disk` is what a failure of the machine leaves: `WriteBack` takes the size of
the file or one piece of it there, at any time and in any order, so the truncation can be kept without
the text, the text without a piece of it (`Hole`), and old pieces among new ones. `MachineFails` makes the file what the
disk holds. What a file system guarantees beyond that is not used, and neither is what it may lose beyond that,
such as the directory entry.

A piece of the file holds the passwords of the users that stand in it (`Place`), so a file
that is cut, repeated or has a hole is told from one that can be read, and a file in which pieces of
different texts are mixed says of each user what his piece says. `acknowledged` and `tried` are ghosts of what clients were told, `mishaps` of what
went wrong with the current text, the failure of a machine included, and `older` of the passwords that
were acknowledged or tried since all of the file was on the disk.

### Server

A step is one system call or one callback. `RunIo`, `CreateServerSocket`, `AddServer`,
`RunJet` follow `run_io`, its two lists of servers (all interfaces, or the loopback with
IPv6 and IPv4), and `pc` the way back: a failure goes to `StopServer` for the servers that
were started, in reverse order, as the chain of labels in the code does.
`AddServer` accepts what came before epoll knew the socket; `Accept`, `AcceptWouldBlock`
and `AcceptFails` are the rounds of `accept_common`. A new connection reads at once, so
`NewConnection` may end with itself or other peers closed. `TestGoAhead`, `EpollWait`,
`EpollWaitBlocks`, `NextEvent` and `ReadFunction`, `WriteFunction`, `ErrorFunction` are the
loop: an event has both directions or an error, and `current_ev` is reset when the connection
at work is removed, which keeps the second half of its event from being handled. `SigHandler`
comes at any time; `missed` is a ghost for the one moment when it is not noticed. A handler of
a connection that no longer exists ends the behaviour (`crashed`).

What a peer does with its messages is the subject of the other modules; here a handler may
close its own connection and any others, which is all the loop can notice.

### Formats: parsers, checkers, builders

These modules have a variable for each variable of the code that lives across
the turns of a loop, and a ghost for what was meant. They share nothing with each other, so
`MCFormats` chooses one of them at the start and lets the others idle; a *machine* below is one
of them.

* `HttpParser`: a step is one symbol of the stream, or the end of a piece. A symbol is a
  character or a run of characters the parser cannot divide further for this matter. `w` writes
  messages by a plan (start line, headers, body by length, in chunks or to the end), or noise;
  `said` is what was written and `heard` what the callbacks got, collected symbol by symbol, so that
  cuts do not show. `PieceEnds` is what `http_parser_execute` does at the end of its input with the
  text under a mark. `http_errno`, the counter of header bytes, `content_length` with its test
  against overflow and the flags are those of the code.
* `UrlParser`: a step is one turn of the loop over the URL, then the parsing of the host. `u` holds
  the fields with their offset and length. `HttpChars` has the classes and `parse_url_char`, which
  both share.
* `Utf8Checker`: bytes or words, then the end of a sequence. The masks of the code are read off byte by
  byte; the aligned check takes words of one width, 8 bytes, which `uint_fast16_t` has on the platform of the
  daemon; `hidden` is a ghost for a word whose large lead byte hid an overlong one. `IsText` is the
  definition of UTF-8, for comparison.
* `Json`: `cJSON_Print`, `cJSON_PrintBuffered`, `cJSON_PrintPreallocated` and the parser, a step for each item, with
  `ensure` and its arithmetic, `overrun` noting a byte beyond the buffer, `Crash` the `NULL` that
  `cJSON_PrintBuffered` hands to `cjet_free`. `JsonString`:
  `print_string_ptr` counts and then writes, `parse_string` counts and then reads; both directions,
  escapes and surrogates. `JsonTree`: every list operation on `next`, `prev`, `child`; `children` is the
  ghost. `Duplicate` is a copy that succeeds. One that fails deletes its copy before anyone has seen it, and
  neither the partial copy nor its deletion is modelled; nor are items that are references.
* `Extension`: an offer of permessage-deflate, judged a parameter at a time, changes the
  connection and writes the answer on the way; `streams` are the two zlib streams made at the end.
* `Octets`: `SHA1Update` and `SHA1Final` over a message known by its length, base64 by bits,
  `unmask_payload` by bytes and words at any alignment.
* `Matchers`: `create_fetch` allocation by allocation, `state_matches`; `held` counts what is allocated.
  The six comparisons are what `strcmp`, `strncmp` and `strstr` decide about texts as sequences of
  letters, or their variants that read every letter through `Lower`. The path objects, the paths of
  states and the letters come from the configuration.
* `Answers`: `create_error_response` and `create_result_response` as scripts of items, `todo` being
  what is left of the script; `NoReason` is the one failure the code passes over; `alloc.c`
  counts the blocks with their headers against the limit of the heap.
* `Timeout`: `get_timeout_in_nsec` with its double, whose seconds and whose product with
  10^9 are rounded and whose fraction is cut off: `Converted` is the set of the results two roundings allow
  (1.001 s may be, and on x86-64 is, 1000999999 ns). Beyond 64 bits C leaves the cast undefined, and it is a choice of values, 0 among them.
  Then the default, and the split into seconds and nanoseconds.

## Runs

State counts are those of TLC on the configurations here.

| Run | Instance | States | Shows |
| --- | --- | --- | --- |
| `router_safety` | 3 socket peers, 1 path, 2 requests, 2 failures, batches that hold everything, tables of 2 | 1.07 M | table entries point to live requests between connected peers; armed timers are exactly those of allocated requests; one answer at most; only departures make requests lose their entry or leak a descriptor |
| `router_faults` | 1 websocket and 1 socket peer, 1 failure, one event per `epoll_wait`, tables of one slot, all kinds of elements | 126 k | which histories read freed memory; every routed request ends, orphans too, and was answered if nothing failed (liveness) |
| `router_owner_shutdown` | 3 peers, no failure | violated | see Findings |
| `fetch_departure` | 3 peers, 2 paths, 1 failure | 411 k | indexes and slots stay consistent while owners and fetchers depart |
| `fetch_access` | a socket and a websocket peer with 2 fetch ids, 2 values, 1 group, password file, 1 failure | 424 k | clients mirror the elements while slots are reused and tables grow from 1 to 4; the access tested at registration stays valid; a peer without groups learns nothing |
| `auth_file` | an administrator and a user spelled in two ways, files of 3 pieces, 2 changes, 2 failures, 2 exits of the process or the machine, 2 group bits with 1, 2 and 3 names | 3.5 M | the file is what memory is unless something went wrong; no restart of the daemon brings back a password older than the last acknowledged one, and one of the machine none that was replaced before all of the file last was on the disk; groups are told apart by their bits |
| `server` | 3 servers or 5 on the loopback, 2 clients, batches of 2, 7 descriptors, 1 failure | 588 k | no client waits unnoticed, nothing stays open, which handlers run on a freed connection, a signal ends the loop (liveness) |
| `read_buffer` | buffer of 3, stream of 5, requests up to 4, 1 error, all placements of delimiters | 32 k | bytes in order, no stall, no refusal of a request that fits; every byte that arrives is read (liveness) |
| `write_buffer` | buffer of 5, 4 messages of several io vectors, 1 error | 6 k | no overflow, messages whole and in order, waiting bytes have an event due |
| `websocket` | the callbacks of the daemon with and without compression, or all callbacks; 8 opcodes, 7 lengths, 5 status codes | 202 k | peer and connection go together but for a refused start line; what is sent is in order; which faults there are; legal frames pass, and one more kind (see Findings); the user sees a `MessageStream` |
| `hashtable` | 8 entries, hop range 2, 6 keys, 2 values | 143 k | a map between any two stores; entries are lost only by a put that gives up after a move |
| `formats` | twelve machines, see below | 1.20 M | what is delivered is what was written, what is agreed is what was offered, and what is refused leaves nothing behind |

Why the bounds are enough. Router: the interactions are between an owner, a
requester and a bystander, which are three peers; two requests suffice for one
to disturb the other in a table or a batch; two failures for one handler to fail
twice. With tables of one slot and of two, both "full" and "not full" occur.
Peer and timer events mix in a batch in any order; the guard on the size of a
batch is exact for batches of one event and for batches that hold every peer and
timer, and only these two are used. Fetch: with two fetch ids for each of two
peers an element has up to four slots, so a table that starts at one slot grows
twice; two paths and three peers let a departing peer own one element, fetch
another and leave a third client behind. ReadBuffer: requests up to one more
than the buffer, and a stream longer than the buffer, so that a request fits as
it is, after reorganizing, exactly, and never. WriteBuffer: a message fits, fits
only after a partial write, and does not fit; every split inside and between io
vectors occurs. Websocket: a frame interacts with the ones
before it only through `ws_flags` and `gathered`, all of whose values occur, so the
number of frames needs no bound; the lengths are those at which the code or the
protocol decides something, and one beyond the read buffer. AuthFile: a text of three
pieces can be written at once, in two uneven parts or in three, and the two orders of uneven
parts are those the loop treats differently; the users stand in different pieces, and one holds no
password, so a mixed file can be old for one user and new for the other; two changes by two users, or by one, leave an
acknowledged change behind a later attempt, with the disk at any state before, between and after; the tables of groups have room, are full, and
are one name short. Server: with two clients one can end the other in the same batch,
before or after its own event; batches of two are filled, half filled and
exceeded by what is due; with 7 descriptors the loopback servers leave room for one client only.
Formats: the machines forget
almost everything from one symbol to the next, so short inputs over small alphabets reach each of
their states, and lengths are taken on both sides of each limit: the header limit, the
largest content length and port, the widths of words with bytes before and behind them, the
end of a hash block with and without room for the length, INT_MAX for the doubling
of print buffers, and a heap that runs out at every single allocation. Hashtable: the cluster wraps around the
end; the search is exhausted, needs up to two moves, and gets stuck before and after
a move. The theorems below remove the bounds for Router, Fetch, ReadBuffer, WriteBuffer, AuthFile,
Server, Websocket and Hashtable, and among the formats for Timeout, Reassembly, Answers and Matchers.

Symmetry is used where constants are interchangeable: peers in `router_safety`
and `router_owner_shutdown`, where all are socket peers with the same rights;
peers, values, paths and fetch ids in `fetch_departure`; values, paths and fetch ids in
`fetch_access`, where a socket peer and a websocket peer differ. It is not
used with liveness.

`CHECK_DEADLOCK FALSE`: the daemon rests in `epoll_wait` when no peer does
anything, a closed connection takes no step, and a model stops at its bounds or
at a fault.

### Fairness

`Router!Fairness`: weak fairness of the return of an expired timer by
`epoll_wait` (a started `timerfd` expires, and level by level the loop returns
to `epoll_wait`, since `handle_events` is a loop over a finite batch), of the
timeout handler of an event in the batch, and of `FreePeerResources` (the rest
of a running handler). Nothing is assumed about peers: they need not answer,
disconnect or read. `ReadBuffer!Fairness`: weak fairness of the read handler and
of the rounds of `go_reading`, which is a `while (1)` loop of the running
thread. Bytes need not arrive. The callback is assumed to return, not to close.
`Server!FairSpec`: weak fairness of the daemon's steps together, that is, the operating
system runs the process when it can run. Clients, signals and failures owe nothing.

## Findings

* `router_owner_shutdown` (`router.c:325`): a bystander departs, all entries
  leave the tables, then the owner departs and the waiting requester gets no
  answer, while the test of the owner's departure in `tests/combined_test.cpp`
  requires one. It gets none later either: the timeout of the orphan reads the
  freed owner.

Disagreements with comments and documents that show in the models without a run of their own:

* `websocket.c:149`: the last frame of a fragmented message is taken with the
  compression bit set, if compression was negotiated, while the message of the code
  says "RSV-Bits must be 0 during continuation!" (`websocket.c:162`). The test is only
  made for frames without FIN. `StrayCompressionBit` in `FramesJudgedRight` is this case.
* `buffered_socket.c:407`: the first call of `buffered_socket_read_exactly` or
  `_read_until` returns 0 although the connection was closed during the call;
  `buffered_socket.h:86` documents -1. `Returns` in `ReadBuffer` keeps this.
* `hashtable.h:272`: the head of the file says that a put or remove can be interrupted
  by a get at any time. A get between the stores of a remove compares its key with
  `INVALIDENTRY`; for integer keys that is harmless (`ImplementsMap`), for the string
  keys of the daemon it is no string. The daemon has one thread.

* `utf8_checker.c:164`: `utf8_checker.h` promises to tell text from other bytes for every
  sequence. A word with two lead bytes is tested for overlong ones by comparing it as one number,
  so a large lead byte hides a 0xC0 or 0xC1. `hidden` in `TellsText` is this case.

The following are limits of the code that the properties name as their exceptions; nothing
in the repository says otherwise:

* `auth_file.c:274`: a crash, a failed or a short write loses the password file (`mishaps`).
* `auth_file.c:298`: the file is never synced. A machine that fails after "ok" was answered may come back
  with a file that cannot be read, or with the old password (`"machine"` in `mishaps`, `older` in
  `NoOldPassword`).
* `cJSON.c:1279`: when there is no memory for a larger buffer, `cJSON_PrintBuffered` frees the `NULL` that
  `ensure` left, and `cjet_free` reads below it (`crashed` in `JsonRoundTrip`). The daemon never calls it.
* `eventloop_epoll.c:109`: a signal between the test of `go_ahead` and `epoll_wait` waits for
  the next event (`missed`); `eventloop_epoll.c:68`: a handler may run on a connection that
  another handler of the same batch has closed (`CrashExplained`).
* `fetch.c:337`: the option `caseInsensitive` given twice leaves a matcher slot empty.
* `fetch.c:357`: when there is no memory for a fetch, the answer of `alloc_fetch` is overwritten by
  that of `create_fetch` and leaks. `answers` counts it, `held`, which `FetchSelectsByRules` wants to be zero, does not.
* `response.c:104` and on: an answer may lack its result or error, and a block leak, when there is no
  memory for a key or for the item in question.
* `timer.c:38`: a timeout beyond the range of 64 bits is cut short or never armed, and any other may end a
  nanosecond early, more if it is longer than 2^52 ns.
* `cJSON.c:2807`: minifying stops a string at a quote whose backslash is itself escaped;
  `cJSON_Compare` with names that occur twice. Neither is used by the daemon.

The faults of `Router` and `Websocket` are not separate findings: no document promises their
absence. `FaultsExplained` of each module bounds the histories that lead to them.

## Proofs

The provers are SMT (Z3), Zenon and LS4 through TLAPS.

`RouterProofs`, from `ConstantsAssumption` (sets of peers contained in each
other, natural bounds, `NoPeer` not a peer):

* `TypeCorrect`: `Spec => []TypeOK`.
* `RouterInvariant`: `Spec => []RouterInv`. `RegisteredRequestsSound`,
  `TimersMatchRequests` and `AnsweredAtMostOnce` are not inductive alone: a new
  request gets an owner from the element table, so the owners of elements must
  be connected; the departing peer must be in the list for the cleared entries to
  be all of its own; a request not yet allocated must be blank, or its first
  answer could be its second; and a pending request must have had no answer but
  "send_failed", or the next would be one too many. `RouterInv` adds these.
* `RegisteredSound`, `TimersSound`, `AnsweredOnce` follow.
* `DepartureInvariant` adds what departures leave behind: before the first one a pending request is in
  the table of its owner, and an orphan is in no table. `FaultsHaveCauses` and
  `DamageByDepartures` follow; the second is also about steps, and is proved action by action.

`FetchProofs`, from `ConstantsAssumption` (finitely many peers and fetch ids, what a
matcher accepts is a set of paths) and `NullAssumption` (the null values are no fetch and no element):

* `Structure`: `Spec => []StructInv`. The two properties about indexes and slots hold because of each
  other: a departing peer takes the fetches of its own list out of the slots of all elements and then
  removes the elements of its own list, so every fetch in a slot must be in the list of a connected
  peer (`SlotsHold`), every element of the table in the list of a connected owner (`ListsSound`), and
  lists must hold nothing twice (`FetchListsSound`, `PeersSound`). The lemmas about sequences and slots
  carry it: what appending and removing make of a list, that a doubled table holds the old slots and the
  new fetch, that clearing slots leaves the others.
* `ElementLists`, `Slots` follow.
* `Views`: `Spec => [](StructInv /\ ViewInv)`. That a view mirrors the elements is not inductive for the
  fetches of the list alone: a fetch id taken up again must find a view that knows nothing
  (`NothingUnfetched`), and `Mirrors` speaks of undisturbed fetches as pairs of peer and id. Each action
  has its own lemma about which views a loop changes that stops after `n` clients.
* `ViewsMirror`, `Closed` follow.

`BufferedSocketProofs`, the read side from `ConstantsAssumption` (a buffer of at least one byte,
natural bounds):

* `ReadInvariant`: `Spec => []ReadInv`, the conjunction of the three properties
  below with the facts that a request is set while `go_reading` runs and that only
  a closed connection has a reason to be closed. The lemmas carry the argument:
  `LengthsBounded` (a reader hands out between one and all unread bytes),
  `NeededPositive` (a reader that is not satisfied asks for at least one byte, so
  a read into no space never happens), `PreparedSound` (`fill_buffer` with or without
  reorganizing keeps the unread bytes in order), then one lemma or step for each
  action.
* `UnreadInOrder`, `ClosedReasons`, `NoStall` follow.

The write side from `WriteConstantsAssumption` (the io vectors of a message end one behind the other):

* `StreamStaysInOrder`: what the socket took, followed by what waits, is the stream of accepted messages,
  for every split of a `writev` inside and between io vectors, and for a `send` in the middle of the buffer.
  A call that was refused may have left the beginning of its message behind that stream; after an
  error of the socket nothing is claimed.
* `WaitingWakeUp`: bytes that wait have `EPOLLOUT` due, or a failed call or a closed connection behind them.

`AuthFileProofs`, from `ConstantsAssumption`:

* `FileInvariant`: `Spec => []FileInv`. Neither property is inductive. `FileInv` keeps, piece by
  piece, that a piece of the file or of the text in memory holds only acknowledged or later passwords, that a piece of the disk
  holds only those of `older`, and that `older` includes the former; a piece may be at its place or not, be
  missing or be a hole. It also keeps that in a rewriting without a mishap the file is either
  empty or the new text complete. The steps that matter are `WriteBack`, which mixes pieces of both files on the disk, and
  `MachineFails`, which makes the disk the file.
* `FileMatchesMemory`, `NoOldPasswords` follow.
* `AccessInvariant`, with `GroupsAssumption` (the lists of groups in a file are lists of names):
  `Spec => []AccessInv`. The names of the table are distinct, and the groups of a peer are the bits of names
  entered before the daemon served it, so a bit keeps its meaning until the next start. `AccessIsByName`
  follows.

`ServerProofs`, from `ConstantsAssumption`:

* `ServerInvariant`: `Spec => []ServerInv`, a conjunction of named parts: which servers are open
  at each `pc` (`ServersOpen`), what epoll and the peer list know of the descriptors (`Connections`), that the
  events of a batch have different targets, and that a connection among them that is closed was
  closed by another's handler (`Batches`), that a server with a backlog has an edge due or is being accepted
  from (`Wakes`), and what is gone in the end (`PeersGone`).
* `NobodyForgotten`, `NothingOpenAtExit`, `CrashesHaveCauses` follow.

`WebsocketProofs`, from `ConstantsAssumption`:

* `WebsocketInvariant`: `Spec => []WebsocketInv`: what the flags of a frame, the peer and what was
  sent may be under each installed callback.
* `FrameOutcome` is the lemma the others rest on: however a frame is handled, the connection
  continues with the next header, waits for more of this frame, closes, or faults, and what
  each leaves in the flags, the user's event and the close code. `Reads` says so of every step that
  reads a part of a frame.
* `PeersOwnConnections`, `FaultsHaveReasons`, `SendsInOrder`, `FramesAreJudgedRight` follow, and
  `WebsocketImplementsStream`: each step is a step of `MessageStream` or a stutter.

The second part of `RouterProofs`, about `Hashtable`, from `TableAssumption` (the hop range is at most the size of the table; sizes
are numbers, since the provers do not compute powers of two):

* `HashtableInvariant`: `TableSpec => []HashInv`. `HopInfoSound` speaks of the table between two
  calls; `HashInv` says at *every* store which bit is the exception (the one `Clearing`), which entry
  no bit leads to (the one put works on), and which entries in use are stranded: those lost, and
  that one. `Ring` has the arithmetic of positions and distances, `GetFinds` that a key a bit leads to is
  found there and nowhere else, `OneBit` that no entry belongs to two bits, `CloserEntry`
  that the search for an entry to move has a result. Then one lemma for each store.
* `TableIsSound` follows; that there are as many reachable entries as keys is the bijection
  from a position to its key (`OneEntryPerKey`).
* `HashtableImplementsMap`: a store either leaves what `Get` returns for every key, or is the one
  store of its call that takes effect (value of a known key, last `hop_info` of a new one, key of
  a removed one), and then for that key alone.

`FormatsProofs` and the lemmas of `HandshakeProofs`, from the assumptions of the machines about their constants
(`InputsAssumption`, `HandshakeAssumption`), which TLC evaluates for the configuration here. Each theorem is about `FormatsSpec` and has the form `Runs(m) => Inv`
inside: another machine's step leaves the variables of `m` alone.

* `TimeoutsKeptAlways`: by `PartsMakeUpTime` seconds and rest of a division add up to what
  was divided, and by `ConvertedNear` the nanoseconds of a timeout within the range are those of `Near`
  and never 0, which would stand for an error.
* `FragmentsCompleteAlways`, by `BufferInv`: while no fragment was more than three
  bytes longer than everything before it, the buffer holds the message and its size
  (`SumLen = total`) and keeps a free byte. The free byte is what makes it inductive:
  `avail_in = 0` means "no buffer", so a buffer filled exactly would be forgotten.
  `ReassembleKeeps` is the argument: a buffer that is too small has size
  `avail_in + total + 4`, and doubling it leaves at least `total + 4` bytes.
* `AnswersCompleteAlways`, by `AnswerInv`: after each step of a script the blocks that live are those of the
  steps before it (`Built`) but the ones that were missed, and an answer given up has only what could not
  be freed (`Abandoned`); the heap counts each block with its header (`MemoryCounted`).
* `FetchSelectsAlways`, by `RulesInv`: the matcher slots filled so far are the rules of the members read so far,
  the slot of the `k`-th member being `k`, or one less once the option came before it; `held` is the number of
  elements in these slots and of the blocks around them (`FilledIsCounted`); a refusal has a `Reason`.
  `RuleHolds` connects a comparison in the code with the meaning of a rule, letter by letter
  (`ComparedByLetters`). The exception is the option given twice, for which the slots and the members are out of step.
* `HandshakeSoundAlways`, by `ExtensionInv` and `OctetsInv`. `ExtensionInv`: while an offer is judged, the answer
  tells of exactly the parameters offered so far, each once and as the connection has it (`Tells`), so it is at
  most as long as one that tells of all four (`BytesFit`), and no window exceeds its offer (`Kept`); a refused
  offer leaves its answer behind and the parameters in range (`ParametersOK`), which is all the next one needs.
  `OctetsInv`: before the hash is made, the context holds the whole blocks of the message, the octets of the next
  and the number of bits (`Reading`). `AllTaken` follows the loop of `SHA1Input`, `PaddedAsMeant` the two ways
  through `SHA1PadMessage`; `SameBits` goes through the 24 bits of three octets, `UnmaskedAlways` through the
  alignments. What the loops over pieces and parameters compute is a recursive function over `0 .. n`;
  `Recursion` shows that there is one, from the step to the next value, by `StepByStep`: the number at which a set
  that steps up from zero first fails would be the least of a set of numbers.
* `UrlPartsSoundAlways`, by `UrlInv`, for any text whatever as URL. While the loop over a URL runs (`UrlLoop`), the
  fields found so far end before the symbol that is read, each between its delimiters, the field that grows ends
  just before it, and the state says which fields there are and what the last symbol was (`UrlKnown`, `UrlAt`).
  `HostLoop` says the same of `http_parse_host`, which cuts the host field into user info, host and port. Both loops
  are recursive functions; `Recursion` unfolds them. The step from one to the other is that whatever of the host
  field is in none of its parts is a delimiter (`PartsWithHost`).
* `TellsTextAlways`, by `Utf8Inv`, for texts of any length, whatever bytes and words they are made of. `Judged` ties the
  checker to the text: it says yes and waits for the next byte of the character that has begun after the last
  complete one (`BegunAt`), or it says no and no character begins with the bytes there (`BrokenAt`). `ByteJudged` is
  the step of `is_byte_valid`, `BytesJudged` the loop over bytes, `WordJudged` a word: one that a mask lets pass
  consists of complete characters unless it hides a lead byte (`SkippedCounts`), which is why `hidden` is in the
  invariant. `AlignedJudged` joins the three parts of an unaligned sequence, each judged whatever came before it.
  That ranges of bytes are ranges of code points is arithmetic (`ThreeBytes`, `FourBytes`), and `Meaning` finds the
  bytes that complete what has begun. `BytesAssumption` says that a byte has 8 bits, a word 4 or 8 bytes, and that what
  is checked at any alignment has 8 bytes at least; shorter ones take the way byte by byte.

Only model-checked:

* `HeardAsWritten`, `JsonRoundTrip` and `ListsSound` of `MCFormats`. They are
  about the texts and trees in `Samples`: what a loop over a text computes, or structures nested to any depth, for
  which the provers have no induction;
* the liveness properties `RequestsEndAnswered`, `ArrivedIsRead` and `SignalStops`: liveness
  under fairness is beyond the proof system.

## Not modelled

* What zlib computes (its outcomes are chosen), what SHA-1 makes of a block, the digits of JSON
  numbers: functions without state, whose results nothing else here depends on.
* The client side of `websocket.c` and of `compression.c`, which the daemon does not use.
* The length-prefixed parsing of `socket_peer.c` is two calls of `read_exactly`, which
  `ReadBuffer` allows in any order, and no module of its own.
* Command line, daemonizing, privileges beyond success or failure, log messages, random
  numbers, endianness: thin wrappers of system calls.
* config and info requests change nothing that elements and fetches depend on.
* The repetition of request ids after 2^32 requests.
* The rule of RFC 6455 that a length is written in the shortest form, which the code does not check: `Legal`
  of `Websocket` leaves it out.
* URLs that are `*`, and the characters `.` and `-` of host names, which are treated as a letter is, are not in
  the alphabet of `UrlParser`'s run.
* The stubs of a Windows port, which has no event loop.

## Plan

What a next step would take up:

1. `RequestLife`: what a requester may rely on, as an abstract specification that
   `Router` implements up to a fault.
2. A composition of `Router` and `Fetch` over one peer list, and of `Server` with them, so that a
   handler that closes another peer is the one whose send failed.
3. Proofs about the remaining machines of `MCFormats` as far as they do not need induction over nested data:
   that the list operations of `JsonTree` keep `next` and `prev` inverse to each other (`ListsSound`).
