# A TLA+ model of grtcserver

grtcserver is a WebRTC media server in C++. Clients talk to it over TCP: a
*push* request announces a stream and is answered with an SDP offer, an
*answer* request brings the client's SDP answer; after that ICE, STUN and DTLS
run over UDP. This directory models the server's own code (`src/src`, about
7200 lines; the rest of the repository is vendored). File names below are
relative to `src/src`.

The repository has no tests and no documentation beyond comments. The build
passes no `-O` flag (`CMakeLists.txt:4`), so the compiled program keeps the
order of the memory accesses in the source, and on x86 the stores of a thread
become visible in order: interleaving single accesses covers what the build can do.

## The system

| part | state | operations | talks to |
|---|---|---|---|
| lock-free queue (`base/lock_free_queue.h`) | a linked list, `first`, `divider`, `last`, `_size` | `produce`, `consume` | used between the signaling server and its workers and between the RTC server and its workers |
| signaling server (`server/signaling_server.*`) | listening socket, pipe, round-robin index, workers | accept, dispatch, start, stop, join | workers, by queue and pipe |
| signaling worker (`server/signaling_worker.*`, `tcp_connection.*`) | `_conns`, `TcpConnection` objects, watchers, timers, two queues, a pipe | new connection, read, parse, request, reply, write, time out, close, stop | the RTC server, by queue and pipe; its clients |
| RTC server (`server/rtc_server.*`) | queue, pipe, certificate, workers | route a message, renew the certificate, start, stop, join | RTC workers |
| RTC worker (`server/rtc_worker.*`) | queue, pipe, stream manager | push, answer, stop | signaling workers, for replies |
| `main.cpp` | two global servers | init, start, signal handler, join | both servers |
| UDP socket (`base/async_udp_socket.cpp`) | packets that wait, whether WRITE is watched | `send_to`, `send_data`, `recv_data` | ICE |
| event loop (`base/event_loop.*`) | libev watchers and timers | start and stop events and timers | everything |
| ICE (`ice/ice_*`, `udp_port.*`, `port_allocator.*`) | agents, channels, ports, credentials, connections, states, selected connection | gather candidates, answer checks, pings, responses, sorting, switching, destruction | UDP socket, DTLS |
| STUN (`ice/stun.*`, `stun_request.*`) | pending requests | encode, decode, match a response | ICE |
| DTLS (`pc/dtls_transport.*`) | certificate, fingerprint, cached client hello | set up, read packets | ICE, `rtc_base` |
| peer connection, SDP (`pc/*`) | local and remote descriptions | create offer, set remote description | streams, ICE |
| streams (`stream/*`) | push streams by name | create, find, set answer | RTC worker |
| log (`base/log.*`) | two queues, two files, a writer thread | log, write, reopen | everything |

Threads: main, the signaling server, its workers, the RTC server, its workers,
the log writer, and `process_signal`, which interrupts any of them. Every
worker thread runs one event loop and owns its objects; threads meet in the
queues, in the pipes, and in the pointers that messages carry.

What is hard here: the queue without a lock; messages and notifications that
travel separately; blocking pipes between threads in a circle; replies that
outlive their connection while descriptors and addresses are reused; partial
reads and writes; starting and stopping while requests are under way; a signal
at any moment; a certificate replaced while its address is on its way; answers,
checks and new pushes in any order; lengths and padding in signed messages;
ports that are never given back; a log whose files and disk fail; a signal handler that writes to pipes on top of
the threads that read them. `PROJECT.json` lists each such place with its line and the
properties that would notice if it went wrong.

What makes each part correct:

* queue: a FIFO, without a dangling pointer or a leak, whose producer always returns;
* hand-overs: no message without a notification, no wakeup without a message,
  nothing lost, answered twice or reordered within a stream, no thread waiting for ever;
* signaling worker: the table, the objects, the watchers and the timers always
  agree; a request is taken once; replies are whole and go to who asked; idle
  connections end;
* shutdown: threads end before whoever waits for them, and what can keep a
  signal from ending the program is known;
* UDP socket: packets leave in order, none is stranded, errors reach the caller;
* ICE: the vector, the ping sets, the selection and the states of channel and
  connections agree; pings are signed and start whatever comes first; a peer
  that stops answering is noticed, one that answers again is used again;
* sessions: an offer promises what the worker then does; an answer reaches the
  push it is for; every check gets the reply that RFC 5389 and 8445 ask for, and
  every ping is one the peer accepts;
* log: every line once, in order, in its file, and no thread held up by logging.

## Plan

| order | modules | status |
|---|---|---|
| 1 | `SpscFifo`, `LockFreeQueue`, `LockFreeQueueProofs` | done, proved |
| 2 | `RtcPipeline`, `RtcPipelineProofs` (composes the queues of four kinds of threads) | done; all safety proved |
| 3 | `SignalingWorker`, `SignalingWorkerProofs` | done; all safety proved |
| 4 | `ServerLifecycle`, `ServerLifecycleProofs` | done; all safety proved |
| 5 | `LossyFifo`, `UdpSendQueue`, `UdpSendQueueProofs` | done; the accounting and the refinement proved |
| 6 | `IceChannel`, `IcePing`, which adds the clocks, and `IceProofs` for both | done for one channel; all safety proved, and that `IcePing` implements `IceChannel` |
| 7 | `StunMessage`, `SessionDescription` (operators), `RtcSession` (composes them with streams, peer connections, ICE agents, ports and DTLS), `RtcSessionProofs` | done; all safety proved, and that the codec writes and accepts the messages of RFC 5389 |
| 8 | `LogPipeline`, `LogPipelineProofs` | done; the accounting proved |

## Modules

### `LockFreeQueue`, implementing `SpscFifo`

One action per access to a shared location: `produce` is
`ProduceLink`, `ProducePublish`, `ProduceCount`, then `Reclaim` and
`DeleteTemp` in a loop, then `ProduceReturn`; `consume` is `ConsumeTest`, `ConsumeRead`,
`ConsumeAdvance`, `ConsumeCount`. Freed addresses are allocated again. The
auxiliary `stamp` numbers allocations, so that a node can be told from its
successor at the same address; `produced` and `consumed` are histories.
`SpscFifo` is the promise: what is consumed is a prefix of what is produced.

### `RtcPipeline`

All hand-overs between the four kinds of threads. A hand-over is two steps,
put and notify; a notification blocks while the pipe is full; the receiver
reads one notification and takes one message. A message carries its
connection, command, stream and signaling worker. The certificate may expire, and then
renewal may fail, which drops messages. A queue operation is one step: a mutex
makes it so for `std::queue`, `LockFreeQueueProofs` for the other kind.

### `SignalingWorker`

One worker's connections in full: `conns` is `_conns`, `heap` the objects,
`io` and `timers` the loop's watchers, `open` the process's descriptors.
`_close_conn` is two steps, because `close()` frees the descriptor and the
signaling server may accept a connection with it before `_remove_conn` runs. A
request is a head that says how long the body is and what parsing it will
give; `_process_query_buffer` is a loop of steps (`QueryHead`, `QueryBody`,
`QueryDone`), `_write_reply` another (`WriteStep`, `WriteFails`, `WriteDone`). A
write of 0 bytes has no step: the code tries again at once, so a client that does not
read keeps the worker where it is, and nothing in the model says that it ever
goes on. A write to a client that has reset its connection raises SIGPIPE, which nothing
handles: `pc = "killed"`. A client may send, and be read from, without end;
`qlen`, the length of the input, is kept up to the mark and one more expected
length, above which the code cannot tell. Pushes are in `rtc` until they come back
in any order, or never. `age` is `now() - last_interaction` in ticks. Auxiliary: the
identity of a connection, counters, and what was written to its socket.

### `ServerLifecycle`

`main()` from `signal()` on, the two servers and
their workers, with enough traffic (connections, requests, replies) to fill
pipes of one notification. `<<s, 0>>` is server `s`, `<<s, i>>` its worker
`i`; `LogWriter` is the thread `g_log->start()` has made (`main.cpp:77`), which nobody
stops. `Write` has the three outcomes of `notify()`: it blocks or succeeds while
both ends are open, kills the process by SIGPIPE when the read end is closed,
and fails when both are. A worker whose loop was told to break still serves
the requests of the same round, as `ev_run` does.

A signal interrupts any thread that exists, also one in a blocked `write()` or
`join()` (`signal()` sets `SA_RESTART`, so those go on afterwards), also one
that is in the other signal's handler: `stack` has, for each thread, the handlers on
top of it. A thread goes on only when its stack is empty (`Runs`), and of a stack
only the topmost handler goes on. The handler logs (`LogSignal`), then stops one server
and the other (`StopServer`). So a handler on the thread of a server whose pipe
is full waits for itself, and one of a worker in the middle of the circle of pipes holds the circle
up. Each signal arrives once.

`RTC_LOG` is part of the step it stands in, and its lock is free between
steps. The exception is a signal that interrupts the thread which holds the lock
(`InRtcLog` says where that can be): `locked` is then true for ever, the handler waits for its own
thread, and each thread stops at its next message (`blocked`; the guards
`~ locked`). Messages about the certificate, which the RTC server logs on its way
to a worker, are not a step of their own.

### `UdpSendQueue`, implementing `LossyFifo`

One step per `sendto()`, which sends, blocks or fails. `LossyFifo` is the
promise: packets leave in the order in which they were handed over, each at most once, and
only the oldest and the newest waiting one are given up.

### `IceChannel`

One `IceTransportChannel`, its `IceController` and its `IceConnection`s;
`Conn` is the set of remote addresses (a port makes one connection of each),
`connections`, `unpinged` and `pinged` are the controller's collections,
`requests` and `since` say which connections have pending requests and pings
since the last response, `recent` orders them by their last ping. A connection
has the user name of the first check, which may be empty or not that of the
answer, and a password once the answer's name is its own. The handlers
are `UnknownAddress`, `SetRemoteIceParams`, `PingResponse`, `ErrorResponse` and
the timer, `CheckAndPing`. A connection signals each change of its state, and
the signal sorts and switches at once, in the middle of the handler: so
`received_ping_response` is two steps and `update_state` three per connection,
each ending in `SortAndUpdate`. Whether an interval has passed is a choice
(`late`, `due`). An error response whose integrity is right ends the process:
`_switch_selected_connection(nullptr)` logs `conn->to_string()`, and
`check_response` deletes a request that was deleted with its connection; that
is the end of a behaviour, and the comments that say what should follow
(`ice/ice_connection.cpp:85`, `ice/ice_transport_channel.cpp:225`) describe
code that is not reached.

### `IcePing`

`IceChannel` with its clocks: each action is one of `IceChannel` with its
choices made by the ages of pings and responses, the counts, the averaged
round trip and the timer. An age is kept up to `MaxAge`, above which the code
cannot tell; the times are never absolute, so behaviours go on for ever and
liveness can be checked. Responses arrive to any pending request at any age,
or never; the timer may fire late.

### `StunMessage`

The STUN codec as operators: a message under construction, the datagram that
`Write` makes of it, and what `validate_fingerprint`, `read`,
`validate_message_integrity` and the accessors make of a datagram. Lengths,
padding and positions are computed as the code does; a digest is the tuple of
what it was taken over, so that two are equal exactly when key, header and
attributes were. The operators `Rfc...` are the reference: the same notions
from RFC 5389, written without the code's positions. Sums of lengths
(`Total`) are a recursive function, which can be proved about. Attributes that
are cut off in the middle are not modelled.

### `SessionDescription`

An offer as contents, bundle groups, transport infos and candidates, the lines
of its text that a peer acts upon (`OfferText`), and an answer parsed line by
line: `ParseLine` is one turn of the loop and `ParsedLines[n]` what it has
found after `n` lines, a function of the number so that it can be proved about.
A line has a key, a value and whether it ends with `\r`: that is what the
parser's results depend on.

### `RtcSession`

An RTC worker from the message to the socket. `cert` is the certificate the
server holds (a message has the number of the one whose address it carries),
`queue` the worker's messages, `push_streams` the streams by name, `pcs` the
peer connections with description, channels, ports, connections and DTLS
transports. `Forward` is the server's `_process_rtc_msg`; `ProcessPush` is
everything from `_process_push` to `to_string()`, with the sockets that can or
cannot be had (`fails`) as input; `ProcessAnswer` is `set_answer` down to
`maybe_set_remote_ice_params`; `ReceiveRequest`, `ReceiveResponse` and
`ReceivePacket` are the three things a datagram can be. `delete stream` frees
the peer connection and the transport controller, but `_ice_agent` is a plain
pointer nobody deletes: so nothing leaves `pcs`. Timing, states
and selection of connections are in `IceChannel`, and not repeated here.

The server's thread goes on while the worker makes an offer, and may free the
certificate at any moment of it. `create_offer` looks into the certificate once
for each content (`pc/peer_connection.cpp:54` and `:62`) and only copies its
address after that (`pc/transport_controller.cpp:50`). All else in the handler belongs to the
worker's thread, and the only other thing the server's thread does to this state is to append to
the queue, which commutes with it. So `ProcessPush` is one step
whose input `intact` says which fingerprints were taken in time: all, none, or
the audio's alone; the renewal in between is part of the step, a renewal before or after
is one of its own. The fingerprint of a freed certificate may
be anything, and taking it may end the process (`crash`).

`create_ice_candidate` does not set `sin_port` (`ice/udp_port.cpp:154`).
`SockBind` overwrites it when there is a range; without one the `bind()` is for the port that is
there: 0, for which the kernel chooses, or some port, which the socket gets if it
is free and permitted. `GatheredPorts` chooses the value for each interface.

### `LogPipeline`

`OnLogMessage` in any thread (`Lock`, `Push`), in the signal handler on top of
a thread (`Signal`; the thread does not go on, and what the handler locks its
thread has locked), and the writer's loop: `Check` (`stat`, `close`, `open`),
`WriterLock`, `Drain`, `WriteOut`. `main()` starts the writer even if
`init_log` failed, and returns without stopping it. Opening and writing may
fail, and another program may remove a file (`faults` bounds how often);
`out` has what was handed to a stream, `lost` what it did not take.

## Runs

| run | shows |
|---|---|
| `lock_free_queue` | with 3 addresses, 2 values and 4 calls of `produce` (so that every address is freed and reused): no dangling pointer, no leak, `_size` right up to the updates under way, a FIFO, and `produce` returns |
| `rtc_pipeline` | 2 + 2 workers, pipes of one notification, 3 connections, two streams that hash to different workers, an expiring certificate: queues and pipes in step, every wakeup finds its message, a request is in exactly one place until it is finished or given up, the requests of a stream are carried out in order; connections reach their worker and pushes are answered |
| `pipeline_backlog` | 6 pushes through single workers: the circular wait of the three threads is reachable, and only with as many messages as the property says |
| `worker_connections` | 2 connections on 2 descriptors and 2 addresses, each kind of request, a mark that long input reaches, and time: all safety properties of the worker; and every connection ends, unless it is read from again and again or the worker itself is held up in one of the three ways `ConnectionEnds` names |
| `worker_reply_after_reuse` | violation: a late reply goes to the next connection |
| `worker_second_request` | violation: input that goes on after a request is taken for another one at the mark |
| `server_lifecycle` | 2 + 1 workers, two signals on any threads at any moment, also one on top of the other's handler, a connection or request: `main()` returns after all threads but the log writer, servers never write to a pipe their worker has closed, a signal after start ends the process unless it interrupts the thread that logs or threads wait for each other |
| `ice_channel` | 2 connections of different priority, round trips on both sides of the initial one: all safety properties of the channel |
| `ice_ping` | 1 connection with clocks, intervals of 1 to 4 ticks in the code's order, ages to 5: a state is lost only after the whole silence, always when the peer is gone, and comes back when it answers |
| `udp_send_queue` | 5 packets: order, accounting, nothing stranded |
| `rtc_session` | 2 pushes of one stream by one or two users, 2 answers in four layouts, ten kinds of binding request, a range of ports of which one is taken and a pair that is no range, a certificate that is renewed once, before, while or after an offer is made: offers are served, ports are unshared and come from the range as long as there are any, answers reach their push, passwords follow the answer in either order, pings are acceptable, and requests get the reply the RFCs ask for |
| `log_writer` | 2 threads, the handler and the writer, 2 lines to any of the two files, 2 faults: lines are accounted for and reach their file |

Runs but `ice_ping` switch the deadlock check off: these systems may stop for good
when nobody connects, sends or signals (and, in the models, when a bound is
reached, or the process has crashed); that nothing stops with work to do is what the liveness properties say.

### Bounds

`PipeCap = 1` stands for 16384: what matters is that a pipe can be full, with
a writer behind it. `MaxConn`, `MaxProduce`, `MaxPackets`, `MaxMsg` bound the
input; each is large enough for reuse (a connection or node that gets the
descriptor or address of an earlier one) and for a full pipe with a blocked writer. `Mark`
is 65535 in the code and 3 or 4 here, with heads of 2 bytes: above a head and
bodies on both sides of it. The number of reads is not bounded. `MaxReplies` bounds the
repetition that begins when the mark is reached: the code's loop never ends then,
the model's stops. `Timeout` is 5 seconds in the code and 1 or 2 ticks here.
In `ice_ping` a tick stands for some 48 ms to 1 s: only the order of the
intervals and timeouts is kept; `RttRatio` is 1 instead of 3, `ConnectFails` 2
instead of 5 and `MinPings` 1 instead of 3. Symmetry is used on users in `rtc_session`, which checks invariants only.
In `rtc_session` two pushes are enough for a replaced stream, a late answer and
a range that runs out; two answers for one that replaces another; `MaxQueue = 1`
leaves the order of messages to the server, which `rtc_pipeline` checks. Ports
1 to 3 stand for the 64000 of the code. Of the lifecycle there are two workers of a
kind, so that one is joined while the other runs, and two signals, so that `QUIT`
comes twice and handlers nest; `QUIT` and the one message are enough to fill pipes of
one. In `worker_connections` two connections already reuse a descriptor and an
address, and more are what `SignalingWorkerProofs` is about. In `log_writer` two lines can be in one
queue, in both, or in a queue and in the buffer, and two faults can hit the
same file. The runs keep to properties that say more than a type
invariant; the types are part of the inductive invariants that are proved.

### Fairness

Threads that can run do (weak fairness of each thread's steps): the operating
system's scheduling. In `worker_connections` the handlers that a round of the event loop
will call have strong fairness, because libev serves every ready descriptor
and every expired timer in each round, whatever else happens between; and time
passes. In `udp_send_queue` the socket is
writable again and again. In `ice_ping` time passes, a handler that began
finishes, an expired timer is served (strong fairness, as other handlers may
come between), and, for `BecomesWritable`, a peer that is not gone answers
some of the pings of each connection. In `log_writer` the writer and the threads
have strong fairness, as a mutex that is released again and again is had in
the end. Nothing is assumed of clients (that they send,
read or close), of signals, or of the RTC threads' replies.

## Findings

* `worker_reply_after_reuse`: `_response_server_offer` recognises the
  requester by descriptor and pointer. After the requester is closed, the next
  connection usually gets the same descriptor, and its object may get the same address; it
  then receives the offer made for the other client. The comment at
  `server/signaling_worker.cpp:82` says the pointer is there to prevent this.
* `worker_second_request`: after a request `bytes_processed` becomes 65535, and
  the comment at `server/signaling_worker.cpp:234` says that no input ever reaches that
  length and that nothing after the body is processed. But each read appends to `querybuf` for as
  long as the client sends; at 65535 and one more body's length the loop
  takes the head at the start of the buffer for a new request, and repeats that
  without end. `OneRequestBelowMark` says that it takes no less.

Three more disagreements were met on the way and are listed among the hazards:
a signal that arrives while `start()` runs is dropped, since `_stop` does
nothing while `_thread` is null (`server/rtc_server.cpp:121`), and a selected
connection that has timed out is kept beside a writable one whose round trip is
not 10 ms shorter (`ice/ice_controller.cpp:185`, against `ice/ice_controller.h:30`,
"排序connection 并选出最优的connection"); and without a range of ports the
system is said to give an available one (`base/socket.h:28`), but
`create_ice_candidate` never sets `sin_port` (`ice/udp_port.cpp:154`), so the port
that happens to be on the stack is asked for, and if it is taken or privileged the
offer has no candidate. `StopAfterStart`, `SelectedAgree`, `FirstIsBest` and `PortsFromRange` are what does hold.

In a few places the model follows code that cannot do what it is for: a ClientHello is never recognised (`pc/dtls_transport.cpp:28`), the bundle
of an answer never (`pc/peer_connection.cpp:156`), the code of an error
response never (`ice/stun.cpp:387`), and an answer without `\r` is read as the
names of its attributes (`pc/peer_connection.cpp:95`).

`RepliesMatchRfc` compares the replies with a verdict written from RFC 5389,
10.1.2, and RFC 8445, 7.3, where a user name is valid by its first half. What the
code does otherwise is outside `FromItsPeer`, the condition for a
success: on an address that has a connection it answers 401 to a check with
another ufrag of the peer (`ice/ice_connection.cpp:254`), as after an ICE restart; it asks
for a PRIORITY (400) only where there is no connection yet
(`ice/ice_transport_channel.cpp:107`); it does not look at the role, so it
never answers 487 (`ice/ice_connection.cpp:237` has the comment); nor does it answer 420
to unknown attributes, which the modelled requests do not have.

## Proofs

Each theorem is about the module's whole specification, for every value of the
constants that the module's ASSUMEs allow. The argument is the same everywhere:
an inductive invariant holds initially, every action preserves it (one lemma or
step per action), and it implies the property that the runs check. The
properties are seldom inductive by themselves; below is what each needs.

`LockFreeQueueProofs`: for any set of addresses and values and any number
of calls, the queue is type-correct, memory-safe, without leaks, `_size` is
right, and it implements `SpscFifo`. The inductive invariant
`QueueInv` says that live nodes carry distinct consecutive stamps from
`first` to `last`, each pointing to the next, that `divider` is between them,
that the values after `divider` are the produced ones not yet consumed, and
what each thread holds at each step. `TypeOK` and `NoUseAfterFree` alone are
not inductive: that the node behind `first` exists follows only from the order
of the stamps.

`RtcPipelineProofs`: for any number of workers, streams and pipe size, queues
and pipes stay in step (`TokensMatch`), a woken thread finds its message
(`WakeupsFindMessages`), and the three threads can block each other only under
a backlog of `3 * PipeCap + 3` messages (`DeadlockNeedsBacklog`). The invariant
is `TypeOK`, `InHand` (a thread about to notify has its message in hand, and
only then) and `TokensMatchMessages` itself; counting the notifications of one
kind in a mixed pipe rests on lemmas about appending to and taking from a
sequence. `StreamsAreInOrder` needs `OrderInv`: the queues of the server and
of its workers are in the order of sending, a worker's queue has messages of its own streams
only, all older than those the server has yet to pass on, and what is queued was
not carried out before. `RequestsAreInOnePlace` needs `PlaceInv` too: a connection that
has not sent is in one place and has no message and no reply, and a connection
sends one message and is answered only when that is gone; and `AccountInv`: every request that was
sent is in a queue, finished or given up, and only one that was sent is.

`SignalingWorkerProofs`: for any clients, descriptors, addresses, requests and
mark, the six safety properties of the run. `WorkerInv` joins the properties
about table, watchers and descriptors to `WatchedFor` (`RepliesWatched` also
while `_write_reply` runs, which drops WRITE at its end only) and to `ConnOK` of
each object: its bytes on the wire follow each other and end where
`cur_resp_pos` says (`WireWhole`, `WireEnd`), and `bytes_expected` and
`bytes_processed` fit the requests taken so far (`Framing`). Table, watchers and
descriptors need each other: between `close()` and `_remove_conn` a descriptor
may be accepted again, and that this leaves one entry for it follows only from
where the handler is.

`ServerLifecycleProofs`: for any number of workers and signals, any pipe size and
any thread a signal interrupts, `MainIsLast` (the log writer alone is left) and
`ServersWriteToOpenPipes`. `StopInv` adds to the types
which threads exist at each point of `main()` (`MainPhase`), who writes to whom
(`Routes`), that `_stop` begins with the first worker, that a worker which was
not told to stop runs, or waits for the log, with its pipe open (`UntoldRun`), and that the workers
`_stop` has passed have ended (`JoinedDone`). Handlers change pipes only by adding
`QUIT` to those of the servers, which is why they disturb none of this.

`UdpSendQueueProofs`: for any number of packets, `PacketsAreAccounted`, that
nothing is sent twice or overtakes another (`SocketOrder`), and that
the queue implements `LossyFifo` (`SendQueueRefinesFifo`). `SendInv` says that
sent and waiting packets together increase and that the packet in hand is the
newest, neither sent nor waiting: only so can it be put at the end or given up.

`IceProofs`: for any connections, priorities, round trips and intervals.
`IceInv` says that the vector has each connection once and is sorted as a whole
(`FirstIsBest` alone would not survive the loss of the first connection), that a
connection which was pinged or left its first state has a password, and, until
a connection is destroyed, that the selection agrees, that the states of the
channel are current, that what a handler has yet to look at exists (`Todo`) and
that only existing connections are in the ping sets and have requests
(`Known`). `ClocksImplementChannel` shows that every step of `IcePing` is one of
`IceChannel` or a stutter, so what is proved of the channel holds with clocks;
`GivenUpOnlyInSilence` then needs `TimeInv`: the pings without a response are no
older than the last response (`PingsSince`), averaged round trips stay in their
range, and between the two halves of a response only its own connection may be
in a state it is about to leave (`Silent`).

`LogPipelineProofs`: for any number of threads, lines and faults, `NoLineLost`:
each queued line is once and in order in its file, in the writer's buffer or in
the queue. `LogInv` says in addition that the buffer has lines only between
draining and writing, that without a fault the files are open and nothing was
dropped, and that the writer does not run before `start()`.

`RtcSessionProofs`: for any media, interfaces, ports, ranges, users, streams
and layouts of answers. `SessionInv` has the shape of peer connections and
channels, and three properties as they are carried through every handler:
`Served` (each m-line of an offer has its channel, with credentials, candidates
and, unless it was freed before that fingerprint was taken, certificate of the
offer), `Ports` (sockets hold different ports; with a range, they are of the range
and one lacks only where all of the range were held) and `Passwords`.
`PasswordFollowsAnswer` alone is not inductive: that no connection has a
password *before* the first answer must be said too. `AnswersReachTheirPush`
needs `AnswerInv`, which follows a push from the message to the offer to the
text of the answer to the credentials a channel takes from it. What a handler
other than a push does to existing channels is one relation (`Evolves`), shown
once to keep what does not depend on the handler. What the parser finds in a text of any
length is shown by induction on the number of its lines: the set of numbers for
which the claim fails has a least element if it has any (`WFMin` of
`WellFoundedInduction`, applied to a set, not to an operator), and one turn of
the loop refutes that one. The first free port of `sock_bind` is found the same way.

The same module proves the codec, for lists of attributes of any number and
length. That `Total` is a sum, grows by what is appended and is a multiple of
four for padded attributes is shown by the same kind of induction (`SumExists`,
`TotalAppend`, `TotalFour`, `TotalPrefix`). From this, for every datagram framed
as the RFC asks, in which an integrity has 20 and a fingerprint 4 bytes
(`IsDatagram`): `validate_fingerprint` and `validate_message_integrity`, with
its search for the attribute and the header length it writes back, accept
exactly what the RFC accepts (`FingerprintMatchesRfc`, `IntegrityMatchesRfc`).
In the other direction, `IsMessage` says that the length a message under
construction has kept in its 16 bits is the sum over its attributes; as long as
that does not overflow, what `add_message_integrity`, `add_fingerprint` and
`write` make of it *is* the message of the RFC (`WritesRfcMessages`).
`PingsAreAccepted` needs in addition that a channel keeps the credentials of its
own offer (`Credentials`, part of `SessionInv`) and `Passwords`;
`RepliesFollowRfc` compares `get_stun_message` and the two `_on_read_packet`
with `RfcVerdict` case by case (`ReplyFollowsRfc`), and needs `Counted`:
pushes that wait and peer connections are together at most `MaxPush`, so that
each connection's peer is one of those whose requests are modelled.

`tlapm <module>.tla` checks each proof module from nothing in a few minutes. A
leaf that takes a prover seconds names that prover and a limit (`SMTT`, `ZenonT`)
well above what it needs, so that the proofs also check on a slow machine.

### Assumptions

Assumed of the constants is what the ASSUMEs of the modules state, and TLC
evaluates each on the run's instance:

* null values (`NULL`, `Null`, `None`, `Nil`, `Blank`) are none of the things
  they stand in for: no address, connection object, request, message or transport
  description. A null pointer is no object in the code;
* there is at least one worker and one place in a pipe; the bounds are natural numbers;
* `Thread` of the log is finite;
* the intervals of `IcePing` are below `MaxAge`, a natural number: an age at the
  cap is beyond every threshold of the code;
* `PortAssumption`: ports are positive numbers, ranges pairs of integers, and every port
  of a configured range is one that may be asked for;
* `UfragAssumption`: a peer's ufrag has from 1 to 1500 bytes. It is known from a
  binding request, which came through a buffer of 1500 bytes
  (`base/async_udp_socket.cpp:10`); a ping with it cannot overflow the 16 bits
  of the length;
* `CheckAssumption`: the requests of peers are made of the user names, keys, roles and
  flags that `PeerMessage` distinguishes; `ReplyAssumption`: no reply to one is `Nil`;
* priorities and round trips are natural numbers, sizes positive, and the mark
  is above the size of a head, as it is in the code (65535 against 36).

### Only model-checked

All liveness (`ProduceReturns`, `ConnectionReachesWorker`,
`PushAnswered`, `ConnectionEnds`, `StopAfterStart`, `WaitingLeaves`,
`GoneTimesOut`, `BecomesWritable`, `LineReachesFile`), which is out of the
prover's reach. Every invariant of the runs is stated by a theorem.

## Not modelled

* The DTLS handshake: the code ends at `_maybe_start_dtls`, which is empty, and
  `set_remote_fingerprint` has no caller. `GrtcLog::stop` and `join` have none either.
* STUN attributes that are cut off or lie about their length, and classic STUN:
  `ByteBufferReader`, which refuses them, is not under `src/src`.
* Which file a name stands for after another program made it anew: the writer
  only asks whether there is one.
* The repetition that input beyond the mark of 65535 begins: the model stops it
  after `MaxReplies` requests, in `pc = "query"`.
* Configuration and network interfaces: read once at start, sequentially.
* The text of JSON, SDP and log lines; the content of heads and bodies.
* Destructors of servers and workers: nothing calls them.
* Which descriptor a number stands for after it was closed by `_stop`, and a
  notification that would go to it.
* Limits the code does not have: the list of waiting packets and the pending
  STUN requests grow without bound.
