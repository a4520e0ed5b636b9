-------------------------- MODULE SignalingWorker --------------------------
(***************************************************************************)
(* The connections of one signaling worker: the table _conns indexed by    *)
(* file descriptor, the TcpConnection objects it points to, the watchers   *)
(* and timers the event loop keeps for them, the framing of a request, the *)
(* pushes that are answered later by the RTC workers, and the replies.     *)
(*                                                                         *)
(* The worker is one thread; a handler is split where the code loops or    *)
(* where the signaling server, which accepts connections in its own        *)
(* thread, can slip in.  Descriptors and heap addresses are reused as soon *)
(* as they are free.  The way of a push through the RTC threads is         *)
(* RtcPipeline's; here it is in `rtc' until it comes back, in any order.   *)
(***************************************************************************)
EXTENDS Integers, Sequences, FiniteSets

CONSTANTS
  Fd,               \* file descriptors of connections
  Addr,             \* heap addresses of TcpConnection objects
  Null,             \* the null pointer, and memory that holds no object
  HeadSize,         \* GHEAD_SIZE
  RespSize,         \* size of a reply
  Request,          \* what clients send: body_len, and what parsing it gives
  Mark,             \* the 65535 that stands for "request done"
  Timeout,          \* connection_timeout, in ticks
  MaxConn,          \* bound on accepted connections
  MaxReplies        \* bound on requests of one connection

Kind == {"BADMAGIC", "BADJSON", "PUSH", "ANSWER"}

ASSUME SizeAssumption ==
  /\ HeadSize \in Nat \ {0} /\ RespSize \in Nat \ {0}
  /\ Mark \in Nat /\ Mark > HeadSize /\ Timeout \in Nat
ASSUME BoundAssumption == MaxConn \in Nat /\ MaxReplies \in Nat
ASSUME RequestAssumption == Request \subseteq [body_len : Nat, kind : Kind]

Id == 1..MaxConn

\* A push on its way through the RTC threads: the pointer and the descriptor
\* the code passes along, and (auxiliary) the connection it came from and
\* which of its requests it is.
RtcMsg == [conn : Addr, fd : Fd, id : Id, n : 1..MaxReplies]

\* A reply: (auxiliary) whose request it answers.
Reply == [conn : Addr, fd : Fd, id : Id, n : 1..MaxReplies]

\* A TcpConnection.  qlen is the length of querybuf, as far as the code can
\* tell the difference (Received).  id, requests and wire are auxiliary: which
\* accepted connection it is, how many requests were taken from it, and the
\* bytes written to the socket.
TcpConnection ==
  [fd : Fd, id : Id, qlen : Nat, head : Request \cup {Null},
   bytes_expected : Nat, bytes_processed : Nat, current_state : {"HEAD", "BODY"},
   age : 0..Timeout, reply_list : Seq(Reply), cur_resp_pos : 0..(RespSize - 1),
   requests : 0..MaxReplies, wire : Seq(Reply \X (1..RespSize))]

\* The null pointer is no address, no object and no request.
ASSUME NullAssumption == Null \notin Addr /\ Null \notin TcpConnection /\ Null \notin Request

VARIABLES
  open,             \* open descriptors
  q_conn,           \* _q_conn: accepted descriptors, with their (auxiliary) id
  accepted,         \* auxiliary: number of connections so far
  conns,            \* _conns
  heap,             \* the objects, Null where there is none
  io,               \* the events the loop watches on a descriptor
  timers,           \* the objects whose timer is running
  rtc,              \* pushes that have not come back
  pc,               \* where the worker's thread is; "killed": the process is gone
  cur               \* the connection it works on

vars == <<open, q_conn, accepted, conns, heap, io, timers, rtc, pc, cur>>

Init ==
  /\ open = {} /\ q_conn = << >> /\ accepted = 0
  /\ conns = [f \in Fd |-> Null]
  /\ heap = [a \in Addr |-> Null]
  /\ io = [f \in Fd |-> {}]
  /\ timers = {} /\ rtc = {}
  /\ pc = "idle" /\ cur = Null

Live(a) == heap[a] # Null

-----------------------------------------------------------------------------
(* Around the worker *)

\* The signaling server accepts a connection and gives it to this worker.
Accept(f) ==
  /\ pc # "killed"
  /\ f \notin open
  /\ accepted < MaxConn
  /\ open' = open \cup {f}
  /\ accepted' = accepted + 1
  /\ q_conn' = Append(q_conn, [fd |-> f, id |-> accepted + 1])
  /\ UNCHANGED <<conns, heap, io, timers, rtc, pc, cur>>

\* Time passes: now() - last_interaction grows, and is watched up to Timeout.
Tick ==
  /\ pc # "killed"
  /\ \E a \in Addr : Live(a) /\ heap[a].age < Timeout
  /\ heap' = [a \in Addr |->
       IF Live(a) /\ heap[a].age < Timeout THEN [heap[a] EXCEPT !.age = @ + 1] ELSE heap[a]]
  /\ UNCHANGED <<open, q_conn, accepted, conns, io, timers, rtc, pc, cur>>

-----------------------------------------------------------------------------
(* Opening and closing *)

\* TcpConnection(fd)
NewTcpConnection(f, id) ==
  [fd |-> f, id |-> id, qlen |-> 0, head |-> Null,
   bytes_expected |-> HeadSize, bytes_processed |-> 0, current_state |-> "HEAD",
   age |-> 0, reply_list |-> << >>, cur_resp_pos |-> 0,
   requests |-> 0, wire |-> << >>]

\* case NEW_CONN: _new_conn
NewConn ==
  /\ pc = "idle"
  /\ q_conn # << >>
  /\ \E a \in Addr :
       LET f == Head(q_conn).fd IN
       /\ ~ Live(a)
       /\ heap' = [heap EXCEPT ![a] = NewTcpConnection(f, Head(q_conn).id)]
       /\ io' = [io EXCEPT ![f] = {"READ"}]
       /\ timers' = timers \cup {a}
       /\ conns' = [conns EXCEPT ![f] = a]
  /\ q_conn' = Tail(q_conn)
  /\ UNCHANGED <<open, accepted, rtc, pc, cur>>

\* _close_conn up to close(): the descriptor is free before the table knows
CloseFd ==
  /\ pc = "close"
  /\ open' = open \ {heap[cur].fd}
  /\ pc' = "remove"
  /\ UNCHANGED <<q_conn, accepted, conns, heap, io, timers, rtc, cur>>

\* mutated form: the timer of the connection is left running
RemoveConnKeepsTimer ==
  /\ pc = "remove"
  /\ io' = [io EXCEPT ![heap[cur].fd] = {}]
  /\ conns' = [conns EXCEPT ![heap[cur].fd] = Null]
  /\ heap' = [heap EXCEPT ![cur] = Null]
  /\ pc' = "idle" /\ cur' = Null
  /\ UNCHANGED <<open, q_conn, accepted, timers, rtc>>

\* mutated form: the table entry is left in place
RemoveConnKeepsEntry ==
  /\ pc = "remove"
  /\ timers' = timers \ {cur}
  /\ io' = [io EXCEPT ![heap[cur].fd] = {}]
  /\ heap' = [heap EXCEPT ![cur] = Null]
  /\ pc' = "idle" /\ cur' = Null
  /\ UNCHANGED <<open, q_conn, accepted, conns, rtc>>

\* mutated form: the descriptor is closed once more
RemoveConnClosesAgain ==
  /\ pc = "remove"
  /\ timers' = timers \ {cur}
  /\ io' = [io EXCEPT ![heap[cur].fd] = {}]
  /\ conns' = [conns EXCEPT ![heap[cur].fd] = Null]
  /\ heap' = [heap EXCEPT ![cur] = Null]
  /\ open' = open \ {heap[cur].fd}
  /\ pc' = "idle" /\ cur' = Null
  /\ UNCHANGED <<q_conn, accepted, rtc>>

\* _remove_conn
RemoveConn ==
  /\ pc = "remove"
  /\ timers' = timers \ {cur}
  /\ io' = [io EXCEPT ![heap[cur].fd] = {}]
  /\ conns' = [conns EXCEPT ![heap[cur].fd] = Null]
  /\ heap' = [heap EXCEPT ![cur] = Null]
  /\ pc' = "idle" /\ cur' = Null
  /\ UNCHANGED <<open, q_conn, accepted, rtc>>

\* mutated form: a connection that has sent its request does not time out
ProcessTimeoutHeadOnly(a) ==
  /\ pc = "idle"
  /\ a \in timers
  /\ heap[a].age >= Timeout /\ heap[a].current_state = "HEAD"
  /\ pc' = "close" /\ cur' = a
  /\ UNCHANGED <<open, q_conn, accepted, conns, heap, io, timers, rtc>>

\* _process_timeout; a timer that finds the connection young changes nothing
ProcessTimeout(a) ==
  /\ pc = "idle"
  /\ a \in timers
  /\ heap[a].age >= Timeout
  /\ pc' = "close" /\ cur' = a
  /\ UNCHANGED <<open, q_conn, accepted, conns, heap, io, timers, rtc>>

-----------------------------------------------------------------------------
(* Reading a request *)

\* c after nread more bytes.  More than Mark and another bytes_expected make
\* no difference to the code, so qlen stops there.
Received(c, nread) ==
  LET most == Mark + c.bytes_expected
  IN  [c EXCEPT !.age = 0, !.qlen = IF @ + nread < most THEN @ + nread ELSE most]

\* _read_query up to _process_query_buffer.  sock_read_data returns -1 when
\* the peer has closed or the read fails, 0 when there was nothing to read.
ReadQuery(f) ==
  LET c == heap[conns[f]] IN
  /\ pc = "idle"
  /\ "READ" \in io[f]
  /\ cur' = conns[f]
  /\ \/ /\ pc' = "close"
        /\ heap' = [heap EXCEPT ![cur'].age = 0]
     \/ \E nread \in 0..c.bytes_expected :
        /\ pc' = "query"
        /\ heap' = [heap EXCEPT ![cur'] = Received(c, nread)]
  /\ UNCHANGED <<open, q_conn, accepted, conns, io, timers, rtc>>

\* The loop condition of _process_query_buffer
Complete(c) == c.qlen >= c.bytes_processed + c.bytes_expected

\* STATE_HEAD: the head says how long the body is
QueryHead(req) ==
  /\ pc = "query"
  /\ Complete(heap[cur]) /\ heap[cur].current_state = "HEAD"
  /\ IF req.kind = "BADMAGIC"
     THEN pc' = "close" /\ UNCHANGED heap
     ELSE /\ heap' = [heap EXCEPT ![cur] =
                        [@ EXCEPT !.head = req, !.current_state = "BODY",
                                  !.bytes_expected = req.body_len,
                                  !.bytes_processed = HeadSize]]
          /\ UNCHANGED pc
  /\ UNCHANGED <<open, q_conn, accepted, conns, io, timers, rtc, cur>>

\* mutated form: the reply is queued and the descriptor not watched
AddReplyUnwatched(a, c, r) ==
  /\ heap' = [heap EXCEPT ![a] = [c EXCEPT !.reply_list = Append(@, r)]]
  /\ io' = io

\* _add_reply to the object c at address a
AddReply(a, c, r) ==
  /\ heap' = [heap EXCEPT ![a] = [c EXCEPT !.reply_list = Append(@, r)]]
  /\ io' = [io EXCEPT ![c.fd] = @ \cup {"WRITE"}]

\* mutated form: the request is not marked as done
TakenUnmarked(c) == [c EXCEPT !.requests = @ + 1, !.bytes_processed = HeadSize]

\* What _process_query_buffer notes after a request
Taken(c) == [c EXCEPT !.requests = @ + 1, !.bytes_processed = Mark]

\* STATE_BODY: _process_request.  A push goes to the RTC server and is
\* answered when it comes back, a request that does not parse ends the
\* connection, everything else is answered here.
QueryBody ==
  LET c == heap[cur]
      msg == [conn |-> cur, fd |-> c.fd, id |-> c.id, n |-> c.requests + 1]
  IN  /\ pc = "query"
      /\ Complete(c) /\ c.current_state = "BODY"
      /\ CASE c.head.kind = "BADJSON" ->
                /\ pc' = "close"
                /\ UNCHANGED <<heap, io, rtc>>
           [] c.head.kind = "PUSH" ->
                /\ c.requests < MaxReplies
                /\ rtc' = rtc \cup {msg}
                /\ heap' = [heap EXCEPT ![cur] = Taken(c)]
                /\ UNCHANGED <<io, pc>>
           [] OTHER ->
                /\ c.requests < MaxReplies
                /\ AddReply(cur, Taken(c), msg)
                /\ UNCHANGED <<rtc, pc>>
      /\ UNCHANGED <<open, q_conn, accepted, conns, timers, cur>>

\* The loop ends, and with it the handler
QueryDone ==
  /\ pc = "query"
  /\ ~ Complete(heap[cur])
  /\ pc' = "idle" /\ cur' = Null
  /\ UNCHANGED <<open, q_conn, accepted, conns, heap, io, timers, rtc>>

-----------------------------------------------------------------------------
(* Replies *)

\* The checks of _response_server_offer
IsRequester(m) == conns[m.fd] = m.conn

\* case RTC_MSG: _response_server_offer
ResponseServerOffer(m) ==
  /\ pc = "idle"
  /\ m \in rtc
  /\ rtc' = rtc \ {m}
  /\ IF IsRequester(m)
     THEN AddReply(conns[m.fd], heap[conns[m.fd]], m)
     ELSE UNCHANGED <<heap, io>>
  /\ UNCHANGED <<open, q_conn, accepted, conns, timers, pc, cur>>

\* conn_io_cb with WRITE alone: _write_reply
WriteReply(f) ==
  /\ pc = "idle"
  /\ "WRITE" \in io[f]
  /\ conns[f] # Null
  /\ pc' = "write" /\ cur' = conns[f]
  /\ UNCHANGED <<open, q_conn, accepted, conns, heap, io, timers, rtc>>

\* mutated form: a finished reply does not reset the position
WrittenNoReset(c, n) ==
  LET new == [c EXCEPT !.wire = @ \o [i \in 1..n |-> <<Head(c.reply_list), c.cur_resp_pos + i>>]]
  IN  IF c.cur_resp_pos + n >= RespSize
      THEN [new EXCEPT !.reply_list = Tail(@)]
      ELSE [new EXCEPT !.cur_resp_pos = @ + n]

\* n > 0 bytes of the reply in front were written
Written(c, n) ==
  LET new == [c EXCEPT !.wire = @ \o [i \in 1..n |-> <<Head(c.reply_list), c.cur_resp_pos + i>>]]
  IN  IF c.cur_resp_pos + n >= RespSize
      THEN [new EXCEPT !.reply_list = Tail(@), !.cur_resp_pos = 0]
      ELSE [new EXCEPT !.cur_resp_pos = @ + n]

\* One turn of the loop of _write_reply that writes something.  A write of 0
\* bytes, to a client that does not read, is tried again at once: no step.
WriteStep(n) ==
  /\ pc = "write"
  /\ heap[cur].reply_list # << >>
  /\ n <= RespSize - heap[cur].cur_resp_pos
  /\ heap' = [heap EXCEPT ![cur] = Written(heap[cur], n)]
  /\ UNCHANGED <<open, q_conn, accepted, conns, io, timers, rtc, pc, cur>>

\* write() fails: with an error the connection is closed, with SIGPIPE, which
\* nothing handles, the process ends.
WriteFails ==
  /\ pc = "write"
  /\ heap[cur].reply_list # << >>
  /\ pc' \in {"close", "killed"}
  /\ UNCHANGED <<open, q_conn, accepted, conns, heap, io, timers, rtc, cur>>

\* All replies are written: stop watching for WRITE
WriteDone ==
  /\ pc = "write"
  /\ heap[cur].reply_list = << >>
  /\ heap' = [heap EXCEPT ![cur].age = 0]
  /\ io' = [io EXCEPT ![heap[cur].fd] = @ \ {"WRITE"}]
  /\ pc' = "idle" /\ cur' = Null
  /\ UNCHANGED <<open, q_conn, accepted, conns, timers, rtc>>

-----------------------------------------------------------------------------
\* What a handler does once it is running, whatever the client does.
Handle ==
  \/ CloseFd
  \/ RemoveConn
  \/ \E req \in Request : QueryHead(req)
  \/ QueryBody
  \/ QueryDone
  \/ WriteDone

Next ==
  \/ \E f \in Fd : Accept(f)
  \/ Tick
  \/ NewConn
  \/ \E a \in Addr : ProcessTimeout(a)
  \/ \E f \in Fd : ReadQuery(f)
  \/ \E m \in rtc : ResponseServerOffer(m)
  \/ \E f \in Fd : WriteReply(f)
  \/ Handle
  \/ \E n \in 1..RespSize : WriteStep(n)
  \/ WriteFails

Spec == Init /\ [][Next]_vars

\* The event loop takes every new connection and runs every expired timer in
\* each of its rounds, a handler runs to its end, and time passes.  Nothing
\* makes a client connect, send or read, or a push come back.
Fairness ==
  /\ WF_vars(Tick)
  /\ WF_vars(Handle)
  /\ SF_vars(NewConn)
  /\ \A a \in Addr : SF_vars(ProcessTimeout(a))

FairSpec == Spec /\ Fairness

-----------------------------------------------------------------------------
TypeOK ==
  /\ open \subseteq Fd
  /\ q_conn \in Seq([fd : Fd, id : Id])
  /\ accepted \in 0..MaxConn
  /\ conns \in [Fd -> Addr \cup {Null}]
  /\ heap \in [Addr -> TcpConnection \cup {Null}]
  /\ io \in [Fd -> SUBSET {"READ", "WRITE"}]
  /\ timers \subseteq Addr
  /\ rtc \subseteq RtcMsg
  /\ pc \in {"idle", "query", "write", "close", "remove", "killed"}
  /\ cur \in Addr \cup {Null}

\* _conns and the objects agree: an entry points to an object that exists and
\* has that descriptor, and every object is in the table.  No handler that
\* goes through the table touches freed memory, and a new connection never
\* overwrites the entry of one that was not closed, although its descriptor
\* is free before the old entry is cleared.
TableOwnsConnections ==
  /\ \A f \in Fd : conns[f] # Null => Live(conns[f]) /\ heap[conns[f]].fd = f
  /\ \A a \in Addr : Live(a) => conns[heap[a].fd] = a
  /\ pc # "idle" <=> cur # Null
  /\ cur # Null => Live(cur)

\* The loop holds watchers and timers of existing connections only, and every
\* connection has both: no callback finds a null or freed connection
\* (_read_query does not check), and none can be idle unnoticed.
WatchersHaveConnections ==
  /\ timers = {a \in Addr : Live(a)}
  /\ \A f \in Fd : io[f] # {} <=> conns[f] # Null
  /\ \A f \in Fd : io[f] # {} => "READ" \in io[f]

\* A descriptor in the table or in _q_conn is open and is there once: no
\* connection can be given a descriptor another one is using.
DescriptorsUnshared ==
  /\ \A f \in Fd : conns[f] # Null =>
       \/ f \in open /\ \A i \in 1..Len(q_conn) : q_conn[i].fd # f
       \/ pc = "remove" /\ cur = conns[f]
  /\ \A i \in 1..Len(q_conn) : q_conn[i].fd \in open
  /\ \A i, j \in 1..Len(q_conn) : q_conn[i].fd = q_conn[j].fd => i = j

\* A queued reply is watched for, so it is not forgotten, and WRITE is not
\* watched without one, so the loop does not spin.
RepliesWatched ==
  \A a \in Addr : Live(a) /\ pc = "idle" =>
    (heap[a].reply_list # << >> <=> "WRITE" \in io[heap[a].fd])

\* What reaches a socket are whole replies, one after the other: no byte is
\* skipped or repeated when writes are partial, and no two replies mix.
RepliesWhole ==
  \A a \in Addr : Live(a) =>
    LET w == heap[a].wire IN
    \A i \in 1..Len(w) :
      IF i = 1 \/ w[i-1][2] = RespSize
      THEN w[i][2] = 1
      ELSE w[i] = <<w[i-1][1], w[i-1][2] + 1>>

\* A second request is taken from a connection only when Mark bytes and the
\* length of the body have arrived, however the reads are cut.
OneRequestBelowMark ==
  \A a \in Addr : Live(a) /\ heap[a].requests > 1 =>
    heap[a].head # Null /\ heap[a].qlen >= Mark + heap[a].head.body_len

\* What the comment in _process_query_buffer says: a connection carries one
\* request, and nothing that follows its body is looked at.
OneRequest == \A a \in Addr : Live(a) => heap[a].requests <= 1

\* What the comment at the two checks of _response_server_offer says they are
\* for: an old reply is not written to a new connection.
RepliesGoToRequester ==
  \A a \in Addr : Live(a) =>
    \A i \in 1..Len(heap[a].reply_list) : heap[a].reply_list[i].id = heap[a].id

InQueue(i) == \E k \in 1..Len(q_conn) : q_conn[k].id = i
Connected(i) == \E a \in Addr : Live(a) /\ heap[a].id = i

ReadsFrom(i) == \E f \in Fd : ReadQuery(f) /\ heap[cur'].id = i

\* Every accepted connection is closed in the end, although its client falls
\* silent at any point or its push never comes back, unless the client makes
\* the worker read from it again and again.  Three things stop this for all
\* connections of the worker: it stays in _write_reply for a client that does
\* not read, it stays in _process_query_buffer beyond the mark, or SIGPIPE
\* ends the process.
ConnectionEnds ==
  \A i \in Id :
    \/ (accepted >= i) ~> (~ InQueue(i) /\ ~ Connected(i))
    \/ []<><<ReadsFrom(i)>>_vars
    \/ <>[](pc = "write" /\ heap[cur].reply_list # << >>)
    \/ <>[](pc = "query" /\ heap[cur].qlen >= Mark)
    \/ <>(pc = "killed")
=============================================================================
