---------------------------- MODULE RtcPipeline ----------------------------
(***************************************************************************)
(* The path of a request through the threads of server/: the signaling     *)
(* server accepts connections and deals them out to its workers; a         *)
(* signaling worker turns a request into an RtcMsg for the RTC server,     *)
(* which hands it to the RTC worker its stream name hashes to, which       *)
(* answers a push through the signaling worker that sent it.               *)
(*                                                                         *)
(* Every hand-over is the same two calls: put the message in the           *)
(* receiver's queue, then write one int to the receiver's pipe.  The       *)
(* write blocks while the pipe is full.  The receiver's event loop reads   *)
(* one int and then takes one message.  A queue operation is one step      *)
(* here: the mutex makes it so for std::queue, LockFreeQueueProofs for     *)
(* the lock-free one.  Shutdown is the subject of ServerLifecycle, what    *)
(* becomes of the connection meanwhile that of SignalingWorker.            *)
(***************************************************************************)
EXTENDS Integers, Sequences, FiniteSets

CONSTANTS
  SwNum,            \* signaling workers (worker_num of signaling_server.yaml)
  RwNum,            \* RTC workers (worker_num of rtc_server.yaml)
  Stream,           \* stream names
  Crc32,            \* rtc::ComputeCrc32 of a stream name
  PipeCap,          \* how many ints a pipe holds before write() blocks
  MaxConn,          \* bound on accepted connections, one request each
  Cmd,              \* the requests clients send: "PUSH", "ANSWER"
  MayExpire,        \* whether the run is long enough for a certificate to expire
  None              \* no message in hand

SW == 0..(SwNum - 1)
RW == 0..(RwNum - 1)
Conn == 1..MaxConn

\* An RtcMsg.  seq is auxiliary: the position in which the message was put
\* in the RTC server's queue.
Msg == [conn : Conn, cmd : Cmd, stream : Stream, worker : SW, seq : Conn]

ASSUME WorkerAssumption == SwNum \in Nat \ {0} /\ RwNum \in Nat \ {0}
ASSUME Crc32Assumption == Crc32 \in [Stream -> Nat]
ASSUME PipeAssumption == PipeCap \in Nat \ {0} /\ MaxConn \in Nat
ASSUME CmdAssumption == Cmd \subseteq {"PUSH", "ANSWER"} /\ MayExpire \in BOOLEAN
ASSUME NoneAssumption == None \notin Msg

VARIABLES
  \* the signaling server
  next_worker_index, accepted, disp_pc, disp_to,
  \* the signaling workers: queues, pipe, thread, connections yet to send
  q_conn, sw_q, sw_pipe, sw_pc, sw_msg, waiting,
  \* the RTC server
  srv_q, srv_pipe, srv_pc, srv_msg, certificate,
  \* the RTC workers, and the streams their RtcStreamManager holds
  rw_q, rw_pipe, rw_pc, rw_msg, push_streams,
  \* auxiliary: number of requests sent, and the requests; connections answered,
  \* answers applied and messages given up; the last message carried out for
  \* each stream
  sent, requests, replied, applied, dropped, handled

acceptor == <<next_worker_index, accepted, disp_pc, disp_to>>
swVars == <<q_conn, sw_q, sw_pipe, sw_pc, sw_msg, waiting>>
srvVars == <<srv_q, srv_pipe, srv_pc, srv_msg, certificate>>
rwVars == <<rw_q, rw_pipe, rw_pc, rw_msg, push_streams>>
history == <<sent, requests, replied, applied, dropped, handled>>
vars == <<acceptor, swVars, srvVars, rwVars, history>>

Init ==
  /\ next_worker_index = 0 /\ accepted = 0 /\ disp_pc = "idle" /\ disp_to = 0
  /\ q_conn = [w \in SW |-> << >>]
  /\ sw_q = [w \in SW |-> << >>]
  /\ sw_pipe = [w \in SW |-> << >>]
  /\ sw_pc = [w \in SW |-> "idle"]
  /\ sw_msg = [w \in SW |-> None]
  /\ waiting = [w \in SW |-> {}]
  /\ srv_q = << >> /\ srv_pipe = 0 /\ srv_pc = "idle" /\ srv_msg = None
  /\ certificate = "valid"
  /\ rw_q = [r \in RW |-> << >>]
  /\ rw_pipe = [r \in RW |-> 0]
  /\ rw_pc = [r \in RW |-> "idle"]
  /\ rw_msg = [r \in RW |-> None]
  /\ push_streams = [r \in RW |-> {}]
  /\ sent = 0 /\ requests = {}
  /\ replied = {} /\ applied = {} /\ dropped = {}
  /\ handled = [s \in Stream |-> 0]

-----------------------------------------------------------------------------
(* Signaling server thread *)

\* accept_new_conn and _dispacth_new_conn, up to the produce() of
\* notify_new_conn
Accept ==
  /\ disp_pc = "idle"
  /\ accepted < MaxConn
  /\ accepted' = accepted + 1
  /\ next_worker_index' =
       IF next_worker_index + 1 >= SwNum THEN 0 ELSE next_worker_index + 1
  /\ q_conn' = [q_conn EXCEPT ![next_worker_index] = Append(@, accepted + 1)]
  /\ disp_to' = next_worker_index
  /\ disp_pc' = "notify"
  /\ UNCHANGED <<sw_q, sw_pipe, sw_pc, sw_msg, waiting, srvVars, rwVars, history>>

\* mutated form: a full pipe loses the notification instead of blocking
NotifyNewConnLossy ==
  /\ disp_pc = "notify"
  /\ sw_pipe' = IF Len(sw_pipe[disp_to]) < PipeCap
                THEN [sw_pipe EXCEPT ![disp_to] = Append(@, "NEW_CONN")]
                ELSE sw_pipe
  /\ disp_pc' = "idle"
  /\ UNCHANGED <<next_worker_index, accepted, disp_to, q_conn, sw_q, sw_pc, sw_msg,
                 waiting, srvVars, rwVars, history>>

\* notify(NEW_CONN)
NotifyNewConn ==
  /\ disp_pc = "notify"
  /\ Len(sw_pipe[disp_to]) < PipeCap
  /\ sw_pipe' = [sw_pipe EXCEPT ![disp_to] = Append(@, "NEW_CONN")]
  /\ disp_pc' = "idle"
  /\ UNCHANGED <<next_worker_index, accepted, disp_to, q_conn, sw_q, sw_pc, sw_msg,
                 waiting, srvVars, rwVars, history>>

-----------------------------------------------------------------------------
(* Signaling worker threads *)

\* signaling_worker_recv_notify: read one int, then _process_notify
SwRecvNotify(w) ==
  /\ sw_pc[w] = "idle"
  /\ sw_pipe[w] # << >>
  /\ sw_pc' = [sw_pc EXCEPT ![w] = Head(sw_pipe[w])]
  /\ sw_pipe' = [sw_pipe EXCEPT ![w] = Tail(@)]
  /\ UNCHANGED <<acceptor, q_conn, sw_q, sw_msg, waiting, srvVars, rwVars, history>>

\* case NEW_CONN: consume() and, if it found one, _new_conn
SwNewConn(w) ==
  /\ sw_pc[w] = "NEW_CONN"
  /\ IF q_conn[w] = << >>
     THEN UNCHANGED <<q_conn, waiting>>
     ELSE /\ q_conn' = [q_conn EXCEPT ![w] = Tail(@)]
          /\ waiting' = [waiting EXCEPT ![w] = @ \cup {Head(q_conn[w])}]
  /\ sw_pc' = [sw_pc EXCEPT ![w] = "idle"]
  /\ UNCHANGED <<acceptor, sw_q, sw_pipe, sw_msg, srvVars, rwVars, history>>

\* case RTC_MSG: _process_rtc_msg; only pushes come back
SwProcessRtcMsg(w) ==
  /\ sw_pc[w] = "RTC_MSG"
  /\ IF sw_q[w] = << >>
     THEN UNCHANGED <<sw_q, replied>>
     ELSE /\ sw_q' = [sw_q EXCEPT ![w] = Tail(@)]
          /\ replied' = IF Head(sw_q[w]).cmd = "PUSH"
                        THEN replied \cup {Head(sw_q[w]).conn} ELSE replied
  /\ sw_pc' = [sw_pc EXCEPT ![w] = "idle"]
  /\ UNCHANGED <<acceptor, q_conn, sw_pipe, sw_msg, waiting, srvVars, rwVars,
                 sent, requests, applied, dropped, handled>>

\* _process_push or _process_answer up to RtcServer::push_msg
SwSendRequest(w, c, cmd, s) ==
  LET msg == [conn |-> c, cmd |-> cmd, stream |-> s, worker |-> w, seq |-> sent + 1]
  IN  /\ sw_pc[w] = "idle"
      /\ c \in waiting[w]
      /\ sent < MaxConn
      /\ waiting' = [waiting EXCEPT ![w] = @ \ {c}]
      /\ srv_q' = Append(srv_q, msg)
      /\ sent' = sent + 1 /\ requests' = requests \cup {msg}
      /\ sw_msg' = [sw_msg EXCEPT ![w] = msg]
      /\ sw_pc' = [sw_pc EXCEPT ![w] = "notify"]
      /\ UNCHANGED <<acceptor, q_conn, sw_q, sw_pipe, srv_pipe, srv_pc, srv_msg,
                     certificate, rwVars, replied, applied, dropped, handled>>

\* RtcServer::notify(RTC_MSG); _process_request answers all but a push itself
SwNotifyServer(w) ==
  /\ sw_pc[w] = "notify"
  /\ srv_pipe < PipeCap
  /\ srv_pipe' = srv_pipe + 1
  /\ sw_pc' = [sw_pc EXCEPT ![w] = "idle"]
  /\ sw_msg' = [sw_msg EXCEPT ![w] = None]
  /\ replied' = IF sw_msg[w].cmd = "PUSH" THEN replied
                ELSE replied \cup {sw_msg[w].conn}
  /\ UNCHANGED <<acceptor, q_conn, sw_q, sw_pipe, waiting, srv_q, srv_pc, srv_msg,
                 certificate, rwVars, sent, requests, applied, dropped, handled>>

-----------------------------------------------------------------------------
(* RTC server thread *)

\* rtc_server_recv_notify: read one int, then _process_notify
SrvRecvNotify ==
  /\ srv_pc = "idle"
  /\ srv_pipe > 0
  /\ srv_pipe' = srv_pipe - 1
  /\ srv_pc' = "process"
  /\ UNCHANGED <<acceptor, swVars, srv_q, srv_msg, certificate, rwVars, history>>

\* mutated form: the worker is picked without regard to the stream
GetAnyWorker(s) == (sent % RwNum)

\* _get_worker: crc32 of the stream name modulo the number of workers
GetWorker(s) == Crc32[s] % RwNum

\* _generate_and_check_certificate: an expired certificate is replaced, and
\* generating the new one may fail, which leaves none
CheckCertificate ==
  certificate' \in IF certificate = "valid" THEN {"valid"} ELSE {"valid", "none"}

\* mutated form: one wakeup empties the queue
SrvDrainsQueue ==
  /\ srv_pc = "process"
  /\ IF srv_q = << >>
     THEN /\ srv_pc' = "idle"
          /\ UNCHANGED <<srv_q, srv_msg, certificate, rw_q, dropped>>
     ELSE LET msg == Head(srv_q) IN
          /\ srv_q' = << >>
          /\ rw_q' = [rw_q EXCEPT ![GetWorker(msg.stream)] = Append(@, msg)]
          /\ srv_msg' = msg
          /\ srv_pc' = "notify"
          /\ UNCHANGED <<dropped, certificate>>
  /\ UNCHANGED <<acceptor, swVars, srv_pipe, rw_pipe, rw_pc, rw_msg, push_streams,
                 sent, requests, replied, applied, handled>>

\* _process_rtc_msg up to RtcWorker::push_msg: without a certificate the
\* message is given up
SrvProcessRtcMsg ==
  /\ srv_pc = "process"
  /\ IF srv_q = << >>
     THEN /\ srv_pc' = "idle"
          /\ UNCHANGED <<srv_q, srv_msg, certificate, rw_q, dropped>>
     ELSE LET msg == Head(srv_q) IN
          /\ srv_q' = Tail(srv_q)
          /\ CheckCertificate
          /\ IF certificate' = "none"
             THEN /\ dropped' = dropped \cup {msg}
                  /\ srv_pc' = "idle"
                  /\ UNCHANGED <<srv_msg, rw_q>>
             ELSE /\ rw_q' = [rw_q EXCEPT ![GetWorker(msg.stream)] = Append(@, msg)]
                  /\ srv_msg' = msg
                  /\ srv_pc' = "notify"
                  /\ UNCHANGED dropped
  /\ UNCHANGED <<acceptor, swVars, srv_pipe, rw_pipe, rw_pc, rw_msg, push_streams,
                 sent, requests, replied, applied, handled>>

\* RtcWorker::notify(RTC_MSG)
SrvNotifyWorker ==
  /\ srv_pc = "notify"
  /\ rw_pipe[GetWorker(srv_msg.stream)] < PipeCap
  /\ rw_pipe' = [rw_pipe EXCEPT ![GetWorker(srv_msg.stream)] = @ + 1]
  /\ srv_pc' = "idle"
  /\ srv_msg' = None
  /\ UNCHANGED <<acceptor, swVars, srv_q, srv_pipe, certificate, rw_q, rw_pc, rw_msg,
                 push_streams, history>>

\* The certificate's year has passed.
CertificateExpires ==
  /\ MayExpire
  /\ certificate = "valid"
  /\ certificate' = "expired"
  /\ UNCHANGED <<acceptor, swVars, srv_q, srv_pipe, srv_pc, srv_msg, rwVars, history>>

-----------------------------------------------------------------------------
(* RTC worker threads *)

\* rtc_worker_recv_notify: read one int, then _process_notify
RwRecvNotify(r) ==
  /\ rw_pc[r] = "idle"
  /\ rw_pipe[r] > 0
  /\ rw_pipe' = [rw_pipe EXCEPT ![r] = @ - 1]
  /\ rw_pc' = [rw_pc EXCEPT ![r] = "process"]
  /\ UNCHANGED <<acceptor, swVars, srvVars, rw_q, rw_msg, push_streams, history>>

\* mutated form: the message is looked at and not taken
RwPeeksRtcMsg(r) ==
  /\ rw_pc[r] = "process"
  /\ rw_q[r] # << >>
  /\ LET msg == Head(rw_q[r]) IN
       /\ handled' = [handled EXCEPT ![msg.stream] = msg.seq]
       /\ push_streams' = [push_streams EXCEPT ![r] = @ \cup {msg.stream}]
       /\ sw_q' = [sw_q EXCEPT ![msg.worker] = Append(@, msg)]
       /\ rw_msg' = [rw_msg EXCEPT ![r] = msg]
       /\ rw_pc' = [rw_pc EXCEPT ![r] = "notify"]
  /\ UNCHANGED <<acceptor, q_conn, sw_pipe, sw_pc, sw_msg, waiting, srvVars, rw_q, rw_pipe,
                 sent, requests, replied, applied, dropped>>

\* _process_rtc_msg: a push makes or replaces the stream and goes back, up to
\* SignalingWorker::push_msg; an answer is applied to the stream, if it is there
RwProcessRtcMsg(r) ==
  /\ rw_pc[r] = "process"
  /\ IF rw_q[r] = << >>
     THEN /\ rw_pc' = [rw_pc EXCEPT ![r] = "idle"]
          /\ UNCHANGED <<rw_q, rw_msg, push_streams, sw_q, applied, handled>>
     ELSE LET msg == Head(rw_q[r]) IN
          /\ rw_q' = [rw_q EXCEPT ![r] = Tail(@)]
          /\ handled' = [handled EXCEPT ![msg.stream] = msg.seq]
          /\ IF msg.cmd = "PUSH"
             THEN /\ push_streams' = [push_streams EXCEPT ![r] = @ \cup {msg.stream}]
                  /\ sw_q' = [sw_q EXCEPT ![msg.worker] = Append(@, msg)]
                  /\ rw_msg' = [rw_msg EXCEPT ![r] = msg]
                  /\ rw_pc' = [rw_pc EXCEPT ![r] = "notify"]
                  /\ UNCHANGED applied
             ELSE /\ applied' = applied \cup {msg}
                  /\ rw_pc' = [rw_pc EXCEPT ![r] = "idle"]
                  /\ UNCHANGED <<push_streams, sw_q, rw_msg>>
  /\ UNCHANGED <<acceptor, q_conn, sw_pipe, sw_pc, sw_msg, waiting, srvVars, rw_pipe,
                 sent, requests, replied, dropped>>

\* mutated form: a full pipe loses the notification instead of blocking
RwNotifyLossy(r) ==
  /\ rw_pc[r] = "notify"
  /\ sw_pipe' = IF Len(sw_pipe[rw_msg[r].worker]) < PipeCap
                THEN [sw_pipe EXCEPT ![rw_msg[r].worker] = Append(@, "RTC_MSG")]
                ELSE sw_pipe
  /\ rw_pc' = [rw_pc EXCEPT ![r] = "idle"]
  /\ rw_msg' = [rw_msg EXCEPT ![r] = None]
  /\ UNCHANGED <<acceptor, q_conn, sw_q, sw_pc, sw_msg, waiting, srvVars, rw_q, rw_pipe,
                 push_streams, history>>

\* SignalingWorker::notify(RTC_MSG)
RwNotifyWorker(r) ==
  /\ rw_pc[r] = "notify"
  /\ Len(sw_pipe[rw_msg[r].worker]) < PipeCap
  /\ sw_pipe' = [sw_pipe EXCEPT ![rw_msg[r].worker] = Append(@, "RTC_MSG")]
  /\ rw_pc' = [rw_pc EXCEPT ![r] = "idle"]
  /\ rw_msg' = [rw_msg EXCEPT ![r] = None]
  /\ UNCHANGED <<acceptor, q_conn, sw_q, sw_pc, sw_msg, waiting, srvVars, rw_q, rw_pipe,
                 push_streams, history>>

-----------------------------------------------------------------------------
SwStep(w) ==
  \/ SwRecvNotify(w)
  \/ SwNewConn(w)
  \/ SwProcessRtcMsg(w)
  \/ SwNotifyServer(w)

SrvStep == SrvRecvNotify \/ SrvProcessRtcMsg \/ SrvNotifyWorker

RwStep(r) == RwRecvNotify(r) \/ RwProcessRtcMsg(r) \/ RwNotifyWorker(r)

Next ==
  \/ Accept
  \/ NotifyNewConn
  \/ \E w \in SW : SwStep(w)
  \/ \E w \in SW, c \in Conn, cmd \in Cmd, s \in Stream : SwSendRequest(w, c, cmd, s)
  \/ SrvStep
  \/ CertificateExpires
  \/ \E r \in RW : RwStep(r)

Spec == Init /\ [][Next]_vars

\* Every thread keeps running its event loop.  Nothing makes a client send,
\* or a connection arrive.
Fairness ==
  /\ WF_vars(NotifyNewConn)
  /\ \A w \in SW : WF_vars(SwStep(w))
  /\ WF_vars(SrvStep)
  /\ \A r \in RW : WF_vars(RwStep(r))

FairSpec == Spec /\ Fairness

-----------------------------------------------------------------------------
TypeOK ==
  /\ next_worker_index \in SW
  /\ accepted \in 0..MaxConn
  /\ disp_pc \in {"idle", "notify"} /\ disp_to \in SW
  /\ q_conn \in [SW -> Seq(Conn)]
  /\ sw_q \in [SW -> Seq(Msg)]
  /\ sw_pipe \in [SW -> Seq({"NEW_CONN", "RTC_MSG"})]
  /\ sw_pc \in [SW -> {"idle", "NEW_CONN", "RTC_MSG", "notify"}]
  /\ sw_msg \in [SW -> Msg \cup {None}]
  /\ waiting \in [SW -> SUBSET Conn]
  /\ srv_q \in Seq(Msg)
  /\ srv_pipe \in 0..PipeCap
  /\ srv_pc \in {"idle", "process", "notify"}
  /\ srv_msg \in Msg \cup {None}
  /\ certificate \in {"valid", "expired", "none"}
  /\ rw_q \in [RW -> Seq(Msg)]
  /\ rw_pipe \in [RW -> 0..PipeCap]
  /\ rw_pc \in [RW -> {"idle", "process", "notify"}]
  /\ rw_msg \in [RW -> Msg \cup {None}]
  /\ push_streams \in [RW -> SUBSET Stream]
  /\ sent \in 0..MaxConn
  /\ replied \subseteq Conn
  /\ requests \subseteq Msg /\ applied \subseteq Msg /\ dropped \subseteq Msg
  /\ handled \in [Stream -> 0..MaxConn]

\* A message in hand is the one being announced.
InHand ==
  /\ \A w \in SW : sw_pc[w] = "notify" <=> sw_msg[w] # None
  /\ srv_pc = "notify" <=> srv_msg # None
  /\ \A r \in RW : rw_pc[r] = "notify" <=> rw_msg[r] # None

One(b) == IF b THEN 1 ELSE 0
Count(pipe, token) == Cardinality({i \in 1..Len(pipe) : pipe[i] = token})

\* The workers between putting a message and announcing it.
Requesting == {w \in SW : sw_pc[w] = "notify"}
Answering(w) == {r \in RW : rw_pc[r] = "notify" /\ rw_msg[r].worker = w}

\* For each of the four queues: the messages in it are as many as the
\* notifications in the pipe, plus the senders that have put their message
\* but not yet written to the pipe, plus one if the receiver has read a
\* notification it has not acted on.
ConnTokens ==
  \A w \in SW : Len(q_conn[w]) =
     Count(sw_pipe[w], "NEW_CONN") + One(disp_pc = "notify" /\ disp_to = w)
                                   + One(sw_pc[w] = "NEW_CONN")

ReplyTokens ==
  \A w \in SW : Len(sw_q[w]) =
     Count(sw_pipe[w], "RTC_MSG")
       + Cardinality(Answering(w))
       + One(sw_pc[w] = "RTC_MSG")

ServerTokens ==
  Len(srv_q) = srv_pipe + Cardinality(Requesting)
                        + One(srv_pc = "process")

WorkerTokens ==
  \A r \in RW : Len(rw_q[r]) =
     rw_pipe[r] + One(srv_pc = "notify" /\ GetWorker(srv_msg.stream) = r)
                + One(rw_pc[r] = "process")

\* Put-then-notify keeps every queue and its pipe in step, although senders
\* are interrupted between the two calls: no message is left behind in a
\* queue without a notification that will fetch it.
TokensMatchMessages == ConnTokens /\ ReplyTokens /\ ServerTokens /\ WorkerTokens

\* A thread that was woken up finds its message: the null checks after
\* pop_msg() and consume() are never taken.
WakeupFindsMessage ==
  /\ \A w \in SW : sw_pc[w] = "NEW_CONN" => q_conn[w] # << >>
  /\ \A w \in SW : sw_pc[w] = "RTC_MSG" => sw_q[w] # << >>
  /\ srv_pc = "process" => srv_q # << >>
  /\ \A r \in RW : rw_pc[r] = "process" => rw_q[r] # << >>

IsPush(m, c) == m.conn = c /\ m.cmd = "PUSH"
InQueue(q, c) == \E i \in 1..Len(q) : IsPush(q[i], c)
PushDropped(c) == \E m \in dropped : IsPush(m, c)

\* Where a request ends: a push when the worker that sent it answers its
\* connection, an answer when an RTC worker has applied it.
Finished(m) == IF m.cmd = "PUSH" THEN m.conn \in replied ELSE m \in applied

\* Every request sent to the RTC server, push or answer, is in exactly one
\* place: once in the server's queue, or in that of the RTC worker its stream
\* hashes to, or in that of the worker that sent it, or finished, or given up
\* for want of a certificate.  None is lost, none is doubled, none is both
\* finished and on its way, and no queue holds what belongs to another.
RequestInOnePlace ==
  /\ \A m \in requests :
         Count(srv_q, m) + Count(rw_q[GetWorker(m.stream)], m) + Count(sw_q[m.worker], m)
       + One(Finished(m)) + One(m \in dropped) = 1
  /\ \A r \in RW : \A i \in 1..Len(rw_q[r]) : GetWorker(rw_q[r][i].stream) = r
  /\ \A w \in SW : \A i \in 1..Len(sw_q[w]) : sw_q[w][i].worker = w

\* The requests for a stream are carried out in the order they were sent to
\* the RTC server, whichever workers they pass: an answer never overtakes a
\* push, nor an older push a newer one.
StreamOrder == [][\A s \in Stream : handled'[s] >= handled[s]]_vars

\* A signaling worker, the RTC server and an RTC worker each blocked in
\* write() on the pipe of the next.
CircularWait(w, r) ==
  /\ sw_pc[w] = "notify" /\ srv_pipe = PipeCap
  /\ srv_pc = "notify" /\ GetWorker(srv_msg.stream) = r /\ rw_pipe[r] = PipeCap
  /\ rw_pc[r] = "notify" /\ rw_msg[r].worker = w /\ Len(sw_pipe[w]) = PipeCap

\* The blocking pipes can stop all three, but only under a backlog that
\* fills three pipes and holds three more messages.
CircularWaitNeedsBacklog ==
  \A w \in SW, r \in RW :
    CircularWait(w, r) =>
      Len(srv_q) + Len(rw_q[r]) + Len(sw_q[w]) + Len(q_conn[w]) >= 3 * PipeCap + 3

\* Under a backlog below that, every connection reaches its worker ...
ConnectionReachesWorker ==
  \A c \in Conn : (accepted >= c) ~> (\A w \in SW : ~ \E i \in 1..Len(q_conn[w]) : q_conn[w][i] = c)

\* ... and every push is answered, unless it is given up for want of a
\* certificate.
PushAnswered ==
  \A c \in Conn :
    InQueue(srv_q, c) ~> (c \in replied \/ PushDropped(c))
=============================================================================
