-------------------------- MODULE ServerLifecycle --------------------------
(***************************************************************************)
(* Starting and stopping: main() starts the signaling server and the RTC   *)
(* server and joins them; process_signal, which runs at any moment once    *)
(* signal() has installed it, writes QUIT to both; a server that reads     *)
(* QUIT closes its pipe and then stops and joins its workers one by one.   *)
(* Requests still travel between the threads meanwhile, and a write to a   *)
(* pipe depends on how far its reader has come with closing it.            *)
(*                                                                         *)
(* process_signal runs on top of whatever thread the signal interrupts,    *)
(* which goes on when it returns; a second signal may interrupt the first  *)
(* one's handler.  It logs first.  RTC_LOG is part of the step it stands   *)
(* in, unless a signal interrupts the thread that holds its lock: then the *)
(* lock is held for ever.                                                  *)
(*                                                                         *)
(* The model begins after signal(): the log writer runs, and init() has    *)
(* created both servers and has started their workers.                     *)
(***************************************************************************)
EXTENDS Integers, Sequences, FiniteSets

CONSTANTS
  WorkerNum,        \* worker_num of each server
  Signal,           \* the signals that arrive
  PipeCap,          \* how many ints a pipe holds before write() blocks
  MaxMsg            \* bound on connections and requests

Server == {"signaling", "rtc"}

\* Threads with a pipe: <<s, 0>> is server s, <<s, i>> its i-th worker.
Looper == UNION {{s} \X (0..WorkerNum[s]) : s \in Server}
WorkersOf(s) == {s} \X (1..WorkerNum[s])
Worker == {t \in Looper : t[2] # 0}
Srv(s) == <<s, 0>>

\* The threads the program starts, and main()'s own.
LogWriter == <<"log", 0>>
MainThread == <<"main", 0>>
Thread == Looper \cup {LogWriter}
Token == {"QUIT", "NEW_CONN", "RTC_MSG"}

ASSUME NumAssumption == WorkerNum \in [Server -> Nat \ {0}]
ASSUME CapAssumption == PipeCap \in Nat \ {0} /\ MaxMsg \in Nat

VARIABLES
  main,             \* where main() is
  thread,           \* whether a server's _thread is set
  pc,               \* where a thread is
  to,               \* the thread it writes to, when it does
  index,            \* the worker a server's _stop has come to
  quit,             \* whether a worker's loop was told to break
  pipe, ends,       \* what is in a thread's pipe, and which ends are open
  handler,          \* where process_signal is, for each signal
  stack,            \* the signals being handled on a thread, the latest first
  locked,           \* the lock of RTC_LOG is held by a thread that never goes on
  msgs,             \* connections and requests so far
  killed,           \* SIGPIPE has ended the process
  asked             \* auxiliary: a signal came after start() had returned

vars == <<main, thread, pc, to, index, quit, pipe, ends, handler, stack, locked,
          msgs, killed, asked>>
signals == <<handler, stack, locked>>
control == <<main, thread, signals, asked>>

Init ==
  /\ main = "start signaling"
  /\ thread = [s \in Server |-> FALSE]
  /\ pc = [t \in Thread |-> IF \E s \in Server : t = Srv(s) THEN "none" ELSE "loop"]
  /\ to = [t \in Looper |-> Srv("rtc")]
  /\ index = [s \in Server |-> 1]
  /\ quit = [w \in Worker |-> FALSE]
  /\ pipe = [t \in Looper |-> << >>]
  /\ ends = [t \in Looper |-> "both"]
  /\ handler = [g \in Signal |-> "none"]
  /\ stack = [t \in Thread \cup {MainThread} |-> << >>] /\ locked = FALSE
  /\ msgs = 0 /\ killed = FALSE /\ asked = FALSE

\* A thread goes on when no handler runs on top of it.
Runs(t) == stack[t] = << >>

\* notify(): it blocks while the pipe is full, SIGPIPE ends the process when
\* the read end is closed (also when that happens to a blocked writer), and
\* it fails, which nobody looks at on this path, when both are.
Write(t, token) ==
  \/ /\ ends[t] = "both" /\ Len(pipe[t]) < PipeCap
     /\ pipe' = [pipe EXCEPT ![t] = Append(@, token)]
     /\ UNCHANGED killed
  \/ /\ ends[t] = "write" \/ (ends[t] = "none" /\ Len(pipe[t]) = PipeCap)
     /\ killed' = TRUE
     /\ UNCHANGED pipe
  \/ /\ ends[t] = "none"
     /\ UNCHANGED <<pipe, killed>>

-----------------------------------------------------------------------------
(* main() and process_signal *)

\* start(): the thread runs as soon as it is made ...
Start(s, here, next) ==
  /\ main = here
  /\ pc' = [pc EXCEPT ![Srv(s)] = "loop"]
  /\ main' = next
  /\ UNCHANGED <<thread, to, index, quit, pipe, ends, signals, msgs, killed, asked>>

\* ... and _thread is set when the constructor has returned
SetThread(s, here, next) ==
  /\ main = here
  /\ thread' = [thread EXCEPT ![s] = TRUE]
  /\ main' = next
  /\ UNCHANGED <<pc, to, index, quit, pipe, ends, signals, msgs, killed, asked>>

\* mutated form: join() returns although the thread runs
JoinNoWait(s, here, next) ==
  /\ main = here
  /\ main' = next
  /\ UNCHANGED <<thread, pc, to, index, quit, pipe, ends, signals, msgs, killed, asked>>

\* join()
Join(s, here, next) ==
  /\ main = here
  /\ thread[s] => pc[Srv(s)] = "done"
  /\ main' = next
  /\ UNCHANGED <<thread, pc, to, index, quit, pipe, ends, signals, msgs, killed, asked>>

Main ==
  /\ Runs(MainThread)
  /\ \/ Start("signaling", "start signaling", "set signaling")
     \/ SetThread("signaling", "set signaling", "start rtc")
     \/ Start("rtc", "start rtc", "set rtc")
     \/ SetThread("rtc", "set rtc", "join signaling")
     \/ Join("signaling", "join signaling", "join rtc")
     \/ Join("rtc", "join rtc", "exited")

\* A thread that exists and has not ended.
Exists(t) == t \in Thread => pc[t] \notin {"none", "done"}

\* Whether t may hold the lock of RTC_LOG: the log writer takes it in every
\* round; a thread logs in its loop and on the way to a write, a server when
\* its pipe is closed and when its workers are joined, and the handler before
\* anything else.
InRtcLog(t) ==
  IF ~ Runs(t) THEN handler[Head(stack[t])] = "log"
  ELSE \/ t \in Thread /\ pc[t] \in {"loop", "send"}
       \/ \E s \in Server :
            /\ t = Srv(s)
            /\ \/ pc[t] = "quit worker" /\ index[s] = 1
               \/ pc[t] = "join worker" /\ index[s] = WorkerNum[s] /\ pc[<<s, index[s]>>] = "done"

\* A signal arrives, on any thread.
Raise(g) ==
  /\ handler[g] = "none"
  /\ handler' = [handler EXCEPT ![g] = "log"]
  /\ \E t \in Thread \cup {MainThread} :
       /\ Exists(t)
       /\ stack' = [stack EXCEPT ![t] = <<g>> \o @]
       /\ locked' \in IF InRtcLog(t) THEN {locked, TRUE} ELSE {locked}
  /\ asked' = (asked \/ main \in {"join signaling", "join rtc"})
  /\ UNCHANGED <<main, thread, pc, to, index, quit, pipe, ends, msgs, killed>>

\* process_signal: RTC_LOG ...
LogSignal(g) ==
  /\ handler[g] = "log"
  /\ ~ locked
  /\ \E t \in DOMAIN stack : ~ Runs(t) /\ Head(stack[t]) = g
  /\ handler' = [handler EXCEPT ![g] = "signaling"]
  /\ UNCHANGED <<main, thread, pc, to, index, quit, pipe, ends, stack, locked, msgs, killed, asked>>

\* mutated form: only the signaling server is stopped
StopOneServer(g) ==
  /\ handler[g] \in Server
  /\ Write(Srv(handler[g]), "QUIT")
  /\ \E t \in DOMAIN stack :
       /\ ~ Runs(t) /\ Head(stack[t]) = g
       /\ stack' = [stack EXCEPT ![t] = Tail(@)]
  /\ handler' = [handler EXCEPT ![g] = "done"]
  /\ UNCHANGED <<main, thread, pc, to, index, quit, ends, locked, msgs, asked>>

\* ... then stop() of one server and of the other, and the thread goes on
StopServer(g) ==
  /\ handler[g] \in Server
  /\ Write(Srv(handler[g]), "QUIT")
  /\ \E t \in DOMAIN stack :
       /\ ~ Runs(t) /\ Head(stack[t]) = g
       /\ stack' = IF handler[g] = "rtc" THEN [stack EXCEPT ![t] = Tail(@)] ELSE stack
  /\ handler' = [handler EXCEPT ![g] = IF @ = "signaling" THEN "rtc" ELSE "done"]
  /\ UNCHANGED <<main, thread, pc, to, index, quit, ends, locked, msgs, asked>>

ProcessSignal(g) == LogSignal(g) \/ StopServer(g)

-----------------------------------------------------------------------------
(* Every thread *)

\* Write what the handler has to send, and go back to the loop.
Send(t, token) ==
  /\ pc[t] = "send"
  /\ Write(to[t], token)
  /\ pc' = [pc EXCEPT ![t] = "loop"]
  /\ UNCHANGED <<control, to, index, quit, ends, msgs>>

\* _stop: close(_notify_recv_fd), after the loop was told to break
CloseRead(t) ==
  /\ pc[t] = "close read"
  /\ ends' = [ends EXCEPT ![t] = "write"]
  /\ pc' = [pc EXCEPT ![t] = "close write"]
  /\ UNCHANGED <<control, to, index, quit, pipe, msgs, killed>>

\* close(_notify_send_fd).  A server goes on to its workers.  A worker is
\* done with _stop, and its loop ends after the round it is in.
CloseWrite(t) ==
  /\ pc[t] = "close write"
  /\ ends' = [ends EXCEPT ![t] = "none"]
  /\ pc' = [pc EXCEPT ![t] = IF t[2] = 0 THEN "quit worker" ELSE "loop"]
  /\ UNCHANGED <<control, to, index, quit, pipe, msgs, killed>>

-----------------------------------------------------------------------------
(* Server threads *)

\* _stop up to the closing of the pipe: nothing without _thread
ServerQuit(s) ==
  IF thread[s] THEN pc' = [pc EXCEPT ![Srv(s)] = "close read"] ELSE UNCHANGED pc

\* recv_notify and _process_notify of either server
ServerRecvNotify(s) ==
  /\ pc[Srv(s)] = "loop" /\ ends[Srv(s)] = "both"
  /\ pipe[Srv(s)] # << >>
  /\ pipe' = [pipe EXCEPT ![Srv(s)] = Tail(@)]
  /\ IF Head(pipe[Srv(s)]) = "QUIT"
     THEN ServerQuit(s) /\ UNCHANGED to
     ELSE \E w \in WorkersOf("rtc") :
            /\ to' = [to EXCEPT ![Srv(s)] = w]
            /\ pc' = [pc EXCEPT ![Srv(s)] = "send"]
  /\ UNCHANGED <<control, index, quit, ends, msgs, killed>>

\* accept_new_conn up to the notification of the worker
AcceptNewConn(w) ==
  /\ pc[Srv("signaling")] = "loop" /\ ~ locked
  /\ msgs < MaxMsg
  /\ msgs' = msgs + 1
  /\ to' = [to EXCEPT ![Srv("signaling")] = w]
  /\ pc' = [pc EXCEPT ![Srv("signaling")] = "send"]
  /\ UNCHANGED <<control, index, quit, pipe, ends, killed>>

\* mutated form: a worker is joined and was not told to stop
QuitWorkerForgotten(s) ==
  /\ pc[Srv(s)] = "quit worker"
  /\ pc' = [pc EXCEPT ![Srv(s)] = "join worker"]
  /\ UNCHANGED <<control, to, index, quit, pipe, ends, msgs, killed>>

\* worker->stop() for the next worker
QuitWorker(s) ==
  /\ pc[Srv(s)] = "quit worker"
  /\ index[s] = 1 => ~ locked
  /\ Write(<<s, index[s]>>, "QUIT")
  /\ pc' = [pc EXCEPT ![Srv(s)] = "join worker"]
  /\ UNCHANGED <<control, to, index, quit, ends, msgs>>

\* mutated form: the first worker is stopped each time
JoinWorkerRepeats(s) ==
  /\ pc[Srv(s)] = "join worker"
  /\ pc[<<s, index[s]>>] = "done"
  /\ pc' = [pc EXCEPT ![Srv(s)] = IF WorkerNum[s] > 1 THEN "quit worker" ELSE "done"]
  /\ UNCHANGED <<control, to, index, quit, pipe, ends, msgs, killed>>

\* worker->join(); after the last one the loop, told to break, returns
JoinWorker(s) ==
  /\ pc[Srv(s)] = "join worker"
  /\ pc[<<s, index[s]>>] = "done"
  /\ IF index[s] < WorkerNum[s]
     THEN index' = [index EXCEPT ![s] = @ + 1] /\ pc' = [pc EXCEPT ![Srv(s)] = "quit worker"]
     ELSE ~ locked /\ pc' = [pc EXCEPT ![Srv(s)] = "done"] /\ UNCHANGED index
  /\ UNCHANGED <<control, to, quit, pipe, ends, msgs, killed>>

-----------------------------------------------------------------------------
(* Worker threads *)

\* _stop of either worker up to the closing of the pipe; _thread was set
\* before the server that sends QUIT was started
WorkerQuit(w) ==
  /\ pc' = [pc EXCEPT ![w] = "close read"]
  /\ quit' = [quit EXCEPT ![w] = TRUE]

\* What a worker logs about before it does anything: a signaling worker
\* everything, an RTC worker a request.
Logs(w, token) == w[1] = "signaling" \/ token = "RTC_MSG"

\* recv_notify and _process_notify of either worker.  An RTC worker sends a
\* push back to the signaling worker it came from, an answer it keeps.
WorkerRecvNotify(w) ==
  /\ pc[w] = "loop" /\ ~ quit[w]
  /\ pipe[w] # << >>
  /\ pipe' = [pipe EXCEPT ![w] = Tail(@)]
  /\ LET token == Head(pipe[w])
         blocked == locked /\ Logs(w, token)
     IN  \/ /\ blocked
            /\ pc' = [pc EXCEPT ![w] = "blocked"]
            /\ UNCHANGED <<quit, to>>
         \/ /\ ~ blocked /\ token = "QUIT"
            /\ WorkerQuit(w)
            /\ UNCHANGED to
         \/ /\ ~ blocked /\ token # "QUIT"
            /\ UNCHANGED <<pc, quit, to>>
         \/ /\ ~ blocked /\ token = "RTC_MSG" /\ w[1] = "rtc"
            /\ \E v \in WorkersOf("signaling") : to' = [to EXCEPT ![w] = v]
            /\ pc' = [pc EXCEPT ![w] = "send"]
            /\ UNCHANGED quit
  /\ UNCHANGED <<control, index, ends, msgs, killed>>

\* conn_io_cb with a request for the RTC server; one that was pending when
\* the loop was told to break is still served
Request(w) ==
  /\ w[1] = "signaling"
  /\ pc[w] = "loop" /\ ~ locked
  /\ msgs < MaxMsg
  /\ msgs' = msgs + 1
  /\ to' = [to EXCEPT ![w] = Srv("rtc")]
  /\ pc' = [pc EXCEPT ![w] = "send"]
  /\ UNCHANGED <<control, index, quit, pipe, ends, killed>>

\* ev_run returns after the round in which it was told to break
LoopEnds(w) ==
  /\ pc[w] = "loop" /\ quit[w] /\ ~ locked
  /\ pc' = [pc EXCEPT ![w] = "done"]
  /\ UNCHANGED <<control, to, index, quit, pipe, ends, msgs, killed>>

-----------------------------------------------------------------------------
TokenFor(t) == IF t = Srv("signaling") THEN "NEW_CONN" ELSE "RTC_MSG"

ServerStep(s) ==
  /\ Runs(Srv(s))
  /\ \/ ServerRecvNotify(s) \/ Send(Srv(s), TokenFor(Srv(s)))
     \/ CloseRead(Srv(s)) \/ CloseWrite(Srv(s)) \/ QuitWorker(s) \/ JoinWorker(s)

WorkerStep(w) ==
  /\ Runs(w)
  /\ \/ WorkerRecvNotify(w) \/ Send(w, TokenFor(w))
     \/ CloseRead(w) \/ CloseWrite(w) \/ LoopEnds(w)

\* What clients make the threads do
ClientStep(w) ==
  \/ Runs(Srv("signaling")) /\ AcceptNewConn(w)
  \/ Runs(w) /\ Request(w)

\* main() has returned, or SIGPIPE has killed the process: nothing runs.
Alive == main # "exited" /\ ~ killed

Next ==
  /\ Alive
  /\ \/ Main
     \/ \E g \in Signal : Raise(g) \/ ProcessSignal(g)
     \/ \E s \in Server : ServerStep(s)
     \/ \E w \in Worker : WorkerStep(w)
     \/ \E w \in WorkersOf("signaling") : ClientStep(w)

Spec == Init /\ [][Next]_vars

\* Threads run, and so does the handler on top of one.  Nobody has to send a
\* signal, connect, or send a request.
Fairness ==
  /\ WF_vars(Alive /\ Main)
  /\ \A g \in Signal : WF_vars(Alive /\ ProcessSignal(g))
  /\ \A s \in Server : WF_vars(Alive /\ ServerStep(s))
  /\ \A w \in Worker : WF_vars(Alive /\ WorkerStep(w))

FairSpec == Spec /\ Fairness

-----------------------------------------------------------------------------
MainAt == {"start signaling", "set signaling", "start rtc", "set rtc",
           "join signaling", "join rtc", "exited"}

TypeOK ==
  /\ main \in MainAt
  /\ thread \in [Server -> BOOLEAN]
  /\ pc \in [Thread -> {"none", "loop", "blocked", "send", "close read", "close write",
                        "quit worker", "join worker", "done"}]
  /\ to \in [Looper -> Looper]
  /\ index \in [Server -> Nat] /\ \A s \in Server : index[s] \in 1..WorkerNum[s]
  /\ quit \in [Worker -> BOOLEAN]
  /\ pipe \in [Looper -> Seq(Token)]
  /\ ends \in [Looper -> {"both", "write", "none"}]
  /\ handler \in [Signal -> Server \cup {"none", "log", "done"}]
  /\ stack \in [Thread \cup {MainThread} -> Seq(Signal)] /\ locked \in BOOLEAN
  /\ msgs \in 0..MaxMsg /\ killed \in BOOLEAN /\ asked \in BOOLEAN

\* main() returns after every server and worker has ended; the log writer,
\* which nobody stops or joins, is the only thread left to run into static
\* destruction.
MainReturnsLast == main = "exited" => {t \in Thread : pc[t] # "done"} = {LogWriter}

\* A server tells a worker nothing once the worker has begun to close its
\* pipe: its notifications cannot fail or raise SIGPIPE, and a worker gets
\* QUIT once, so no descriptor is closed twice.
ServerWritesToOpenPipe ==
  \A s \in Server :
    /\ pc[Srv(s)] = "quit worker" => ends[<<s, index[s]>>] = "both"
    /\ pc[Srv(s)] = "send" => ends[to[Srv(s)]] = "both"

Joins(s) == IF s = "signaling" THEN "join signaling" ELSE "join rtc"
Full(u) == ends[u] = "both" /\ Len(pipe[u]) = PipeCap

\* t waits for u to read its pipe or to end; a handler waits on its thread.
WaitsFor(t, u) ==
  IF ~ Runs(t)
  THEN \E s \in Server : handler[Head(stack[t])] = s /\ u = Srv(s) /\ Full(u)
  ELSE \/ t \in Looper /\ pc[t] = "send" /\ u = to[t] /\ Full(u)
       \/ \E s \in Server :
            \/ t = Srv(s) /\ pc[t] = "quit worker" /\ u = <<s, index[s]>> /\ Full(u)
            \/ t = Srv(s) /\ pc[t] = "join worker" /\ u = <<s, index[s]>> /\ pc[u] # "done"
            \/ t = MainThread /\ main = Joins(s) /\ u = Srv(s) /\ pc[u] # "done"

Waiting == {t \in Thread \cup {MainThread} : \E u \in Looper : WaitsFor(t, u)}

\* Threads that wait for each other in write() or join(), or a server's own
\* thread that waits, in the handler, for itself.
Deadlocked == \E S \in SUBSET Waiting \ {{}} : \A t \in S : \E u \in S : WaitsFor(t, u)

\* A signal that arrives after start() ends the process, whatever thread it
\* interrupts and whatever requests are under way, unless it interrupts the
\* thread that logs, or threads wait for each other: the handler on the thread
\* that must read its pipe, or full pipes in a circle.
StopAfterStart == asked ~> (main = "exited" \/ killed \/ locked \/ Deadlocked)

=============================================================================
