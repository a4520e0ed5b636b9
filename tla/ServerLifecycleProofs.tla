----------------------- MODULE ServerLifecycleProofs -----------------------
(***************************************************************************)
(* Shutdown in order, for any number of workers of either server, any      *)
(* capacity of the pipes, and any number of signals and requests: main()   *)
(* returns last, and a server writes only to workers that still listen.    *)
(* Both follow from StopInv, which says how far each _stop has come: the   *)
(* workers before index were joined, and those that were not told to quit  *)
(* have no QUIT in their pipe and both its ends open.                      *)
(***************************************************************************)
EXTENDS ServerLifecycle, SequenceTheorems, TLAPS

\* The server of a worker, and its place among that server's workers.
ServerOf(w) == w[1]
NumOf(w) == w[2]

\* A worker that its server's _stop has sent QUIT.
Told(w) ==
  \/ pc[Srv(ServerOf(w))] = "quit worker" /\ NumOf(w) < index[ServerOf(w)]
  \/ pc[Srv(ServerOf(w))] \in {"join worker", "done"} /\ NumOf(w) <= index[ServerOf(w)]

\* A worker that nobody has asked to stop.
Untouched(w) ==
  /\ pc[w] \in {"loop", "blocked", "send"} /\ ~ quit[w] /\ ends[w] = "both"
  /\ \A i \in 1..Len(pipe[w]) : pipe[w][i] # "QUIT"

\* Where main() is tells which server threads exist and which have ended.
MainPhase ==
  /\ main = "start signaling" => pc[Srv("signaling")] = "none"
  /\ main \in {"start signaling", "set signaling", "start rtc"} => pc[Srv("rtc")] = "none"
  /\ main \notin {"start signaling", "set signaling"} => thread["signaling"]
  /\ main \in {"join signaling", "join rtc", "exited"} => thread["rtc"]
  /\ main \in {"join rtc", "exited"} => pc[Srv("signaling")] = "done"
  /\ main = "exited" => pc[Srv("rtc")] = "done"

\* Who writes to whom, and that the signaling server only ever gets QUIT.
Routes ==
  /\ \A s \in Server : pc[Srv(s)] = "send" => to[Srv(s)] \in WorkersOf(s)
  /\ \A w \in Worker : pc[w] = "send" => to[w] # Srv("signaling")
  /\ \A i \in 1..Len(pipe[Srv("signaling")]) : pipe[Srv("signaling")][i] = "QUIT"

\* _stop begins with the first worker.
FirstWorkerFirst ==
  \A s \in Server :
    pc[Srv(s)] \in {"none", "loop", "send", "close read", "close write"} => index[s] = 1

UntoldRun == \A w \in Worker : ~ Told(w) => Untouched(w)

\* The workers _stop has passed have ended, all of them in the end.
JoinedDone ==
  \A w \in Worker : NumOf(w) < index[ServerOf(w)] \/ pc[Srv(ServerOf(w))] = "done" => pc[w] = "done"

\* Nobody stops the log writer.
LogWriterRuns == pc[LogWriter] = "loop"

StopInv == TypeOK /\ MainPhase /\ Routes /\ FirstWorkerFirst /\ UntoldRun /\ JoinedDone

-----------------------------------------------------------------------------
\* Servers and workers are different threads, and each worker has one server.
LEMMA Threads ==
  /\ \A s \in Server : Srv(s) \in Looper /\ Srv(s) \notin Worker
  /\ \A s, r \in Server : Srv(s) = Srv(r) => s = r
  /\ \A w \in Worker : w \in Looper /\ ServerOf(w) \in Server
  /\ \A w \in Worker : NumOf(w) \in 1..WorkerNum[ServerOf(w)] /\ NumOf(w) \in Nat
  /\ \A w \in Worker : w \in WorkersOf(ServerOf(w))
  /\ \A s \in Server : \A w \in WorkersOf(s) : w \in Worker /\ ServerOf(w) = s
  /\ \A t \in Looper : t \in Worker \/ \E s \in Server : t = Srv(s)
  /\ LogWriter \notin Looper
  <1> USE NumAssumption DEF Looper, Worker, WorkersOf, Srv, ServerOf, NumOf
  <1>1. \A s \in Server : WorkerNum[s] \in Nat \ {0}
    OBVIOUS
  <1>2. \A t : t \in Looper <=> \E s \in Server : \E i \in 0..WorkerNum[s] : t = <<s, i>>
    OBVIOUS
  <1>3. \A s \in Server : Srv(s) \in Looper /\ Srv(s) \notin Worker
    BY <1>1, <1>2
  <1>4. \A w \in Worker : \E s \in Server : \E i \in 1..WorkerNum[s] : w = <<s, i>>
    BY <1>1, <1>2
  <1>5. \A s, r \in Server : Srv(s) = Srv(r) => s = r
    OBVIOUS
  <1>6. \A w \in Worker : w \in Looper /\ ServerOf(w) \in Server
    BY <1>1, <1>4
  <1>7. \A w \in Worker : NumOf(w) \in 1..WorkerNum[ServerOf(w)] /\ NumOf(w) \in Nat
    BY <1>1, <1>4
  <1>8. \A w \in Worker : w \in WorkersOf(ServerOf(w))
    BY <1>1, <1>4
  <1>9. \A s \in Server : \A w \in WorkersOf(s) : w \in Worker /\ ServerOf(w) = s
    BY <1>1, <1>2
  <1>10. \A t \in Looper : t \in Worker \/ \E s \in Server : t = Srv(s)
    BY <1>1, <1>2
  <1>11. LogWriter \notin Looper
    <2>1. "log" \notin Server
      BY DEF Server
    <2> QED
      BY <1>2, <2>1 DEF LogWriter
  <1> QED
    BY <1>3, <1>5, <1>6, <1>7, <1>8, <1>9, <1>10, <1>11

\* The threads that have a pipe are threads; what a step leaves of the signals.
USE DEF Thread, signals

\* The worker that _stop has come to.
LEMMA WorkerAt ==
  ASSUME NEW s \in Server, NEW i \in 1..WorkerNum[s]
  PROVE  /\ <<s, i>> \in Worker /\ ServerOf(<<s, i>>) = s /\ NumOf(<<s, i>>) = i
         /\ \A w \in Worker : ServerOf(w) = s /\ NumOf(w) = i => w = <<s, i>>
  <1> USE NumAssumption DEF Looper, Worker, Srv, ServerOf, NumOf
  <1>1. WorkerNum[s] \in Nat
    OBVIOUS
  <1>2. <<s, i>> \in Worker
    BY <1>1
  <1>3. \A w \in Worker : \E r \in Server : \E k \in 0..WorkerNum[r] : w = <<r, k>>
    OBVIOUS
  <1> QED
    BY <1>2, <1>3

\* What Head and Tail leave of a pipe.
LEMMA HeadTailElements ==
  ASSUME NEW S, NEW s \in Seq(S), s # << >>
  PROVE  /\ Head(s) = s[1] /\ Head(s) \in S /\ Tail(s) \in Seq(S)
         /\ Len(s) \in Nat /\ 1 \in 1..Len(s) /\ Len(Tail(s)) = Len(s) - 1
         /\ \A i \in 1..Len(Tail(s)) : i + 1 \in 1..Len(s) /\ Tail(s)[i] = s[i + 1]
  BY HeadTailProperties, EmptySeq

\* What Append adds to a pipe.
LEMMA AppendElements ==
  ASSUME NEW S, NEW s \in Seq(S), NEW e \in S
  PROVE  /\ Append(s, e) \in Seq(S) /\ Len(s) \in Nat
         /\ \A i \in 1..Len(Append(s, e)) :
              Append(s, e)[i] = e \/ (i \in 1..Len(s) /\ Append(s, e)[i] = s[i])
  BY AppendProperties

\* notify() changes the pipe it writes to, if any, at its end.
LEMMA WriteFacts ==
  ASSUME TypeOK, NEW t \in Looper, NEW token \in Token, Write(t, token)
  PROVE  /\ pipe' \in [Looper -> Seq(Token)] /\ killed' \in BOOLEAN
         /\ \A u \in Looper : u # t => pipe'[u] = pipe[u]
         /\ \A i \in 1..Len(pipe'[t]) :
              \/ pipe'[t][i] = token
              \/ i \in 1..Len(pipe[t]) /\ pipe'[t][i] = pipe[t][i]
  <1>1. pipe[t] \in Seq(Token) /\ pipe \in [Looper -> Seq(Token)] /\ killed \in BOOLEAN
    BY DEF TypeOK
  <1>2. CASE pipe' = [pipe EXCEPT ![t] = Append(@, token)] /\ UNCHANGED killed
    <2>1. Append(pipe[t], token) \in Seq(Token)
      BY <1>1, AppendElements
    <2>2. pipe' \in [Looper -> Seq(Token)] /\ pipe'[t] = Append(pipe[t], token)
          /\ \A u \in Looper : u # t => pipe'[u] = pipe[u]
      BY <1>1, <1>2, <2>1
    <2>3. \A i \in 1..Len(Append(pipe[t], token)) :
              \/ Append(pipe[t], token)[i] = token
              \/ i \in 1..Len(pipe[t]) /\ Append(pipe[t], token)[i] = pipe[t][i]
      BY <1>1, AppendElements
    <2> QED
      BY <1>1, <1>2, <2>2, <2>3
  <1>3. CASE UNCHANGED pipe
    BY <1>1, <1>3 DEF Write
  <1> QED
    BY <1>2, <1>3 DEF Write

\* Reading takes the first int and leaves the others.
LEMMA ReadFacts ==
  ASSUME TypeOK, NEW t \in Looper, pipe[t] # << >>, pipe' = [pipe EXCEPT ![t] = Tail(@)]
  PROVE  /\ pipe' \in [Looper -> Seq(Token)]
         /\ \A u \in Looper : u # t => pipe'[u] = pipe[u]
         /\ 1 \in 1..Len(pipe[t]) /\ Head(pipe[t]) = pipe[t][1]
         /\ \A i \in 1..Len(pipe'[t]) : i + 1 \in 1..Len(pipe[t]) /\ pipe'[t][i] = pipe[t][i + 1]
  <1>1. pipe[t] \in Seq(Token) /\ pipe \in [Looper -> Seq(Token)]
    BY DEF TypeOK
  <1>2. Tail(pipe[t]) \in Seq(Token)
    BY <1>1, HeadTailElements
  <1>3. pipe' \in [Looper -> Seq(Token)] /\ pipe'[t] = Tail(pipe[t])
        /\ \A u \in Looper : u # t => pipe'[u] = pipe[u]
    BY <1>1, <1>2
  <1> QED
    BY <1>1, <1>3, HeadTailElements

-----------------------------------------------------------------------------
\* init() has started the workers, and main() nothing yet.
LEMMA StopInvInit == Init => StopInv
  <1> SUFFICES ASSUME Init PROVE StopInv
    OBVIOUS
  <1>1. TypeOK
    <2>1. \A s \in Server : WorkerNum[s] \in Nat \ {0}
      BY NumAssumption
    <2>2. Srv("rtc") \in Looper
      BY Threads DEF Server
    <2>3. 0 \in 0..MaxMsg
      BY CapAssumption
    <2>4. pipe \in [Looper -> Seq(Token)]
      <3>1. << >> \in Seq(Token)
        OBVIOUS
      <3> QED
        BY <3>1 DEF Init
    <2>5. index \in [Server -> Nat] /\ \A s \in Server : index[s] \in 1..WorkerNum[s]
      <3>1. index \in [Server -> Nat] /\ \A s \in Server : index[s] = 1
        BY DEF Init
      <3> QED
        BY <2>1, <3>1
    <2>6. /\ handler \in [Signal -> Server \cup {"none", "log", "done"}]
          /\ stack \in [Thread \cup {MainThread} -> Seq(Signal)] /\ locked \in BOOLEAN
      <3>1. handler = [g \in Signal |-> "none"] /\ locked = FALSE
            /\ stack = [t \in Thread \cup {MainThread} |-> << >>]
        BY DEF Init
      <3>2. << >> \in Seq(Signal)
        OBVIOUS
      <3> HIDE DEF Thread
      <3> QED
        BY <3>1, <3>2
    <2>7. pc \in [Thread -> {"none", "loop", "blocked", "send", "close read", "close write",
                        "quit worker", "join worker", "done"}]
      BY DEF Init
    <2>8. to \in [Looper -> Looper] /\ ends \in [Looper -> {"both", "write", "none"}]
      BY <2>2 DEF Init
    <2>9. thread \in [Server -> BOOLEAN] /\ quit \in [Worker -> BOOLEAN]
      BY DEF Init
    <2> QED
      BY <2>3, <2>4, <2>5, <2>6, <2>7, <2>8, <2>9 DEF Init, TypeOK, MainAt
  <1>2. \A s \in Server : pc[Srv(s)] = "none" /\ index[s] = 1 /\ pipe[Srv(s)] = << >>
    <2>1. \A s \in Server : Srv(s) \in Looper /\ Srv(s)[2] = 0
      BY Threads DEF Srv
    <2> QED
      BY <2>1 DEF Init
  <1>3. \A w \in Worker : pc[w] = "loop" /\ quit[w] = FALSE /\ ends[w] = "both" /\ pipe[w] = << >>
    <2>1. /\ pc = [t \in Thread |-> IF \E s \in Server : t = Srv(s) THEN "none" ELSE "loop"]
          /\ quit = [w \in Worker |-> FALSE] /\ ends = [t \in Looper |-> "both"]
          /\ pipe = [t \in Looper |-> << >>]
      BY DEF Init
    <2> QED
      BY <2>1, Threads
  <1>4. MainPhase
    BY <1>2 DEF Init, MainPhase, Server
  <1>5. Routes
    BY <1>2, <1>3 DEF Routes, Server
  <1>6. FirstWorkerFirst
    BY <1>2 DEF FirstWorkerFirst
  <1>7. UntoldRun
    BY <1>3 DEF UntoldRun, Untouched
  <1>8. JoinedDone
    BY <1>2, Threads DEF JoinedDone
  <1> QED
    BY <1>1, <1>4, <1>5, <1>6, <1>7, <1>8 DEF StopInv

\* start() of a server: its thread has not been running.
LEMMA StartStep ==
  ASSUME StopInv, NEW s \in Server, NEW here, NEW next \in MainAt, Start(s, here, next),
         <<s, here, next>> \in {<<"signaling", "start signaling", "set signaling">>,
                                <<"rtc", "start rtc", "set rtc">>}
  PROVE  StopInv'
  <1> USE Threads DEF StopInv, Start
  <1>1. pc[Srv(s)] = "none" /\ pc'[Srv(s)] = "loop"
        /\ \A t \in Looper : t # Srv(s) => pc'[t] = pc[t]
    BY DEF MainPhase, TypeOK
  <1>2. TypeOK'
    BY DEF TypeOK
  <1>3. MainPhase'
    BY <1>1 DEF MainPhase, Server
  <1>4. Routes'
    BY ZenonT(120), <1>1 DEF Routes, Server
  <1>5. FirstWorkerFirst'
    BY <1>1 DEF FirstWorkerFirst
  <1>6. UntoldRun'
    BY ZenonT(120), <1>1 DEF UntoldRun, Told, Untouched
  <1>7. JoinedDone'
    BY <1>1 DEF JoinedDone
  <1> QED
    BY <1>2, <1>3, <1>4, <1>5, <1>6, <1>7

\* Steps of main() and of a signal that leave the threads alone.
LEMMA ThreadsUnchanged ==
  ASSUME StopInv, TypeOK', MainPhase', UNCHANGED <<pc, to, index, quit, pipe, ends>>
  PROVE  StopInv'
  <1> USE DEF StopInv
  <1>1. Routes' /\ FirstWorkerFirst'
    BY DEF Routes, FirstWorkerFirst
  <1>2. UntoldRun'
    BY DEF UntoldRun, Told, Untouched
  <1>3. JoinedDone'
    BY DEF JoinedDone
  <1> QED
    BY <1>1, <1>2, <1>3

\* _thread is set.
LEMMA SetThreadStep ==
  ASSUME StopInv, NEW s \in Server, NEW here, NEW next \in MainAt, SetThread(s, here, next),
         <<s, here, next>> \in {<<"signaling", "set signaling", "start rtc">>,
                                <<"rtc", "set rtc", "join signaling">>}
  PROVE  StopInv'
  <1>1. TypeOK'
    BY DEF StopInv, TypeOK, SetThread
  <1>2. thread'[s] = TRUE /\ \A r \in Server : r # s => thread'[r] = thread[r]
    BY DEF StopInv, TypeOK, SetThread
  <1>3. MainPhase'
    BY <1>2 DEF StopInv, MainPhase, SetThread, Server
  <1> QED
    BY <1>1, <1>3, ThreadsUnchanged DEF SetThread

\* join() of a server: it waits, because _thread is set.
LEMMA JoinStep ==
  ASSUME StopInv, NEW s \in Server, NEW here, NEW next \in MainAt, Join(s, here, next),
         <<s, here, next>> \in {<<"signaling", "join signaling", "join rtc">>,
                                <<"rtc", "join rtc", "exited">>}
  PROVE  StopInv'
  <1>1. TypeOK'
    BY DEF StopInv, TypeOK, Join
  <1>2. MainPhase'
    BY DEF StopInv, MainPhase, Join, Server
  <1> QED
    BY <1>1, <1>2, ThreadsUnchanged DEF Join

\* A signal arrives.
LEMMA RaiseStep ==
  ASSUME StopInv, NEW g \in Signal, Raise(g)
  PROVE  StopInv'
  <1> USE DEF StopInv
  <1>1. PICK t \in Thread \cup {MainThread} :
          /\ stack' = [stack EXCEPT ![t] = <<g>> \o @]
          /\ locked' \in IF InRtcLog(t) THEN {locked, TRUE} ELSE {locked}
    BY ZenonT(60) DEF Raise
  <1>2. stack' \in [Thread \cup {MainThread} -> Seq(Signal)]
    <2> HIDE DEF Thread
    <2>1. stack \in [Thread \cup {MainThread} -> Seq(Signal)]
      BY DEF TypeOK
    <2>2. <<g>> \o stack[t] \in Seq(Signal)
      <3>1. stack[t] \in Seq(Signal)
        BY <2>1
      <3>2. <<g>> \in Seq(Signal)
        OBVIOUS
      <3> QED
        BY <3>1, <3>2, ConcatProperties
    <2> QED
      BY <1>1, <2>1, <2>2
  <1>3. locked' \in BOOLEAN
    BY <1>1 DEF TypeOK
  <1>4. /\ handler' = [handler EXCEPT ![g] = "log"]
        /\ asked' = (asked \/ main \in {"join signaling", "join rtc"})
        /\ UNCHANGED <<main, thread, pc, to, index, quit, pipe, ends, msgs, killed>>
    BY DEF Raise
  <1>5. TypeOK'
    BY <1>2, <1>3, <1>4 DEF TypeOK
  <1>6. MainPhase'
    BY <1>4 DEF MainPhase
  <1> QED
    BY <1>4, <1>5, <1>6, ThreadsUnchanged

\* process_signal has logged.
LEMMA LogSignalStep ==
  ASSUME StopInv, NEW g \in Signal, LogSignal(g)
  PROVE  StopInv'
  <1> USE DEF StopInv, LogSignal
  <1>1. handler' \in [Signal -> Server \cup {"none", "log", "done"}]
    BY DEF TypeOK, Server
  <1>2. TypeOK'
    BY <1>1 DEF TypeOK
  <1>3. MainPhase'
    BY DEF MainPhase
  <1> QED
    BY <1>2, <1>3, ThreadsUnchanged

\* process_signal writes QUIT to servers only.
LEMMA StopServerStep ==
  ASSUME StopInv, NEW g \in Signal, StopServer(g)
  PROVE  StopInv'
  <1> USE DEF StopInv, StopServer
  <1>1. handler[g] \in Server /\ Srv(handler[g]) \in Looper /\ "QUIT" \in Token
    BY Threads DEF Token
  <1>2. /\ pipe' \in [Looper -> Seq(Token)] /\ killed' \in BOOLEAN
        /\ \A u \in Looper : u # Srv(handler[g]) => pipe'[u] = pipe[u]
        /\ \A i \in 1..Len(pipe'[Srv(handler[g])]) :
              \/ pipe'[Srv(handler[g])][i] = "QUIT"
              \/ /\ i \in 1..Len(pipe[Srv(handler[g])])
                 /\ pipe'[Srv(handler[g])][i] = pipe[Srv(handler[g])][i]
    BY <1>1, WriteFacts
  <1>3. TypeOK'
    <2>1. handler' \in [Signal -> Server \cup {"none", "log", "done"}]
      BY DEF TypeOK, Server
    <2>2. PICK t \in DOMAIN stack :
            /\ ~ Runs(t)
            /\ stack' = IF handler[g] = "rtc" THEN [stack EXCEPT ![t] = Tail(@)] ELSE stack
      OBVIOUS
    <2>3. stack' \in [Thread \cup {MainThread} -> Seq(Signal)]
      <3> HIDE DEF Thread
      <3>1. stack[t] \in Seq(Signal) /\ stack[t] # << >>
        BY <2>2 DEF TypeOK, Runs
      <3>2. Tail(stack[t]) \in Seq(Signal)
        BY <3>1, HeadTailElements
      <3> QED
        BY <2>2, <3>2 DEF TypeOK
    <2> QED
      BY <1>2, <2>1, <2>3 DEF TypeOK
  <1>4. MainPhase' /\ FirstWorkerFirst'
    BY DEF MainPhase, FirstWorkerFirst
  <1>5. Routes'
    <2>1. Srv("signaling") \in Looper
      BY Threads DEF Server
    <2>2. \A i \in 1..Len(pipe'[Srv("signaling")]) : pipe'[Srv("signaling")][i] = "QUIT"
      BY <1>2, <2>1 DEF Routes
    <2> QED
      BY <2>2 DEF Routes
  <1>6. \A w \in Worker : pipe'[w] = pipe[w]
    BY <1>1, <1>2, Threads
  <1>7. UntoldRun'
    BY ZenonT(120), <1>6 DEF UntoldRun, Told, Untouched
  <1>8. JoinedDone'
    BY DEF JoinedDone
  <1> QED
    BY <1>3, <1>4, <1>5, <1>7, <1>8

\* A thread sends what its handler had to send, which is never QUIT.
LEMMA SendStep ==
  ASSUME StopInv, NEW t \in Looper, Send(t, TokenFor(t))
  PROVE  StopInv'
  <1> USE DEF StopInv, Send
  <1>1. to[t] \in Looper /\ TokenFor(t) \in Token /\ TokenFor(t) # "QUIT"
    BY DEF TypeOK, TokenFor, Token
  <1>2. /\ pipe' \in [Looper -> Seq(Token)] /\ killed' \in BOOLEAN
        /\ \A u \in Looper : u # to[t] => pipe'[u] = pipe[u]
        /\ \A i \in 1..Len(pipe'[to[t]]) :
              \/ pipe'[to[t]][i] = TokenFor(t)
              \/ i \in 1..Len(pipe[to[t]]) /\ pipe'[to[t]][i] = pipe[to[t]][i]
    BY <1>1, WriteFacts
  <1>3. pc[t] = "send" /\ pc'[t] = "loop" /\ \A u \in Looper : u # t => pc'[u] = pc[u]
    BY DEF TypeOK
  <1>4. TypeOK'
    BY <1>2 DEF TypeOK, control
  <1>5. MainPhase'
    BY <1>3, Threads DEF MainPhase, control, Server
  <1>6. to[t] # Srv("signaling")
    BY <1>3, Threads DEF Routes, Server
  <1>7. Routes'
    <2>1. Srv("signaling") \in Looper
      BY Threads DEF Server
    <2>2. pipe'[Srv("signaling")] = pipe[Srv("signaling")]
      BY <1>2, <1>6, <2>1
    <2> QED
      BY <1>3, <2>2, Threads DEF Routes
  <1>8. FirstWorkerFirst'
    BY <1>3, Threads DEF FirstWorkerFirst
  <1>9. UntoldRun'
    <2> SUFFICES ASSUME NEW w \in Worker, ~ Told(w)' PROVE Untouched(w)'
      BY DEF UntoldRun
    <2>1. ~ Told(w)
      BY <1>3, Threads DEF Told
    <2>2. Untouched(w)
      BY <2>1 DEF UntoldRun
    <2>3. \A i \in 1..Len(pipe'[w]) : pipe'[w][i] # "QUIT"
      BY <1>1, <1>2, <2>2, Threads DEF Untouched
    <2> QED
      BY <1>3, <2>2, <2>3, Threads DEF Untouched
  <1>10. JoinedDone'
    BY <1>3, Threads DEF JoinedDone
  <1> QED
    BY <1>4, <1>5, <1>7, <1>8, <1>9, <1>10

\* A thread closes an end of its pipe: a worker does so only after QUIT.
LEMMA CloseStep ==
  ASSUME StopInv, NEW t \in Looper, CloseRead(t) \/ CloseWrite(t)
  PROVE  StopInv'
  <1> USE DEF StopInv
  <1>1. /\ pc[t] \in {"close read", "close write"}
        /\ pc'[t] \in {"close write", "quit worker", "loop"}
        /\ (pc'[t] = "loop" => t \in Worker) /\ (pc'[t] = "quit worker" => t \notin Worker)
        /\ \A u \in Looper : u # t => pc'[u] = pc[u] /\ ends'[u] = ends[u]
        /\ UNCHANGED <<control, to, index, quit, pipe, msgs, killed>>
    BY ZenonT(120) DEF TypeOK, CloseRead, CloseWrite, Worker
  <1>2. TypeOK'
    <2>1. ends' \in [Looper -> {"both", "write", "none"}]
      BY DEF TypeOK, CloseRead, CloseWrite
    <2>2. pc' \in [Thread -> {"none", "loop", "blocked", "send", "close read", "close write",
                        "quit worker", "join worker", "done"}]
      BY ZenonT(120) DEF TypeOK, CloseRead, CloseWrite
    <2> QED
      BY <1>1, <2>1, <2>2 DEF TypeOK, control
  <1>3. MainPhase'
    BY <1>1, Threads DEF MainPhase, control, Server
  <1>4. Routes'
    BY <1>1, Threads DEF Routes
  <1>5. FirstWorkerFirst'
    BY <1>1, Threads DEF FirstWorkerFirst
  <1>6. UntoldRun'
    <2> SUFFICES ASSUME NEW w \in Worker, ~ Told(w)' PROVE Untouched(w)'
      BY DEF UntoldRun
    <2>1. ~ Told(w)
      BY <1>1, Threads DEF Told
    <2>2. Untouched(w)
      BY <2>1 DEF UntoldRun
    <2>3. w # t
      BY <1>1, <2>2 DEF Untouched
    <2> QED
      BY <1>1, <2>2, <2>3, Threads DEF Untouched
  <1>7. JoinedDone'
    BY <1>1, Threads DEF JoinedDone
  <1> QED
    BY <1>2, <1>3, <1>4, <1>5, <1>6, <1>7

\* A server reads its pipe.
LEMMA ServerRecvNotifyStep ==
  ASSUME StopInv, NEW s \in Server, ServerRecvNotify(s)
  PROVE  StopInv'
  <1> USE DEF StopInv, ServerRecvNotify
  <1>1. Srv(s) \in Looper /\ Srv(s) \notin Worker
    BY Threads
  <1>2. /\ pipe' \in [Looper -> Seq(Token)]
        /\ \A u \in Looper : u # Srv(s) => pipe'[u] = pipe[u]
        /\ 1 \in 1..Len(pipe[Srv(s)]) /\ Head(pipe[Srv(s)]) = pipe[Srv(s)][1]
        /\ \A i \in 1..Len(pipe'[Srv(s)]) :
             i + 1 \in 1..Len(pipe[Srv(s)]) /\ pipe'[Srv(s)][i] = pipe[Srv(s)][i + 1]
    BY <1>1, ReadFacts
  <1>3. s = "signaling" => Head(pipe[Srv(s)]) = "QUIT"
    BY <1>2 DEF Routes
  <1>4. /\ pc[Srv(s)] = "loop" /\ pc'[Srv(s)] \in {"loop", "close read", "send"}
        /\ \A u \in Looper : u # Srv(s) => pc'[u] = pc[u]
        /\ UNCHANGED <<control, index, quit, ends, msgs, killed>>
    BY <1>1 DEF TypeOK, ServerQuit
  <1>5. /\ to' \in [Looper -> Looper]
        /\ \A u \in Looper : u # Srv(s) => to'[u] = to[u]
        /\ pc'[Srv(s)] = "send" => to'[Srv(s)] \in WorkersOf(s)
    <2>1. CASE Head(pipe[Srv(s)]) = "QUIT"
      BY <2>1, <1>1 DEF TypeOK, ServerQuit
    <2>2. CASE Head(pipe[Srv(s)]) # "QUIT"
      <3>1. s = "rtc"
        BY <2>2, <1>3 DEF Server
      <3>2. PICK w \in WorkersOf("rtc") : to' = [to EXCEPT ![Srv(s)] = w]
        BY <2>2
      <3>3. w \in Looper
        BY <3>2, Threads DEF Server
      <3> QED
        BY <3>1, <3>2, <3>3, <1>1 DEF TypeOK
    <2> QED
      BY <2>1, <2>2
  <1>6. TypeOK'
    <2>1. pc' \in [Thread -> {"none", "loop", "blocked", "send", "close read", "close write",
                        "quit worker", "join worker", "done"}]
      BY ZenonT(120) DEF TypeOK, ServerQuit
    <2> QED
      BY ZenonT(60), <1>2, <1>4, <1>5, <2>1 DEF TypeOK, control
  <1>7. MainPhase'
    BY <1>1, <1>4, Threads DEF MainPhase, control, Server
  <1>8. Routes'
    <2>1. \A r \in Server : pc'[Srv(r)] = "send" => to'[Srv(r)] \in WorkersOf(r)
      BY ZenonT(120), <1>4, <1>5, Threads DEF Routes
    <2>2. \A w \in Worker : pc'[w] = "send" => to'[w] # Srv("signaling")
      BY ZenonT(60), <1>1, <1>4, <1>5, Threads DEF Routes
    <2>3. \A i \in 1..Len(pipe'[Srv("signaling")]) : pipe'[Srv("signaling")][i] = "QUIT"
      BY <1>2, Threads DEF Routes, Server
    <2> QED
      BY <2>1, <2>2, <2>3 DEF Routes
  <1>9. FirstWorkerFirst'
    BY <1>4, Threads DEF FirstWorkerFirst
  <1>10. UntoldRun'
    <2> SUFFICES ASSUME NEW w \in Worker, ~ Told(w)' PROVE Untouched(w)'
      BY DEF UntoldRun
    <2>1. ~ Told(w)
      BY <1>4, Threads DEF Told
    <2>2. Untouched(w)
      BY <2>1 DEF UntoldRun
    <2> QED
      BY <1>1, <1>2, <1>4, <2>2, Threads DEF Untouched
  <1>11. JoinedDone'
    BY <1>1, <1>4, Threads DEF JoinedDone
  <1> QED
    BY <1>6, <1>7, <1>8, <1>9, <1>10, <1>11

\* A connection or a request gives a thread something to send.
LEMMA NewMessageStep ==
  ASSUME StopInv, NEW t \in Looper, NEW u \in Looper, pc[t] = "loop", msgs < MaxMsg,
         msgs' = msgs + 1, to' = [to EXCEPT ![t] = u], pc' = [pc EXCEPT ![t] = "send"],
         UNCHANGED <<control, index, quit, pipe, ends, killed>>,
         \A s \in Server : t = Srv(s) => u \in WorkersOf(s),
         t \in Worker => u # Srv("signaling")
  PROVE  StopInv'
  <1> USE DEF StopInv
  <1>1. /\ pc'[t] = "send" /\ to'[t] = u
        /\ \A v \in Looper : v # t => pc'[v] = pc[v] /\ to'[v] = to[v]
    BY DEF TypeOK
  <1>2. TypeOK'
    <2>1. msgs' \in 0..MaxMsg
      <3>1. msgs \in 0..MaxMsg
        BY DEF TypeOK
      <3> QED
        BY <3>1, CapAssumption
    <2>2. to' \in [Looper -> Looper]
      BY DEF TypeOK
    <2>3. pc' \in [Thread -> {"none", "loop", "blocked", "send", "close read", "close write",
                        "quit worker", "join worker", "done"}]
      BY DEF TypeOK
    <2> QED
      BY <2>1, <2>2, <2>3 DEF TypeOK, control
  <1>3. MainPhase'
    BY <1>1, Threads DEF MainPhase, control, Server
  <1>4. Routes'
    BY <1>1, Threads DEF Routes
  <1>5. FirstWorkerFirst'
    BY <1>1, Threads DEF FirstWorkerFirst
  <1>6. UntoldRun'
    <2> SUFFICES ASSUME NEW w \in Worker, ~ Told(w)' PROVE Untouched(w)'
      BY DEF UntoldRun
    <2>1. ~ Told(w)
      BY <1>1, Threads DEF Told
    <2>2. Untouched(w)
      BY <2>1 DEF UntoldRun
    <2> QED
      BY <1>1, <2>2, Threads DEF Untouched
  <1>7. JoinedDone'
    BY <1>1, Threads DEF JoinedDone
  <1> QED
    BY <1>2, <1>3, <1>4, <1>5, <1>6, <1>7

\* worker->stop(): only the worker _stop has come to is told.
LEMMA QuitWorkerStep ==
  ASSUME StopInv, NEW s \in Server, QuitWorker(s)
  PROVE  StopInv'
  <1> DEFINE v == <<s, index[s]>>
  <1> USE DEF StopInv
  <1>0. /\ pc[Srv(s)] = "quit worker" /\ Write(v, "QUIT")
        /\ pc' = [pc EXCEPT ![Srv(s)] = "join worker"]
        /\ UNCHANGED <<control, to, index, quit, ends, msgs>>
    BY DEF QuitWorker
  <1>1. /\ index[s] \in 1..WorkerNum[s] /\ index[s] \in Nat
        /\ v \in Worker /\ ServerOf(v) = s /\ NumOf(v) = index[s]
        /\ \A w \in Worker : ServerOf(w) = s /\ NumOf(w) = index[s] => w = v
    BY WorkerAt DEF TypeOK
  <1> HIDE DEF v
  <1>2. v \in Looper /\ v # Srv("signaling") /\ "QUIT" \in Token /\ Srv(s) \in Looper
    BY <1>1, Threads DEF Token, Server
  <1>3. pipe' \in [Looper -> Seq(Token)] /\ killed' \in BOOLEAN
        /\ \A u \in Looper : u # v => pipe'[u] = pipe[u]
    BY <1>0, <1>2, WriteFacts
  <1>4. /\ pc[Srv(s)] = "quit worker" /\ pc'[Srv(s)] = "join worker"
        /\ \A u \in Looper : u # Srv(s) => pc'[u] = pc[u]
    BY <1>0, <1>2 DEF TypeOK
  <1>5. TypeOK'
    BY <1>0, <1>3 DEF TypeOK, control
  <1>6. MainPhase'
    BY <1>0, <1>4, Threads DEF MainPhase, control, Server
  <1>7. Routes'
    <2>1. pipe'[Srv("signaling")] = pipe[Srv("signaling")]
      BY <1>2, <1>3, Threads DEF Server
    <2> QED
      BY <1>0, <1>4, <2>1, Threads DEF Routes
  <1>8. FirstWorkerFirst'
    BY <1>0, <1>4, Threads DEF FirstWorkerFirst
  <1>9. UntoldRun'
    <2> SUFFICES ASSUME NEW w \in Worker, ~ Told(w)' PROVE Untouched(w)'
      BY DEF UntoldRun
    <2>1. ServerOf(w) \in Server /\ NumOf(w) \in Nat /\ index[ServerOf(w)] \in Nat /\ w # Srv(s)
      BY Threads DEF TypeOK
    <2>2. index[s] \in Nat
      BY DEF TypeOK
    <2>3. NumOf(w) \in Nat
      BY <2>1
    <2>4. ~ Told(w) /\ w # v
      <3>1. CASE ServerOf(w) = s
        <4>1. ~ (NumOf(w) <= index[s])
          BY <1>0, <1>4, <3>1 DEF Told
        <4>2. index[s] < NumOf(w) /\ ~ (NumOf(w) < index[s]) /\ NumOf(w) # index[s]
          BY <2>2, <2>3, <4>1
        <4> QED
          BY <1>0, <1>1, <1>4, <3>1, <4>2 DEF Told
      <3>2. CASE ServerOf(w) # s
        <4>1. Srv(ServerOf(w)) # Srv(s) /\ Srv(ServerOf(w)) \in Looper
          BY <2>1, <3>2, Threads
        <4> QED
          BY <1>0, <1>1, <1>4, <4>1, <3>2 DEF Told
      <3> QED
        BY <3>1, <3>2
    <2>5. Untouched(w)
      BY <2>4 DEF UntoldRun
    <2> QED
      BY <1>0, <1>3, <1>4, <2>1, <2>4, <2>5, Threads DEF Untouched
  <1>10. JoinedDone'
    BY <1>0, <1>4, Threads DEF JoinedDone
  <1> QED
    BY <1>5, <1>6, <1>7, <1>8, <1>9, <1>10

\* worker->join(): the worker has ended, and the next one is not told yet.
LEMMA JoinWorkerStep ==
  ASSUME StopInv, NEW s \in Server, JoinWorker(s)
  PROVE  StopInv'
  <1> DEFINE v == <<s, index[s]>>
  <1> USE DEF StopInv
  <1>1. /\ index[s] \in 1..WorkerNum[s] /\ index[s] \in Nat /\ WorkerNum[s] \in Nat
        /\ v \in Worker /\ ServerOf(v) = s /\ NumOf(v) = index[s]
        /\ \A w \in Worker : ServerOf(w) = s /\ NumOf(w) = index[s] => w = v
    BY WorkerAt, NumAssumption DEF TypeOK
  <1>2. pc[v] = "done" /\ Srv(s) \in Looper
    BY Threads DEF JoinWorker
  <1> HIDE DEF v
  <1>3. /\ pc[Srv(s)] = "join worker"
        /\ \/ index[s] < WorkerNum[s] /\ pc'[Srv(s)] = "quit worker" /\ index'[s] = index[s] + 1
           \/ index[s] = WorkerNum[s] /\ pc'[Srv(s)] = "done" /\ index'[s] = index[s]
        /\ \A u \in Looper : u # Srv(s) => pc'[u] = pc[u]
        /\ \A r \in Server : r # s => index'[r] = index[r]
        /\ UNCHANGED <<control, to, quit, pipe, ends, msgs, killed>>
    <2>1. pc \in [Thread -> {"none", "loop", "blocked", "send", "close read", "close write",
                             "quit worker", "join worker", "done"}] /\ index \in [Server -> Nat]
      BY DEF TypeOK
    <2>2. CASE index[s] < WorkerNum[s]
      BY <1>1, <1>2, <2>1, <2>2 DEF JoinWorker
    <2>3. CASE ~ (index[s] < WorkerNum[s])
      <3>1. index[s] \in 1..WorkerNum[s] /\ index[s] \in Nat /\ WorkerNum[s] \in Nat
        BY <1>1
      <3>2. index[s] = WorkerNum[s]
        BY <2>3, <3>1
      <3> QED
        BY <1>2, <2>1, <2>3, <3>2 DEF JoinWorker
    <2> QED
      BY <2>2, <2>3
  <1>4. TypeOK'
    <2>1. index' \in [Server -> Nat]
      <3>1. index \in [Server -> Nat] /\ index[s] \in Nat
        BY DEF TypeOK
      <3>2. index[s] + 1 \in Nat
        BY <3>1
      <3> QED
        BY <3>1, <3>2 DEF JoinWorker
    <2>2. \A r \in Server : index'[r] \in 1..WorkerNum[r]
      <3>1. \A r \in Server : index[r] \in 1..WorkerNum[r]
        BY DEF TypeOK
      <3>2. index'[s] \in 1..WorkerNum[s]
        <4>1. index[s] \in 1..WorkerNum[s] /\ index[s] \in Nat /\ WorkerNum[s] \in Nat
          BY <1>1
        <4>2. \/ index[s] < WorkerNum[s] /\ index'[s] = index[s] + 1
              \/ index'[s] = index[s]
          BY <1>3
        <4> QED
          BY <4>1, <4>2
      <3> QED
        BY <1>3, <3>1, <3>2
    <2>3. pc' \in [Thread -> {"none", "loop", "blocked", "send", "close read", "close write",
                        "quit worker", "join worker", "done"}]
      BY ZenonT(120) DEF TypeOK, JoinWorker
    <2> QED
      BY <1>3, <2>1, <2>2, <2>3 DEF TypeOK, control
  <1>5. MainPhase'
    BY <1>3, Threads DEF MainPhase, control, Server
  <1>6. Routes'
    BY <1>3, Threads DEF Routes
  <1>7. FirstWorkerFirst'
    BY <1>3, Threads DEF FirstWorkerFirst
  <1>8. \A w \in Worker : /\ ServerOf(w) \in Server /\ NumOf(w) \in Nat /\ w # Srv(s)
                          /\ NumOf(w) <= WorkerNum[ServerOf(w)] /\ index[ServerOf(w)] \in Nat
                          /\ pc'[w] = pc[w]
    <2>1. \A r \in Server : WorkerNum[r] \in Nat /\ index[r] \in Nat
      BY NumAssumption DEF TypeOK
    <2> SUFFICES ASSUME NEW w \in Worker
                 PROVE  /\ ServerOf(w) \in Server /\ NumOf(w) \in Nat /\ w # Srv(s)
                        /\ NumOf(w) <= WorkerNum[ServerOf(w)] /\ index[ServerOf(w)] \in Nat
                        /\ pc'[w] = pc[w]
      OBVIOUS
    <2>2. /\ ServerOf(w) \in Server /\ NumOf(w) \in Nat /\ w # Srv(s) /\ w \in Looper
          /\ NumOf(w) \in 1..WorkerNum[ServerOf(w)]
      BY Threads
    <2>3. WorkerNum[ServerOf(w)] \in Nat /\ index[ServerOf(w)] \in Nat
      BY <2>1, <2>2
    <2>4. NumOf(w) <= WorkerNum[ServerOf(w)]
      BY <2>2, <2>3
    <2> QED
      BY <1>3, <2>2, <2>3, <2>4
  <1>9. ASSUME NEW w \in Worker, ServerOf(w) # s
        PROVE  (Told(w)' <=> Told(w)) /\ index'[ServerOf(w)] = index[ServerOf(w)]
               /\ pc'[Srv(ServerOf(w))] = pc[Srv(ServerOf(w))]
    BY <1>3, <1>8, <1>9, Threads DEF Told
  <1>10. UntoldRun'
    <2> SUFFICES ASSUME NEW w \in Worker, ~ Told(w)' PROVE Untouched(w)'
      BY DEF UntoldRun
    <2>1. ~ Told(w)
      <3>1. CASE ServerOf(w) = s
        <4>1. CASE index'[s] = index[s] + 1 /\ pc'[Srv(s)] = "quit worker"
          <5>1. ~ (NumOf(w) < index[s] + 1)
            BY <3>1, <4>1 DEF Told
          <5>2. index[s] \in Nat /\ NumOf(w) \in Nat
            BY <1>1, <1>8
          <5>3. ~ (NumOf(w) <= index[s])
            BY <5>1, <5>2
          <5> QED
            BY <1>3, <3>1, <5>3 DEF Told
        <4>2. CASE index'[s] = index[s] /\ pc'[Srv(s)] = "done"
          BY <1>3, <3>1, <4>2 DEF Told
        <4> QED
          BY <1>3, <4>1, <4>2
      <3> QED
        BY <1>9, <3>1
    <2>2. Untouched(w)
      BY <2>1 DEF UntoldRun
    <2> QED
      BY <1>3, <1>8, <2>2 DEF Untouched
  <1>11. JoinedDone'
    <2> SUFFICES ASSUME NEW w \in Worker,
                        NumOf(w) < index'[ServerOf(w)] \/ pc'[Srv(ServerOf(w))] = "done"
                 PROVE  pc'[w] = "done"
      BY DEF JoinedDone
    <2>1. CASE ServerOf(w) = s
      <3>1. index[s] \in Nat /\ NumOf(w) \in Nat /\ WorkerNum[s] \in Nat
        BY <1>1, <1>8
      <3>2. \/ index'[s] = index[s] + 1 /\ NumOf(w) < index'[s]
            \/ index[s] = WorkerNum[s] /\ NumOf(w) <= WorkerNum[s]
        BY <1>3, <1>8, <2>1
      <3>3. NumOf(w) < index[s] \/ NumOf(w) = index[s]
        BY <3>1, <3>2
      <3>4. NumOf(w) < index[s] \/ w = v
        BY <1>1, <2>1, <3>3
      <3> QED
        BY <1>2, <1>8, <2>1, <3>4 DEF JoinedDone
    <2> QED
      BY <1>8, <1>9, <2>1 DEF JoinedDone
  <1> QED
    BY <1>4, <1>5, <1>6, <1>7, <1>10, <1>11

\* A worker reads its pipe: QUIT is there only if its server has told it.
LEMMA WorkerRecvNotifyStep ==
  ASSUME StopInv, NEW w \in Worker, WorkerRecvNotify(w)
  PROVE  StopInv'
  <1> USE DEF StopInv, WorkerRecvNotify
  <1>1. w \in Looper /\ \A s \in Server : w # Srv(s)
    BY Threads
  <1>2. /\ pipe' \in [Looper -> Seq(Token)]
        /\ \A u \in Looper : u # w => pipe'[u] = pipe[u]
        /\ 1 \in 1..Len(pipe[w]) /\ Head(pipe[w]) = pipe[w][1]
        /\ \A i \in 1..Len(pipe'[w]) : i + 1 \in 1..Len(pipe[w]) /\ pipe'[w][i] = pipe[w][i + 1]
    BY <1>1, ReadFacts
  <1>3. /\ pc[w] = "loop" /\ pc'[w] \in {"loop", "blocked", "close read", "send"}
        /\ \A u \in Looper : u # w => pc'[u] = pc[u]
        /\ UNCHANGED <<control, index, ends, msgs, killed>>
    BY <1>1 DEF TypeOK, WorkerQuit
  <1>4. /\ quit' \in [Worker -> BOOLEAN]
        /\ \A u \in Worker : u # w => quit'[u] = quit[u]
        /\ Head(pipe[w]) # "QUIT" => pc'[w] \in {"loop", "blocked", "send"} /\ quit'[w] = quit[w]
    BY <1>1 DEF TypeOK, WorkerQuit
  <1>5. /\ to' \in [Looper -> Looper]
        /\ \A u \in Looper : u # w => to'[u] = to[u]
        /\ pc'[w] = "send" => to'[w] # Srv("signaling")
    <2>1. CASE UNCHANGED to /\ pc'[w] # "send"
      BY <2>1 DEF TypeOK
    <2>2. CASE \E v \in WorkersOf("signaling") : to' = [to EXCEPT ![w] = v]
      <3>1. PICK v \in WorkersOf("signaling") : to' = [to EXCEPT ![w] = v]
        BY <2>2
      <3>2. v \in Looper /\ v # Srv("signaling")
        BY <3>1, Threads DEF Server
      <3> QED
        BY <3>1, <3>2, <1>1 DEF TypeOK
    <2>3. \/ UNCHANGED to /\ pc'[w] # "send"
          \/ \E v \in WorkersOf("signaling") : to' = [to EXCEPT ![w] = v]
      BY <1>1, <1>3 DEF WorkerQuit, TypeOK
    <2> QED
      BY <2>1, <2>2, <2>3
  <1>6. TypeOK'
    <2>1. pc' \in [Thread -> {"none", "loop", "blocked", "send", "close read", "close write",
                        "quit worker", "join worker", "done"}]
      BY ZenonT(120) DEF TypeOK, WorkerQuit
    <2> QED
      BY ZenonT(120), <1>2, <1>3, <1>4, <1>5, <2>1 DEF TypeOK, control
  <1>7. MainPhase'
    BY <1>1, <1>3, Threads DEF MainPhase, control, Server
  <1>8. Routes'
    <2>1. pipe'[Srv("signaling")] = pipe[Srv("signaling")]
      BY <1>1, <1>2, Threads DEF Server
    <2> QED
      BY ZenonT(120), <1>1, <1>3, <1>5, <2>1, Threads DEF Routes
  <1>9. FirstWorkerFirst'
    BY <1>1, <1>3, Threads DEF FirstWorkerFirst
  <1>10. UntoldRun'
    <2> SUFFICES ASSUME NEW u \in Worker, ~ Told(u)' PROVE Untouched(u)'
      BY DEF UntoldRun
    <2>1. ~ Told(u)
      BY <1>1, <1>3, Threads DEF Told
    <2>2. Untouched(u)
      BY <2>1 DEF UntoldRun
    <2>3. CASE u # w
      BY <1>2, <1>3, <1>4, <2>2, <2>3, Threads DEF Untouched
    <2>4. CASE u = w
      <3>1. \A i \in 1..Len(pipe[w]) : pipe[w][i] # "QUIT"
        BY <2>2, <2>4 DEF Untouched
      <3>2. Head(pipe[w]) # "QUIT" /\ \A i \in 1..Len(pipe'[w]) : pipe'[w][i] # "QUIT"
        BY <1>2, <3>1
      <3> QED
        BY ZenonT(120), <1>3, <1>4, <2>2, <2>4, <3>2 DEF Untouched
    <2> QED
      BY <2>3, <2>4
  <1>11. JoinedDone'
    BY ZenonT(120), <1>1, <1>3, Threads DEF JoinedDone
  <1> QED
    BY <1>6, <1>7, <1>8, <1>9, <1>10, <1>11

\* The loop of a worker returns, after it was told to.
LEMMA LoopEndsStep ==
  ASSUME StopInv, NEW w \in Worker, LoopEnds(w)
  PROVE  StopInv'
  <1> USE DEF StopInv, LoopEnds
  <1>1. w \in Looper /\ \A s \in Server : w # Srv(s)
    BY Threads
  <1>2. pc'[w] = "done" /\ \A u \in Looper : u # w => pc'[u] = pc[u]
    BY <1>1 DEF TypeOK
  <1>3. TypeOK'
    BY DEF TypeOK, control
  <1>4. MainPhase'
    BY <1>1, <1>2, Threads DEF MainPhase, control, Server
  <1>5. Routes'
    BY <1>1, <1>2, Threads DEF Routes
  <1>6. FirstWorkerFirst'
    BY <1>1, <1>2, Threads DEF FirstWorkerFirst
  <1>7. UntoldRun'
    <2> SUFFICES ASSUME NEW u \in Worker, ~ Told(u)' PROVE Untouched(u)'
      BY DEF UntoldRun
    <2>1. ~ Told(u)
      BY <1>1, <1>2, Threads DEF Told
    <2>2. Untouched(u) /\ u # w
      BY <2>1 DEF UntoldRun, Untouched
    <2> QED
      BY <1>2, <2>2, Threads DEF Untouched
  <1>8. JoinedDone'
    BY <1>1, <1>2, Threads DEF JoinedDone
  <1> QED
    BY <1>3, <1>4, <1>5, <1>6, <1>7, <1>8

-----------------------------------------------------------------------------
\* Every step of every thread keeps StopInv.
LEMMA StopInvStep ==
  ASSUME StopInv, [Next]_vars
  PROVE  StopInv'
  <1>1. CASE Main
    BY <1>1, StartStep, SetThreadStep, JoinStep DEF Main, Server, MainAt
  <1>2. ASSUME NEW g \in Signal, Raise(g) \/ ProcessSignal(g) PROVE StopInv'
    BY <1>2, RaiseStep, LogSignalStep, StopServerStep DEF ProcessSignal
  <1>3. ASSUME NEW s \in Server, ServerStep(s) PROVE StopInv'
    BY <1>3, Threads, ServerRecvNotifyStep, SendStep, CloseStep, QuitWorkerStep, JoinWorkerStep
       DEF ServerStep
  <1>4. ASSUME NEW w \in Worker, WorkerStep(w) PROVE StopInv'
    BY <1>4, Threads, WorkerRecvNotifyStep, SendStep, CloseStep, LoopEndsStep DEF WorkerStep
  <1>5. ASSUME NEW w \in WorkersOf("signaling"), AcceptNewConn(w) PROVE StopInv'
    <2>1. Srv("signaling") \in Looper /\ w \in Looper /\ Srv("signaling") \notin Worker
          /\ \A s \in Server : Srv("signaling") = Srv(s) => s = "signaling"
      BY Threads DEF Server
    <2> QED
      BY <1>5, <2>1, NewMessageStep DEF AcceptNewConn
  <1>6. ASSUME NEW w \in WorkersOf("signaling"), Request(w) PROVE StopInv'
    <2>1. w \in Worker /\ w \in Looper /\ Srv("rtc") \in Looper /\ Srv("rtc") # Srv("signaling")
          /\ \A s \in Server : w # Srv(s)
      BY Threads DEF Server
    <2> QED
      BY <1>6, <2>1, NewMessageStep DEF Request
  <1>7. CASE UNCHANGED vars
    <2>1. TypeOK' /\ MainPhase'
      BY <1>7 DEF vars, StopInv, TypeOK, MainPhase
    <2> QED
      BY <1>7, <2>1, ThreadsUnchanged DEF vars
  <1> QED
    BY <1>1, <1>2, <1>3, <1>4, <1>5, <1>6, <1>7 DEF Next, ClientStep

\* No step is the log writer's last.
LEMMA LogWriterStep ==
  ASSUME StopInv, LogWriterRuns, [Next]_vars
  PROVE  LogWriterRuns'
  <1>1. /\ \A t \in Looper : t # LogWriter
        /\ \A s \in Server : Srv(s) # LogWriter
        /\ \A w \in Worker : w # LogWriter
    BY Threads
  <1>2. ASSUME NEW t \in Looper, NEW x, pc' = [pc EXCEPT ![t] = x] PROVE LogWriterRuns'
    BY <1>1, <1>2 DEF LogWriterRuns, StopInv, TypeOK
  <1>3. ASSUME pc' = pc PROVE LogWriterRuns'
    BY <1>3 DEF LogWriterRuns
  <1>4. CASE Main
    BY <1>2, <1>3, <1>4, Threads DEF Main, Start, SetThread, Join, Server
  <1>5. ASSUME NEW g \in Signal, Raise(g) \/ ProcessSignal(g) PROVE LogWriterRuns'
    BY <1>3, <1>5 DEF Raise, ProcessSignal, LogSignal, StopServer
  <1>6. ASSUME NEW s \in Server, ServerStep(s) PROVE LogWriterRuns'
    <2>1. Srv(s) \in Looper
      BY Threads
    <2> QED
      BY <1>2, <1>3, <1>6, <2>1 DEF ServerStep, ServerRecvNotify, ServerQuit, Send, CloseRead,
         CloseWrite, QuitWorker, JoinWorker
  <1>7. ASSUME NEW w \in Worker, WorkerStep(w) PROVE LogWriterRuns'
    <2>1. w \in Looper
      BY Threads
    <2> QED
      BY <1>2, <1>3, <1>7, <2>1 DEF WorkerStep, WorkerRecvNotify, WorkerQuit, Send, CloseRead,
         CloseWrite, LoopEnds
  <1>8. ASSUME NEW w \in WorkersOf("signaling"), ClientStep(w) PROVE LogWriterRuns'
    <2>1. w \in Looper /\ Srv("signaling") \in Looper
      BY Threads DEF Server
    <2> QED
      BY <1>2, <1>8, <2>1 DEF ClientStep, AcceptNewConn, Request
  <1>9. CASE UNCHANGED vars
    BY <1>3, <1>9 DEF vars
  <1> QED
    BY <1>4, <1>5, <1>6, <1>7, <1>8, <1>9 DEF Next

\* StopInv holds in every state of starting, serving and stopping.
THEOREM StopInvariant == Spec => []StopInv
  BY StopInvInit, StopInvStep, PTL DEF Spec

\* The log writer runs for ever.
THEOREM LogWriterInvariant == Spec => []LogWriterRuns
  <1>1. Init => LogWriterRuns
    <2>1. \A s \in Server : LogWriter # Srv(s)
      BY Threads
    <2>2. Init => pc = [t \in Thread |-> IF \E s \in Server : t = Srv(s) THEN "none" ELSE "loop"]
      BY DEF Init
    <2> QED
      BY <2>1, <2>2 DEF LogWriterRuns
  <1> QED
    BY <1>1, LogWriterStep, StopInvariant, PTL DEF Spec

\* main() returns after every server and worker thread has ended, however
\* signals, requests and the two _stop loops interleave, and leaves one thread
\* behind, the log writer.
THEOREM MainIsLast == Spec => []MainReturnsLast
  <1>1. StopInv /\ LogWriterRuns => MainReturnsLast
    <2> SUFFICES ASSUME StopInv, LogWriterRuns, main = "exited"
                 PROVE  {t \in Thread : pc[t] # "done"} = {LogWriter}
      BY DEF MainReturnsLast
    <2>1. \A s \in Server : pc[Srv(s)] = "done"
      BY DEF StopInv, MainPhase, Server
    <2>2. \A t \in Looper : pc[t] = "done"
      BY <2>1, Threads DEF StopInv, JoinedDone
    <2> QED
      BY <2>2 DEF LogWriterRuns
  <1> QED
    BY <1>1, StopInvariant, LogWriterInvariant, PTL

\* A server never writes to a worker that has begun to close its pipe: its
\* notify() neither fails nor raises SIGPIPE.
THEOREM ServersWriteToOpenPipes == Spec => []ServerWritesToOpenPipe
  <1>1. StopInv => ServerWritesToOpenPipe
    <2> SUFFICES ASSUME StopInv, NEW s \in Server
                 PROVE  /\ pc[Srv(s)] = "quit worker" => ends[<<s, index[s]>>] = "both"
                        /\ pc[Srv(s)] = "send" => ends[to[Srv(s)]] = "both"
      BY DEF ServerWritesToOpenPipe
    <2> USE DEF StopInv
    <2>1. index[s] \in 1..WorkerNum[s] /\ index[s] \in Nat
      BY DEF TypeOK
    <2>2. ASSUME pc[Srv(s)] = "quit worker" PROVE ends[<<s, index[s]>>] = "both"
      <3>1. <<s, index[s]>> \in Worker /\ ~ Told(<<s, index[s]>>)
        <4>1. <<s, index[s]>> \in Worker /\ ServerOf(<<s, index[s]>>) = s
              /\ NumOf(<<s, index[s]>>) = index[s]
          BY <2>1, WorkerAt
        <4>2. ~ (index[s] < index[s])
          BY <2>1
        <4> QED
          BY <2>2, <4>1, <4>2 DEF Told
      <3> QED
        BY <3>1 DEF UntoldRun, Untouched
    <2>3. ASSUME pc[Srv(s)] = "send" PROVE ends[to[Srv(s)]] = "both"
      <3>1. to[Srv(s)] \in Worker /\ ServerOf(to[Srv(s)]) = s
        BY <2>3, Threads DEF Routes
      <3>2. ~ Told(to[Srv(s)])
        BY <2>3, <3>1 DEF Told
      <3> QED
        BY <3>1, <3>2 DEF UntoldRun, Untouched
    <2> QED
      BY <2>2, <2>3
  <1> QED
    BY <1>1, StopInvariant, PTL
=============================================================================
