---------------------------- MODULE LogPipeline ----------------------------
(***************************************************************************)
(* GrtcLog: every thread queues its lines under a mutex, one queue for     *)
(* warnings and errors (wf) and one for the rest (log), and one thread     *)
(* moves them to two files.  The files may be moved, deleted or made anew  *)
(* by other programs at any time, opening and writing may fail, a signal   *)
(* may interrupt a thread in the middle of a call, and the process ends    *)
(* when main() returns, without stopping this thread.                      *)
(***************************************************************************)
EXTENDS Integers, Sequences, FiniteSets

CONSTANTS
  Thread,         \* the threads that log
  Writer,         \* the thread of start()
  Handler,        \* process_signal, for the one signal that comes
  Nil,
  MaxLine,        \* bound on lines
  MaxFault        \* bound on what other programs and the disk do

File == {"log", "wf"}
Caller == Thread \cup {Handler}

ASSUME LogAssumption ==
  /\ IsFiniteSet(Thread)
  /\ Cardinality(Caller \cup {Writer, Nil}) = Cardinality(Thread) + 3
  /\ MaxLine \in Nat /\ MaxFault \in Nat

VARIABLES
  main,           \* where main() is
  call,           \* where a thread, or the handler, is in OnLogMessage
  on,             \* the thread the signal interrupted
  mtx,            \* the thread that holds _mtx or _mtx_wf
  queue,          \* _log_queue and _log_queue_wf
  writer, ss,     \* where the writer is, and its string stream
  stream,         \* _out_file and _out_file_wf: "open", "bad" or "closed"
  exists,         \* whether there is a file of that name
  faults,         \* auxiliary: what has gone wrong so far
  logged,         \* auxiliary: the lines queued for a file
  out, lost       \* auxiliary: the lines given to a stream, those it dropped

vars == <<main, call, on, mtx, queue, writer, ss, stream, exists, faults, logged, out, lost>>
logging == <<call, on, mtx, queue, logged>>
files == <<stream, exists, faults, out, lost>>

Idle == [at |-> "idle", file |-> Nil, line |-> 0]

Init ==
  /\ main = "init"
  /\ call = [c \in Caller |-> Idle] /\ on = Nil
  /\ mtx = [f \in File |-> Nil] /\ queue = [f \in File |-> << >>]
  /\ writer = [at |-> "none", file |-> "log"] /\ ss = << >>
  /\ stream = [f \in File |-> "closed"] /\ exists = [f \in File |-> FALSE]
  /\ faults = 0 /\ logged = [f \in File |-> << >>]
  /\ out = [f \in File |-> << >>] /\ lost = {}

\* Something goes wrong that may go wrong at any time.
Fault(happens) ==
  /\ happens => faults < MaxFault
  /\ faults' = IF happens THEN faults + 1 ELSE faults

-----------------------------------------------------------------------------
(* main() *)

\* init_log: init() opens one file after the other and gives up when one
\* cannot be opened.
InitLog(opened) ==
  /\ main = "init"
  /\ Fault(opened # File)
  /\ main' = IF opened = File THEN "start" ELSE "start failed"
  /\ stream' = [f \in File |-> IF f \in opened THEN "open" ELSE "closed"]
  /\ exists' = [f \in File |-> f \in opened]
  /\ UNCHANGED <<logging, writer, ss, out, lost>>

\* start() is called before the result of init_log is looked at.
Start ==
  /\ main \in {"start", "start failed"}
  /\ writer' = [writer EXCEPT !.at = "check"]
  /\ main' = IF main = "start" THEN "running" ELSE "exit"
  /\ UNCHANGED <<logging, ss, files>>

\* main() returns: there is no stop(), and what is queued stays queued.
Exit ==
  /\ main \in {"running", "exit"}
  /\ main' = "exited"
  /\ UNCHANGED <<logging, writer, ss, files>>

Alive == main \notin {"init", "exited"}

-----------------------------------------------------------------------------
(* OnLogMessage.  A thread does not go on while the handler runs on it, and  *)
(* what the handler locks its thread has locked.                             *)

Runs(t) == Alive /\ (on = t => call[Handler].at = "done")
ThreadOf(c) == IF c = Handler THEN on ELSE c
Goes(c) == IF c = Handler THEN Alive ELSE Runs(c)

\* Lines queued, or on their way into a queue
Lines == Len(logged["log"]) + Len(logged["wf"])
         + Cardinality({c \in Caller : call[c].at \in {"lock", "push"}})

NewCall(f) == [at |-> "lock", file |-> f, line |-> Lines + 1]

\* RTC_LOG in a thread; a warning or an error goes to wf.
Log(t, f) ==
  /\ Runs(t) /\ call[t].at = "idle" /\ Lines < MaxLine
  /\ call' = [call EXCEPT ![t] = NewCall(f)]
  /\ UNCHANGED <<main, on, mtx, queue, logged, writer, ss, files>>

\* process_signal interrupts some thread, and logs.
Signal(t) ==
  /\ main = "running" /\ on = Nil /\ Lines < MaxLine
  /\ on' = t
  /\ call' = [call EXCEPT ![Handler] = NewCall("log")]
  /\ UNCHANGED <<main, mtx, queue, logged, writer, ss, files>>

Lock(c) ==
  /\ Goes(c) /\ call[c].at = "lock" /\ mtx[call[c].file] = Nil
  /\ mtx' = [mtx EXCEPT ![call[c].file] = ThreadOf(c)]
  /\ call' = [call EXCEPT ![c].at = "push"]
  /\ UNCHANGED <<main, on, queue, logged, writer, ss, files>>

Push(c) ==
  LET f == call[c].file IN
  /\ Goes(c) /\ call[c].at = "push"
  /\ queue' = [queue EXCEPT ![f] = Append(@, call[c].line)]
  /\ logged' = [logged EXCEPT ![f] = Append(@, call[c].line)]
  /\ mtx' = [mtx EXCEPT ![f] = Nil]
  /\ call' = [call EXCEPT ![c] = IF c = Handler THEN [Idle EXCEPT !.at = "done"] ELSE Idle]
  /\ UNCHANGED <<main, on, writer, ss, files>>

-----------------------------------------------------------------------------
(* The loop of start() *)

At(at) == Runs(Writer) /\ writer.at = at

\* stat(), close() and open(): a file that was moved or deleted is made anew.
\* open() resets a stream that was bad; where it fails the stream is closed.
Check(ok) ==
  LET f == writer.file
      reopen == ~ exists[f]
  IN  /\ At("check")
      /\ ~ ok => reopen
      /\ Fault(~ ok)
      /\ stream' = IF reopen THEN [stream EXCEPT ![f] = IF ok THEN "open" ELSE "closed"] ELSE stream
      /\ exists' = [exists EXCEPT ![f] = ok]
      /\ writer' = IF f = "log" THEN [writer EXCEPT !.file = "wf"]
                   ELSE [at |-> "lock", file |-> "log"]
      /\ UNCHANGED <<main, logging, ss, out, lost>>

\* The mutex is taken ...
WriterLock ==
  /\ At("lock") /\ mtx[writer.file] = Nil
  /\ mtx' = [mtx EXCEPT ![writer.file] = Writer]
  /\ writer' = [writer EXCEPT !.at = "drain"]
  /\ UNCHANGED <<main, call, on, queue, logged, ss, files>>

\* ... the whole queue goes to ss, and it is released.
Drain ==
  LET f == writer.file IN
  /\ At("drain")
  /\ ss' = ss \o queue[f]
  /\ queue' = [queue EXCEPT ![f] = << >>]
  /\ mtx' = [mtx EXCEPT ![f] = Nil]
  /\ writer' = [writer EXCEPT !.at = "write"]
  /\ UNCHANGED <<main, call, on, logged, files>>

\* Mutant: the warnings are left for a round that never comes.
AfterWriteLogOnly(f) == [at |-> "check", file |-> "log"]

\* After the first file the second, after the second the sleep and a new round
AfterWrite(f) ==
  IF f = "log" THEN [at |-> "lock", file |-> "wf"] ELSE [at |-> "check", file |-> "log"]

\* Mutant: ss is not cleared.
ClearNothing(s) == s

\* ss.str("")
Clear(s) == << >>

\* What there is is written and flushed.  A disk that is full takes the first
\* n lines; the stream is bad from then on, and takes nothing.
WriteOut(n) ==
  LET f == writer.file IN
  /\ At("write")
  /\ IF ss # << >> /\ stream[f] = "open"
     THEN /\ n \in 0..Len(ss) /\ Fault(n < Len(ss))
          /\ stream' = IF n < Len(ss) THEN [stream EXCEPT ![f] = "bad"] ELSE stream
     ELSE n = 0 /\ UNCHANGED <<faults, stream>>
  /\ out' = [out EXCEPT ![f] = @ \o ss]
  /\ lost' = lost \cup {ss[i] : i \in (n + 1)..Len(ss)}
  /\ ss' = Clear(ss)
  /\ writer' = AfterWrite(f)
  /\ UNCHANGED <<main, logging, exists>>

-----------------------------------------------------------------------------
(* Other programs *)

\* A file is moved or deleted.
Remove(f) ==
  /\ Alive /\ exists[f] /\ Fault(TRUE)
  /\ exists' = [exists EXCEPT ![f] = FALSE]
  /\ UNCHANGED <<main, logging, writer, ss, stream, out, lost>>

WriterStep ==
  \/ \E ok \in BOOLEAN : Check(ok)
  \/ WriterLock \/ Drain
  \/ \E n \in 0..MaxLine : WriteOut(n)

CallStep(c) == Lock(c) \/ Push(c)

Next ==
  \/ \E opened \in {{}, {"log"}, File} : InitLog(opened)
  \/ Start \/ Exit
  \/ \E t \in Thread, f \in File : Log(t, f)
  \/ \E t \in Thread \cup {Writer} : Signal(t)
  \/ \E c \in Caller : CallStep(c)
  \/ WriterStep
  \/ \E f \in File : Remove(f)

\* Threads that can run do, and a mutex that is released again and again is
\* had in the end.
Fairness ==
  /\ WF_vars(Start)
  /\ SF_vars(WriterStep)
  /\ \A c \in Caller : SF_vars(CallStep(c))

Spec == Init /\ [][Next]_vars /\ Fairness

-----------------------------------------------------------------------------
(* Properties *)

\* The type invariant
TypeOK ==
  /\ main \in {"init", "start", "start failed", "running", "exit", "exited"}
  /\ call \in [Caller -> [at : {"idle", "lock", "push", "done"}, file : File \cup {Nil}, line : Nat]]
  /\ \A c \in Caller : call[c].at \in {"lock", "push"} => call[c].file \in File
  /\ queue \in [File -> Seq(Nat)] /\ logged \in [File -> Seq(Nat)] /\ out \in [File -> Seq(Nat)]
  /\ ss \in Seq(Nat)
  /\ writer \in [at : {"none", "check", "lock", "drain", "write"}, file : File]
  /\ stream \in [File -> {"open", "bad", "closed"}]
  /\ faults \in Nat

InBuffer(f) == IF writer.at = "write" /\ writer.file = f THEN ss ELSE << >>

\* Every line that was logged is, once and in the order of logging, in the
\* file that its severity names, in ss, or in the queue, whatever the writer
\* is doing; and a line is dropped only after open() or a write failed.
LinesAccounted ==
  /\ \A f \in File : logged[f] = out[f] \o InBuffer(f) \o queue[f]
  /\ faults = 0 => lost = {}

\* The handler waits for a mutex that the thread under it holds.
Interrupted == call[Handler].at = "lock" /\ on # Nil /\ mtx["log"] = on

\* A line that a thread has begun to log is given to its file: the threads
\* and the writer do not hold each other up for ever, and a later round of
\* the writer comes by, unless the process ends or process_signal logs on top
\* of a thread that holds the mutex it needs.
LineReachesFile ==
  \A f \in File : \A l \in 1..MaxLine :
    (\E c \in Caller : call[c].file = f /\ call[c].line = l) ~>
      (\E i \in DOMAIN out[f] : out[f][i] = l) \/ main = "exited" \/ Interrupted

============================================================================
