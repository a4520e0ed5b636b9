-------------------------- MODULE LogPipelineProofs --------------------------
(***************************************************************************)
(* That no line is lost, doubled, reordered or put into the wrong file by  *)
(* GrtcLog, for any number of threads, lines and faults.                   *)
(***************************************************************************)
EXTENDS LogPipeline, FiniteSetTheorems, SequenceTheorems, TLAPS

\* Each line is in one place: the first part of LinesAccounted.
InOnePlace == \A f \in File : logged[f] = out[f] \o InBuffer(f) \o queue[f]

\* ss has lines only between draining a queue and writing.
BufferInUse == writer.at # "write" => ss = << >>

\* As long as nothing has gone wrong the files are open once init_log has
\* run, and nothing was dropped.
Faultless ==
  faults = 0 =>
    /\ lost = {}
    /\ main = "init" \/ \A f \in File : stream[f] = "open"

\* The writer does not run before start().
NotStarted == main \in {"init", "start", "start failed"} => writer.at = "none"

LogInv == TypeOK /\ InOnePlace /\ BufferInUse /\ Faultless /\ NotStarted

-----------------------------------------------------------------------------

\* The number of lines of the bound MaxLine is a number.
LEMMA LinesNat == TypeOK => Lines \in Nat
<1> SUFFICES ASSUME TypeOK PROVE Lines \in Nat
  OBVIOUS
<1> DEFINE busy == {c \in Caller : call[c].at \in {"lock", "push"}}
<1>1. IsFiniteSet(Caller)
  BY LogAssumption, FS_AddElement DEF Caller
<1>2. Cardinality(busy) \in Nat
  <2>1. busy \in SUBSET Caller
    OBVIOUS
  <2>2. IsFiniteSet(busy)
    BY <1>1, <2>1, FS_Subset
  <2> QED BY <2>2, FS_CardinalityType
<1>3. Len(logged["log"]) \in Nat /\ Len(logged["wf"]) \in Nat
  <2>1. logged["log"] \in Seq(Nat) /\ logged["wf"] \in Seq(Nat)
    BY DEF TypeOK, File
  <2> QED BY <2>1, LenProperties
<1>4. Lines = Len(logged["log"]) + Len(logged["wf"]) + Cardinality(busy)
  BY DEF Lines
<1>5. \A i, j, k \in Nat : i + j + k \in Nat
  OBVIOUS
<1> HIDE DEF busy
<1> QED BY <1>2, <1>3, <1>4, <1>5

\* A fault is counted, so that none has happened while the count is 0.
LEMMA FaultFacts ==
  ASSUME NEW happens \in BOOLEAN, faults \in Nat, Fault(happens)
  PROVE  /\ faults' \in Nat
         /\ faults' = 0 => faults = 0 /\ ~ happens
<1>1. CASE happens
  <2>1. faults' = faults + 1
    BY <1>1 DEF Fault
  <2> QED BY <2>1
<1>2. CASE ~ happens
  <2>1. faults' = faults
    BY <1>2 DEF Fault
  <2> QED BY <1>2, <2>1
<1> QED BY <1>1, <1>2

\* The count of faults is a number.
LEMMA FaultsNat == LogInv => faults \in Nat
  BY DEF LogInv, TypeOK

\* Taking a queue into an empty buffer
LEMMA DrainSeq ==
  ASSUME NEW o \in Seq(Nat), NEW q \in Seq(Nat)
  PROVE  o \o << >> \o q = o \o (<< >> \o q) \o << >>
<1>1. << >> \o q = q /\ o \o << >> = o
  BY ConcatEmptySeq
<1>2. o \o q \in Seq(Nat)
  BY ConcatProperties
<1> QED BY <1>1, <1>2, ConcatEmptySeq

\* Appending to what is waiting appends to the whole
LEMMA PushSeq ==
  ASSUME NEW s \in Seq(Nat), NEW q \in Seq(Nat), NEW l \in Nat
  PROVE  Append(s \o q, l) = s \o Append(q, l)
<1>1. s \o q \in Seq(Nat)
  BY ConcatProperties
<1>2. <<l>> \in Seq(Nat)
  OBVIOUS
<1>3. Append(s \o q, l) = (s \o q) \o <<l>> /\ Append(q, l) = q \o <<l>>
  BY <1>1, AppendIsConcat
<1> QED BY SMTT(90), <1>2, <1>3, ConcatAssociative

\* The initial state satisfies the invariant: nothing is logged, and no file is open.
LEMMA InitInv == Init => LogInv
<1> SUFFICES ASSUME Init PROVE LogInv
  OBVIOUS
<1>1. TypeOK
  BY DEF Init, TypeOK, Idle, File
<1>2. InOnePlace
  BY DEF Init, InOnePlace, InBuffer, File
<1>3. BufferInUse /\ Faultless /\ NotStarted
  BY DEF Init, BufferInUse, Faultless, NotStarted
<1> QED BY <1>1, <1>2, <1>3 DEF LogInv

-----------------------------------------------------------------------------
(* The actions, one lemma each *)

\* A step of the world outside leaves the invariant alone.
LEMMA StutterInv == LogInv /\ UNCHANGED vars => LogInv'
<1> SUFFICES ASSUME LogInv, UNCHANGED vars PROVE LogInv'
  OBVIOUS
<1> QED
  BY DEF LogInv, TypeOK, InOnePlace, InBuffer, BufferInUse, Faultless, NotStarted, vars

\* init_log: if no open() fails, both files are open.
LEMMA InitLogInv ==
  ASSUME NEW opened \in {{}, {"log"}, File}, LogInv, InitLog(opened)
  PROVE  LogInv'
<1>0. faults' \in Nat /\ (faults' = 0 => faults = 0 /\ opened = File)
  <2>1. Fault(opened # File) /\ (opened # File) \in BOOLEAN
    BY DEF InitLog
  <2> QED BY <2>1, FaultFacts, FaultsNat
<1> USE DEF LogInv, logging
<1>1. TypeOK'
  <2>1. /\ UNCHANGED <<call, queue, logged, out, ss, writer>>
        /\ main' \in {"start", "start failed"}
        /\ stream' \in [File -> {"open", "bad", "closed"}]
    BY DEF InitLog
  <2> QED BY <1>0, <2>1 DEF TypeOK
<1>2. InOnePlace' /\ BufferInUse' /\ NotStarted'
  BY DEF InitLog, InOnePlace, InBuffer, BufferInUse, NotStarted
<1>3. Faultless'
  <2>2. lost' = lost /\ stream' = [f \in File |-> IF f \in opened THEN "open" ELSE "closed"]
    BY DEF InitLog
  <2> QED BY <1>0, <2>2 DEF Faultless
<1> QED BY <1>1, <1>2, <1>3

\* start() starts the writer, and main() returns.
LEMMA MainInv == LogInv /\ (Start \/ Exit) => LogInv'
<1> SUFFICES ASSUME LogInv, Start \/ Exit PROVE LogInv'
  OBVIOUS
<1> USE DEF LogInv, logging, files
<1>1. CASE Start
  <2>1. TypeOK'
    BY <1>1 DEF TypeOK, Start
  <2>2. BufferInUse' /\ Faultless' /\ NotStarted'
    BY <1>1 DEF Start, BufferInUse, Faultless, NotStarted, TypeOK
  <2>3. InOnePlace'
    BY <1>1, <2>2 DEF Start, InOnePlace, InBuffer, NotStarted, TypeOK
  <2> QED BY <2>1, <2>2, <2>3
<1>2. CASE Exit
  BY <1>2 DEF Exit, TypeOK, InOnePlace, InBuffer, BufferInUse, Faultless, NotStarted
<1> QED BY <1>1, <1>2

\* A new call of OnLogMessage, in a thread or in the handler, moves no line.
LEMMA NewCallInv ==
  ASSUME LogInv,
         (\E t \in Thread, f \in File : Log(t, f)) \/ (\E t \in Thread \cup {Writer} : Signal(t))
  PROVE  LogInv'
<1> USE DEF LogInv, files
<1>1. PICK c \in Caller, f \in File : call' = [call EXCEPT ![c] = NewCall(f)]
  BY DEF Log, Signal, Caller, File
<1>2. UNCHANGED <<main, queue, logged, writer, ss, stream, faults, out, lost>>
  BY DEF Log, Signal
<1>3. NewCall(f) \in [at : {"idle", "lock", "push", "done"}, file : File \cup {Nil}, line : Nat]
  BY LinesNat DEF NewCall
<1>4. TypeOK'
  <2>1. \A d \in Caller : call'[d] = IF d = c THEN NewCall(f) ELSE call[d]
    BY <1>1 DEF TypeOK
  <2>2. call' \in [Caller -> [at : {"idle", "lock", "push", "done"}, file : File \cup {Nil}, line : Nat]]
    BY <1>1, <1>3 DEF TypeOK
  <2>3. \A d \in Caller : call'[d].at \in {"lock", "push"} => call'[d].file \in File
    <3>1. NewCall(f).file = f
      BY DEF NewCall
    <3>2. \A d \in Caller : call[d].at \in {"lock", "push"} => call[d].file \in File
      BY DEF TypeOK
    <3> QED BY <2>1, <3>1, <3>2
  <2> QED BY <1>2, <2>2, <2>3 DEF TypeOK
<1>5. InOnePlace' /\ BufferInUse' /\ Faultless' /\ NotStarted'
  BY <1>2 DEF InOnePlace, InBuffer, BufferInUse, Faultless, NotStarted
<1> QED BY <1>4, <1>5

\* Taking the mutex in OnLogMessage moves no line.
LEMMA LockInv ==
  ASSUME NEW c \in Caller, LogInv, Lock(c)
  PROVE  LogInv'
<1> USE DEF LogInv, files
<1>1. TypeOK'
  BY ZenonT(120) DEF Lock, TypeOK
<1>2. InOnePlace' /\ BufferInUse' /\ Faultless' /\ NotStarted'
  BY DEF Lock, InOnePlace, InBuffer, BufferInUse, Faultless, NotStarted
<1> QED BY <1>1, <1>2

\* OnLogMessage puts its line behind those that wait for the same file.
LEMMA PushInv ==
  ASSUME NEW c \in Caller, LogInv, Push(c)
  PROVE  LogInv'
<1> USE DEF LogInv, files
<1> DEFINE f == call[c].file
           l == call[c].line
<1>1. f \in File /\ l \in Nat
  BY DEF Push, TypeOK
<1>2. /\ queue' = [queue EXCEPT ![f] = Append(@, l)]
      /\ logged' = [logged EXCEPT ![f] = Append(@, l)]
      /\ UNCHANGED <<main, writer, ss, stream, faults, out, lost>>
  BY DEF Push
<1>3. TypeOK'
  <2>1. call' \in [Caller -> [at : {"idle", "lock", "push", "done"}, file : File \cup {Nil}, line : Nat]]
    BY DEF Push, TypeOK, Idle
  <2>2. \A d \in Caller : call'[d].at \in {"lock", "push"} => call'[d].file \in File
    BY DEF Push, TypeOK, Idle
  <2>3. queue' \in [File -> Seq(Nat)] /\ logged' \in [File -> Seq(Nat)]
    <3>1. queue \in [File -> Seq(Nat)] /\ logged \in [File -> Seq(Nat)]
      BY DEF TypeOK
    <3>2. Append(queue[f], l) \in Seq(Nat) /\ Append(logged[f], l) \in Seq(Nat)
      <4>1. queue[f] \in Seq(Nat) /\ logged[f] \in Seq(Nat)
        BY <1>1, <3>1
      <4> HIDE DEF f, l
      <4> QED BY <1>1, <4>1, AppendProperties
    <3> HIDE DEF f, l
    <3> QED BY <1>2, <3>1, <3>2
  <2> QED BY <1>2, <2>1, <2>2, <2>3 DEF TypeOK
<1>4. InOnePlace'
  <2> SUFFICES ASSUME NEW g \in File
               PROVE  logged'[g] = out'[g] \o InBuffer(g)' \o queue'[g]
    BY DEF InOnePlace
  <2> DEFINE s == out[g] \o InBuffer(g)
  <2>1. out'[g] \o InBuffer(g)' = s /\ logged[g] = s \o queue[g]
    BY <1>2 DEF InOnePlace, InBuffer
  <2>2. s \in Seq(Nat) /\ queue[g] \in Seq(Nat)
    <3>1. InBuffer(g) \in Seq(Nat) /\ out[g] \in Seq(Nat) /\ queue[g] \in Seq(Nat)
      <4>1. ss \in Seq(Nat)
        BY DEF TypeOK
      <4>5. << >> \in Seq(Nat)
        OBVIOUS
      <4>3. out \in [File -> Seq(Nat)] /\ queue \in [File -> Seq(Nat)]
        BY DEF TypeOK
      <4>4. out[g] \in Seq(Nat) /\ queue[g] \in Seq(Nat)
        BY <4>3
      <4>2. InBuffer(g) = ss \/ InBuffer(g) = << >>
        BY DEF InBuffer
      <4> QED BY <4>1, <4>2, <4>4, <4>5
    <3> QED BY <3>1, ConcatProperties
  <2>3. CASE g = f
    <3>1. logged'[g] = Append(logged[g], l) /\ queue'[g] = Append(queue[g], l)
      BY <1>1, <1>2, <2>3 DEF TypeOK
    <3> HIDE DEF s, l
    <3> QED BY ZenonT(120), <1>1, <2>1, <2>2, <3>1, PushSeq
  <2>4. CASE g # f
    <3>1. logged'[g] = logged[g] /\ queue'[g] = queue[g]
      BY <1>2, <2>4 DEF TypeOK
    <3> QED BY <2>1, <3>1
  <2> QED BY <2>3, <2>4
<1>5. BufferInUse' /\ Faultless' /\ NotStarted'
  BY <1>2 DEF BufferInUse, Faultless, NotStarted
<1> QED BY <1>3, <1>4, <1>5

\* The writer runs only after init_log.
LEMMA WriterStarted == ASSUME NEW at, At(at) PROVE main # "init" /\ writer.at = at
  BY DEF At, Runs, Alive

\* The check of a file moves no line, and closes it only where open() failed.
LEMMA CheckInv ==
  ASSUME NEW ok \in BOOLEAN, LogInv, Check(ok)
  PROVE  LogInv'
<1>0. faults' \in Nat /\ (faults' = 0 => faults = 0 /\ ok)
  <2>1. Fault(~ ok) /\ (~ ok) \in BOOLEAN
    BY DEF Check
  <2> QED BY <2>1, FaultFacts, FaultsNat
<1> USE DEF LogInv, logging
<1>1. writer.at = "check" /\ writer.file \in File /\ main # "init"
  BY WriterStarted DEF Check, TypeOK
<1>2. writer'.at \in {"check", "lock"} /\ writer' \in [at : {"check", "lock"}, file : File]
  BY <1>1 DEF Check, TypeOK, File
<1>3. TypeOK'
  <2>1. UNCHANGED <<main, call, queue, logged, out, ss>>
    BY DEF Check
  <2>2. stream' \in [File -> {"open", "bad", "closed"}]
    <3>1. stream \in [File -> {"open", "bad", "closed"}]
      BY DEF TypeOK
    <3>2. \/ stream' = stream
          \/ \E x \in {"open", "closed"} : stream' = [stream EXCEPT ![writer.file] = x]
      BY DEF Check
    <3> QED BY <3>1, <3>2
  <2>3. writer' \in [at : {"none", "check", "lock", "drain", "write"}, file : File]
    BY <1>2
  <2> QED BY <1>0, <2>1, <2>2, <2>3 DEF TypeOK
<1>4. InOnePlace' /\ BufferInUse'
  BY <1>1, <1>2 DEF Check, InOnePlace, InBuffer, BufferInUse
<1>5. Faultless'
  <2>2. ok => \A f \in File : stream'[f] = stream[f] \/ stream'[f] = "open"
    BY DEF Check, TypeOK
  <2>3. lost' = lost /\ main' = main
    BY DEF Check
  <2> QED BY <1>0, <1>1, <2>2, <2>3 DEF Faultless
<1>6. NotStarted'
  BY <1>1 DEF Check, NotStarted
<1> QED BY <1>3, <1>4, <1>5, <1>6

\* Taking the mutex in the writer moves no line.
LEMMA WriterLockInv == LogInv /\ WriterLock => LogInv'
<1> SUFFICES ASSUME LogInv, WriterLock PROVE LogInv'
  OBVIOUS
<1> USE DEF LogInv, files
<1>1. writer.at = "lock"
  BY WriterStarted DEF WriterLock
<1>2. TypeOK'
  BY DEF WriterLock, TypeOK
<1>3. InOnePlace' /\ BufferInUse' /\ Faultless' /\ NotStarted'
  BY <1>1 DEF WriterLock, InOnePlace, InBuffer, BufferInUse, Faultless, NotStarted, TypeOK
<1> QED BY <1>2, <1>3

\* The queue goes as it is into an empty buffer.
LEMMA DrainInv == LogInv /\ Drain => LogInv'
<1> SUFFICES ASSUME LogInv, Drain PROVE LogInv'
  OBVIOUS
<1> USE DEF LogInv, files
<1> DEFINE f == writer.file
<1>1. writer.at = "drain" /\ ss = << >> /\ f \in File
  <2>1. At("drain")
    BY DEF Drain
  <2>2. writer.at = "drain"
    BY <2>1, WriterStarted
  <2>3. ss = << >>
    BY <2>2 DEF BufferInUse
  <2>4. f \in File
    BY DEF TypeOK
  <2> QED BY <2>2, <2>3, <2>4
<1>2. /\ ss' = << >> \o queue[f]
      /\ queue' = [queue EXCEPT ![f] = << >>]
      /\ writer' = [writer EXCEPT !.at = "write"]
      /\ UNCHANGED <<main, call, logged, stream, faults, out, lost>>
  BY <1>1 DEF Drain
<1>3. TypeOK'
  <2>1. << >> \in Seq(Nat) /\ queue[f] \in Seq(Nat)
    BY <1>1 DEF TypeOK
  <2>2. ss' \in Seq(Nat)
    BY <1>2, <2>1, ConcatProperties
  <2> QED BY <1>2, <2>1, <2>2 DEF TypeOK
<1>4. InOnePlace'
  <2> SUFFICES ASSUME NEW g \in File
               PROVE  logged'[g] = out'[g] \o InBuffer(g)' \o queue'[g]
    BY DEF InOnePlace
  <2>1. logged[g] = out[g] \o << >> \o queue[g]
    BY <1>1 DEF InOnePlace, InBuffer
  <2>2. writer'.at = "write" /\ writer'.file = f
    BY <1>2 DEF TypeOK
  <2>3. CASE g = f
    <3>1. InBuffer(g)' = << >> \o queue[g] /\ queue'[g] = << >>
      BY <1>1, <1>2, <2>2, <2>3 DEF InBuffer, TypeOK
    <3>2. out[g] \in Seq(Nat) /\ queue[g] \in Seq(Nat)
      BY DEF TypeOK
    <3> QED BY <1>2, <2>1, <3>1, <3>2, DrainSeq
  <2>4. CASE g # f
    <3>1. InBuffer(g)' = << >> /\ queue'[g] = queue[g]
      BY <1>2, <2>2, <2>4 DEF InBuffer, TypeOK
    <3> QED BY <1>2, <2>1, <3>1
  <2> QED BY <2>3, <2>4
<1>5. BufferInUse' /\ Faultless' /\ NotStarted'
  BY <1>1, <1>2 DEF BufferInUse, Faultless, NotStarted, TypeOK
<1> QED BY <1>3, <1>4, <1>5

\* The buffer goes behind what its file has; only a failed write drops lines.
LEMMA WriteOutInv ==
  ASSUME NEW n \in 0..MaxLine, LogInv, WriteOut(n)
  PROVE  LogInv'
<1> USE DEF LogInv, logging
<1> DEFINE f == writer.file
<1>1. writer.at = "write" /\ f \in File /\ main # "init"
  BY WriterStarted DEF WriteOut, TypeOK
<1>2. /\ out' = [out EXCEPT ![f] = @ \o ss] /\ ss' = << >>
      /\ lost' = lost \cup {ss[i] : i \in (n + 1)..Len(ss)}
      /\ UNCHANGED <<main, call, logged, queue>>
  BY DEF WriteOut, Clear
<1>3. writer' \in [at : {"check", "lock"}, file : File]
  BY <1>1 DEF WriteOut, AfterWrite, File
<1>4. faults' \in Nat /\ stream' \in [File -> {"open", "bad", "closed"}]
  <2>0. faults \in Nat /\ stream \in [File -> {"open", "bad", "closed"}]
    BY DEF TypeOK
  <2>1. CASE ss # << >> /\ stream[f] = "open"
    <3>1. Fault(n < Len(ss)) /\ (n < Len(ss)) \in BOOLEAN
      BY <2>1 DEF WriteOut
    <3>2. stream' = stream \/ stream' = [stream EXCEPT ![f] = "bad"]
      BY <2>1 DEF WriteOut
    <3> QED BY <2>0, <3>1, <3>2, FaultFacts
  <2>2. CASE ~ (ss # << >> /\ stream[f] = "open")
    <3>1. UNCHANGED <<faults, stream>>
      BY <2>2 DEF WriteOut
    <3> QED BY <2>0, <3>1
  <2> QED BY <2>1, <2>2
<1>5. TypeOK'
  <2>1. ss \in Seq(Nat) /\ out[f] \in Seq(Nat)
    BY <1>1 DEF TypeOK
  <2>2. out[f] \o ss \in Seq(Nat)
    BY <2>1, ConcatProperties
  <2>3. out' \in [File -> Seq(Nat)]
    BY <1>2, <2>2 DEF TypeOK
  <2>4. writer' \in [at : {"none", "check", "lock", "drain", "write"}, file : File]
    BY <1>3
  <2>5. ss' \in Seq(Nat)
    BY <1>2
  <2> QED BY <1>2, <1>4, <2>3, <2>4, <2>5 DEF TypeOK
<1>6. InOnePlace'
  <2> SUFFICES ASSUME NEW g \in File
               PROVE  logged'[g] = out'[g] \o InBuffer(g)' \o queue'[g]
    BY DEF InOnePlace
  <2>1. InBuffer(g)' = << >>
    BY <1>2, <1>3 DEF InBuffer
  <2>2. out'[g] \in Seq(Nat)
    BY ZenonT(120), <1>5 DEF TypeOK
  <2>3. out'[g] \o InBuffer(g)' = out'[g]
    BY <2>1, <2>2, ConcatEmptySeq
  <2>4. CASE g = f
    <3>1. out'[g] = out[g] \o ss /\ logged[g] = out[g] \o ss \o queue[g]
      BY <1>1, <1>2, <2>4 DEF InOnePlace, InBuffer, TypeOK
    <3> QED BY <1>2, <2>3, <3>1
  <2>5. CASE g # f
    <3>1. out'[g] = out[g] /\ logged[g] = out[g] \o << >> \o queue[g]
      BY <1>2, <2>5 DEF InOnePlace, InBuffer, TypeOK
    <3>2. out[g] \o << >> = out[g]
      BY <2>2, <3>1, ConcatEmptySeq
    <3> QED BY <1>2, <2>3, <3>1, <3>2
  <2> QED BY <2>4, <2>5
<1>7. Faultless'
  <2> SUFFICES ASSUME faults' = 0
               PROVE  lost' = {} /\ \A g \in File : stream'[g] = "open"
    BY DEF Faultless
  <2>1. faults = 0
    <3>1. CASE ss # << >> /\ stream[f] = "open"
      <4>1. Fault(n < Len(ss)) /\ (n < Len(ss)) \in BOOLEAN
        BY <3>1 DEF WriteOut
      <4> QED BY <4>1, FaultFacts, FaultsNat
    <3>2. CASE ~ (ss # << >> /\ stream[f] = "open")
      BY <3>2 DEF WriteOut
    <3> QED BY <3>1, <3>2
  <2>2. lost = {} /\ \A g \in File : stream[g] = "open"
    BY <1>1, <2>1 DEF Faultless
  <2>3. CASE ss = << >>
    <3>1. n = 0 /\ stream' = stream
      BY <2>3 DEF WriteOut
    <3>2. (n + 1)..Len(ss) = {}
      BY <2>3, <3>1
    <3> QED BY <1>2, <2>2, <3>1, <3>2
  <2>4. CASE ss # << >>
    <3>1. Len(ss) \in Nat
      BY LenProperties DEF TypeOK
    <3>2. n \in 0..Len(ss) /\ Fault(n < Len(ss))
          /\ stream' = IF n < Len(ss) THEN [stream EXCEPT ![f] = "bad"] ELSE stream
      BY <1>1, <2>2, <2>4 DEF WriteOut
    <3>3. ~ (n < Len(ss))
      BY <2>1, <3>2 DEF Fault
    <3>4. (n + 1)..Len(ss) = {}
      BY <3>1, <3>2, <3>3
    <3> QED BY <1>2, <2>2, <3>2, <3>3, <3>4
  <2> QED BY <2>3, <2>4
<1>8. BufferInUse' /\ NotStarted'
  BY <1>1, <1>2 DEF BufferInUse, NotStarted
<1> QED BY <1>5, <1>6, <1>7, <1>8

\* Another program that removes a file is a fault.
LEMMA RemoveInv ==
  ASSUME NEW f \in File, LogInv, Remove(f)
  PROVE  LogInv'
<1>0. faults' \in Nat /\ faults' # 0
  <2>1. Fault(TRUE) /\ TRUE \in BOOLEAN
    BY DEF Remove
  <2> QED BY <2>1, FaultFacts, FaultsNat
<1> USE DEF LogInv, logging
<1>1. TypeOK'
  <2>1. UNCHANGED <<main, call, queue, logged, out, ss, writer, stream>>
    BY DEF Remove
  <2> QED BY <1>0, <2>1 DEF TypeOK
<1>2. InOnePlace' /\ BufferInUse' /\ NotStarted'
  BY DEF Remove, InOnePlace, InBuffer, BufferInUse, NotStarted
<1>3. Faultless'
  BY <1>0 DEF Faultless
<1> QED BY <1>1, <1>2, <1>3

-----------------------------------------------------------------------------

\* Every step keeps the invariant.
LEMMA NextInv == LogInv /\ [Next]_vars => LogInv'
<1> SUFFICES ASSUME LogInv, [Next]_vars PROVE LogInv'
  OBVIOUS
<1>1. CASE \E opened \in {{}, {"log"}, File} : InitLog(opened)
  BY <1>1, InitLogInv
<1>2. CASE Start \/ Exit
  BY <1>2, MainInv
<1>3. CASE (\E t \in Thread, f \in File : Log(t, f)) \/ (\E t \in Thread \cup {Writer} : Signal(t))
  BY <1>3, NewCallInv
<1>4. CASE \E c \in Caller : CallStep(c)
  BY <1>4, LockInv, PushInv DEF CallStep
<1>5. CASE WriterStep
  BY <1>5, CheckInv, WriterLockInv, DrainInv, WriteOutInv DEF WriterStep
<1>6. CASE \E f \in File : Remove(f)
  BY <1>6, RemoveInv
<1>7. CASE UNCHANGED vars
  BY <1>7, StutterInv
<1> QED BY <1>1, <1>2, <1>3, <1>4, <1>5, <1>6, <1>7 DEF Next

\* The variables of the log keep their types.
THEOREM LogTypes == Spec => []TypeOK
<1>1. LogInv => TypeOK
  BY DEF LogInv
<1> QED BY <1>1, InitInv, NextInv, PTL DEF Spec

\* Whatever threads, signals, the writer, the disk and other programs do:
\* each line that OnLogMessage queued is, once and in order, in the file for
\* its severity, in the writer's buffer or in the queue, and none is dropped
\* by a stream unless open() or a write failed.
THEOREM NoLineLost == Spec => []LinesAccounted
<1>1. LogInv => LinesAccounted
  BY DEF LogInv, InOnePlace, Faultless, LinesAccounted
<1> QED BY <1>1, InitInv, NextInv, PTL DEF Spec
=============================================================================
