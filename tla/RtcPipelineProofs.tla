------------------------- MODULE RtcPipelineProofs -------------------------
(***************************************************************************)
(* For any number of workers, streams, connections and any pipe capacity:  *)
(* the four queues of server/ stay in step with their pipes, so a thread   *)
(* that is woken finds its message, and the circular wait of the blocking  *)
(* pipes needs the backlog CircularWaitNeedsBacklog names.                 *)
(*                                                                         *)
(* TokensMatchMessages is inductive together with TypeOK and InHand: the   *)
(* senders that are between put and notify must hold the message they put. *)
(*                                                                         *)
(* The messages of a stream keep their order, and each is in one place:    *)
(* OrderInv says that the queues are sorted by the position in which the   *)
(* messages were sent, which tells copies in different queues apart;       *)
(* PlaceInv that a connection has one message, and none before it sends;   *)
(* AccountInv that no request is lost and none finishes twice.             *)
(***************************************************************************)
EXTENDS RtcPipeline, FiniteSetTheorems, TLAPS

PipelineInv == TypeOK /\ InHand /\ TokensMatchMessages

-----------------------------------------------------------------------------
(* Sums, stated on their own so that the provers see numbers only *)

LEMMA UnionSize ==
  ASSUME NEW l, NEW u, NEW i, NEW a \in Nat, NEW b \in Nat, u = l, i = 0, u = a + b - i
  PROVE  l = a + b
  OBVIOUS

LEMMA BacklogSum ==
  ASSUME NEW p \in Nat, NEW a \in Nat, NEW b \in Nat, NEW c \in Nat, NEW d \in Nat,
         a >= p + 1, b >= p + 1, c + d >= p + 1
  PROVE  a + b + c + d >= 3 * p + 3
  OBVIOUS

LEMMA PipeSum ==
  ASSUME NEW p \in Nat, NEW a \in Nat, NEW b \in Nat, NEW c \in Nat, NEW d \in Nat,
         p = a + b, c >= b + 1, d >= a
  PROVE  c + d >= p + 1
  OBVIOUS

-----------------------------------------------------------------------------
(* Counting *)

LEMMA WorkersFinite == IsFiniteSet(SW) /\ IsFiniteSet(RW)
  BY FS_Interval, WorkerAssumption DEF SW, RW

\* The indices of a sequence that carry a token are finitely many.
LEMMA CountFinite ==
  ASSUME NEW T, NEW p \in Seq(T), NEW u
  PROVE  IsFiniteSet({i \in 1..Len(p) : p[i] = u}) /\ Count(p, u) \in Nat
  <1>1. IsFiniteSet(1..Len(p))
    BY FS_Interval
  <1>2. IsFiniteSet({i \in 1..Len(p) : p[i] = u})
    BY <1>1, FS_Subset
  <1> QED
    BY <1>2, FS_CardinalityType DEF Count

\* Writing an int adds one occurrence of it ...
LEMMA CountAppend ==
  ASSUME NEW T, NEW p \in Seq(T), NEW t \in T, NEW u
  PROVE  Count(Append(p, t), u) = Count(p, u) + One(t = u)
  <1> DEFINE S == {i \in 1..Len(p) : p[i] = u}
             q == Append(p, t)
             Q == {i \in 1..Len(q) : q[i] = u}
             n == Len(p) + 1
  <1>1. IsFiniteSet(S)
    BY CountFinite
  <1>2. n \notin S
    OBVIOUS
  <1>3. CASE t = u
    <2>1. Q = S \cup {n}
      BY <1>3
    <2>2. Cardinality(Q) = Cardinality(S) + 1
      BY <2>1, <1>1, <1>2, FS_AddElement
    <2> QED
      BY <2>2, <1>3 DEF Count, One
  <1>4. CASE t # u
    <2>1. Q = S
      BY <1>4
    <2>2. Cardinality(S) \in Nat
      BY <1>1, FS_CardinalityType
    <2>3. One(t = u) = 0
      BY <1>4 DEF One
    <2>4. Count(q, u) = Cardinality(Q) /\ Count(p, u) = Cardinality(S)
      BY DEF Count
    <2> HIDE DEF Q, S, q
    <2>5. Count(q, u) = Count(p, u) + One(t = u)
      BY <2>1, <2>2, <2>3, <2>4
    <2> QED
      BY <2>5 DEF q
  <1> QED
    BY <1>3, <1>4

\* ... and reading the first one removes one occurrence of it.
LEMMA CountTail ==
  ASSUME NEW T, NEW p \in Seq(T), p # << >>, NEW u
  PROVE  Count(p, u) = Count(Tail(p), u) + One(Head(p) = u)
  <1> DEFINE q == Tail(p)
             S == {i \in 1..Len(q) : q[i] = u}
             Q == {i \in 2..Len(p) : p[i] = u}
             P == {i \in 1..Len(p) : p[i] = u}
             f == [i \in S |-> i + 1]
  <1>1. q \in Seq(T) /\ Len(q) = Len(p) - 1 /\ \A i \in 1..Len(q) : q[i] = p[i + 1]
    OBVIOUS
  <1>2. IsFiniteSet(S) /\ IsFiniteSet(P)
    BY <1>1, CountFinite
  <1>3. f \in Bijection(S, Q)
    <2>1. f \in [S -> Q]
      BY <1>1
    <2>2. \A i, j \in S : f[i] = f[j] => i = j
      OBVIOUS
    <2>3. \A k \in Q : \E i \in S : f[i] = k
      <3> TAKE k \in Q
      <3>1. k - 1 \in S /\ f[k - 1] = k
        BY <1>1
      <3> QED
        BY <3>1
    <2>4. DOMAIN f = S
      OBVIOUS
    <2> HIDE DEF f, S, Q
    <2>5. f \in Injection(S, Q)
      BY <2>1, <2>2, <2>4 DEF Injection, IsInjective
    <2>6. f \in Surjection(S, Q)
      BY <2>1, <2>3 DEF Surjection
    <2> QED
      BY <2>5, <2>6 DEF Bijection
  <1>4. Cardinality(Q) = Cardinality(S) /\ IsFiniteSet(Q)
    <2> HIDE DEF f, S, Q
    <2>1. ExistsBijection(S, Q)
      BY <1>3 DEF ExistsBijection
    <2> QED
      BY <2>1, <1>2, FS_Bijection
  <1>5. Cardinality(S) \in Nat
    BY <1>2, FS_CardinalityType
  <1>6. Count(p, u) = Cardinality(P) /\ Count(Tail(p), u) = Cardinality(S)
    BY DEF Count
  <1>7. CASE Head(p) = u
    <2>1. P = Q \cup {1} /\ 1 \notin Q
      BY <1>7
    <2>2. Cardinality(P) = Cardinality(Q) + 1
      BY <2>1, <1>4, FS_AddElement
    <2>3. One(Head(p) = u) = 1
      BY <1>7 DEF One
    <2> HIDE DEF P, Q, S
    <2> QED
      BY <2>2, <2>3, <1>4, <1>6
  <1>8. CASE Head(p) # u
    <2>1. P = Q
      BY <1>8
    <2>2. One(Head(p) = u) = 0
      BY <1>8 DEF One
    <2> HIDE DEF P, Q, S
    <2> QED
      BY <2>1, <2>2, <1>4, <1>5, <1>6
  <1> QED
    BY <1>7, <1>8

\* A set of workers that gains or loses one changes its size by one.
LEMMA CardinalityStep ==
  ASSUME NEW S, IsFiniteSet(S), NEW x
  PROVE  /\ Cardinality(S) \in Nat
         /\ x \notin S => Cardinality(S \cup {x}) = Cardinality(S) + 1
         /\ x \in S => Cardinality(S \ {x}) = Cardinality(S) - 1
  BY FS_AddElement, FS_RemoveElement, FS_CardinalityType

-----------------------------------------------------------------------------
(* Types *)

LEMMA GetWorkerType == ASSUME NEW s \in Stream PROVE GetWorker(s) \in RW
  <1>1. Crc32[s] \in Nat
    BY Crc32Assumption
  <1> QED
    BY <1>1, WorkerAssumption DEF GetWorker, RW

LEMMA MsgFields ==
  ASSUME NEW m \in Msg
  PROVE  /\ m.conn \in Conn /\ m.stream \in Stream /\ m.worker \in SW /\ m.seq \in Conn
         /\ m # None
  BY NoneAssumption DEF Msg

\* Putting a message in one of several queues.
LEMMA PutType ==
  ASSUME NEW D, NEW T, NEW f \in [D -> Seq(T)], NEW x \in D, NEW m \in T
  PROVE  [f EXCEPT ![x] = Append(@, m)] \in [D -> Seq(T)]
  <1>1. Append(f[x], m) \in Seq(T)
    OBVIOUS
  <1> QED
    BY <1>1

LEMMA AcceptType == ASSUME TypeOK, Accept PROVE TypeOK'
  <1>1. next_worker_index' \in SW
    BY WorkerAssumption DEF TypeOK, Accept, SW
  <1>2. accepted' \in 0..MaxConn /\ accepted + 1 \in Conn
    BY PipeAssumption DEF TypeOK, Accept, Conn
  <1>3. q_conn' \in [SW -> Seq(Conn)]
    BY <1>2 DEF TypeOK, Accept
  <1> QED
    BY <1>1, <1>2, <1>3 DEF TypeOK, Accept, srvVars, rwVars, history

LEMMA NotifyNewConnType == ASSUME TypeOK, NotifyNewConn PROVE TypeOK'
  <1>1. sw_pipe' \in [SW -> Seq({"NEW_CONN", "RTC_MSG"})]
    BY DEF TypeOK, NotifyNewConn
  <1> QED
    BY <1>1 DEF TypeOK, NotifyNewConn, srvVars, rwVars, history

LEMMA SwRecvNotifyType == ASSUME TypeOK, NEW w \in SW, SwRecvNotify(w) PROVE TypeOK'
  <1>1. sw_pipe[w] \in Seq({"NEW_CONN", "RTC_MSG"}) /\ sw_pipe[w] # << >>
    BY DEF TypeOK, SwRecvNotify
  <1>2. Head(sw_pipe[w]) \in {"NEW_CONN", "RTC_MSG"}
        /\ Tail(sw_pipe[w]) \in Seq({"NEW_CONN", "RTC_MSG"})
    BY <1>1
  <1>3. sw_pipe' \in [SW -> Seq({"NEW_CONN", "RTC_MSG"})]
    BY <1>2 DEF TypeOK, SwRecvNotify
  <1>4. sw_pc' \in [SW -> {"idle", "NEW_CONN", "RTC_MSG", "notify"}]
    BY <1>2 DEF TypeOK, SwRecvNotify
  <1> QED
    BY <1>3, <1>4 DEF TypeOK, SwRecvNotify, acceptor, srvVars, rwVars, history

LEMMA SwNewConnType == ASSUME TypeOK, NEW w \in SW, SwNewConn(w) PROVE TypeOK'
  <1>1. q_conn[w] \in Seq(Conn)
    BY DEF TypeOK
  <1>2. q_conn[w] # << >> => Head(q_conn[w]) \in Conn /\ Tail(q_conn[w]) \in Seq(Conn)
    BY <1>1
  <1>3. q_conn' \in [SW -> Seq(Conn)]
    BY <1>2 DEF TypeOK, SwNewConn
  <1>4. waiting' \in [SW -> SUBSET Conn]
    <2>1. CASE q_conn[w] = << >>
      BY <2>1 DEF TypeOK, SwNewConn
    <2>2. CASE q_conn[w] # << >>
      <3>1. waiting[w] \cup {Head(q_conn[w])} \in SUBSET Conn
        BY <1>2, <2>2 DEF TypeOK
      <3> QED
        BY ZenonT(120), <3>1, <2>2 DEF TypeOK, SwNewConn
    <2> QED
      BY <2>1, <2>2
  <1> QED
    BY <1>3, <1>4 DEF TypeOK, SwNewConn, acceptor, srvVars, rwVars, history

LEMMA SwProcessRtcMsgType == ASSUME TypeOK, NEW w \in SW, SwProcessRtcMsg(w) PROVE TypeOK'
  <1>1. sw_q[w] \in Seq(Msg)
    BY DEF TypeOK
  <1>2. sw_q[w] # << >> => Head(sw_q[w]) \in Msg /\ Tail(sw_q[w]) \in Seq(Msg)
    BY <1>1
  <1>3. sw_q[w] # << >> => Head(sw_q[w]).conn \in Conn
    BY <1>2, MsgFields
  <1>4. sw_q' \in [SW -> Seq(Msg)]
    BY <1>2 DEF TypeOK, SwProcessRtcMsg
  <1>5. replied' \subseteq Conn
    BY ZenonT(120), <1>3 DEF TypeOK, SwProcessRtcMsg
  <1> QED
    BY <1>4, <1>5 DEF TypeOK, SwProcessRtcMsg, acceptor, srvVars, rwVars

LEMMA SwSendRequestType ==
  ASSUME TypeOK, NEW w \in SW, NEW c \in Conn, NEW cmd \in Cmd, NEW s \in Stream,
         SwSendRequest(w, c, cmd, s)
  PROVE  TypeOK'
  <1> DEFINE msg == [conn |-> c, cmd |-> cmd, stream |-> s, worker |-> w, seq |-> sent + 1]
  <1>1. sent + 1 \in Conn /\ sent' \in 0..MaxConn
    BY PipeAssumption DEF TypeOK, SwSendRequest, Conn
  <1>2. msg \in Msg
    BY <1>1 DEF Msg
  <1>3. srv_q' = Append(srv_q, msg) /\ sw_msg' = [sw_msg EXCEPT ![w] = msg]
    BY DEF SwSendRequest
  <1> HIDE DEF msg
  <1>4. srv_q' \in Seq(Msg) /\ sw_msg' \in [SW -> Msg \cup {None}]
    BY <1>2, <1>3 DEF TypeOK
  <1>5. requests' \subseteq Msg
    <2>1. requests' = requests \cup {msg}
      BY DEF SwSendRequest, msg
    <2> QED
      BY <1>2, <2>1 DEF TypeOK
  <1> QED
    BY <1>1, <1>4, <1>5 DEF TypeOK, SwSendRequest, acceptor, rwVars

LEMMA SwNotifyServerType ==
  ASSUME TypeOK, InHand, NEW w \in SW, SwNotifyServer(w) PROVE TypeOK'
  <1>1. sw_msg[w] \in Msg
    BY DEF TypeOK, InHand, SwNotifyServer
  <1>2. replied' \subseteq Conn
    BY <1>1, MsgFields DEF TypeOK, SwNotifyServer
  <1>3. srv_pipe' \in 0..PipeCap
    BY PipeAssumption DEF TypeOK, SwNotifyServer
  <1> QED
    BY <1>2, <1>3 DEF TypeOK, SwNotifyServer, acceptor, rwVars

LEMMA SrvType ==
  ASSUME TypeOK, InHand, SrvRecvNotify \/ SrvNotifyWorker \/ CertificateExpires PROVE TypeOK'
  <1>1. CASE SrvRecvNotify
    <2>1. srv_pipe' \in 0..PipeCap
      BY <1>1, PipeAssumption DEF TypeOK, SrvRecvNotify
    <2> QED
      BY <1>1, <2>1 DEF TypeOK, SrvRecvNotify, acceptor, swVars, rwVars, history
  <1>2. CASE SrvNotifyWorker
    <2>1. srv_msg \in Msg
      BY <1>2 DEF TypeOK, InHand, SrvNotifyWorker
    <2>2. GetWorker(srv_msg.stream) \in RW
      BY <2>1, MsgFields, GetWorkerType
    <2>3. rw_pipe' \in [RW -> 0..PipeCap]
      BY SMTT(90), <1>2, <2>2, PipeAssumption DEF TypeOK, SrvNotifyWorker
    <2> QED
      BY <1>2, <2>3 DEF TypeOK, SrvNotifyWorker, acceptor, swVars, history
  <1>3. CASE CertificateExpires
    BY <1>3 DEF TypeOK, CertificateExpires, acceptor, swVars, rwVars, history
  <1> QED
    BY <1>1, <1>2, <1>3

\* What the RTC server takes from its queue.
LEMMA SrvTakes ==
  ASSUME TypeOK, srv_q # << >>
  PROVE  Head(srv_q) \in Msg /\ Tail(srv_q) \in Seq(Msg) /\ GetWorker(Head(srv_q).stream) \in RW
  <1>1. srv_q \in Seq(Msg)
    BY DEF TypeOK
  <1>2. Head(srv_q) \in Msg /\ Tail(srv_q) \in Seq(Msg)
    BY <1>1
  <1> QED
    BY <1>2, MsgFields, GetWorkerType

LEMMA SrvProcessRtcMsgType == ASSUME TypeOK, SrvProcessRtcMsg PROVE TypeOK'
  <1>1. CASE srv_q = << >>
    BY <1>1 DEF TypeOK, SrvProcessRtcMsg, acceptor, swVars
  <1>2. CASE srv_q # << >>
    <2> DEFINE msg == Head(srv_q)
    <2>1. msg \in Msg /\ Tail(srv_q) \in Seq(Msg) /\ GetWorker(msg.stream) \in RW
      BY <1>2, SrvTakes
    <2>2. certificate' \in {"valid", "expired", "none"}
      BY <1>2 DEF SrvProcessRtcMsg, CheckCertificate
    <2>a. \/ UNCHANGED <<rw_q, srv_msg>> /\ dropped' = dropped \cup {msg}
          \/ /\ rw_q' = [rw_q EXCEPT ![GetWorker(msg.stream)] = Append(@, msg)]
             /\ srv_msg' = msg /\ UNCHANGED dropped
      BY <1>2 DEF SrvProcessRtcMsg
    <2>3. rw_q' \in [RW -> Seq(Msg)] /\ srv_msg' \in Msg \cup {None} /\ dropped' \subseteq Msg
      <3> HIDE DEF msg
      <3>1. rw_q \in [RW -> Seq(Msg)] /\ srv_msg \in Msg \cup {None} /\ dropped \subseteq Msg
        BY DEF TypeOK
      <3>2. rw_q' \in [RW -> Seq(Msg)]
        <4>1. [rw_q EXCEPT ![GetWorker(msg.stream)] = Append(@, msg)] \in [RW -> Seq(Msg)]
          BY <2>1, <3>1, PutType
        <4> QED
          BY <4>1, <2>a, <3>1
      <3>3. srv_msg' \in Msg \cup {None}
        BY <2>1, <2>a, <3>1
      <3>4. dropped' \subseteq Msg
        BY <2>1, <2>a, <3>1
      <3> QED
        BY <3>2, <3>3, <3>4
    <2>4. srv_pc' \in {"idle", "process", "notify"} /\ srv_q' \in Seq(Msg)
      BY <1>2, <2>1 DEF SrvProcessRtcMsg
    <2> QED
      BY <2>2, <2>3, <2>4 DEF TypeOK, SrvProcessRtcMsg, acceptor, swVars
  <1> QED
    BY <1>1, <1>2

LEMMA RwRecvNotifyType == ASSUME TypeOK, NEW r \in RW, RwRecvNotify(r) PROVE TypeOK'
  <1>1. rw_pipe' \in [RW -> 0..PipeCap]
    BY SMTT(90), PipeAssumption DEF TypeOK, RwRecvNotify
  <1> QED
    BY <1>1 DEF TypeOK, RwRecvNotify, acceptor, swVars, srvVars, history

\* What an RTC worker takes from its queue.
LEMMA RwTakes ==
  ASSUME TypeOK, NEW r \in RW, rw_q[r] # << >>
  PROVE  Head(rw_q[r]) \in Msg /\ Tail(rw_q[r]) \in Seq(Msg)
  <1>1. rw_q[r] \in Seq(Msg)
    BY DEF TypeOK
  <1> QED
    BY <1>1

LEMMA RwProcessRtcMsgType == ASSUME TypeOK, NEW r \in RW, RwProcessRtcMsg(r) PROVE TypeOK'
  <1>1. CASE rw_q[r] = << >>
    BY <1>1 DEF TypeOK, RwProcessRtcMsg, acceptor, srvVars
  <1>2. CASE rw_q[r] # << >>
    <2> DEFINE msg == Head(rw_q[r])
    <2>1. msg \in Msg /\ Tail(rw_q[r]) \in Seq(Msg)
      BY <1>2, RwTakes
    <2>2. msg.stream \in Stream /\ msg.worker \in SW /\ msg.seq \in 0..MaxConn
      BY <2>1, MsgFields, PipeAssumption DEF Conn
    <2>3. rw_q' \in [RW -> Seq(Msg)] /\ handled' \in [Stream -> 0..MaxConn]
      BY <1>2, <2>1, <2>2 DEF TypeOK, RwProcessRtcMsg
    <2>a. \/ UNCHANGED <<push_streams, sw_q, rw_msg>>
          \/ /\ push_streams' = [push_streams EXCEPT ![r] = @ \cup {msg.stream}]
             /\ sw_q' = [sw_q EXCEPT ![msg.worker] = Append(@, msg)]
             /\ rw_msg' = [rw_msg EXCEPT ![r] = msg]
      BY <1>2 DEF RwProcessRtcMsg
    <2>4. sw_q' \in [SW -> Seq(Msg)]
      <3> HIDE DEF msg
      <3>1. sw_q \in [SW -> Seq(Msg)]
        BY DEF TypeOK
      <3>2. [sw_q EXCEPT ![msg.worker] = Append(@, msg)] \in [SW -> Seq(Msg)]
        BY <2>1, <2>2, <3>1, PutType
      <3> QED
        BY <3>1, <3>2, <2>a
    <2>5. push_streams' \in [RW -> SUBSET Stream]
      <3> HIDE DEF msg
      <3>1. push_streams[r] \cup {msg.stream} \in SUBSET Stream
        BY <2>2 DEF TypeOK
      <3> QED
        BY <2>a, <3>1 DEF TypeOK
    <2>7. rw_msg' \in [RW -> Msg \cup {None}]
      <3> HIDE DEF msg
      <3> QED
        BY ZenonT(120), <2>1, <2>a DEF TypeOK
    <2>6. rw_pc' \in [RW -> {"idle", "process", "notify"}]
      BY ZenonT(120), <1>2 DEF TypeOK, RwProcessRtcMsg
    <2>8. applied' \subseteq Msg
      <3>1. applied' = applied \/ applied' = applied \cup {msg}
        BY <1>2 DEF RwProcessRtcMsg
      <3> HIDE DEF msg
      <3> QED
        BY <2>1, <3>1 DEF TypeOK
    <2> QED
      BY <2>3, <2>4, <2>5, <2>6, <2>7, <2>8 DEF TypeOK, RwProcessRtcMsg, acceptor, srvVars
  <1> QED
    BY <1>1, <1>2

LEMMA RwNotifyWorkerType ==
  ASSUME TypeOK, InHand, NEW r \in RW, RwNotifyWorker(r) PROVE TypeOK'
  <1>1. rw_msg[r] \in Msg
    BY DEF TypeOK, InHand, RwNotifyWorker
  <1>2. rw_msg[r].worker \in SW
    BY <1>1, MsgFields
  <1>3. sw_pipe' \in [SW -> Seq({"NEW_CONN", "RTC_MSG"})]
    BY SMTT(90), <1>2 DEF TypeOK, RwNotifyWorker
  <1> QED
    BY <1>3 DEF TypeOK, RwNotifyWorker, acceptor, srvVars, history

-----------------------------------------------------------------------------
(* Senders hold the message they announce *)

LEMMA InHandStep ==
  ASSUME TypeOK, InHand, Next
  PROVE  InHand'
  <1>1. CASE \E w \in SW, c \in Conn, cmd \in Cmd, s \in Stream : SwSendRequest(w, c, cmd, s)
    <2>1. PICK w \in SW, c \in Conn, cmd \in Cmd, s \in Stream : SwSendRequest(w, c, cmd, s)
      BY <1>1
    <2> DEFINE msg == [conn |-> c, cmd |-> cmd, stream |-> s, worker |-> w, seq |-> sent + 1]
    <2>2. sent + 1 \in Conn
      BY <2>1, PipeAssumption DEF TypeOK, SwSendRequest, Conn
    <2>3. msg \in Msg
      BY <2>2 DEF Msg
    <2>4. sw_msg' = [sw_msg EXCEPT ![w] = msg] /\ sw_pc' = [sw_pc EXCEPT ![w] = "notify"]
          /\ UNCHANGED <<srv_pc, srv_msg, rw_pc, rw_msg>>
      BY <2>1 DEF SwSendRequest, rwVars
    <2> HIDE DEF msg
    <2> QED
      BY <2>3, <2>4, NoneAssumption DEF InHand, TypeOK
  <1>2. CASE \E w \in SW : SwStep(w)
    <2>1. PICK w \in SW : SwStep(w)
      BY <1>2
    <2>2. UNCHANGED <<srv_pc, srv_msg, rw_pc, rw_msg>>
      BY <2>1 DEF SwStep, SwRecvNotify, SwNewConn, SwProcessRtcMsg, SwNotifyServer,
         srvVars, rwVars
    <2>3. CASE SwRecvNotify(w)
      <3>1. sw_pipe[w] \in Seq({"NEW_CONN", "RTC_MSG"}) /\ sw_pipe[w] # << >>
        BY <2>3 DEF TypeOK, SwRecvNotify
      <3>2. Head(sw_pipe[w]) # "notify"
        BY <3>1
      <3> QED
        BY <2>2, <2>3, <3>2 DEF SwRecvNotify, InHand, TypeOK
    <2>4. CASE SwNewConn(w)
      BY <2>2, <2>4 DEF SwNewConn, InHand, TypeOK
    <2>5. CASE SwProcessRtcMsg(w)
      BY <2>2, <2>5 DEF SwProcessRtcMsg, InHand, TypeOK
    <2>6. CASE SwNotifyServer(w)
      BY <2>2, <2>6 DEF SwNotifyServer, InHand, TypeOK
    <2> QED
      BY <2>1, <2>3, <2>4, <2>5, <2>6 DEF SwStep
  <1>3. CASE Accept \/ NotifyNewConn \/ CertificateExpires \/ SrvRecvNotify
    BY <1>3 DEF Accept, NotifyNewConn, CertificateExpires, SrvRecvNotify, InHand,
       swVars, srvVars, rwVars
  <1>4. CASE SrvProcessRtcMsg
    <2>1. UNCHANGED <<sw_pc, sw_msg, rw_pc, rw_msg>>
      BY <1>4 DEF SrvProcessRtcMsg, swVars
    <2>2. srv_pc' = "notify" <=> srv_msg' # None
      <3>1. CASE srv_q = << >>
        BY <1>4, <3>1 DEF SrvProcessRtcMsg, InHand
      <3>2. CASE srv_q # << >>
        <4>1. Head(srv_q) # None
          BY <3>2, SrvTakes, MsgFields
        <4> QED
          BY <1>4, <3>2, <4>1 DEF SrvProcessRtcMsg, InHand
      <3> QED
        BY <3>1, <3>2
    <2> QED
      BY <2>1, <2>2 DEF InHand
  <1>5. CASE SrvNotifyWorker
    BY <1>5 DEF SrvNotifyWorker, InHand, swVars
  <1>6. CASE \E r \in RW : RwStep(r)
    <2>1. PICK r \in RW : RwStep(r)
      BY <1>6
    <2>2. UNCHANGED <<srv_pc, srv_msg, sw_pc, sw_msg>>
      BY <2>1 DEF RwStep, RwRecvNotify, RwProcessRtcMsg, RwNotifyWorker, srvVars, swVars
    <2>3. CASE RwRecvNotify(r)
      BY <2>2, <2>3 DEF RwRecvNotify, InHand, TypeOK
    <2>4. CASE RwProcessRtcMsg(r)
      <3>1. CASE rw_q[r] = << >>
        BY ZenonT(120), <2>2, <2>4, <3>1 DEF RwProcessRtcMsg, InHand, TypeOK
      <3>2. CASE rw_q[r] # << >>
        <4>1. Head(rw_q[r]) # None
          BY <3>2, RwTakes, MsgFields
        <4>2. rw_msg[r] = None
          BY <2>4 DEF RwProcessRtcMsg, InHand
        <4> QED
          BY ZenonT(120), <2>2, <2>4, <3>2, <4>1, <4>2 DEF RwProcessRtcMsg, InHand, TypeOK
      <3> QED
        BY <3>1, <3>2
    <2>5. CASE RwNotifyWorker(r)
      BY <2>2, <2>5 DEF RwNotifyWorker, InHand, TypeOK
    <2> QED
      BY <2>1, <2>3, <2>4, <2>5 DEF RwStep
  <1> QED
    BY <1>1, <1>2, <1>3, <1>4, <1>5, <1>6 DEF Next, SrvStep

-----------------------------------------------------------------------------
(* Queues and pipes stay in step *)

LEMMA CountNat ==
  ASSUME TypeOK, NEW w \in SW, NEW u
  PROVE  Count(sw_pipe[w], u) \in Nat
  <1>1. sw_pipe[w] \in Seq({"NEW_CONN", "RTC_MSG"})
    BY DEF TypeOK
  <1> QED
    BY <1>1, CountFinite

LEMMA SendersNat ==
  /\ IsFiniteSet(Requesting) /\ Cardinality(Requesting) \in Nat
  /\ \A w : IsFiniteSet(Answering(w)) /\ Cardinality(Answering(w)) \in Nat
  <1>1. IsFiniteSet(Requesting)
    BY WorkersFinite, FS_Subset DEF Requesting
  <1>2. ASSUME NEW w PROVE IsFiniteSet(Answering(w))
    BY WorkersFinite, FS_Subset DEF Answering
  <1> QED
    BY <1>1, <1>2, FS_CardinalityType

LEMMA SendersUnchanged ==
  /\ UNCHANGED sw_pc => Requesting' = Requesting
  /\ UNCHANGED <<rw_pc, rw_msg>> => \A w : Answering(w)' = Answering(w)
  BY DEF Requesting, Answering

\* Len of the four queues is a natural number.
LEMMA LenNat ==
  ASSUME TypeOK
  PROVE  /\ \A w \in SW : Len(q_conn[w]) \in Nat /\ Len(sw_q[w]) \in Nat
         /\ Len(srv_q) \in Nat
         /\ \A r \in RW : Len(rw_q[r]) \in Nat
  <1>1. /\ \A w \in SW : q_conn[w] \in Seq(Conn) /\ sw_q[w] \in Seq(Msg)
        /\ srv_q \in Seq(Msg)
        /\ \A r \in RW : rw_q[r] \in Seq(Msg)
    BY DEF TypeOK
  <1> QED
    BY <1>1

\* Whoever was woken finds its message.
LEMMA TokensGiveMessages ==
  ASSUME TypeOK, TokensMatchMessages
  PROVE  WakeupFindsMessage
  <1>1. ASSUME NEW w \in SW, sw_pc[w] = "NEW_CONN" PROVE q_conn[w] # << >>
    <2>1. Len(q_conn[w]) # 0
      BY SMTT(90), <1>1, CountNat DEF TokensMatchMessages, ConnTokens, One
    <2> QED
      BY <2>1
  <1>2. ASSUME NEW w \in SW, sw_pc[w] = "RTC_MSG" PROVE sw_q[w] # << >>
    <2>1. Count(sw_pipe[w], "RTC_MSG") \in Nat /\ Cardinality(Answering(w)) \in Nat
      BY CountNat, SendersNat
    <2>2. One(sw_pc[w] = "RTC_MSG") = 1
      BY <1>2 DEF One
    <2>3. Len(sw_q[w]) # 0
      BY <2>1, <2>2 DEF TokensMatchMessages, ReplyTokens
    <2> QED
      BY <2>3
  <1>3. ASSUME srv_pc = "process" PROVE srv_q # << >>
    <2>1. srv_pipe \in Nat
      BY PipeAssumption DEF TypeOK
    <2>2. Len(srv_q) # 0
      BY <1>3, <2>1, SendersNat DEF TokensMatchMessages, ServerTokens, One
    <2> QED
      BY <2>2
  <1>4. ASSUME NEW r \in RW, rw_pc[r] = "process" PROVE rw_q[r] # << >>
    <2>1. rw_pipe[r] \in Nat
      BY PipeAssumption DEF TypeOK
    <2>2. Len(rw_q[r]) # 0
      BY <1>4, <2>1 DEF TokensMatchMessages, WorkerTokens, One
    <2> QED
      BY <2>2
  <1> QED
    BY <1>1, <1>2, <1>3, <1>4 DEF WakeupFindsMessage

\* The signaling server: a connection is put, then announced.
LEMMA AcceptTokens == ASSUME TypeOK, TokensMatchMessages, Accept PROVE TokensMatchMessages'
  <1> USE DEF Accept
  <1>1. UNCHANGED <<sw_pipe, sw_pc, sw_q, sw_msg, srvVars, rwVars>>
    OBVIOUS
  <1>2. ReplyTokens' /\ ServerTokens' /\ WorkerTokens'
    BY <1>1, SendersUnchanged DEF TokensMatchMessages, ReplyTokens, ServerTokens, WorkerTokens,
       srvVars, rwVars
  <1>3. ASSUME NEW w \in SW
        PROVE  Len(q_conn'[w]) = Len(q_conn[w]) + One(w = next_worker_index)
    <2>1. q_conn[w] \in Seq(Conn) /\ accepted + 1 \in Conn
      BY PipeAssumption DEF TypeOK, Conn
    <2>2. CASE w = next_worker_index
      BY <2>1, <2>2 DEF TypeOK, One
    <2>3. CASE w # next_worker_index
      <3>1. q_conn'[w] = q_conn[w]
        BY <2>3 DEF TypeOK
      <3> QED
        BY <3>1, <2>1, <2>3 DEF One
    <2> QED
      BY <2>2, <2>3
  <1>4. ConnTokens'
    <2> SUFFICES ASSUME NEW w \in SW
                 PROVE  Len(q_conn'[w]) = Count(sw_pipe[w], "NEW_CONN")
                          + One(disp_pc' = "notify" /\ disp_to' = w) + One(sw_pc[w] = "NEW_CONN")
      BY <1>1 DEF ConnTokens
    <2>1. Len(q_conn[w]) = Count(sw_pipe[w], "NEW_CONN") + One(sw_pc[w] = "NEW_CONN")
      BY CountNat DEF TokensMatchMessages, ConnTokens, One
    <2>2. One(disp_pc' = "notify" /\ disp_to' = w) = One(w = next_worker_index)
      BY DEF One
    <2>3. Count(sw_pipe[w], "NEW_CONN") \in Nat /\ One(sw_pc[w] = "NEW_CONN") \in Nat
          /\ One(w = next_worker_index) \in Nat
      BY CountNat DEF One
    <2> QED
      BY <2>1, <2>2, <2>3, <1>3
  <1> QED
    BY <1>2, <1>4 DEF TokensMatchMessages

\* Writing to a signaling worker's pipe.
LEMMA PipeAppend ==
  ASSUME TypeOK, NEW v \in SW, NEW t \in {"NEW_CONN", "RTC_MSG"},
         sw_pipe' = [sw_pipe EXCEPT ![v] = Append(@, t)], NEW w \in SW, NEW u
  PROVE  Count(sw_pipe'[w], u) = Count(sw_pipe[w], u) + One(w = v /\ t = u)
  <1>1. sw_pipe[w] \in Seq({"NEW_CONN", "RTC_MSG"})
    BY DEF TypeOK
  <1>2. CASE w = v
    <2>1. sw_pipe'[w] = Append(sw_pipe[w], t)
      BY <1>2 DEF TypeOK
    <2>2. Count(sw_pipe'[w], u) = Count(sw_pipe[w], u) + One(t = u)
      BY <1>1, <2>1, CountAppend
    <2> QED
      BY <2>2, <1>2 DEF One
  <1>3. CASE w # v
    <2>1. sw_pipe'[w] = sw_pipe[w]
      BY <1>3 DEF TypeOK
    <2> QED
      BY <2>1, <1>3, CountNat DEF One
  <1> QED
    BY <1>2, <1>3

LEMMA NotifyNewConnTokens ==
  ASSUME TypeOK, TokensMatchMessages, NotifyNewConn PROVE TokensMatchMessages'
  <1> USE DEF NotifyNewConn
  <1>1. UNCHANGED <<q_conn, sw_q, sw_pc, srvVars, rwVars, disp_to>> /\ disp_to \in SW
    BY DEF TypeOK
  <1>2. ServerTokens' /\ WorkerTokens'
    BY <1>1 DEF TokensMatchMessages, ServerTokens, WorkerTokens, Requesting, srvVars, rwVars
  <1>3. \A w \in SW : \A u : Count(sw_pipe'[w], u) = Count(sw_pipe[w], u) + One(w = disp_to /\ "NEW_CONN" = u)
    BY <1>1, PipeAppend
  <1>4. ReplyTokens'
    <2> SUFFICES ASSUME NEW w \in SW
                 PROVE  Len(sw_q[w]) = Count(sw_pipe'[w], "RTC_MSG") + Cardinality(Answering(w))
                                         + One(sw_pc[w] = "RTC_MSG")
      BY <1>1 DEF ReplyTokens, Answering, rwVars
    <2>1. Count(sw_pipe'[w], "RTC_MSG") = Count(sw_pipe[w], "RTC_MSG")
      BY SMTT(90), <1>3, CountNat DEF One
    <2> QED
      BY <2>1 DEF TokensMatchMessages, ReplyTokens
  <1>5. ConnTokens'
    <2> SUFFICES ASSUME NEW w \in SW
                 PROVE  Len(q_conn[w]) = Count(sw_pipe'[w], "NEW_CONN") + 0 + One(sw_pc[w] = "NEW_CONN")
      BY <1>1 DEF ConnTokens, One
    <2>1. Count(sw_pipe'[w], "NEW_CONN") = Count(sw_pipe[w], "NEW_CONN") + One(w = disp_to)
      BY <1>3, CountNat DEF One
    <2>2. Len(q_conn[w]) = Count(sw_pipe[w], "NEW_CONN") + One(disp_to = w) + One(sw_pc[w] = "NEW_CONN")
      BY DEF TokensMatchMessages, ConnTokens, One
    <2> QED
      BY <2>1, <2>2, CountNat DEF One
  <1> QED
    BY <1>2, <1>4, <1>5 DEF TokensMatchMessages

\* A signaling worker reads an int: what leaves its pipe is in its hand.
LEMMA SwRecvNotifyTokens ==
  ASSUME TypeOK, TokensMatchMessages, NEW v \in SW, SwRecvNotify(v) PROVE TokensMatchMessages'
  <1> USE DEF SwRecvNotify
  <1>1. UNCHANGED <<acceptor, q_conn, sw_q, srvVars, rwVars>>
    OBVIOUS
  <1>2. sw_pipe[v] \in Seq({"NEW_CONN", "RTC_MSG"}) /\ sw_pipe[v] # << >>
    BY DEF TypeOK
  <1>3. Head(sw_pipe[v]) \in {"NEW_CONN", "RTC_MSG"} /\ sw_pc[v] = "idle"
    BY <1>2
  <1>4. ASSUME NEW w \in SW, NEW u \in {"NEW_CONN", "RTC_MSG"}
        PROVE  Count(sw_pipe'[w], u) + One(sw_pc'[w] = u) = Count(sw_pipe[w], u) + One(sw_pc[w] = u)
    <2>1. CASE w = v
      <3>1. sw_pipe'[w] = Tail(sw_pipe[w]) /\ sw_pc'[w] = Head(sw_pipe[w])
        BY <2>1 DEF TypeOK
      <3>2. Count(sw_pipe[w], u) = Count(sw_pipe'[w], u) + One(sw_pc'[w] = u)
        BY <2>1, <3>1, <1>2, CountTail
      <3>3. One(sw_pc[w] = u) = 0
        BY <2>1, <1>3 DEF One
      <3> QED
        BY SMTT(90), <3>2, <3>3, CountNat
    <2>2. CASE w # v
      BY <2>2 DEF TypeOK
    <2> QED
      BY <2>1, <2>2
  <1>5. \A w \in SW : sw_pc'[w] = "notify" <=> sw_pc[w] = "notify"
    BY <1>3 DEF TypeOK
  <1>6. Requesting' = Requesting
    BY <1>5 DEF Requesting
  <1>7. ServerTokens' /\ WorkerTokens'
    BY <1>1, <1>6 DEF TokensMatchMessages, ServerTokens, WorkerTokens, srvVars, rwVars
  <1>8. TypeOK'
    BY SwRecvNotifyType
  <1>9. ConnTokens'
    <2> SUFFICES ASSUME NEW w \in SW
                 PROVE  Len(q_conn[w]) = Count(sw_pipe'[w], "NEW_CONN")
                          + One(disp_pc = "notify" /\ disp_to = w) + One(sw_pc'[w] = "NEW_CONN")
      BY <1>1 DEF ConnTokens, acceptor
    <2>1. Count(sw_pipe[w], "NEW_CONN") \in Nat /\ Count(sw_pipe'[w], "NEW_CONN") \in Nat
      BY <1>2, <1>8, CountNat, CountFinite DEF TypeOK
    <2>2. One(sw_pc[w] = "NEW_CONN") \in Nat /\ One(sw_pc'[w] = "NEW_CONN") \in Nat
          /\ One(disp_pc = "notify" /\ disp_to = w) \in Nat
      BY DEF One
    <2> QED
      BY SMTT(90), <2>1, <2>2, <1>4 DEF TokensMatchMessages, ConnTokens
  <1>10. ReplyTokens'
    <2> SUFFICES ASSUME NEW w \in SW
                 PROVE  Len(sw_q[w]) = Count(sw_pipe'[w], "RTC_MSG")
                          + Cardinality(Answering(w)) + One(sw_pc'[w] = "RTC_MSG")
      BY <1>1, SendersUnchanged DEF ReplyTokens, rwVars
    <2>1. Count(sw_pipe[w], "RTC_MSG") \in Nat /\ Count(sw_pipe'[w], "RTC_MSG") \in Nat
          /\ Cardinality(Answering(w)) \in Nat
      BY <1>2, <1>8, CountNat, CountFinite, SendersNat DEF TypeOK
    <2>2. One(sw_pc[w] = "RTC_MSG") \in Nat /\ One(sw_pc'[w] = "RTC_MSG") \in Nat
      BY DEF One
    <2>3. Len(sw_q[w]) = Count(sw_pipe[w], "RTC_MSG")
                          + Cardinality(Answering(w)) + One(sw_pc[w] = "RTC_MSG")
      BY DEF TokensMatchMessages, ReplyTokens
    <2>4. Count(sw_pipe'[w], "RTC_MSG") + One(sw_pc'[w] = "RTC_MSG")
            = Count(sw_pipe[w], "RTC_MSG") + One(sw_pc[w] = "RTC_MSG")
      BY <1>4
    <2> HIDE DEF SwRecvNotify
    <2> QED
      BY SMTT(120), <2>1, <2>2, <2>3, <2>4
  <1> QED
    BY <1>7, <1>9, <1>10 DEF TokensMatchMessages

\* It then takes the connection ...
LEMMA SwNewConnTokens ==
  ASSUME TypeOK, TokensMatchMessages, NEW v \in SW, SwNewConn(v) PROVE TokensMatchMessages'
  <1> USE DEF SwNewConn
  <1>1. UNCHANGED <<acceptor, sw_q, sw_pipe, srvVars, rwVars>>
    OBVIOUS
  <1>2. q_conn[v] # << >> /\ q_conn[v] \in Seq(Conn)
    BY TokensGiveMessages DEF WakeupFindsMessage, TypeOK
  <1>3. Len(Tail(q_conn[v])) = Len(q_conn[v]) - 1
    BY <1>2
  <1>4. q_conn' = [q_conn EXCEPT ![v] = Tail(@)] /\ sw_pc' = [sw_pc EXCEPT ![v] = "idle"]
    BY <1>2
  <1>5. \A w \in SW : (sw_pc'[w] = "notify" <=> sw_pc[w] = "notify")
                      /\ (sw_pc'[w] = "RTC_MSG" <=> sw_pc[w] = "RTC_MSG")
    BY <1>4 DEF TypeOK
  <1>6. Requesting' = Requesting
    BY <1>5 DEF Requesting
  <1>7. ServerTokens' /\ WorkerTokens'
    BY <1>1, <1>6 DEF TokensMatchMessages, ServerTokens, WorkerTokens, srvVars, rwVars
  <1>8. ReplyTokens'
    BY <1>1, <1>5, SendersUnchanged DEF TokensMatchMessages, ReplyTokens, rwVars, One
  <1>9. ConnTokens'
    <2> SUFFICES ASSUME NEW w \in SW
                 PROVE  Len(q_conn'[w]) = Count(sw_pipe[w], "NEW_CONN")
                          + One(disp_pc = "notify" /\ disp_to = w) + One(sw_pc'[w] = "NEW_CONN")
      BY <1>1 DEF ConnTokens, acceptor
    <2>1. Len(q_conn[w]) = Count(sw_pipe[w], "NEW_CONN")
                          + One(disp_pc = "notify" /\ disp_to = w) + One(sw_pc[w] = "NEW_CONN")
      BY DEF TokensMatchMessages, ConnTokens
    <2>2. CASE w = v
      <3>1. Len(q_conn'[w]) = Len(q_conn[w]) - 1
        BY <2>2, <1>3, <1>4 DEF TypeOK
      <3>2. One(sw_pc[w] = "NEW_CONN") = 1 /\ One(sw_pc'[w] = "NEW_CONN") = 0
        BY <2>2, <1>4 DEF One, TypeOK
      <3>3. Count(sw_pipe[w], "NEW_CONN") \in Nat /\ One(disp_pc = "notify" /\ disp_to = w) \in Nat
        BY CountNat DEF One
      <3> QED
        BY <2>1, <3>1, <3>2, <3>3
    <2>3. CASE w # v
      <3>1. q_conn'[w] = q_conn[w] /\ sw_pc'[w] = sw_pc[w]
        BY <2>3, <1>4 DEF TypeOK
      <3> QED
        BY <2>1, <3>1
    <2> QED
      BY <2>2, <2>3
  <1> QED
    BY <1>7, <1>8, <1>9 DEF TokensMatchMessages

\* ... or the answered message.
LEMMA SwProcessRtcMsgTokens ==
  ASSUME TypeOK, TokensMatchMessages, NEW v \in SW, SwProcessRtcMsg(v) PROVE TokensMatchMessages'
  <1> USE DEF SwProcessRtcMsg
  <1>1. UNCHANGED <<acceptor, q_conn, sw_pipe, srvVars, rwVars>>
    OBVIOUS
  <1>2. sw_q[v] # << >> /\ sw_q[v] \in Seq(Msg)
    BY TokensGiveMessages DEF WakeupFindsMessage, TypeOK
  <1>3. Len(Tail(sw_q[v])) = Len(sw_q[v]) - 1
    BY <1>2
  <1>4. sw_q' = [sw_q EXCEPT ![v] = Tail(@)] /\ sw_pc' = [sw_pc EXCEPT ![v] = "idle"]
    BY <1>2
  <1>5. \A w \in SW : (sw_pc'[w] = "notify" <=> sw_pc[w] = "notify")
                      /\ (sw_pc'[w] = "NEW_CONN" <=> sw_pc[w] = "NEW_CONN")
    BY <1>4 DEF TypeOK
  <1>6. Requesting' = Requesting
    BY <1>5 DEF Requesting
  <1>7. ServerTokens' /\ WorkerTokens'
    BY <1>1, <1>6 DEF TokensMatchMessages, ServerTokens, WorkerTokens, srvVars, rwVars
  <1>8. ConnTokens'
    BY <1>1, <1>5 DEF TokensMatchMessages, ConnTokens, acceptor, One
  <1>9. ReplyTokens'
    <2> SUFFICES ASSUME NEW w \in SW
                 PROVE  Len(sw_q'[w]) = Count(sw_pipe[w], "RTC_MSG")
                          + Cardinality(Answering(w)) + One(sw_pc'[w] = "RTC_MSG")
      BY <1>1, SendersUnchanged DEF ReplyTokens, rwVars
    <2>1. Len(sw_q[w]) = Count(sw_pipe[w], "RTC_MSG")
                          + Cardinality(Answering(w)) + One(sw_pc[w] = "RTC_MSG")
      BY DEF TokensMatchMessages, ReplyTokens
    <2>2. CASE w = v
      <3>1. Len(sw_q'[w]) = Len(sw_q[w]) - 1
        BY <2>2, <1>3, <1>4 DEF TypeOK
      <3>2. One(sw_pc[w] = "RTC_MSG") = 1 /\ One(sw_pc'[w] = "RTC_MSG") = 0
        BY <2>2, <1>4 DEF One, TypeOK
      <3>3. Count(sw_pipe[w], "RTC_MSG") \in Nat /\ Cardinality(Answering(w)) \in Nat
        BY CountNat, SendersNat
      <3> QED
        BY <2>1, <3>1, <3>2, <3>3
    <2>3. CASE w # v
      <3>1. sw_q'[w] = sw_q[w] /\ sw_pc'[w] = sw_pc[w]
        BY <2>3, <1>4 DEF TypeOK
      <3> QED
        BY <2>1, <3>1
    <2> QED
      BY <2>2, <2>3
  <1> QED
    BY <1>7, <1>8, <1>9 DEF TokensMatchMessages

\* A request is put in the RTC server's queue, then announced.
LEMMA RequestTokens ==
  ASSUME TypeOK, TokensMatchMessages, NEW v \in SW,
         \/ \E c \in Conn, cmd \in Cmd, s \in Stream : SwSendRequest(v, c, cmd, s)
         \/ SwNotifyServer(v)
  PROVE  TokensMatchMessages'
  <1>1. UNCHANGED <<acceptor, q_conn, sw_q, sw_pipe, srv_pc, srv_msg, rwVars>>
    BY DEF SwSendRequest, SwNotifyServer
  <1>2. \A w \in SW : (sw_pc'[w] = "NEW_CONN" <=> sw_pc[w] = "NEW_CONN")
                      /\ (sw_pc'[w] = "RTC_MSG" <=> sw_pc[w] = "RTC_MSG")
    BY ZenonT(120) DEF TypeOK, SwSendRequest, SwNotifyServer
  <1>3. ConnTokens' /\ ReplyTokens' /\ WorkerTokens'
    BY <1>1, <1>2, SendersUnchanged DEF TokensMatchMessages, ConnTokens, ReplyTokens, WorkerTokens,
       acceptor, rwVars, One
  <1>4. IsFiniteSet(Requesting) /\ Cardinality(Requesting) \in Nat /\ srv_pipe \in Nat
        /\ Len(srv_q) \in Nat /\ One(srv_pc = "process") \in Nat
    BY SendersNat, LenNat, PipeAssumption DEF TypeOK, One
  <1>5. Len(srv_q) = srv_pipe + Cardinality(Requesting) + One(srv_pc = "process")
    BY DEF TokensMatchMessages, ServerTokens
  <1>6. CASE \E c \in Conn, cmd \in Cmd, s \in Stream : SwSendRequest(v, c, cmd, s)
    <2>1. PICK c \in Conn, cmd \in Cmd, s \in Stream : SwSendRequest(v, c, cmd, s)
      BY <1>6
    <2>2. TypeOK'
      BY <2>1, SwSendRequestType
    <2>3. sw_pc' = [sw_pc EXCEPT ![v] = "notify"] /\ sw_pc[v] = "idle" /\ srv_pipe' = srv_pipe
      BY <2>1 DEF SwSendRequest
    <2>4. Requesting' = Requesting \cup {v} /\ v \notin Requesting
      BY <2>3 DEF Requesting, TypeOK
    <2>5. Cardinality(Requesting') = Cardinality(Requesting) + 1
      BY <2>4, <1>4, CardinalityStep
    <2>6. PICK m : srv_q' = Append(srv_q, m)
      BY <2>1 DEF SwSendRequest
    <2>7. Len(srv_q') = Len(srv_q) + 1
      <3>1. srv_q \in Seq(Msg) /\ srv_q' \in Seq(Msg)
        BY <2>2 DEF TypeOK
      <3> QED
        BY <2>6, <3>1
    <2>8. ServerTokens'
      BY <2>3, <2>5, <2>7, <1>1, <1>4, <1>5 DEF ServerTokens
    <2> QED
      BY <2>8, <1>3 DEF TokensMatchMessages
  <1>7. CASE SwNotifyServer(v)
    <2>1. sw_pc' = [sw_pc EXCEPT ![v] = "idle"] /\ sw_pc[v] = "notify"
          /\ srv_pipe' = srv_pipe + 1 /\ UNCHANGED srv_q
      BY <1>7 DEF SwNotifyServer
    <2>2. Requesting' = Requesting \ {v} /\ v \in Requesting
      BY <2>1 DEF Requesting, TypeOK
    <2>3. Cardinality(Requesting') = Cardinality(Requesting) - 1
      BY <2>2, <1>4, CardinalityStep
    <2>4. ServerTokens'
      BY <2>1, <2>3, <1>1, <1>4, <1>5 DEF ServerTokens
    <2> QED
      BY <2>4, <1>3 DEF TokensMatchMessages
  <1> QED
    BY <1>6, <1>7

\* The RTC server takes one message per int and passes it on or drops it.
LEMMA SrvTokens ==
  ASSUME TypeOK, InHand, TokensMatchMessages, SrvStep \/ CertificateExpires
  PROVE  TokensMatchMessages'
  <1>1. UNCHANGED <<acceptor, swVars, rw_pc, rw_msg>>
    BY DEF SrvStep, SrvRecvNotify, SrvProcessRtcMsg, SrvNotifyWorker, CertificateExpires, rwVars
  <1>2. ConnTokens' /\ ReplyTokens' /\ Requesting' = Requesting
    BY <1>1, SendersUnchanged DEF TokensMatchMessages, ConnTokens, ReplyTokens, acceptor, swVars
  <1>3. Cardinality(Requesting) \in Nat /\ srv_pipe \in Nat /\ Len(srv_q) \in Nat
        /\ \A r \in RW : Len(rw_q[r]) \in Nat /\ rw_pipe[r] \in Nat
    BY SendersNat, LenNat, PipeAssumption DEF TypeOK
  <1>4. Len(srv_q) = srv_pipe + Cardinality(Requesting) + One(srv_pc = "process")
    BY DEF TokensMatchMessages, ServerTokens
  <1>5. \A r \in RW : Len(rw_q[r]) =
          rw_pipe[r] + One(srv_pc = "notify" /\ GetWorker(srv_msg.stream) = r) + One(rw_pc[r] = "process")
    BY DEF TokensMatchMessages, WorkerTokens
  <1>6. CASE SrvRecvNotify
    <2>1. ServerTokens'
      BY <1>2, <1>3, <1>4, <1>6 DEF ServerTokens, SrvRecvNotify, One
    <2>2. WorkerTokens'
      BY <1>1, <1>3, <1>5, <1>6 DEF WorkerTokens, SrvRecvNotify, rwVars, One
    <2> QED
      BY <1>2, <2>1, <2>2 DEF TokensMatchMessages
  <1>7. CASE CertificateExpires
    <2>1. ServerTokens'
      BY <1>2, <1>4, <1>7 DEF ServerTokens, CertificateExpires
    <2>2. WorkerTokens'
      BY <1>1, <1>5, <1>7 DEF WorkerTokens, CertificateExpires, rwVars
    <2> QED
      BY <1>2, <2>1, <2>2 DEF TokensMatchMessages
  <1>8. CASE SrvProcessRtcMsg
    <2> DEFINE m == Head(srv_q)
    <2>1. srv_q # << >> /\ srv_q \in Seq(Msg)
      BY <1>8, TokensGiveMessages DEF WakeupFindsMessage, SrvProcessRtcMsg, TypeOK
    <2>2. m \in Msg /\ GetWorker(m.stream) \in RW /\ Len(Tail(srv_q)) = Len(srv_q) - 1
      BY <2>1, SrvTakes
    <2>3. srv_pc = "process" /\ srv_q' = Tail(srv_q) /\ UNCHANGED <<srv_pipe, rw_pipe>>
          /\ srv_pc' # "process"
      BY <1>8, <2>1 DEF SrvProcessRtcMsg
    <2>4. ServerTokens'
      BY <1>2, <1>3, <1>4, <2>2, <2>3 DEF ServerTokens, One
    <2>5. \/ srv_pc' = "idle" /\ UNCHANGED rw_q
          \/ /\ srv_pc' = "notify" /\ srv_msg' = m
             /\ rw_q' = [rw_q EXCEPT ![GetWorker(m.stream)] = Append(@, m)]
      BY <1>8, <2>1 DEF SrvProcessRtcMsg
    <2> HIDE DEF m
    <2>6. WorkerTokens'
      <3> SUFFICES ASSUME NEW r \in RW
                   PROVE  Len(rw_q'[r]) = rw_pipe[r]
                            + One(srv_pc' = "notify" /\ GetWorker(srv_msg'.stream) = r)
                            + One(rw_pc[r] = "process")
        BY <1>1, <2>3 DEF WorkerTokens, GetWorker
      <3>1. Len(rw_q[r]) = rw_pipe[r] + One(rw_pc[r] = "process")
        BY <1>3, <1>5, <2>3 DEF One
      <3>2. CASE srv_pc' = "idle" /\ UNCHANGED rw_q
        <4>1. One(srv_pc' = "notify" /\ GetWorker(srv_msg'.stream) = r) = 0
          BY <3>2 DEF One
        <4> QED
          BY <4>1, <3>1, <3>2, <1>3 DEF One
      <3>3. CASE /\ srv_pc' = "notify" /\ srv_msg' = m
                 /\ rw_q' = [rw_q EXCEPT ![GetWorker(m.stream)] = Append(@, m)]
        <4>1. CASE GetWorker(m.stream) = r
          <5>1. rw_q[r] \in Seq(Msg) /\ rw_q'[r] = Append(rw_q[r], m)
            BY <3>3, <4>1 DEF TypeOK
          <5>2. Len(rw_q'[r]) = Len(rw_q[r]) + 1
            BY <5>1, <2>2
          <5>3. One(srv_pc' = "notify" /\ GetWorker(srv_msg'.stream) = r) = 1
            BY <3>3, <4>1 DEF One
          <5> QED
            BY <5>2, <5>3, <3>1, <1>3 DEF One
        <4>2. CASE GetWorker(m.stream) # r
          <5>1. rw_q'[r] = rw_q[r]
            BY <3>3, <4>2 DEF TypeOK
          <5>2. One(srv_pc' = "notify" /\ GetWorker(srv_msg'.stream) = r) = 0
            BY <3>3, <4>2 DEF One
          <5> QED
            BY <5>1, <5>2, <3>1, <1>3 DEF One
        <4> QED
          BY <4>1, <4>2
      <3> QED
        BY <2>5, <3>2, <3>3
    <2> QED
      BY <1>2, <2>4, <2>6 DEF TokensMatchMessages
  <1>9. CASE SrvNotifyWorker
    <2> DEFINE k == GetWorker(srv_msg.stream)
    <2>1. srv_pc = "notify" /\ srv_pc' = "idle" /\ rw_pipe' = [rw_pipe EXCEPT ![k] = @ + 1]
          /\ UNCHANGED <<srv_q, srv_pipe, rw_q>>
      BY <1>9 DEF SrvNotifyWorker
    <2>2. ServerTokens'
      BY <1>2, <1>3, <1>4, <2>1 DEF ServerTokens, One
    <2>3. WorkerTokens'
      <3> SUFFICES ASSUME NEW r \in RW
                   PROVE  Len(rw_q[r]) = rw_pipe'[r] + 0 + One(rw_pc[r] = "process")
        BY <1>1, <2>1 DEF WorkerTokens, One
      <3>1. Len(rw_q[r]) = rw_pipe[r] + One(k = r) + One(rw_pc[r] = "process")
        BY <1>5, <2>1 DEF One
      <3>2. rw_pipe'[r] = rw_pipe[r] + One(k = r)
        <4> HIDE DEF k
        <4> QED
          BY <2>1, <1>3 DEF TypeOK, One
      <3> QED
        BY <3>1, <3>2, <1>3 DEF One
    <2> QED
      BY <1>2, <2>2, <2>3 DEF TokensMatchMessages
  <1> QED
    BY <1>6, <1>7, <1>8, <1>9 DEF SrvStep

\* An RTC worker takes one message per int and answers a push.
LEMMA RwTokens ==
  ASSUME TypeOK, InHand, TokensMatchMessages, NEW k \in RW, RwStep(k)
  PROVE  TokensMatchMessages'
  <1>1. UNCHANGED <<acceptor, q_conn, sw_pc, srvVars>>
    BY DEF RwStep, RwRecvNotify, RwProcessRtcMsg, RwNotifyWorker, swVars
  <1>2. ServerTokens'
    BY <1>1, SendersUnchanged DEF TokensMatchMessages, ServerTokens, srvVars
  <1>3. /\ \A r \in RW : Len(rw_q[r]) \in Nat /\ rw_pipe[r] \in Nat
        /\ \A w \in SW : Len(sw_q[w]) \in Nat
        /\ \A w : IsFiniteSet(Answering(w)) /\ Cardinality(Answering(w)) \in Nat
    BY SendersNat, LenNat, PipeAssumption DEF TypeOK
  <1>4. \A r \in RW : Len(rw_q[r]) =
          rw_pipe[r] + One(srv_pc = "notify" /\ GetWorker(srv_msg.stream) = r) + One(rw_pc[r] = "process")
    BY DEF TokensMatchMessages, WorkerTokens
  <1>5. \A w \in SW : Len(sw_q[w]) =
          Count(sw_pipe[w], "RTC_MSG") + Cardinality(Answering(w)) + One(sw_pc[w] = "RTC_MSG")
    BY DEF TokensMatchMessages, ReplyTokens
  <1>6. CASE RwRecvNotify(k)
    <2>1. rw_pipe' = [rw_pipe EXCEPT ![k] = @ - 1] /\ rw_pc' = [rw_pc EXCEPT ![k] = "process"]
          /\ rw_pc[k] = "idle" /\ UNCHANGED <<rw_q, rw_msg, swVars>>
      BY <1>6 DEF RwRecvNotify
    <2>2. \A w : Answering(w)' = Answering(w)
      BY <2>1 DEF Answering, TypeOK
    <2>3. ConnTokens' /\ ReplyTokens'
      BY <1>1, <2>1, <2>2 DEF TokensMatchMessages, ConnTokens, ReplyTokens, acceptor, swVars
    <2>4. WorkerTokens'
      <3> SUFFICES ASSUME NEW r \in RW
                   PROVE  Len(rw_q[r]) = rw_pipe'[r]
                            + One(srv_pc = "notify" /\ GetWorker(srv_msg.stream) = r)
                            + One(rw_pc'[r] = "process")
        BY <1>1, <2>1 DEF WorkerTokens, srvVars
      <3>1. CASE r = k
        <4>1. rw_pipe'[r] = rw_pipe[r] - 1 /\ One(rw_pc'[r] = "process") = 1
              /\ One(rw_pc[r] = "process") = 0
          BY <2>1, <3>1 DEF TypeOK, One
        <4> QED
          BY <4>1, <1>3, <1>4 DEF One
      <3>2. CASE r # k
        BY <2>1, <3>2, <1>4 DEF TypeOK
      <3> QED
        BY <3>1, <3>2
    <2> QED
      BY <1>2, <2>3, <2>4 DEF TokensMatchMessages
  <1>7. CASE RwProcessRtcMsg(k)
    <2> DEFINE m == Head(rw_q[k])
    <2>1. rw_q[k] # << >> /\ rw_q[k] \in Seq(Msg)
      BY <1>7, TokensGiveMessages DEF WakeupFindsMessage, RwProcessRtcMsg, TypeOK
    <2>2. m \in Msg /\ m.worker \in SW /\ Len(Tail(rw_q[k])) = Len(rw_q[k]) - 1
      BY <2>1, RwTakes, MsgFields
    <2>3. rw_pc[k] = "process" /\ rw_q' = [rw_q EXCEPT ![k] = Tail(@)]
          /\ UNCHANGED <<sw_pipe, rw_pipe>>
      BY <1>7, <2>1 DEF RwProcessRtcMsg
    <2>4. \/ rw_pc' = [rw_pc EXCEPT ![k] = "idle"] /\ UNCHANGED <<sw_q, rw_msg>>
          \/ /\ rw_pc' = [rw_pc EXCEPT ![k] = "notify"] /\ rw_msg' = [rw_msg EXCEPT ![k] = m]
             /\ sw_q' = [sw_q EXCEPT ![m.worker] = Append(@, m)]
      BY <1>7, <2>1 DEF RwProcessRtcMsg
    <2> HIDE DEF m
    <2>5. ConnTokens'
      BY <1>1, <2>3 DEF TokensMatchMessages, ConnTokens, acceptor
    <2>6. WorkerTokens'
      <3> SUFFICES ASSUME NEW r \in RW
                   PROVE  Len(rw_q'[r]) = rw_pipe[r]
                            + One(srv_pc = "notify" /\ GetWorker(srv_msg.stream) = r)
                            + One(rw_pc'[r] = "process")
        BY <1>1, <2>3 DEF WorkerTokens, srvVars
      <3>1. CASE r = k
        <4>1. Len(rw_q'[r]) = Len(rw_q[r]) - 1
          BY <2>2, <2>3, <3>1 DEF TypeOK
        <4>2. One(rw_pc'[r] = "process") = 0 /\ One(rw_pc[r] = "process") = 1
          BY <2>3, <2>4, <3>1 DEF TypeOK, One
        <4> QED
          BY <4>1, <4>2, <1>3, <1>4 DEF One
      <3>2. CASE r # k
        <4>1. rw_q'[r] = rw_q[r] /\ rw_pc'[r] = rw_pc[r]
          BY <2>3, <2>4, <3>2 DEF TypeOK
        <4> QED
          BY <4>1, <1>4
      <3> QED
        BY <3>1, <3>2
    <2>7. ReplyTokens'
      <3>1. CASE rw_pc' = [rw_pc EXCEPT ![k] = "idle"] /\ UNCHANGED <<sw_q, rw_msg>>
        <4>1. \A w : Answering(w)' = Answering(w)
          BY <2>3, <3>1 DEF Answering, TypeOK
        <4> QED
          BY <4>1, <3>1, <2>3, <1>1, <1>5 DEF ReplyTokens
      <3>2. CASE /\ rw_pc' = [rw_pc EXCEPT ![k] = "notify"] /\ rw_msg' = [rw_msg EXCEPT ![k] = m]
                 /\ sw_q' = [sw_q EXCEPT ![m.worker] = Append(@, m)]
        <4> SUFFICES ASSUME NEW w \in SW
                     PROVE  Len(sw_q'[w]) = Count(sw_pipe[w], "RTC_MSG")
                              + Cardinality(Answering(w)') + One(sw_pc[w] = "RTC_MSG")
          BY <1>1, <2>3 DEF ReplyTokens
        <4>1. Count(sw_pipe[w], "RTC_MSG") \in Nat /\ One(sw_pc[w] = "RTC_MSG") \in Nat
          BY CountNat DEF One
        <4>2. CASE w = m.worker
          <5>1. Answering(w)' = Answering(w) \cup {k} /\ k \notin Answering(w)
            BY <3>2, <4>2, <2>3 DEF Answering, TypeOK
          <5>2. Cardinality(Answering(w)') = Cardinality(Answering(w)) + 1
            BY <5>1, <1>3, CardinalityStep
          <5>3. sw_q[w] \in Seq(Msg) /\ sw_q'[w] = Append(sw_q[w], m)
            BY <3>2, <4>2 DEF TypeOK
          <5>4. Len(sw_q'[w]) = Len(sw_q[w]) + 1
            BY <5>3, <2>2
          <5> QED
            BY <5>2, <5>4, <4>1, <1>3, <1>5
        <4>3. CASE w # m.worker
          <5>1. Answering(w)' = Answering(w)
            BY <3>2, <4>3, <2>3 DEF Answering, TypeOK
          <5>2. sw_q'[w] = sw_q[w]
            BY <3>2, <4>3 DEF TypeOK
          <5> QED
            BY <5>1, <5>2, <1>5
        <4> QED
          BY <4>2, <4>3
      <3> QED
        BY <2>4, <3>1, <3>2
    <2> QED
      BY <1>2, <2>5, <2>6, <2>7 DEF TokensMatchMessages
  <1>8. CASE RwNotifyWorker(k)
    <2> DEFINE v == rw_msg[k].worker
    <2>1. v \in SW
      BY <1>8, MsgFields DEF TypeOK, InHand, RwNotifyWorker
    <2>2. rw_pc[k] = "notify" /\ rw_pc' = [rw_pc EXCEPT ![k] = "idle"]
          /\ rw_msg' = [rw_msg EXCEPT ![k] = None] /\ UNCHANGED <<rw_q, rw_pipe, sw_q>>
          /\ sw_pipe' = [sw_pipe EXCEPT ![v] = Append(@, "RTC_MSG")]
      BY <1>8 DEF RwNotifyWorker
    <2>3. WorkerTokens'
      <3>1. \A r \in RW : rw_pc'[r] = "process" <=> rw_pc[r] = "process"
        BY <2>2 DEF TypeOK
      <3> QED
        BY <3>1, <2>2, <1>1, <1>4 DEF WorkerTokens, srvVars, One
    <2>4. \A w \in SW : \A u : Count(sw_pipe'[w], u) = Count(sw_pipe[w], u) + One(w = v /\ "RTC_MSG" = u)
      <3> HIDE DEF v
      <3> QED
        BY <2>1, <2>2, PipeAppend
    <2>5. ConnTokens'
      <3> SUFFICES ASSUME NEW w \in SW
                   PROVE  Len(q_conn[w]) = Count(sw_pipe'[w], "NEW_CONN")
                            + One(disp_pc = "notify" /\ disp_to = w) + One(sw_pc[w] = "NEW_CONN")
        BY <1>1 DEF ConnTokens, acceptor
      <3> HIDE DEF v
      <3>1. One(w = v /\ "RTC_MSG" = "NEW_CONN") = 0
        BY DEF One
      <3>2. Count(sw_pipe[w], "NEW_CONN") \in Nat
        BY CountNat
      <3>3. Count(sw_pipe'[w], "NEW_CONN") = Count(sw_pipe[w], "NEW_CONN")
                                             + One(w = v /\ "RTC_MSG" = "NEW_CONN")
        BY <2>4
      <3>4. Count(sw_pipe'[w], "NEW_CONN") = Count(sw_pipe[w], "NEW_CONN")
        BY <3>1, <3>2, <3>3
      <3> QED
        BY <3>4 DEF TokensMatchMessages, ConnTokens
    <2>6. ReplyTokens'
      <3> SUFFICES ASSUME NEW w \in SW
                   PROVE  Len(sw_q[w]) = Count(sw_pipe'[w], "RTC_MSG")
                            + Cardinality(Answering(w)') + One(sw_pc[w] = "RTC_MSG")
        BY <1>1, <2>2 DEF ReplyTokens
      <3>1. Count(sw_pipe'[w], "RTC_MSG") = Count(sw_pipe[w], "RTC_MSG") + One(w = v)
        BY <2>4 DEF One
      <3>2. Count(sw_pipe[w], "RTC_MSG") \in Nat /\ One(sw_pc[w] = "RTC_MSG") \in Nat
        BY CountNat DEF One
      <3>3. CASE w = v
        <4>1. Answering(w)' = Answering(w) \ {k} /\ k \in Answering(w)
          BY <2>2, <3>3 DEF Answering, TypeOK
        <4>2. Cardinality(Answering(w)') = Cardinality(Answering(w)) - 1
          BY <4>1, <1>3, CardinalityStep
        <4>3. Cardinality(Answering(w)) \in Nat /\ One(w = v) = 1
          BY <3>3, <1>3 DEF One
        <4> HIDE DEF v
        <4> QED
          BY <4>2, <4>3, <3>1, <3>2, <1>5
      <3>4. CASE w # v
        <4>1. Answering(w)' = Answering(w)
          BY <2>2, <3>4 DEF Answering, TypeOK
        <4>2. One(w = v) = 0
          BY <3>4 DEF One
        <4> HIDE DEF v
        <4> QED
          BY <4>1, <4>2, <3>1, <3>2, <1>3, <1>5
      <3> QED
        BY <3>3, <3>4
    <2> QED
      BY <1>2, <2>3, <2>5, <2>6 DEF TokensMatchMessages
  <1> QED
    BY <1>6, <1>7, <1>8 DEF RwStep

-----------------------------------------------------------------------------
LEMMA PipelineInit == Init => PipelineInv
  <1> SUFFICES ASSUME Init PROVE PipelineInv
    OBVIOUS
  <1>1. TypeOK
    <2>1. 0 \in SW /\ 0 \in 0..MaxConn /\ 0 \in 0..PipeCap
      BY WorkerAssumption, PipeAssumption DEF SW
    <2> QED
      BY <2>1 DEF Init, TypeOK
  <1>2. InHand
    BY DEF Init, InHand
  <1>3. Requesting = {} /\ \A w : Answering(w) = {}
    BY DEF Init, Requesting, Answering
  <1>4. \A w \in SW : \A u : Count(sw_pipe[w], u) = 0
    <2> SUFFICES ASSUME NEW w \in SW, NEW u PROVE Count(sw_pipe[w], u) = 0
      OBVIOUS
    <2>1. {i \in 1..Len(sw_pipe[w]) : sw_pipe[w][i] = u} = {}
      BY DEF Init
    <2> QED
      BY <2>1, FS_EmptySet DEF Count
  <1>5. ConnTokens
    BY <1>4 DEF Init, ConnTokens, One
  <1>6. Cardinality(Requesting) = 0 /\ \A w : Cardinality(Answering(w)) = 0
    BY <1>3, FS_EmptySet
  <1>7. ReplyTokens
    BY <1>4, <1>6 DEF Init, ReplyTokens, One
  <1>8. ServerTokens /\ WorkerTokens
    BY <1>6 DEF Init, ServerTokens, WorkerTokens, One
  <1> QED
    BY <1>1, <1>2, <1>5, <1>7, <1>8 DEF PipelineInv, TokensMatchMessages

LEMMA PipelineStep == ASSUME PipelineInv, [Next]_vars PROVE PipelineInv'
  <1> USE DEF PipelineInv
  <1>1. CASE UNCHANGED vars
    <2>1. TypeOK' /\ InHand'
      BY <1>1 DEF vars, acceptor, swVars, srvVars, rwVars, history, TypeOK, InHand
    <2>2. TokensMatchMessages'
      BY <1>1, SendersUnchanged DEF vars, acceptor, swVars, srvVars, rwVars, TokensMatchMessages,
         ConnTokens, ReplyTokens, ServerTokens, WorkerTokens
    <2> QED
      BY <2>1, <2>2
  <1>2. CASE Accept
    BY <1>2, AcceptType, AcceptTokens, InHandStep DEF Next
  <1>3. CASE NotifyNewConn
    BY <1>3, NotifyNewConnType, NotifyNewConnTokens, InHandStep DEF Next
  <1>4. CASE \E w \in SW : SwStep(w)
    <2>1. PICK w \in SW : SwStep(w)
      BY <1>4
    <2>2. InHand'
      BY <1>4, InHandStep DEF Next
    <2>3. CASE SwRecvNotify(w)
      BY <2>2, <2>3, SwRecvNotifyType, SwRecvNotifyTokens
    <2>4. CASE SwNewConn(w)
      BY <2>2, <2>4, SwNewConnType, SwNewConnTokens
    <2>5. CASE SwProcessRtcMsg(w)
      BY <2>2, <2>5, SwProcessRtcMsgType, SwProcessRtcMsgTokens
    <2>6. CASE SwNotifyServer(w)
      BY <2>2, <2>6, SwNotifyServerType, RequestTokens
    <2> QED
      BY <2>1, <2>3, <2>4, <2>5, <2>6 DEF SwStep
  <1>5. CASE \E w \in SW, c \in Conn, cmd \in Cmd, s \in Stream : SwSendRequest(w, c, cmd, s)
    <2>1. InHand'
      BY <1>5, InHandStep DEF Next
    <2> QED
      BY <1>5, <2>1, SwSendRequestType, RequestTokens
  <1>6. CASE SrvStep \/ CertificateExpires
    <2>1. InHand'
      BY <1>6, InHandStep DEF Next
    <2>2. TypeOK'
      BY <1>6, SrvType, SrvProcessRtcMsgType DEF SrvStep
    <2> QED
      BY <1>6, <2>1, <2>2, SrvTokens
  <1>7. CASE \E r \in RW : RwStep(r)
    <2>1. InHand'
      BY <1>7, InHandStep DEF Next
    <2>2. TypeOK'
      BY <1>7, RwRecvNotifyType, RwProcessRtcMsgType, RwNotifyWorkerType DEF RwStep
    <2> QED
      BY <1>7, <2>1, <2>2, RwTokens
  <1> QED
    BY <1>1, <1>2, <1>3, <1>4, <1>5, <1>6, <1>7 DEF Next

\* The inductive invariant of the pipeline.
THEOREM PipelineInvariant == Spec => []PipelineInv
  <1>1. PipelineInv /\ [Next]_vars => PipelineInv'
    BY PipelineStep
  <1> QED
    BY PipelineInit, <1>1, PTL DEF Spec

\* Every variable keeps its type; in particular the round-robin index of
\* _dispacth_new_conn never leaves the vector of workers.
THEOREM PipelineTypes == Spec => []TypeOK
  <1>1. PipelineInv => TypeOK
    BY DEF PipelineInv
  <1> QED
    BY PipelineInvariant, <1>1, PTL

\* Put-then-notify keeps all queues and pipes in step.
THEOREM TokensMatch == Spec => []TokensMatchMessages
  <1>1. PipelineInv => TokensMatchMessages
    BY DEF PipelineInv
  <1> QED
    BY PipelineInvariant, <1>1, PTL

\* pop_msg() and consume() never come back empty after a wakeup.
THEOREM WakeupsFindMessages == Spec => []WakeupFindsMessage
  <1>1. PipelineInv => WakeupFindsMessage
    BY TokensGiveMessages DEF PipelineInv
  <1> QED
    BY PipelineInvariant, <1>1, PTL

\* A pipe holds the ints of both kinds.
LEMMA PipeLength ==
  ASSUME NEW p \in Seq({"NEW_CONN", "RTC_MSG"})
  PROVE  Len(p) = Count(p, "NEW_CONN") + Count(p, "RTC_MSG")
  <1> DEFINE N == {i \in 1..Len(p) : p[i] = "NEW_CONN"}
             R == {i \in 1..Len(p) : p[i] = "RTC_MSG"}
  <1>1. IsFiniteSet(N) /\ IsFiniteSet(R)
    BY CountFinite
  <1>2. N \cup R = 1..Len(p)
    OBVIOUS
  <1>3. N \cap R = {}
    OBVIOUS
  <1>4. Cardinality(1..Len(p)) = Len(p)
    <2>1. 1 \in Int /\ Len(p) \in Int /\ Len(p) >= 0
      OBVIOUS
    <2>2. Cardinality(1..Len(p)) = IF 1 > Len(p) THEN 0 ELSE Len(p) - 1 + 1
      BY <2>1, FS_Interval
    <2> QED
      BY <2>1, <2>2
  <1>5. Cardinality(N) \in Nat /\ Cardinality(R) \in Nat
    BY <1>1, FS_CardinalityType
  <1>6. Count(p, "NEW_CONN") = Cardinality(N) /\ Count(p, "RTC_MSG") = Cardinality(R)
    BY DEF Count
  <1> HIDE DEF N, R
  <1>7. Cardinality(N \cup R) = Cardinality(N) + Cardinality(R) - Cardinality(N \cap R)
    BY <1>1, FS_Union
  <1>8. Cardinality(N \cap R) = 0
    BY <1>3, FS_EmptySet
  <1>9. Cardinality(N \cup R) = Len(p)
    BY <1>2, <1>4
  <1>10. Len(p) = Cardinality(N) + Cardinality(R)
    BY <1>5, <1>7, <1>8, <1>9, UnionSize
  <1> QED
    BY <1>6, <1>10

\* A signaling worker, the RTC server and an RTC worker can block each other
\* only when at least 3 * PipeCap + 3 messages are queued for them.
THEOREM DeadlockNeedsBacklog == Spec => []CircularWaitNeedsBacklog
  <1>1. ASSUME PipelineInv PROVE CircularWaitNeedsBacklog
    <2> SUFFICES ASSUME NEW w \in SW, NEW r \in RW, CircularWait(w, r)
                 PROVE  Len(srv_q) + Len(rw_q[r]) + Len(sw_q[w]) + Len(q_conn[w]) >= 3 * PipeCap + 3
      BY DEF CircularWaitNeedsBacklog
    <2> USE <1>1 DEF PipelineInv
    <2>1. PipeCap \in Nat /\ Len(srv_q) \in Nat /\ Len(rw_q[r]) \in Nat /\ Len(sw_q[w]) \in Nat
          /\ Len(q_conn[w]) \in Nat
      BY LenNat, PipeAssumption
    <2>2. Len(srv_q) >= PipeCap + 1
      <3>1. w \in Requesting
        BY DEF CircularWait, Requesting
      <3>2. Cardinality(Requesting) # 0 /\ Cardinality(Requesting) \in Nat
        BY <3>1, SendersNat, FS_EmptySet
      <3>3. Len(srv_q) = PipeCap + Cardinality(Requesting) + 0
        BY DEF CircularWait, TokensMatchMessages, ServerTokens, One
      <3> QED
        BY <3>2, <3>3, <2>1
    <2>3. Len(rw_q[r]) >= PipeCap + 1
      <3>1. Len(rw_q[r]) = PipeCap + 1 + 0
        BY DEF CircularWait, TokensMatchMessages, WorkerTokens, One
      <3> QED
        BY <3>1, <2>1
    <2>4. Len(sw_q[w]) + Len(q_conn[w]) >= PipeCap + 1
      <3>1. sw_pipe[w] \in Seq({"NEW_CONN", "RTC_MSG"}) /\ Len(sw_pipe[w]) = PipeCap
        BY DEF CircularWait, TypeOK
      <3>2. PipeCap = Count(sw_pipe[w], "NEW_CONN") + Count(sw_pipe[w], "RTC_MSG")
        BY <3>1, PipeLength
      <3>3. r \in Answering(w)
        BY DEF CircularWait, Answering
      <3>4. Cardinality(Answering(w)) # 0 /\ Cardinality(Answering(w)) \in Nat
        BY <3>3, SendersNat, FS_EmptySet
      <3>5. Count(sw_pipe[w], "NEW_CONN") \in Nat /\ Count(sw_pipe[w], "RTC_MSG") \in Nat
        BY CountNat
      <3>6. Len(sw_q[w]) >= Count(sw_pipe[w], "RTC_MSG") + 1
        BY <3>4, <3>5, <2>1 DEF TokensMatchMessages, ReplyTokens, One
      <3>7. Len(q_conn[w]) >= Count(sw_pipe[w], "NEW_CONN")
        BY <3>5, <2>1 DEF TokensMatchMessages, ConnTokens, One
      <3> QED
        BY <3>2, <3>5, <3>6, <3>7, <2>1, PipeSum
    <2> QED
      BY <2>1, <2>2, <2>3, <2>4, BacklogSum
  <1> QED
    BY PipelineInvariant, <1>1, PTL

-----------------------------------------------------------------------------
(* Order and places of messages *)

In(q, m) == \E i \in 1..Len(q) : q[i] = m
Ascending(q) == \A i, j \in 1..Len(q) : i < j => q[i].seq < q[j].seq
Distinct(q) == \A i, j \in 1..Len(q) : q[i] = q[j] => i = j

\* The RTC server's queue is in the order in which messages were put, and
\* nothing in it was passed on or carried out before.
ServerOrder ==
  /\ Ascending(srv_q)
  /\ \A s \in Stream : handled[s] <= sent
  /\ \A m \in Msg : In(srv_q, m) => m.seq <= sent /\ handled[m.stream] < m.seq

\* An RTC worker's queue has messages of its own streams, in the same order,
\* all older than those the server has yet to pass on.
WorkerOrder ==
  \A r \in RW :
    /\ Ascending(rw_q[r])
    /\ \A m \in Msg : In(rw_q[r], m) =>
         /\ GetWorker(m.stream) = r /\ m.seq <= sent /\ handled[m.stream] < m.seq
         /\ \A n \in Msg : In(srv_q, n) => m.seq < n.seq

\* What goes back is carried out and goes to the worker that asked.
ReplyOrder ==
  \A w \in SW :
    /\ Distinct(sw_q[w])
    /\ \A m \in Msg : In(sw_q[w], m) =>
         m.worker = w /\ m.cmd = "PUSH" /\ m.seq <= handled[m.stream]

\* A message that was given up is nowhere else.
DroppedOrder ==
  \A m \in dropped :
    /\ m.seq <= sent
    /\ \A n \in Msg : In(srv_q, n) => m.seq < n.seq
    /\ \A r \in RW : ~ In(rw_q[r], m)
    /\ \A w \in SW : ~ In(sw_q[w], m)

OrderInv == ServerOrder /\ WorkerOrder /\ ReplyOrder /\ DroppedOrder

\* On its way, or given up; known are these and the messages in hand.
Traced(m) ==
  \/ In(srv_q, m) \/ m \in dropped
  \/ \E r \in RW : In(rw_q[r], m)
  \/ \E w \in SW : In(sw_q[w], m)
Known(m) == Traced(m) \/ \E w \in SW : sw_msg[w] = m

Waits(c) == \E w \in SW : In(q_conn[w], c) \/ c \in waiting[w]

\* A connection that has not sent its request is in one place ...
ConnsApart ==
  /\ \A w \in SW : Distinct(q_conn[w])
  /\ \A v, w \in SW, c \in Conn :
       /\ In(q_conn[v], c) => c \notin waiting[w] /\ (In(q_conn[w], c) => v = w)
       /\ c \in waiting[v] /\ c \in waiting[w] => v = w

\* ... and has no message and no reply.
NotYetSent ==
  \A c \in Conn :
    /\ Waits(c) => c <= accepted
    /\ Waits(c) \/ c > accepted =>
         c \notin replied /\ \A m \in Msg : Known(m) => m.conn # c

\* A connection sends one message, and is answered when that is gone.
OneMessage ==
  /\ \A m, n \in Msg : Known(m) /\ Known(n) /\ m.conn = n.conn => m = n
  /\ \A m \in Msg : Traced(m) /\ m.cmd = "PUSH" => m.conn \notin replied

PlaceInv == ConnsApart /\ NotYetSent /\ OneMessage
-----------------------------------------------------------------------------
(* Queues *)

LEMMA InAppend ==
  ASSUME NEW T, NEW q \in Seq(T), NEW x \in T
  PROVE  /\ \A m : In(Append(q, x), m) <=> In(q, m) \/ m = x
         /\ Distinct(q) /\ ~ In(q, x) => Distinct(Append(q, x))
         /\ Ascending(q) /\ (\A i \in 1..Len(q) : q[i].seq < x.seq) => Ascending(Append(q, x))
  <1> DEFINE p == Append(q, x)
  <1>1. /\ Len(p) = Len(q) + 1 /\ Len(q) \in Nat
        /\ \A i \in 1..Len(q) : p[i] = q[i]
        /\ p[Len(p)] = x
    OBVIOUS
  <1>2. \A i \in 1..Len(p) : i \in 1..Len(q) \/ i = Len(p)
    BY <1>1
  <1>3. \A i \in 1..Len(q) : i \in 1..Len(p) /\ i < Len(p)
    BY <1>1
  <1>6. Len(p) \in 1..Len(p)
    BY <1>1
  <1> HIDE DEF p
  <1>4. \A m : In(p, m) <=> In(q, m) \/ m = x
    BY <1>1, <1>2, <1>3, <1>6 DEF In
  <1>5. Distinct(q) /\ ~ In(q, x) => Distinct(p)
    BY <1>1, <1>2, <1>3 DEF In, Distinct
  <1>7. ASSUME Ascending(q), \A i \in 1..Len(q) : q[i].seq < x.seq PROVE Ascending(p)
    <2> SUFFICES ASSUME NEW i \in 1..Len(p), NEW j \in 1..Len(p), i < j PROVE p[i].seq < p[j].seq
      BY DEF Ascending
    <2>1. i \in 1..Len(q)
      BY <1>1
    <2> QED
      BY <2>1, <1>1, <1>2, <1>7 DEF Ascending
  <1> QED
    BY <1>4, <1>5, <1>7 DEF p

LEMMA InTail ==
  ASSUME NEW T, NEW q \in Seq(T), q # << >>
  PROVE  /\ \A m : In(q, m) <=> In(Tail(q), m) \/ m = Head(q)
         /\ Distinct(q) => Distinct(Tail(q)) /\ ~ In(Tail(q), Head(q))
         /\ Ascending(q) => /\ Ascending(Tail(q))
                            /\ \A m : In(Tail(q), m) => Head(q).seq < m.seq
  <1> DEFINE p == Tail(q)
  <1>1. /\ Len(q) = Len(p) + 1 /\ Len(p) \in Nat
        /\ \A i \in 1..Len(p) : p[i] = q[i + 1]
        /\ Head(q) = q[1]
    OBVIOUS
  <1>2. 1 \in 1..Len(q) /\ \A i \in 1..Len(p) : i + 1 \in 1..Len(q) /\ i + 1 # 1 /\ 1 < i + 1
    BY <1>1
  <1>3. \A i \in 1..Len(q) : i = 1 \/ (i - 1 \in 1..Len(p) /\ q[i] = p[i - 1])
    BY <1>1
  <1>8. \A i, j \in 1..Len(p) : (i < j => i + 1 < j + 1) /\ (i + 1 = j + 1 => i = j)
    BY <1>1
  <1> HIDE DEF p
  <1>4. \A m : In(q, m) <=> In(p, m) \/ m = Head(q)
    BY SMTT(60), <1>1, <1>2, <1>3 DEF In
  <1>5. Distinct(q) => Distinct(p) /\ ~ In(p, Head(q))
    BY SMTT(90), <1>1, <1>2, <1>8 DEF In, Distinct
  <1>6. Ascending(q) => Ascending(p)
    BY <1>1, <1>2, <1>8 DEF Ascending
  <1>7. Ascending(q) => \A m : In(p, m) => Head(q).seq < m.seq
    BY <1>1, <1>2 DEF In, Ascending
  <1> QED
    BY <1>4, <1>5, <1>6, <1>7 DEF p

\* Taking the first message of an ascending queue takes its only copy.
LEMMA InAfterTake ==
  ASSUME NEW q \in Seq(Msg), q # << >>, Ascending(q)
  PROVE  \A m \in Msg : In(Tail(q), m) <=> In(q, m) /\ m # Head(q)
  <1>1. Head(q) \in Msg
    OBVIOUS
  <1>2. Head(q).seq \in Nat
    BY <1>1, MsgFields DEF Conn
  <1>3. ~ In(Tail(q), Head(q))
    BY <1>2, InTail
  <1> QED
    BY <1>3, InTail

\* What is in a queue of messages is a message.
LEMMA InMsg ==
  ASSUME NEW q \in Seq(Msg)
  PROVE  \A m : In(q, m) => m \in Msg
  BY DEF In

-----------------------------------------------------------------------------
(* Order *)

orderVars == <<srv_q, rw_q, sw_q, dropped, handled, sent>>

LEMMA OrderUnchanged == ASSUME OrderInv, UNCHANGED orderVars PROVE OrderInv'
  BY DEF OrderInv, ServerOrder, WorkerOrder, ReplyOrder, DroppedOrder, orderVars

\* A new message is the last of all.
LEMMA SendOrder ==
  ASSUME TypeOK, OrderInv, NEW w \in SW, NEW c \in Conn, NEW cmd \in Cmd, NEW s \in Stream,
         SwSendRequest(w, c, cmd, s)
  PROVE  OrderInv'
  <1> DEFINE msg == [conn |-> c, cmd |-> cmd, stream |-> s, worker |-> w, seq |-> sent + 1]
  <1>1. sent \in Nat /\ sent + 1 \in Conn
    BY PipeAssumption DEF TypeOK, SwSendRequest, Conn
  <1>2. msg \in Msg /\ msg.seq = sent + 1 /\ msg.stream = s
    BY <1>1 DEF Msg
  <1>3. /\ srv_q' = Append(srv_q, msg) /\ sent' = sent + 1
        /\ UNCHANGED <<rw_q, sw_q, dropped, handled>>
    BY DEF SwSendRequest, rwVars
  <1> HIDE DEF msg
  <1>4. srv_q \in Seq(Msg) /\ \A t \in Stream : handled[t] \in Nat
    BY PipeAssumption DEF TypeOK
  <1>5. \A m : In(srv_q', m) <=> In(srv_q, m) \/ m = msg
    BY <1>2, <1>3, <1>4, InAppend
  <1>6. \A m \in Msg : m.seq \in Nat
    BY MsgFields DEF Conn
  <1>7. \A m \in Msg : m.seq <= sent => m.seq < msg.seq /\ m.seq <= sent + 1
    BY <1>1, <1>2, <1>6
  <1>8. ServerOrder'
    <2>1. \A i \in 1..Len(srv_q) : srv_q[i] \in Msg /\ In(srv_q, srv_q[i])
      BY <1>4 DEF In
    <2>2. \A i \in 1..Len(srv_q) : srv_q[i].seq < msg.seq
      BY <2>1, <1>7 DEF OrderInv, ServerOrder
    <2>3. Ascending(srv_q')
      BY <2>2, <1>2, <1>3, <1>4, InAppend DEF OrderInv, ServerOrder
    <2>4. \A t \in Stream : handled[t] <= sent + 1 /\ handled[t] < sent + 1
      BY <1>1, <1>4 DEF OrderInv, ServerOrder
    <2>5. \A m \in Msg : In(srv_q', m) => m.seq <= sent' /\ handled'[m.stream] < m.seq
      <3> SUFFICES ASSUME NEW m \in Msg, In(srv_q', m)
                   PROVE  m.seq <= sent' /\ handled'[m.stream] < m.seq
        OBVIOUS
      <3>1. CASE In(srv_q, m)
        BY <3>1, <1>3, <1>7 DEF OrderInv, ServerOrder
      <3>2. CASE m = msg
        BY <3>2, <2>4, <1>1, <1>2, <1>3
      <3> QED
        BY <3>1, <3>2, <1>5
    <2> QED
      BY <2>3, <2>4, <2>5, <1>3 DEF ServerOrder
  <1>9. WorkerOrder'
    BY <1>3, <1>5, <1>7 DEF OrderInv, WorkerOrder
  <1>10. ReplyOrder'
    BY <1>3 DEF OrderInv, ReplyOrder
  <1>11. DroppedOrder'
    <2>1. dropped \subseteq Msg
      BY DEF TypeOK
    <2> QED
      BY <2>1, <1>3, <1>5, <1>7 DEF OrderInv, DroppedOrder
  <1> QED
    BY <1>8, <1>9, <1>10, <1>11 DEF OrderInv

\* What the RTC server does with the oldest message.
LEMMA SrvPasses ==
  ASSUME TypeOK, OrderInv, SrvProcessRtcMsg, srv_q # << >>
  PROVE  /\ Ascending(srv_q')
         /\ \A m \in Msg : In(srv_q', m) <=> In(srv_q, m) /\ m # Head(srv_q)
         /\ \A m \in Msg : In(srv_q', m) => Head(srv_q).seq < m.seq
         /\ In(srv_q, Head(srv_q))
         /\ \/ dropped' = dropped \cup {Head(srv_q)} /\ rw_q' = rw_q
            \/ /\ dropped' = dropped
               /\ \A r \in RW : rw_q'[r] = IF r = GetWorker(Head(srv_q).stream)
                                           THEN Append(rw_q[r], Head(srv_q)) ELSE rw_q[r]
  <1>1. srv_q \in Seq(Msg) /\ rw_q \in [RW -> Seq(Msg)]
    BY DEF TypeOK
  <1>2. Ascending(srv_q)
    BY DEF OrderInv, ServerOrder
  <1>3. /\ srv_q' = Tail(srv_q)
        /\ \/ dropped' = dropped \cup {Head(srv_q)} /\ rw_q' = rw_q
           \/ /\ dropped' = dropped
              /\ rw_q' = [rw_q EXCEPT ![GetWorker(Head(srv_q).stream)] = Append(@, Head(srv_q))]
    BY DEF SrvProcessRtcMsg
  <1>4. \A m \in Msg : In(srv_q', m) <=> In(srv_q, m) /\ m # Head(srv_q)
    BY <1>1, <1>2, <1>3, InAfterTake
  <1>5. Ascending(srv_q') /\ \A m \in Msg : In(srv_q', m) => Head(srv_q).seq < m.seq
    BY <1>1, <1>2, <1>3, InTail
  <1>6. In(srv_q, Head(srv_q))
    BY <1>1, InTail
  <1> QED
    BY <1>1, <1>3, <1>4, <1>5, <1>6

LEMMA SrvOrder ==
  ASSUME TypeOK, OrderInv, SrvProcessRtcMsg
  PROVE  OrderInv'
  <1>1. CASE srv_q = << >>
    <2>1. UNCHANGED orderVars
      BY <1>1 DEF SrvProcessRtcMsg, swVars, orderVars
    <2> QED
      BY <2>1, OrderUnchanged
  <1>2. CASE srv_q # << >>
    <2> DEFINE msg == Head(srv_q)
               k == GetWorker(msg.stream)
    <2>1. msg \in Msg /\ k \in RW
      BY <1>2, SrvTakes
    <2>2. UNCHANGED <<sw_q, handled, sent>>
      BY <1>2 DEF SrvProcessRtcMsg, swVars
    <2>3. /\ Ascending(srv_q')
          /\ \A m \in Msg : In(srv_q', m) <=> In(srv_q, m) /\ m # msg
          /\ \A m \in Msg : In(srv_q', m) => msg.seq < m.seq
          /\ In(srv_q, msg)
          /\ \/ dropped' = dropped \cup {msg} /\ rw_q' = rw_q
             \/ /\ dropped' = dropped
                /\ \A r \in RW : rw_q'[r] = IF r = k THEN Append(rw_q[r], msg) ELSE rw_q[r]
      BY <1>2, SrvPasses
    <2>4. msg.seq <= sent /\ handled[msg.stream] < msg.seq
          /\ \A r \in RW, m \in Msg : In(rw_q[r], m) => m.seq < msg.seq
      BY <2>1, <2>3 DEF OrderInv, ServerOrder, WorkerOrder
    <2>5. \A r \in RW : rw_q[r] \in Seq(Msg)
      BY DEF TypeOK
    <2>15. \A m \in Msg : m.seq \in Nat /\ m.stream \in Stream
      BY MsgFields DEF Conn
    <2>16. \A m \in Msg : handled[m.stream] \in Nat
      BY <2>15, PipeAssumption DEF TypeOK
    <2>17. msg.seq \in Nat
      BY <2>1, <2>15
    <2>6. ServerOrder'
      BY <2>2, <2>3 DEF OrderInv, ServerOrder
    <2>7. ReplyOrder'
      BY <2>2 DEF OrderInv, ReplyOrder
    <2>18. dropped \subseteq Msg
      BY DEF TypeOK
    <2>19. msg.stream \in Stream
      BY <2>1, <2>15
    <2>20. k = GetWorker(msg.stream)
      OBVIOUS
    <2> HIDE DEF msg, k
    <2>8. CASE dropped' = dropped \cup {msg} /\ rw_q' = rw_q
      <3>1. WorkerOrder'
        BY <2>8, <2>2, <2>3 DEF OrderInv, WorkerOrder
      <3>2. \A r \in RW : ~ In(rw_q[r], msg)
        BY <2>1, <2>4, <2>17
      <3>3. \A w \in SW : ~ In(sw_q[w], msg)
        BY <2>1, <2>4, <2>16, <2>17 DEF OrderInv, ReplyOrder
      <3>4. DroppedOrder'
        BY <3>2, <3>3, <2>8, <2>2, <2>3, <2>4, <2>18 DEF OrderInv, DroppedOrder
      <3> QED
        BY <3>1, <3>4, <2>6, <2>7 DEF OrderInv
    <2>9. CASE /\ dropped' = dropped
               /\ \A r \in RW : rw_q'[r] = IF r = k THEN Append(rw_q[r], msg) ELSE rw_q[r]
      <3>1. \A r \in RW : \A m : In(rw_q'[r], m) <=> In(rw_q[r], m) \/ (r = k /\ m = msg)
        BY <2>9, <2>1, <2>5, InAppend
      <3>2. \A r \in RW : Ascending(rw_q'[r])
        <4> SUFFICES ASSUME NEW r \in RW PROVE Ascending(rw_q'[r])
          OBVIOUS
        <4>1. Ascending(rw_q[r])
          BY DEF OrderInv, WorkerOrder
        <4>2. CASE r = k
          <5>1. \A i \in 1..Len(rw_q[r]) : rw_q[r][i] \in Msg /\ In(rw_q[r], rw_q[r][i])
            BY <2>5 DEF In
          <5>2. \A i \in 1..Len(rw_q[r]) : rw_q[r][i].seq < msg.seq
            BY <5>1, <2>4
          <5> QED
            BY <4>1, <4>2, <5>2, <2>1, <2>5, <2>9, InAppend
        <4>3. CASE r # k
          BY <4>1, <4>3, <2>9
        <4> QED
          BY <4>2, <4>3
      <3>3. WorkerOrder'
        <4> SUFFICES ASSUME NEW r \in RW, NEW m \in Msg, In(rw_q'[r], m)
                     PROVE  /\ GetWorker(m.stream) = r /\ m.seq <= sent /\ handled[m.stream] < m.seq
                            /\ \A n \in Msg : In(srv_q', n) => m.seq < n.seq
          BY <3>2, <2>2 DEF WorkerOrder
        <4>1. CASE In(rw_q[r], m)
          BY <4>1, <2>3 DEF OrderInv, WorkerOrder
        <4>2. CASE r = k /\ m = msg
          BY <4>2, <2>3, <2>4, <2>20
        <4> QED
          BY <4>1, <4>2, <3>1
      <3>4. DroppedOrder'
        <4> SUFFICES ASSUME NEW m \in dropped
                     PROVE  /\ m.seq <= sent
                            /\ \A n \in Msg : In(srv_q', n) => m.seq < n.seq
                            /\ \A r \in RW : ~ In(rw_q'[r], m)
                            /\ \A w \in SW : ~ In(sw_q[w], m)
          BY <2>2, <2>9 DEF DroppedOrder
        <4>1. m # msg
          BY <2>1, <2>3, <2>17 DEF OrderInv, DroppedOrder
        <4> QED
          BY <4>1, <3>1, <2>3 DEF OrderInv, DroppedOrder
      <3> QED
        BY <3>3, <3>4, <2>6, <2>7 DEF OrderInv
    <2> QED
      BY <2>3, <2>8, <2>9
  <1> QED
    BY <1>1, <1>2

\* What an RTC worker does with its oldest message.
LEMMA RwCarriesOut ==
  ASSUME TypeOK, OrderInv, NEW r \in RW, RwProcessRtcMsg(r), rw_q[r] # << >>
  PROVE  /\ \A q \in RW : Ascending(rw_q'[q])
         /\ \A q \in RW, m \in Msg : In(rw_q'[q], m) <=> In(rw_q[q], m) /\ ~ (q = r /\ m = Head(rw_q[r]))
         /\ \A m \in Msg : In(rw_q'[r], m) => Head(rw_q[r]).seq < m.seq
         /\ In(rw_q[r], Head(rw_q[r]))
         /\ \A s \in Stream :
              handled'[s] = IF s = Head(rw_q[r]).stream THEN Head(rw_q[r]).seq ELSE handled[s]
         /\ \/ sw_q' = sw_q
            \/ /\ Head(rw_q[r]).cmd = "PUSH"
               /\ \A w \in SW : sw_q'[w] = IF w = Head(rw_q[r]).worker
                                           THEN Append(sw_q[w], Head(rw_q[r])) ELSE sw_q[w]
         /\ UNCHANGED <<srv_q, dropped, sent>>
  <1>1. /\ rw_q \in [RW -> Seq(Msg)] /\ sw_q \in [SW -> Seq(Msg)]
        /\ handled \in [Stream -> 0..MaxConn]
    BY DEF TypeOK
  <1>2. \A q \in RW : Ascending(rw_q[q])
    BY DEF OrderInv, WorkerOrder
  <1>3. /\ rw_q' = [rw_q EXCEPT ![r] = Tail(rw_q[r])]
        /\ handled' = [handled EXCEPT ![Head(rw_q[r]).stream] = Head(rw_q[r]).seq]
        /\ \/ sw_q' = sw_q
           \/ /\ Head(rw_q[r]).cmd = "PUSH"
              /\ sw_q' = [sw_q EXCEPT ![Head(rw_q[r]).worker] = Append(@, Head(rw_q[r]))]
        /\ UNCHANGED <<srv_q, dropped, sent>>
    BY DEF RwProcessRtcMsg, srvVars
  <1>4. /\ \A m \in Msg : In(Tail(rw_q[r]), m) <=> In(rw_q[r], m) /\ m # Head(rw_q[r])
        /\ Ascending(Tail(rw_q[r]))
        /\ \A m \in Msg : In(Tail(rw_q[r]), m) => Head(rw_q[r]).seq < m.seq
        /\ In(rw_q[r], Head(rw_q[r]))
    <2>1. rw_q[r] \in Seq(Msg) /\ Ascending(rw_q[r])
      BY <1>1, <1>2
    <2> QED
      BY <2>1, InAfterTake, InTail
  <1>5. \A q \in RW : rw_q'[q] = IF q = r THEN Tail(rw_q[r]) ELSE rw_q[q]
    BY <1>1, <1>3
  <1>6. /\ \A q \in RW : Ascending(rw_q'[q])
        /\ \A q \in RW, m \in Msg : In(rw_q'[q], m) <=> In(rw_q[q], m) /\ ~ (q = r /\ m = Head(rw_q[r]))
        /\ \A m \in Msg : In(rw_q'[r], m) => Head(rw_q[r]).seq < m.seq
    BY <1>2, <1>4, <1>5
  <1>7. \A s \in Stream :
          handled'[s] = IF s = Head(rw_q[r]).stream THEN Head(rw_q[r]).seq ELSE handled[s]
    BY <1>1, <1>3
  <1>8. \/ sw_q' = sw_q
        \/ /\ Head(rw_q[r]).cmd = "PUSH"
           /\ \A w \in SW : sw_q'[w] = IF w = Head(rw_q[r]).worker
                                       THEN Append(sw_q[w], Head(rw_q[r])) ELSE sw_q[w]
    BY <1>1, <1>3
  <1> QED
    BY <1>3, <1>4, <1>6, <1>7, <1>8

LEMMA RwOrder ==
  ASSUME TypeOK, OrderInv, NEW r \in RW, RwProcessRtcMsg(r)
  PROVE  OrderInv'
  <1>1. CASE rw_q[r] = << >>
    <2>1. UNCHANGED orderVars
      BY <1>1 DEF RwProcessRtcMsg, srvVars, orderVars
    <2> QED
      BY <2>1, OrderUnchanged
  <1>2. CASE rw_q[r] # << >>
    <2> DEFINE msg == Head(rw_q[r])
    <2>1. msg \in Msg
      BY <1>2, RwTakes
    <2>2. /\ \A q \in RW : Ascending(rw_q'[q])
          /\ \A q \in RW, m \in Msg : In(rw_q'[q], m) <=> In(rw_q[q], m) /\ ~ (q = r /\ m = msg)
          /\ \A m \in Msg : In(rw_q'[r], m) => msg.seq < m.seq
          /\ In(rw_q[r], msg)
          /\ \A s \in Stream : handled'[s] = IF s = msg.stream THEN msg.seq ELSE handled[s]
          /\ \/ sw_q' = sw_q
             \/ /\ msg.cmd = "PUSH"
                /\ \A w \in SW : sw_q'[w] = IF w = msg.worker THEN Append(sw_q[w], msg) ELSE sw_q[w]
          /\ UNCHANGED <<srv_q, dropped, sent>>
      BY <1>2, RwCarriesOut
    <2> HIDE DEF msg
    <2>3. /\ GetWorker(msg.stream) = r /\ msg.seq <= sent /\ handled[msg.stream] < msg.seq
          /\ \A n \in Msg : In(srv_q, n) => msg.seq < n.seq
      BY <2>1, <2>2 DEF OrderInv, WorkerOrder
    <2>4. \A m \in Msg : m.seq \in Nat /\ m.stream \in Stream /\ handled[m.stream] \in Nat
      <3>1. \A m \in Msg : m.seq \in Nat /\ m.stream \in Stream
        BY MsgFields DEF Conn
      <3> QED
        BY <3>1, PipeAssumption DEF TypeOK
    <2>5. ServerOrder'
      <3>1. \A s \in Stream : handled'[s] <= sent
        BY <2>2, <2>3 DEF OrderInv, ServerOrder
      <3>2. \A m \in Msg : In(srv_q, m) => m.seq <= sent /\ handled'[m.stream] < m.seq
        BY <2>2, <2>3, <2>4 DEF OrderInv, ServerOrder
      <3> QED
        BY <3>1, <3>2, <2>2 DEF OrderInv, ServerOrder
    <2>6. WorkerOrder'
      <3> SUFFICES ASSUME NEW q \in RW, NEW m \in Msg, In(rw_q'[q], m)
                   PROVE  /\ GetWorker(m.stream) = q /\ m.seq <= sent /\ handled'[m.stream] < m.seq
                          /\ \A n \in Msg : In(srv_q, n) => m.seq < n.seq
        BY <2>2 DEF WorkerOrder
      <3>1. /\ GetWorker(m.stream) = q /\ m.seq <= sent /\ handled[m.stream] < m.seq
            /\ \A n \in Msg : In(srv_q, n) => m.seq < n.seq
        BY <2>2 DEF OrderInv, WorkerOrder
      <3>2. handled'[m.stream] < m.seq
        <4>1. CASE m.stream = msg.stream
          <5>1. q = r
            BY <4>1, <3>1, <2>3
          <5>2. msg.seq < m.seq
            BY <5>1, <2>2
          <5> QED
            BY <5>2, <4>1, <2>2, <2>4
        <4>2. CASE m.stream # msg.stream
          BY <4>2, <3>1, <2>2, <2>4
        <4> QED
          BY <4>1, <4>2
      <3> QED
        BY <3>1, <3>2
    <2>7. \A m \in Msg : m.seq <= handled[m.stream] => m.seq <= handled'[m.stream]
      <3> SUFFICES ASSUME NEW m \in Msg, m.seq <= handled[m.stream] PROVE m.seq <= handled'[m.stream]
        OBVIOUS
      <3>1. CASE m.stream = msg.stream
        <4>1. handled'[m.stream] = msg.seq /\ handled[m.stream] < msg.seq
          BY <3>1, <2>2, <2>3, <2>4
        <4>2. m.seq \in Nat /\ handled[m.stream] \in Nat /\ msg.seq \in Nat
          BY <2>1, <2>4
        <4> QED
          BY <4>1, <4>2
      <3>2. CASE m.stream # msg.stream
        BY <3>2, <2>2, <2>4
      <3> QED
        BY <3>1, <3>2
    <2>8. \A w \in SW : ~ In(sw_q[w], msg)
      <3>1. msg.seq \in Nat /\ handled[msg.stream] \in Nat
        BY <2>1, <2>4
      <3> QED
        BY <3>1, <2>1, <2>3 DEF OrderInv, ReplyOrder
    <2>9. CASE sw_q' = sw_q
      <3>1. ReplyOrder'
        BY <2>9, <2>7 DEF OrderInv, ReplyOrder
      <3>2. DroppedOrder'
        <4>1. dropped \subseteq Msg
          BY DEF TypeOK
        <4> QED
          BY <4>1, <2>2, <2>9 DEF OrderInv, DroppedOrder
      <3> QED
        BY <3>1, <3>2, <2>5, <2>6 DEF OrderInv
    <2>10. CASE /\ msg.cmd = "PUSH"
                /\ \A w \in SW : sw_q'[w] = IF w = msg.worker THEN Append(sw_q[w], msg) ELSE sw_q[w]
      <3>1. \A w \in SW : sw_q[w] \in Seq(Msg)
        BY DEF TypeOK
      <3>2. \A w \in SW : \A m : In(sw_q'[w], m) <=> In(sw_q[w], m) \/ (w = msg.worker /\ m = msg)
        BY <3>1, <2>1, <2>10, InAppend
      <3>3. \A w \in SW : Distinct(sw_q'[w])
        BY <3>1, <2>1, <2>8, <2>10, InAppend DEF OrderInv, ReplyOrder
      <3>4. msg.seq <= handled'[msg.stream]
        BY <2>1, <2>2, <2>4
      <3>5. ReplyOrder'
        <4> SUFFICES ASSUME NEW w \in SW, NEW m \in Msg, In(sw_q'[w], m)
                     PROVE  m.worker = w /\ m.cmd = "PUSH" /\ m.seq <= handled'[m.stream]
          BY <3>3 DEF ReplyOrder
        <4>1. CASE In(sw_q[w], m)
          BY <4>1, <2>7 DEF OrderInv, ReplyOrder
        <4>2. CASE w = msg.worker /\ m = msg
          BY <4>2, <3>4, <2>10
        <4> QED
          BY <4>1, <4>2, <3>2
      <3>6. msg \notin dropped
        BY <2>2 DEF OrderInv, DroppedOrder
      <3>7. DroppedOrder'
        <4>1. dropped \subseteq Msg
          BY DEF TypeOK
        <4> QED
          BY <4>1, <3>2, <3>6, <2>2 DEF OrderInv, DroppedOrder
      <3> QED
        BY <3>5, <3>7, <2>5, <2>6 DEF OrderInv
    <2> QED
      BY <2>2, <2>9, <2>10
  <1> QED
    BY <1>1, <1>2

\* What a signaling worker takes back.
LEMMA SwTakesBack ==
  ASSUME TypeOK, OrderInv, NEW w \in SW, SwProcessRtcMsg(w), sw_q[w] # << >>
  PROVE  /\ \A v \in SW : Distinct(sw_q'[v])
         /\ \A v \in SW : \A m : In(sw_q'[v], m) <=> In(sw_q[v], m) /\ ~ (v = w /\ m = Head(sw_q[w]))
         /\ Head(sw_q[w]) \in Msg /\ In(sw_q[w], Head(sw_q[w]))
         /\ Head(sw_q[w]).worker = w /\ Head(sw_q[w]).cmd = "PUSH"
         /\ replied' = replied \cup {Head(sw_q[w]).conn}
         /\ UNCHANGED <<srv_q, rw_q, dropped, handled, sent>>
  <1>1. sw_q \in [SW -> Seq(Msg)]
    BY DEF TypeOK
  <1>2. \A v \in SW : Distinct(sw_q[v])
    BY DEF OrderInv, ReplyOrder
  <1>3. /\ sw_q' = [sw_q EXCEPT ![w] = Tail(sw_q[w])]
        /\ replied' = IF Head(sw_q[w]).cmd = "PUSH" THEN replied \cup {Head(sw_q[w]).conn} ELSE replied
        /\ UNCHANGED <<srv_q, rw_q, dropped, handled, sent>>
    BY DEF SwProcessRtcMsg, srvVars, rwVars
  <1>4. sw_q[w] \in Seq(Msg)
    BY <1>1
  <1>5. Head(sw_q[w]) \in Msg
    BY <1>4
  <1>6. /\ \A m : In(sw_q[w], m) <=> In(Tail(sw_q[w]), m) \/ m = Head(sw_q[w])
        /\ Distinct(Tail(sw_q[w])) /\ ~ In(Tail(sw_q[w]), Head(sw_q[w]))
    BY <1>2, <1>4, InTail
  <1>7. \A v \in SW : sw_q'[v] = IF v = w THEN Tail(sw_q[w]) ELSE sw_q[v]
    BY <1>1, <1>3
  <1>8. Head(sw_q[w]).worker = w /\ Head(sw_q[w]).cmd = "PUSH"
    BY <1>5, <1>6 DEF OrderInv, ReplyOrder
  <1> QED
    BY <1>2, <1>3, <1>5, <1>6, <1>7, <1>8

LEMMA SwOrder ==
  ASSUME TypeOK, OrderInv, NEW w \in SW, SwProcessRtcMsg(w)
  PROVE  OrderInv'
  <1>1. CASE sw_q[w] = << >>
    <2>1. UNCHANGED orderVars
      BY <1>1 DEF SwProcessRtcMsg, srvVars, rwVars, orderVars
    <2> QED
      BY <2>1, OrderUnchanged
  <1>2. CASE sw_q[w] # << >>
    <2>1. /\ \A v \in SW : Distinct(sw_q'[v])
          /\ \A v \in SW : \A m : In(sw_q'[v], m) => In(sw_q[v], m)
          /\ UNCHANGED <<srv_q, rw_q, dropped, handled, sent>>
      BY <1>2, SwTakesBack
    <2> QED
      BY <2>1 DEF OrderInv, ServerOrder, WorkerOrder, ReplyOrder, DroppedOrder
  <1> QED
    BY <1>1, <1>2

LEMMA OrderInit == Init => OrderInv
  <1> SUFFICES ASSUME Init PROVE OrderInv
    OBVIOUS
  <1>1. \A m : ~ In(<< >>, m)
    BY DEF In
  <1>2. Ascending(<< >>) /\ Distinct(<< >>)
    BY DEF Ascending, Distinct
  <1> QED
    BY <1>1, <1>2 DEF Init, OrderInv, ServerOrder, WorkerOrder, ReplyOrder, DroppedOrder

LEMMA OrderStep == ASSUME TypeOK, OrderInv, [Next]_vars PROVE OrderInv'
  <1>1. CASE UNCHANGED vars
    <2>1. UNCHANGED orderVars
      BY <1>1 DEF vars, swVars, srvVars, rwVars, history, orderVars
    <2> QED
      BY <2>1, OrderUnchanged
  <1>2. CASE Accept \/ NotifyNewConn \/ CertificateExpires
    <2>1. UNCHANGED orderVars
      BY <1>2 DEF Accept, NotifyNewConn, CertificateExpires, swVars, srvVars, rwVars, history, orderVars
    <2> QED
      BY <2>1, OrderUnchanged
  <1>3. ASSUME NEW w \in SW, SwStep(w) PROVE OrderInv'
    <2>1. CASE SwRecvNotify(w) \/ SwNewConn(w) \/ SwNotifyServer(w)
      <3>1. UNCHANGED orderVars
        BY <2>1 DEF SwRecvNotify, SwNewConn, SwNotifyServer, srvVars, rwVars, history, orderVars
      <3> QED
        BY <3>1, OrderUnchanged
    <2> QED
      BY <1>3, <2>1, SwOrder DEF SwStep
  <1>4. CASE SrvStep
    <2>1. CASE SrvRecvNotify \/ SrvNotifyWorker
      <3>1. UNCHANGED orderVars
        BY <2>1 DEF SrvRecvNotify, SrvNotifyWorker, swVars, rwVars, history, orderVars
      <3> QED
        BY <3>1, OrderUnchanged
    <2> QED
      BY <1>4, <2>1, SrvOrder DEF SrvStep
  <1>5. ASSUME NEW r \in RW, RwStep(r) PROVE OrderInv'
    <2>1. CASE RwRecvNotify(r) \/ RwNotifyWorker(r)
      <3>1. UNCHANGED orderVars
        BY <2>1 DEF RwRecvNotify, RwNotifyWorker, swVars, srvVars, history, orderVars
      <3> QED
        BY <3>1, OrderUnchanged
    <2> QED
      BY <1>5, <2>1, RwOrder DEF RwStep
  <1> QED
    BY <1>1, <1>2, <1>3, <1>4, <1>5, SendOrder DEF Next

-----------------------------------------------------------------------------
(* Places *)

connVars == <<q_conn, waiting, accepted, replied>>

\* Steps that bring no message and leave the connections alone.
LEMMA PlaceFewer ==
  ASSUME PlaceInv, UNCHANGED connVars,
         \A m \in Msg : (Traced(m)' => Traced(m)) /\ (Known(m)' => Known(m))
  PROVE  PlaceInv'
  <1>1. \A c \in Conn : Waits(c)' <=> Waits(c)
    BY DEF Waits, connVars
  <1>2. ConnsApart'
    BY DEF PlaceInv, ConnsApart, connVars
  <1>3. NotYetSent'
    BY <1>1 DEF PlaceInv, NotYetSent, connVars
  <1>4. OneMessage'
    BY DEF PlaceInv, OneMessage, connVars
  <1> QED
    BY <1>2, <1>3, <1>4 DEF PlaceInv

LEMMA PlaceUnchanged ==
  ASSUME PlaceInv, UNCHANGED connVars, UNCHANGED <<srv_q, rw_q, sw_q, dropped, sw_msg>>
  PROVE  PlaceInv'
  <1>1. \A m \in Msg : (Traced(m)' => Traced(m)) /\ (Known(m)' => Known(m))
    BY DEF Traced, Known
  <1> QED
    BY <1>1, PlaceFewer

\* The RTC server moves the oldest message on, or gives it up.
LEMMA SrvPlace == ASSUME TypeOK, OrderInv, PlaceInv, SrvProcessRtcMsg PROVE PlaceInv'
  <1>1. UNCHANGED <<connVars, sw_q, sw_msg>>
    BY DEF SrvProcessRtcMsg, connVars, acceptor, swVars
  <1>2. CASE srv_q = << >>
    <2>1. UNCHANGED <<srv_q, rw_q, dropped>>
      BY <1>2 DEF SrvProcessRtcMsg
    <2> QED
      BY <1>1, <2>1, PlaceUnchanged
  <1>3. CASE srv_q # << >>
    <2>1. Head(srv_q) \in Msg
      BY <1>3, SrvTakes
    <2>2. /\ \A m \in Msg : In(srv_q', m) => In(srv_q, m)
          /\ In(srv_q, Head(srv_q))
          /\ \/ dropped' = dropped \cup {Head(srv_q)} /\ rw_q' = rw_q
             \/ /\ dropped' = dropped
                /\ \A r \in RW : rw_q'[r] = IF r = GetWorker(Head(srv_q).stream)
                                            THEN Append(rw_q[r], Head(srv_q)) ELSE rw_q[r]
      BY <1>3, SrvPasses
    <2>3. \A r \in RW : rw_q[r] \in Seq(Msg)
      BY DEF TypeOK
    <2>4. \A r \in RW : \A m : In(rw_q'[r], m) => In(rw_q[r], m) \/ m = Head(srv_q)
      BY <2>1, <2>2, <2>3, InAppend
    <2>5. \A m \in Msg : m \in dropped' => m \in dropped \/ m = Head(srv_q)
      BY <2>2
    <2>6. \A m \in Msg : Traced(m)' => Traced(m)
      BY <2>2, <2>4, <2>5, <1>1 DEF Traced
    <2>7. \A m \in Msg : Known(m)' => Known(m)
      BY <2>6, <1>1 DEF Known
    <2> QED
      BY <1>1, <2>6, <2>7, PlaceFewer
  <1> QED
    BY <1>2, <1>3

\* An RTC worker sends a push back, and is done with an answer.
LEMMA RwPlace == ASSUME TypeOK, OrderInv, PlaceInv, NEW r \in RW, RwProcessRtcMsg(r) PROVE PlaceInv'
  <1>1. UNCHANGED <<connVars, srv_q, dropped, sw_msg>>
    BY DEF RwProcessRtcMsg, connVars, acceptor, srvVars
  <1>2. CASE rw_q[r] = << >>
    <2>1. UNCHANGED <<rw_q, sw_q>>
      BY <1>2 DEF RwProcessRtcMsg
    <2> QED
      BY <1>1, <2>1, PlaceUnchanged
  <1>3. CASE rw_q[r] # << >>
    <2>1. Head(rw_q[r]) \in Msg
      BY <1>3, RwTakes
    <2>2. /\ \A q \in RW, m \in Msg : In(rw_q'[q], m) => In(rw_q[q], m)
          /\ In(rw_q[r], Head(rw_q[r]))
          /\ \/ sw_q' = sw_q
             \/ \A w \in SW : sw_q'[w] = IF w = Head(rw_q[r]).worker
                                         THEN Append(sw_q[w], Head(rw_q[r])) ELSE sw_q[w]
      BY <1>3, RwCarriesOut
    <2>3. \A w \in SW : sw_q[w] \in Seq(Msg)
      BY DEF TypeOK
    <2>4. \A w \in SW : \A m : In(sw_q'[w], m) => In(sw_q[w], m) \/ m = Head(rw_q[r])
      BY <2>1, <2>2, <2>3, InAppend
    <2>5. \A m \in Msg : Traced(m)' => Traced(m)
      BY <2>2, <2>4, <1>1 DEF Traced
    <2>6. \A m \in Msg : Known(m)' => Known(m)
      BY <2>5, <1>1 DEF Known
    <2> QED
      BY <1>1, <2>5, <2>6, PlaceFewer
  <1> QED
    BY <1>2, <1>3

\* A push that has come back is nowhere else, so its connection is answered once.
LEMMA SwPlace == ASSUME TypeOK, OrderInv, PlaceInv, NEW w \in SW, SwProcessRtcMsg(w) PROVE PlaceInv'
  <1>1. UNCHANGED <<q_conn, waiting, accepted, srv_q, rw_q, dropped, sw_msg>>
    BY DEF SwProcessRtcMsg, acceptor, srvVars, rwVars
  <1>2. CASE sw_q[w] = << >>
    <2>1. UNCHANGED <<sw_q, replied>>
      BY <1>2 DEF SwProcessRtcMsg
    <2> QED
      BY <1>1, <2>1, PlaceUnchanged DEF connVars
  <1>3. CASE sw_q[w] # << >>
    <2>14. PICK msg : msg = Head(sw_q[w])
      OBVIOUS
    <2>1. /\ \A v \in SW : \A m : In(sw_q'[v], m) <=> In(sw_q[v], m) /\ ~ (v = w /\ m = msg)
          /\ msg \in Msg /\ In(sw_q[w], msg)
          /\ msg.worker = w /\ msg.cmd = "PUSH"
          /\ replied' = replied \cup {msg.conn}
      BY <1>3, <2>14, SwTakesBack
    <2>2. msg.seq <= handled[msg.stream] /\ msg.seq \in Nat /\ handled[msg.stream] \in Nat
      <3>1. msg.stream \in Stream /\ msg.seq \in Conn
        BY <2>1, MsgFields
      <3> QED
        BY SMTT(60), <3>1, <2>1, PipeAssumption DEF TypeOK, Conn, OrderInv, ReplyOrder
    <2>3. ~ In(srv_q, msg)
      BY <2>1, <2>2 DEF OrderInv, ServerOrder
    <2>4. \A r \in RW : ~ In(rw_q[r], msg)
      BY <2>1, <2>2 DEF OrderInv, WorkerOrder
    <2>5. msg \notin dropped
      BY <2>1 DEF OrderInv, DroppedOrder
    <2>6. \A v \in SW : ~ In(sw_q'[v], msg)
      BY <2>1 DEF OrderInv, ReplyOrder
    <2>7. ~ Traced(msg)'
      BY <2>3, <2>4, <2>5, <2>6, <1>1 DEF Traced
    <2>8. \A m \in Msg : (Traced(m)' => Traced(m)) /\ (Known(m)' => Known(m))
      BY <2>1, <1>1 DEF Traced, Known
    <2>9. Known(msg)
      BY <2>1 DEF Known, Traced
    <2>10. \A c \in Conn : Waits(c)' <=> Waits(c)
      BY <1>1 DEF Waits
    <2>11. ConnsApart'
      BY <1>1 DEF PlaceInv, ConnsApart
    <2>12. NotYetSent'
      BY <1>1, <2>1, <2>8, <2>9, <2>10 DEF PlaceInv, NotYetSent
    <2>13. OneMessage'
      <3>1. ASSUME NEW m \in Msg, Traced(m)', m.cmd = "PUSH" PROVE m.conn \notin replied'
        <4>1. m.conn \notin replied /\ Known(m)
          BY <3>1, <2>8 DEF PlaceInv, OneMessage, Known
        <4>2. m.conn # msg.conn
          BY <4>1, <3>1, <2>1, <2>7, <2>9 DEF PlaceInv, OneMessage
        <4> QED
          BY <4>1, <4>2, <2>1
      <3> QED
        BY <3>1, <2>8 DEF PlaceInv, OneMessage
    <2> QED
      BY <2>11, <2>12, <2>13 DEF PlaceInv
  <1> QED
    BY <1>2, <1>3

\* An answer is replied to when it is sent, and no push has its connection.
LEMMA NotifyPlace ==
  ASSUME TypeOK, InHand, PlaceInv, NEW w \in SW, SwNotifyServer(w) PROVE PlaceInv'
  <1>1. UNCHANGED <<q_conn, waiting, accepted, srv_q, rw_q, sw_q, dropped>>
    BY DEF SwNotifyServer, acceptor, rwVars
  <1>2. sw_msg[w] \in Msg
    BY DEF TypeOK, InHand, SwNotifyServer
  <1>3. /\ \A v \in SW : sw_msg'[v] = IF v = w THEN None ELSE sw_msg[v]
        /\ replied' = IF sw_msg[w].cmd = "PUSH" THEN replied ELSE replied \cup {sw_msg[w].conn}
    BY DEF SwNotifyServer, TypeOK
  <1>4. \A m \in Msg : m # None
    BY NoneAssumption
  <1>5. \A m \in Msg : (Traced(m)' <=> Traced(m)) /\ (Known(m)' => Known(m))
    <2>1. \A m \in Msg : Traced(m)' <=> Traced(m)
      BY <1>1 DEF Traced
    <2>2. \A m \in Msg : (\E v \in SW : sw_msg'[v] = m) => \E v \in SW : sw_msg[v] = m
      BY <1>3, <1>4
    <2> QED
      BY <2>1, <2>2 DEF Known
  <1>6. Known(sw_msg[w])
    BY DEF Known
  <1>7. \A c \in Conn : Waits(c)' <=> Waits(c)
    BY <1>1 DEF Waits
  <1>8. ConnsApart'
    BY <1>1 DEF PlaceInv, ConnsApart
  <1>9. NotYetSent'
    BY <1>1, <1>2, <1>3, <1>5, <1>6, <1>7 DEF PlaceInv, NotYetSent
  <1>10. OneMessage'
    <2>1. ASSUME NEW m \in Msg, Traced(m)', m.cmd = "PUSH" PROVE m.conn \notin replied'
      <3>1. m.conn \notin replied /\ Known(m)
        BY <2>1, <1>5 DEF PlaceInv, OneMessage, Known
      <3>2. sw_msg[w].cmd # "PUSH" => m.conn # sw_msg[w].conn
        BY <3>1, <2>1, <1>2, <1>6 DEF PlaceInv, OneMessage
      <3> QED
        BY <3>1, <3>2, <1>3
    <2> QED
      BY <2>1, <1>5 DEF PlaceInv, OneMessage
  <1> QED
    BY <1>8, <1>9, <1>10 DEF PlaceInv

\* A new connection is in one queue.
LEMMA AcceptPlace == ASSUME TypeOK, PlaceInv, Accept PROVE PlaceInv'
  <1>1. UNCHANGED <<waiting, replied, srv_q, rw_q, sw_q, dropped, sw_msg>>
    BY DEF Accept, srvVars, rwVars, history
  <1>2. PICK w \in SW : w = next_worker_index
    BY DEF TypeOK
  <1>3. PICK c \in Conn : c = accepted + 1
    BY AcceptType, PipeAssumption DEF TypeOK, Accept, Conn
  <1>4. accepted \in Nat /\ accepted' = c /\ c > accepted
    BY <1>3, PipeAssumption DEF TypeOK, Accept
  <1>5. \A v \in SW : q_conn[v] \in Seq(Conn)
    BY DEF TypeOK
  <1>6. \A v \in SW : q_conn'[v] = IF v = w THEN Append(q_conn[v], c) ELSE q_conn[v]
    BY <1>2, <1>3 DEF TypeOK, Accept
  <1>7. \A v \in SW : \A d : In(q_conn'[v], d) <=> In(q_conn[v], d) \/ (v = w /\ d = c)
    BY <1>5, <1>6, InAppend
  <1>8. ~ Waits(c)
    BY <1>3, <1>4 DEF PlaceInv, NotYetSent, Conn
  <1>9. \A v \in SW : ~ In(q_conn[v], c) /\ c \notin waiting[v]
    BY <1>8 DEF Waits
  <1>10. \A v \in SW : Distinct(q_conn'[v])
    BY <1>5, <1>6, <1>9, InAppend DEF PlaceInv, ConnsApart
  <1>11. ConnsApart'
    <2> SUFFICES ASSUME NEW u \in SW, NEW v \in SW, NEW d \in Conn
                 PROVE  /\ In(q_conn'[u], d) => d \notin waiting[v] /\ (In(q_conn'[v], d) => u = v)
                        /\ d \in waiting[u] /\ d \in waiting[v] => u = v
      BY <1>1, <1>10 DEF ConnsApart
    <2>1. CASE d = c
      BY <2>1, <1>7, <1>9
    <2>2. CASE d # c
      BY <2>2, <1>7 DEF PlaceInv, ConnsApart
    <2> QED
      BY <2>1, <2>2
  <1>12. \A d \in Conn : Waits(d)' <=> Waits(d) \/ d = c
    BY <1>1, <1>7 DEF Waits
  <1>13. \A m \in Msg : (Traced(m)' <=> Traced(m)) /\ (Known(m)' <=> Known(m))
    BY <1>1 DEF Traced, Known
  <1>14. NotYetSent'
    <2> SUFFICES ASSUME NEW d \in Conn
                 PROVE  /\ Waits(d)' => d <= accepted'
                        /\ Waits(d)' \/ d > accepted' =>
                             d \notin replied' /\ \A m \in Msg : Known(m)' => m.conn # d
      BY DEF NotYetSent
    <2>1. d \in Nat
      BY DEF Conn
    <2>2. Waits(d)' => d <= accepted'
      BY <2>1, <1>3, <1>4, <1>12 DEF PlaceInv, NotYetSent
    <2>3. Waits(d)' \/ d > accepted' => Waits(d) \/ d > accepted
      BY <2>1, <1>3, <1>4, <1>12
    <2>4. Waits(d) \/ d > accepted => d \notin replied /\ \A m \in Msg : Known(m) => m.conn # d
      BY DEF PlaceInv, NotYetSent
    <2> QED
      BY <2>2, <2>3, <2>4, <1>1, <1>13
  <1>15. OneMessage'
    BY <1>1, <1>13 DEF PlaceInv, OneMessage
  <1> QED
    BY <1>11, <1>14, <1>15 DEF PlaceInv

\* It waits for the client's request once the worker has taken it.
LEMMA NewConnPlace == ASSUME TypeOK, PlaceInv, NEW w \in SW, SwNewConn(w) PROVE PlaceInv'
  <1>1. UNCHANGED <<accepted, replied, srv_q, rw_q, sw_q, dropped, sw_msg>>
    BY DEF SwNewConn, acceptor, srvVars, rwVars, history
  <1>2. CASE q_conn[w] = << >>
    <2>1. UNCHANGED <<q_conn, waiting>>
      BY <1>2 DEF SwNewConn
    <2> QED
      BY <1>1, <2>1, PlaceUnchanged DEF connVars
  <1>3. CASE q_conn[w] # << >>
    <2>1. PICK c : c = Head(q_conn[w])
      OBVIOUS
    <2>2. q_conn[w] \in Seq(Conn)
      BY DEF TypeOK
    <2>3. c \in Conn
      BY <1>3, <2>1, <2>2
    <2>4. /\ \A v \in SW : q_conn'[v] = IF v = w THEN Tail(q_conn[w]) ELSE q_conn[v]
          /\ \A v \in SW : waiting'[v] = IF v = w THEN waiting[w] \cup {c} ELSE waiting[v]
      BY <1>3, <2>1 DEF TypeOK, SwNewConn
    <2>5. Distinct(q_conn[w])
      BY DEF PlaceInv, ConnsApart
    <2>6. /\ \A d : In(q_conn[w], d) <=> In(Tail(q_conn[w]), d) \/ d = c
          /\ Distinct(Tail(q_conn[w])) /\ ~ In(Tail(q_conn[w]), c)
      BY <1>3, <2>1, <2>2, <2>5, InTail
    <2>7. \A v \in SW : \A d : In(q_conn'[v], d) <=> In(q_conn[v], d) /\ ~ (v = w /\ d = c)
      BY <2>4, <2>6
    <2>8. \A v \in SW : Distinct(q_conn'[v])
      BY <2>4, <2>6 DEF PlaceInv, ConnsApart
    <2>9. \A v \in SW : c \notin waiting[v] /\ (In(q_conn[v], c) => v = w)
      BY <2>3, <2>6 DEF PlaceInv, ConnsApart
    <2>10. ConnsApart'
      <3> SUFFICES ASSUME NEW u \in SW, NEW v \in SW, NEW d \in Conn
                   PROVE  /\ In(q_conn'[u], d) => d \notin waiting'[v] /\ (In(q_conn'[v], d) => u = v)
                          /\ d \in waiting'[u] /\ d \in waiting'[v] => u = v
        BY <2>8 DEF ConnsApart
      <3>1. CASE d = c
        BY <3>1, <2>4, <2>7, <2>9
      <3>2. CASE d # c
        <4>1. In(q_conn'[u], d) => In(q_conn[u], d)
          BY <2>7
        <4>2. In(q_conn'[v], d) => In(q_conn[v], d)
          BY <2>7
        <4>3. (d \in waiting'[u] => d \in waiting[u]) /\ (d \in waiting'[v] => d \in waiting[v])
          BY <3>2, <2>4
        <4> QED
          BY <4>1, <4>2, <4>3 DEF PlaceInv, ConnsApart
      <3> QED
        BY <3>1, <3>2
    <2>11. \A d \in Conn : Waits(d)' => Waits(d)
      <3> SUFFICES ASSUME NEW d \in Conn, NEW v \in SW, In(q_conn'[v], d) \/ d \in waiting'[v]
                   PROVE  Waits(d)
        BY DEF Waits
      <3>1. CASE In(q_conn'[v], d)
        BY <3>1, <2>7 DEF Waits
      <3>2. CASE d \in waiting'[v]
        BY <3>2, <2>4, <2>6 DEF Waits
      <3> QED
        BY <3>1, <3>2
    <2>12. \A m \in Msg : (Traced(m)' <=> Traced(m)) /\ (Known(m)' <=> Known(m))
      BY <1>1 DEF Traced, Known
    <2>13. NotYetSent'
      BY <1>1, <2>11, <2>12 DEF PlaceInv, NotYetSent
    <2>14. OneMessage'
      BY <1>1, <2>12 DEF PlaceInv, OneMessage
    <2> QED
      BY <2>10, <2>13, <2>14 DEF PlaceInv
  <1> QED
    BY <1>2, <1>3

\* Its request is the only message it has.
LEMMA SendPlace ==
  ASSUME TypeOK, PlaceInv, NEW w \in SW, NEW c \in Conn, NEW cmd \in Cmd, NEW s \in Stream,
         SwSendRequest(w, c, cmd, s)
  PROVE  PlaceInv'
  <1>1. PICK msg : msg = [conn |-> c, cmd |-> cmd, stream |-> s, worker |-> w, seq |-> sent + 1]
    OBVIOUS
  <1>2. sent + 1 \in Conn
    BY PipeAssumption DEF TypeOK, SwSendRequest, Conn
  <1>3. msg \in Msg /\ msg.conn = c
    BY <1>1, <1>2 DEF Msg
  <1>4. /\ c \in waiting[w]
        /\ srv_q' = Append(srv_q, msg)
        /\ \A v \in SW : sw_msg'[v] = IF v = w THEN msg ELSE sw_msg[v]
        /\ \A v \in SW : waiting'[v] = IF v = w THEN waiting[w] \ {c} ELSE waiting[v]
        /\ UNCHANGED <<q_conn, accepted, replied, rw_q, sw_q, dropped>>
    BY <1>1 DEF TypeOK, SwSendRequest, acceptor, rwVars
  <1>5. srv_q \in Seq(Msg)
    BY DEF TypeOK
  <1>6. \A m : In(srv_q', m) <=> In(srv_q, m) \/ m = msg
    BY <1>3, <1>4, <1>5, InAppend
  <1>7. \A m \in Msg : (Traced(m)' => Traced(m) \/ m = msg) /\ (Known(m)' => Known(m) \/ m = msg)
    <2>1. \A m \in Msg : Traced(m)' => Traced(m) \/ m = msg
      BY <1>4, <1>6 DEF Traced
    <2>2. \A m \in Msg : (\E v \in SW : sw_msg'[v] = m) => (\E v \in SW : sw_msg[v] = m) \/ m = msg
      BY <1>4
    <2> QED
      BY <2>1, <2>2 DEF Known
  <1>8. Waits(c)
    BY <1>4 DEF Waits
  <1>9. c <= accepted /\ c \notin replied /\ \A m \in Msg : Known(m) => m.conn # c
    BY <1>8 DEF PlaceInv, NotYetSent
  <1>10. ConnsApart'
    <2>1. \A v \in SW, d \in Conn : d \in waiting'[v] => d \in waiting[v]
      BY <1>4
    <2> QED
      BY <2>1, <1>4 DEF PlaceInv, ConnsApart
  <1>11. \A d \in Conn : Waits(d)' => Waits(d) /\ d # c
    <2> SUFFICES ASSUME NEW d \in Conn, NEW v \in SW, In(q_conn[v], d) \/ d \in waiting'[v]
                 PROVE  Waits(d) /\ d # c
      BY <1>4 DEF Waits
    <2>1. CASE In(q_conn[v], d)
      BY <2>1, <1>4 DEF Waits, PlaceInv, ConnsApart
    <2>2. CASE d \in waiting'[v]
      <3>1. d \in waiting[v] /\ (v = w => d # c)
        BY <2>2, <1>4
      <3>2. v # w => c \notin waiting[v]
        BY <1>4 DEF PlaceInv, ConnsApart
      <3> QED
        BY <3>1, <3>2 DEF Waits
    <2> QED
      BY <2>1, <2>2
  <1>12. NotYetSent'
    <2> SUFFICES ASSUME NEW d \in Conn
                 PROVE  /\ Waits(d)' => d <= accepted
                        /\ Waits(d)' \/ d > accepted =>
                             d \notin replied /\ \A m \in Msg : Known(m)' => m.conn # d
      BY <1>4 DEF NotYetSent
    <2>1. Waits(d)' => d <= accepted
      BY <1>11 DEF PlaceInv, NotYetSent
    <2>2. c \in Nat /\ d \in Nat /\ accepted \in Nat
      BY PipeAssumption DEF TypeOK, Conn
    <2>3. Waits(d)' \/ d > accepted => d # c /\ (Waits(d) \/ d > accepted)
      BY <2>2, <1>9, <1>11
    <2> QED
      BY <2>1, <2>3, <1>3, <1>7 DEF PlaceInv, NotYetSent
  <1>13. OneMessage'
    <2>1. ASSUME NEW m \in Msg, NEW n \in Msg, Known(m)', Known(n)', m.conn = n.conn PROVE m = n
      BY <2>1, <1>3, <1>7, <1>9 DEF PlaceInv, OneMessage
    <2>2. ASSUME NEW m \in Msg, Traced(m)', m.cmd = "PUSH" PROVE m.conn \notin replied
      BY <2>2, <1>3, <1>7, <1>9 DEF PlaceInv, OneMessage
    <2> QED
      BY <2>1, <2>2, <1>4 DEF OneMessage
  <1> QED
    BY <1>10, <1>12, <1>13 DEF PlaceInv

LEMMA PlaceInit == Init => PlaceInv
  <1> SUFFICES ASSUME Init PROVE PlaceInv
    OBVIOUS
  <1>1. \A m : ~ In(<< >>, m)
    BY DEF In
  <1>2. Distinct(<< >>)
    BY DEF Distinct
  <1>3. \A m \in Msg : ~ Known(m) /\ ~ Traced(m)
    BY <1>1, NoneAssumption DEF Init, Known, Traced
  <1>4. \A c \in Conn : ~ Waits(c)
    BY <1>1 DEF Init, Waits
  <1>5. ConnsApart
    BY <1>1, <1>2 DEF Init, ConnsApart
  <1>6. NotYetSent
    BY <1>3, <1>4 DEF Init, NotYetSent
  <1> QED
    BY <1>3, <1>5, <1>6 DEF PlaceInv, OneMessage

LEMMA PlaceStep == ASSUME TypeOK, InHand, OrderInv, PlaceInv, [Next]_vars PROVE PlaceInv'
  <1> DEFINE same == UNCHANGED <<connVars, srv_q, rw_q, sw_q, dropped, sw_msg>>
  <1>1. CASE same
    BY <1>1, PlaceUnchanged
  <1>2. CASE UNCHANGED vars
    <2>1. same
      BY <1>2 DEF vars, acceptor, swVars, srvVars, rwVars, history, connVars
    <2> QED
      BY <1>1, <2>1
  <1>3. CASE NotifyNewConn \/ CertificateExpires
    <2>1. same
      BY <1>3 DEF NotifyNewConn, CertificateExpires, acceptor, swVars, srvVars, rwVars, history, connVars
    <2> QED
      BY <1>1, <2>1
  <1>4. ASSUME NEW w \in SW, SwStep(w) PROVE PlaceInv'
    <2>1. CASE SwRecvNotify(w)
      <3>1. same
        BY <2>1 DEF SwRecvNotify, acceptor, srvVars, rwVars, history, connVars
      <3> QED
        BY <1>1, <3>1
    <2> HIDE DEF same
    <2> QED
      BY <1>4, <2>1, NewConnPlace, SwPlace, NotifyPlace DEF SwStep
  <1>5. CASE SrvStep
    <2>1. CASE SrvRecvNotify \/ SrvNotifyWorker
      <3>1. same
        BY <2>1 DEF SrvRecvNotify, SrvNotifyWorker, acceptor, swVars, rwVars, history, connVars
      <3> QED
        BY <1>1, <3>1
    <2> HIDE DEF same
    <2> QED
      BY <1>5, <2>1, SrvPlace DEF SrvStep
  <1>6. ASSUME NEW r \in RW, RwStep(r) PROVE PlaceInv'
    <2>1. CASE RwRecvNotify(r) \/ RwNotifyWorker(r)
      <3>1. same
        BY <2>1 DEF RwRecvNotify, RwNotifyWorker, acceptor, swVars, srvVars, history, connVars
      <3> QED
        BY <1>1, <3>1
    <2> HIDE DEF same
    <2> QED
      BY <1>6, <2>1, RwPlace DEF RwStep
  <1> HIDE DEF same
  <1> QED
    BY <1>2, <1>3, <1>4, <1>5, <1>6, AcceptPlace, SendPlace DEF Next

-----------------------------------------------------------------------------
(* No request is lost, none finishes twice *)

\* What was sent is on its way, given up or finished, and what is on its way
\* was sent; an applied answer is behind its stream's last message.
AccountInv ==
  /\ \A m \in Msg : Traced(m) => m \in requests
  /\ \A m \in requests : Traced(m) \/ Finished(m)
  /\ \A m \in applied : m \in Msg /\ m.cmd # "PUSH" /\ m.seq <= handled[m.stream] /\ m \notin dropped

accountVars == <<srv_q, rw_q, sw_q, dropped, requests, applied, handled>>

\* Steps that leave the messages alone, though they may answer connections.
LEMMA AccountUnchanged ==
  ASSUME AccountInv, UNCHANGED accountVars, replied \subseteq replied'
  PROVE  AccountInv'
  <1>1. \A m : Traced(m)' <=> Traced(m)
    BY DEF Traced, accountVars
  <1>2. \A m : Finished(m) => Finished(m)'
    BY DEF Finished, accountVars
  <1> QED
    BY <1>1, <1>2 DEF AccountInv, accountVars

LEMMA SendAccount ==
  ASSUME TypeOK, AccountInv, NEW w \in SW, NEW c \in Conn, NEW cmd \in Cmd, NEW s \in Stream,
         SwSendRequest(w, c, cmd, s)
  PROVE  AccountInv'
  <1>1. PICK msg : msg = [conn |-> c, cmd |-> cmd, stream |-> s, worker |-> w, seq |-> sent + 1]
    OBVIOUS
  <1>2. sent + 1 \in Conn
    BY PipeAssumption DEF TypeOK, SwSendRequest, Conn
  <1>3. msg \in Msg
    BY <1>1, <1>2 DEF Msg
  <1>4. /\ srv_q' = Append(srv_q, msg) /\ requests' = requests \cup {msg}
        /\ UNCHANGED <<rw_q, sw_q, dropped, replied, applied, handled>>
    BY <1>1 DEF SwSendRequest, rwVars
  <1>5. srv_q \in Seq(Msg)
    BY DEF TypeOK
  <1>6. \A m : In(srv_q', m) <=> In(srv_q, m) \/ m = msg
    BY <1>3, <1>4, <1>5, InAppend
  <1>7. \A m : Traced(m)' <=> Traced(m) \/ m = msg
    BY <1>4, <1>6 DEF Traced
  <1>8. \A m : Finished(m)' <=> Finished(m)
    BY <1>4 DEF Finished
  <1> QED
    BY <1>4, <1>7, <1>8 DEF AccountInv

\* The RTC server moves the oldest message on, or gives it up: either way it
\* is still known.
LEMMA SrvAccount == ASSUME TypeOK, OrderInv, AccountInv, SrvProcessRtcMsg PROVE AccountInv'
  <1>1. UNCHANGED <<sw_q, requests, replied, applied, handled>>
    BY DEF SrvProcessRtcMsg, swVars
  <1>2. CASE srv_q = << >>
    <2>1. UNCHANGED <<srv_q, rw_q, dropped>>
      BY <1>2 DEF SrvProcessRtcMsg
    <2> QED
      BY <1>1, <2>1, AccountUnchanged DEF accountVars
  <1>3. CASE srv_q # << >>
    <2>0. PICK msg : msg = Head(srv_q)
      OBVIOUS
    <2>1. msg \in Msg
      BY <1>3, <2>0, SrvTakes
    <2>2. /\ \A m \in Msg : In(srv_q', m) <=> In(srv_q, m) /\ m # msg
          /\ In(srv_q, msg)
          /\ \/ dropped' = dropped \cup {msg} /\ rw_q' = rw_q
             \/ /\ dropped' = dropped
                /\ \A r \in RW : rw_q'[r] = IF r = GetWorker(msg.stream)
                                            THEN Append(rw_q[r], msg) ELSE rw_q[r]
      BY <1>3, <2>0, SrvPasses
    <2>3. \A r \in RW : rw_q[r] \in Seq(Msg)
      BY DEF TypeOK
    <2>4. GetWorker(msg.stream) \in RW
      BY <2>1, MsgFields, GetWorkerType
    <2>5. CASE dropped' = dropped \cup {msg} /\ rw_q' = rw_q
      <3>1. \A m \in Msg : Traced(m)' <=> Traced(m)
        BY <2>2, <2>5, <1>1 DEF Traced
      <3>2. msg \notin applied
        <4>1. msg \in applied => msg.seq <= handled[msg.stream]
          BY DEF AccountInv
        <4>2. handled[msg.stream] < msg.seq
          BY <2>1, <2>2 DEF OrderInv, ServerOrder
        <4>3. msg.seq \in Nat /\ msg.stream \in Stream
          BY <2>1, MsgFields DEF Conn
        <4>4. handled[msg.stream] \in Nat
          BY <4>3, PipeAssumption DEF TypeOK
        <4> QED
          BY <4>1, <4>2, <4>3, <4>4
      <3>3. \A m : Finished(m)' <=> Finished(m)
        BY <1>1 DEF Finished
      <3>4. requests \subseteq Msg
        BY DEF TypeOK
      <3> QED
        BY <3>1, <3>2, <3>3, <3>4, <2>5, <1>1 DEF AccountInv
    <2>6. CASE /\ dropped' = dropped
               /\ \A r \in RW : rw_q'[r] = IF r = GetWorker(msg.stream)
                                           THEN Append(rw_q[r], msg) ELSE rw_q[r]
      <3>1. \A r \in RW : \A m : In(rw_q'[r], m) <=> In(rw_q[r], m) \/ (r = GetWorker(msg.stream) /\ m = msg)
        BY <2>1, <2>3, <2>6, InAppend
      <3>2. \A m \in Msg : (\E r \in RW : In(rw_q'[r], m)) <=> (\E r \in RW : In(rw_q[r], m)) \/ m = msg
        BY <3>1, <2>4
      <3>3. \A m \in Msg : Traced(m)' <=> Traced(m)
        BY <2>2, <2>6, <3>2, <1>1 DEF Traced
      <3>4. \A m : Finished(m)' <=> Finished(m)
        BY <1>1 DEF Finished
      <3>5. requests \subseteq Msg
        BY DEF TypeOK
      <3> QED
        BY <3>3, <3>4, <3>5, <2>6, <1>1 DEF AccountInv
    <2> QED
      BY <2>2, <2>5, <2>6
  <1> QED
    BY <1>2, <1>3

\* An RTC worker sends a push back, and finishes an answer.
LEMMA RwAccount ==
  ASSUME TypeOK, OrderInv, AccountInv, NEW r \in RW, RwProcessRtcMsg(r) PROVE AccountInv'
  <1>1. UNCHANGED <<srv_q, dropped, requests, replied>>
    BY DEF RwProcessRtcMsg, srvVars
  <1>2. CASE rw_q[r] = << >>
    <2>1. UNCHANGED <<rw_q, sw_q, applied, handled>>
      BY <1>2 DEF RwProcessRtcMsg
    <2> QED
      BY <1>1, <2>1, AccountUnchanged DEF accountVars
  <1>3. CASE rw_q[r] # << >>
    <2>0. PICK msg : msg = Head(rw_q[r])
      OBVIOUS
    <2>1. msg \in Msg
      BY <1>3, <2>0, RwTakes
    <2>2. msg.stream \in Stream /\ msg.worker \in SW /\ msg.seq \in Nat
      BY <2>1, MsgFields DEF Conn
    <2>3. /\ \A q \in RW, m \in Msg : In(rw_q'[q], m) <=> In(rw_q[q], m) /\ ~ (q = r /\ m = msg)
          /\ In(rw_q[r], msg)
          /\ \A s \in Stream : handled'[s] = IF s = msg.stream THEN msg.seq ELSE handled[s]
      BY <1>3, <2>0, RwCarriesOut
    <2>4. \/ /\ msg.cmd = "PUSH" /\ UNCHANGED applied
             /\ sw_q' = [sw_q EXCEPT ![msg.worker] = Append(@, msg)]
          \/ msg.cmd # "PUSH" /\ applied' = applied \cup {msg} /\ UNCHANGED sw_q
      BY <1>3, <2>0 DEF RwProcessRtcMsg
    <2>5. handled[msg.stream] < msg.seq /\ handled[msg.stream] \in Nat
      <3>1. handled[msg.stream] \in Nat
        BY <2>2, PipeAssumption DEF TypeOK
      <3> QED
        BY <3>1, <2>1, <2>3 DEF OrderInv, WorkerOrder
    <2>6. \A m \in applied : m.seq <= handled'[m.stream]
      <3> SUFFICES ASSUME NEW m \in applied PROVE m.seq <= handled'[m.stream]
        OBVIOUS
      <3>1. m \in Msg /\ m.seq <= handled[m.stream]
        BY DEF AccountInv
      <3>2. m.stream \in Stream /\ m.seq \in Nat
        BY <3>1, MsgFields DEF Conn
      <3>3. handled[m.stream] \in Nat
        BY <3>2, PipeAssumption DEF TypeOK
      <3>4. CASE m.stream = msg.stream
        BY <3>4, <3>1, <3>2, <3>3, <2>2, <2>3, <2>5
      <3>5. CASE m.stream # msg.stream
        BY <3>5, <3>1, <3>2, <2>3
      <3> QED
        BY <3>4, <3>5
    <2>7. requests \subseteq Msg
      BY DEF TypeOK
    <2>8. msg \in requests /\ msg \notin dropped
      BY <2>1, <2>3 DEF AccountInv, Traced, OrderInv, DroppedOrder
    <2>9. \A m \in Msg : m # msg => ((\E q \in RW : In(rw_q'[q], m)) <=> (\E q \in RW : In(rw_q[q], m)))
      BY <2>3
    <2>10. \A m \in Msg : (\E q \in RW : In(rw_q'[q], m)) => (\E q \in RW : In(rw_q[q], m))
      BY <2>3
    <2>11. CASE /\ msg.cmd = "PUSH" /\ UNCHANGED applied
                /\ sw_q' = [sw_q EXCEPT ![msg.worker] = Append(@, msg)]
      <3>1. \A w \in SW : sw_q[w] \in Seq(Msg)
        BY DEF TypeOK
      <3>2. \A w \in SW : sw_q'[w] = IF w = msg.worker THEN Append(sw_q[w], msg) ELSE sw_q[w]
        BY <2>11 DEF TypeOK
      <3>3. \A w \in SW : \A m : In(sw_q'[w], m) <=> In(sw_q[w], m) \/ (w = msg.worker /\ m = msg)
        BY <2>1, <3>1, <3>2, InAppend
      <3>4. \A m : (\E w \in SW : In(sw_q'[w], m)) <=> (\E w \in SW : In(sw_q[w], m)) \/ m = msg
        BY <3>3, <2>2
      <3>5. Traced(msg)
        BY <2>3 DEF Traced
      <3>6. \A m \in Msg : Traced(m)' <=> Traced(m)
        BY <3>4, <3>5, <2>9, <2>10, <1>1 DEF Traced
      <3>7. \A m : Finished(m)' <=> Finished(m)
        BY <2>11, <1>1 DEF Finished
      <3> QED
        BY <3>6, <3>7, <2>6, <2>7, <2>11, <1>1 DEF AccountInv
    <2>12. CASE msg.cmd # "PUSH" /\ applied' = applied \cup {msg} /\ UNCHANGED sw_q
      <3>1. \A m \in Msg : /\ Traced(m)' => Traced(m)
                           /\ Traced(m) /\ m # msg => Traced(m)'
        BY <2>9, <2>10, <2>12, <1>1 DEF Traced
      <3>2. \A m : Finished(m) \/ m = msg => Finished(m)'
        BY <2>12, <1>1 DEF Finished
      <3>3. \A m \in requests : Traced(m)' \/ Finished(m)'
        BY <3>1, <3>2, <2>7 DEF AccountInv
      <3>4. msg.seq <= handled'[msg.stream]
        BY <2>2, <2>3
      <3>5. \A m \in applied' : m \in Msg /\ m.cmd # "PUSH" /\ m.seq <= handled'[m.stream] /\ m \notin dropped
        BY <3>4, <2>1, <2>6, <2>8, <2>12 DEF AccountInv
      <3> QED
        BY <3>1, <3>3, <3>5, <1>1 DEF AccountInv
    <2> QED
      BY <2>4, <2>11, <2>12
  <1> QED
    BY <1>2, <1>3

\* A push that has come back is answered.
LEMMA SwAccount ==
  ASSUME TypeOK, OrderInv, AccountInv, NEW w \in SW, SwProcessRtcMsg(w) PROVE AccountInv'
  <1>1. UNCHANGED <<srv_q, rw_q, dropped, requests, applied, handled>>
    BY DEF SwProcessRtcMsg, srvVars, rwVars
  <1>2. CASE sw_q[w] = << >>
    <2>1. UNCHANGED <<sw_q, replied>>
      BY <1>2 DEF SwProcessRtcMsg
    <2> QED
      BY <1>1, <2>1, AccountUnchanged DEF accountVars
  <1>3. CASE sw_q[w] # << >>
    <2>0. PICK msg : msg = Head(sw_q[w])
      OBVIOUS
    <2>1. /\ \A v \in SW : \A m : In(sw_q'[v], m) <=> In(sw_q[v], m) /\ ~ (v = w /\ m = msg)
          /\ msg \in Msg /\ msg.cmd = "PUSH"
          /\ replied' = replied \cup {msg.conn}
      BY <1>3, <2>0, SwTakesBack
    <2>2. \A m \in Msg : /\ Traced(m)' => Traced(m)
                         /\ Traced(m) /\ m # msg => Traced(m)'
      BY <2>1, <1>1 DEF Traced
    <2>3. \A m : Finished(m) \/ m = msg => Finished(m)'
      BY <2>1, <1>1 DEF Finished
    <2>4. requests \subseteq Msg
      BY DEF TypeOK
    <2> QED
      BY <2>2, <2>3, <2>4, <1>1 DEF AccountInv
  <1> QED
    BY <1>2, <1>3

LEMMA AccountInit == Init => AccountInv
  <1> SUFFICES ASSUME Init PROVE AccountInv
    OBVIOUS
  <1>1. \A m : ~ In(<< >>, m)
    BY DEF In
  <1>2. \A m \in Msg : ~ Traced(m)
    BY <1>1 DEF Init, Traced
  <1> QED
    BY <1>2 DEF Init, AccountInv

LEMMA AccountStep == ASSUME TypeOK, OrderInv, AccountInv, [Next]_vars PROVE AccountInv'
  <1> DEFINE same == UNCHANGED accountVars /\ replied \subseteq replied'
  <1>1. CASE same
    BY <1>1, AccountUnchanged
  <1>2. CASE UNCHANGED vars
    <2>1. same
      BY <1>2 DEF vars, swVars, srvVars, rwVars, history, accountVars
    <2> QED
      BY <1>1, <2>1
  <1>3. CASE Accept \/ NotifyNewConn \/ CertificateExpires
    <2>1. same
      BY <1>3 DEF Accept, NotifyNewConn, CertificateExpires, swVars, srvVars, rwVars, history, accountVars
    <2> QED
      BY <1>1, <2>1
  <1>4. ASSUME NEW w \in SW, SwStep(w) PROVE AccountInv'
    <2>1. CASE SwRecvNotify(w) \/ SwNewConn(w)
      <3>1. same
        BY <2>1 DEF SwRecvNotify, SwNewConn, srvVars, rwVars, history, accountVars
      <3> QED
        BY <1>1, <3>1
    <2>2. CASE SwNotifyServer(w)
      <3>1. same
        BY <2>2 DEF SwNotifyServer, rwVars, accountVars
      <3> QED
        BY <1>1, <3>1
    <2> HIDE DEF same
    <2> QED
      BY <1>4, <2>1, <2>2, SwAccount DEF SwStep
  <1>5. CASE SrvStep
    <2>1. CASE SrvRecvNotify \/ SrvNotifyWorker
      <3>1. same
        BY <2>1 DEF SrvRecvNotify, SrvNotifyWorker, swVars, rwVars, history, accountVars
      <3> QED
        BY <1>1, <3>1
    <2> HIDE DEF same
    <2> QED
      BY <1>5, <2>1, SrvAccount DEF SrvStep
  <1>6. ASSUME NEW r \in RW, RwStep(r) PROVE AccountInv'
    <2>1. CASE RwRecvNotify(r) \/ RwNotifyWorker(r)
      <3>1. same
        BY <2>1 DEF RwRecvNotify, RwNotifyWorker, swVars, srvVars, history, accountVars
      <3> QED
        BY <1>1, <3>1
    <2> HIDE DEF same
    <2> QED
      BY <1>6, <2>1, RwAccount DEF RwStep
  <1> HIDE DEF same
  <1> QED
    BY <1>2, <1>3, <1>4, <1>5, <1>6, SendAccount DEF Next

MessageInv == OrderInv /\ PlaceInv /\ AccountInv

\* The inductive invariant of order, places and accounts.
THEOREM PlacesInvariant == Spec => [](PipelineInv /\ MessageInv)
  <1>1. PipelineInv /\ MessageInv /\ [Next]_vars => PipelineInv' /\ MessageInv'
    BY PipelineStep, OrderStep, PlaceStep, AccountStep DEF PipelineInv, MessageInv
  <1>2. Init => PipelineInv /\ MessageInv
    BY PipelineInit, OrderInit, PlaceInit, AccountInit DEF MessageInv
  <1> QED
    BY <1>1, <1>2, PTL DEF Spec

\* The requests of a stream are carried out in the order they were sent.
THEOREM StreamsAreInOrder == Spec => StreamOrder
  <1>1. ASSUME PipelineInv, OrderInv, [Next]_vars
        PROVE  [\A s \in Stream : handled'[s] >= handled[s]]_vars
    <2>1. TypeOK
      BY <1>1 DEF PipelineInv
    <2>2. \A s \in Stream : handled[s] \in Nat
      BY <2>1, PipeAssumption DEF TypeOK
    <2>3. UNCHANGED handled => \A s \in Stream : handled'[s] >= handled[s]
      BY <2>2
    <2>4. ASSUME NEW r \in RW, RwProcessRtcMsg(r) PROVE \A s \in Stream : handled'[s] >= handled[s]
      <3>1. CASE rw_q[r] = << >>
        BY <2>3, <2>4, <3>1 DEF RwProcessRtcMsg
      <3>2. CASE rw_q[r] # << >>
        <4>1. Head(rw_q[r]) \in Msg
          BY <2>1, <3>2, RwTakes
        <4>2. /\ In(rw_q[r], Head(rw_q[r]))
              /\ \A s \in Stream :
                   handled'[s] = IF s = Head(rw_q[r]).stream THEN Head(rw_q[r]).seq ELSE handled[s]
          BY <1>1, <2>1, <2>4, <3>2, RwCarriesOut
        <4>3. handled[Head(rw_q[r]).stream] < Head(rw_q[r]).seq
          BY <1>1, <4>1, <4>2 DEF OrderInv, WorkerOrder
        <4>4. Head(rw_q[r]).seq \in Nat
          BY <4>1, MsgFields DEF Conn
        <4> QED
          BY <4>2, <4>3, <4>4, <2>2
      <3> QED
        BY <3>1, <3>2
    <2>5. UNCHANGED handled \/ \E r \in RW : RwProcessRtcMsg(r)
      BY <1>1 DEF Next, vars, history, Accept, NotifyNewConn, SwStep, SwRecvNotify, SwNewConn, SwProcessRtcMsg,
         SwNotifyServer, SwSendRequest, SrvStep, SrvRecvNotify, SrvProcessRtcMsg, SrvNotifyWorker,
         CertificateExpires, RwStep, RwRecvNotify, RwNotifyWorker
    <2> QED
      BY <2>3, <2>4, <2>5
  <1>2. PipelineInv /\ OrderInv /\ [Next]_vars => [\A s \in Stream : handled'[s] >= handled[s]]_vars
    BY <1>1
  <1> QED
    BY PlacesInvariant, <1>2, PTL DEF Spec, StreamOrder, MessageInv

\* A queue without duplicates holds a message once or not at all.
LEMMA DistinctCount ==
  ASSUME NEW q \in Seq(Msg), NEW m, Distinct(q)
  PROVE  Count(q, m) = One(In(q, m))
  <1> DEFINE P == {i \in 1..Len(q) : q[i] = m}
  <1>1. CASE In(q, m)
    <2>1. PICK i \in 1..Len(q) : q[i] = m
      BY <1>1 DEF In
    <2>2. \A j \in P : j = i
      BY <2>1 DEF Distinct
    <2>3. P = {i}
      BY <2>1, <2>2
    <2>4. Cardinality(P) = 1
      BY <2>3, FS_Singleton
    <2> QED
      BY <1>1, <2>4 DEF Count, One
  <1>2. CASE ~ In(q, m)
    <2>1. P = {}
      BY <1>2 DEF In
    <2>2. Cardinality(P) = 0
      BY <2>1, FS_EmptySet
    <2> QED
      BY <1>2, <2>2 DEF Count, One
  <1> QED
    BY <1>1, <1>2

LEMMA AscendingDistinct ==
  ASSUME NEW q \in Seq(Msg), Ascending(q)
  PROVE  Distinct(q)
  <1> SUFFICES ASSUME NEW i \in 1..Len(q), NEW j \in 1..Len(q), q[i] = q[j], i # j PROVE FALSE
    BY DEF Distinct
  <1>1. q[i] \in Msg /\ q[i].seq \in Nat
    BY MsgFields DEF Conn
  <1>2. i < j \/ j < i
    OBVIOUS
  <1> QED
    BY <1>1, <1>2 DEF Ascending

\* Exactly one of five.
LEMMA ExactlyOne ==
  ASSUME NEW a \in BOOLEAN, NEW b \in BOOLEAN, NEW c \in BOOLEAN, NEW d \in BOOLEAN, NEW e \in BOOLEAN,
         a \/ b \/ c \/ d \/ e,
         a => ~ b /\ ~ c /\ ~ d /\ ~ e,
         b => ~ c /\ ~ d /\ ~ e,
         c => ~ d /\ ~ e,
         d => ~ e
  PROVE  One(a) + One(b) + One(c) + One(d) + One(e) = 1
  BY DEF One

\* Every request is once in one queue, or finished, or given up: none is lost
\* and none is doubled.
THEOREM RequestsAreInOnePlace == Spec => []RequestInOnePlace
  <1>1. ASSUME PipelineInv, MessageInv PROVE RequestInOnePlace
    <2>1. TypeOK /\ OrderInv /\ PlaceInv /\ AccountInv
      BY <1>1 DEF PipelineInv, MessageInv
    <2>2. /\ srv_q \in Seq(Msg) /\ requests \subseteq Msg
          /\ \A r \in RW : rw_q[r] \in Seq(Msg)
          /\ \A w \in SW : sw_q[w] \in Seq(Msg)
      BY <2>1 DEF TypeOK
    <2>3. \A r \in RW : \A i \in 1..Len(rw_q[r]) : GetWorker(rw_q[r][i].stream) = r
      <3> SUFFICES ASSUME NEW r \in RW, NEW i \in 1..Len(rw_q[r]) PROVE GetWorker(rw_q[r][i].stream) = r
        OBVIOUS
      <3>1. In(rw_q[r], rw_q[r][i]) /\ rw_q[r][i] \in Msg
        BY <2>2 DEF In
      <3> QED
        BY <3>1, <2>1 DEF OrderInv, WorkerOrder
    <2>4. \A w \in SW : \A i \in 1..Len(sw_q[w]) : sw_q[w][i].worker = w
      <3> SUFFICES ASSUME NEW w \in SW, NEW i \in 1..Len(sw_q[w]) PROVE sw_q[w][i].worker = w
        OBVIOUS
      <3>1. In(sw_q[w], sw_q[w][i]) /\ sw_q[w][i] \in Msg
        BY <2>2 DEF In
      <3> QED
        BY <3>1, <2>1 DEF OrderInv, ReplyOrder
    <2>5. ASSUME NEW m \in requests
          PROVE  Count(srv_q, m) + Count(rw_q[GetWorker(m.stream)], m) + Count(sw_q[m.worker], m)
                 + One(Finished(m)) + One(m \in dropped) = 1
      <3>1. PICK r \in RW : r = GetWorker(m.stream)
        BY <2>2, MsgFields, GetWorkerType
      <3>2. PICK w \in SW : w = m.worker
        BY <2>2, MsgFields
      <3>3. m \in Msg /\ m.stream \in Stream /\ m.seq \in Nat
        BY <2>2, MsgFields DEF Conn
      <3>4. handled[m.stream] \in Nat
        BY <3>3, <2>1, PipeAssumption DEF TypeOK
      <3>5. /\ \A q \in RW : In(rw_q[q], m) => q = r
            /\ \A v \in SW : In(sw_q[v], m) => v = w
        BY <3>1, <3>2, <3>3, <2>1 DEF OrderInv, WorkerOrder, ReplyOrder
      <3>6. Distinct(srv_q) /\ Distinct(rw_q[r]) /\ Distinct(sw_q[w])
        <4>1. Ascending(srv_q) /\ Ascending(rw_q[r])
          BY <2>1 DEF OrderInv, ServerOrder, WorkerOrder
        <4>2. Distinct(sw_q[w])
          BY <2>1 DEF OrderInv, ReplyOrder
        <4> QED
          BY <4>1, <4>2, <2>2, AscendingDistinct
      <3>7. /\ Count(srv_q, m) = One(In(srv_q, m))
            /\ Count(rw_q[r], m) = One(In(rw_q[r], m))
            /\ Count(sw_q[w], m) = One(In(sw_q[w], m))
        BY <3>6, <2>2, DistinctCount
      <3>8. In(srv_q, m) \/ In(rw_q[r], m) \/ In(sw_q[w], m) \/ Finished(m) \/ m \in dropped
        BY <3>5, <2>1 DEF AccountInv, Traced
      <3>9. ~ (m.seq < m.seq) /\ ~ (m.seq <= handled[m.stream] /\ handled[m.stream] < m.seq)
        BY <3>3, <3>4
      <3>10. /\ In(srv_q, m) => handled[m.stream] < m.seq
             /\ In(rw_q[r], m) => handled[m.stream] < m.seq /\ ~ In(srv_q, m)
             /\ In(sw_q[w], m) => m.seq <= handled[m.stream] /\ m.cmd = "PUSH"
             /\ m \in dropped => ~ In(srv_q, m) /\ ~ In(rw_q[r], m) /\ ~ In(sw_q[w], m)
        <4>1. /\ In(srv_q, m) => handled[m.stream] < m.seq
              /\ In(rw_q[r], m) => handled[m.stream] < m.seq /\ (In(srv_q, m) => m.seq < m.seq)
          BY <3>3, <2>1 DEF OrderInv, ServerOrder, WorkerOrder
        <4>2. In(sw_q[w], m) => m.seq <= handled[m.stream] /\ m.cmd = "PUSH"
          BY <3>3, <2>1 DEF OrderInv, ReplyOrder
        <4>3. m \in dropped => /\ (In(srv_q, m) => m.seq < m.seq)
                              /\ ~ In(rw_q[r], m) /\ ~ In(sw_q[w], m)
          BY <3>3, <2>1 DEF OrderInv, DroppedOrder
        <4> QED
          BY <4>1, <4>2, <4>3, <3>9
      <3>11. Finished(m) => ~ In(srv_q, m) /\ ~ In(rw_q[r], m) /\ ~ In(sw_q[w], m) /\ m \notin dropped
        <4>1. CASE m.cmd = "PUSH"
          <5>1. Finished(m) => ~ Traced(m)
            BY <4>1, <3>3, <2>1 DEF Finished, PlaceInv, OneMessage
          <5> QED
            BY <5>1 DEF Traced
        <4>2. CASE m.cmd # "PUSH"
          <5>1. Finished(m) => m.seq <= handled[m.stream] /\ m \notin dropped
            BY <4>2, <2>1 DEF Finished, AccountInv
          <5> QED
            BY <5>1, <4>2, <3>9, <3>10
        <4> QED
          BY <4>1, <4>2
      <3> DEFINE a == In(srv_q, m)
                 b == In(rw_q[r], m)
                 c == In(sw_q[w], m)
                 d == Finished(m)
                 e == m \in dropped
      <3>12. a \in BOOLEAN /\ b \in BOOLEAN /\ c \in BOOLEAN /\ d \in BOOLEAN /\ e \in BOOLEAN
        <4>1. d \in BOOLEAN
          <5>1. (m.conn \in replied) \in BOOLEAN /\ (m \in applied) \in BOOLEAN
            OBVIOUS
          <5>2. CASE m.cmd = "PUSH"
            BY <5>1, <5>2 DEF Finished
          <5>3. CASE m.cmd # "PUSH"
            BY <5>1, <5>3 DEF Finished
          <5> QED
            BY <5>2, <5>3
        <4>2. a \in BOOLEAN /\ b \in BOOLEAN /\ c \in BOOLEAN /\ e \in BOOLEAN
          BY DEF In
        <4> QED
          BY <4>1, <4>2
      <3>13. a => ~ b /\ ~ c /\ ~ d /\ ~ e
        BY <3>9, <3>10, <3>11
      <3>14. (b => ~ c /\ ~ d /\ ~ e) /\ (c => ~ d /\ ~ e) /\ (d => ~ e)
        BY <3>9, <3>10, <3>11
      <3>15. a \/ b \/ c \/ d \/ e
        BY <3>8
      <3> HIDE DEF a, b, c, d, e
      <3>16. One(a) + One(b) + One(c) + One(d) + One(e) = 1
        BY <3>12, <3>13, <3>14, <3>15, ExactlyOne
      <3> QED
        BY <3>16, <3>7, <3>1, <3>2 DEF a, b, c, d, e
    <2> QED
      BY <2>3, <2>4, <2>5 DEF RequestInOnePlace
  <1>2. PipelineInv /\ MessageInv => RequestInOnePlace
    BY <1>1
  <1> QED
    BY PlacesInvariant, <1>2, PTL
=============================================================================
