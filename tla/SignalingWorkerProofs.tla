----------------------- MODULE SignalingWorkerProofs -----------------------
(***************************************************************************)
(* The bookkeeping of a signaling worker is sound for any descriptors,     *)
(* addresses, sizes and requests and any number of connections: the table, *)
(* the objects, the watchers and the queue of new descriptors agree, and   *)
(* replies leave whole.  WorkerInv adds to the properties what they need   *)
(* to be inductive: how the position in a reply fits the bytes written so  *)
(* far, how the framing fits the requests taken, and what is watched while *)
(* a handler runs.                                                         *)
(***************************************************************************)
EXTENDS SignalingWorker, SequenceTheorems, TLAPS

\* Byte i on the wire follows the one before it.
ByteFollows(w, i) ==
  IF i = 1 \/ w[i-1][2] = RespSize
  THEN w[i][2] = 1
  ELSE w[i] = <<w[i-1][1], w[i-1][2] + 1>>

WireWhole(c) == \A i \in 1..Len(c.wire) : ByteFollows(c.wire, i)

\* The bytes on the wire end where cur_resp_pos says the next write goes on.
WireEnd(c) ==
  IF c.cur_resp_pos = 0
  THEN c.wire = << >> \/ c.wire[Len(c.wire)][2] = RespSize
  ELSE /\ c.wire # << >> /\ c.reply_list # << >>
       /\ c.wire[Len(c.wire)] = <<Head(c.reply_list), c.cur_resp_pos>>

\* bytes_expected and bytes_processed fit the requests taken so far.
Framing(c) ==
  \/ /\ c.current_state = "HEAD" /\ c.requests = 0
  \/ /\ c.current_state = "BODY" /\ c.head \in Request
     /\ c.bytes_expected = c.head.body_len
     /\ c.requests >= 1 => c.bytes_processed = Mark
     /\ c.requests >= 2 => c.qlen >= Mark + c.head.body_len

ConnOK(c) == WireWhole(c) /\ WireEnd(c) /\ Framing(c)

\* What is watched for, also while a handler runs: _write_reply drops WRITE
\* at its end only.
WatchedFor ==
  \A a \in Addr : Live(a) =>
    IF pc = "write" /\ a = cur
    THEN "WRITE" \in io[heap[a].fd]
    ELSE heap[a].reply_list # << >> <=> "WRITE" \in io[heap[a].fd]

WorkerInv ==
  /\ TypeOK
  /\ TableOwnsConnections
  /\ WatchersHaveConnections
  /\ DescriptorsUnshared
  /\ WatchedFor
  /\ \A a \in Addr : Live(a) => ConnOK(heap[a])

-----------------------------------------------------------------------------
(* Sequences *)

\* What Head and Tail leave of a sequence.
LEMMA HeadTailElements ==
  ASSUME NEW S, NEW s \in Seq(S), s # << >>
  PROVE  /\ Head(s) = s[1] /\ Head(s) \in S /\ Tail(s) \in Seq(S)
         /\ Len(s) \in Nat /\ 1 \in 1..Len(s) /\ Len(Tail(s)) = Len(s) - 1
         /\ \A i \in 1..Len(Tail(s)) : i + 1 \in 1..Len(s) /\ Tail(s)[i] = s[i + 1]
  BY HeadTailProperties, EmptySeq

\* What Append adds to a sequence.
LEMMA AppendElements ==
  ASSUME NEW S, NEW s \in Seq(S), NEW e \in S
  PROVE  /\ Append(s, e) \in Seq(S) /\ Len(s) \in Nat /\ Append(s, e) # << >>
         /\ Len(Append(s, e)) = Len(s) + 1
         /\ Append(s, e)[Len(s) + 1] = e
         /\ \A i \in 1..Len(s) : Append(s, e)[i] = s[i]
         /\ s # << >> => Head(Append(s, e)) = Head(s)
  BY AppendProperties

-----------------------------------------------------------------------------
(* One object *)

\* A fresh TcpConnection.
LEMMA NewObject ==
  ASSUME NEW f \in Fd, NEW id \in Id
  PROVE  /\ NewTcpConnection(f, id) \in TcpConnection
         /\ NewTcpConnection(f, id).fd = f /\ NewTcpConnection(f, id).reply_list = << >>
         /\ ConnOK(NewTcpConnection(f, id))
  <1> DEFINE c == NewTcpConnection(f, id)
  <1>1. c \in TcpConnection
    BY SizeAssumption, BoundAssumption DEF NewTcpConnection, TcpConnection
  <1>2. /\ c.fd = f /\ c.reply_list = << >> /\ c.wire = << >> /\ c.cur_resp_pos = 0
        /\ c.current_state = "HEAD" /\ c.requests = 0
    BY DEF NewTcpConnection
  <1> HIDE DEF c
  <1>3. ConnOK(c)
    BY <1>2 DEF ConnOK, WireWhole, WireEnd, Framing
  <1> QED
    BY <1>1, <1>2, <1>3 DEF c

\* A change of age leaves an object as good as it was.
LEMMA AgeObject ==
  ASSUME NEW c \in TcpConnection, NEW g \in 0..Timeout, ConnOK(c)
  PROVE  LET d == [c EXCEPT !.age = g] IN
         d \in TcpConnection /\ d.fd = c.fd /\ d.reply_list = c.reply_list /\ ConnOK(d)
  <1> DEFINE d == [c EXCEPT !.age = g]
  <1>1. d \in TcpConnection
    BY DEF TcpConnection
  <1>2. /\ d.fd = c.fd /\ d.reply_list = c.reply_list /\ d.wire = c.wire
        /\ d.cur_resp_pos = c.cur_resp_pos /\ d.current_state = c.current_state
        /\ d.requests = c.requests /\ d.head = c.head /\ d.bytes_expected = c.bytes_expected
        /\ d.bytes_processed = c.bytes_processed /\ d.qlen = c.qlen
    BY DEF TcpConnection
  <1> HIDE DEF d
  <1>3. ConnOK(d)
    BY <1>2 DEF ConnOK, WireWhole, WireEnd, Framing
  <1> QED
    BY <1>1, <1>2, <1>3 DEF d

\* Bytes were read: the requests that were past the mark stay past it.
LEMMA ReadObject ==
  ASSUME NEW c \in TcpConnection, NEW n \in Nat, ConnOK(c)
  PROVE  LET d == Received(c, n) IN
         d \in TcpConnection /\ d.fd = c.fd /\ d.reply_list = c.reply_list /\ ConnOK(d)
  <1> DEFINE most == Mark + c.bytes_expected
             q == IF c.qlen + n < most THEN c.qlen + n ELSE most
             d == [c EXCEPT !.age = 0, !.qlen = q]
  <1>0. /\ c.qlen \in Nat /\ c.bytes_expected \in Nat /\ c.requests \in Nat
        /\ 0 \in 0..Timeout /\ c.head \in Request \cup {Null}
    BY SizeAssumption, BoundAssumption DEF TcpConnection
  <1>1. q \in Nat /\ Received(c, n) = d
    BY <1>0, SizeAssumption DEF Received, TcpConnection
  <1> HIDE DEF q
  <1>2. d \in TcpConnection
    BY <1>0, <1>1 DEF TcpConnection
  <1>3. /\ d.fd = c.fd /\ d.reply_list = c.reply_list /\ d.wire = c.wire
        /\ d.cur_resp_pos = c.cur_resp_pos /\ d.current_state = c.current_state
        /\ d.requests = c.requests /\ d.head = c.head /\ d.bytes_expected = c.bytes_expected
        /\ d.bytes_processed = c.bytes_processed /\ d.qlen = q
    BY DEF TcpConnection
  <1> HIDE DEF d
  <1>4. WireWhole(d) /\ WireEnd(d)
    BY <1>3 DEF ConnOK, WireWhole, WireEnd
  <1>5. Framing(d)
    <2>1. CASE c.current_state = "HEAD"
      BY <2>1, <1>3 DEF ConnOK, Framing
    <2>2. CASE c.current_state # "HEAD"
      <3>1. c.head \in Request /\ c.head.body_len \in Nat /\ c.bytes_expected = c.head.body_len
        BY <2>2, RequestAssumption DEF ConnOK, Framing
      <3>2. c.qlen >= Mark + c.head.body_len => q >= Mark + c.head.body_len
        BY <1>0, <3>1, SizeAssumption DEF q
      <3>3. c.qlen >= Mark + c.head.body_len => d.qlen >= Mark + c.head.body_len
        BY <1>3, <3>2
      <3> QED
        BY <2>2, <3>3, <1>3 DEF ConnOK, Framing
    <2> QED
      BY <2>1, <2>2
  <1> QED
    BY <1>1, <1>2, <1>3, <1>4, <1>5 DEF ConnOK

\* The head of a request was read: no request was taken before.
LEMMA HeadObject ==
  ASSUME NEW c \in TcpConnection, NEW req \in Request, ConnOK(c), c.current_state = "HEAD"
  PROVE  LET d == [c EXCEPT !.head = req, !.current_state = "BODY",
                            !.bytes_expected = req.body_len, !.bytes_processed = HeadSize] IN
         d \in TcpConnection /\ d.fd = c.fd /\ d.reply_list = c.reply_list /\ ConnOK(d)
  <1> DEFINE d == [c EXCEPT !.head = req, !.current_state = "BODY",
                            !.bytes_expected = req.body_len, !.bytes_processed = HeadSize]
  <1>1. d \in TcpConnection
    BY ZenonT(120), SizeAssumption, RequestAssumption DEF TcpConnection
  <1>2. /\ d.fd = c.fd /\ d.reply_list = c.reply_list /\ d.wire = c.wire
        /\ d.cur_resp_pos = c.cur_resp_pos /\ d.current_state = "BODY"
        /\ d.requests = c.requests /\ d.head = req /\ d.bytes_expected = req.body_len
    BY DEF TcpConnection
  <1> HIDE DEF d
  <1>3. WireWhole(d) /\ WireEnd(d)
    BY <1>2 DEF ConnOK, WireWhole, WireEnd
  <1>4. Framing(d)
    BY <1>2 DEF ConnOK, Framing
  <1> QED
    BY <1>1, <1>2, <1>3, <1>4 DEF d, ConnOK

\* A request was taken.
LEMMA TakenObject ==
  ASSUME NEW c \in TcpConnection, ConnOK(c), c.current_state = "BODY", Complete(c),
         c.requests < MaxReplies
  PROVE  /\ Taken(c) \in TcpConnection /\ Taken(c).fd = c.fd
         /\ Taken(c).reply_list = c.reply_list /\ ConnOK(Taken(c))
  <1> DEFINE d == Taken(c)
  <1>0. /\ c.qlen \in Nat /\ c.requests \in 0..MaxReplies /\ c.head \in Request
        /\ c.head.body_len \in Nat /\ c.bytes_expected = c.head.body_len
        /\ (c.requests >= 1 => c.bytes_processed = Mark)
    BY RequestAssumption DEF TcpConnection, ConnOK, Framing
  <1>1. c.requests + 1 \in 0..MaxReplies /\ c.requests \in Nat /\ Mark \in Nat
    BY <1>0, BoundAssumption, SizeAssumption
  <1>2. d \in TcpConnection
    BY <1>1 DEF Taken, TcpConnection
  <1>3. /\ d.fd = c.fd /\ d.reply_list = c.reply_list /\ d.wire = c.wire
        /\ d.cur_resp_pos = c.cur_resp_pos /\ d.current_state = c.current_state
        /\ d.requests = c.requests + 1 /\ d.head = c.head /\ d.bytes_expected = c.bytes_expected
        /\ d.bytes_processed = Mark /\ d.qlen = c.qlen
    BY DEF Taken, TcpConnection
  <1> HIDE DEF d
  <1>4. WireWhole(d) /\ WireEnd(d)
    BY <1>3 DEF ConnOK, WireWhole, WireEnd
  <1>5. d.requests >= 2 => d.qlen >= Mark + d.head.body_len
    <2>1. d.requests >= 2 => c.requests >= 1
      BY <1>1, <1>3
    <2>2. c.qlen >= c.bytes_processed + c.bytes_expected
      BY DEF Complete
    <2> QED
      BY <1>0, <1>3, <2>1, <2>2
  <1>6. Framing(d)
    BY <1>0, <1>3, <1>5 DEF Framing
  <1> QED
    BY <1>2, <1>3, <1>4, <1>6 DEF d, ConnOK

\* A reply is queued behind the one being written.
LEMMA ReplyObject ==
  ASSUME NEW c \in TcpConnection, NEW r \in Reply, ConnOK(c)
  PROVE  LET d == [c EXCEPT !.reply_list = Append(@, r)] IN
         d \in TcpConnection /\ d.fd = c.fd /\ d.reply_list # << >> /\ ConnOK(d)
  <1> DEFINE d == [c EXCEPT !.reply_list = Append(@, r)]
  <1>0. c.reply_list \in Seq(Reply)
    BY DEF TcpConnection
  <1>1. /\ Append(c.reply_list, r) \in Seq(Reply) /\ Append(c.reply_list, r) # << >>
        /\ c.reply_list # << >> => Head(Append(c.reply_list, r)) = Head(c.reply_list)
    BY <1>0, AppendElements
  <1>2. d \in TcpConnection
    BY <1>1 DEF TcpConnection
  <1>3. /\ d.fd = c.fd /\ d.reply_list = Append(c.reply_list, r) /\ d.wire = c.wire
        /\ d.cur_resp_pos = c.cur_resp_pos /\ d.current_state = c.current_state
        /\ d.requests = c.requests /\ d.head = c.head /\ d.bytes_expected = c.bytes_expected
        /\ d.bytes_processed = c.bytes_processed /\ d.qlen = c.qlen
    BY DEF TcpConnection
  <1> HIDE DEF d
  <1>4. WireWhole(d) /\ WireEnd(d)
    BY <1>1, <1>3 DEF ConnOK, WireWhole, WireEnd
  <1>5. Framing(d)
    BY <1>3 DEF ConnOK, Framing
  <1> QED
    BY <1>1, <1>2, <1>3, <1>4, <1>5 DEF d, ConnOK

\* What concatenation does to the elements.
LEMMA ConcatElements ==
  ASSUME NEW S, NEW s \in Seq(S), NEW t \in Seq(S)
  PROVE  /\ s \o t \in Seq(S) /\ Len(s) \in Nat /\ Len(t) \in Nat
         /\ Len(s \o t) = Len(s) + Len(t)
         /\ \A i \in 1..Len(s) : (s \o t)[i] = s[i]
         /\ \A i \in 1..Len(t) : (s \o t)[Len(s) + i] = t[i]
  BY ConcatProperties

\* What is written to a socket: byte i of a reply, and n of them from p on.
Byte == Reply \X (1..RespSize)
Chunk(h, p, n) == [i \in 1..n |-> <<h, p + i>>]

\* The next n bytes of a reply continue the wire.
LEMMA WireGrows ==
  ASSUME NEW w \in Seq(Byte), NEW h \in Reply, NEW p \in 0..(RespSize - 1),
         NEW n \in 1..(RespSize - p),
         \A i \in 1..Len(w) : ByteFollows(w, i),
         IF p = 0 THEN w = << >> \/ w[Len(w)][2] = RespSize
                  ELSE w # << >> /\ w[Len(w)] = <<h, p>>
  PROVE  LET v == w \o Chunk(h, p, n) IN
         /\ v \in Seq(Byte) /\ v # << >>
         /\ v[Len(v)] = <<h, p + n>>
         /\ \A i \in 1..Len(v) : ByteFollows(v, i)
  <1> DEFINE t == Chunk(h, p, n)
             v == w \o t
  <1>0. p \in Nat /\ n \in Nat /\ n >= 1 /\ RespSize \in Nat /\ p + n <= RespSize
    BY SizeAssumption
  <1>1. t \in Seq(Byte) /\ Len(t) = n
    <2>1. \A i \in 1..n : p + i \in 1..RespSize
      BY SMTT(90), <1>0
    <2>2. \A i \in 1..n : <<h, p + i>> \in Reply \X (1..RespSize)
      BY <2>1
    <2>3. t \in [1..n -> Byte]
      BY <2>2 DEF Chunk, Byte
    <2> QED
      BY SMTT(60), <1>0, <2>3
  <1>2. \A i \in 1..n : t[i] = <<h, p + i>>
    BY DEF Chunk
  <1> HIDE DEF t
  <1>3. /\ v \in Seq(Byte) /\ Len(v) = Len(w) + n /\ Len(w) \in Nat
        /\ \A i \in 1..Len(w) : v[i] = w[i]
        /\ \A i \in 1..n : v[Len(w) + i] = t[i]
    <2> HIDE DEF v
    <2>1. t \in Seq(Byte) /\ w \in Seq(Byte)
      BY <1>1
    <2>2. /\ v \in Seq(Byte) /\ Len(w) \in Nat /\ Len(v) = Len(w) + Len(t)
          /\ \A i \in 1..Len(w) : v[i] = w[i]
          /\ \A i \in 1..Len(t) : v[Len(w) + i] = t[i]
      BY <2>1, ConcatElements DEF v
    <2> QED
      BY <1>1, <2>2
  <1> HIDE DEF v
  <1>7. Len(w) \in Nat /\ Len(v) = Len(w) + n
    BY <1>3
  <1>4. \A i \in 1..n : v[Len(w) + i] = <<h, p + i>>
    BY <1>2, <1>3
  <1>5. v # << >> /\ v[Len(v)] = <<h, p + n>>
    BY <1>0, <1>3, <1>4
  <1>6. ASSUME NEW i \in 1..Len(v) PROVE ByteFollows(v, i)
    <2>1. CASE i \in 1..Len(w)
      <3>1. v[i] = w[i] /\ (i # 1 => v[i-1] = w[i-1])
        <4>1. i # 1 => i - 1 \in 1..Len(w)
          BY <1>7, <2>1
        <4> QED
          BY <1>3, <2>1, <4>1
      <3> QED
        BY <2>1, <3>1 DEF ByteFollows
    <2>2. CASE i = Len(w) + 1
      <3>1. v[i] = <<h, p + 1>>
        BY <1>0, <1>4, <2>2
      <3>2. CASE p = 0
        <4>1. i = 1 \/ v[i-1][2] = RespSize
          <5>1. CASE w = << >>
            BY <5>1, <2>2
          <5>2. CASE w # << >>
            <6>1. w[Len(w)][2] = RespSize /\ Len(w) \in 1..Len(w) /\ i - 1 = Len(w)
              BY <1>3, <2>2, <3>2, <5>2, EmptySeq
            <6> QED
              BY <1>3, <6>1
          <5> QED
            BY <5>1, <5>2
        <4> QED
          BY <3>1, <3>2, <4>1 DEF ByteFollows
      <3>3. CASE p # 0
        <4>1. w[Len(w)] = <<h, p>> /\ Len(w) \in 1..Len(w) /\ i - 1 = Len(w) /\ i # 1
          BY <1>3, <2>2, <3>3, EmptySeq
        <4>2. v[i-1] = <<h, p>>
          BY <1>3, <4>1
        <4>3. p # RespSize
          BY <1>0
        <4> QED
          BY <3>1, <4>1, <4>2, <4>3 DEF ByteFollows
      <3> QED
        BY <3>2, <3>3
    <2>3. CASE i > Len(w) + 1
      <3> DEFINE k == i - Len(w)
      <3>1. k \in 1..n /\ k - 1 \in 1..n /\ i = Len(w) + k /\ i - 1 = Len(w) + (k - 1) /\ i # 1
        BY <1>0, <1>7, <2>3
      <3> HIDE DEF k
      <3>2. v[i] = <<h, p + k>> /\ v[i-1] = <<h, p + (k - 1)>>
        BY <1>4, <3>1
      <3>3. p + (k - 1) # RespSize /\ p + k = (p + (k - 1)) + 1
        BY <1>0, <3>1
      <3> QED
        BY <3>1, <3>2, <3>3 DEF ByteFollows
    <2> QED
      BY <1>7, <2>1, <2>2, <2>3
  <1> QED
    BY <1>3, <1>5, <1>6 DEF v, t

\* Part of the reply in front was written.
LEMMA WrittenObject ==
  ASSUME NEW c \in TcpConnection, ConnOK(c), c.reply_list # << >>,
         NEW n \in 1..(RespSize - c.cur_resp_pos)
  PROVE  Written(c, n) \in TcpConnection /\ Written(c, n).fd = c.fd /\ ConnOK(Written(c, n))
  <1> DEFINE d == Written(c, n)
             p == c.cur_resp_pos
             h == Head(c.reply_list)
             v == c.wire \o Chunk(h, p, n)
  <1>1. /\ c.wire \in Seq(Byte) /\ p \in 0..(RespSize - 1)
        /\ c.reply_list \in Seq(Reply)
    BY DEF TcpConnection, Byte
  <1>2. h \in Reply /\ Tail(c.reply_list) \in Seq(Reply)
    BY <1>1, HeadTailElements
  <1>3. /\ v \in Seq(Byte) /\ v # << >> /\ v[Len(v)] = <<h, p + n>>
        /\ \A i \in 1..Len(v) : ByteFollows(v, i)
    <2>1. \A i \in 1..Len(c.wire) : ByteFollows(c.wire, i)
      BY DEF ConnOK, WireWhole
    <2>2. IF p = 0 THEN c.wire = << >> \/ c.wire[Len(c.wire)][2] = RespSize
                   ELSE c.wire # << >> /\ c.wire[Len(c.wire)] = <<h, p>>
      BY DEF ConnOK, WireEnd
    <2> HIDE DEF h, p
    <2>3. p \in 0..(RespSize - 1) /\ n \in 1..(RespSize - p)
      BY <1>1 DEF p
    <2> QED
      BY SMTT(90), <1>1, <1>2, <2>1, <2>2, <2>3, WireGrows
  <1>4. d = IF p + n >= RespSize
            THEN [c EXCEPT !.wire = v, !.reply_list = Tail(@), !.cur_resp_pos = 0]
            ELSE [c EXCEPT !.wire = v, !.cur_resp_pos = @ + n]
    BY DEF Written, TcpConnection, Chunk
  <1>5. p \in Nat /\ n \in Nat /\ n >= 1 /\ RespSize \in Nat /\ p + n <= RespSize
    BY <1>1, SizeAssumption
  <1> HIDE DEF v, d, h
  <1>6. CASE p + n >= RespSize
    <2>1. p + n = RespSize /\ 0 \in 0..(RespSize - 1)
      BY <1>5, <1>6, SizeAssumption
    <2>2. d = [c EXCEPT !.wire = v, !.reply_list = Tail(@), !.cur_resp_pos = 0]
      BY <1>4, <1>6
    <2>3. d \in TcpConnection
      BY <1>2, <1>3, <2>1, <2>2 DEF TcpConnection, Byte
    <2>4. /\ d.fd = c.fd /\ d.wire = v /\ d.cur_resp_pos = 0
          /\ d.current_state = c.current_state
          /\ d.requests = c.requests /\ d.head = c.head /\ d.bytes_expected = c.bytes_expected
          /\ d.bytes_processed = c.bytes_processed /\ d.qlen = c.qlen
      BY <2>2 DEF TcpConnection
    <2>5. WireWhole(d) /\ WireEnd(d)
      BY <1>3, <2>1, <2>4 DEF WireWhole, WireEnd
    <2>6. Framing(d)
      BY <2>4 DEF ConnOK, Framing
    <2> QED
      BY <2>3, <2>4, <2>5, <2>6 DEF d, ConnOK
  <1>7. CASE ~ (p + n >= RespSize)
    <2>1. p + n \in 0..(RespSize - 1) /\ p + n # 0
      BY <1>5, <1>7
    <2>2. d = [c EXCEPT !.wire = v, !.cur_resp_pos = p + n]
      BY <1>4, <1>7
    <2>3. d \in TcpConnection
      BY <1>3, <2>1, <2>2 DEF TcpConnection, Byte
    <2>4. /\ d.fd = c.fd /\ d.wire = v /\ d.cur_resp_pos = p + n /\ d.reply_list = c.reply_list
          /\ d.current_state = c.current_state
          /\ d.requests = c.requests /\ d.head = c.head /\ d.bytes_expected = c.bytes_expected
          /\ d.bytes_processed = c.bytes_processed /\ d.qlen = c.qlen
      BY <2>2 DEF TcpConnection
    <2>5. WireWhole(d) /\ WireEnd(d)
      BY <1>3, <2>1, <2>4 DEF WireWhole, WireEnd, h
    <2>6. Framing(d)
      BY <2>4 DEF ConnOK, Framing
    <2> QED
      BY <2>3, <2>4, <2>5, <2>6 DEF d, ConnOK
  <1> QED
    BY <1>6, <1>7

-----------------------------------------------------------------------------
(* All objects *)

PcAt == {"idle", "query", "write", "close", "remove", "killed"}

\* An object that exists is a TcpConnection, and only one has its descriptor.
LEMMA LiveObject ==
  ASSUME TypeOK, TableOwnsConnections, NEW a \in Addr, Live(a)
  PROVE  /\ heap[a] \in TcpConnection /\ heap[a].fd \in Fd /\ heap[a] # Null
         /\ conns[heap[a].fd] = a
         /\ \A b \in Addr : Live(b) /\ heap[b].fd = heap[a].fd => b = a
  <1>1. heap[a] \in TcpConnection /\ heap[a] # Null
    BY DEF TypeOK, Live
  <1>2. heap[a].fd \in Fd
    BY <1>1 DEF TcpConnection
  <1> QED
    BY <1>1, <1>2 DEF TableOwnsConnections

\* The connection a descriptor's table entry points to.
LEMMA EntryObject ==
  ASSUME TypeOK, TableOwnsConnections, NEW f \in Fd, conns[f] # Null
  PROVE  conns[f] \in Addr /\ Live(conns[f]) /\ heap[conns[f]].fd = f
  BY DEF TypeOK, TableOwnsConnections

\* A step that creates and destroys no object, and moves none to another
\* descriptor, keeps table, watchers and queue in agreement.
LEMMA SameObjects ==
  ASSUME WorkerInv, TypeOK',
         \A b \in Addr : (Live(b)' <=> Live(b)) /\ (Live(b) => heap'[b].fd = heap[b].fd),
         UNCHANGED <<open, q_conn, conns, timers>>,
         pc' # "idle" <=> cur' # Null, cur' # Null => Live(cur'),
         pc = "remove" => pc' = "remove" /\ cur' = cur,
         \A f \in Fd : (io'[f] = {} <=> io[f] = {}) /\ ("READ" \in io[f] => "READ" \in io'[f])
  PROVE  TableOwnsConnections' /\ WatchersHaveConnections' /\ DescriptorsUnshared'
  <1> USE DEF WorkerInv
  <1>1. \A f \in Fd : conns[f] # Null => conns[f] \in Addr
    BY DEF TypeOK
  <1>2. cur' # Null => cur' \in Addr
    BY DEF TypeOK
  <1>3. TableOwnsConnections'
    BY <1>1, <1>2 DEF TableOwnsConnections, Live
  <1>4. WatchersHaveConnections'
    BY DEF WatchersHaveConnections
  <1>5. DescriptorsUnshared'
    BY DEF DescriptorsUnshared
  <1> QED
    BY <1>3, <1>4, <1>5

\* A handler moves on without touching an object.
LEMMA NoObject ==
  ASSUME WorkerInv, UNCHANGED <<open, q_conn, accepted, conns, heap, io, timers, rtc>>,
         pc' \in PcAt, cur' \in Addr \cup {Null},
         pc' # "idle" <=> cur' # Null, cur' # Null => Live(cur'),
         pc = "remove" => pc' = "remove" /\ cur' = cur,
         WatchedFor'
  PROVE  WorkerInv'
  <1>1. TypeOK'
    BY DEF WorkerInv, TypeOK, PcAt
  <1>2. TableOwnsConnections' /\ WatchersHaveConnections' /\ DescriptorsUnshared'
    BY <1>1, SameObjects DEF Live
  <1>3. \A a \in Addr : Live(a)' => ConnOK(heap'[a])
    BY DEF WorkerInv, Live
  <1>4. (\A a \in Addr : Live(a) => ConnOK(heap[a]))'
    BY <1>3
  <1> QED
    BY <1>1, <1>2, <1>4 DEF WorkerInv

\* A handler changes one object and perhaps what is watched on its descriptor.
LEMMA OneObject ==
  ASSUME WorkerInv, NEW a \in Addr, Live(a), NEW d \in TcpConnection, d.fd = heap[a].fd,
         ConnOK(d), heap' = [heap EXCEPT ![a] = d],
         UNCHANGED <<open, q_conn, accepted, conns, timers>>,
         NEW ev \in SUBSET {"READ", "WRITE"}, "READ" \in ev,
         io' = [io EXCEPT ![d.fd] = ev],
         rtc' \subseteq RtcMsg, pc \in {"idle", "query", "write"},
         pc' \in PcAt, cur' \in Addr \cup {Null},
         pc' # "idle" <=> cur' # Null, cur' # Null => Live(cur'),
         IF pc' = "write" /\ cur' = a THEN "WRITE" \in ev ELSE d.reply_list # << >> <=> "WRITE" \in ev,
         \A b \in Addr : b # a => ~ (pc = "write" /\ b = cur) /\ ~ (pc' = "write" /\ b = cur')
  PROVE  WorkerInv'
  <1>0. TypeOK /\ TableOwnsConnections /\ WatchersHaveConnections
    BY DEF WorkerInv
  <1>1. /\ heap[a] \in TcpConnection /\ d.fd \in Fd /\ conns[d.fd] = a
        /\ \A b \in Addr : Live(b) /\ heap[b].fd = d.fd => b = a
    BY <1>0, LiveObject
  <1>2. heap'[a] = d /\ d # Null /\ \A b \in Addr : b # a => heap'[b] = heap[b]
    BY <1>0, NullAssumption DEF TypeOK
  <1>3. io'[d.fd] = ev /\ \A f \in Fd : f # d.fd => io'[f] = io[f]
    BY <1>0, <1>1 DEF TypeOK
  <1>4. TypeOK'
    <2>1. heap' \in [Addr -> TcpConnection \cup {Null}]
      BY <1>0 DEF TypeOK
    <2>2. io' \in [Fd -> SUBSET {"READ", "WRITE"}]
      BY <1>0 DEF TypeOK
    <2> QED
      BY <1>0, <2>1, <2>2 DEF TypeOK, PcAt
  <1>5. \A b \in Addr : (Live(b)' <=> Live(b)) /\ (Live(b) => heap'[b].fd = heap[b].fd)
    BY <1>2 DEF Live
  <1>6. \A f \in Fd : (io'[f] = {} <=> io[f] = {}) /\ ("READ" \in io[f] => "READ" \in io'[f])
    <2>1. io[d.fd] # {}
      BY <1>0, <1>1, NullAssumption DEF WatchersHaveConnections
    <2> QED
      BY <1>3, <2>1
  <1>7. TableOwnsConnections' /\ WatchersHaveConnections' /\ DescriptorsUnshared'
    BY <1>4, <1>5, <1>6, SameObjects
  <1>8. WatchedFor'
    <2> SUFFICES ASSUME NEW b \in Addr, Live(b)'
                 PROVE  IF pc' = "write" /\ b = cur'
                        THEN "WRITE" \in io'[heap'[b].fd]
                        ELSE heap'[b].reply_list # << >> <=> "WRITE" \in io'[heap'[b].fd]
      BY DEF WatchedFor
    <2>1. CASE b = a
      BY <1>2, <1>3, <2>1
    <2>2. CASE b # a
      <3>1. Live(b) /\ heap'[b] = heap[b]
        BY <1>2, <1>5, <2>2
      <3>2. heap[b].fd \in Fd /\ heap[b].fd # d.fd
        BY <1>0, <1>1, <2>2, <3>1, LiveObject
      <3>3. io'[heap[b].fd] = io[heap[b].fd]
        BY <1>3, <3>2
      <3>4. heap[b].reply_list # << >> <=> "WRITE" \in io[heap[b].fd]
        BY <2>2, <3>1 DEF WorkerInv, WatchedFor
      <3> QED
        BY <2>2, <3>1, <3>3, <3>4
    <2> QED
      BY <2>1, <2>2
  <1>9. (\A b \in Addr : Live(b) => ConnOK(heap[b]))'
    <2>1. \A b \in Addr : Live(b)' => ConnOK(heap'[b])
      BY <1>2, <1>5 DEF WorkerInv
    <2> QED
      BY <2>1
  <1> QED
    BY <1>4, <1>7, <1>8, <1>9 DEF WorkerInv

-----------------------------------------------------------------------------
(* The actions *)

\* The worker starts with no connection.
LEMMA WorkerInvInit == Init => WorkerInv
  <1> SUFFICES ASSUME Init PROVE WorkerInv
    OBVIOUS
  <1>1. \A a \in Addr : ~ Live(a)
    BY DEF Init, Live
  <1>2. TypeOK
    <2>1. q_conn \in Seq([fd : Fd, id : Id]) /\ accepted \in 0..MaxConn
      BY BoundAssumption DEF Init
    <2>2. /\ conns \in [Fd -> Addr \cup {Null}] /\ heap \in [Addr -> TcpConnection \cup {Null}]
          /\ io \in [Fd -> SUBSET {"READ", "WRITE"}]
      BY DEF Init
    <2> QED
      BY <2>1, <2>2 DEF Init, TypeOK
  <1>3. TableOwnsConnections
    BY <1>1 DEF Init, TableOwnsConnections
  <1>4. WatchersHaveConnections
    BY <1>1 DEF Init, WatchersHaveConnections
  <1>5. DescriptorsUnshared
    BY DEF Init, DescriptorsUnshared
  <1> QED
    BY <1>1, <1>2, <1>3, <1>4, <1>5 DEF WorkerInv, WatchedFor

\* The server accepts a connection: its descriptor was closed, and is in the
\* table at most for the connection that is about to be removed.
LEMMA AcceptStep ==
  ASSUME WorkerInv, NEW f \in Fd, Accept(f)
  PROVE  WorkerInv'
  <1> DEFINE e == [fd |-> f, id |-> accepted + 1]
  <1>1. /\ f \notin open /\ accepted < MaxConn /\ open' = open \cup {f}
        /\ accepted' = accepted + 1 /\ q_conn' = Append(q_conn, e)
        /\ UNCHANGED <<conns, heap, io, timers, rtc, pc, cur>>
    BY DEF Accept
  <1>2. accepted \in 0..MaxConn /\ q_conn \in Seq([fd : Fd, id : Id])
    BY DEF WorkerInv, TypeOK
  <1>3. accepted + 1 \in Id /\ accepted + 1 \in 0..MaxConn
    BY <1>1, <1>2, BoundAssumption DEF Id
  <1>4. e \in [fd : Fd, id : Id] /\ e.fd = f
    BY <1>3
  <1> HIDE DEF e
  <1>5. /\ q_conn' \in Seq([fd : Fd, id : Id]) /\ Len(q_conn) \in Nat
        /\ Len(q_conn') = Len(q_conn) + 1 /\ q_conn'[Len(q_conn) + 1] = e
        /\ \A i \in 1..Len(q_conn) : q_conn'[i] = q_conn[i]
    BY <1>1, <1>2, <1>4, AppendElements
  <1>6. TypeOK'
    BY <1>1, <1>3, <1>5 DEF WorkerInv, TypeOK
  <1>7. TableOwnsConnections' /\ WatchersHaveConnections' /\ WatchedFor'
    BY <1>1 DEF WorkerInv, TableOwnsConnections, WatchersHaveConnections, WatchedFor, Live
  <1>8. DescriptorsUnshared'
    <2>1. \A i \in 1..Len(q_conn) : q_conn[i].fd \in open /\ q_conn[i].fd # f
      BY <1>1 DEF WorkerInv, DescriptorsUnshared
    <2>2. \A i \in 1..Len(q_conn') : i \in 1..Len(q_conn) \/ i = Len(q_conn) + 1
      BY <1>5
    <2>3. \A i \in 1..Len(q_conn') : q_conn'[i].fd \in open'
      BY <1>1, <1>4, <1>5, <2>1, <2>2
    <2>4. \A i, j \in 1..Len(q_conn') : q_conn'[i].fd = q_conn'[j].fd => i = j
      <3>1. \A i, j \in 1..Len(q_conn) : q_conn[i].fd = q_conn[j].fd => i = j
        BY DEF WorkerInv, DescriptorsUnshared
      <3> QED
        BY <1>4, <1>5, <2>1, <2>2, <3>1
    <2>5. ASSUME NEW g \in Fd, conns[g] # Null
          PROVE  \/ g \in open' /\ \A i \in 1..Len(q_conn') : q_conn'[i].fd # g
                 \/ pc = "remove" /\ cur = conns[g]
      <3>1. CASE pc = "remove" /\ cur = conns[g]
        BY <3>1
      <3>2. CASE g \in open /\ \A i \in 1..Len(q_conn) : q_conn[i].fd # g
        BY <1>1, <1>4, <1>5, <2>2, <3>2
      <3> QED
        BY <2>5, <3>1, <3>2 DEF WorkerInv, DescriptorsUnshared
    <2> QED
      BY <1>1, <2>3, <2>4, <2>5 DEF DescriptorsUnshared
  <1>9. (\A a \in Addr : Live(a) => ConnOK(heap[a]))'
    BY <1>1 DEF WorkerInv, Live
  <1> QED
    BY <1>6, <1>7, <1>8, <1>9 DEF WorkerInv

\* Time passes for every connection.
LEMMA TickStep ==
  ASSUME WorkerInv, Tick
  PROVE  WorkerInv'
  <1>0. TypeOK /\ TableOwnsConnections
    BY DEF WorkerInv
  <1>1. /\ heap' = [a \in Addr |-> IF Live(a) /\ heap[a].age < Timeout
                                 THEN [heap[a] EXCEPT !.age = @ + 1] ELSE heap[a]]
        /\ UNCHANGED <<open, q_conn, accepted, conns, io, timers, rtc, pc, cur>>
    BY DEF Tick
  <1>2. ASSUME NEW a \in Addr, Live(a)
        PROVE  /\ heap'[a] \in TcpConnection /\ heap'[a].fd = heap[a].fd
               /\ heap'[a].reply_list = heap[a].reply_list /\ ConnOK(heap'[a])
    <2>1. heap[a] \in TcpConnection /\ ConnOK(heap[a])
      BY <1>0, <1>2, LiveObject DEF WorkerInv
    <2>2. CASE heap[a].age < Timeout
      <3>1. heap'[a] = [heap[a] EXCEPT !.age = @ + 1]
        BY <1>1, <1>2, <2>2
      <3>2. heap[a].age \in 0..Timeout
        BY <2>1 DEF TcpConnection
      <3>3. heap[a].age + 1 \in 0..Timeout
        BY <2>2, <3>2, SizeAssumption
      <3>4. heap'[a] = [heap[a] EXCEPT !.age = heap[a].age + 1]
        BY <2>1, <3>1 DEF TcpConnection
      <3> QED
        BY <2>1, <3>3, <3>4, AgeObject
    <2>3. CASE ~ (heap[a].age < Timeout)
      BY <1>1, <2>1, <2>3
    <2> QED
      BY <2>2, <2>3
  <1>3. \A a \in Addr : ~ Live(a) => heap'[a] = Null
    BY <1>1 DEF Live
  <1>4. \A b \in Addr : (Live(b)' <=> Live(b)) /\ (Live(b) => heap'[b].fd = heap[b].fd)
    BY <1>2, <1>3, NullAssumption DEF Live
  <1>5. TypeOK'
    <2>1. \A a \in Addr : heap'[a] \in TcpConnection \cup {Null}
      BY <1>2, <1>3
    <2>2. heap' \in [Addr -> TcpConnection \cup {Null}]
      BY <1>1, <2>1
    <2> QED
      BY <1>0, <1>1, <2>2 DEF TypeOK
  <1>6. TableOwnsConnections' /\ WatchersHaveConnections' /\ DescriptorsUnshared'
    <2>1. cur' # Null => Live(cur)' /\ cur' \in Addr
      BY <1>0, <1>1, <1>4 DEF TypeOK, TableOwnsConnections
    <2>2. cur' # Null => Live(cur')
      BY <1>0, <1>1 DEF TableOwnsConnections
    <2>3. pc' # "idle" <=> cur' # Null
      BY <1>0, <1>1 DEF TableOwnsConnections
    <2> QED
      BY <1>1, <1>4, <1>5, <2>2, <2>3, SameObjects
  <1>7. WatchedFor'
    BY <1>1, <1>2, <1>4 DEF WorkerInv, WatchedFor
  <1>8. (\A a \in Addr : Live(a) => ConnOK(heap[a]))'
    <2>1. \A b \in Addr : Live(b)' => ConnOK(heap'[b])
      BY <1>2, <1>4
    <2> QED
      BY <2>1
  <1> QED
    BY <1>5, <1>6, <1>7, <1>8 DEF WorkerInv

\* A connection is taken from the queue: nobody has its descriptor.
LEMMA NewConnStep ==
  ASSUME WorkerInv, NewConn
  PROVE  WorkerInv'
  <1> DEFINE f == Head(q_conn).fd
             c == NewTcpConnection(f, Head(q_conn).id)
  <1>0. TypeOK /\ TableOwnsConnections /\ WatchersHaveConnections /\ DescriptorsUnshared
    BY DEF WorkerInv
  <1>1. PICK a \in Addr :
          /\ ~ Live(a) /\ heap' = [heap EXCEPT ![a] = c]
          /\ io' = [io EXCEPT ![f] = {"READ"}] /\ timers' = timers \cup {a}
          /\ conns' = [conns EXCEPT ![f] = a]
    BY DEF NewConn
  <1>2. pc = "idle" /\ q_conn # << >> /\ q_conn' = Tail(q_conn)
        /\ UNCHANGED <<open, accepted, rtc, pc, cur>>
    BY DEF NewConn
  <1>3. q_conn \in Seq([fd : Fd, id : Id])
    BY <1>0 DEF TypeOK
  <1>4. /\ Head(q_conn) = q_conn[1] /\ Head(q_conn) \in [fd : Fd, id : Id]
        /\ q_conn' \in Seq([fd : Fd, id : Id]) /\ Len(q_conn) \in Nat /\ 1 \in 1..Len(q_conn)
        /\ \A i \in 1..Len(q_conn') : i + 1 \in 1..Len(q_conn) /\ q_conn'[i] = q_conn[i + 1]
    BY <1>2, <1>3, HeadTailElements
  <1>5. f \in Fd /\ Head(q_conn).id \in Id
    BY <1>4
  <1>6. c \in TcpConnection /\ c.fd = f /\ c.reply_list = << >> /\ ConnOK(c) /\ c # Null
    BY <1>5, NewObject, NullAssumption
  <1>7. f \in open /\ conns[f] = Null
    <2>1. f = q_conn[1].fd
      BY <1>4
    <2> QED
      BY <1>0, <1>2, <1>4, <1>5, <2>1 DEF DescriptorsUnshared
  <1>8. io[f] = {}
    BY <1>0, <1>5, <1>7 DEF WatchersHaveConnections
  <1> HIDE DEF c
  <1>9. /\ heap'[a] = c /\ \A b \in Addr : b # a => heap'[b] = heap[b]
        /\ conns'[f] = a /\ \A g \in Fd : g # f => conns'[g] = conns[g]
        /\ io'[f] = {"READ"} /\ \A g \in Fd : g # f => io'[g] = io[g]
    BY <1>0, <1>1, <1>5 DEF TypeOK
  <1>10. \A b \in Addr : Live(b)' <=> Live(b) \/ b = a
    BY <1>1, <1>6, <1>9 DEF Live
  <1>11. TypeOK'
    <2>1. heap' \in [Addr -> TcpConnection \cup {Null}]
      BY <1>0, <1>1, <1>6 DEF TypeOK
    <2>2. conns' \in [Fd -> Addr \cup {Null}] /\ io' \in [Fd -> SUBSET {"READ", "WRITE"}]
          /\ timers' \subseteq Addr
      BY <1>0, <1>1 DEF TypeOK
    <2> QED
      BY <1>0, <1>2, <1>4, <2>1, <2>2 DEF TypeOK
  <1>12. a # Null /\ \A b \in Addr : Live(b) => b # a /\ heap[b].fd \in Fd /\ heap[b].fd # f
    BY <1>0, <1>1, <1>7, NullAssumption, LiveObject
  <1>13. TableOwnsConnections'
    <2>1. ASSUME NEW g \in Fd, conns'[g] # Null
          PROVE  Live(conns[g])' /\ heap'[conns'[g]].fd = g
      <3>1. CASE g = f
        BY <1>6, <1>9, <1>10, <3>1 DEF Live
      <3>2. CASE g # f
        <4>1. conns'[g] = conns[g] /\ conns[g] \in Addr /\ Live(conns[g]) /\ heap[conns[g]].fd = g
          BY <1>0, <1>9, <2>1, <3>2, EntryObject
        <4>2. conns[g] # a
          BY <1>1, <4>1
        <4> QED
          BY <1>9, <4>1, <4>2 DEF Live
      <3> QED
        BY <3>1, <3>2
    <2>2. ASSUME NEW b \in Addr, Live(b)' PROVE conns'[heap'[b].fd] = b
      <3>1. CASE b = a
        BY <1>6, <1>9, <3>1
      <3>2. CASE b # a
        BY <1>0, <1>9, <1>10, <1>12, <2>2, <3>2, LiveObject
      <3> QED
        BY <3>1, <3>2
    <2>3. cur' = Null /\ pc' = "idle"
      BY <1>0, <1>2 DEF TableOwnsConnections
    <2> QED
      BY <2>1, <2>2, <2>3 DEF TableOwnsConnections
  <1>14. WatchersHaveConnections'
    <2>1. timers' = {b \in Addr : Live(b)'}
      BY <1>0, <1>1, <1>10 DEF WatchersHaveConnections
    <2>2. \A g \in Fd : (io'[g] # {} <=> conns'[g] # Null) /\ (io'[g] # {} => "READ" \in io'[g])
      BY <1>0, <1>9, <1>12 DEF WatchersHaveConnections
    <2> QED
      BY <2>1, <2>2 DEF WatchersHaveConnections
  <1>15. DescriptorsUnshared'
    <2>1. \A i \in 1..Len(q_conn') : q_conn'[i].fd \in open'
      BY <1>0, <1>2, <1>4 DEF DescriptorsUnshared
    <2>2. \A i, j \in 1..Len(q_conn') : q_conn'[i].fd = q_conn'[j].fd => i = j
      <3> SUFFICES ASSUME NEW i \in 1..Len(q_conn'), NEW j \in 1..Len(q_conn'),
                          q_conn'[i].fd = q_conn'[j].fd
                   PROVE  i = j
        OBVIOUS
      <3>1. i + 1 = j + 1
        BY SMTT(90), <1>0, <1>4 DEF DescriptorsUnshared
      <3> QED
        BY <3>1
    <2>3. \A i \in 1..Len(q_conn') : q_conn'[i].fd # f
      <3> SUFFICES ASSUME NEW i \in 1..Len(q_conn'), q_conn'[i].fd = f
                   PROVE  FALSE
        OBVIOUS
      <3>1. i + 1 = 1
        BY <1>0, <1>4 DEF DescriptorsUnshared
      <3> QED
        BY <3>1
    <2>4. ASSUME NEW g \in Fd, conns'[g] # Null
          PROVE  g \in open' /\ \A i \in 1..Len(q_conn') : q_conn'[i].fd # g
      <3>1. CASE g = f
        BY <1>2, <1>7, <2>3, <3>1
      <3>2. CASE g # f
        BY <1>0, <1>2, <1>4, <1>9, <2>4, <3>2 DEF DescriptorsUnshared
      <3> QED
        BY <3>1, <3>2
    <2> QED
      BY <2>1, <2>2, <2>4 DEF DescriptorsUnshared
  <1>16. WatchedFor'
    <2> SUFFICES ASSUME NEW b \in Addr, Live(b)'
                 PROVE  heap'[b].reply_list # << >> <=> "WRITE" \in io'[heap'[b].fd]
      BY <1>2 DEF WatchedFor
    <2>1. CASE b = a
      BY <1>6, <1>9, <2>1
    <2>2. CASE b # a
      BY <1>2, <1>9, <1>10, <1>12, <2>2 DEF WorkerInv, WatchedFor
    <2> QED
      BY <2>1, <2>2
  <1>17. (\A b \in Addr : Live(b) => ConnOK(heap[b]))'
    <2>1. \A b \in Addr : Live(b)' => ConnOK(heap'[b])
      BY <1>6, <1>9, <1>10 DEF WorkerInv
    <2> QED
      BY <2>1
  <1> QED
    BY <1>11, <1>13, <1>14, <1>15, <1>16, <1>17 DEF WorkerInv

\* close(): the descriptor is free while the table still has its entry.
LEMMA CloseFdStep ==
  ASSUME WorkerInv, CloseFd
  PROVE  WorkerInv'
  <1>0. TypeOK /\ TableOwnsConnections /\ WatchersHaveConnections /\ DescriptorsUnshared
    BY DEF WorkerInv
  <1>1. /\ pc = "close" /\ pc' = "remove" /\ open' = open \ {heap[cur].fd}
        /\ UNCHANGED <<q_conn, accepted, conns, heap, io, timers, rtc, cur>>
    BY DEF CloseFd
  <1>2. cur # Null /\ cur \in Addr /\ Live(cur)
    BY <1>0, <1>1 DEF TypeOK, TableOwnsConnections
  <1>3. heap[cur].fd \in Fd /\ conns[heap[cur].fd] = cur
    BY <1>0, <1>2, LiveObject
  <1>4. TypeOK'
    BY <1>0, <1>1 DEF TypeOK
  <1>5. TableOwnsConnections' /\ WatchersHaveConnections'
    BY <1>0, <1>1, <1>2 DEF TableOwnsConnections, WatchersHaveConnections, Live
  <1>6. \A i \in 1..Len(q_conn) : q_conn[i].fd # heap[cur].fd
    BY <1>0, <1>1, <1>2, <1>3 DEF DescriptorsUnshared
  <1>7. DescriptorsUnshared'
    <2>1. ASSUME NEW g \in Fd, conns[g] # Null
          PROVE  \/ g \in open' /\ \A i \in 1..Len(q_conn) : q_conn[i].fd # g
                 \/ cur = conns[g]
      BY <1>0, <1>1, <1>3, <2>1 DEF DescriptorsUnshared
    <2>2. \A i \in 1..Len(q_conn) : q_conn[i].fd \in open'
      BY <1>0, <1>1, <1>6 DEF DescriptorsUnshared
    <2> QED
      BY <1>0, <1>1, <2>1, <2>2 DEF DescriptorsUnshared
  <1>8. WatchedFor' /\ (\A a \in Addr : Live(a) => ConnOK(heap[a]))'
    BY <1>1 DEF WorkerInv, WatchedFor, Live
  <1> QED
    BY <1>4, <1>5, <1>7, <1>8 DEF WorkerInv

\* _remove_conn: entry, watchers, timer and object go together.
LEMMA RemoveConnStep ==
  ASSUME WorkerInv, RemoveConn
  PROVE  WorkerInv'
  <1> DEFINE f == heap[cur].fd
  <1>0. TypeOK /\ TableOwnsConnections /\ WatchersHaveConnections /\ DescriptorsUnshared
    BY DEF WorkerInv
  <1>1. /\ pc = "remove" /\ pc' = "idle" /\ cur' = Null /\ timers' = timers \ {cur}
        /\ io' = [io EXCEPT ![f] = {}] /\ conns' = [conns EXCEPT ![f] = Null]
        /\ heap' = [heap EXCEPT ![cur] = Null] /\ UNCHANGED <<open, q_conn, accepted, rtc>>
    BY DEF RemoveConn
  <1>2. cur # Null /\ cur \in Addr /\ Live(cur)
    BY <1>0, <1>1 DEF TypeOK, TableOwnsConnections
  <1>3. f \in Fd /\ conns[f] = cur /\ \A b \in Addr : Live(b) /\ heap[b].fd = f => b = cur
    BY <1>0, <1>2, LiveObject
  <1> HIDE DEF f
  <1>4. /\ heap'[cur] = Null /\ \A b \in Addr : b # cur => heap'[b] = heap[b]
        /\ conns'[f] = Null /\ \A g \in Fd : g # f => conns'[g] = conns[g]
        /\ io'[f] = {} /\ \A g \in Fd : g # f => io'[g] = io[g]
    BY <1>0, <1>1, <1>2, <1>3 DEF TypeOK
  <1>5. \A b \in Addr : Live(b)' <=> Live(b) /\ b # cur
    BY <1>4 DEF Live
  <1>6. TypeOK'
    <2>1. heap' \in [Addr -> TcpConnection \cup {Null}] /\ conns' \in [Fd -> Addr \cup {Null}]
          /\ io' \in [Fd -> SUBSET {"READ", "WRITE"}]
      BY <1>0, <1>1 DEF TypeOK
    <2> QED
      BY <1>0, <1>1, <2>1 DEF TypeOK
  <1>7. \A b \in Addr : Live(b)' => heap[b].fd \in Fd /\ heap[b].fd # f /\ heap'[b] = heap[b]
    BY <1>0, <1>3, <1>4, <1>5, LiveObject
  <1>8. TableOwnsConnections'
    <2>1. ASSUME NEW g \in Fd, conns'[g] # Null
          PROVE  Live(conns[g])' /\ heap'[conns'[g]].fd = g
      <3>1. g # f /\ conns'[g] = conns[g]
        BY <1>4, <2>1
      <3>2. conns[g] \in Addr /\ Live(conns[g]) /\ heap[conns[g]].fd = g
        BY <1>0, <2>1, <3>1, EntryObject
      <3>3. conns[g] # cur
        BY <3>1, <3>2 DEF f
      <3> QED
        BY <1>4, <3>1, <3>2, <3>3 DEF Live
    <2>2. ASSUME NEW b \in Addr, Live(b)' PROVE conns'[heap'[b].fd] = b
      BY <1>0, <1>4, <1>5, <1>7, <2>2 DEF TableOwnsConnections
    <2> QED
      BY <1>1, <2>1, <2>2 DEF TableOwnsConnections
  <1>9. WatchersHaveConnections'
    <2>1. timers' = {b \in Addr : Live(b)'}
      BY <1>0, <1>1, <1>5 DEF WatchersHaveConnections
    <2>2. \A g \in Fd : (io'[g] # {} <=> conns'[g] # Null) /\ (io'[g] # {} => "READ" \in io'[g])
      BY <1>0, <1>4 DEF WatchersHaveConnections
    <2> QED
      BY <2>1, <2>2 DEF WatchersHaveConnections
  <1>10. DescriptorsUnshared'
    <2>1. ASSUME NEW g \in Fd, conns'[g] # Null
          PROVE  g \in open /\ \A i \in 1..Len(q_conn) : q_conn[i].fd # g
      <3>1. g # f /\ conns'[g] = conns[g]
        BY <1>4, <2>1
      <3>2. conns[g] # cur
        BY <1>0, <2>1, <3>1, EntryObject DEF f
      <3> QED
        BY <1>0, <2>1, <3>1, <3>2 DEF DescriptorsUnshared
    <2> QED
      BY <1>0, <1>1, <2>1 DEF DescriptorsUnshared
  <1>11. WatchedFor'
    BY <1>1, <1>4, <1>5, <1>7 DEF WorkerInv, WatchedFor
  <1>12. (\A b \in Addr : Live(b) => ConnOK(heap[b]))'
    <2>1. \A b \in Addr : Live(b)' => ConnOK(heap'[b])
      BY <1>5, <1>7 DEF WorkerInv
    <2> QED
      BY <2>1
  <1> QED
    BY <1>6, <1>8, <1>9, <1>10, <1>11, <1>12 DEF WorkerInv

\* A timer that finds its connection too old: the connection exists.
LEMMA ProcessTimeoutStep ==
  ASSUME WorkerInv, NEW a \in Addr, ProcessTimeout(a)
  PROVE  WorkerInv'
  <1>1. /\ pc = "idle" /\ a \in timers /\ pc' = "close" /\ cur' = a
        /\ UNCHANGED <<open, q_conn, accepted, conns, heap, io, timers, rtc>>
    BY DEF ProcessTimeout
  <1>2. Live(a) /\ a # Null
    BY <1>1, NullAssumption DEF WorkerInv, WatchersHaveConnections
  <1>3. WatchedFor'
    BY <1>1 DEF WorkerInv, WatchedFor, Live
  <1>4. Live(cur')
    BY <1>1, <1>2
  <1> QED
    BY <1>1, <1>2, <1>3, <1>4, NoObject DEF PcAt

\* _read_query: the descriptor's connection exists, although the code does
\* not look.
LEMMA ReadQueryStep ==
  ASSUME WorkerInv, NEW f \in Fd, ReadQuery(f)
  PROVE  WorkerInv'
  <1> DEFINE a == conns[f]
             c == heap[a]
  <1>0. TypeOK /\ TableOwnsConnections /\ WatchersHaveConnections
    BY DEF WorkerInv
  <1>1. /\ pc = "idle" /\ "READ" \in io[f] /\ cur' = a
        /\ UNCHANGED <<open, q_conn, accepted, conns, io, timers, rtc>>
    BY DEF ReadQuery
  <1>2. a \in Addr /\ Live(a) /\ c.fd = f /\ a # Null
    <2>1. conns[f] # Null
      BY <1>0, <1>1 DEF WatchersHaveConnections
    <2> QED
      BY <1>0, <2>1, EntryObject
  <1>3. c \in TcpConnection /\ ConnOK(c)
    BY <1>0, <1>2, LiveObject DEF WorkerInv
  <1>4. \E d \in TcpConnection :
          /\ d.fd = c.fd /\ d.reply_list = c.reply_list /\ ConnOK(d)
          /\ heap' = [heap EXCEPT ![a] = d] /\ pc' \in {"query", "close"}
    <2>1. ASSUME pc' = "close", heap' = [heap EXCEPT ![a].age = 0]
          PROVE  \E d \in TcpConnection :
                   /\ d.fd = c.fd /\ d.reply_list = c.reply_list /\ ConnOK(d)
                   /\ heap' = [heap EXCEPT ![a] = d] /\ pc' \in {"query", "close"}
      <3>1. heap' = [heap EXCEPT ![a] = [c EXCEPT !.age = 0]] /\ 0 \in 0..Timeout
        BY <2>1, SizeAssumption
      <3> QED
        BY <1>3, <2>1, <3>1, AgeObject
    <2>2. ASSUME NEW nread \in 0..c.bytes_expected, pc' = "query",
                 heap' = [heap EXCEPT ![a] = Received(c, nread)]
          PROVE  \E d \in TcpConnection :
                   /\ d.fd = c.fd /\ d.reply_list = c.reply_list /\ ConnOK(d)
                   /\ heap' = [heap EXCEPT ![a] = d] /\ pc' \in {"query", "close"}
      <3>1. nread \in Nat
        BY <1>3 DEF TcpConnection
      <3> QED
        BY <1>3, <2>2, <3>1, ReadObject
    <2> QED
      BY <2>1, <2>2 DEF ReadQuery
  <1>5. PICK d \in TcpConnection :
          /\ d.fd = c.fd /\ d.reply_list = c.reply_list /\ ConnOK(d)
          /\ heap' = [heap EXCEPT ![a] = d] /\ pc' \in {"query", "close"}
    BY <1>4
  <1>6. io[f] \in SUBSET {"READ", "WRITE"} /\ io' = [io EXCEPT ![d.fd] = io[f]]
    BY <1>0, <1>1, <1>2, <1>5 DEF TypeOK
  <1>7. d.reply_list # << >> <=> "WRITE" \in io[f]
    BY <1>1, <1>2, <1>5 DEF WorkerInv, WatchedFor
  <1>8. rtc' \subseteq RtcMsg /\ Live(cur')
    BY <1>0, <1>1, <1>2 DEF TypeOK
  <1> HIDE DEF a, c
  <1> QED
    BY <1>1, <1>2, <1>5, <1>6, <1>7, <1>8, OneObject DEF PcAt, c

\* The connection a handler works on while it runs.
LEMMA CurrentObject ==
  ASSUME WorkerInv, pc # "idle"
  PROVE  /\ cur \in Addr /\ cur # Null /\ Live(cur) /\ heap[cur] \in TcpConnection
         /\ ConnOK(heap[cur]) /\ heap[cur].fd \in Fd
         /\ io[heap[cur].fd] \in SUBSET {"READ", "WRITE"} /\ "READ" \in io[heap[cur].fd]
         /\ io = [io EXCEPT ![heap[cur].fd] = io[heap[cur].fd]]
  <1>0. TypeOK /\ TableOwnsConnections /\ WatchersHaveConnections
    BY DEF WorkerInv
  <1>1. cur \in Addr /\ cur # Null /\ Live(cur)
    BY <1>0 DEF TypeOK, TableOwnsConnections
  <1>2. heap[cur] \in TcpConnection /\ heap[cur].fd \in Fd /\ conns[heap[cur].fd] = cur
    BY <1>0, <1>1, LiveObject
  <1>3. "READ" \in io[heap[cur].fd]
    BY <1>0, <1>1, <1>2 DEF WatchersHaveConnections
  <1>4. io[heap[cur].fd] \in SUBSET {"READ", "WRITE"}
        /\ io = [io EXCEPT ![heap[cur].fd] = io[heap[cur].fd]]
    BY <1>0, <1>2 DEF TypeOK
  <1> QED
    BY <1>1, <1>2, <1>3, <1>4 DEF WorkerInv

\* The head of a request.
LEMMA QueryHeadStep ==
  ASSUME WorkerInv, NEW req \in Request, QueryHead(req)
  PROVE  WorkerInv'
  <1> DEFINE c == heap[cur]
             d == [c EXCEPT !.head = req, !.current_state = "BODY",
                            !.bytes_expected = req.body_len, !.bytes_processed = HeadSize]
  <1>1. /\ pc = "query" /\ c.current_state = "HEAD"
        /\ UNCHANGED <<open, q_conn, accepted, conns, io, timers, rtc, cur>>
    BY DEF QueryHead
  <1>2. /\ cur \in Addr /\ cur # Null /\ Live(cur) /\ c \in TcpConnection /\ ConnOK(c)
        /\ c.fd \in Fd /\ io[c.fd] \in SUBSET {"READ", "WRITE"} /\ "READ" \in io[c.fd]
        /\ io = [io EXCEPT ![c.fd] = io[c.fd]]
    BY <1>1, CurrentObject
  <1>3. CASE req.kind = "BADMAGIC"
    <2>1. pc' = "close" /\ UNCHANGED heap
      BY <1>3 DEF QueryHead
    <2>2. WatchedFor'
      BY <1>1, <2>1 DEF WorkerInv, WatchedFor, Live
    <2>3. Live(cur')
      BY <1>1, <1>2
    <2> QED
      BY <1>1, <1>2, <2>1, <2>2, <2>3, NoObject DEF PcAt
  <1>4. CASE req.kind # "BADMAGIC"
    <2>1. pc' = pc /\ heap' = [heap EXCEPT ![cur] = d]
      BY <1>4 DEF QueryHead
    <2>2. d \in TcpConnection /\ d.fd = c.fd /\ d.reply_list = c.reply_list /\ ConnOK(d)
      BY <1>1, <1>2, HeadObject
    <2>3. c.reply_list # << >> <=> "WRITE" \in io[c.fd]
      BY <1>1, <1>2 DEF WorkerInv, WatchedFor
    <2>4. rtc' \subseteq RtcMsg /\ Live(cur')
      BY <1>1, <1>2 DEF WorkerInv, TypeOK
    <2> HIDE DEF d
    <2> QED
      BY <1>1, <1>2, <2>1, <2>2, <2>3, <2>4, OneObject DEF PcAt
  <1> QED
    BY <1>3, <1>4

\* A request is served, or does not parse.
LEMMA QueryBodyStep ==
  ASSUME WorkerInv, QueryBody
  PROVE  WorkerInv'
  <1> DEFINE c == heap[cur]
             msg == [conn |-> cur, fd |-> c.fd, id |-> c.id, n |-> c.requests + 1]
  <1>1. /\ pc = "query" /\ Complete(c) /\ c.current_state = "BODY"
        /\ UNCHANGED <<open, q_conn, accepted, conns, timers, cur>>
    BY DEF QueryBody
  <1>2. /\ cur \in Addr /\ cur # Null /\ Live(cur) /\ c \in TcpConnection /\ ConnOK(c)
        /\ c.fd \in Fd /\ io[c.fd] \in SUBSET {"READ", "WRITE"} /\ "READ" \in io[c.fd]
        /\ io = [io EXCEPT ![c.fd] = io[c.fd]]
    BY <1>1, CurrentObject
  <1>3. c.reply_list # << >> <=> "WRITE" \in io[c.fd]
    BY <1>1, <1>2 DEF WorkerInv, WatchedFor
  <1>4. c.requests < MaxReplies => msg \in RtcMsg /\ msg \in Reply
    <2>1. c.requests \in 0..MaxReplies /\ c.id \in Id
      BY <1>2 DEF TcpConnection
    <2>2. c.requests < MaxReplies => c.requests + 1 \in 1..MaxReplies
      BY <2>1, BoundAssumption
    <2> QED
      BY <1>2, <2>1, <2>2 DEF RtcMsg, Reply
  <1>5. Live(cur') /\ rtc \subseteq RtcMsg
    BY <1>1, <1>2 DEF WorkerInv, TypeOK
  <1>6. CASE c.head.kind = "BADJSON"
    <2>1. pc' = "close" /\ UNCHANGED <<heap, io, rtc>>
      BY <1>6 DEF QueryBody
    <2>2. WatchedFor'
      BY <1>1, <2>1 DEF WorkerInv, WatchedFor, Live
    <2> QED
      BY <1>1, <1>2, <1>5, <2>1, <2>2, NoObject DEF PcAt
  <1>7. CASE c.head.kind = "PUSH"
    <2>1. /\ c.requests < MaxReplies /\ rtc' = rtc \cup {msg}
          /\ heap' = [heap EXCEPT ![cur] = Taken(c)] /\ UNCHANGED <<io, pc>>
      BY <1>7 DEF QueryBody
    <2>2. /\ Taken(c) \in TcpConnection /\ Taken(c).fd = c.fd
          /\ Taken(c).reply_list = c.reply_list /\ ConnOK(Taken(c))
      BY <1>1, <1>2, <2>1, TakenObject
    <2>3. rtc' \subseteq RtcMsg
      BY <1>4, <1>5, <2>1
    <2> QED
      BY <1>1, <1>2, <1>3, <1>5, <2>1, <2>2, <2>3, OneObject DEF PcAt
  <1>8. CASE c.head.kind \notin {"BADJSON", "PUSH"}
    <2> DEFINE d == [Taken(c) EXCEPT !.reply_list = Append(@, msg)]
    <2>1. c.requests < MaxReplies /\ AddReply(cur, Taken(c), msg) /\ UNCHANGED <<rtc, pc>>
      BY <1>8 DEF QueryBody
    <2>2. /\ Taken(c) \in TcpConnection /\ Taken(c).fd = c.fd
          /\ Taken(c).reply_list = c.reply_list /\ ConnOK(Taken(c))
      BY <1>1, <1>2, <2>1, TakenObject
    <2>3. d \in TcpConnection /\ d.fd = c.fd /\ d.reply_list # << >> /\ ConnOK(d)
      BY <1>4, <2>1, <2>2, ReplyObject
    <2>4. /\ heap' = [heap EXCEPT ![cur] = d]
          /\ io' = [io EXCEPT ![d.fd] = io[c.fd] \cup {"WRITE"}]
      BY <1>2, <2>1, <2>2, <2>3 DEF AddReply
    <2>5. /\ io[c.fd] \cup {"WRITE"} \in SUBSET {"READ", "WRITE"}
          /\ "READ" \in io[c.fd] \cup {"WRITE"} /\ "WRITE" \in io[c.fd] \cup {"WRITE"}
      BY <1>2
    <2> HIDE DEF d
    <2> QED
      BY <1>1, <1>2, <1>5, <2>1, <2>3, <2>4, <2>5, OneObject DEF PcAt
  <1> QED
    BY <1>6, <1>7, <1>8

\* The push of a connection that is still there is answered.
LEMMA ResponseServerOfferStep ==
  ASSUME WorkerInv, NEW m \in rtc, ResponseServerOffer(m)
  PROVE  WorkerInv'
  <1> DEFINE a == conns[m.fd]
             c == heap[a]
             d == [c EXCEPT !.reply_list = Append(@, m)]
  <1>0. TypeOK /\ TableOwnsConnections /\ WatchersHaveConnections
    BY DEF WorkerInv
  <1>1. /\ pc = "idle" /\ rtc' = rtc \ {m}
        /\ UNCHANGED <<open, q_conn, accepted, conns, timers, pc, cur>>
    BY DEF ResponseServerOffer
  <1>2. m \in Reply /\ m.fd \in Fd /\ m.conn \in Addr /\ rtc' \subseteq RtcMsg
    BY <1>0, <1>1 DEF TypeOK, RtcMsg, Reply
  <1>3. cur' = Null /\ pc' = "idle"
    BY <1>0, <1>1 DEF TableOwnsConnections
  <1>4. CASE IsRequester(m)
    <2>1. a \in Addr /\ Live(a) /\ c.fd = m.fd /\ c \in TcpConnection /\ ConnOK(c)
      <3>1. a # Null
        BY <1>2, <1>4, NullAssumption DEF IsRequester
      <3>2. a \in Addr /\ Live(a) /\ c.fd = m.fd
        BY <1>0, <1>2, <3>1, EntryObject
      <3> QED
        BY <1>0, <3>2, LiveObject DEF WorkerInv
    <2>2. d \in TcpConnection /\ d.fd = c.fd /\ d.reply_list # << >> /\ ConnOK(d)
      BY <1>2, <2>1, ReplyObject
    <2>3. /\ heap' = [heap EXCEPT ![a] = d]
          /\ io' = [io EXCEPT ![d.fd] = io[c.fd] \cup {"WRITE"}]
      BY <1>0, <1>4, <2>1, <2>2 DEF ResponseServerOffer, AddReply
    <2>4. /\ io[c.fd] \cup {"WRITE"} \in SUBSET {"READ", "WRITE"}
          /\ "READ" \in io[c.fd] \cup {"WRITE"} /\ "WRITE" \in io[c.fd] \cup {"WRITE"}
      <3>1. io[c.fd] \in SUBSET {"READ", "WRITE"} /\ conns[c.fd] # Null
        BY SMTT(90), <1>0, <1>2, <2>1, NullAssumption DEF TypeOK
      <3> QED
        BY <1>0, <1>2, <2>1, <3>1 DEF WatchersHaveConnections
    <2> DEFINE ev == io[c.fd] \cup {"WRITE"}
    <2>5. /\ d.fd = heap[a].fd /\ io' = [io EXCEPT ![d.fd] = ev]
          /\ ev \in SUBSET {"READ", "WRITE"} /\ "READ" \in ev /\ "WRITE" \in ev
      BY <2>2, <2>3, <2>4
    <2>6. a \in Addr /\ Live(a) /\ heap' = [heap EXCEPT ![a] = d]
      BY <2>1, <2>3
    <2> HIDE DEF d, c, a, ev
    <2> QED
      BY <1>1, <1>2, <1>3, <2>2, <2>5, <2>6, OneObject DEF PcAt
  <1>5. CASE ~ IsRequester(m)
    <2>1. UNCHANGED <<heap, io>>
      BY <1>5 DEF ResponseServerOffer
    <2>2. TypeOK'
      BY <1>0, <1>1, <1>2, <2>1 DEF TypeOK
    <2>3. TableOwnsConnections' /\ WatchersHaveConnections' /\ DescriptorsUnshared'
      BY <1>1, <1>3, <2>1, <2>2, SameObjects DEF Live
    <2>4. WatchedFor' /\ (\A b \in Addr : Live(b) => ConnOK(heap[b]))'
      BY <1>1, <2>1 DEF WorkerInv, WatchedFor, Live
    <2> QED
      BY <2>2, <2>3, <2>4 DEF WorkerInv
  <1> QED
    BY <1>4, <1>5

\* The loop finds a descriptor writable.
LEMMA WriteReplyStep ==
  ASSUME WorkerInv, NEW f \in Fd, WriteReply(f)
  PROVE  WorkerInv'
  <1>0. TypeOK /\ TableOwnsConnections
    BY DEF WorkerInv
  <1>1. /\ pc = "idle" /\ "WRITE" \in io[f] /\ conns[f] # Null /\ pc' = "write" /\ cur' = conns[f]
        /\ UNCHANGED <<open, q_conn, accepted, conns, heap, io, timers, rtc>>
    BY DEF WriteReply
  <1>2. conns[f] \in Addr /\ Live(conns[f]) /\ heap[conns[f]].fd = f
    BY <1>0, <1>1, EntryObject
  <1>3. WatchedFor'
    BY <1>1, <1>2 DEF WorkerInv, WatchedFor, Live
  <1>4. Live(cur')
    BY <1>1, <1>2
  <1> QED
    BY <1>1, <1>2, <1>3, <1>4, NoObject DEF PcAt

\* One write of _write_reply.
LEMMA WriteStepStep ==
  ASSUME WorkerInv, NEW n \in 1..RespSize, WriteStep(n)
  PROVE  WorkerInv'
  <1> DEFINE c == heap[cur]
  <1>1. /\ pc = "write" /\ c.reply_list # << >> /\ n <= RespSize - c.cur_resp_pos
        /\ heap' = [heap EXCEPT ![cur] = Written(c, n)]
        /\ UNCHANGED <<open, q_conn, accepted, conns, io, timers, rtc, pc, cur>>
    BY DEF WriteStep
  <1>2. /\ cur \in Addr /\ cur # Null /\ Live(cur) /\ c \in TcpConnection /\ ConnOK(c)
        /\ c.fd \in Fd /\ io[c.fd] \in SUBSET {"READ", "WRITE"} /\ "READ" \in io[c.fd]
        /\ io = [io EXCEPT ![c.fd] = io[c.fd]]
    BY <1>1, CurrentObject
  <1>3. "WRITE" \in io[c.fd]
    BY <1>1, <1>2 DEF WorkerInv, WatchedFor
  <1>4. Live(cur') /\ rtc' \subseteq RtcMsg
    BY <1>1, <1>2 DEF WorkerInv, TypeOK
  <1>5. n \in 1..(RespSize - c.cur_resp_pos)
    <2>1. c.cur_resp_pos \in 0..(RespSize - 1)
      BY <1>2 DEF TcpConnection
    <2> QED
      BY <1>1, <2>1, SizeAssumption
  <1>6. Written(c, n) \in TcpConnection /\ Written(c, n).fd = c.fd /\ ConnOK(Written(c, n))
    BY <1>1, <1>2, <1>5, WrittenObject
  <1> QED
    BY <1>1, <1>2, <1>3, <1>4, <1>6, OneObject DEF PcAt

\* A write that fails: the reply still waits, and WRITE is still watched.
LEMMA WriteFailsStep ==
  ASSUME WorkerInv, WriteFails
  PROVE  WorkerInv'
  <1>1. /\ pc = "write" /\ heap[cur].reply_list # << >> /\ pc' \in {"close", "killed"}
        /\ UNCHANGED <<open, q_conn, accepted, conns, heap, io, timers, rtc, cur>>
    BY DEF WriteFails
  <1>2. cur \in Addr /\ cur # Null /\ Live(cur)
    BY <1>1, CurrentObject
  <1>3. "WRITE" \in io[heap[cur].fd]
    BY <1>1, <1>2 DEF WorkerInv, WatchedFor
  <1>4. WatchedFor'
    BY <1>1, <1>3 DEF WorkerInv, WatchedFor, Live
  <1>5. Live(cur')
    BY <1>1, <1>2
  <1> QED
    BY <1>1, <1>2, <1>4, <1>5, NoObject DEF PcAt

\* The last reply is written, and WRITE is dropped.
LEMMA WriteDoneStep ==
  ASSUME WorkerInv, WriteDone
  PROVE  WorkerInv'
  <1> DEFINE c == heap[cur]
             d == [c EXCEPT !.age = 0]
             ev == io[c.fd] \ {"WRITE"}
  <1>1. /\ pc = "write" /\ c.reply_list = << >> /\ heap' = [heap EXCEPT ![cur].age = 0]
        /\ io' = [io EXCEPT ![c.fd] = @ \ {"WRITE"}] /\ pc' = "idle" /\ cur' = Null
        /\ UNCHANGED <<open, q_conn, accepted, conns, timers, rtc>>
    BY DEF WriteDone
  <1>2. /\ cur \in Addr /\ cur # Null /\ Live(cur) /\ c \in TcpConnection /\ ConnOK(c)
        /\ c.fd \in Fd /\ io[c.fd] \in SUBSET {"READ", "WRITE"} /\ "READ" \in io[c.fd]
    BY <1>1, CurrentObject
  <1>3. d \in TcpConnection /\ d.fd = c.fd /\ d.reply_list = c.reply_list /\ ConnOK(d)
    <2>1. 0 \in 0..Timeout
      BY SizeAssumption
    <2> QED
      BY <1>2, <2>1, AgeObject
  <1>4. heap' = [heap EXCEPT ![cur] = d] /\ io' = [io EXCEPT ![d.fd] = ev]
    BY <1>1, <1>2, <1>3
  <1>5. ev \in SUBSET {"READ", "WRITE"} /\ "READ" \in ev /\ "WRITE" \notin ev
    BY <1>2
  <1>6. rtc' \subseteq RtcMsg
    BY <1>1 DEF WorkerInv, TypeOK
  <1> HIDE DEF d, ev
  <1> QED
    BY ZenonT(120), <1>1, <1>2, <1>3, <1>4, <1>5, <1>6, OneObject DEF PcAt

\* The loop of _process_query_buffer ends.
LEMMA QueryDoneStep ==
  ASSUME WorkerInv, QueryDone
  PROVE  WorkerInv'
  <1>1. /\ pc = "query" /\ pc' = "idle" /\ cur' = Null
        /\ UNCHANGED <<open, q_conn, accepted, conns, heap, io, timers, rtc>>
    BY DEF QueryDone
  <1>2. WatchedFor'
    BY <1>1 DEF WorkerInv, WatchedFor, Live
  <1> QED
    BY <1>1, <1>2, NoObject DEF PcAt

-----------------------------------------------------------------------------
\* Every step of the worker and its surroundings keeps WorkerInv.
LEMMA WorkerInvStep ==
  ASSUME WorkerInv, [Next]_vars
  PROVE  WorkerInv'
  <1>1. ASSUME NEW f \in Fd, Accept(f) PROVE WorkerInv'
    BY <1>1, AcceptStep
  <1>2. CASE Tick
    BY <1>2, TickStep
  <1>3. CASE NewConn
    BY <1>3, NewConnStep
  <1>4. ASSUME NEW a \in Addr, ProcessTimeout(a) PROVE WorkerInv'
    BY <1>4, ProcessTimeoutStep
  <1>5. ASSUME NEW f \in Fd, ReadQuery(f) PROVE WorkerInv'
    BY <1>5, ReadQueryStep
  <1>6. ASSUME NEW m \in rtc, ResponseServerOffer(m) PROVE WorkerInv'
    BY <1>6, ResponseServerOfferStep
  <1>7. ASSUME NEW f \in Fd, WriteReply(f) PROVE WorkerInv'
    BY <1>7, WriteReplyStep
  <1>8. CASE Handle
    BY <1>8, CloseFdStep, RemoveConnStep, QueryHeadStep, QueryBodyStep, QueryDoneStep,
       WriteDoneStep DEF Handle
  <1>9. CASE UNCHANGED vars
    <2>1. UNCHANGED <<open, q_conn, accepted, conns, heap, io, timers, rtc, pc, cur>>
      BY <1>9 DEF vars
    <2>2. WatchedFor' /\ (\A b \in Addr : Live(b) => ConnOK(heap[b]))'
      BY <2>1 DEF WorkerInv, WatchedFor, Live
    <2>3. TypeOK' /\ TableOwnsConnections' /\ WatchersHaveConnections' /\ DescriptorsUnshared'
      BY <2>1 DEF WorkerInv, TypeOK, TableOwnsConnections, WatchersHaveConnections,
                  DescriptorsUnshared, Live
    <2> QED
      BY <2>2, <2>3 DEF WorkerInv
  <1>10. ASSUME NEW n \in 1..RespSize, WriteStep(n) PROVE WorkerInv'
    BY <1>10, WriteStepStep
  <1>11. CASE WriteFails
    BY <1>11, WriteFailsStep
  <1> QED
    BY <1>1, <1>2, <1>3, <1>4, <1>5, <1>6, <1>7, <1>8, <1>9, <1>10, <1>11 DEF Next

\* WorkerInv holds in every state, for any clients, descriptors and addresses.
THEOREM WorkerInvariant == Spec => []WorkerInv
  BY WorkerInvInit, WorkerInvStep, PTL DEF Spec

\* _conns and the TcpConnection objects agree, although a descriptor is free
\* and can be accepted again before its old entry is cleared.
THEOREM TableIsSound == Spec => []TableOwnsConnections
  BY WorkerInvariant, PTL DEF WorkerInv

\* Callbacks find the connection they were registered for, and every
\* connection has its watcher and its timer.
THEOREM WatchersAreSound == Spec => []WatchersHaveConnections
  BY WorkerInvariant, PTL DEF WorkerInv

\* No descriptor is in the table or in _q_conn twice, or there and closed.
THEOREM DescriptorsAreUnshared == Spec => []DescriptorsUnshared
  BY WorkerInvariant, PTL DEF WorkerInv

\* Between handlers, WRITE is watched exactly where a reply waits.
THEOREM RepliesAreWatched == Spec => []RepliesWatched
  <1>1. WorkerInv => RepliesWatched
    BY DEF WorkerInv, WatchedFor, RepliesWatched
  <1> QED
    BY <1>1, WorkerInvariant, PTL

\* Whatever part of a reply each write takes, the bytes on a socket are whole
\* replies one after the other.
THEOREM RepliesAreWhole == Spec => []RepliesWhole
  <1>1. WorkerInv => RepliesWhole
    BY DEF WorkerInv, ConnOK, WireWhole, ByteFollows, RepliesWhole
  <1> QED
    BY <1>1, WorkerInvariant, PTL

\* A connection's second request is taken only when the mark of 65535 and the
\* length of the body were received, for any cut of the bytes into reads.
THEOREM OneRequestPerConnection == Spec => []OneRequestBelowMark
  <1>1. WorkerInv => OneRequestBelowMark
    <2> SUFFICES ASSUME WorkerInv, NEW a \in Addr, Live(a), heap[a].requests > 1
                 PROVE  heap[a].head # Null /\ heap[a].qlen >= Mark + heap[a].head.body_len
      BY DEF OneRequestBelowMark
    <2>1. Framing(heap[a]) /\ heap[a] \in TcpConnection
      BY LiveObject DEF WorkerInv, ConnOK
    <2>2. heap[a].requests \in 0..MaxReplies
      BY <2>1 DEF TcpConnection
    <2>3. heap[a].requests >= 2
      BY <2>2, BoundAssumption
    <2>4. heap[a].requests # 0
      BY <2>3
    <2>5. heap[a].head \in Request => heap[a].head # Null
      BY NullAssumption
    <2> QED
      BY <2>1, <2>3, <2>4, <2>5 DEF Framing
  <1> QED
    BY <1>1, WorkerInvariant, PTL
=============================================================================
