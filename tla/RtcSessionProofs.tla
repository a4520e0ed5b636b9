-------------------------- MODULE RtcSessionProofs --------------------------
(***************************************************************************)
(* Proofs about RtcSession, for any streams, users, interfaces, port       *)
(* ranges, requests and texts of answers, and any number of pushes:        *)
(*   SessionInvariant, and from it                                         *)
(*     OffersAreServed, PortsAreFromRange, PasswordsFollowAnswers;         *)
(*   AnswerInvariant, and from it AnswersReachTheirPush;                   *)
(*   FingerprintMatchesRfc, IntegrityMatchesRfc, WritesRfcMessages about   *)
(*     the codec of StunMessage, and from them and the invariants          *)
(*     PingsAreAccepted, RepliesFollowRfc.                                 *)
(*                                                                         *)
(* A handler either makes a peer connection or changes the channels of one *)
(* that is there: Evolves says what the latter may do, for all of them.    *)
(* What the loop over the lines of an answer finds is proved by induction  *)
(* on the number of lines, from the least one for which it would be wrong; *)
(* so is what the sizes of attributes add up to.                           *)
(***************************************************************************)
EXTENDS RtcSession, FiniteSetTheorems, SequenceTheorems, WellFoundedInduction, TLAPS

Place == Network \X Addr

\* The fields of connections, channels and peer connections.  Credentials that
\* were parsed are whatever the text had, so that there is no set of them.
IsConn(c) == c = Nil \/ c = [ufrag |-> c.ufrag, password |-> c.password]

IsChannel(ch) ==
  /\ ch = [params |-> ch.params, remote |-> ch.remote, replaced |-> ch.replaced,
           ports |-> ch.ports, conns |-> ch.conns, dtls |-> ch.dtls]
  /\ ch.replaced \in BOOLEAN
  /\ ch.conns = [x \in Place |-> ch.conns[x]]
  /\ \A x \in Place : IsConn(ch.conns[x])
  /\ ch.dtls = [local_certificate |-> ch.dtls.local_certificate,
                cached_client_hello |-> ch.dtls.cached_client_hello, dtls |-> ch.dtls.dtls]

IsPeer(pc) ==
  /\ pc = [uid |-> pc.uid, stream |-> pc.stream, intact |-> pc.intact, fails |-> pc.fails,
           desc |-> pc.desc, offer |-> pc.offer, channels |-> pc.channels]
  /\ pc.channels = [mid \in DOMAIN pc.channels |-> pc.channels[mid]]
  /\ \A mid \in DOMAIN pc.channels : IsChannel(pc.channels[mid])

Shape ==
  /\ pcs \in Seq(Range(pcs))
  /\ \A n \in DOMAIN pcs : IsPeer(pcs[n])

\* Until an answer replaces another, connections of the answer's peer have its
\* password, and before any answer none has one.
Passwords(ch) ==
  ~ ch.replaced =>
    \A x \in Place : ch.conns[x] # Nil =>
      /\ ch.conns[x].ufrag = ch.remote.ufrag => ch.conns[x].password = ch.remote.pwd
      /\ ch.remote = NoParams => ch.conns[x].password = Empty

\* What the handlers may do to a channel once it is there: of its peer's
\* ufrag they make one of a set.
ChannelStep(a, b, U) ==
  /\ IsChannel(b)
  /\ b.remote = a.remote \/ b.remote.ufrag \in U
  /\ b.params = a.params /\ b.ports = a.ports
  /\ b.dtls.local_certificate = a.dtls.local_certificate
  /\ Passwords(a) => Passwords(b)

-----------------------------------------------------------------------------
(* Steps of a channel *)

LEMMA ChannelStays == ASSUME NEW ch, IsChannel(ch), NEW U PROVE ChannelStep(ch, ch, U)
  BY DEF ChannelStep

LEMMA NewParamsStep ==
  ASSUME NEW ch, IsChannel(ch), NEW U, NEW u \in U, NEW p
  PROVE  ChannelStep(ch, SetRemoteIceParams(ch, [ufrag |-> u, pwd |-> p]), U)
  <1> DEFINE params == [ufrag |-> u, pwd |-> p]
             conns == [x \in Place |-> MaybeSetRemoteIceParams(ch.conns[x], params)]
             gone == ch.remote \notin {NoParams, params}
             b == [params |-> ch.params, remote |-> params, replaced |-> ch.replaced \/ gone,
                   ports |-> ch.ports, conns |-> conns, dtls |-> ch.dtls]
  <1>1. SetRemoteIceParams(ch, params) = b
    <2>1. DOMAIN ch.conns = Place
      BY DEF IsChannel
    <2>2. [x \in DOMAIN ch.conns |-> MaybeSetRemoteIceParams(ch.conns[x], params)] = conns
      BY <2>1
    <2> HIDE DEF conns, params, gone
    <2>4. SetRemoteIceParams(ch, params)
            = [ch EXCEPT !.remote = params, !.replaced = ch.replaced \/ gone, !.conns = conns]
      BY <2>2 DEF SetRemoteIceParams, gone
    <2> QED
      BY <2>4 DEF IsChannel
  <1>2. params.ufrag = u /\ params.pwd = p
    OBVIOUS
  <1>3. \A x \in Place : conns[x] = MaybeSetRemoteIceParams(ch.conns[x], params)
    OBVIOUS
  <1>8. conns = [x \in Place |-> conns[x]]
    OBVIOUS
  <1> HIDE DEF params, conns
  <1>4. \A x \in Place :
          /\ ch.conns[x] = Nil => conns[x] = Nil
          /\ ch.conns[x] # Nil =>
               /\ conns[x] = [ufrag |-> conns[x].ufrag, password |-> conns[x].password]
               /\ conns[x].ufrag = ch.conns[x].ufrag
               /\ conns[x].password = IF ch.conns[x].ufrag = u /\ ch.conns[x].password = Empty
                                      THEN p ELSE ch.conns[x].password
    <2> SUFFICES ASSUME NEW x \in Place
                 PROVE  /\ ch.conns[x] = Nil => conns[x] = Nil
                        /\ ch.conns[x] # Nil =>
                             /\ conns[x] = [ufrag |-> conns[x].ufrag, password |-> conns[x].password]
                             /\ conns[x].ufrag = ch.conns[x].ufrag
                             /\ conns[x].password = IF ch.conns[x].ufrag = u /\ ch.conns[x].password = Empty
                                                    THEN p ELSE ch.conns[x].password
      OBVIOUS
    <2>1. IsConn(ch.conns[x])
      BY DEF IsChannel
    <2> QED
      BY <2>1, <1>2, <1>3 DEF MaybeSetRemoteIceParams, IsConn
  <1>5. /\ b.params = ch.params /\ b.remote = params /\ b.replaced = (ch.replaced \/ gone)
        /\ b.ports = ch.ports /\ b.conns = conns /\ b.dtls = ch.dtls
        /\ b = [params |-> b.params, remote |-> b.remote, replaced |-> b.replaced,
                ports |-> b.ports, conns |-> b.conns, dtls |-> b.dtls]
    OBVIOUS
  <1> HIDE DEF b
  <1>6. IsChannel(b)
    <2>1. \A x \in Place : IsConn(conns[x])
      BY <1>4 DEF IsConn
    <2>2. b.replaced \in BOOLEAN
      BY <1>5
    <2> QED
      BY <2>1, <2>2, <1>5, <1>8 DEF IsChannel
  <1>7. Passwords(ch) => Passwords(b)
    <2> SUFFICES ASSUME Passwords(ch), ~ b.replaced, NEW x \in Place, conns[x] # Nil
                 PROVE  /\ conns[x].ufrag = u => conns[x].password = p
                        /\ params = NoParams => conns[x].password = Empty
      BY <1>2, <1>5 DEF Passwords
    <2>1. ~ ch.replaced /\ (ch.remote = NoParams \/ ch.remote = params)
      BY <1>5 DEF gone
    <2>2. ch.conns[x] # Nil
      BY <1>4
    <2>3. /\ ch.conns[x].ufrag = ch.remote.ufrag => ch.conns[x].password = ch.remote.pwd
          /\ ch.remote = NoParams => ch.conns[x].password = Empty
      BY <2>1, <2>2 DEF Passwords
    <2>4. NoParams.ufrag = Empty /\ NoParams.pwd = Empty
      BY DEF NoParams
    <2>5. CASE ch.remote = NoParams
      BY <2>2, <2>3, <2>4, <2>5, <1>2, <1>4
    <2>6. CASE ch.remote = params
      BY <2>2, <2>3, <2>4, <2>6, <1>2, <1>4
    <2> QED
      BY <2>1, <2>5, <2>6
  <1> QED
    BY <1>1, <1>2, <1>5, <1>6, <1>7 DEF ChannelStep, params

LEMMA NewConnectionStep ==
  ASSUME NEW ch, IsChannel(ch), NEW x \in Place, NEW u
  PROVE  ChannelStep(ch, [ch EXCEPT !.conns = [ch.conns EXCEPT ![x] = [ufrag |-> u, password |-> ch.remote.pwd]]], {})
  <1> DEFINE c == [ufrag |-> u, password |-> ch.remote.pwd]
             conns == [ch.conns EXCEPT ![x] = c]
             b == [ch EXCEPT !.conns = conns]
  <1>1. c.ufrag = u /\ c.password = ch.remote.pwd /\ IsConn(c)
    BY DEF IsConn
  <1> HIDE DEF c
  <1>2. conns = [y \in Place |-> conns[y]] /\ \A y \in Place : conns[y] = IF y = x THEN c ELSE ch.conns[y]
    BY DEF IsChannel
  <1> HIDE DEF conns
  <1>3. /\ b.params = ch.params /\ b.remote = ch.remote /\ b.replaced = ch.replaced
        /\ b.ports = ch.ports /\ b.conns = conns /\ b.dtls = ch.dtls
        /\ b = [params |-> b.params, remote |-> b.remote, replaced |-> b.replaced,
                ports |-> b.ports, conns |-> b.conns, dtls |-> b.dtls]
    BY DEF IsChannel
  <1> HIDE DEF b
  <1>4. IsChannel(b)
    BY <1>1, <1>2, <1>3 DEF IsChannel
  <1>5. Passwords(ch) => Passwords(b)
    <2>1. NoParams.pwd = Empty
      BY DEF NoParams
    <2> QED
      BY <2>1, <1>1, <1>2, <1>3 DEF Passwords
  <1> QED
    BY <1>3, <1>4, <1>5 DEF ChannelStep, b, conns, c

LEMMA ClientHelloStep ==
  ASSUME NEW ch, IsChannel(ch)
  PROVE  ChannelStep(ch, [ch EXCEPT !.dtls = [local_certificate |-> ch.dtls.local_certificate,
                                              cached_client_hello |-> TRUE, dtls |-> TRUE]], {})
  <1> DEFINE d == [local_certificate |-> ch.dtls.local_certificate, cached_client_hello |-> TRUE, dtls |-> TRUE]
             b == [ch EXCEPT !.dtls = d]
  <1>1. /\ d.local_certificate = ch.dtls.local_certificate
        /\ d = [local_certificate |-> d.local_certificate,
                cached_client_hello |-> d.cached_client_hello, dtls |-> d.dtls]
    OBVIOUS
  <1> HIDE DEF d
  <1>2. /\ b.params = ch.params /\ b.remote = ch.remote /\ b.replaced = ch.replaced
        /\ b.ports = ch.ports /\ b.conns = ch.conns /\ b.dtls = d
        /\ b = [params |-> b.params, remote |-> b.remote, replaced |-> b.replaced,
                ports |-> b.ports, conns |-> b.conns, dtls |-> b.dtls]
    BY DEF IsChannel
  <1> HIDE DEF b
  <1>3. IsChannel(b)
    BY <1>1, <1>2 DEF IsChannel
  <1>4. Passwords(ch) => Passwords(b)
    BY <1>2 DEF Passwords
  <1> QED
    BY <1>1, <1>2, <1>3, <1>4 DEF ChannelStep, b, d

-----------------------------------------------------------------------------
(* Steps of the worker that make no peer connection *)

PeerStep(a, b, U) ==
  /\ IsPeer(b)
  /\ b.uid = a.uid /\ b.stream = a.stream /\ b.intact = a.intact /\ b.fails = a.fails
  /\ b.desc = a.desc /\ b.offer = a.offer
  /\ DOMAIN b.channels = DOMAIN a.channels
  /\ \A mid \in DOMAIN a.channels : ChannelStep(a.channels[mid], b.channels[mid], U)

\* A step makes no peer connection; only that of k may get another ufrag.
Evolves(k, U) ==
  /\ pcs' \in Seq(Range(pcs'))
  /\ DOMAIN pcs' = DOMAIN pcs
  /\ \A n \in DOMAIN pcs : PeerStep(pcs[n], pcs'[n], IF n = k THEN U ELSE {})

LEMMA PeerStays == ASSUME NEW pc, IsPeer(pc), NEW U PROVE PeerStep(pc, pc, U)
  BY ChannelStays DEF PeerStep, IsPeer

LEMMA NothingEvolves == ASSUME Shape, UNCHANGED pcs PROVE Evolves(0, {})
  BY PeerStays DEF Shape, Evolves

\* New channels for one peer connection
LEMMA SetChannels ==
  ASSUME NEW pc, IsPeer(pc), NEW U, NEW g, g = [mid \in DOMAIN pc.channels |-> g[mid]],
         \A mid \in DOMAIN pc.channels : ChannelStep(pc.channels[mid], g[mid], U)
  PROVE  PeerStep(pc, [pc EXCEPT !.channels = g], U)
  <1> DEFINE b == [pc EXCEPT !.channels = g]
  <1>1. /\ b.uid = pc.uid /\ b.stream = pc.stream /\ b.intact = pc.intact /\ b.fails = pc.fails
        /\ b.desc = pc.desc /\ b.offer = pc.offer /\ b.channels = g
        /\ b = [uid |-> b.uid, stream |-> b.stream, intact |-> b.intact, fails |-> b.fails,
                desc |-> b.desc, offer |-> b.offer, channels |-> b.channels]
    BY DEF IsPeer
  <1>2. DOMAIN g = DOMAIN pc.channels
    OBVIOUS
  <1> HIDE DEF b
  <1>3. \A mid \in DOMAIN g : IsChannel(g[mid])
    BY <1>2 DEF ChannelStep
  <1>4. IsPeer(b)
    BY <1>1, <1>2, <1>3 DEF IsPeer
  <1>5. PeerStep(pc, b, U)
    BY <1>1, <1>2, <1>4 DEF PeerStep
  <1> QED
    BY <1>5 DEF b

LEMMA FunctionIsSeq ==
  ASSUME NEW T, NEW k \in Nat, NEW s \in [1..k -> T]
  PROVE  s \in Seq(T)
  OBVIOUS

LEMMA SetPeer ==
  ASSUME Shape, NEW n, NEW U, NEW b, n \in DOMAIN pcs => PeerStep(pcs[n], b, U),
         pcs' = [pcs EXCEPT ![n] = b]
  PROVE  Evolves(n, U)
  <1>1. pcs \in Seq(Range(pcs))
    BY DEF Shape
  <1>2. Len(pcs) \in Nat /\ DOMAIN pcs = 1..Len(pcs)
    BY <1>1
  <1>3. DOMAIN pcs' = DOMAIN pcs /\ \A k \in DOMAIN pcs : pcs'[k] = IF k = n THEN b ELSE pcs[k]
    OBVIOUS
  <1>4. pcs' = [k \in 1..Len(pcs) |-> pcs'[k]]
    BY <1>2
  <1>5. \A k \in 1..Len(pcs) : pcs'[k] \in Range(pcs')
    BY <1>2, <1>3 DEF Range
  <1>6. pcs' \in Seq(Range(pcs'))
    <2> PICK q : q = pcs'
      OBVIOUS
    <2> PICK T : T = Range(q)
      BY SMTT(90)
    <2> PICK k \in Nat : k = Len(pcs)
      BY <1>2
    <2>1. q = [i \in 1..k |-> q[i]] /\ \A i \in 1..k : q[i] \in T
      BY <1>4, <1>5
    <2>2. q \in [1..k -> T]
      BY <2>1
    <2>3. q \in Seq(T)
      BY <2>2, FunctionIsSeq
    <2> QED
      BY <2>3
  <1>7. \A k \in DOMAIN pcs : PeerStep(pcs[k], pcs'[k], IF k = n THEN U ELSE {})
    BY <1>3, PeerStays DEF Shape
  <1> QED
    BY <1>3, <1>6, <1>7 DEF Evolves

LEMMA SetChannel ==
  ASSUME Shape, NEW n \in DOMAIN pcs, NEW mid \in DOMAIN pcs[n].channels, NEW b,
         ChannelStep(pcs[n].channels[mid], b, {}),
         pcs' = [pcs EXCEPT ![n] = [pcs[n] EXCEPT !.channels = [pcs[n].channels EXCEPT ![mid] = b]]]
  PROVE  Evolves(0, {})
  <1> DEFINE pc == pcs[n]
             g == [pc.channels EXCEPT ![mid] = b]
  <1>1. IsPeer(pc)
    BY DEF Shape
  <1>2. DOMAIN g = DOMAIN pc.channels
        /\ \A k \in DOMAIN pc.channels : g[k] = IF k = mid THEN b ELSE pc.channels[k]
    OBVIOUS
  <1>3. g = [k \in DOMAIN pc.channels |-> g[k]]
    OBVIOUS
  <1>4. \A k \in DOMAIN pc.channels : ChannelStep(pc.channels[k], g[k], {})
    <2> HIDE DEF g
    <2> QED
      BY <1>1, <1>2, ChannelStays DEF IsPeer
  <1> HIDE DEF g
  <1>5. PeerStep(pc, [pc EXCEPT !.channels = g], {})
    BY <1>1, <1>3, <1>4, SetChannels
  <1>6. Evolves(n, {})
    BY <1>5, SetPeer DEF g
  <1> QED
    BY <1>6 DEF Evolves

LEMMA ReceiveRequestEvolves ==
  ASSUME Shape, NEW n \in DOMAIN pcs, NEW mid \in DOMAIN pcs[n].channels, NEW x \in Network \X Addr,
         NEW check \in Check, ReceiveRequest(n, mid, x, check)
  PROVE  Evolves(0, {})
  <1> DEFINE ch == pcs[n].channels[mid]
             u == GetAttribute(PeerRequest[<<n, check>>], "USERNAME").value[2]
             c == [ufrag |-> u, password |-> ch.remote.pwd]
  <1>1. IsChannel(ch) /\ x \in Place
    BY DEF Shape, IsPeer, Place
  <1>2. \/ pcs' = pcs
        \/ pcs' = [pcs EXCEPT ![n].channels[mid].conns[x] = c]
    BY DEF ReceiveRequest, NewConnection, Channel
  <1> HIDE DEF u
  <1>3. CASE pcs' = pcs
    BY <1>3, NothingEvolves
  <1>4. CASE pcs' = [pcs EXCEPT ![n].channels[mid].conns[x] = c]
    <2>1. ChannelStep(ch, [ch EXCEPT !.conns = [ch.conns EXCEPT ![x] = c]], {})
      BY <1>1, NewConnectionStep
    <2>2. pcs' = [pcs EXCEPT ![n] = [pcs[n] EXCEPT !.channels = [pcs[n].channels EXCEPT
                    ![mid] = [ch EXCEPT !.conns = [ch.conns EXCEPT ![x] = c]]]]]
      BY <1>4
    <2> QED
      BY <2>1, <2>2, SetChannel
  <1> QED
    BY <1>2, <1>3, <1>4

LEMMA SetBothFlags ==
  ASSUME NEW r, NEW t, r = [local_certificate |-> r.local_certificate,
                            cached_client_hello |-> r.cached_client_hello, dtls |-> r.dtls]
  PROVE  [[r EXCEPT !.cached_client_hello = t] EXCEPT !.dtls = t]
           = [local_certificate |-> r.local_certificate, cached_client_hello |-> t, dtls |-> t]
  <1> DEFINE r1 == [r EXCEPT !.cached_client_hello = t]
  <1>1. /\ r1.local_certificate = r.local_certificate /\ r1.cached_client_hello = t
        /\ DOMAIN r1 = {"local_certificate", "cached_client_hello", "dtls"}
    OBVIOUS
  <1>2. r1 = [k \in DOMAIN r1 |-> r1[k]]
    OBVIOUS
  <1> HIDE DEF r1
  <1>3. [r1 EXCEPT !.dtls = t]
          = [local_certificate |-> r.local_certificate, cached_client_hello |-> t, dtls |-> t]
    BY <1>1, <1>2
  <1> QED
    BY <1>3 DEF r1

LEMMA ReceivePacketEvolves ==
  ASSUME Shape, NEW n \in DOMAIN pcs, NEW mid \in DOMAIN pcs[n].channels, NEW x,
         NEW packet, NEW crash, ReceivePacket(n, mid, x, packet, crash)
  PROVE  Evolves(0, {})
  <1> DEFINE ch == pcs[n].channels[mid]
             d == [local_certificate |-> ch.dtls.local_certificate,
                   cached_client_hello |-> TRUE, dtls |-> TRUE]
  <1>1. IsChannel(ch)
    BY DEF Shape, IsPeer
  <1>2. \/ pcs' = pcs
        \/ pcs' = [pcs EXCEPT ![n].channels[mid].dtls.cached_client_hello = TRUE,
                              ![n].channels[mid].dtls.dtls = TRUE]
    BY DEF ReceivePacket
  <1>3. CASE pcs' = pcs
    BY <1>3, NothingEvolves
  <1>4. CASE pcs' = [pcs EXCEPT ![n].channels[mid].dtls.cached_client_hello = TRUE,
                                ![n].channels[mid].dtls.dtls = TRUE]
    <2>1. ChannelStep(ch, [ch EXCEPT !.dtls = d], {})
      BY <1>1, ClientHelloStep
    <2>2. pcs' = [pcs EXCEPT ![n] = [pcs[n] EXCEPT !.channels = [pcs[n].channels EXCEPT
                    ![mid] = [ch EXCEPT !.dtls = d]]]]
      <3> DEFINE e == [ch.dtls EXCEPT !.cached_client_hello = TRUE]
                 c1 == [ch EXCEPT !.dtls = e]
                 g1 == [pcs[n].channels EXCEPT ![mid] = c1]
                 b1 == [pcs[n] EXCEPT !.channels = g1]
                 p1 == [pcs EXCEPT ![n] = b1]
      <3>1. pcs' = [p1 EXCEPT ![n].channels[mid].dtls.dtls = TRUE]
        BY <1>4
      <3>2. p1[n] = b1 /\ b1.channels = g1 /\ g1[mid] = c1 /\ c1.dtls = e
        BY <1>1 DEF IsChannel, Shape, IsPeer
      <3>3. [e EXCEPT !.dtls = TRUE] = d
        BY <1>1, SetBothFlags DEF IsChannel
      <3>4. pcs' = [p1 EXCEPT ![n] = [b1 EXCEPT !.channels = [g1 EXCEPT ![mid] = [c1 EXCEPT !.dtls = d]]]]
        <4> HIDE DEF e, c1, g1, b1, p1, d
        <4> QED
          BY <3>1, <3>2, <3>3
      <3>5. [c1 EXCEPT !.dtls = d] = [ch EXCEPT !.dtls = d]
        BY <1>1 DEF IsChannel
      <3>6. [g1 EXCEPT ![mid] = [ch EXCEPT !.dtls = d]] = [pcs[n].channels EXCEPT ![mid] = [ch EXCEPT !.dtls = d]]
        OBVIOUS
      <3>7. \A g : [b1 EXCEPT !.channels = g] = [pcs[n] EXCEPT !.channels = g]
        <4> HIDE DEF g1
        <4> QED
          BY DEF Shape, IsPeer
      <3>8. \A b : [p1 EXCEPT ![n] = b] = [pcs EXCEPT ![n] = b]
        OBVIOUS
      <3> HIDE DEF e, c1, g1, b1, p1, d
      <3> QED
        BY <3>4, <3>5, <3>6, <3>7, <3>8
    <2> QED
      BY <2>1, <2>2, SetChannel
  <1> QED
    BY <1>2, <1>3, <1>4

\* The ufrags that an answer's text was parsed into
Ufrags(desc) == {GetTransportInfo(desc, mid).ufrag : mid \in Range(desc.contents)}

\* A remote description gives a channel the ufrag of one of its contents, or leaves the channel alone.
LEMMA RemoteDescriptionStep ==
  ASSUME NEW channels, NEW desc, NEW mid \in DOMAIN channels, IsChannel(channels[mid])
  PROVE  ChannelStep(channels[mid], SetRemoteDescription(channels, desc)[mid], Ufrags(desc))
  <1> DEFINE ch == SetRemoteDescription(channels, desc)[mid]
             td == GetTransportInfo(desc, mid)
  <1>1. \/ ch = channels[mid]
        \/ /\ mid \in Range(desc.contents)
           /\ ch = SetRemoteIceParams(channels[mid], [ufrag |-> td.ufrag, pwd |-> td.pwd])
    BY DEF SetRemoteDescription
  <1>2. mid \in Range(desc.contents) => td.ufrag \in Ufrags(desc)
    BY DEF Ufrags
  <1> HIDE DEF ch, td
  <1>3. ChannelStep(channels[mid], ch, Ufrags(desc))
    BY <1>1, <1>2, ChannelStays, NewParamsStep
  <1> QED
    BY <1>3 DEF ch

LEMMA ProcessAnswerEvolves ==
  ASSUME Shape, ProcessAnswer
  PROVE  \/ Evolves(0, {})
         \/ \E k, U : /\ MayAnswer(Head(queue)) /\ ParseAnswer(Head(queue).sdp) # Nil
                      /\ k = push_streams[Head(queue).stream]
                      /\ U = Ufrags(ParseAnswer(Head(queue).sdp)) /\ Evolves(k, U)
  <1> DEFINE desc == ParseAnswer(Head(queue).sdp)
             n == push_streams[Head(queue).stream]
             g == SetRemoteDescription(pcs[n].channels, desc)
  <1>1. \/ pcs' = pcs
        \/ MayAnswer(Head(queue)) /\ desc # Nil /\ pcs' = [pcs EXCEPT ![n] = [pcs[n] EXCEPT !.channels = g]]
    BY DEF ProcessAnswer
  <1>2. CASE pcs' = pcs
    BY <1>2, NothingEvolves
  <1>3. ASSUME pcs' = [pcs EXCEPT ![n] = [pcs[n] EXCEPT !.channels = g]] PROVE Evolves(n, Ufrags(desc))
    <2>1. ASSUME n \in DOMAIN pcs PROVE PeerStep(pcs[n], [pcs[n] EXCEPT !.channels = g], Ufrags(desc))
      <3>1. IsPeer(pcs[n])
        BY SMTT(90), <2>1 DEF Shape
      <3>2. g = [mid \in DOMAIN pcs[n].channels |-> g[mid]]
        BY DEF SetRemoteDescription
      <3>3. \A mid \in DOMAIN pcs[n].channels : ChannelStep(pcs[n].channels[mid], g[mid], Ufrags(desc))
        <4> HIDE DEF n, desc
        <4>1. \A mid \in DOMAIN pcs[n].channels : IsChannel(pcs[n].channels[mid])
          BY <3>1 DEF IsPeer
        <4> QED
          BY <4>1, RemoteDescriptionStep
      <3> HIDE DEF g, n, desc
      <3> QED
        BY <3>1, <3>2, <3>3, SetChannels
    <2> HIDE DEF g, n, desc
    <2> QED
      BY <1>3, <2>1, SetPeer
  <1>4. ASSUME pcs' = [pcs EXCEPT ![n] = [pcs[n] EXCEPT !.channels = g]]
        PROVE  \E k, U : k = n /\ U = Ufrags(desc) /\ Evolves(k, U)
    BY <1>3, <1>4
  <1> QED
    BY SMTT(60), <1>1, <1>2, <1>4

-----------------------------------------------------------------------------
(* The offer *)

LEMMA LeastNat ==
  ASSUME NEW S, S \subseteq Nat, S # {}
  PROVE  \E x \in S : \A y \in S : x <= y
  <1>1. PICK x \in S : \A y \in S : ~ (<<y, x>> \in OpToRel(<, Nat))
    BY WFMin, NatLessThanWellFounded
  <1>2. \A y \in S : ~ (y < x)
    BY <1>1 DEF OpToRel
  <1>3. \A y \in S : x <= y
    BY <1>2
  <1> QED
    BY <1>3

LEMMA FlattenOne == ASSUME NEW s PROVE FlattenSeq(<<s>>) = s
  <1> DEFINE seqs == <<s>>
             h == [i \in 1..1 |-> s]
             D == 1..Len(seqs)
             P(f) == f = [i \in D |-> IF i = 1 THEN seqs[i] ELSE f[i-1] \o seqs[i]]
  <1>1. Len(seqs) = 1 /\ seqs[1] = s
    OBVIOUS
  <1>2. P(h)
    BY <1>1
  <1>3. P(CHOOSE f : P(f))
    BY <1>2, Zenon
  <1>4. FlattenSeq(seqs) = (CHOOSE f : P(f))[1]
    BY <1>1 DEF FlattenSeq
  <1> HIDE DEF seqs
  <1>5. (CHOOSE f : P(f))[1] = seqs[1]
    BY <1>3, <1>1
  <1> QED
    BY <1>1, <1>4, <1>5 DEF seqs

Info(n, mid, fingerprint) ==
  [mid |-> mid, ufrag |-> Local(n).ufrag, pwd |-> Local(n).pwd,
   fingerprint |-> fingerprint[mid], role |-> "actpass"]

Mids == {<<"audio">>, <<"video">>, <<"audio", "video">>}

\* What create_offer makes of the mids of a push
OfferOf(n, mids, fingerprint) ==
  [type |-> "offer", contents |-> mids, groups |-> <<mids>>,
   infos |-> [i \in DOMAIN mids |-> Info(n, mids[i], fingerprint)], candidates |-> << >>]

LEMMA AppendOne == ASSUME NEW x PROVE Append(<< >>, x) = <<x>>
  OBVIOUS

LEMMA AppendTwo == ASSUME NEW x, NEW y PROVE Append(<<x>>, y) = <<x, y>>
  <1>1. <<x>> \in Seq({x, y}) /\ <<x, y>> \in Seq({x, y})
    OBVIOUS
  <1>2. PICK t : t = Append(<<x>>, y)
    OBVIOUS
  <1>3. t \in Seq({x, y}) /\ Len(t) = 2 /\ t[1] = x /\ t[2] = y
    BY <1>1, <1>2
  <1>4. \A i \in 1..Len(t) : t[i] = (<<x, y>>)[i]
    BY <1>3
  <1>5. t = <<x, y>>
    BY <1>1, <1>3, <1>4, SeqEqual
  <1> QED
    BY <1>2, <1>5

BareOffer(contents, infos) ==
  [type |-> "offer", contents |-> contents, groups |-> << >>, infos |-> infos, candidates |-> << >>]

LEMMA AddMid ==
  ASSUME NEW n, NEW fingerprint, NEW c, NEW l, NEW mid
  PROVE  AddTransportInfo(AddContent(BareOffer(c, l), mid), mid, Local(n), fingerprint[mid])
           = BareOffer(Append(c, mid), Append(l, Info(n, mid, fingerprint)))
  <1> DEFINE d == BareOffer(Append(c, mid), l)
  <1>1. AddContent(BareOffer(c, l), mid) = d
    BY SMTT(90) DEF AddContent, BareOffer
  <1>2. d.type = "offer" /\ d.infos = l
    BY DEF BareOffer
  <1>3. AddTransportInfo(d, mid, Local(n), fingerprint[mid])
          = [d EXCEPT !.infos = Append(l, Info(n, mid, fingerprint))]
    BY <1>2 DEF AddTransportInfo, Info
  <1>4. \A k : [d EXCEPT !.infos = k] = BareOffer(Append(c, mid), k)
    BY SMTT(60) DEF BareOffer
  <1> QED
    BY <1>1, <1>3, <1>4

LEMMA OfferDescriptionIs ==
  ASSUME NEW n, NEW media, NEW fingerprint
  PROVE  \/ OfferDescription(n, media, fingerprint) = NewSessionDescription("offer")
         \/ \E mids \in Mids :
              OfferDescription(n, media, fingerprint) = OfferOf(n, mids, fingerprint)
  <1> DEFINE Add(desc, mid) ==
               IF mid \in media
               THEN AddTransportInfo(AddContent(desc, mid), mid, Local(n), fingerprint[mid]) ELSE desc
             Name(desc, names, mid) == IF mid \in Range(desc.contents) THEN AddContentName(names, mid) ELSE names
             none == NewSessionDescription("offer")
             I(mid) == Info(n, mid, fingerprint)
             d1 == Add(none, "audio")
             d2 == Add(d1, "video")
             Names(d) == Name(d, Name(d, << >>, "audio"), "video")
             desc == OfferDescription(n, media, fingerprint)
  <1>1. desc = IF Names(d2) = << >> THEN d2 ELSE AddGroup(d2, Names(d2))
    BY DEF OfferDescription
  <1>2. none = BareOffer(<< >>, << >>)
    BY DEF NewSessionDescription, BareOffer
  <1>3. /\ \A mid : AddTransportInfo(AddContent(BareOffer(<< >>, << >>), mid), mid, Local(n), fingerprint[mid])
                       = BareOffer(<<mid>>, <<I(mid)>>)
        /\ \A m, j, mid : AddTransportInfo(AddContent(BareOffer(<<m>>, <<j>>), mid), mid, Local(n), fingerprint[mid])
                             = BareOffer(<<m, mid>>, <<j, I(mid)>>)
    <2>1. ASSUME NEW mid
          PROVE  AddTransportInfo(AddContent(BareOffer(<< >>, << >>), mid), mid, Local(n), fingerprint[mid])
                   = BareOffer(<<mid>>, <<I(mid)>>)
      <3>1. Append(<< >>, mid) = <<mid>> /\ Append(<< >>, I(mid)) = <<I(mid)>>
        BY AppendOne
      <3>2. AddTransportInfo(AddContent(BareOffer(<< >>, << >>), mid), mid, Local(n), fingerprint[mid])
              = BareOffer(Append(<< >>, mid), Append(<< >>, I(mid)))
        BY AddMid
      <3> QED
        BY <3>1, <3>2, Zenon
    <2>2. ASSUME NEW m, NEW j, NEW mid
          PROVE  AddTransportInfo(AddContent(BareOffer(<<m>>, <<j>>), mid), mid, Local(n), fingerprint[mid])
                   = BareOffer(<<m, mid>>, <<j, I(mid)>>)
      <3>1. Append(<<m>>, mid) = <<m, mid>> /\ Append(<<j>>, I(mid)) = <<j, I(mid)>>
        BY AppendTwo
      <3>2. AddTransportInfo(AddContent(BareOffer(<<m>>, <<j>>), mid), mid, Local(n), fingerprint[mid])
              = BareOffer(Append(<<m>>, mid), Append(<<j>>, I(mid)))
        BY AddMid
      <3> QED
        BY <3>1, <3>2, Zenon
    <2> QED
      BY <2>1, <2>2
  <1>4. \A c, i : /\ Names(BareOffer(c, i)) = (LET a == IF "audio" \in Range(c) THEN AddContentName(<< >>, "audio") ELSE << >>
                                       IN IF "video" \in Range(c) THEN AddContentName(a, "video") ELSE a)
                 /\ \A g : AddGroup(BareOffer(c, i), g) = [type |-> "offer", contents |-> c, groups |-> <<g>>, infos |-> i, candidates |-> << >>]
    BY DEF AddGroup, BareOffer
  <1>5. /\ AddContentName(<< >>, "audio") = <<"audio">> /\ AddContentName(<< >>, "video") = <<"video">>
        /\ AddContentName(<<"audio">>, "video") = <<"audio", "video">>
    BY AppendOne, AppendTwo DEF AddContentName, Range
  <1>6. /\ Range(<< >>) = {} /\ Range(<<"audio">>) = {"audio"} /\ Range(<<"video">>) = {"video"}
        /\ Range(<<"audio", "video">>) = {"audio", "video"}
    BY DEF Range
  <1>8. /\ \A x : [i \in DOMAIN <<x>> |-> I((<<x>>)[i])] = <<I(x)>>
        /\ [i \in DOMAIN <<"audio", "video">> |-> I((<<"audio", "video">>)[i])] = <<I("audio"), I("video")>>
    <2> HIDE DEF I
    <2> QED
      OBVIOUS
  <1>13. d1 = IF "audio" \in media THEN BareOffer(<<"audio">>, <<I("audio")>>) ELSE none
    <2> HIDE DEF I, none
    <2> QED
      BY <1>2, <1>3
  <1>9. CASE "audio" \in media /\ "video" \in media
    <2>1. d1 = BareOffer(<<"audio">>, <<I("audio")>>)
      BY <1>13, <1>9
    <2> HIDE DEF d1, I, none
    <2>2. d2 = BareOffer(<<"audio", "video">>, <<I("audio"), I("video")>>)
      BY <2>1, <1>3, <1>9
    <2> HIDE DEF d2, Names
    <2>3. Names(d2) = <<"audio", "video">>
      BY <2>2, <1>4, <1>5, <1>6
    <2>4. desc = OfferOf(n, <<"audio", "video">>, fingerprint)
      BY <2>2, <2>3, <1>1, <1>4, <1>8 DEF OfferOf, I
    <2> QED
      BY <2>4 DEF Mids
  <1>10. CASE "audio" \in media /\ "video" \notin media
    <2>1. d1 = BareOffer(<<"audio">>, <<I("audio")>>)
      BY <1>13, <1>10
    <2>2. d2 = d1
      BY <1>10
    <2> HIDE DEF d1, d2, Names
    <2>3. Names(d2) = <<"audio">>
      BY <2>1, <2>2, <1>4, <1>5, <1>6
    <2>4. desc = OfferOf(n, <<"audio">>, fingerprint)
      BY <2>1, <2>2, <2>3, <1>1, <1>4, <1>8 DEF OfferOf, I
    <2> QED
      BY <2>4 DEF Mids
  <1>11. CASE "audio" \notin media /\ "video" \in media
    <2>1. d1 = none
      BY <1>11
    <2> HIDE DEF d1, I, none
    <2>2. d2 = BareOffer(<<"video">>, <<I("video")>>)
      BY <2>1, <1>2, <1>3, <1>11
    <2> HIDE DEF d2, Names
    <2>3. Names(d2) = <<"video">>
      BY <2>2, <1>4, <1>5, <1>6
    <2>4. desc = OfferOf(n, <<"video">>, fingerprint)
      BY <2>2, <2>3, <1>1, <1>4, <1>8 DEF OfferOf, I
    <2> QED
      BY <2>4 DEF Mids
  <1>12. CASE "audio" \notin media /\ "video" \notin media
    <2>1. d2 = none
      BY <1>12
    <2> HIDE DEF d1, d2, Names
    <2>2. Names(d2) = << >>
      BY <2>1, <1>2, <1>4, <1>6
    <2> QED
      BY <2>1, <2>2, <1>1
  <1> QED
    BY <1>9, <1>10, <1>11, <1>12

LEMMA MidsFacts ==
  ASSUME NEW mids \in Mids
  PROVE  /\ Len(mids) \in {1, 2} /\ DOMAIN mids = 1..Len(mids) /\ mids \in Seq({"audio", "video"})
         /\ \A i, j \in DOMAIN mids : mids[i] = mids[j] => i = j
         /\ \A i \in DOMAIN mids : mids[i] \in {"audio", "video"}
  <1>1. CASE mids = <<"audio">>
    BY <1>1
  <1>2. CASE mids = <<"video">>
    BY <1>2
  <1>3. CASE mids = <<"audio", "video">>
    <2>1. /\ Len(mids) = 2 /\ DOMAIN mids = 1..2 /\ mids[1] = "audio" /\ mids[2] = "video"
          /\ mids \in Seq({"audio", "video"})
      BY <1>3
    <2>2. \A i \in 1..2 : i = 1 \/ i = 2
      OBVIOUS
    <2> QED
      BY <2>1, <2>2
  <1> QED
    BY <1>1, <1>2, <1>3 DEF Mids

LEMMA MinOne == ASSUME NEW k \in Nat PROVE Min({k}) = k
  BY DEF Min

LEMMA InfoAt ==
  ASSUME NEW d, NEW mid, NEW k \in Nat \ {0}, {i \in 1..Len(d.infos) : d.infos[i].mid = mid} = {k}
  PROVE  GetTransportInfo(d, mid) = d.infos[k]
  BY MinOne DEF GetTransportInfo, SelectInSeq

LEMMA OfferInfos ==
  ASSUME NEW n, NEW mids \in Mids, NEW fp, NEW d, NEW i \in DOMAIN mids,
         d.infos = [j \in DOMAIN mids |-> Info(n, mids[j], fp)]
  PROVE  GetTransportInfo(d, mids[i]) = Info(n, mids[i], fp)
  <1> DEFINE infos == [j \in DOMAIN mids |-> Info(n, mids[j], fp)]
  <1>1. infos \in Seq(Range(infos)) /\ Len(infos) = Len(mids)
    <2>1. infos \in [1..Len(mids) -> Range(infos)]
      BY MidsFacts DEF Range
    <2> HIDE DEF infos
    <2> QED
      BY <2>1, MidsFacts
  <1>2. \A j \in DOMAIN mids : infos[j] = Info(n, mids[j], fp) /\ infos[j].mid = mids[j]
    BY DEF Info
  <1> HIDE DEF infos
  <1>3. {j \in 1..Len(infos) : infos[j].mid = mids[i]} = {i} /\ i \in Nat \ {0}
    BY <1>1, <1>2, MidsFacts
  <1>4. d.infos = infos
    BY DEF infos
  <1>5. {j \in 1..Len(d.infos) : d.infos[j].mid = mids[i]} = {i}
    BY <1>3, <1>4
  <1>6. GetTransportInfo(d, mids[i]) = d.infos[i]
    <2> PICK mid : mid = mids[i]
      OBVIOUS
    <2> QED
      BY <1>3, <1>5, MinOne DEF GetTransportInfo, SelectInSeq
  <1> QED
    BY <1>2, <1>4, <1>6

LEMMA OfferChannelMids ==
  ASSUME NEW n, NEW mids \in Mids, NEW fp
  PROVE  ChannelMids(OfferOf(n, mids, fp)) = {mids[1]}
  <1> DEFINE d == OfferOf(n, mids, fp)
  <1>1. d.contents = mids /\ d.groups = <<mids>>
    BY DEF OfferOf
  <1> HIDE DEF d
  <1>2. Range(<<mids>>) = {mids}
    BY DEF Range
  <1>3. \A mid \in Range(mids) : IsBundle(d, mid)
    BY <1>1, <1>2 DEF IsBundle
  <1>4. GetFirstBundleMid(d) = mids[1]
    BY <1>1 DEF GetFirstBundleMid
  <1>5. mids[1] \in Range(mids)
    BY MidsFacts DEF Range
  <1>6. ChannelMids(d) = {mids[1]}
    BY <1>1, <1>3, <1>4, <1>5 DEF ChannelMids
  <1> QED
    BY <1>6 DEF d

GatheredOffer(n, mids, fingerprint, ports) ==
  [OfferOf(n, mids, fingerprint) EXCEPT !.candidates = <<[mid |-> mids[1], list |-> ports]>>]

LEMMA OfferGathered ==
  ASSUME NEW n, NEW mids \in Mids, NEW fp, NEW channels, DOMAIN channels = {mids[1]}
  PROVE  AddGathered(OfferOf(n, mids, fp), channels)
           = GatheredOffer(n, mids, fp, channels[mids[1]].ports)
  <1> DEFINE d == OfferOf(n, mids, fp)
             c == <<[mid |-> mids[1], list |-> channels[mids[1]].ports]>>
             e == [d EXCEPT !.candidates = c]
  <1>1. d.contents = mids /\ d.candidates = << >>
    BY DEF OfferOf
  <1>2. mids[1] \in {"audio", "video"} /\ mids[1] \in Range(mids)
    BY MidsFacts DEF Range
  <1>3. AddCandidates(d, mids[1], channels[mids[1]].ports) = e
    <2> HIDE DEF d
    <2>1. Append(<< >>, [mid |-> mids[1], list |-> channels[mids[1]].ports]) = c
      BY AppendOne
    <2> QED
      BY <1>1, <1>2, <2>1 DEF AddCandidates
  <1> HIDE DEF d, e
  <1>4. AddGathered(d, channels) = e
    BY <1>2, <1>3 DEF AddGathered
  <1> QED
    BY <1>4 DEF d, e, GatheredOffer

ShownPorts(ports) == {ShownCandidate(c) : c \in ports}

Shows(offer, n, mids, fp, ports) ==
  /\ offer.bundle = mids /\ DOMAIN offer.media = DOMAIN mids
  /\ \A i \in DOMAIN mids :
       /\ offer.media[i].mid = mids[i] /\ offer.media[i].info = Info(n, mids[i], fp)
       /\ mids[i] = mids[1] => offer.media[i].candidates = ShownPorts(ports)

LEMMA OfferShown ==
  ASSUME NEW n, NEW mids \in Mids, NEW fp, NEW channels, DOMAIN channels = {mids[1]}
  PROVE  Shows(OfferText(AddGathered(OfferOf(n, mids, fp), channels)), n, mids, fp,
               channels[mids[1]].ports)
  <1> DEFINE ports == channels[mids[1]].ports
             cands == <<[mid |-> mids[1], list |-> ports]>>
             d == AddGathered(OfferOf(n, mids, fp), channels)
             offer == OfferText(d)
  <1>1. /\ d.contents = mids /\ d.groups = <<mids>> /\ d.candidates = cands
        /\ d.infos = [j \in DOMAIN mids |-> Info(n, mids[j], fp)]
    <2>1. d = GatheredOffer(n, mids, fp, ports)
      BY OfferGathered
    <2> HIDE DEF d, ports
    <2>2. d = [OfferOf(n, mids, fp) EXCEPT !.candidates = cands]
      BY <2>1 DEF GatheredOffer
    <2> HIDE DEF cands
    <2> QED
      BY <2>2 DEF OfferOf
  <1> HIDE DEF d
  <1>2. offer.bundle = mids
    BY <1>1, FlattenOne DEF OfferText, d
  <1>3. Len(cands) = 1 /\ cands[1].mid = mids[1] /\ cands[1].list = ports
    OBVIOUS
  <1> HIDE DEF cands
  <1>4. {j \in 1..Len(cands) : cands[j].mid = mids[1]} = {1}
    BY <1>3
  <1>6. DOMAIN offer.media = DOMAIN mids
    BY <1>1 DEF OfferText, d
  <1>7. ASSUME NEW i \in DOMAIN mids
        PROVE  /\ offer.media[i].mid = mids[i] /\ offer.media[i].info = Info(n, mids[i], fp)
               /\ mids[i] = mids[1] =>
                    offer.media[i].candidates = ShownPorts(ports)
    <2>1. offer.media[i].mid = mids[i] /\ offer.media[i].info = GetTransportInfo(d, mids[i])
      BY <1>1 DEF OfferText, d
    <2>2. ASSUME mids[i] = mids[1] PROVE offer.media[i].candidates = ShownPorts(ports)
      <3> DEFINE Sh(k) == {ShownCandidate(c) : c \in cands[k].list}
                 J == {j \in 1..Len(cands) : cands[j].mid = mids[1]}
      <3>1. offer.media[i].candidates =
              IF (IF J # {} THEN Min(J) ELSE 0) = 0 THEN {} ELSE Sh(IF J # {} THEN Min(J) ELSE 0)
        BY ZenonT(120), <1>1, <2>2 DEF OfferText, SelectInSeq, d
      <3>2. J = {1} /\ Min({1}) = 1
        BY <1>4, MinOne
      <3>3. Sh(1) = ShownPorts(ports)
        BY <1>3 DEF ShownPorts
      <3> HIDE DEF J, Sh
      <3>4. (IF J # {} THEN Min(J) ELSE 0) = 1
        BY <3>2
      <3> QED
        BY <3>1, <3>3, <3>4
    <2> QED
      BY <1>1, <2>1, <2>2, OfferInfos
  <1> HIDE DEF offer
  <1>8. Shows(offer, n, mids, fp, ports)
    BY <1>2, <1>6, <1>7 DEF Shows
  <1> QED
    BY <1>8 DEF offer, d

-----------------------------------------------------------------------------
(* A new peer connection *)

\* OfferServed of one peer connection
Served(pc) ==
  \A i \in DOMAIN pc.offer.media :
    LET m   == pc.offer.media[i]
        mid == ServingMid(pc.offer, m.mid)
        ch  == pc.channels[mid]
    IN  /\ mid \in DOMAIN pc.channels
        /\ [ufrag |-> m.info.ufrag, pwd |-> m.info.pwd] = ch.params
        /\ m.mid = mid => m.candidates = {ShownCandidate(p) : p \in ch.ports}
        /\ m.mid \in pc.intact => m.info.fingerprint = <<"cert", ch.dtls.local_certificate>>

BoundPorts(bound) == {[network |-> nw, port |-> bound[nw]] : nw \in DOMAIN bound}

LEMMA NewChannelIs ==
  ASSUME NEW desc, NEW mid, NEW certificate, NEW bound, NEW ch,
         ch = NewChannel(desc, mid, certificate, bound),
         NEW td, td = GetTransportInfo(desc, mid), td # Nil
  PROVE  /\ IsChannel(ch) /\ Passwords(ch)
         /\ ch.params = [ufrag |-> td.ufrag, pwd |-> td.pwd]
         /\ ch.ports = BoundPorts(bound) /\ ch.dtls.local_certificate = certificate
  <1> DEFINE conns == [x \in Network \X Addr |-> Nil]
             dtls == NewDtlsTransport(certificate)
  <1>1. /\ conns = [x \in Place |-> conns[x]]
        /\ \A x \in Place : conns[x] = Nil
    BY DEF Place
  <1>2. /\ dtls = [local_certificate |-> dtls.local_certificate,
                   cached_client_hello |-> dtls.cached_client_hello, dtls |-> dtls.dtls]
        /\ dtls.local_certificate = certificate
    BY DEF NewDtlsTransport
  <1> HIDE DEF conns, dtls
  <1>3. ch = [params |-> [ufrag |-> td.ufrag, pwd |-> td.pwd], remote |-> NoParams,
              replaced |-> FALSE, ports |-> BoundPorts(bound), conns |-> conns, dtls |-> dtls]
    BY DEF NewChannel, BoundPorts, conns, dtls
  <1>4. /\ ch.params = [ufrag |-> td.ufrag, pwd |-> td.pwd] /\ ch.ports = BoundPorts(bound)
        /\ ch.conns = conns /\ ch.dtls = dtls
        /\ ch = [params |-> ch.params, remote |-> ch.remote, replaced |-> ch.replaced,
                 ports |-> ch.ports, conns |-> ch.conns, dtls |-> ch.dtls]
    BY <1>3
  <1>5. ch.replaced \in BOOLEAN
    BY <1>3
  <1>6. IsChannel(ch)
    BY <1>1, <1>2, <1>4, <1>5 DEF IsChannel, IsConn
  <1>7. Passwords(ch)
    BY <1>1, <1>4 DEF Passwords
  <1> QED
    BY <1>2, <1>4, <1>6, <1>7

\* The fingerprints of an offer, by content
FingerprintsOf(msg, intact) ==
  [mid \in {"audio", "video"} |-> IF mid \in intact THEN <<"cert", msg.cert>> ELSE <<"freed", 0>>]

LEMMA NewPeerIs ==
  ASSUME NEW n \in Nat, NEW msg, NEW intact, NEW fails, NEW bound, NEW pc,
         intact # {} => msg.cert \in Nat,
         pc = NewPeerConnection(n, msg, intact, fails, bound)
  PROVE  /\ IsPeer(pc) /\ Served(pc) /\ pc.fails = fails
         /\ \A mid \in DOMAIN pc.channels :
              /\ Passwords(pc.channels[mid]) /\ pc.channels[mid].ports = BoundPorts(bound)
              /\ pc.channels[mid].params = Local(n)
  <1> DEFINE fp == FingerprintsOf(msg, intact)
             desc == OfferDescription(n, msg.media, fp)
             channels == [mid \in ChannelMids(desc) |-> NewChannel(desc, mid, msg.cert, bound)]
             offer == OfferText(AddGathered(desc, channels))
  <1>1. pc = [uid |-> msg.uid, stream |-> msg.stream, intact |-> intact, fails |-> fails,
              desc |-> AddGathered(desc, channels), offer |-> offer, channels |-> channels]
    BY DEF NewPeerConnection, FingerprintsOf
  <1>2. \A mid \in {"audio", "video"} : /\ fp[mid] \in {"cert", "freed"} \X Nat
                                        /\ mid \in intact => fp[mid] = <<"cert", msg.cert>>
    BY DEF FingerprintsOf
  <1>3. DOMAIN channels = ChannelMids(desc) /\ channels = [mid \in DOMAIN channels |-> channels[mid]]
        /\ \A mid \in ChannelMids(desc) : channels[mid] = NewChannel(desc, mid, msg.cert, bound)
    OBVIOUS
  <1>4. desc = NewSessionDescription("offer") \/ \E mids \in Mids : desc = OfferOf(n, mids, fp)
    BY OfferDescriptionIs
  <1>5. offer = OfferText(AddGathered(desc, channels))
    OBVIOUS
  <1> HIDE DEF fp, desc, channels, offer
  <1>6. /\ pc.intact = intact /\ pc.fails = fails /\ pc.offer = offer /\ pc.channels = channels
        /\ pc = [uid |-> pc.uid, stream |-> pc.stream, intact |-> pc.intact, fails |-> pc.fails,
                 desc |-> pc.desc, offer |-> pc.offer, channels |-> pc.channels]
    BY <1>1
  <1>7. CASE desc = NewSessionDescription("offer")
    <2>1. desc.contents = << >>
      BY <1>7 DEF NewSessionDescription
    <2>2. DOMAIN channels = {}
      BY <2>1, <1>3 DEF ChannelMids, Range
    <2>3. AddGathered(desc, channels) = desc
      BY <2>2 DEF AddGathered
    <2>4. DOMAIN offer.media = {}
      BY <2>1, <2>3, <1>5 DEF OfferText
    <2>5. IsPeer(pc)
      BY <2>2, <1>3, <1>6 DEF IsPeer
    <2>6. Served(pc)
      BY <2>4, <1>6 DEF Served
    <2> QED
      BY <2>2, <2>5, <2>6, <1>6
  <1>8. ASSUME NEW mids \in Mids, desc = OfferOf(n, mids, fp)
        PROVE  /\ IsPeer(pc) /\ Served(pc) /\ pc.fails = fails
               /\ \A mid \in DOMAIN pc.channels :
                    /\ Passwords(pc.channels[mid]) /\ pc.channels[mid].ports = BoundPorts(bound)
                    /\ pc.channels[mid].params = Local(n)
    <2>1. DOMAIN channels = {mids[1]} /\ 1 \in DOMAIN mids
      BY <1>3, <1>8, OfferChannelMids, MidsFacts
    <2> DEFINE ch == channels[mids[1]]
               td == Info(n, mids[1], fp)
    <2>2. ch = NewChannel(desc, mids[1], msg.cert, bound)
      BY <2>1, <1>3
    <2>3. GetTransportInfo(desc, mids[1]) = td
      <3>1. desc.infos = [j \in DOMAIN mids |-> Info(n, mids[j], fp)]
        BY <1>8 DEF OfferOf
      <3> QED
        BY <3>1, <2>1, OfferInfos
    <2>4. td # Nil
      <3>1. mids[1] \in {"audio", "video"}
        BY <2>1, MidsFacts
      <3>2. Local(n).ufrag \in {"local"} \X Nat /\ Local(n).pwd \in {"localpwd"} \X Nat
        BY DEF Local
      <3>3. td \in [mid : {"audio", "video"}, ufrag : {"local"} \X Nat, pwd : {"localpwd"} \X Nat,
                    fingerprint : {"cert", "freed"} \X Nat, role : {"actpass"}]
        BY <3>1, <3>2, <1>2 DEF Info
      <3> QED
        BY <3>3, NilAssumption
    <2>5. /\ \A i \in DOMAIN mids : /\ Info(n, mids[i], fp).ufrag = Local(n).ufrag
                                    /\ Info(n, mids[i], fp).pwd = Local(n).pwd
                                    /\ Info(n, mids[i], fp).fingerprint = fp[mids[i]]
      BY DEF Info
    <2> HIDE DEF ch, td
    <2>6. /\ IsChannel(ch) /\ Passwords(ch) /\ ch.params = [ufrag |-> td.ufrag, pwd |-> td.pwd]
          /\ ch.ports = BoundPorts(bound) /\ ch.dtls.local_certificate = msg.cert
      BY <2>2, <2>3, <2>4, NewChannelIs
    <2>7. \A mid \in DOMAIN channels : channels[mid] = ch
      BY <2>1 DEF ch
    <2>8. IsPeer(pc)
      BY <2>6, <2>7, <1>3, <1>6 DEF IsPeer
    <2>9. /\ offer.bundle = mids /\ DOMAIN offer.media = DOMAIN mids
          /\ \A i \in DOMAIN mids :
               /\ offer.media[i].mid = mids[i] /\ offer.media[i].info = Info(n, mids[i], fp)
               /\ mids[i] = mids[1] =>
                    offer.media[i].candidates = ShownPorts(ch.ports)
      <3>1. offer = OfferText(AddGathered(OfferOf(n, mids, fp), channels))
        BY <1>5, <1>8
      <3>2. Shows(offer, n, mids, fp, channels[mids[1]].ports)
        BY <3>1, <2>1, OfferShown
      <3> QED
        BY <3>2 DEF ch, Shows
    <2>10. Served(pc)
      <3> SUFFICES ASSUME NEW i \in DOMAIN mids
                   PROVE  LET m   == offer.media[i]
                              mid == ServingMid(offer, m.mid)
                              c   == channels[mid]
                          IN  /\ mid \in DOMAIN channels
                              /\ [ufrag |-> m.info.ufrag, pwd |-> m.info.pwd] = c.params
                              /\ m.mid = mid => m.candidates = {ShownCandidate(p) : p \in c.ports}
                              /\ m.mid \in intact => m.info.fingerprint = <<"cert", c.dtls.local_certificate>>
        BY <2>9, <1>6 DEF Served
      <3>1. ServingMid(offer, offer.media[i].mid) = mids[1]
        BY <2>9 DEF ServingMid, Range
      <3>2. td.ufrag = Local(n).ufrag /\ td.pwd = Local(n).pwd
        BY <2>1, <2>5 DEF td
      <3>3. [ufrag |-> offer.media[i].info.ufrag, pwd |-> offer.media[i].info.pwd] = ch.params
        BY <3>2, <2>5, <2>6, <2>9
      <3>4. offer.media[i].mid \in intact =>
              offer.media[i].info.fingerprint = <<"cert", ch.dtls.local_certificate>>
        BY <1>2, <2>5, <2>6, <2>9, MidsFacts
      <3>5. offer.media[i].mid = mids[1] => offer.media[i].candidates = ShownPorts(ch.ports)
        BY <2>9
      <3> QED
        BY <3>1, <3>3, <3>4, <3>5, <2>1, <2>7 DEF ShownPorts
    <2>11. ch.params = Local(n)
      <3>1. td.ufrag = Local(n).ufrag /\ td.pwd = Local(n).pwd
        BY <2>1, <2>5 DEF td
      <3> QED
        BY <3>1, <2>6 DEF Local
    <2> QED
      BY <2>6, <2>7, <2>8, <2>10, <2>11, <1>6
  <1> QED
    BY <1>4, <1>7, <1>8

-----------------------------------------------------------------------------
(* Ports *)

PeerPorts(pc) == UNION {ch.ports : ch \in Range(pc.channels)}
AllPorts == UNION {PeerPorts(pcs[n]) : n \in DOMAIN pcs}
HeldBy(ports, nw) == Taken \cup {p.port : p \in {q \in ports : q.network = nw}}
Configured == range[1]..range[2]

\* With a range a peer connection lacks a port only where all of it is held.
Reachable(pc, ports) ==
  Limited => \A mid \in DOMAIN pc.channels : \A nw \in Network \ pc.fails :
    nw \in {p.network : p \in pc.channels[mid].ports} \/ Configured \subseteq HeldBy(ports, nw)

InRange(pc) ==
  Limited => \A p \in PeerPorts(pc) : p.port \in Configured

Ports ==
  /\ \A n \in DOMAIN pcs : Reachable(pcs[n], AllPorts)
  /\ \A m, n \in DOMAIN pcs : m # n => PeerPorts(pcs[m]) \cap PeerPorts(pcs[n]) = {}
  /\ \A n \in DOMAIN pcs : InRange(pcs[n])

LEMMA HeldIs == \A nw : Held(nw) = HeldBy(AllPorts, nw)
  <1>1. UNION {ch.ports : ch \in Channels} = AllPorts
    BY DEF Channels, AllPorts, PeerPorts
  <1> QED
    BY <1>1 DEF Held, HeldBy

LEMMA PortsSuffice == Ports => PortsFromRange
  BY HeldIs DEF Ports, PortsFromRange, Reachable, InRange, PeerPorts, Configured, Lacks

LEMMA HeldGrows ==
  ASSUME NEW P, NEW Q, P \subseteq Q, NEW nw
  PROVE  HeldBy(P, nw) \subseteq HeldBy(Q, nw)
  BY DEF HeldBy

\* The port that sock_bind gives is free.  With a range it is in it, and there
\* is one whenever a port of the range is free.
LEMMA BindIs ==
  ASSUME range \in Ranges, NEW nw, NEW sp
  PROVE  /\ \A p : SockBind(nw, sp, p) => p \notin Held(nw)
         /\ Limited => /\ \A p : SockBind(nw, sp, p) => p \in Configured
                       /\ (\A p \in Port : ~ SockBind(nw, sp, p)) => Configured \subseteq Held(nw)
  <1> DEFINE lo == range[1]
             hi == range[2]
             free == (PortRange.min .. PortRange.max) \ Held(nw)
  <1>1. lo \in Int /\ hi \in Int /\ (lo > 0 => lo..hi \subseteq Port) /\ Port \subseteq Nat
    BY PortAssumption
  <1>2. /\ PortRange.min = IF lo > 0 THEN lo ELSE 0
        /\ PortRange.max = IF hi > 0 /\ hi > lo THEN hi ELSE 0
    BY DEF PortRange
  <1>3. Configured = lo..hi /\ (Limited <=> 0 < lo /\ lo < hi)
    BY DEF Configured, Limited
  <1>4. \A p : SockBind(nw, sp, p) <=>
                 IF PortRange.min = 0 \/ PortRange.max = 0 THEN p \in Port \ Held(nw) /\ sp \in {0, p}
                 ELSE p \in free /\ \A q \in free : p <= q
    BY DEF SockBind
  <1> HIDE DEF lo, hi
  <1>5. CASE lo > 0 /\ hi > lo
    <2>1. free = (lo..hi) \ Held(nw) /\ Configured = lo..hi
      BY <1>1, <1>2, <1>3, <1>5
    <2>2. \A p : SockBind(nw, sp, p) <=> p \in free /\ \A q \in free : p <= q
      BY <1>1, <1>2, <1>4, <1>5
    <2>3. free \subseteq Nat /\ free \subseteq Port
      BY <2>1, <1>1, <1>5
    <2>4. \A p : p \in free => p \notin Held(nw)
      OBVIOUS
    <2> HIDE DEF free
    <2>5. free # {} => \E p \in Port : SockBind(nw, sp, p)
      BY <2>2, <2>3, LeastNat
    <2> QED
      BY <2>1, <2>2, <2>4, <2>5
  <1>6. CASE ~ (lo > 0 /\ hi > lo)
    <2>1. \A p : SockBind(nw, sp, p) => p \in Port \ Held(nw)
      BY <1>1, <1>2, <1>4, <1>6
    <2>2. ~ Limited
      BY SMTT(90), <1>1, <1>3, <1>6
    <2> QED
      BY <2>1, <2>2
  <1> QED
    BY <1>5, <1>6

-----------------------------------------------------------------------------
(* The invariant *)

\* A channel checks the credentials its own peer connection offered.
Credentials ==
  \A n \in DOMAIN pcs : \A mid \in DOMAIN pcs[n].channels : pcs[n].channels[mid].params = Local(n)

SessionInv ==
  /\ cert \in Nat /\ range \in Ranges
  /\ Shape
  /\ \A n \in DOMAIN pcs : Served(pcs[n])
  /\ \A n \in DOMAIN pcs : \A mid \in DOMAIN pcs[n].channels : Passwords(pcs[n].channels[mid])
  /\ Ports
  /\ Credentials

LEMMA ServedStays == ASSUME NEW a, NEW b, NEW U, PeerStep(a, b, U), Served(a) PROVE Served(b)
  <1>1. b.offer = a.offer /\ b.intact = a.intact /\ DOMAIN b.channels = DOMAIN a.channels
    BY DEF PeerStep
  <1>2. ASSUME NEW mid \in DOMAIN a.channels
        PROVE  /\ b.channels[mid].params = a.channels[mid].params
               /\ b.channels[mid].ports = a.channels[mid].ports
               /\ b.channels[mid].dtls.local_certificate = a.channels[mid].dtls.local_certificate
    <2>1. ChannelStep(a.channels[mid], b.channels[mid], U)
      BY DEF PeerStep
    <2> QED
      BY <2>1 DEF ChannelStep
  <1> SUFFICES ASSUME NEW i \in DOMAIN a.offer.media
               PROVE  LET m   == a.offer.media[i]
                          mid == ServingMid(a.offer, m.mid)
                          ch  == b.channels[mid]
                      IN  /\ mid \in DOMAIN a.channels
                          /\ [ufrag |-> m.info.ufrag, pwd |-> m.info.pwd] = ch.params
                          /\ m.mid = mid => m.candidates = {ShownCandidate(p) : p \in ch.ports}
                          /\ m.mid \in a.intact => m.info.fingerprint = <<"cert", ch.dtls.local_certificate>>
    BY ZenonT(120), <1>1 DEF Served
  <1> DEFINE m   == a.offer.media[i]
             mid == ServingMid(a.offer, m.mid)
             ch  == a.channels[mid]
  <1>3. /\ mid \in DOMAIN a.channels
        /\ [ufrag |-> m.info.ufrag, pwd |-> m.info.pwd] = ch.params
        /\ m.mid = mid => m.candidates = {ShownCandidate(p) : p \in ch.ports}
        /\ m.mid \in a.intact => m.info.fingerprint = <<"cert", ch.dtls.local_certificate>>
    BY DEF Served
  <1> HIDE DEF m, mid
  <1>4. /\ ch.params = b.channels[mid].params /\ ch.ports = b.channels[mid].ports
        /\ ch.dtls.local_certificate = b.channels[mid].dtls.local_certificate
    BY <1>2, <1>3
  <1> QED
    BY <1>3, <1>4, Zenon DEF m, mid

LEMMA PeerPortsStay ==
  ASSUME NEW a, NEW b, NEW U, PeerStep(a, b, U)
  PROVE  /\ PeerPorts(b) = PeerPorts(a)
         /\ InRange(a) => InRange(b)
         /\ \A P : Reachable(a, P) => Reachable(b, P)
  <1>1. DOMAIN b.channels = DOMAIN a.channels /\ b.fails = a.fails
        /\ \A mid \in DOMAIN a.channels : b.channels[mid].ports = a.channels[mid].ports
    BY DEF PeerStep, ChannelStep
  <1>2. PeerPorts(b) = PeerPorts(a)
    BY <1>1 DEF PeerPorts, Range
  <1>3. InRange(a) => InRange(b)
    BY <1>2 DEF InRange
  <1>4. \A P : Reachable(a, P) => Reachable(b, P)
    BY <1>1 DEF Reachable
  <1> QED
    BY <1>2, <1>3, <1>4

\* No step but that of a push changes what the invariant is about for the worse.
LEMMA EvolvesInv ==
  ASSUME SessionInv, NEW k, NEW U, Evolves(k, U), cert' \in Nat, range' = range
  PROVE  SessionInv'
  <1>1. DOMAIN pcs' = DOMAIN pcs /\ \A n \in DOMAIN pcs : PeerStep(pcs[n], pcs'[n], IF n = k THEN U ELSE {})
    BY DEF Evolves
  <1>2. Shape'
    BY <1>1 DEF Evolves, PeerStep, Shape
  <1>3. \A n \in DOMAIN pcs' : Served(pcs'[n])
    BY <1>1, ServedStays DEF SessionInv
  <1>4. \A n \in DOMAIN pcs' : \A mid \in DOMAIN pcs'[n].channels : Passwords(pcs'[n].channels[mid])
    BY <1>1 DEF SessionInv, PeerStep, ChannelStep
  <1>5. \A n \in DOMAIN pcs : PeerPorts(pcs'[n]) = PeerPorts(pcs[n])
    BY <1>1, PeerPortsStay
  <1>6. AllPorts' = AllPorts
    BY <1>1, <1>5 DEF AllPorts
  <1>7. Configured' = Configured /\ Limited' = Limited
    BY DEF Configured, Limited
  <1>8. Ports'
    <2>1. \A n \in DOMAIN pcs : Reachable(pcs'[n], AllPorts) /\ InRange(pcs'[n])
      BY <1>1, PeerPortsStay DEF SessionInv, Ports
    <2>2. \A n \in DOMAIN pcs : Reachable(pcs[n], AllPorts)' /\ InRange(pcs[n])'
      BY <2>1, <1>6, <1>7 DEF Reachable, InRange
    <2>3. \A m, n \in DOMAIN pcs : m # n => PeerPorts(pcs'[m]) \cap PeerPorts(pcs'[n]) = {}
      BY <1>5 DEF SessionInv, Ports
    <2> QED
      BY <1>1, <2>2, <2>3 DEF Ports
  <1>9. Credentials'
    <2>1. \A n \in DOMAIN pcs' : \A mid \in DOMAIN pcs'[n].channels : pcs'[n].channels[mid].params = Local(n)
      BY <1>1 DEF SessionInv, Credentials, PeerStep, ChannelStep
    <2> QED
      BY <2>1 DEF Credentials, Local
  <1> QED
    BY <1>2, <1>3, <1>4, <1>8, <1>9 DEF SessionInv

LEMMA PushInv ==
  ASSUME SessionInv, NEW fails, NEW intact, NEW crash, ProcessPush(fails, intact, crash)
  PROVE  SessionInv'
  <1>1. PICK bound \in GatheredPorts(fails) :
          pcs' = Append(pcs, NewPeerConnection(Len(pcs) + 1, Head(queue), intact, fails, bound))
    BY DEF ProcessPush
  <1>2. PICK pc : pc = NewPeerConnection(Len(pcs) + 1, Head(queue), intact, fails, bound)
    OBVIOUS
  <1>3. PICK k \in Nat : k = Len(pcs) + 1 /\ DOMAIN pcs = 1..(k - 1)
    BY DEF SessionInv, Shape
  <1>4. /\ IsPeer(pc) /\ Served(pc) /\ pc.fails = fails
        /\ \A mid \in DOMAIN pc.channels :
             /\ Passwords(pc.channels[mid]) /\ pc.channels[mid].ports = BoundPorts(bound)
             /\ pc.channels[mid].params = Local(k)
    <2>1. intact # {} => Head(queue).cert \in Nat
      BY DEF ProcessPush, SessionInv
    <2> QED
      BY <2>1, <1>2, <1>3, NewPeerIs
  <1>5. cert' \in Nat /\ range' = range
    BY DEF ProcessPush, SessionInv
  <1>6. /\ pcs' \in Seq(Range(pcs')) /\ DOMAIN pcs' = (DOMAIN pcs) \cup {k} /\ k \notin DOMAIN pcs
        /\ pcs'[k] = pc /\ \A n \in DOMAIN pcs : pcs'[n] = pcs[n]
    <2>1. PICK q : q = pcs'
      OBVIOUS
    <2>2. pcs \in Seq(Range(pcs)) /\ q = Append(pcs, pc)
      BY <1>1, <1>2, <2>1 DEF SessionInv, Shape
    <2>3. PICK T : T = Range(pcs) \cup {pc}
      OBVIOUS
    <2>4. pcs \in Seq(T) /\ pc \in T
      BY <2>2, <2>3
    <2>5. q \in Seq(T) /\ Len(q) = k /\ q[k] = pc /\ \A n \in 1..(k-1) : q[n] = pcs[n]
      BY <2>2, <2>4, <1>3
    <2>6. q \in [1..k -> Range(q)]
      BY <2>5, <1>3 DEF Range
    <2>7. q \in Seq(Range(q))
      BY <2>6, FunctionIsSeq
    <2>8. DOMAIN q = 1..k
      BY <2>5
    <2>9. DOMAIN q = (DOMAIN pcs) \cup {k} /\ k \notin DOMAIN pcs
      BY <1>3, <2>8
    <2> QED
      BY <2>1, <2>5, <2>7, <2>9, <1>3
  <1>7. Shape' /\ \A n \in DOMAIN pcs' : Served(pcs'[n])
    BY <1>4, <1>6 DEF SessionInv, Shape
  <1>8. \A n \in DOMAIN pcs' : \A mid \in DOMAIN pcs'[n].channels : Passwords(pcs'[n].channels[mid])
    BY <1>4, <1>6 DEF SessionInv
  <1>9. AllPorts' = AllPorts \cup PeerPorts(pc)
    BY <1>6 DEF AllPorts
  <1>10. Configured' = Configured /\ Limited' = Limited
    BY <1>5 DEF Configured, Limited
  <1>11. PICK sp : /\ \A nw \in DOMAIN bound : SockBind(nw, sp[nw], bound[nw])
                   /\ DOMAIN bound = {nw \in Network \ fails : \E p \in Port : SockBind(nw, sp[nw], p)}
    BY DEF GatheredPorts
  <1>13. PeerPorts(pc) \subseteq BoundPorts(bound)
    BY <1>4 DEF PeerPorts, Range
  <1>14. \A p \in PeerPorts(pc) : p.network \in DOMAIN bound /\ p.port = bound[p.network]
    BY <1>13 DEF BoundPorts
  <1>15. PeerPorts(pc) \cap AllPorts = {}
    <2> SUFFICES ASSUME NEW p \in PeerPorts(pc), p \in AllPorts PROVE FALSE
      OBVIOUS
    <2>1. p.port \notin Held(p.network)
      BY <1>11, <1>14, BindIs DEF SessionInv
    <2>2. p.port \in HeldBy(AllPorts, p.network)
      BY DEF HeldBy
    <2> QED
      BY <2>1, <2>2, HeldIs
  <1>16. InRange(pc)
    BY <1>11, <1>14, BindIs DEF SessionInv, InRange
  <1>17. Reachable(pc, AllPorts)
    <2> SUFFICES ASSUME NEW mid \in DOMAIN pc.channels, NEW nw \in Network \ fails,
                        ~ (Configured \subseteq HeldBy(AllPorts, nw)),
                        Limited
                 PROVE  nw \in {p.network : p \in pc.channels[mid].ports}
      BY <1>4 DEF Reachable
    <2>1. nw \in DOMAIN bound
      BY <1>11, BindIs, HeldIs DEF SessionInv
    <2>2. [network |-> nw, port |-> bound[nw]] \in pc.channels[mid].ports
      BY <2>1, <1>4 DEF BoundPorts
    <2> QED
      BY <2>2
  <1>18. Ports'
    <2>1. \A n \in DOMAIN pcs' : Reachable(pcs'[n], AllPorts) /\ InRange(pcs'[n])
      BY <1>6, <1>16, <1>17 DEF SessionInv, Ports
    <2>2. \A n \in DOMAIN pcs' : Reachable(pcs[n], AllPorts)'
      <3>1. \A nw : HeldBy(AllPorts, nw) \subseteq HeldBy(AllPorts', nw)
        BY <1>9, HeldGrows
      <3> QED
        BY <2>1, <3>1, <1>10 DEF Reachable
    <2>3. \A n \in DOMAIN pcs' : InRange(pcs[n])'
      BY <2>1, <1>10, <1>5 DEF InRange
    <2>4. \A n \in DOMAIN pcs : PeerPorts(pcs[n]) \cap PeerPorts(pc) = {}
      BY <1>15 DEF AllPorts
    <2>5. \A m, n \in DOMAIN pcs' : m # n => PeerPorts(pcs'[m]) \cap PeerPorts(pcs'[n]) = {}
      BY <2>4, <1>6 DEF SessionInv, Ports
    <2> QED
      BY <2>2, <2>3, <2>5 DEF Ports
  <1>19. Credentials'
    <2>1. \A n \in DOMAIN pcs' : \A mid \in DOMAIN pcs'[n].channels : pcs'[n].channels[mid].params = Local(n)
      BY <1>4, <1>6 DEF SessionInv, Credentials
    <2> QED
      BY <2>1 DEF Credentials, Local
  <1> QED
    BY <1>5, <1>7, <1>8, <1>18, <1>19 DEF SessionInv

LEMMA InitInv == Init => SessionInv
  <1> SUFFICES ASSUME Init PROVE SessionInv
    OBVIOUS
  <1>1. pcs = << >> /\ DOMAIN pcs = {} /\ cert = 1 /\ range \in Ranges
    BY DEF Init
  <1>2. pcs \in Seq(Range(pcs))
    BY <1>1
  <1> QED
    BY <1>1, <1>2 DEF SessionInv, Shape, Ports, Credentials

LEMMA StepInv == SessionInv /\ [Next]_vars => SessionInv'
  <1> SUFFICES ASSUME SessionInv, [Next]_vars PROVE SessionInv'
    OBVIOUS
  <1>0. Shape /\ cert \in Nat
    BY DEF SessionInv
  <1>1. ASSUME UNCHANGED pcs, cert' \in {cert, cert + 1}, range' = range PROVE SessionInv'
    BY <1>0, <1>1, NothingEvolves, EvolvesInv
  <1>2. ASSUME NEW k, NEW U, Evolves(k, U), cert' = cert, range' = range PROVE SessionInv'
    BY <1>0, <1>2, EvolvesInv
  <1>3. ASSUME NEW msg, NEW expired, Forward(msg, expired) PROVE SessionInv'
    BY <1>1, <1>3 DEF Forward
  <1>4. ASSUME NEW uid \in Uid, NEW s \in Stream, NEW media \in Media, NEW expired \in BOOLEAN,
               ForwardPush(uid, s, media, expired)
        PROVE  SessionInv'
    BY <1>3, <1>4 DEF ForwardPush
  <1>5. ASSUME NEW n \in DOMAIN pcs, NEW layout \in Layout, NEW expired \in BOOLEAN,
               ForwardAnswer(n, layout, expired)
        PROVE  SessionInv'
    BY <1>3, <1>5 DEF ForwardAnswer
  <1>6. CASE RenewElsewhere
    BY <1>1, <1>6 DEF RenewElsewhere
  <1>7. ASSUME NEW fails \in SUBSET Network, NEW intact, NEW crash \in BOOLEAN,
               ProcessPush(fails, intact, crash)
        PROVE  SessionInv'
    BY <1>7, PushInv
  <1>8. CASE ProcessAnswer
    BY <1>0, <1>2, <1>8, ProcessAnswerEvolves DEF ProcessAnswer
  <1>9. ASSUME NEW n \in DOMAIN pcs, NEW mid \in DOMAIN pcs[n].channels, NEW x \in Network \X Addr,
               NEW check \in Check, ReceiveRequest(n, mid, x, check)
        PROVE  SessionInv'
    BY SMTT(90), <1>0, <1>2, <1>9, ReceiveRequestEvolves DEF ReceiveRequest
  <1>10. ASSUME NEW n \in DOMAIN pcs, NEW mid \in DOMAIN pcs[n].channels, NEW x \in Network \X Addr,
                NEW type, ReceiveResponse(n, mid, x, type)
         PROVE  SessionInv'
    BY <1>1, <1>10 DEF ReceiveResponse
  <1>11. ASSUME NEW n \in DOMAIN pcs, NEW mid \in DOMAIN pcs[n].channels, NEW x \in Network \X Addr,
                NEW packet \in Packet, NEW crash \in BOOLEAN, ReceivePacket(n, mid, x, packet, crash)
         PROVE  SessionInv'
    BY <1>0, <1>2, <1>11, ReceivePacketEvolves DEF ReceivePacket
  <1>12. CASE UNCHANGED vars
    BY <1>1, <1>12 DEF vars
  <1> QED
    BY <1>4, <1>5, <1>6, <1>7, <1>8, <1>9, <1>10, <1>11, <1>12 DEF Next, Datagram

\* Every peer connection serves what its offer showed, its connections have
\* the password of its answer, and its sockets the ports of sock_bind, at
\* every step of the worker.
THEOREM SessionInvariant == Spec => []SessionInv
  BY InitInv, StepInv, PTL DEF Spec

\* create_offer, set_local_description: every m-line of every offer is served
\* by a channel with its credentials and candidates, and with its certificate
\* unless RtcServer freed that before the fingerprint was taken.
THEOREM OffersAreServed == Spec => []OfferServed
  <1>1. SessionInv => OfferServed
    BY DEF SessionInv, Served, OfferServed, Channel
  <1> QED
    BY <1>1, SessionInvariant, PTL

\* sock_bind: ports are not shared, and with a range they are of the range, and
\* one lacks only where all of the range is held.
THEOREM PortsAreFromRange == Spec => []PortsFromRange
  <1>1. SessionInv => PortsFromRange
    BY PortsSuffice DEF SessionInv
  <1> QED
    BY <1>1, SessionInvariant, PTL

\* maybe_set_remote_ice_params: connections have the password of the answer,
\* whichever came first.
THEOREM PasswordsFollowAnswers == Spec => []PasswordFollowsAnswer
  <1>1. SessionInv => PasswordFollowsAnswer
    BY DEF SessionInv, Passwords, PasswordFollowsAnswer, Channel, Place
  <1> QED
    BY <1>1, SessionInvariant, PTL

-----------------------------------------------------------------------------
(* What the text of an answer is parsed into *)

Medium == {"audio", "video"}

\* The text is one that the peer of the j-th offer sent.
TextFrom(sdp, j) ==
  /\ sdp.lines \in Seq(Range(sdp.lines))
  /\ \A line \in Range(sdp.lines) : line.key = "a=ice-ufrag" => line.value = Remote(j).ufrag

\* What may be taken for the peer's ufrag
TextUfrags(j) == {Empty, <<"cut", 0>>, <<"a=ice-ufrag", 0>>, Remote(j).ufrag}

ParsedInfo(td, j) ==
  /\ td = [mid |-> td.mid, ufrag |-> td.ufrag, pwd |-> td.pwd,
           fingerprint |-> td.fingerprint, role |-> td.role]
  /\ td.ufrag \in TextUfrags(j)

Parsed(acc, j) ==
  /\ acc = [ok |-> acc.ok, media |-> acc.media, contents |-> acc.contents, td |-> acc.td]
  /\ acc.contents \in Seq(Medium)
  /\ acc.td = [m \in Medium |-> acc.td[m]]
  /\ \A m \in Medium : ParsedInfo(acc.td[m], j)
  /\ \A m \in Range(acc.contents) : acc.td[m].mid = m

LEMMA ParsedTransportInfo ==
  ASSUME NEW j, NEW td, ParsedInfo(td, j), NEW crlf, NEW line,
         line.key = "a=ice-ufrag" => line.value = Remote(j).ufrag,
         NEW new, new = ParseTransportInfo(td, line, crlf), new # Nil
  PROVE  ParsedInfo(new, j) /\ new.mid = td.mid
  <1> DEFINE v == GetAttributeOf(line, crlf)
  <1>1. \/ new = td
        \/ line.key = "a=ice-ufrag" /\ new = [td EXCEPT !.ufrag = v]
        \/ new = [td EXCEPT !.pwd = v]
        \/ new = [td EXCEPT !.fingerprint = line.value]
    BY DEF ParseTransportInfo
  <1>2. line.key = "a=ice-ufrag" => v \in TextUfrags(j)
    BY DEF GetAttributeOf, TextUfrags
  <1> HIDE DEF v
  <1>3. CASE new = td
    BY <1>3
  <1>4. CASE line.key = "a=ice-ufrag" /\ new = [td EXCEPT !.ufrag = v]
    BY <1>2, <1>4 DEF ParsedInfo
  <1>5. CASE new = [td EXCEPT !.pwd = v]
    BY <1>5 DEF ParsedInfo
  <1>6. CASE new = [td EXCEPT !.fingerprint = line.value]
    BY <1>6 DEF ParsedInfo
  <1> QED
    BY <1>1, <1>3, <1>4, <1>5, <1>6

LEMMA ParsedLine ==
  ASSUME NEW j, NEW acc, Parsed(acc, j), NEW crlf, NEW line,
         line.key = "a=ice-ufrag" => line.value = Remote(j).ufrag
  PROVE  Parsed(ParseLine(acc, line, crlf), j)
  <1> DEFINE media == IF line.key = "m=" THEN line.value[1] ELSE acc.media
             known == media \in Medium
             old   == acc.td[media]
             td0   == IF line.key = "m=" THEN [old EXCEPT !.mid = media] ELSE old
             td1   == ParseTransportInfo(td0, line, crlf)
             contents == IF known /\ line.key = "m=" THEN Append(acc.contents, media) ELSE acc.contents
             td    == IF known THEN [acc.td EXCEPT ![media] = td1] ELSE acc.td
             new   == ParseLine(acc, line, crlf)
             next  == [acc EXCEPT !.media = media, !.contents = contents, !.td = td]
  <1>1. \/ new = acc \/ new = [acc EXCEPT !.ok = FALSE]
        \/ (known => td1 # Nil) /\ new = next
    BY DEF ParseLine, Medium
  <1>2. CASE new = acc
    BY <1>2
  <1>3. CASE new = [acc EXCEPT !.ok = FALSE]
    <2> PICK f : f = FALSE
      OBVIOUS
    <2>1. new = [acc EXCEPT !.ok = f]
      BY <1>3
    <2> HIDE DEF new
    <2>2. /\ new = [ok |-> new.ok, media |-> new.media, contents |-> new.contents, td |-> new.td]
          /\ new.contents = acc.contents /\ new.td = acc.td
      BY <2>1 DEF Parsed
    <2> QED
      BY <2>2 DEF Parsed, new
  <1>4. CASE (known => td1 # Nil) /\ new = next
    <2>1. /\ new = [ok |-> new.ok, media |-> new.media, contents |-> new.contents, td |-> new.td]
          /\ new.contents = contents /\ new.td = td
      <3> HIDE DEF new, media, contents, td
      <3> QED
        BY <1>4 DEF Parsed
    <2>2. ASSUME known PROVE /\ ParsedInfo(td0, j) /\ (line.key = "m=" => td0.mid = media)
                             /\ (line.key # "m=" => td0 = old)
      <3>1. ParsedInfo(old, j)
        BY <2>2 DEF Parsed
      <3> HIDE DEF old, media
      <3> QED
        BY <3>1 DEF ParsedInfo
    <2>3. ASSUME known PROVE ParsedInfo(td1, j) /\ td1.mid = td0.mid
      <3> HIDE DEF td0
      <3>1. td1 # Nil /\ ParsedInfo(td0, j)
        BY <1>4, <2>2, <2>3
      <3> HIDE DEF td1
      <3> QED
        BY <3>1, ParsedTransportInfo DEF td1
    <2>4. contents \in Seq(Medium)
      BY DEF Parsed
    <2>5. Range(contents) \subseteq Range(acc.contents) \cup (IF known /\ line.key = "m=" THEN {media} ELSE {})
      <3> HIDE DEF media
      <3> QED
        BY DEF Range, Parsed
    <2>6. Range(acc.contents) \subseteq Medium
      BY DEF Parsed, Range
    <2>7. td = [m \in Medium |-> td[m]]
      BY DEF Parsed
    <2>8. \A m \in Medium : td[m] = IF known /\ m = media THEN td1 ELSE acc.td[m]
      <3> HIDE DEF td1, media
      <3> QED
        BY DEF Parsed
    <2> HIDE DEF td, td1, td0, contents, new
    <2>9. \A m \in Medium : ParsedInfo(td[m], j)
      BY <2>3, <2>8 DEF Parsed
    <2>10. \A m \in Range(contents) : td[m].mid = m
      BY <2>2, <2>3, <2>5, <2>6, <2>8 DEF Parsed
    <2>11. Parsed(new, j)
      BY <2>1, <2>4, <2>7, <2>9, <2>10 DEF Parsed
    <2> QED
      BY <2>11 DEF new
  <1> QED
    BY <1>1, <1>2, <1>3, <1>4

\* The loop defines a function of the number of lines.
Start == [ok |-> TRUE, media |-> "", contents |-> << >>,
          td |-> [m \in Medium |-> NewTransportDescription]]

Loops(f, sdp, n) ==
  f = [k \in 0..n |-> IF k = 0 THEN Start ELSE ParseLine(f[k - 1], sdp.lines[k], sdp.crlf)]

LEMMA LoopExists == ASSUME NEW sdp, NEW n \in Nat PROVE \E f : Loops(f, sdp, n)
  <1> DEFINE Bad == {k \in Nat : ~ \E f : Loops(f, sdp, k)}
  <1> SUFFICES ASSUME Bad # {} PROVE FALSE
    OBVIOUS
  <1>1. PICK k \in Bad : \A i \in Bad : k <= i
    BY LeastNat
  <1>2. CASE k = 0
    <2>1. Loops([i \in 0..0 |-> Start], sdp, 0)
      <3>1. \A i \in 0..0 : i = 0
        OBVIOUS
      <3> QED
        BY <3>1 DEF Loops
    <2> QED
      BY <1>2, <2>1
  <1>3. CASE k # 0
    <2>1. k \in Nat /\ k - 1 \in Nat /\ k - 1 \notin Bad
      BY <1>1, <1>3
    <2>2. PICK f : Loops(f, sdp, k - 1)
      BY <2>1
    <2> DEFINE last == ParseLine(f[k - 1], sdp.lines[k], sdp.crlf)
               g == [i \in 0..k |-> IF i = k THEN last ELSE f[i]]
    <2>3. DOMAIN f = 0..(k - 1)
          /\ \A i \in 0..(k - 1) : f[i] = IF i = 0 THEN Start ELSE ParseLine(f[i - 1], sdp.lines[i], sdp.crlf)
      <3> HIDE DEF Start
      <3> QED
        BY <2>2 DEF Loops
    <2>4. \A i \in 0..k : g[i] = IF i = k THEN last ELSE f[i]
      OBVIOUS
    <2>5. \A i \in 0..k : g[i] = IF i = 0 THEN Start ELSE ParseLine(g[i - 1], sdp.lines[i], sdp.crlf)
      <3> SUFFICES ASSUME NEW i \in 0..k
                   PROVE  g[i] = IF i = 0 THEN Start ELSE ParseLine(g[i - 1], sdp.lines[i], sdp.crlf)
        OBVIOUS
      <3>1. CASE i = k
        <4>1. k - 1 \in 0..k /\ k - 1 # k
          BY <2>1
        <4>2. g[i - 1] = f[k - 1] /\ g[i] = last
          BY <3>1, <4>1, <2>4
        <4> QED
          BY <3>1, <4>2, <1>3
      <3>2. CASE i # k
        <4>1. i \in 0..(k - 1) /\ (i # 0 => i - 1 \in 0..k /\ i - 1 # k)
          BY <2>1, <3>2
        <4>2. g[i] = f[i] /\ (i # 0 => g[i - 1] = f[i - 1])
          BY <3>2, <4>1, <2>4
        <4> HIDE DEF g
        <4> QED
          BY <4>1, <4>2, <2>3
      <3> QED
        BY <3>1, <3>2
    <2>6. g = [i \in 0..k |-> g[i]]
      OBVIOUS
    <2> HIDE DEF g
    <2>7. Loops(g, sdp, k)
      BY <2>5, <2>6 DEF Loops
    <2> QED
      BY <2>7
  <1> QED
    BY <1>2, <1>3

LEMMA ParsedLinesIs ==
  ASSUME NEW j, NEW sdp, TextFrom(sdp, j)
  PROVE  Parsed(ParsedLines(sdp), j)
  <1>1. PICK n \in Nat : n = Len(sdp.lines) /\ \A i \in 1..n : sdp.lines[i] \in Range(sdp.lines)
    BY DEF TextFrom, Range
  <1> DEFINE f == CHOOSE g : Loops(g, sdp, n)
  <1>2. Loops(f, sdp, n)
    BY LoopExists, Zenon
  <1>3. ParsedLines(sdp) = f[n]
    BY <1>1 DEF ParsedLines, Loops, Start, Medium
  <1> HIDE DEF f
  <1>4. \A i \in 0..n : f[i] = IF i = 0 THEN Start ELSE ParseLine(f[i - 1], sdp.lines[i], sdp.crlf)
    <2> HIDE DEF Start
    <2> QED
      BY <1>2 DEF Loops
  <1>5. Parsed(Start, j)
    <2>1. NewTransportDescription.mid = "" /\ ParsedInfo(NewTransportDescription, j)
      BY DEF ParsedInfo, NewTransportDescription, TextUfrags
    <2> HIDE DEF NewTransportDescription
    <2>2. /\ Start = [ok |-> Start.ok, media |-> Start.media, contents |-> Start.contents, td |-> Start.td]
          /\ Start.contents = << >> /\ Start.td = [m \in Medium |-> NewTransportDescription]
      BY DEF Start
    <2>3. Range(<< >>) = {} /\ << >> \in Seq(Medium)
      BY DEF Range
    <2> HIDE DEF Start
    <2> QED
      BY <2>1, <2>2, <2>3 DEF Parsed
  <1> DEFINE Bad == {k \in 0..n : ~ Parsed(f[k], j)}
  <1>6. Bad = {}
    <2> SUFFICES ASSUME Bad # {} PROVE FALSE
      OBVIOUS
    <2>1. Bad \subseteq Nat
      OBVIOUS
    <2> HIDE DEF Bad
    <2>2. PICK k \in Bad : \A i \in Bad : k <= i
      BY <2>1, LeastNat
    <2>3. k \in 0..n /\ ~ Parsed(f[k], j)
      BY DEF Bad
    <2>4. k # 0
      BY <2>3, <1>4, <1>5
    <2>5. k - 1 \in 0..n /\ k - 1 \notin Bad /\ k \in 1..n
      BY <2>2, <2>3, <2>4
    <2>6. Parsed(f[k - 1], j)
      BY <2>5 DEF Bad
    <2>7. f[k] = ParseLine(f[k - 1], sdp.lines[k], sdp.crlf)
      BY <2>3, <2>4, <1>4
    <2>8. sdp.lines[k].key = "a=ice-ufrag" => sdp.lines[k].value = Remote(j).ufrag
      BY <2>5, <1>1 DEF TextFrom
    <2> QED
      BY <2>3, <2>6, <2>7, <2>8, ParsedLine
  <1> QED
    BY <1>3, <1>6

LEMMA UfragsOfText ==
  ASSUME NEW j, NEW sdp, TextFrom(sdp, j), ParseAnswer(sdp) # Nil
  PROVE  Ufrags(ParseAnswer(sdp)) \subseteq TextUfrags(j)
  <1> DEFINE acc == ParsedLines(sdp)
             infos == <<acc.td["audio"], acc.td["video"]>>
             desc == ParseAnswer(sdp)
  <1>1. Parsed(acc, j)
    BY ParsedLinesIs
  <1>2. desc.contents = acc.contents /\ desc.infos = infos
    <2>1. desc = [NewSessionDescription("answer") EXCEPT !.contents = acc.contents, !.infos = infos]
      BY DEF ParseAnswer
    <2> HIDE DEF acc, infos, desc
    <2> QED
      BY <2>1 DEF NewSessionDescription
  <1> HIDE DEF desc, acc
  <1>3. Len(infos) = 2 /\ infos[1] = acc.td["audio"] /\ infos[2] = acc.td["video"]
    OBVIOUS
  <1> HIDE DEF infos
  <1>4. ASSUME NEW mid \in Range(acc.contents) PROVE GetTransportInfo(desc, mid).ufrag \in TextUfrags(j)
    <2> DEFINE I == {i \in 1..Len(infos) : infos[i].mid = mid}
    <2>1. mid \in Medium /\ acc.td[mid].mid = mid
      <3>1. acc.contents \in Seq(Medium) /\ acc.td[mid].mid = mid
        BY <1>1, <1>4 DEF Parsed
      <3>2. mid \in Medium
        BY <3>1, <1>4 DEF Range
      <3> QED
        BY <3>1, <3>2
    <2>2. 1 \in I \/ 2 \in I
      BY <2>1, <1>3 DEF Medium
    <2>3. I \subseteq {1, 2}
      BY <1>3
    <2> HIDE DEF I
    <2>4. PICK k \in I : \A i \in I : k <= i
      <3>1. I \subseteq Nat /\ I # {}
        BY <2>2, <2>3
      <3> QED
        BY <3>1, LeastNat
    <2>5. Min(I) \in I
      BY <2>4 DEF Min
    <2>6. GetTransportInfo(desc, mid) = infos[Min(I)]
      BY <1>2, <2>2, <2>3, <2>5 DEF GetTransportInfo, SelectInSeq, I
    <2>7. \A i \in {1, 2} : infos[i].ufrag \in TextUfrags(j)
      BY <1>1, <1>3 DEF Parsed, ParsedInfo, Medium
    <2> QED
      BY <2>3, <2>5, <2>6, <2>7
  <1>5. Ufrags(desc) \subseteq TextUfrags(j)
    BY <1>2, <1>4 DEF Ufrags
  <1> QED
    BY <1>5 DEF desc

-----------------------------------------------------------------------------
(* The text a client makes *)

\* A sequence of lines whose ufrags are those of the j-th peer
LinesOf(s, j) ==
  /\ s \in Seq(Range(s))
  /\ \A i \in 1..Len(s) : s[i].key = "a=ice-ufrag" => s[i].value = Remote(j).ufrag

LEMMA LinesConcat ==
  ASSUME NEW j, NEW s, NEW t, LinesOf(s, j), LinesOf(t, j)
  PROVE  LinesOf(s \o t, j)
  <1> DEFINE T == Range(s) \cup Range(t)
  <1>1. s \in Seq(T) /\ t \in Seq(T)
    BY DEF LinesOf
  <1>2. PICK u : u = s \o t
    OBVIOUS
  <1> HIDE DEF T
  <1>3. /\ u \in Seq(T) /\ Len(u) = Len(s) + Len(t) /\ Len(s) \in Nat /\ Len(t) \in Nat
        /\ \A i \in 1..Len(u) : u[i] = IF i <= Len(s) THEN s[i] ELSE t[i - Len(s)]
    BY <1>1, <1>2
  <1>4. PICK n \in Nat : n = Len(u)
    BY <1>3
  <1>5. u \in [1..n -> Range(u)]
    BY <1>3, <1>4 DEF Range
  <1>6. u \in Seq(Range(u))
    BY <1>5, FunctionIsSeq
  <1>7. ASSUME NEW i \in 1..Len(u), u[i].key = "a=ice-ufrag" PROVE u[i].value = Remote(j).ufrag
    <2>1. CASE i <= Len(s)
      <3>1. i \in 1..Len(s) /\ u[i] = s[i]
        BY <1>3, <1>7, <2>1
      <3> QED
        BY <3>1, <1>7 DEF LinesOf
    <2>2. CASE ~ (i <= Len(s))
      <3>1. i - Len(s) \in 1..Len(t) /\ u[i] = t[i - Len(s)]
        BY <1>3, <1>7, <2>2
      <3> QED
        BY <3>1, <1>7 DEF LinesOf
    <2> QED
      BY <2>1, <2>2
  <1> QED
    BY <1>2, <1>6, <1>7 DEF LinesOf

IsLine(l, j) == l.key = "a=ice-ufrag" => l.value = Remote(j).ufrag

LEMMA NoLine == ASSUME NEW j PROVE LinesOf(<< >>, j)
  BY DEF LinesOf

LEMMA OneLine == ASSUME NEW j, NEW l, IsLine(l, j) PROVE LinesOf(<<l>>, j)
  <1>1. <<l>> \in [1..1 -> Range(<<l>>)]
    BY DEF Range
  <1>2. <<l>> \in Seq(Range(<<l>>)) /\ Len(<<l>>) = 1
    BY <1>1, FunctionIsSeq
  <1> QED
    BY <1>2 DEF LinesOf, IsLine

LEMMA TwoLines == ASSUME NEW j, NEW l, NEW m, IsLine(l, j), IsLine(m, j) PROVE LinesOf(<<l, m>>, j)
  <1>1. LinesOf(<<l>> \o <<m>>, j)
    BY OneLine, LinesConcat
  <1>2. <<l>> \o <<m>> = <<l, m>>
    <2>1. PICK t : t = <<l>> \o <<m>>
      OBVIOUS
    <2>2. <<l>> \in Seq({l, m}) /\ <<m>> \in Seq({l, m}) /\ <<l, m>> \in Seq({l, m})
      OBVIOUS
    <2>3. t \in Seq({l, m}) /\ Len(t) = 2 /\ t[1] = l /\ t[2] = m
      BY <2>1, <2>2
    <2>4. \A i \in 1..Len(t) : t[i] = (<<l, m>>)[i]
      BY <2>3
    <2>5. t = <<l, m>>
      BY SMTT(60), <2>2, <2>3, <2>4, SeqEqual
    <2> QED
      BY <2>1, <2>5
  <1> QED
    BY <1>1, <1>2

LEMMA FlattenTwo == ASSUME NEW s, NEW t PROVE FlattenSeq(<<s, t>>) = s \o t
  <1> DEFINE seqs == <<s, t>>
             D == 1..Len(seqs)
             h == [i \in 1..2 |-> IF i = 1 THEN s ELSE s \o t]
             P(f) == f = [i \in D |-> IF i = 1 THEN seqs[i] ELSE f[i-1] \o seqs[i]]
  <1>1. Len(seqs) = 2 /\ seqs[1] = s /\ seqs[2] = t
    OBVIOUS
  <1> HIDE DEF seqs
  <1>2. P(h)
    <2>1. \A i \in 1..2 : h[i] = IF i = 1 THEN seqs[i] ELSE h[i-1] \o seqs[i]
      BY <1>1
    <2>2. h = [i \in 1..2 |-> h[i]]
      OBVIOUS
    <2> HIDE DEF h
    <2> QED
      BY <1>1, <2>1, <2>2
  <1>3. P(CHOOSE f : P(f))
    BY <1>2, Zenon
  <1>4. FlattenSeq(seqs) = (CHOOSE f : P(f))[2]
    BY <1>1 DEF FlattenSeq
  <1> HIDE DEF h
  <1>5. PICK g : g = (CHOOSE f : P(f))
    BY Zenon
  <1>6. g[1] = s /\ g[2] = g[1] \o t
    <2>1. P(g)
      BY ZenonT(120), <1>3, <1>5
    <2>2. \A i \in 1..2 : g[i] = IF i = 1 THEN seqs[i] ELSE g[i-1] \o seqs[i]
      BY <1>1, <2>1
    <2>3. 1 \in 1..2 /\ 2 \in 1..2 /\ 2 - 1 = 1
      OBVIOUS
    <2> QED
      BY <1>1, <2>2, <2>3
  <1> QED
    BY <1>4, <1>5, <1>6 DEF seqs

LEMMA AnswerIsFrom ==
  ASSUME NEW n, NEW layout, pcs[n].desc.contents \in Mids \cup {<< >>}
  PROVE  TextFrom(AnswerText(n, layout), n)
  <1> DEFINE Line(key, value) == [key |-> key, value |-> value, cr |-> layout.crlf]
             fp    == Line("a=fingerprint", IF layout.bad THEN Empty ELSE <<"peer", n>>)
             creds == <<Line("a=ice-ufrag", Remote(n).ufrag),
                        [Line("a=ice-pwd", Remote(n).pwd) EXCEPT !.cr = layout.cr]>>
             rest == IF layout.level = "media" THEN <<fp>> \o creds ELSE <<fp>>
             Section(mid) == <<Line("m=", <<mid, 0>>)>> \o rest
             mids  == pcs[n].desc.contents
             head == <<Line("v=", <<"0", 0>>), Line("a=group", <<"BUNDLE", 0>>)>>
             sess == IF layout.level = "session" THEN creds ELSE << >>
             flat == FlattenSeq([i \in DOMAIN mids |-> Section(mids[i])])
             text == AnswerText(n, layout)
  <1>1. text.lines = head \o sess \o flat
    BY DEF AnswerText
  <1>2. /\ LinesOf(head, n) /\ LinesOf(creds, n) /\ LinesOf(<<fp>>, n)
        /\ \A mid : LinesOf(<<Line("m=", <<mid, 0>>)>>, n)
    <2>1. \A key, value : key # "a=ice-ufrag" => IsLine(Line(key, value), n)
      BY DEF IsLine
    <2>2. IsLine(Line("a=ice-ufrag", Remote(n).ufrag), n)
      BY DEF IsLine
    <2>3. IsLine([Line("a=ice-pwd", Remote(n).pwd) EXCEPT !.cr = layout.cr], n)
      BY DEF IsLine
    <2> HIDE DEF Line
    <2> QED
      BY <2>1, <2>2, <2>3, OneLine, TwoLines
  <1> HIDE DEF head, creds, fp, Line, text
  <1>3. LinesOf(rest, n) /\ LinesOf(sess, n)
    BY <1>2, LinesConcat, NoLine
  <1> HIDE DEF rest, sess
  <1>4. \A mid : LinesOf(Section(mid), n)
    BY <1>2, <1>3, LinesConcat
  <1> HIDE DEF Section
  <1>5. LinesOf(flat, n)
    <2> DEFINE secs == [i \in DOMAIN mids |-> Section(mids[i])]
    <2>0. flat = FlattenSeq(secs)
      OBVIOUS
    <2> HIDE DEF flat
    <2>1. CASE mids = << >>
      <3>1. secs = << >>
        BY <2>1
      <3>2. FlattenSeq(<< >>) = << >>
        BY DEF FlattenSeq
      <3> HIDE DEF secs, mids
      <3>3. flat = << >>
        BY <2>0, <3>1, <3>2
      <3> QED
        BY <3>3, NoLine
    <2>2. ASSUME NEW m, mids = <<m>> PROVE LinesOf(flat, n)
      <3>1. secs = <<Section(m)>>
        BY <2>2
      <3>2. FlattenSeq(<<Section(m)>>) = Section(m)
        BY FlattenOne
      <3> HIDE DEF secs, mids
      <3>3. flat = Section(m)
        BY <2>0, <3>1, <3>2
      <3>4. LinesOf(Section(m), n)
        BY <1>4
      <3> QED
        BY <3>3, <3>4
    <2>3. ASSUME NEW l, NEW m, mids = <<l, m>> PROVE LinesOf(flat, n)
      <3>1. secs = <<Section(l), Section(m)>>
        BY <2>3
      <3>2. FlattenSeq(<<Section(l), Section(m)>>) = Section(l) \o Section(m)
        BY FlattenTwo
      <3> HIDE DEF secs, mids
      <3>3. flat = Section(l) \o Section(m)
        BY <2>0, <3>1, <3>2
      <3>4. LinesOf(Section(l) \o Section(m), n)
        BY <1>4, LinesConcat
      <3> QED
        BY <3>3, <3>4
    <2> QED
      BY <2>1, <2>2, <2>3 DEF Mids
  <1> HIDE DEF flat
  <1>6. LinesOf(text.lines, n)
    BY <1>1, <1>2, <1>3, <1>5, LinesConcat
  <1>7. TextFrom(text, n)
    BY <1>6 DEF TextFrom, LinesOf, Range
  <1> QED
    BY <1>7 DEF text

-----------------------------------------------------------------------------
(* From a push to its answer *)

SentBy(msg, j) ==
  msg.uid = pcs[j].uid /\ msg.stream = pcs[j].stream /\ TextFrom(msg.sdp, j)

Messages ==
  /\ queue \in Seq(Range(queue))
  /\ \A i \in DOMAIN queue :
       /\ queue[i].stream \in Stream
       /\ queue[i].cmd = "ANSWER" => \E j \in DOMAIN pcs : SentBy(queue[i], j)

\* The stream manager knows the last push of each stream.
Latest ==
  /\ push_streams = [s \in Stream |-> push_streams[s]]
  /\ \A s \in Stream : push_streams[s] # 0 =>
       push_streams[s] \in DOMAIN pcs /\ pcs[push_streams[s]].stream = s
  /\ \A n \in DOMAIN pcs : pcs[n].stream \in Stream /\ n <= push_streams[pcs[n].stream]

Offered == \A n \in DOMAIN pcs : pcs[n].desc.contents \in Mids \cup {<< >>}

Earlier(k, n) == k \in 1..n /\ pcs[k].uid = pcs[n].uid /\ pcs[k].stream = pcs[n].stream

Peers ==
  \A n \in DOMAIN pcs : \A mid \in DOMAIN pcs[n].channels : \A k \in Nat :
    pcs[n].channels[mid].remote.ufrag = Remote(k).ufrag => Earlier(k, n)

AnswerInv == Messages /\ Latest /\ Offered /\ Peers

LEMMA RemoteUfrags ==
  ASSUME NEW k \in Nat, NEW j \in Nat, Remote(k).ufrag \in TextUfrags(j)
  PROVE  k = j
  BY DEF Remote, TextUfrags, Empty

LEMMA NewPeerSent ==
  ASSUME NEW n, NEW msg, NEW intact, NEW fails, NEW bound, NEW pc,
         pc = NewPeerConnection(n, msg, intact, fails, bound)
  PROVE  /\ pc.uid = msg.uid /\ pc.stream = msg.stream
         /\ pc.desc.contents \in Mids \cup {<< >>}
         /\ \A mid \in DOMAIN pc.channels : pc.channels[mid].remote = NoParams
  <1> DEFINE fp == FingerprintsOf(msg, intact)
             desc == OfferDescription(n, msg.media, fp)
             channels == [mid \in ChannelMids(desc) |-> NewChannel(desc, mid, msg.cert, bound)]
             done == AddGathered(desc, channels)
  <1>1. pc = [uid |-> msg.uid, stream |-> msg.stream, intact |-> intact, fails |-> fails,
              desc |-> done, offer |-> OfferText(done), channels |-> channels]
    BY DEF NewPeerConnection, FingerprintsOf
  <1>2. desc = NewSessionDescription("offer") \/ \E mids \in Mids : desc = OfferOf(n, mids, fp)
    BY OfferDescriptionIs
  <1>3. \A mid \in DOMAIN channels : channels[mid].remote = NoParams
    BY DEF NewChannel
  <1>4. DOMAIN channels = ChannelMids(desc)
    OBVIOUS
  <1> HIDE DEF fp, channels, desc
  <1>5. done.contents \in Mids \cup {<< >>}
    <2>1. CASE desc = NewSessionDescription("offer")
      <3>1. desc.contents = << >>
        BY <2>1 DEF NewSessionDescription
      <3>2. DOMAIN channels = {}
        BY <3>1, <1>4 DEF ChannelMids, Range
      <3>3. done = desc
        BY <3>2 DEF AddGathered
      <3> QED
        BY <3>1, <3>3
    <2>2. ASSUME NEW mids \in Mids, desc = OfferOf(n, mids, fp) PROVE done.contents = mids
      <3>1. DOMAIN channels = {mids[1]}
        BY <2>2, <1>4, OfferChannelMids
      <3>2. done = GatheredOffer(n, mids, fp, channels[mids[1]].ports)
        BY <2>2, <3>1, OfferGathered
      <3> HIDE DEF done
      <3> QED
        BY <3>2 DEF GatheredOffer, OfferOf
    <2> QED
      BY <1>2, <2>1, <2>2
  <1> HIDE DEF done
  <1> QED
    BY <1>1, <1>3, <1>5

LEMMA RestInSeq ==
  ASSUME NEW q, q \in Seq(Range(q)), q # << >>
  PROVE  /\ Tail(q) \in Seq(Range(Tail(q))) /\ 1 \in DOMAIN q /\ Head(q) = q[1]
         /\ \A i \in DOMAIN Tail(q) : i + 1 \in DOMAIN q /\ Tail(q)[i] = q[i + 1]
  <1>1. PICK t : t = Tail(q)
    OBVIOUS
  <1>2. /\ t \in Seq(Range(q)) /\ Len(t) = Len(q) - 1 /\ Len(q) \in Nat \ {0}
        /\ \A i \in 1..Len(t) : t[i] = q[i + 1]
    BY <1>1
  <1>3. PICK n \in Nat : n = Len(t)
    BY <1>2
  <1>4. t \in [1..n -> Range(t)]
    BY <1>2, <1>3 DEF Range
  <1>5. t \in Seq(Range(t))
    BY <1>4, FunctionIsSeq
  <1>6. DOMAIN t = 1..Len(t) /\ DOMAIN q = 1..Len(q)
    BY <1>2
  <1>7. 1 \in DOMAIN q /\ \A i \in DOMAIN t : i + 1 \in DOMAIN q
    BY <1>2, <1>6
  <1> QED
    BY <1>1, <1>2, <1>5, <1>6, <1>7

LEMMA LongerInSeq ==
  ASSUME NEW q, q \in Seq(Range(q)), NEW m
  PROVE  /\ Append(q, m) \in Seq(Range(Append(q, m)))
         /\ DOMAIN Append(q, m) = (DOMAIN q) \cup {Len(q) + 1} /\ Append(q, m)[Len(q) + 1] = m
         /\ Len(q) \in Nat /\ DOMAIN q = 1..Len(q)
         /\ \A i \in DOMAIN q : Append(q, m)[i] = q[i]
  <1> DEFINE T == Range(q) \cup {m}
  <1>1. PICK t : t = Append(q, m)
    OBVIOUS
  <1>2. q \in Seq(T) /\ m \in T
    OBVIOUS
  <1> HIDE DEF T
  <1>3. PICK k \in Nat : k = Len(q)
    BY <1>2
  <1>4. t \in Seq(T) /\ Len(t) = k + 1 /\ t[k + 1] = m /\ \A i \in 1..k : t[i] = q[i]
    BY <1>1, <1>2, <1>3
  <1>5. t \in [1..(k + 1) -> Range(t)]
    BY <1>4 DEF Range
  <1>6. t \in Seq(Range(t))
    BY <1>5, FunctionIsSeq
  <1>7. DOMAIN t = 1..(k + 1) /\ DOMAIN q = 1..k
    BY <1>2, <1>3, <1>4
  <1>8. DOMAIN t = (DOMAIN q) \cup {k + 1}
    BY <1>7
  <1> QED
    BY <1>1, <1>3, <1>4, <1>6, <1>7, <1>8

\* What does not depend on channels
LEMMA PeersStay ==
  ASSUME NEW k, NEW U, Evolves(k, U)
  PROVE  /\ DOMAIN pcs' = DOMAIN pcs
         /\ \A n \in DOMAIN pcs : pcs'[n].uid = pcs[n].uid /\ pcs'[n].stream = pcs[n].stream
                                   /\ pcs'[n].desc = pcs[n].desc
         /\ Offered => Offered'
         /\ push_streams' = push_streams /\ Latest => Latest'
         /\ \A msg : \A j \in DOMAIN pcs : SentBy(msg, j) => SentBy(msg, j)'
  <1>1. DOMAIN pcs' = DOMAIN pcs
        /\ \A n \in DOMAIN pcs : pcs'[n].uid = pcs[n].uid /\ pcs'[n].stream = pcs[n].stream
                                   /\ pcs'[n].desc = pcs[n].desc
    BY DEF Evolves, PeerStep
  <1>2. Offered => Offered'
    BY <1>1 DEF Offered
  <1>3. push_streams' = push_streams /\ Latest => Latest'
    BY <1>1 DEF Latest
  <1>4. \A msg : \A j \in DOMAIN pcs : SentBy(msg, j) => SentBy(msg, j)'
    BY <1>1 DEF SentBy
  <1> QED
    BY <1>1, <1>2, <1>3, <1>4

\* The peers known from a step that gives the k-th peer connection a ufrag
LEMMA PeersStep ==
  ASSUME Shape, Peers, NEW k, NEW U, Evolves(k, U),
         k \in DOMAIN pcs => \A i \in Nat : Remote(i).ufrag \in U => Earlier(i, k)
  PROVE  Peers'
  <1> SUFFICES ASSUME NEW n \in DOMAIN pcs', NEW mid \in DOMAIN pcs'[n].channels, NEW i \in Nat,
                      pcs'[n].channels[mid].remote.ufrag = Remote(i).ufrag
               PROVE  Earlier(i, n)'
    BY DEF Peers, Remote
  <1>1. n \in DOMAIN pcs /\ PeerStep(pcs[n], pcs'[n], IF n = k THEN U ELSE {})
    BY DEF Evolves
  <1>2. mid \in DOMAIN pcs[n].channels
        /\ ChannelStep(pcs[n].channels[mid], pcs'[n].channels[mid], IF n = k THEN U ELSE {})
    BY <1>1 DEF PeerStep
  <1>3. Earlier(i, n)
    <2>1. CASE pcs'[n].channels[mid].remote = pcs[n].channels[mid].remote
      BY <2>1, <1>1, <1>2 DEF Peers
    <2>2. CASE pcs'[n].channels[mid].remote.ufrag \in (IF n = k THEN U ELSE {})
      BY <2>2, <1>1
    <2> QED
      BY <2>1, <2>2, <1>2 DEF ChannelStep
  <1>4. i \in DOMAIN pcs /\ DOMAIN pcs' = DOMAIN pcs
    <2>1. DOMAIN pcs = 1..Len(pcs) /\ Len(pcs) \in Nat
      BY DEF Shape
    <2>2. i \in 1..n
      BY <1>3 DEF Earlier
    <2> QED
      BY <1>1, <2>1, <2>2, PeersStay
  <1> QED
    BY <1>1, <1>3, <1>4, PeersStay DEF Earlier

LEMMA AnswerStays ==
  ASSUME Shape, AnswerInv, Evolves(0, {}), push_streams' = push_streams, Messages'
  PROVE  AnswerInv'
  <1>1. Peers'
    BY PeersStep DEF AnswerInv
  <1> QED
    BY <1>1, PeersStay DEF AnswerInv

LEMMA SameMessages ==
  ASSUME Messages, NEW k, NEW U, Evolves(k, U),
         queue' = queue \/ (queue # << >> /\ queue' = Tail(queue))
  PROVE  Messages'
  <1>1. PICK q : q = queue'
    OBVIOUS
  <1>2. /\ q \in Seq(Range(q))
        /\ \A i \in DOMAIN q : \E m \in DOMAIN queue : q[i] = queue[m]
    <2>1. CASE queue' = queue
      BY <1>1, <2>1 DEF Messages
    <2>2. CASE queue # << >> /\ queue' = Tail(queue)
      <3>1. PICK p : p = queue
        OBVIOUS
      <3>2. p \in Seq(Range(p)) /\ p # << >> /\ q = Tail(p)
        BY <1>1, <2>2, <3>1 DEF Messages
      <3> QED
        BY <3>1, <3>2, RestInSeq
    <2> QED
      BY <2>1, <2>2
  <1>3. \A i \in DOMAIN q : /\ q[i].stream \in Stream
                            /\ q[i].cmd = "ANSWER" => \E j \in DOMAIN pcs' : SentBy(q[i], j)'
    BY <1>2, PeersStay DEF Messages
  <1> QED
    BY <1>1, <1>2, <1>3 DEF Messages, SentBy

LEMMA ForwardMessages ==
  ASSUME Shape, AnswerInv, NEW msg, NEW expired, Forward(msg, expired),
         msg = [cmd |-> msg.cmd, uid |-> msg.uid, stream |-> msg.stream, media |-> msg.media,
                sdp |-> msg.sdp, cert |-> msg.cert],
         msg.stream \in Stream,
         msg.cmd = "ANSWER" => \E j \in DOMAIN pcs : SentBy(msg, j)
  PROVE  AnswerInv'
  <1>1. PICK m : m = [msg EXCEPT !.cert = cert']
    OBVIOUS
  <1>2. m.cmd = msg.cmd /\ m.uid = msg.uid /\ m.stream = msg.stream /\ m.sdp = msg.sdp
    BY <1>1
  <1>3. PICK q : q = queue'
    OBVIOUS
  <1>4. PICK p : p = queue
    OBVIOUS
  <1>5. q = Append(p, m) /\ p \in Seq(Range(p))
    BY <1>1, <1>3, <1>4 DEF Forward, AnswerInv, Messages
  <1>6. /\ q \in Seq(Range(q)) /\ DOMAIN q = (DOMAIN p) \cup {Len(p) + 1} /\ q[Len(p) + 1] = m
        /\ \A i \in DOMAIN p : q[i] = p[i]
    BY <1>5, LongerInSeq
  <1>7. pcs' = pcs /\ push_streams' = push_streams
    BY DEF Forward
  <1>8. Evolves(0, {})
    BY <1>7, NothingEvolves
  <1>9. \A i \in DOMAIN q : /\ q[i].stream \in Stream
                            /\ q[i].cmd = "ANSWER" => \E j \in DOMAIN pcs : SentBy(q[i], j)
    <2>1. \A i \in DOMAIN p : /\ p[i].stream \in Stream
                              /\ p[i].cmd = "ANSWER" => \E j \in DOMAIN pcs : SentBy(p[i], j)
      BY <1>4 DEF AnswerInv, Messages
    <2>2. /\ m.stream \in Stream
          /\ m.cmd = "ANSWER" => \E j \in DOMAIN pcs : SentBy(m, j)
      BY <1>2 DEF SentBy
    <2> QED
      BY <1>6, <2>1, <2>2
  <1>10. Messages'
    BY <1>3, <1>6, <1>7, <1>9 DEF Messages, SentBy
  <1> QED
    BY <1>7, <1>8, <1>10, AnswerStays

LEMMA PushAnswerInv ==
  ASSUME Shape, AnswerInv, NEW fails, NEW intact, NEW crash, ProcessPush(fails, intact, crash)
  PROVE  AnswerInv'
  <1>1. PICK bound : pcs' = Append(pcs, NewPeerConnection(Len(pcs) + 1, Head(queue), intact, fails, bound))
    BY DEF ProcessPush
  <1>2. PICK pc : pc = NewPeerConnection(Len(pcs) + 1, Head(queue), intact, fails, bound)
    OBVIOUS
  <1>3. PICK p : p = pcs
    OBVIOUS
  <1>4. PICK q : q = pcs'
    OBVIOUS
  <1>5. PICK k : k = Len(p) + 1
    OBVIOUS
  <1>6. q = Append(p, pc) /\ p \in Seq(Range(p))
    BY <1>1, <1>2, <1>3, <1>4 DEF Shape
  <1>7. /\ DOMAIN q = (DOMAIN p) \cup {k} /\ q[k] = pc /\ DOMAIN p = 1..(k - 1) /\ k \in Nat \ {0}
        /\ \A n \in DOMAIN p : q[n] = p[n]
    <2>1. Len(p) \in Nat /\ k - 1 = Len(p) /\ k \in Nat \ {0}
      BY <1>5, <1>6
    <2> QED
      BY <2>1, <1>5, <1>6, LongerInSeq
  <1>8. k \notin DOMAIN p
    BY <1>7
  <1>9. PICK msg : msg = Head(queue)
    OBVIOUS
  <1>10. /\ pc.uid = msg.uid /\ pc.stream = msg.stream /\ pc.desc.contents \in Mids \cup {<< >>}
         /\ \A mid \in DOMAIN pc.channels : pc.channels[mid].remote = NoParams
    BY <1>2, <1>9, NewPeerSent
  <1>11. /\ queue' = Tail(queue) /\ queue # << >>
         /\ push_streams' = [push_streams EXCEPT ![msg.stream] = k]
    BY <1>3, <1>5, <1>9 DEF ProcessPush
  <1>12. PICK l : l = queue
    OBVIOUS
  <1>13. /\ msg \in Range(l) /\ Tail(l) \in Seq(Range(Tail(l)))
         /\ \A i \in DOMAIN Tail(l) : i + 1 \in DOMAIN l /\ Tail(l)[i] = l[i + 1]
    <2>1. l \in Seq(Range(l)) /\ l # << >> /\ msg = Head(l)
      BY <1>9, <1>11, <1>12 DEF AnswerInv, Messages
    <2>2. 1 \in DOMAIN l /\ Head(l) = l[1]
      BY <2>1, RestInSeq
    <2> QED
      BY <2>1, <2>2, RestInSeq DEF Range
  <1>14. msg.stream \in Stream
    BY <1>12, <1>13 DEF AnswerInv, Messages, Range
  <1>15. Messages'
    <2>1. \A m : \A j \in DOMAIN p : SentBy(m, j) => SentBy(m, j)'
      BY <1>3, <1>4, <1>7 DEF SentBy
    <2>2. \A i \in DOMAIN Tail(l) :
            /\ Tail(l)[i].stream \in Stream
            /\ Tail(l)[i].cmd = "ANSWER" => \E j \in DOMAIN p : SentBy(Tail(l)[i], j)
      BY <1>3, <1>12, <1>13 DEF AnswerInv, Messages
    <2>3. PICK t : t = Tail(l)
      OBVIOUS
    <2>4. \A i \in DOMAIN t :
            /\ t[i].stream \in Stream
            /\ t[i].cmd = "ANSWER" => \E j \in DOMAIN q : SentBy(t[i], j)'
      BY <2>1, <2>2, <2>3, <1>7
    <2>5. queue' = t
      BY <2>3, <1>11, <1>12
    <2> QED
      BY <2>3, <2>4, <2>5, <1>4, <1>13 DEF Messages, SentBy
  <1>16. Offered'
    BY <1>3, <1>4, <1>7, <1>10 DEF AnswerInv, Offered
  <1>17. Latest'
    <2>1. PICK r : r = push_streams
      OBVIOUS
    <2>2. PICK t : t = push_streams'
      OBVIOUS
    <2>3. /\ t = [r EXCEPT ![msg.stream] = k] /\ r = [s \in Stream |-> r[s]]
      BY <1>11, <2>1, <2>2 DEF AnswerInv, Latest
    <2>4. t = [s \in Stream |-> t[s]] /\ \A s \in Stream : t[s] = IF s = msg.stream THEN k ELSE r[s]
      BY <2>3, <1>14
    <2>5. /\ \A s \in Stream : r[s] # 0 => r[s] \in DOMAIN p /\ p[r[s]].stream = s
          /\ \A n \in DOMAIN p : p[n].stream \in Stream /\ n <= r[p[n].stream]
      BY <1>3, <2>1 DEF AnswerInv, Latest
    <2>6. \A s \in Stream : t[s] # 0 => t[s] \in DOMAIN q /\ q[t[s]].stream = s
      BY <2>4, <2>5, <1>7, <1>10
    <2>7. \A n \in DOMAIN q : q[n].stream \in Stream /\ n <= t[q[n].stream]
      <3>1. ASSUME NEW n \in DOMAIN p PROVE q[n].stream \in Stream /\ n <= t[q[n].stream]
        BY <3>1, <2>4, <2>5, <1>7
      <3>2. q[k].stream \in Stream /\ k <= t[q[k].stream]
        BY <2>4, <1>7, <1>10, <1>14
      <3> QED
        BY <3>1, <3>2, <1>7
    <2> QED
      BY <2>2, <2>4, <2>6, <2>7, <1>4 DEF Latest
  <1>18. Peers'
    <2>1. \A i \in Nat : Remote(i).ufrag # NoParams.ufrag
      BY DEF Remote, NoParams, Empty
    <2> SUFFICES ASSUME NEW n \in DOMAIN q, NEW mid \in DOMAIN q[n].channels, NEW i \in Nat,
                        q[n].channels[mid].remote.ufrag = Remote(i).ufrag
                 PROVE  i \in 1..n /\ q[i].uid = q[n].uid /\ q[i].stream = q[n].stream
      BY <1>4 DEF Peers, Earlier, Remote
    <2>2. n # k
      BY <2>1, <1>7, <1>10
    <2>3. n \in DOMAIN p /\ q[n] = p[n]
      BY <2>2, <1>7
    <2>4. i \in 1..n /\ p[i].uid = p[n].uid /\ p[i].stream = p[n].stream
      BY <2>3, <1>3 DEF AnswerInv, Peers, Earlier
    <2>5. i \in DOMAIN p
      BY <2>3, <2>4, <1>7
    <2> QED
      BY <2>3, <2>4, <2>5, <1>7
  <1> QED
    BY <1>15, <1>16, <1>17, <1>18 DEF AnswerInv

LEMMA ProcessAnswerInv ==
  ASSUME Shape, AnswerInv, ProcessAnswer
  PROVE  AnswerInv'
  <1>0. PICK msg, desc : msg = Head(queue) /\ desc = ParseAnswer(msg.sdp)
    OBVIOUS
  <1>1. queue # << >> /\ queue' = Tail(queue) /\ push_streams' = push_streams /\ msg.cmd = "ANSWER"
    BY <1>0 DEF ProcessAnswer
  <1>2. \/ Evolves(0, {})
        \/ \E n, U : /\ MayAnswer(msg) /\ desc # Nil /\ n = push_streams[msg.stream]
                     /\ U = Ufrags(desc) /\ Evolves(n, U)
    BY <1>0, ProcessAnswerEvolves
  <1>3. CASE Evolves(0, {})
    <2>1. Messages'
      BY <1>1, <1>3, SameMessages DEF AnswerInv
    <2> QED
      BY <2>1, <1>1, <1>3, AnswerStays
  <1>4. ASSUME NEW n, NEW U, MayAnswer(msg), desc # Nil, n = push_streams[msg.stream],
               U = Ufrags(desc), Evolves(n, U)
        PROVE  AnswerInv'
    <2>1. Messages'
      BY <1>1, <1>4, SameMessages DEF AnswerInv
    <2>2. PICK j \in DOMAIN pcs : SentBy(msg, j)
      <3>1. PICK p : p = queue
        OBVIOUS
      <3>2. p \in Seq(Range(p)) /\ p # << >>
        BY <3>1, <1>1 DEF AnswerInv, Messages
      <3>3. 1 \in DOMAIN p /\ Head(p) = p[1]
        BY <3>2, RestInSeq
      <3> QED
        BY <3>1, <3>3, <1>0, <1>1 DEF AnswerInv, Messages
    <2>3. n # 0 /\ msg.uid = pcs[n].uid
      BY <1>4 DEF MayAnswer
    <2>4. msg.uid = pcs[j].uid /\ msg.stream = pcs[j].stream /\ TextFrom(msg.sdp, j)
      BY <2>2 DEF SentBy
    <2>5. msg.stream \in Stream /\ j <= n
      BY <2>4, <1>4 DEF AnswerInv, Latest
    <2>6. n \in DOMAIN pcs /\ pcs[n].stream = msg.stream
      BY <2>3, <2>5, <1>4 DEF AnswerInv, Latest
    <2>7. U \subseteq TextUfrags(j)
      BY <1>0, <1>4, <2>4, UfragsOfText
    <2>8. DOMAIN pcs = 1..Len(pcs) /\ Len(pcs) \in Nat
      BY DEF Shape
    <2>9. ASSUME NEW i \in Nat, Remote(i).ufrag \in U PROVE Earlier(i, n)
      <3>1. j \in Nat /\ j \in 1..n
        BY <2>5, <2>6, <2>8
      <3>2. i = j
        BY <3>1, <2>7, <2>9, RemoteUfrags
      <3> QED
        BY <3>1, <3>2, <2>3, <2>4, <2>6 DEF Earlier
    <2>10. Peers'
      BY <1>4, <2>9, PeersStep DEF AnswerInv
    <2> QED
      BY <1>1, <1>4, <2>1, <2>10, PeersStay DEF AnswerInv
  <1> QED
    BY <1>2, <1>3, <1>4

LEMMA AnswerInit == Init => AnswerInv
  <1> SUFFICES ASSUME Init PROVE AnswerInv
    OBVIOUS
  <1>1. queue = << >> /\ pcs = << >> /\ push_streams = [s \in Stream |-> 0]
    BY DEF Init
  <1>2. queue \in Seq(Range(queue)) /\ DOMAIN queue = {} /\ DOMAIN pcs = {}
    BY <1>1
  <1>3. push_streams = [s \in Stream |-> push_streams[s]] /\ \A s \in Stream : push_streams[s] = 0
    BY <1>1
  <1> QED
    BY <1>2, <1>3 DEF AnswerInv, Messages, Latest, Offered, Peers

LEMMA AnswerStep == SessionInv /\ AnswerInv /\ [Next]_vars => AnswerInv'
  <1> SUFFICES ASSUME SessionInv, AnswerInv, [Next]_vars PROVE AnswerInv'
    OBVIOUS
  <1>0. Shape
    BY DEF SessionInv
  <1>1. ASSUME Evolves(0, {}), queue' = queue, push_streams' = push_streams PROVE AnswerInv'
    <2>1. Messages'
      BY <1>1, SameMessages DEF AnswerInv
    <2> QED
      BY <2>1, <1>0, <1>1, AnswerStays
  <1>2. ASSUME UNCHANGED <<pcs, queue, push_streams>> PROVE AnswerInv'
    BY <1>0, <1>1, <1>2, NothingEvolves
  <1>3. ASSUME NEW uid \in Uid, NEW s \in Stream, NEW media \in Media, NEW expired \in BOOLEAN,
               ForwardPush(uid, s, media, expired)
        PROVE  AnswerInv'
    <2> DEFINE msg == [cmd |-> "PUSH", uid |-> uid, stream |-> s, media |-> media,
                       sdp |-> Nil, cert |-> 0]
    <2>1. Forward(msg, expired)
      BY <1>3 DEF ForwardPush
    <2>2. /\ msg.cmd = "PUSH" /\ msg.stream = s
          /\ msg = [cmd |-> msg.cmd, uid |-> msg.uid, stream |-> msg.stream, media |-> msg.media,
                    sdp |-> msg.sdp, cert |-> msg.cert]
      OBVIOUS
    <2> HIDE DEF msg
    <2> QED
      BY <2>1, <2>2, <1>0, ForwardMessages
  <1>4. ASSUME NEW n \in DOMAIN pcs, NEW layout \in Layout, NEW expired \in BOOLEAN,
               ForwardAnswer(n, layout, expired)
        PROVE  AnswerInv'
    <2> DEFINE msg == [cmd |-> "ANSWER", uid |-> pcs[n].uid, stream |-> pcs[n].stream,
                       media |-> {}, sdp |-> AnswerText(n, layout), cert |-> 0]
    <2>1. Forward(msg, expired)
      BY <1>4 DEF ForwardAnswer
    <2>2. /\ msg.uid = pcs[n].uid /\ msg.stream = pcs[n].stream /\ msg.sdp = AnswerText(n, layout)
          /\ msg = [cmd |-> msg.cmd, uid |-> msg.uid, stream |-> msg.stream, media |-> msg.media,
                    sdp |-> msg.sdp, cert |-> msg.cert]
      OBVIOUS
    <2> HIDE DEF msg
    <2>3. SentBy(msg, n)
      BY <2>2, AnswerIsFrom DEF SentBy, AnswerInv, Offered
    <2>4. msg.stream \in Stream
      BY <2>2 DEF AnswerInv, Latest
    <2>5. PICK m : m = msg
      OBVIOUS
    <2> QED
      BY <2>1, <2>2, <2>3, <2>4, <2>5, <1>0, ForwardMessages
  <1>5. CASE RenewElsewhere
    BY <1>2, <1>5 DEF RenewElsewhere
  <1>6. ASSUME NEW fails \in SUBSET Network, NEW intact, NEW crash \in BOOLEAN,
               ProcessPush(fails, intact, crash)
        PROVE  AnswerInv'
    BY <1>0, <1>6, PushAnswerInv
  <1>7. CASE ProcessAnswer
    BY <1>0, <1>7, ProcessAnswerInv
  <1>8. ASSUME NEW n \in DOMAIN pcs, NEW mid \in DOMAIN pcs[n].channels, NEW x \in Network \X Addr,
               NEW check \in Check, ReceiveRequest(n, mid, x, check)
        PROVE  AnswerInv'
    BY SMTT(90), <1>0, <1>1, <1>8, ReceiveRequestEvolves DEF ReceiveRequest
  <1>9. ASSUME NEW n \in DOMAIN pcs, NEW mid \in DOMAIN pcs[n].channels, NEW x \in Network \X Addr,
               NEW type, ReceiveResponse(n, mid, x, type)
        PROVE  AnswerInv'
    BY <1>2, <1>9 DEF ReceiveResponse
  <1>10. ASSUME NEW n \in DOMAIN pcs, NEW mid \in DOMAIN pcs[n].channels, NEW x \in Network \X Addr,
                NEW packet \in Packet, NEW crash \in BOOLEAN, ReceivePacket(n, mid, x, packet, crash)
         PROVE  AnswerInv'
    BY <1>0, <1>1, <1>10, ReceivePacketEvolves DEF ReceivePacket
  <1>11. CASE UNCHANGED vars
    BY <1>2, <1>11 DEF vars
  <1> QED
    BY <1>3, <1>4, <1>5, <1>6, <1>7, <1>8, <1>9, <1>10, <1>11 DEF Next, Datagram

\* Answers that wait were made by the peer of some push, the stream manager
\* knows the last push of each stream, and a channel has the ufrag of a peer
\* of its user and stream, or none.
THEOREM AnswerInvariant == Spec => []AnswerInv
  BY AnswerInit, AnswerStep, SessionInvariant, PTL DEF Spec

\* set_answer: a foreign ufrag is that of an earlier push of the same user and
\* stream.
THEOREM AnswersReachTheirPush == Spec => []AnswerReachesItsPush
  <1>1. SessionInv /\ AnswerInv => AnswerReachesItsPush
    <2> SUFFICES ASSUME SessionInv, AnswerInv, NEW n \in DOMAIN pcs, NEW mid \in DOMAIN pcs[n].channels,
                        NEW k \in DOMAIN pcs \ {n},
                        Channel(n, mid).remote.ufrag = Remote(k).ufrag
                 PROVE  k < n /\ pcs[k].uid = pcs[n].uid /\ pcs[k].stream = pcs[n].stream
      BY DEF AnswerReachesItsPush
    <2>1. k \in Nat /\ n \in Nat
      <3>1. DOMAIN pcs = 1..Len(pcs)
        BY DEF SessionInv, Shape
      <3> QED
        BY <3>1
    <2>2. Earlier(k, n)
      BY <2>1 DEF AnswerInv, Peers, Channel
    <2> QED
      BY <2>1, <2>2 DEF Earlier
  <1> QED
    BY <1>1, SessionInvariant, AnswerInvariant, PTL

-----------------------------------------------------------------------------
(* Sums *)

Sums(f, s, n) == f = [k \in 0..n |-> IF k = 0 THEN 0 ELSE f[k - 1] + s[k]]

LEMMA SumsAt ==
  ASSUME NEW f, NEW s, NEW n \in Nat, Sums(f, s, n)
  PROVE  f[0] = 0 /\ \A k \in 1..n : f[k] = f[k - 1] + s[k]
  <1>1. \A k \in 0..n : f[k] = IF k = 0 THEN 0 ELSE f[k - 1] + s[k]
    BY DEF Sums
  <1> QED
    BY <1>1

LEMMA SumExists == ASSUME NEW s, NEW n \in Nat PROVE \E f : Sums(f, s, n)
  <1> DEFINE Bad == {k \in Nat : ~ \E f : Sums(f, s, k)}
  <1> SUFFICES ASSUME Bad # {} PROVE FALSE
    OBVIOUS
  <1>1. PICK k \in Bad : \A i \in Bad : k <= i
    BY LeastNat
  <1>2. CASE k = 0
    <2>1. Sums([i \in 0..0 |-> 0], s, 0)
      <3>1. \A i \in 0..0 : i = 0
        OBVIOUS
      <3> QED
        BY <3>1 DEF Sums
    <2> QED
      BY <1>2, <2>1
  <1>3. CASE k # 0
    <2>1. k \in Nat /\ k - 1 \in Nat /\ k - 1 \notin Bad
      BY <1>1, <1>3
    <2>2. PICK f : Sums(f, s, k - 1)
      BY <2>1
    <2> DEFINE last == f[k - 1] + s[k]
               g == [i \in 0..k |-> IF i = k THEN last ELSE f[i]]
    <2>3. \A i \in 0..(k - 1) : f[i] = IF i = 0 THEN 0 ELSE f[i - 1] + s[i]
      BY <2>2 DEF Sums
    <2>4. \A i \in 0..k : g[i] = IF i = k THEN last ELSE f[i]
      OBVIOUS
    <2>5. \A i \in 0..k : g[i] = IF i = 0 THEN 0 ELSE g[i - 1] + s[i]
      <3> SUFFICES ASSUME NEW i \in 0..k
                   PROVE  g[i] = IF i = 0 THEN 0 ELSE g[i - 1] + s[i]
        OBVIOUS
      <3>1. CASE i = k
        <4>1. k - 1 \in 0..k /\ k - 1 # k
          BY <2>1
        <4>2. g[i - 1] = f[k - 1] /\ g[i] = last
          BY <3>1, <4>1, <2>4
        <4> QED
          BY <3>1, <4>2, <1>3
      <3>2. CASE i # k
        <4>1. i \in 0..(k - 1) /\ (i # 0 => i - 1 \in 0..k /\ i - 1 # k)
          BY <2>1, <3>2
        <4>2. g[i] = f[i] /\ (i # 0 => g[i - 1] = f[i - 1])
          BY <3>2, <4>1, <2>4
        <4> HIDE DEF g
        <4> QED
          BY <4>1, <4>2, <2>3
      <3> QED
        BY <3>1, <3>2
    <2>6. g = [i \in 0..k |-> g[i]]
      OBVIOUS
    <2> HIDE DEF g
    <2>7. Sums(g, s, k)
      BY <2>5, <2>6 DEF Sums
    <2> QED
      BY <2>7
  <1> QED
    BY <1>2, <1>3

LEMMA TotalIs ==
  ASSUME NEW s, Len(s) \in Nat
  PROVE  \E f : Sums(f, s, Len(s)) /\ Total(s) = f[Len(s)]
  <1> DEFINE f == CHOOSE g : Sums(g, s, Len(s))
  <1>1. Sums(f, s, Len(s))
    BY SumExists, Zenon
  <1>2. Total(s) = f[Len(s)]
    BY DEF Total, Sums
  <1> QED
    BY <1>1, <1>2

\* What adds up the same is the same.
LEMMA SumUnique ==
  ASSUME NEW f, NEW s, NEW m \in Nat, Sums(f, s, m),
         NEW g, NEW t, NEW n \in Nat, Sums(g, t, n),
         NEW k \in Nat, k <= m, k <= n, \A i \in 1..k : s[i] = t[i]
  PROVE  f[k] = g[k]
  <1> DEFINE Bad == {i \in 0..k : f[i] # g[i]}
  <1> SUFFICES ASSUME Bad # {} PROVE FALSE
    OBVIOUS
  <1>1. Bad \subseteq Nat
    OBVIOUS
  <1> HIDE DEF Bad
  <1>2. PICK i \in Bad : \A j \in Bad : i <= j
    BY <1>1, LeastNat
  <1>3. i \in 0..k /\ f[i] # g[i]
    BY DEF Bad
  <1>4. f[0] = 0 /\ g[0] = 0
    BY SumsAt
  <1>5. i \in 1..k /\ i - 1 \in 0..k /\ i - 1 \notin Bad
    BY <1>2, <1>3, <1>4
  <1>6. f[i - 1] = g[i - 1]
    BY <1>5 DEF Bad
  <1>7. f[i] = f[i - 1] + s[i] /\ g[i] = g[i - 1] + t[i]
    BY <1>5, SumsAt
  <1> QED
    BY <1>3, <1>5, <1>6, <1>7

LEMMA TotalEmpty == Total(<< >>) = 0
  <1>1. PICK f : Sums(f, << >>, Len(<< >>)) /\ Total(<< >>) = f[Len(<< >>)]
    BY TotalIs
  <1> QED
    BY <1>1, SumsAt

LEMMA TotalAppend ==
  ASSUME NEW S, NEW s \in Seq(S), NEW x \in S
  PROVE  Total(Append(s, x)) = Total(s) + x
  <1> DEFINE t == Append(s, x)
             n == Len(s)
  <1>1. n \in Nat /\ Len(t) = n + 1 /\ t[n + 1] = x /\ \A i \in 1..n : s[i] = t[i]
    OBVIOUS
  <1> HIDE DEF t, n
  <1>2. PICK f : Sums(f, s, n) /\ Total(s) = f[n]
    BY <1>1, TotalIs DEF n
  <1>3. PICK g : Sums(g, t, n + 1) /\ Total(t) = g[n + 1]
    BY <1>1, TotalIs
  <1>4. f[n] = g[n]
    BY <1>1, <1>2, <1>3, SumUnique
  <1>5. g[n + 1] = g[(n + 1) - 1] + t[n + 1]
    BY <1>1, <1>3, SumsAt
  <1>6. (n + 1) - 1 = n
    BY <1>1
  <1>7. Total(t) = Total(s) + x
    BY <1>1, <1>2, <1>3, <1>4, <1>5, <1>6
  <1> QED
    BY <1>7 DEF t

\* A sum of multiples of four is one.
LEMMA TotalFour ==
  ASSUME NEW s \in Seq(Nat), \A i \in 1..Len(s) : s[i] % 4 = 0
  PROVE  Total(s) \in Nat /\ Total(s) % 4 = 0
  <1> DEFINE n == Len(s)
  <1>1. n \in Nat /\ \A i \in 1..n : s[i] \in Nat /\ s[i] % 4 = 0
    OBVIOUS
  <1>2. PICK f : Sums(f, s, n) /\ Total(s) = f[n]
    BY TotalIs
  <1> HIDE DEF n
  <1> DEFINE Bad == {i \in 0..n : ~ (f[i] \in Nat /\ f[i] % 4 = 0)}
  <1>3. Bad = {}
    <2> SUFFICES ASSUME Bad # {} PROVE FALSE
      OBVIOUS
    <2>1. Bad \subseteq Nat
      BY <1>1
    <2> HIDE DEF Bad
    <2>2. PICK i \in Bad : \A j \in Bad : i <= j
      BY <2>1, LeastNat
    <2>3. i \in 0..n /\ ~ (f[i] \in Nat /\ f[i] % 4 = 0)
      BY DEF Bad
    <2>4. i # 0
      BY <2>3, <1>1, <1>2, SumsAt
    <2>5. i \in 1..n /\ i - 1 \in 0..n /\ i - 1 \notin Bad
      BY <1>1, <2>2, <2>3, <2>4
    <2>6. f[i - 1] \in Nat /\ f[i - 1] % 4 = 0
      BY <2>5 DEF Bad
    <2>7. f[i] = f[i - 1] + s[i]
      BY <2>5, <1>1, <1>2, SumsAt
    <2>8. s[i] \in Nat /\ s[i] % 4 = 0
      BY <2>5, <1>1
    <2>9. \A a, b \in Nat : a % 4 = 0 /\ b % 4 = 0 => a + b \in Nat /\ (a + b) % 4 = 0
      OBVIOUS
    <2> QED
      BY <2>3, <2>6, <2>7, <2>8, <2>9
  <1>4. n \in 0..n
    BY <1>1
  <1> QED
    BY <1>2, <1>3, <1>4

\* The first numbers of a sequence add up to no more than all.
LEMMA TotalPrefix ==
  ASSUME NEW s \in Seq(Nat), NEW k \in 0..Len(s)
  PROVE  Total(SubSeq(s, 1, k)) <= Total(s)
  <1> DEFINE n == Len(s)
             t == SubSeq(s, 1, k)
  <1>1. n \in Nat /\ k \in Nat /\ k <= n /\ \A i \in 1..n : s[i] \in Nat
    OBVIOUS
  <1>2. Len(t) = k /\ \A i \in 1..k : t[i] = s[i]
    <2>1. t \in Seq(Nat) /\ Len(t) = k
      BY <1>1, SubSeqProperties
    <2> QED
      BY <2>1, <1>1, SubSeqProperties
  <1>3. PICK f : Sums(f, s, n) /\ Total(s) = f[n]
    BY <1>1, TotalIs
  <1> HIDE DEF n, t
  <1>4. PICK g : Sums(g, t, k) /\ Total(t) = g[k]
    BY <1>1, <1>2, TotalIs
  <1>5. f[k] = g[k]
    BY <1>1, <1>2, <1>3, <1>4, SumUnique
  <1> DEFINE Low == {i \in 0..n : ~ (f[i] \in Nat)}
             Bad == {i \in k..n : ~ (f[k] <= f[i])}
  <1>6. Low = {}
    <2> SUFFICES ASSUME Low # {} PROVE FALSE
      OBVIOUS
    <2>1. Low \subseteq Nat
      BY <1>1
    <2> HIDE DEF Low
    <2>2. PICK i \in Low : \A j \in Low : i <= j
      BY <2>1, LeastNat
    <2>3. i \in 0..n /\ ~ (f[i] \in Nat)
      BY DEF Low
    <2>4. i # 0
      BY <2>3, <1>1, <1>3, SumsAt
    <2>5. i \in 1..n /\ i - 1 \in 0..n /\ i - 1 \notin Low
      BY <1>1, <2>2, <2>3, <2>4
    <2>6. f[i - 1] \in Nat
      BY <2>5 DEF Low
    <2>7. f[i] = f[i - 1] + s[i]
      BY <2>5, <1>1, <1>3, SumsAt
    <2> QED
      BY <2>3, <2>5, <2>6, <2>7, <1>1
  <1>7. Bad = {}
    <2> SUFFICES ASSUME Bad # {} PROVE FALSE
      OBVIOUS
    <2>1. Bad \subseteq Nat
      BY <1>1
    <2> HIDE DEF Bad
    <2>2. PICK i \in Bad : \A j \in Bad : i <= j
      BY <2>1, LeastNat
    <2>3. i \in k..n /\ ~ (f[k] <= f[i])
      BY DEF Bad
    <2>4. f[k] \in Nat /\ f[i] \in Nat
      BY <2>3, <1>1, <1>6
    <2>5. i # k
      BY <2>3, <2>4
    <2>6. i \in 1..n /\ i - 1 \in k..n /\ i - 1 \notin Bad /\ i - 1 \in 0..n
      BY <1>1, <2>2, <2>3, <2>5
    <2>7. f[k] <= f[i - 1] /\ f[i - 1] \in Nat
      BY <2>6, <1>6 DEF Bad
    <2>8. f[i] = f[i - 1] + s[i] /\ s[i] \in Nat
      BY <2>6, <1>1, <1>3, SumsAt
    <2> QED
      BY <2>3, <2>4, <2>7, <2>8
  <1>8. f[k] <= f[n]
    BY <1>1, <1>7
  <1> QED
    BY <1>3, <1>4, <1>5, <1>8 DEF t

-----------------------------------------------------------------------------
(* Sizes *)

\* A sequence of attributes: of their values nothing is said.
IsAttrs(attrs) ==
  /\ attrs \in Seq(Range(attrs))
  /\ \A i \in 1..Len(attrs) : attrs[i].length \in Nat

AttrSize(attr) == 4 + Padded(attr.length)
Sizes(attrs) == [i \in DOMAIN attrs |-> AttrSize(attrs[i])]

LEMMA PaddedIs ==
  ASSUME NEW n \in Nat
  PROVE  /\ Padded(n) \in Nat /\ Padded(n) % 4 = 0 /\ n <= Padded(n) /\ Padded(n) <= n + 3
         /\ Padded(n) = 4 * ((n + 3) \div 4) /\ (n % 4 = 0 => Padded(n) = n)
  BY DEF Padded

LEMMA SizesIs ==
  ASSUME NEW attrs, IsAttrs(attrs)
  PROVE  /\ Sizes(attrs) \in Seq(Nat) /\ Len(Sizes(attrs)) = Len(attrs) /\ Len(attrs) \in Nat
         /\ DOMAIN attrs = 1..Len(attrs)
         /\ \A i \in 1..Len(attrs) : Sizes(attrs)[i] = AttrSize(attrs[i]) /\ Sizes(attrs)[i] % 4 = 0
  <1>1. Len(attrs) \in Nat /\ DOMAIN attrs = 1..Len(attrs)
    BY DEF IsAttrs
  <1>2. \A i \in 1..Len(attrs) : AttrSize(attrs[i]) \in Nat /\ AttrSize(attrs[i]) % 4 = 0
    <2> TAKE i \in 1..Len(attrs)
    <2>1. attrs[i].length \in Nat
      BY DEF IsAttrs
    <2>2. Padded(attrs[i].length) \in Nat /\ Padded(attrs[i].length) % 4 = 0
      BY <2>1, PaddedIs
    <2> QED
      BY <2>2 DEF AttrSize
  <1>3. Sizes(attrs) \in [1..Len(attrs) -> Nat]
    BY <1>1, <1>2 DEF Sizes
  <1>4. \A i \in 1..Len(attrs) : Sizes(attrs)[i] = AttrSize(attrs[i])
    BY <1>1 DEF Sizes
  <1> QED
    BY <1>1, <1>2, <1>3, <1>4

LEMMA RfcSizeIs ==
  ASSUME NEW attrs, IsAttrs(attrs)
  PROVE  /\ RfcSize(attrs) = Total(Sizes(attrs))
         /\ RfcSize(attrs) \in Nat /\ RfcSize(attrs) % 4 = 0
  <1> DEFINE rfc == [i \in DOMAIN attrs |-> 4 + 4 * ((attrs[i].length + 3) \div 4)]
  <1>1. \A i \in DOMAIN attrs : AttrSize(attrs[i]) = 4 + 4 * ((attrs[i].length + 3) \div 4)
    <2> TAKE i \in DOMAIN attrs
    <2>1. attrs[i].length \in Nat
      BY SizesIs DEF IsAttrs
    <2> QED
      BY <2>1, PaddedIs DEF AttrSize
  <1>2. rfc = Sizes(attrs)
    BY <1>1 DEF Sizes
  <1>3. RfcSize(attrs) = Total(Sizes(attrs))
    BY <1>2 DEF RfcSize
  <1> QED
    BY <1>3, SizesIs, TotalFour

LEMMA SizesAppend ==
  ASSUME NEW attrs, IsAttrs(attrs), NEW a, a.length \in Nat
  PROVE  /\ IsAttrs(Append(attrs, a))
         /\ Sizes(Append(attrs, a)) = Append(Sizes(attrs), AttrSize(a))
         /\ AttrSize(a) \in Nat
         /\ Len(Append(attrs, a)) = Len(attrs) + 1 /\ Len(attrs) \in Nat
         /\ Append(attrs, a)[Len(attrs) + 1] = a
         /\ \A i \in 1..Len(attrs) : Append(attrs, a)[i] = attrs[i]
         /\ SubSeq(Append(attrs, a), 1, Len(attrs)) = attrs
  <1> DEFINE n == Len(attrs)
             A == Range(attrs) \cup {a}
             t == Append(attrs, a)
  <1>1. attrs \in Seq(Range(attrs)) /\ \A i \in 1..n : attrs[i].length \in Nat
    BY DEF IsAttrs
  <1>2. attrs \in Seq(A) /\ a \in A
    BY <1>1
  <1>3. n \in Nat /\ t \in Seq(A) /\ Len(t) = n + 1 /\ t[n + 1] = a /\ \A i \in 1..n : t[i] = attrs[i]
    BY <1>2
  <1>4. IsAttrs(t)
    <2>1. t \in Seq(Range(t))
      BY <1>3 DEF Range
    <2>2. \A i \in 1..Len(t) : t[i].length \in Nat
      BY <1>1, <1>3
    <2> QED
      BY <2>1, <2>2 DEF IsAttrs
  <1>5. AttrSize(a) \in Nat
    <2>1. Padded(a.length) \in Nat
      BY PaddedIs
    <2> QED
      BY <2>1 DEF AttrSize
  <1>6. Sizes(t) = Append(Sizes(attrs), AttrSize(a))
    <2>1. Sizes(t) \in Seq(Nat) /\ Len(Sizes(t)) = n + 1 /\ \A i \in 1..(n + 1) : Sizes(t)[i] = AttrSize(t[i])
      BY <1>3, <1>4, SizesIs
    <2>2. Sizes(attrs) \in Seq(Nat) /\ Len(Sizes(attrs)) = n /\ \A i \in 1..n : Sizes(attrs)[i] = AttrSize(attrs[i])
      BY SizesIs
    <2> HIDE DEF t, n
    <2>3. \A i \in 1..(n + 1) : Sizes(t)[i] = Append(Sizes(attrs), AttrSize(a))[i]
      BY <2>1, <2>2, <1>3, <1>5
    <2>4. Append(Sizes(attrs), AttrSize(a)) \in Seq(Nat) /\ Len(Append(Sizes(attrs), AttrSize(a))) = n + 1
      BY <2>2, <1>5
    <2> QED
      BY <2>1, <2>3, <2>4, SeqEqual
  <1>7. SubSeq(t, 1, n) = attrs
    BY <1>2, <1>3
  <1> QED
    BY <1>3, <1>4, <1>5, <1>6, <1>7

LEMMA RfcSizeAppend ==
  ASSUME NEW attrs, IsAttrs(attrs), NEW a, a.length \in Nat
  PROVE  /\ IsAttrs(Append(attrs, a)) /\ AttrSize(a) \in Nat
         /\ RfcSize(Append(attrs, a)) = RfcSize(attrs) + AttrSize(a)
  <1>1. /\ IsAttrs(Append(attrs, a)) /\ AttrSize(a) \in Nat
        /\ Sizes(Append(attrs, a)) = Append(Sizes(attrs), AttrSize(a))
    BY SizesAppend
  <1>2. Total(Append(Sizes(attrs), AttrSize(a))) = Total(Sizes(attrs)) + AttrSize(a)
    BY <1>1, SizesIs, TotalAppend
  <1> QED
    BY <1>1, <1>2, RfcSizeIs

LEMMA NoAttrs == IsAttrs(<< >>) /\ RfcSize(<< >>) = 0
  <1>1. IsAttrs(<< >>)
    BY DEF IsAttrs
  <1>2. Sizes(<< >>) = << >>
    BY <1>1, SizesIs
  <1> QED
    BY <1>1, <1>2, RfcSizeIs, TotalEmpty

\* The sizes of the first attributes
LEMMA Prefix ==
  ASSUME NEW attrs, IsAttrs(attrs), NEW k \in 0..Len(attrs)
  PROVE  /\ IsAttrs(SubSeq(attrs, 1, k)) /\ Len(SubSeq(attrs, 1, k)) = k
         /\ RfcSize(SubSeq(attrs, 1, k)) \in Nat /\ RfcSize(SubSeq(attrs, 1, k)) <= RfcSize(attrs)
         /\ \A i \in 1..k : SubSeq(attrs, 1, k)[i] = attrs[i]
  <1> DEFINE t == SubSeq(attrs, 1, k)
  <1>1. attrs \in Seq(Range(attrs)) /\ Len(attrs) \in Nat
    BY DEF IsAttrs
  <1>2. t \in Seq(Range(attrs)) /\ Len(t) = k /\ \A i \in 1..k : t[i] = attrs[i]
    BY <1>1
  <1>3. IsAttrs(t)
    <2> HIDE DEF t
    <2>1. t \in Seq(Range(t))
      BY <1>2 DEF Range
    <2>2. \A i \in 1..Len(t) : t[i].length \in Nat
      BY <1>1, <1>2 DEF IsAttrs
    <2> QED
      BY <2>1, <2>2 DEF IsAttrs
  <1>4. Sizes(t) = SubSeq(Sizes(attrs), 1, k)
    <2>1. Sizes(t) \in Seq(Nat) /\ Len(Sizes(t)) = k /\ \A i \in 1..k : Sizes(t)[i] = AttrSize(t[i])
      BY <1>2, <1>3, SizesIs
    <2>2. /\ Sizes(attrs) \in Seq(Nat) /\ Len(Sizes(attrs)) = Len(attrs)
          /\ \A i \in 1..Len(attrs) : Sizes(attrs)[i] = AttrSize(attrs[i])
      BY SizesIs
    <2> DEFINE u == SubSeq(Sizes(attrs), 1, k)
    <2>3. u \in Seq(Nat) /\ Len(u) = k /\ \A i \in 1..k : u[i] = Sizes(attrs)[i]
      BY <2>2, <1>1
    <2> HIDE DEF t, u
    <2>4. \A i \in 1..k : Sizes(t)[i] = u[i]
      BY <2>1, <2>2, <2>3, <1>1, <1>2
    <2>5. Sizes(t) = u
      BY <2>1, <2>3, <2>4, SeqEqual
    <2> QED
      BY <2>5 DEF u
  <1>5. RfcSize(t) <= RfcSize(attrs)
    <2>1. Sizes(attrs) \in Seq(Nat) /\ Len(Sizes(attrs)) = Len(attrs)
      BY SizesIs
    <2>2. Total(SubSeq(Sizes(attrs), 1, k)) <= Total(Sizes(attrs))
      BY <2>1, TotalPrefix
    <2>3. RfcSize(t) = Total(Sizes(t)) /\ RfcSize(attrs) = Total(Sizes(attrs))
      BY <1>3, RfcSizeIs
    <2> QED
      BY <2>2, <2>3, <1>4
  <1> QED
    BY <1>2, <1>3, <1>5, RfcSizeIs

LEMMA PrefixSize ==
  ASSUME NEW attrs, IsAttrs(attrs), NEW k \in 1..Len(attrs)
  PROVE  RfcSize(SubSeq(attrs, 1, k)) = RfcSize(SubSeq(attrs, 1, k - 1)) + AttrSize(attrs[k])
  <1> DEFINE s == SubSeq(attrs, 1, k - 1)
             t == SubSeq(attrs, 1, k)
  <1>1. attrs \in Seq(Range(attrs)) /\ Len(attrs) \in Nat /\ attrs[k].length \in Nat
    BY DEF IsAttrs
  <1>2. IsAttrs(s)
    BY <1>1, Prefix
  <1>3. t = Append(s, attrs[k])
    <2>1. s \in Seq(Range(attrs)) /\ Len(s) = k - 1 /\ \A i \in 1..(k - 1) : s[i] = attrs[i]
      BY <1>1
    <2>2. t \in Seq(Range(attrs)) /\ Len(t) = k /\ \A i \in 1..k : t[i] = attrs[i]
      BY <1>1
    <2>3. attrs[k] \in Range(attrs)
      BY <1>1 DEF Range
    <2> HIDE DEF s, t
    <2>4. /\ Append(s, attrs[k]) \in Seq(Range(attrs)) /\ Len(Append(s, attrs[k])) = k
          /\ \A i \in 1..k : Append(s, attrs[k])[i] = t[i]
      BY <2>1, <2>2, <2>3
    <2> QED
      BY <2>2, <2>4, SeqEqual
  <1> QED
    BY <1>1, <1>2, <1>3, RfcSizeAppend

-----------------------------------------------------------------------------
(* Reading a datagram that is framed as the RFC asks *)

LEMMA MinIs ==
  ASSUME NEW S, S \subseteq Nat, S # {}
  PROVE  Min(S) \in S /\ \A y \in S : Min(S) <= y
  BY LeastNat DEF Min

\* A datagram of whole attributes; an integrity and a fingerprint have the
\* sizes of a SHA-1 digest and of a CRC-32.
IsDatagram(d) ==
  /\ IsAttrs(d.attrs) /\ RfcFramed(d)
  /\ \A i \in 1..Len(d.attrs) :
       /\ d.attrs[i].type = "MESSAGE_INTEGRITY" => d.attrs[i].length = 20
       /\ d.attrs[i].type = "FINGERPRINT" => d.attrs[i].length = 4

\* validate_fingerprint accepts a datagram exactly when its fingerprint is
\* the one of RFC 5389, 15.5.
THEOREM FingerprintMatchesRfc ==
  ASSUME NEW d, IsDatagram(d)
  PROVE  ValidateFingerprint(d) <=> RfcFingerprint(d)
  <1> DEFINE n == Len(d.attrs)
  <1>1. /\ IsAttrs(d.attrs) /\ d.length = RfcSize(d.attrs) /\ d.size = 20 + RfcSize(d.attrs)
        /\ \A i \in 1..n : d.attrs[i].type = "FINGERPRINT" => d.attrs[i].length = 4
    BY DEF IsDatagram, RfcFramed
  <1>2. n \in Nat /\ d.attrs \in Seq(Range(d.attrs)) /\ RfcSize(d.attrs) \in Nat /\ RfcSize(d.attrs) % 4 = 0
    BY <1>1, RfcSizeIs DEF IsAttrs
  <1>3. d.attrs # << >> <=> n > 0
    BY <1>2
  <1>4. Front(d.attrs) = SubSeq(d.attrs, 1, n - 1) /\ Last(d.attrs) = d.attrs[n]
    BY DEF Front, Last
  <1>5. CASE ~ (n > 0 /\ d.attrs[n].type = "FINGERPRINT")
    BY <1>3, <1>4, <1>5 DEF ValidateFingerprint, RfcFingerprint
  <1>6. CASE n > 0 /\ d.attrs[n].type = "FINGERPRINT"
    <2>1. n \in 1..n /\ d.attrs[n].length = 4
      BY <1>1, <1>2, <1>6
    <2>2. AttrSize(d.attrs[n]) = 8
      BY <2>1 DEF AttrSize, Padded
    <2>3. RfcSize(SubSeq(d.attrs, 1, n)) = RfcSize(SubSeq(d.attrs, 1, n - 1)) + 8
      BY <2>1, <2>2, <1>1, PrefixSize
    <2>4. RfcSize(SubSeq(d.attrs, 1, n - 1)) \in Nat /\ RfcSize(SubSeq(d.attrs, 1, n)) <= RfcSize(d.attrs)
      BY SMTT(90), <1>1, <1>2, <2>1, Prefix
    <2>5. RfcSize(d.attrs) >= 8
      BY <2>3, <2>4, <1>2
    <2>6. d.size % 4 = 0 /\ d.size >= k_stun_header_size + 8
      BY <1>1, <1>2, <2>5 DEF k_stun_header_size
    <2> HIDE DEF n
    <2> QED
      BY <1>1, <1>3, <1>4, <1>6, <2>1, <2>6 DEF ValidateFingerprint, RfcFingerprint, n
  <1> QED
    BY <1>5, <1>6

\* validate_message_integrity accepts a datagram under a password exactly when
\* its integrity is the one of RFC 5389, 15.4, whatever is before or after it.
THEOREM IntegrityMatchesRfc ==
  ASSUME NEW d, IsDatagram(d), NEW password
  PROVE  ValidateMessageIntegrity(d, password) <=> RfcIntegrity(d, password)
  <1> DEFINE n == Len(d.attrs)
             I == {i \in 1..n : d.attrs[i].type = "MESSAGE_INTEGRITY"}
  <1>1. /\ IsAttrs(d.attrs) /\ d.length = RfcSize(d.attrs) /\ d.size = 20 + RfcSize(d.attrs)
        /\ \A i \in 1..n : d.attrs[i].type = "MESSAGE_INTEGRITY" => d.attrs[i].length = 20
    BY DEF IsDatagram, RfcFramed
  <1>2. /\ n \in Nat /\ d.attrs \in Seq(Range(d.attrs)) /\ DOMAIN d.attrs = 1..n
        /\ RfcSize(d.attrs) \in Nat /\ RfcSize(d.attrs) % 4 = 0
    BY <1>1, RfcSizeIs DEF IsAttrs
  <1>3. d.size % 4 = 0 /\ d.length + k_stun_header_size = d.size
    BY <1>1, <1>2 DEF k_stun_header_size
  <1> DEFINE mi == SelectInSeq(d.attrs, LAMBDA attr : attr.type = "MESSAGE_INTEGRITY")
  <1>4. mi = IF I # {} THEN Min(I) ELSE 0
    BY DEF SelectInSeq
  <1>5. CASE I = {}
    <2>1. mi = 0
      BY <1>4, <1>5
    <2>2. ~ ValidateMessageIntegrity(d, password)
      BY <2>1 DEF ValidateMessageIntegrity
    <2>3. ~ RfcIntegrity(d, password)
      BY <1>2, <1>5 DEF RfcIntegrity
    <2> QED
      BY <2>2, <2>3
  <1>6. CASE I # {}
    <2>1. I \subseteq Nat
      BY <1>2
    <2>2. mi \in I /\ \A j \in I : mi <= j
      BY <1>4, <1>6, <2>1, MinIs
    <2> HIDE DEF mi, n
    <2>3. mi \in 1..n /\ d.attrs[mi].type = "MESSAGE_INTEGRITY" /\ d.attrs[mi].length = 20
      BY <2>2, <1>1
    <2> DEFINE before == SubSeq(d.attrs, 1, mi - 1)
               mi_pos == k_stun_header_size
                           + Total([j \in DOMAIN before |-> k_stun_attribute_header_size
                                                              + Padded(before[j].length)])
               mi_end == mi_pos + k_stun_attribute_header_size + k_stun_message_integrity_size
               length == IF d.size > mi_end THEN mi_end - k_stun_header_size ELSE d.length
    <2>4. ValidateMessageIntegrity(d, password)
            <=> d.attrs[mi].value = ComputeHmac(password, d.type, length, d.id, before)
      <3>1. mi # 0
        BY <2>3, <1>2
      <3> QED
        BY <3>1, <1>3 DEF ValidateMessageIntegrity, mi
    <2>5. IsAttrs(before) /\ RfcSize(before) \in Nat
      BY <1>1, <1>2, <2>3, Prefix DEF n
    <2>6. [j \in DOMAIN before |-> k_stun_attribute_header_size + Padded(before[j].length)] = Sizes(before)
      BY DEF Sizes, AttrSize, k_stun_attribute_header_size
    <2>7. mi_pos = 20 + RfcSize(before)
      BY <2>5, <2>6, RfcSizeIs DEF k_stun_header_size
    <2>8. AttrSize(d.attrs[mi]) = 24
      BY <2>3 DEF AttrSize, Padded
    <2>9. RfcSize(SubSeq(d.attrs, 1, mi)) = RfcSize(before) + 24
      BY <1>1, <2>3, <2>8, PrefixSize DEF n
    <2>10. RfcSize(SubSeq(d.attrs, 1, mi)) <= RfcSize(d.attrs)
      BY <1>1, <1>2, <2>3, Prefix DEF n
    <2> HIDE DEF before, mi_pos
    <2>11. length = RfcSize(SubSeq(d.attrs, 1, mi))
      BY <1>1, <1>2, <2>5, <2>7, <2>9, <2>10
         DEF k_stun_header_size, k_stun_attribute_header_size, k_stun_message_integrity_size
    <2> HIDE DEF length
    <2>12. ASSUME NEW i \in DOMAIN d.attrs, d.attrs[i].type = "MESSAGE_INTEGRITY",
                  \A j \in 1..(i - 1) : d.attrs[j].type # "MESSAGE_INTEGRITY"
           PROVE  i = mi
      <3>1. i \in I
        BY <1>2, <2>12
      <3>2. mi <= i
        BY <2>2, <3>1
      <3>3. ~ (mi \in 1..(i - 1))
        BY <2>3, <2>12
      <3> QED
        BY <3>1, <3>2, <3>3, <2>3, <1>2
    <2>13. \A j \in 1..(mi - 1) : d.attrs[j].type # "MESSAGE_INTEGRITY"
      <3> SUFFICES ASSUME NEW j \in 1..(mi - 1), d.attrs[j].type = "MESSAGE_INTEGRITY" PROVE FALSE
        OBVIOUS
      <3>1. j \in I /\ j < mi
        BY <2>3, <1>2
      <3> QED
        BY <3>1, <2>2, <2>3, <1>2
    <2>14. mi \in DOMAIN d.attrs
      BY <1>2, <2>3
    <2>15. RfcIntegrity(d, password)
             <=> d.attrs[mi].value = ComputeHmac(password, d.type, length, d.id, before)
      <3>1. ASSUME RfcIntegrity(d, password)
            PROVE  d.attrs[mi].value = ComputeHmac(password, d.type, length, d.id, before)
        <4>1. PICK i \in DOMAIN d.attrs :
                /\ d.attrs[i].type = "MESSAGE_INTEGRITY"
                /\ \A j \in 1..(i - 1) : d.attrs[j].type # "MESSAGE_INTEGRITY"
                /\ d.attrs[i].value = ComputeHmac(password, d.type, RfcSize(SubSeq(d.attrs, 1, i)),
                                                  d.id, SubSeq(d.attrs, 1, i - 1))
          BY <3>1, Zenon DEF RfcIntegrity
        <4>2. i = mi
          BY <2>12, <4>1
        <4> QED
          BY <4>1, <4>2, <2>11 DEF before
      <3>2. ASSUME d.attrs[mi].value = ComputeHmac(password, d.type, length, d.id, before)
            PROVE  RfcIntegrity(d, password)
        BY <3>2, <2>3, <2>11, <2>13, <2>14 DEF RfcIntegrity, before
      <3> QED
        BY <3>1, <3>2
    <2> QED
      BY <2>4, <2>15
  <1> QED
    BY <1>5, <1>6

-----------------------------------------------------------------------------
(* Writing *)

\* An attribute whose write() puts as many bytes as its length announces
Whole(a) == a.length \in Nat /\ BodySize(a) = Padded(a.length)

\* A message under construction: its length is right, and so will be the
\* number of bytes written.
IsMessage(m) ==
  /\ m = [type |-> m.type, length |-> m.length, id |-> m.id, attrs |-> m.attrs]
  /\ IsAttrs(m.attrs) /\ m.length = RfcSize(m.attrs)
  /\ \A i \in 1..Len(m.attrs) : Whole(m.attrs[i])

LEMMA NewMessageIs ==
  ASSUME NEW type, NEW id
  PROVE  /\ IsMessage(NewStunMessage(type, id)) /\ NewStunMessage(type, id).attrs = << >>
         /\ NewStunMessage(type, id).type = type /\ NewStunMessage(type, id).id = id
         /\ NewStunMessage(type, id).length = 0
  BY NoAttrs DEF IsMessage, NewStunMessage

LEMMA WholeIs ==
  ASSUME NEW a, Whole(a)
  PROVE  a.length \in Nat /\ Padded(a.length) \in Nat /\ AttrSize(a) = 4 + Padded(a.length)
  <1>1. PICK n \in Nat : n = a.length
    BY DEF Whole
  <1>2. Padded(n) \in Nat
    BY PaddedIs
  <1> QED
    BY <1>1, <1>2 DEF AttrSize

LEMMA AddAttributeIs ==
  ASSUME NEW m, IsMessage(m), NEW a, Whole(a), m.length + AttrSize(a) < UINT16_RANGE
  PROVE  /\ IsMessage(AddAttribute(m, a))
         /\ AddAttribute(m, a).type = m.type /\ AddAttribute(m, a).id = m.id
         /\ AddAttribute(m, a).attrs = Append(m.attrs, a)
         /\ AddAttribute(m, a).length = m.length + AttrSize(a)
  <1> DEFINE b == AddAttribute(m, a)
             len == (m.length + Padded(a.length) + k_stun_attribute_header_size) % UINT16_RANGE
             attrs == Append(m.attrs, a)
  <1> HIDE DEF b, len, attrs
  <1>1. IsAttrs(m.attrs) /\ m.length = RfcSize(m.attrs) /\ a.length \in Nat
    BY DEF IsMessage, Whole
  <1>2. m.length \in Nat /\ Padded(a.length) \in Nat
    <2>1. m.length \in Nat
      BY <1>1, RfcSizeIs
    <2>2. Padded(a.length) \in Nat
      BY WholeIs
    <2> QED
      BY <2>1, <2>2
  <1>3. len = m.length + AttrSize(a)
    BY <1>2, WholeIs DEF len, UINT16_RANGE, k_stun_attribute_header_size
  <1>4. b = [m EXCEPT !.length = len, !.attrs = attrs]
    BY DEF b, AddAttribute, len, attrs
  <1>9. m = [type |-> m.type, length |-> m.length, id |-> m.id, attrs |-> m.attrs]
    BY DEF IsMessage
  <1>10. b = [type |-> m.type, length |-> len, id |-> m.id, attrs |-> attrs]
    BY <1>4, <1>9
  <1>5. /\ b = [type |-> b.type, length |-> b.length, id |-> b.id, attrs |-> b.attrs]
        /\ b.type = m.type /\ b.id = m.id /\ b.length = len /\ b.attrs = Append(m.attrs, a)
    BY <1>10 DEF attrs
  <1>6. IsAttrs(b.attrs) /\ b.length = RfcSize(b.attrs)
    BY <1>1, <1>3, <1>5, RfcSizeAppend
  <1>7. \A i \in 1..Len(b.attrs) : Whole(b.attrs[i])
    <2> SUFFICES ASSUME NEW i \in 1..Len(b.attrs) PROVE Whole(b.attrs[i])
      OBVIOUS
    <2>1. /\ Len(b.attrs) = Len(m.attrs) + 1 /\ Len(m.attrs) \in Nat /\ b.attrs[Len(m.attrs) + 1] = a
          /\ \A j \in 1..Len(m.attrs) : b.attrs[j] = m.attrs[j]
      BY <1>1, <1>5, SizesAppend
    <2>2. i \in 1..Len(m.attrs) \/ i = Len(m.attrs) + 1
      BY <2>1
    <2> QED
      BY <2>1, <2>2 DEF IsMessage
  <1>8. IsMessage(b)
    BY <1>5, <1>6, <1>7 DEF IsMessage
  <1> QED
    BY <1>3, <1>5, <1>8 DEF b

LEMMA WriteIs ==
  ASSUME NEW m, IsMessage(m)
  PROVE  /\ Write(m) = [type |-> m.type, length |-> m.length, id |-> m.id, attrs |-> m.attrs,
                        size |-> 20 + RfcSize(m.attrs)]
         /\ RfcFramed(Write(m))
  <1> DEFINE sizes == [i \in DOMAIN m.attrs |-> k_stun_attribute_header_size + BodySize(m.attrs[i])]
  <1>1. IsAttrs(m.attrs) /\ m.length = RfcSize(m.attrs)
    BY DEF IsMessage
  <1>2. DOMAIN m.attrs = 1..Len(m.attrs)
    BY <1>1, SizesIs
  <1>3. \A i \in DOMAIN m.attrs : BodySize(m.attrs[i]) = Padded(m.attrs[i].length)
    BY <1>2 DEF IsMessage, Whole
  <1>4. sizes = Sizes(m.attrs)
    BY <1>3 DEF Sizes, AttrSize, k_stun_attribute_header_size
  <1>5. WrittenSize(m.attrs) = RfcSize(m.attrs)
    BY <1>1, <1>4, RfcSizeIs DEF WrittenSize
  <1>6. Write(m) = [type |-> m.type, length |-> m.length, id |-> m.id, attrs |-> m.attrs,
                    size |-> 20 + RfcSize(m.attrs)]
    BY <1>5 DEF Write, k_stun_header_size
  <1> QED
    BY <1>1, <1>6 DEF RfcFramed

\* No integrity and no fingerprint yet
Plain(attrs) == \A i \in 1..Len(attrs) : attrs[i].type \notin {"MESSAGE_INTEGRITY", "FINGERPRINT"}

LEMMA AddFingerprintIs ==
  ASSUME NEW m, IsMessage(m), m.length + 8 < UINT16_RANGE
  PROVE  LET b  == AddFingerprint(m)
             fp == StunUint32Attribute("FINGERPRINT",
                     ComputeCrc32(m.type, m.length + 8, m.id, m.attrs))
         IN  /\ IsMessage(b) /\ b.type = m.type /\ b.id = m.id
             /\ b.attrs = Append(m.attrs, fp) /\ b.length = m.length + 8
  <1> DEFINE Fp(value) == StunUint32Attribute("FINGERPRINT", value)
  <1>1. \A v : Whole(Fp(v)) /\ AttrSize(Fp(v)) = 8
    BY DEF Whole, BodySize, AttrSize, Padded, StunUint32Attribute
  <1> DEFINE a == AddAttribute(m, Fp(<< >>))
             crc == ComputeCrc32(m.type, m.length + 8, m.id, m.attrs)
  <1> HIDE DEF Fp
  <1>2. a.type = m.type /\ a.id = m.id /\ a.length = m.length + 8
    BY <1>1, AddAttributeIs
  <1>3. AddFingerprint(m) = AddAttribute(m, Fp(crc))
    BY <1>2 DEF AddFingerprint, Fp
  <1> HIDE DEF crc
  <1>4. LET b == AddAttribute(m, Fp(crc)) IN
        /\ IsMessage(b) /\ b.type = m.type /\ b.id = m.id
        /\ b.attrs = Append(m.attrs, Fp(crc)) /\ b.length = m.length + 8
    BY <1>1, AddAttributeIs
  <1> QED
    BY <1>3, <1>4 DEF Fp, crc

LEMMA AddMessageIntegrityIs ==
  ASSUME NEW m, IsMessage(m), m.length + 24 < UINT16_RANGE, NEW password
  PROVE  LET b  == AddMessageIntegrity(m, password)
             mi == StunByteStringAttribute("MESSAGE_INTEGRITY", 20,
                     ComputeHmac(password, m.type, m.length + 24, m.id, m.attrs))
         IN  /\ IsMessage(b) /\ b.type = m.type /\ b.id = m.id
             /\ b.attrs = Append(m.attrs, mi) /\ b.length = m.length + 24
  <1> DEFINE Mi(value) == StunByteStringAttribute("MESSAGE_INTEGRITY", 20, value)
  <1>1. \A v : Whole(Mi(v)) /\ AttrSize(Mi(v)) = 24
    BY DEF Whole, BodySize, AttrSize, Padded, StunByteStringAttribute
  <1> DEFINE a == AddAttribute(m, Mi(<< >>))
             hmac == ComputeHmac(password, m.type, m.length + 24, m.id, m.attrs)
  <1> HIDE DEF Mi
  <1>2. a.type = m.type /\ a.id = m.id /\ a.length = m.length + 24
    BY <1>1, AddAttributeIs
  <1>3. AddMessageIntegrity(m, password) = AddAttribute(m, Mi(hmac))
    BY <1>2 DEF AddMessageIntegrity, Mi, k_stun_message_integrity_size
  <1> HIDE DEF hmac
  <1>4. LET b == AddAttribute(m, Mi(hmac)) IN
        /\ IsMessage(b) /\ b.type = m.type /\ b.id = m.id
        /\ b.attrs = Append(m.attrs, Mi(hmac)) /\ b.length = m.length + 24
    BY <1>1, AddAttributeIs
  <1> QED
    BY <1>3, <1>4 DEF Mi, hmac

\* What the code writes is the message the RFC has, signed or not.
THEOREM WritesRfcMessages ==
  ASSUME NEW m, IsMessage(m), m.length + 32 < UINT16_RANGE, NEW password
  PROVE  /\ Write(AddFingerprint(AddMessageIntegrity(m, password)))
              = RfcMessage(m.type, m.id, m.attrs, TRUE, password)
         /\ Write(AddFingerprint(m)) = RfcMessage(m.type, m.id, m.attrs, FALSE, password)
  <1>1. /\ m.length = RfcSize(m.attrs) /\ m.length \in Nat
        /\ m.length + 8 < UINT16_RANGE /\ m.length + 24 < UINT16_RANGE
    BY RfcSizeIs DEF IsMessage, UINT16_RANGE
  <1> DEFINE FpOf(b) == StunUint32Attribute("FINGERPRINT", ComputeCrc32(b.type, b.length + 8, b.id, b.attrs))
             mi == StunByteStringAttribute("MESSAGE_INTEGRITY", 20,
                     ComputeHmac(password, m.type, m.length + 24, m.id, m.attrs))
             b == AddMessageIntegrity(m, password)
  <1>2. \A c : FpOf(c) = [type |-> "FINGERPRINT", length |-> 4,
                          value |-> ComputeCrc32(c.type, c.length + 8, c.id, c.attrs)]
    BY DEF StunUint32Attribute
  <1>3. mi = [type |-> "MESSAGE_INTEGRITY", length |-> 20,
              value |-> ComputeHmac(password, m.type, RfcSize(m.attrs) + 24, m.id, m.attrs)]
    BY <1>1 DEF StunByteStringAttribute
  <1>4. ASSUME NEW c, IsMessage(c), c.length + 8 < UINT16_RANGE
        PROVE  Write(AddFingerprint(c))
                 = [type |-> c.type, length |-> RfcSize(c.attrs) + 8, id |-> c.id,
                    attrs |-> Append(c.attrs, FpOf(c)), size |-> 20 + (RfcSize(c.attrs) + 8)]
    <2> DEFINE f == AddFingerprint(c)
               attrs == Append(c.attrs, FpOf(c))
    <2> HIDE DEF FpOf
    <2>1. IsMessage(f) /\ f.type = c.type /\ f.id = c.id /\ f.attrs = attrs /\ f.length = c.length + 8
      BY <1>4, AddFingerprintIs DEF FpOf
    <2> HIDE DEF f, attrs
    <2>2. Write(f) = [type |-> f.type, length |-> f.length, id |-> f.id, attrs |-> f.attrs,
                      size |-> 20 + RfcSize(f.attrs)]
      BY <2>1, WriteIs
    <2>3. f.length = RfcSize(f.attrs) /\ c.length = RfcSize(c.attrs)
      BY <2>1, <1>4 DEF IsMessage
    <2>4. f.length = RfcSize(c.attrs) + 8 /\ RfcSize(f.attrs) = RfcSize(c.attrs) + 8
      BY <2>1, <2>3
    <2>5. Write(f) = [type |-> c.type, length |-> RfcSize(c.attrs) + 8, id |-> c.id,
                      attrs |-> attrs, size |-> 20 + (RfcSize(c.attrs) + 8)]
      BY <2>1, <2>2, <2>4
    <2> QED
      BY <2>5 DEF f, attrs
  <1>5. /\ IsMessage(b) /\ b.type = m.type /\ b.id = m.id
        /\ b.attrs = Append(m.attrs, mi) /\ b.length = m.length + 24
    BY <1>1, AddMessageIntegrityIs
  <1> HIDE DEF b, mi, FpOf
  <1>6. b.length + 8 < UINT16_RANGE /\ b.length = RfcSize(b.attrs)
    BY <1>1, <1>5 DEF IsMessage, UINT16_RANGE
  <1>7. Write(AddFingerprint(b)) = RfcMessage(m.type, m.id, m.attrs, TRUE, password)
    <2>1. Write(AddFingerprint(b))
            = [type |-> m.type, length |-> RfcSize(b.attrs) + 8, id |-> m.id,
               attrs |-> Append(b.attrs, FpOf(b)), size |-> 20 + (RfcSize(b.attrs) + 8)]
      BY <1>4, <1>5, <1>6
    <2>2. FpOf(b) = [type |-> "FINGERPRINT", length |-> 4,
                     value |-> ComputeCrc32(m.type, RfcSize(b.attrs) + 8, m.id, b.attrs)]
      BY <1>2, <1>5, <1>6
    <2> QED
      BY <2>1, <2>2, <1>3, <1>5 DEF RfcMessage
  <1>8. Write(AddFingerprint(m)) = RfcMessage(m.type, m.id, m.attrs, FALSE, password)
    BY <1>1, <1>2, <1>4 DEF RfcMessage
  <1> QED
    BY <1>7, <1>8 DEF b

-----------------------------------------------------------------------------
(* The messages of the RFC *)

\* What is known of a datagram of the RFC made of a list of attributes
IsRfcMessage(d, type, id, attrs, signed, password) ==
  /\ IsDatagram(d) /\ d.type = type /\ d.id = id /\ RfcFingerprint(d)
  /\ \A i \in 1..Len(attrs) : i \in DOMAIN d.attrs /\ d.attrs[i] = attrs[i]
  /\ \A i \in DOMAIN d.attrs : \/ i \in 1..Len(attrs)
                               \/ d.attrs[i].type = "FINGERPRINT"
                               \/ signed /\ d.attrs[i].type = "MESSAGE_INTEGRITY"
  /\ signed => \E i \in DOMAIN d.attrs : d.attrs[i].type = "MESSAGE_INTEGRITY"
  /\ \A p : RfcIntegrity(d, p) <=> signed /\ p = password

LEMMA RfcMessageIs ==
  ASSUME NEW type, NEW id, NEW attrs, IsAttrs(attrs), Plain(attrs), NEW signed \in BOOLEAN, NEW password,
         NEW d, d = RfcMessage(type, id, attrs, signed, password)
  PROVE  IsRfcMessage(d, type, id, attrs, signed, password)
  <1> DEFINE n == Len(attrs)
             hmac == ComputeHmac(password, type, RfcSize(attrs) + 24, id, attrs)
             mi == [type |-> "MESSAGE_INTEGRITY", length |-> 20, value |-> hmac]
             all == IF signed THEN Append(attrs, mi) ELSE attrs
             k == Len(all)
             size == RfcSize(all) + 8
             fp == [type |-> "FINGERPRINT", length |-> 4, value |-> ComputeCrc32(type, size, id, all)]
             list == Append(all, fp)
  <1>1. d = [type |-> type, length |-> size, id |-> id, size |-> 20 + size, attrs |-> list]
    BY DEF RfcMessage
  <1>2. /\ mi.type = "MESSAGE_INTEGRITY" /\ mi.length = 20 /\ mi.value = hmac
        /\ fp.type = "FINGERPRINT" /\ fp.length = 4 /\ fp.value = ComputeCrc32(type, size, id, all)
    OBVIOUS
  <1> HIDE DEF mi, fp, hmac
  <1>3. n \in Nat /\ AttrSize(mi) = 24 /\ AttrSize(fp) = 8
    <2>1. n \in Nat
      BY SizesIs
    <2> QED
      BY <1>2, <2>1 DEF AttrSize, Padded
  <1>4. /\ IsAttrs(all) /\ k = n + (IF signed THEN 1 ELSE 0)
        /\ \A i \in 1..n : all[i] = attrs[i]
        /\ signed => all[n + 1] = mi /\ RfcSize(all) = RfcSize(attrs) + 24
    <2>1. CASE signed
      BY <2>1, <1>2, <1>3, SizesAppend, RfcSizeAppend
    <2>2. CASE ~ signed
      BY <2>2, <1>3
    <2> QED
      BY <2>1, <2>2
  <1>5. signed => SubSeq(all, 1, n) = attrs
    BY <1>2, SizesAppend
  <1> HIDE DEF all
  <1>6. /\ IsAttrs(list) /\ RfcSize(list) = size /\ Len(list) = k + 1 /\ k \in Nat
        /\ list[k + 1] = fp /\ \A i \in 1..k : list[i] = all[i]
        /\ SubSeq(list, 1, k) = all
    <2>1. IsAttrs(all) /\ fp.length \in Nat
      BY <1>2, <1>4
    <2>2. RfcSize(list) = size
      BY <2>1, <1>3, RfcSizeAppend
    <2> QED
      BY <2>1, <2>2, SizesAppend
  <1>7. /\ d.type = type /\ d.length = size /\ d.id = id /\ d.size = 20 + size /\ d.attrs = list
    BY <1>1
  <1> HIDE DEF list, size, k, n
  <1>8. DOMAIN d.attrs = 1..(k + 1) /\ Len(d.attrs) = k + 1
    BY <1>6, <1>7, SizesIs
  <1>9. \A i \in 1..n : d.attrs[i] = attrs[i]
    BY <1>3, <1>4, <1>6, <1>7
  <1>10. d.attrs[k + 1] = fp /\ (signed => k = n + 1 /\ d.attrs[n + 1] = mi)
    BY <1>3, <1>4, <1>6, <1>7
  <1>11. \A i \in 1..(k + 1) : i \in 1..n \/ i = k + 1 \/ (signed /\ i = n + 1)
    BY <1>3, <1>4
  <1>12. IsDatagram(d)
    <2>1. RfcFramed(d)
      BY <1>6, <1>7 DEF RfcFramed
    <2>2. ASSUME NEW i \in 1..(k + 1)
          PROVE  /\ d.attrs[i].type = "MESSAGE_INTEGRITY" => d.attrs[i].length = 20
                 /\ d.attrs[i].type = "FINGERPRINT" => d.attrs[i].length = 4
      BY <1>2, <1>9, <1>10, <1>11 DEF Plain, n
    <2> QED
      BY <2>1, <2>2, <1>6, <1>7, <1>8 DEF IsDatagram
  <1>13. RfcFingerprint(d)
    <2>1. (k + 1) - 1 = k /\ k + 1 > 0
      BY <1>6
    <2> QED
      BY <2>1, <1>2, <1>6, <1>7, <1>8, <1>10 DEF RfcFingerprint
  <1>14. ASSUME NEW p PROVE RfcIntegrity(d, p) <=> signed /\ p = password
    <2>1. ASSUME NEW i \in 1..(k + 1), d.attrs[i].type = "MESSAGE_INTEGRITY" PROVE signed /\ i = n + 1
      BY <2>1, <1>2, <1>9, <1>10, <1>11 DEF Plain, n
    <2>2. CASE ~ signed
      BY <2>1, <2>2, <1>8 DEF RfcIntegrity
    <2>3. CASE signed
      <3>1. k = n + 1 /\ d.attrs[n + 1] = mi /\ n + 1 \in 1..(k + 1) /\ (n + 1) - 1 = n
        <4>1. k = n + 1 /\ d.attrs[n + 1] = mi
          BY <2>3, <1>10
        <4>2. \A a \in Nat : a + 1 \in 1..((a + 1) + 1) /\ (a + 1) - 1 = a
          OBVIOUS
        <4> QED
          BY <4>1, <4>2, <1>3
      <3>2. SubSeq(d.attrs, 1, n + 1) = all
        BY <3>1, <1>6, <1>7
      <3>3. SubSeq(d.attrs, 1, n) = attrs
        <4>1. all \in Seq(Range(list)) /\ list \in Seq(Range(list))
          <5>1. list \in Seq(Range(list))
            BY <1>6 DEF IsAttrs
          <5> QED
            BY <5>1, <1>6
        <4>2. attrs = SubSeq(all, 1, n)
          BY <2>3, <1>5 DEF n
        <4>3. SubSeq(all, 1, n) = SubSeq(list, 1, n)
          BY <4>1, <3>1, <1>3, <1>6
        <4> QED
          BY <4>2, <4>3, <1>7
      <3>4. RfcSize(SubSeq(d.attrs, 1, n + 1)) = RfcSize(attrs) + 24
        BY <3>2, <1>4, <2>3
      <3>5. d.attrs[n + 1].value = ComputeHmac(p, d.type, RfcSize(SubSeq(d.attrs, 1, n + 1)),
                                              d.id, SubSeq(d.attrs, 1, n)) <=> p = password
        BY <3>1, <3>3, <3>4, <1>2, <1>7 DEF hmac, ComputeHmac
      <3>6. \A j \in 1..n : d.attrs[j].type # "MESSAGE_INTEGRITY"
        BY <1>9 DEF Plain, n
      <3>7. ASSUME RfcIntegrity(d, p) PROVE p = password
        <4>1. PICK i \in DOMAIN d.attrs :
                /\ d.attrs[i].type = "MESSAGE_INTEGRITY"
                /\ d.attrs[i].value = ComputeHmac(p, d.type, RfcSize(SubSeq(d.attrs, 1, i)),
                                                  d.id, SubSeq(d.attrs, 1, i - 1))
          BY <3>7, Zenon DEF RfcIntegrity
        <4>2. i = n + 1
          BY <2>1, <4>1, <1>8
        <4> QED
          BY <4>1, <4>2, <3>1, <3>5
      <3>8. ASSUME p = password PROVE RfcIntegrity(d, p)
        <4>1. d.attrs[n + 1].type = "MESSAGE_INTEGRITY"
          BY <3>1, <1>2
        <4> QED
          BY <3>8, <4>1, <3>1, <3>5, <3>6, <1>8 DEF RfcIntegrity
      <3> QED
        BY <2>3, <3>7, <3>8
    <2> QED
      BY <2>2, <2>3
  <1>15. (signed => k + 1 = n + 2) /\ (~ signed => k + 1 = n + 1)
    BY <1>3, <1>4
  <1>16. \A i \in 1..n : i \in 1..(k + 1)
    BY <1>3, <1>4
  <1>17. signed => n + 1 \in 1..(k + 1)
    BY <1>3, <1>15
  <1>18. \A i \in 1..n : i \in DOMAIN d.attrs /\ d.attrs[i] = attrs[i]
    BY <1>8, <1>9, <1>16
  <1>19. \A i \in DOMAIN d.attrs : \/ i \in 1..n
                                   \/ d.attrs[i].type = "FINGERPRINT"
                                   \/ signed /\ d.attrs[i].type = "MESSAGE_INTEGRITY"
    <2> TAKE i \in DOMAIN d.attrs
    <2>1. i \in 1..n \/ i = k + 1 \/ (signed /\ i = n + 1)
      <3>1. i \in 1..(k + 1)
        BY <1>8
      <3> QED
        BY <3>1, <1>11
    <2>2. d.attrs[k + 1].type = "FINGERPRINT" /\ (signed => d.attrs[n + 1].type = "MESSAGE_INTEGRITY")
      BY <1>2, <1>10
    <2>3. CASE i \in 1..n
      BY <2>3
    <2>4. CASE i = k + 1
      BY <2>2, <2>4
    <2>5. CASE signed /\ i = n + 1
      BY <2>2, <2>5
    <2> QED
      BY <2>1, <2>3, <2>4, <2>5
  <1>20. signed => \E i \in DOMAIN d.attrs : d.attrs[i].type = "MESSAGE_INTEGRITY"
    BY <1>2, <1>8, <1>10, <1>17
  <1> QED
    BY <1>7, <1>12, <1>13, <1>14, <1>18, <1>19, <1>20 DEF n, IsRfcMessage

-----------------------------------------------------------------------------
(* What the worker writes, as messages of the RFC *)

LEMMA BindingErrorResponseIs ==
  ASSUME NEW d, NEW code \in {STUN_ERROR_BAD_REQUEST, STUN_ERROR_UNAUTHORIZED},
         NEW r, r = BindingErrorResponse(d, code)
  PROVE  /\ RfcFramed(r) /\ RfcFingerprint(r) /\ r.id = d.id /\ r.type = STUN_BINDING_ERROR_RESPONSE
         /\ Carries(r, "ERROR_CODE", <<code \div 100, code % 100>>)
  <1> DEFINE size == IF code = STUN_ERROR_BAD_REQUEST THEN 11 ELSE 12
             a == StunErrorCodeAttribute(code, size)
             m0 == NewStunMessage(STUN_BINDING_ERROR_RESPONSE, d.id)
             m == AddAttribute(m0, a)
  <1>1. r = Write(AddFingerprint(m))
    BY DEF BindingErrorResponse
  <1>2. /\ a.type = "ERROR_CODE" /\ a.length = 4 + size /\ a.value = <<code \div 100, code % 100>>
        /\ Whole(a) /\ AttrSize(a) = 20
    <2>1. a.type = "ERROR_CODE" /\ a.length = 4 + size /\ a.value = <<code \div 100, code % 100>>
      BY DEF StunErrorCodeAttribute
    <2>2. size \in {11, 12}
      OBVIOUS
    <2> HIDE DEF a, size
    <2> QED
      BY <2>1, <2>2 DEF Whole, BodySize, AttrSize, Padded
  <1>3. /\ IsMessage(m0) /\ m0.attrs = << >> /\ m0.type = STUN_BINDING_ERROR_RESPONSE
        /\ m0.id = d.id /\ m0.length = 0
    BY NewMessageIs
  <1> HIDE DEF a, m0
  <1>4. /\ IsMessage(m) /\ m.type = STUN_BINDING_ERROR_RESPONSE /\ m.id = d.id
        /\ m.attrs = <<a>> /\ m.length = 20
    <2>1. m0.length + AttrSize(a) < UINT16_RANGE
      BY <1>2, <1>3 DEF UINT16_RANGE
    <2>2. Append(<< >>, a) = <<a>>
      OBVIOUS
    <2> QED
      BY <1>2, <1>3, <2>1, <2>2, AddAttributeIs
  <1> HIDE DEF m
  <1>5. m.length + 32 < UINT16_RANGE
    BY <1>4 DEF UINT16_RANGE
  <1>6. r = RfcMessage(STUN_BINDING_ERROR_RESPONSE, d.id, <<a>>, FALSE, << >>)
    BY <1>1, <1>4, <1>5, WritesRfcMessages
  <1>7. IsAttrs(<<a>>) /\ Plain(<<a>>)
    <2>1. IsAttrs(<<a>>)
      BY <1>4 DEF IsMessage
    <2> QED
      BY <2>1, <1>2 DEF Plain
  <1>8. Len(<<a>>) = 1 /\ <<a>>[1] = a
    OBVIOUS
  <1>9. /\ IsDatagram(r) /\ r.type = STUN_BINDING_ERROR_RESPONSE /\ r.id = d.id
        /\ 1 \in DOMAIN r.attrs /\ r.attrs[1] = a /\ RfcFingerprint(r)
    <2> DEFINE s == <<a>>
    <2>1. Len(s) = 1 /\ s[1] = a /\ IsAttrs(s) /\ Plain(s)
      BY <1>7, <1>8
    <2> HIDE DEF s
    <2>2. r = RfcMessage(STUN_BINDING_ERROR_RESPONSE, d.id, s, FALSE, << >>)
      BY <1>6 DEF s
    <2>3. /\ IsDatagram(r) /\ r.type = STUN_BINDING_ERROR_RESPONSE /\ r.id = d.id /\ RfcFingerprint(r)
          /\ \A i \in 1..Len(s) : i \in DOMAIN r.attrs /\ r.attrs[i] = s[i]
      <3>1. PICK b \in BOOLEAN : b = FALSE
        OBVIOUS
      <3>2. r = RfcMessage(STUN_BINDING_ERROR_RESPONSE, d.id, s, b, << >>)
        BY <2>2, <3>1
      <3>3. IsRfcMessage(r, STUN_BINDING_ERROR_RESPONSE, d.id, s, b, << >>)
        BY <2>1, <3>2, RfcMessageIs
      <3> QED
        BY <3>1, <3>3 DEF IsRfcMessage
    <2> QED
      BY <2>1, <2>3
  <1> QED
    BY <1>2, <1>9 DEF IsDatagram, Carries

\* A success response to a request of an address, signed with a password
IsSuccess(r, d, addr, password) ==
  /\ RfcFramed(r) /\ RfcFingerprint(r) /\ r.id = d.id /\ r.type = STUN_BINDING_RESPONSE
  /\ RfcIntegrity(r, password)
  /\ Carries(r, "XOR_MAPPED_ADDRESS", <<"xored", addr>>)

LEMMA BindingResponseIs ==
  ASSUME NEW d, NEW addr, NEW params, NEW r, r = BindingResponse(d, addr, params)
  PROVE  IsSuccess(r, d, addr, params.pwd)
  <1> DEFINE a == StunXorAddressAttribute("XOR_MAPPED_ADDRESS", addr)
             m0 == NewStunMessage(STUN_BINDING_RESPONSE, d.id)
             m == AddAttribute(m0, a)
  <1>1. r = Write(AddFingerprint(AddMessageIntegrity(m, params.pwd)))
    BY DEF BindingResponse
  <1>2. /\ a.type = "XOR_MAPPED_ADDRESS" /\ a.length = 8 /\ a.value = <<"xored", addr>>
        /\ Whole(a) /\ AttrSize(a) = 12
    <2>1. a.type = "XOR_MAPPED_ADDRESS" /\ a.length = 8 /\ a.value = <<"xored", addr>>
      BY DEF StunXorAddressAttribute
    <2> HIDE DEF a
    <2> QED
      BY <2>1 DEF Whole, BodySize, AttrSize, Padded
  <1>3. /\ IsMessage(m0) /\ m0.attrs = << >> /\ m0.type = STUN_BINDING_RESPONSE
        /\ m0.id = d.id /\ m0.length = 0
    BY NewMessageIs
  <1> HIDE DEF a, m0
  <1>4. /\ IsMessage(m) /\ m.type = STUN_BINDING_RESPONSE /\ m.id = d.id
        /\ m.attrs = <<a>> /\ m.length = 12
    <2>1. m0.length + AttrSize(a) < UINT16_RANGE
      BY <1>2, <1>3 DEF UINT16_RANGE
    <2>2. Append(<< >>, a) = <<a>>
      OBVIOUS
    <2> QED
      BY <1>2, <1>3, <2>1, <2>2, AddAttributeIs
  <1> HIDE DEF m
  <1>5. m.length + 32 < UINT16_RANGE
    BY <1>4 DEF UINT16_RANGE
  <1>6. r = RfcMessage(STUN_BINDING_RESPONSE, d.id, <<a>>, TRUE, params.pwd)
    BY ZenonT(120), <1>1, <1>4, <1>5, WritesRfcMessages
  <1>7. IsAttrs(<<a>>) /\ Plain(<<a>>)
    <2>1. IsAttrs(<<a>>)
      BY <1>4 DEF IsMessage
    <2> QED
      BY <2>1, <1>2 DEF Plain
  <1>8. Len(<<a>>) = 1 /\ <<a>>[1] = a
    OBVIOUS
  <1>9. /\ IsDatagram(r) /\ r.type = STUN_BINDING_RESPONSE /\ r.id = d.id
        /\ 1 \in DOMAIN r.attrs /\ r.attrs[1] = a /\ RfcFingerprint(r)
        /\ RfcIntegrity(r, params.pwd)
    <2> DEFINE s == <<a>>
    <2>1. Len(s) = 1 /\ s[1] = a /\ IsAttrs(s) /\ Plain(s)
      BY <1>7, <1>8
    <2> HIDE DEF s
    <2>2. r = RfcMessage(STUN_BINDING_RESPONSE, d.id, s, TRUE, params.pwd)
      BY <1>6 DEF s
    <2>3. /\ IsDatagram(r) /\ r.type = STUN_BINDING_RESPONSE /\ r.id = d.id /\ RfcFingerprint(r)
          /\ \A i \in 1..Len(s) : i \in DOMAIN r.attrs /\ r.attrs[i] = s[i]
          /\ RfcIntegrity(r, params.pwd)
      <3>1. PICK b \in BOOLEAN : b = TRUE
        OBVIOUS
      <3>2. r = RfcMessage(STUN_BINDING_RESPONSE, d.id, s, b, params.pwd)
        BY <2>2, <3>1
      <3>3. IsRfcMessage(r, STUN_BINDING_RESPONSE, d.id, s, b, params.pwd)
        BY <2>1, <3>2, RfcMessageIs
      <3> QED
        BY <3>1, <3>3 DEF IsRfcMessage
    <2> QED
      BY <2>1, <2>3
  <1> QED
    BY <1>2, <1>9 DEF IsDatagram, Carries, IsSuccess

\* A ping: framed, with a fingerprint, signed with the password of the
\* connection, and named after both
IsPing(r, conn, params) ==
  /\ RfcFramed(r) /\ RfcFingerprint(r) /\ RfcIntegrity(r, conn.password)
  /\ Carries(r, "USERNAME", <<conn.ufrag, params.ufrag>>)

LEMMA BindingRequestIs ==
  ASSUME NEW id, NEW conn, NEW params, NEW r, r = BindingRequest(id, conn, params)
  PROVE  IsPing(r, conn, params)
  <1> DEFINE size == PeerUfragSize + 1 + ICE_UFRAG_LENGTH
             a == StunByteStringAttribute("USERNAME", size, <<conn.ufrag, params.ufrag>>)
             c == StunUint64Attribute("ICE_CONTROLLING", <<0>>)
             u == StunByteStringAttribute("USE_CANDIDATE", 0, << >>)
             p == StunUint32Attribute("PRIORITY", <<110>>)
             m0 == NewStunMessage(STUN_BINDING_REQUEST, id)
             m1 == AddAttribute(m0, a)
             m2 == AddAttribute(m1, c)
             m3 == AddAttribute(m2, u)
             m == AddAttribute(m3, p)
  <1>1. r = Write(AddFingerprint(AddMessageIntegrity(m, conn.password)))
    BY DEF BindingRequest
  <1>2. /\ a.type = "USERNAME" /\ a.length = size /\ a.value = <<conn.ufrag, params.ufrag>>
        /\ c.type = "ICE_CONTROLLING" /\ c.length = 8
        /\ u.type = "USE_CANDIDATE" /\ u.length = 0
        /\ p.type = "PRIORITY" /\ p.length = 4
    BY DEF StunByteStringAttribute, StunUint64Attribute, StunUint32Attribute
  <1>3. size \in 6..1505
    BY UfragAssumption DEF MAX_BUF_SIZE, ICE_UFRAG_LENGTH
  <1> HIDE DEF a, c, u, p, size, m0
  <1>4. Whole(a) /\ AttrSize(a) \in Nat /\ AttrSize(a) <= 1512
    <2>1. Padded(size) \in Nat /\ Padded(size) <= size + 3
      BY <1>3, PaddedIs
    <2> QED
      BY <1>2, <1>3, <2>1 DEF Whole, BodySize, AttrSize
  <1>5. Whole(c) /\ AttrSize(c) = 12 /\ Whole(u) /\ AttrSize(u) = 4 /\ Whole(p) /\ AttrSize(p) = 8
    BY <1>2 DEF Whole, BodySize, AttrSize, Padded
  <1>6. IsMessage(m0) /\ m0.attrs = << >> /\ m0.type = STUN_BINDING_REQUEST /\ m0.id = id /\ m0.length = 0
    BY NewMessageIs DEF m0
  <1>7. /\ IsMessage(m1) /\ m1.attrs = Append(<< >>, a) /\ m1.length = AttrSize(a)
    <2>1. m0.length + AttrSize(a) < UINT16_RANGE
      BY <1>4, <1>6 DEF UINT16_RANGE
    <2> QED
      BY <2>1, <1>4, <1>6, AddAttributeIs
  <1> HIDE DEF m1
  <1>8. /\ IsMessage(m2) /\ m2.attrs = Append(m1.attrs, c) /\ m2.length = AttrSize(a) + 12
    <2>1. m1.length + AttrSize(c) < UINT16_RANGE
      BY <1>4, <1>5, <1>7 DEF UINT16_RANGE
    <2> QED
      BY ZenonT(120), <2>1, <1>5, <1>7, AddAttributeIs
  <1> HIDE DEF m2
  <1>9. /\ IsMessage(m3) /\ m3.attrs = Append(m2.attrs, u) /\ m3.length = AttrSize(a) + 16
    <2>1. m2.length + AttrSize(u) < UINT16_RANGE
      BY <1>4, <1>5, <1>8 DEF UINT16_RANGE
    <2>2. m2.length + AttrSize(u) = AttrSize(a) + 16
      BY <1>4, <1>5, <1>8
    <2> QED
      BY <2>1, <2>2, <1>5, <1>8, AddAttributeIs
  <1> HIDE DEF m3
  <1>10. /\ IsMessage(m) /\ m.attrs = Append(m3.attrs, p) /\ m.length = AttrSize(a) + 24
    <2>1. m3.length + AttrSize(p) < UINT16_RANGE
      BY <1>4, <1>5, <1>9 DEF UINT16_RANGE
    <2>2. m3.length + AttrSize(p) = AttrSize(a) + 24
      BY <1>4, <1>5, <1>9
    <2> QED
      BY ZenonT(120), <2>1, <2>2, <1>5, <1>9, AddAttributeIs
  <1> HIDE DEF m
  <1>11. IsAttrs(m.attrs) /\ Plain(m.attrs) /\ Len(m.attrs) = 4 /\ m.attrs[1] = a
    <2>1. \A i \in 1..4 : i \in {1, 2, 3, 4}
      OBVIOUS
    <2>2. Len(m1.attrs) = 1 /\ m1.attrs[1] = a
      BY <1>7
    <2>3. Len(m2.attrs) = 2 /\ m2.attrs[1] = a /\ m2.attrs[2] = c
      BY <2>2, <1>5, <1>7, <1>8, SizesAppend DEF IsMessage, Whole
    <2>4. Len(m3.attrs) = 3 /\ m3.attrs[1] = a /\ m3.attrs[2] = c /\ m3.attrs[3] = u
      <3>1. IsAttrs(m2.attrs) /\ u.length \in Nat
        BY <1>5, <1>8 DEF IsMessage, Whole
      <3>2. /\ Len(m3.attrs) = Len(m2.attrs) + 1 /\ m3.attrs[Len(m2.attrs) + 1] = u
            /\ \A i \in 1..Len(m2.attrs) : m3.attrs[i] = m2.attrs[i]
        BY <3>1, <1>9, SizesAppend
      <3> QED
        BY <3>2, <2>3
    <2>5. /\ Len(m.attrs) = 4 /\ m.attrs[1] = a /\ m.attrs[2] = c /\ m.attrs[3] = u /\ m.attrs[4] = p
      <3>1. IsAttrs(m3.attrs) /\ p.length \in Nat
        BY <1>5, <1>9 DEF IsMessage, Whole
      <3>2. /\ Len(m.attrs) = Len(m3.attrs) + 1 /\ m.attrs[Len(m3.attrs) + 1] = p
            /\ \A i \in 1..Len(m3.attrs) : m.attrs[i] = m3.attrs[i]
        BY <3>1, <1>10, SizesAppend
      <3> QED
        BY <3>2, <2>4
    <2>6. Plain(m.attrs)
      BY <2>5, <2>1, <1>2 DEF Plain
    <2> QED
      BY <2>5, <2>6, <1>10 DEF IsMessage
  <1>12. m.length + 32 < UINT16_RANGE
    BY <1>4, <1>10 DEF UINT16_RANGE
  <1>13. r = RfcMessage(m.type, m.id, m.attrs, TRUE, conn.password)
    BY <1>1, <1>10, <1>12, WritesRfcMessages
  <1>14. /\ IsDatagram(r) /\ 1 \in DOMAIN r.attrs /\ r.attrs[1] = a /\ RfcFingerprint(r)
         /\ RfcIntegrity(r, conn.password)
    <2>1. /\ IsDatagram(r) /\ RfcFingerprint(r) /\ RfcIntegrity(r, conn.password)
          /\ \A i \in 1..Len(m.attrs) : i \in DOMAIN r.attrs /\ r.attrs[i] = m.attrs[i]
      <3>1. PICK b \in BOOLEAN : b = TRUE
        OBVIOUS
      <3>2. r = RfcMessage(m.type, m.id, m.attrs, b, conn.password)
        BY <1>13, <3>1
      <3>3. IsRfcMessage(r, m.type, m.id, m.attrs, b, conn.password)
        BY <1>11, <3>2, RfcMessageIs
      <3> QED
        BY <3>1, <3>3 DEF IsRfcMessage
    <2> QED
      BY <2>1, <1>11
  <1> QED
    BY <1>2, <1>14 DEF IsDatagram, Carries, IsPing

-----------------------------------------------------------------------------
(* Requests of peers, and their replies *)

LEMMA RangeConcat ==
  ASSUME NEW A, NEW s \in Seq(A), NEW t \in Seq(A)
  PROVE  s \o t \in Seq(A) /\ Range(s \o t) = Range(s) \cup Range(t)
  <1> DEFINE st == s \o t
  <1>1. /\ st \in Seq(A) /\ Len(st) = Len(s) + Len(t)
        /\ \A i \in 1..Len(s) : st[i] = s[i]
        /\ \A i \in 1..Len(t) : st[Len(s) + i] = t[i]
    OBVIOUS
  <1>2. \A i \in 1..(Len(s) + Len(t)) :
          i \in 1..Len(s) \/ (i - Len(s) \in 1..Len(t) /\ Len(s) + (i - Len(s)) = i)
    OBVIOUS
  <1>3. /\ 1..Len(s) \subseteq 1..(Len(s) + Len(t))
        /\ \A i \in 1..Len(t) : Len(s) + i \in 1..(Len(s) + Len(t))
    OBVIOUS
  <1>4. DOMAIN s = 1..Len(s) /\ DOMAIN t = 1..Len(t) /\ DOMAIN st = 1..(Len(s) + Len(t))
    BY <1>1
  <1> HIDE DEF st
  <1>5. \A i \in DOMAIN st : st[i] \in Range(s) \cup Range(t)
    BY <1>1, <1>2, <1>4 DEF Range
  <1>6. \A i \in DOMAIN s : s[i] \in Range(st)
    BY <1>1, <1>3, <1>4 DEF Range
  <1>7. \A i \in DOMAIN t : t[i] \in Range(st)
    BY <1>1, <1>3, <1>4 DEF Range
  <1> QED
    BY <1>1, <1>5, <1>6, <1>7 DEF Range, st

LEMMA RangeOne == ASSUME NEW x, NEW A, x \in A PROVE <<x>> \in Seq(A) /\ Range(<<x>>) = {x}
  BY DEF Range

LEMMA RangeNone == ASSUME NEW A PROVE << >> \in Seq(A) /\ Range(<< >>) = {}
  BY DEF Range

\* A user name has at most two fields.
LEMMA RequestNameIs ==
  ASSUME NEW n, NEW check \in Check
  PROVE  LET name == RequestName(n, check.user) IN
         Len(name) = 2 => name = <<name[1], name[2]>>
  <1>1. check.user \in {"offered", "other", "restart", "single", "none"}
    BY CheckAssumption
  <1>2. ASSUME NEW x, NEW y PROVE <<x, y>> = <<(<<x, y>>)[1], (<<x, y>>)[2]>>
    OBVIOUS
  <1>3. ASSUME NEW x PROVE Len(<<x>>) # 2
    OBVIOUS
  <1>4. Len(<< >>) # 2
    OBVIOUS
  <1> QED
    BY <1>1, <1>2, <1>3, <1>4 DEF RequestName

\* What a peer asks: a framed request, with one user name at most
IsRequest(d, name) ==
  /\ IsDatagram(d) /\ d.type = STUN_BINDING_REQUEST
  /\ \A i \in DOMAIN d.attrs : d.attrs[i].type = "USERNAME" => d.attrs[i].value = name

LEMMA RequestIs ==
  ASSUME NEW n \in 1..MaxPush, NEW check \in Check
  PROVE  IsRequest(PeerRequest[<<n, check>>], RequestName(n, check.user))
  <1> DEFINE name == RequestName(n, check.user)
             username == [type |-> "USERNAME", length |-> ICE_UFRAG_LENGTH + 1 + PeerUfragSize,
                          value |-> name]
             software == [type |-> "SOFTWARE", length |-> 5, value |-> << >>]
             role == [type |-> check.role, length |-> 8, value |-> <<"tie", n>>]
             priority == [type |-> "PRIORITY", length |-> 4, value |-> <<1>>]
             s == IF name = << >> THEN << >> ELSE <<username>>
             p == IF check.priority THEN <<priority>> ELSE << >>
             attrs == s \o <<software, role>> \o p
             signed == check.key # "none"
             password == IF check.key = "offered" THEN Local(n).pwd ELSE Local(0).pwd
             m == RfcMessage(STUN_BINDING_REQUEST, <<"peer", n>>, attrs, signed, password)
             d == PeerRequest[<<n, check>>]
             A == {username, software, role, priority}
  <1>1. d = IF check.damaged THEN [m EXCEPT !.id = <<"damaged", n>>] ELSE m
    <2>1. <<n, check>> \in (1..MaxPush) \X Check /\ <<n, check>>[1] = n /\ <<n, check>>[2] = check
      OBVIOUS
    <2>2. d = PeerMessage(n, check)
      BY <2>1 DEF PeerRequest
    <2> QED
      BY <2>2 DEF PeerMessage
  <1>2. /\ username.type = "USERNAME" /\ username.value = name /\ username.length \in Nat
        /\ software.type = "SOFTWARE" /\ software.length \in Nat
        /\ role.type \in {"ICE_CONTROLLED", "ICE_CONTROLLING"} /\ role.length \in Nat
        /\ priority.type = "PRIORITY" /\ priority.length \in Nat
    BY UfragAssumption, CheckAssumption DEF ICE_UFRAG_LENGTH, MAX_BUF_SIZE
  <1>3. attrs \in Seq(A)
    <2> HIDE DEF username, software, role, priority, name
    <2>1. username \in A /\ software \in A /\ role \in A /\ priority \in A
      OBVIOUS
    <2> HIDE DEF A
    <2>2. s \in Seq(A)
      BY <2>1, RangeOne, RangeNone
    <2>3. p \in Seq(A) /\ <<software, role>> \in Seq(A)
      <3>1. p \in Seq(A)
        BY <2>1, RangeOne, RangeNone
      <3>2. <<software, role>> \in Seq(A)
        BY <2>1
      <3> QED
        BY <3>1, <3>2
    <2> HIDE DEF s, p
    <2> QED
      BY <2>2, <2>3, RangeConcat
  <1>4. signed \in BOOLEAN
    OBVIOUS
  <1> HIDE DEF username, software, role, priority, s, p, attrs, signed, password, m, d, name
  <1>5. Len(attrs) \in Nat /\ DOMAIN attrs = 1..Len(attrs) /\ \A i \in 1..Len(attrs) : attrs[i] \in A
    BY <1>3
  <1>6. IsAttrs(attrs) /\ Plain(attrs)
    <2>1. attrs \in Seq(Range(attrs))
      BY <1>3, <1>5 DEF Range
    <2>2. \A i \in 1..Len(attrs) : attrs[i].length \in Nat
      BY <1>2, <1>5
    <2>3. \A i \in 1..Len(attrs) : attrs[i].type \notin {"MESSAGE_INTEGRITY", "FINGERPRINT"}
      BY <1>2, <1>5
    <2> QED
      BY <2>1, <2>2, <2>3 DEF IsAttrs, Plain
  <1>7. IsRfcMessage(m, STUN_BINDING_REQUEST, <<"peer", n>>, attrs, signed, password)
    BY <1>4, <1>6, RfcMessageIs DEF m
  <1>8. IsDatagram(m) /\ m.type = STUN_BINDING_REQUEST
    BY <1>7 DEF IsRfcMessage
  <1>9. \A i \in DOMAIN m.attrs : m.attrs[i].type = "USERNAME" => m.attrs[i].value = name
    <2> TAKE i \in DOMAIN m.attrs
    <2> HAVE m.attrs[i].type = "USERNAME"
    <2>1. i \in 1..Len(attrs) /\ m.attrs[i] = attrs[i]
      BY <1>7 DEF IsRfcMessage
    <2> QED
      BY <2>1, <1>2, <1>5
  <1>10. /\ d.type = m.type /\ d.length = m.length /\ d.size = m.size /\ d.attrs = m.attrs
    <2>1. m = [type |-> m.type, length |-> m.length, id |-> m.id, size |-> m.size, attrs |-> m.attrs]
      BY DEF m, RfcMessage
    <2>2. CASE check.damaged
      <3>1. d = [m EXCEPT !.id = <<"damaged", n>>]
        BY <1>1, <2>2
      <3> QED
        BY <2>1, <3>1
    <2>3. CASE ~ check.damaged
      BY <1>1, <2>3
    <2> QED
      BY <2>2, <2>3
  <1>11. IsDatagram(d)
    BY <1>8, <1>10 DEF IsDatagram, RfcFramed
  <1> QED
    BY <1>8, <1>9, <1>10, <1>11 DEF IsRequest, d, name

\* What read() keeps of the three types it looks for, and the first of them
LEMMA AttributeIs ==
  ASSUME NEW d, IsDatagram(d), NEW type \in KnownType
  PROVE  /\ HasAttribute(d, type) <=> \E i \in DOMAIN d.attrs : d.attrs[i].type = type
         /\ HasAttribute(d, type) =>
              \E i \in DOMAIN d.attrs : d.attrs[i].type = type /\ GetAttribute(d, type) = d.attrs[i]
  <1> DEFINE I == ReadAttributes(d, type)
  <1>1. I = {i \in DOMAIN d.attrs : d.attrs[i].type = type}
    BY DEF ReadAttributes
  <1>2. I \subseteq Nat
    <2>1. DOMAIN d.attrs = 1..Len(d.attrs) /\ Len(d.attrs) \in Nat
      BY SizesIs DEF IsDatagram
    <2> QED
      BY <2>1, <1>1
  <1> HIDE DEF I
  <1>3. I # {} => Min(I) \in I
    BY <1>2, MinIs
  <1> QED
    BY <1>1, <1>3 DEF HasAttribute, GetAttribute, I

\* RepliesMatchRfc of one reply
IsReply(reply, verdict, d, own, conn, addr) ==
  /\ reply = Nil <=> verdict = 0
  /\ reply # Nil => RfcFramed(reply) /\ RfcFingerprint(reply) /\ reply.id = d.id
  /\ verdict \in {400, 401} =>
       /\ reply.type = STUN_BINDING_ERROR_RESPONSE
       /\ Carries(reply, "ERROR_CODE", <<verdict \div 100, verdict % 100>>)
  /\ verdict = 200 /\ FromItsPeer(d, own, conn) =>
       /\ reply.type = STUN_BINDING_RESPONSE /\ RfcIntegrity(reply, own.pwd)
       /\ Carries(reply, "XOR_MAPPED_ADDRESS", <<"xored", addr>>)

\* A channel with the credentials of the offer answers a peer's request as
\* RepliesMatchRfc says.
LEMMA ReplyFollowsRfc ==
  ASSUME NEW n \in 1..MaxPush, NEW check \in Check, NEW ch, ch.params = Local(n),
         NEW conn, NEW addr \in Addr,
         NEW d, d = PeerRequest[<<n, check>>],
         NEW reply, reply = RequestReply(d, ch, conn, addr),
         NEW verdict, verdict = RfcVerdict(d, Local(n))
  PROVE  IsReply(reply, verdict, d, Local(n), conn, addr)
  <1> DEFINE name == RequestName(n, check.user)
             own == Local(n)
             Has(t) == \E i \in DOMAIN d.attrs : d.attrs[i].type = t
             fields == GetAttribute(d, "USERNAME").value
             names == {d.attrs[i].value : i \in {j \in DOMAIN d.attrs : d.attrs[j].type = "USERNAME"}}
             bad == BindingErrorResponse(d, STUN_ERROR_BAD_REQUEST)
             unauth == BindingErrorResponse(d, STUN_ERROR_UNAUTHORIZED)
             good == BindingResponse(d, addr, own)
  <1>1. /\ IsDatagram(d) /\ d.type = STUN_BINDING_REQUEST
        /\ \A i \in DOMAIN d.attrs : d.attrs[i].type = "USERNAME" => d.attrs[i].value = name
    BY RequestIs DEF IsRequest
  <1>2. Len(name) = 2 => name = <<name[1], name[2]>>
    BY RequestNameIs
  <1> HIDE DEF name
  <1>3. ValidateFingerprint(d) /\ Readable(d) <=> RfcFingerprint(d)
    <2>1. Readable(d)
      <3>1. d.length = RfcSize(d.attrs) /\ d.size = 20 + RfcSize(d.attrs) /\ RfcSize(d.attrs) \in Nat
        BY <1>1, RfcSizeIs DEF IsDatagram, RfcFramed
      <3> QED
        BY <3>1, <1>1 DEF Readable, STUN_BINDING_REQUEST, k_stun_header_size
    <2> QED
      BY <1>1, <2>1, FingerprintMatchesRfc
  <1>4. ValidateMessageIntegrity(d, own.pwd) <=> RfcIntegrity(d, own.pwd)
    BY <1>1, IntegrityMatchesRfc
  <1>5. /\ HasAttribute(d, "USERNAME") <=> Has("USERNAME")
        /\ HasAttribute(d, "MESSAGE_INTEGRITY") <=> Has("MESSAGE_INTEGRITY")
        /\ HasAttribute(d, "PRIORITY") <=> Has("PRIORITY")
    BY <1>1, AttributeIs DEF KnownType
  <1>6. Has("USERNAME") => fields = name /\ names = {name}
    <2> HAVE Has("USERNAME")
    <2>1. PICK i \in DOMAIN d.attrs :
            d.attrs[i].type = "USERNAME" /\ GetAttribute(d, "USERNAME") = d.attrs[i]
      BY <1>1, <1>5, AttributeIs DEF KnownType
    <2> QED
      BY <2>1, <1>1
  <1>7. /\ bad # Nil /\ RfcFramed(bad) /\ RfcFingerprint(bad) /\ bad.id = d.id
        /\ bad.type = STUN_BINDING_ERROR_RESPONSE /\ Carries(bad, "ERROR_CODE", <<400 \div 100, 400 % 100>>)
    BY BindingErrorResponseIs, ReplyAssumption DEF STUN_ERROR_BAD_REQUEST
  <1>8. /\ unauth # Nil /\ RfcFramed(unauth) /\ RfcFingerprint(unauth) /\ unauth.id = d.id
        /\ unauth.type = STUN_BINDING_ERROR_RESPONSE
        /\ Carries(unauth, "ERROR_CODE", <<401 \div 100, 401 % 100>>)
    BY BindingErrorResponseIs, ReplyAssumption DEF STUN_ERROR_UNAUTHORIZED
  <1>9. /\ good # Nil /\ RfcFramed(good) /\ RfcFingerprint(good) /\ good.id = d.id
        /\ good.type = STUN_BINDING_RESPONSE /\ RfcIntegrity(good, own.pwd)
        /\ Carries(good, "XOR_MAPPED_ADDRESS", <<"xored", addr>>)
    <2>1. good # Nil
      BY ReplyAssumption
    <2> HIDE DEF own
    <2>2. /\ RfcFramed(good) /\ RfcFingerprint(good) /\ good.id = d.id
          /\ good.type = STUN_BINDING_RESPONSE /\ RfcIntegrity(good, own.pwd)
          /\ Carries(good, "XOR_MAPPED_ADDRESS", <<"xored", addr>>)
      <3>1. good = BindingResponse(d, addr, own)
        OBVIOUS
      <3> HIDE DEF good
      <3>2. IsSuccess(good, d, addr, own.pwd)
        BY <3>1, BindingResponseIs
      <3> QED
        BY <3>2 DEF IsSuccess
    <2> HIDE DEF good
    <2> QED
      BY <2>1, <2>2
  <1> HIDE DEF bad, unauth, good, own, fields, names, Has
  <1>10. Has("USERNAME") /\ Len(name) = 2 /\ name[1] = own.ufrag =>
           \A u : Carries(d, "USERNAME", <<own.ufrag, u>>) <=> name[2] = u
    <2> HAVE Has("USERNAME") /\ Len(name) = 2 /\ name[1] = own.ufrag
    <2> TAKE u
    <2>1. Carries(d, "USERNAME", <<own.ufrag, u>>) <=> name = <<own.ufrag, u>>
      BY <1>1 DEF Carries, Has
    <2> QED
      BY <2>1, <1>2
  <1> DEFINE wrong == Len(name) # 2 \/ name[1] # own.ufrag \/ ~ RfcIntegrity(d, own.pwd)
             nameless == ~ Has("USERNAME") \/ ~ Has("MESSAGE_INTEGRITY")
  <1>11. reply = IF ~ RfcFingerprint(d) THEN Nil
                 ELSE IF nameless THEN bad
                 ELSE IF wrong THEN unauth
                 ELSE IF conn = Nil /\ ~ Has("PRIORITY") THEN bad
                 ELSE IF conn # Nil /\ name[2] # conn.ufrag THEN unauth
                 ELSE good
    BY <1>1, <1>3, <1>4, <1>5, <1>6
       DEF RequestReply, GetStunMessage, STUN_ERROR_BAD_REQUEST, STUN_ERROR_UNAUTHORIZED,
           bad, unauth, good, own, fields
  <1>12. verdict = IF ~ RfcFingerprint(d) THEN 0
                   ELSE IF nameless THEN 400
                   ELSE IF wrong THEN 401
                   ELSE 200
    <2> DEFINE valid == \E v \in names : Len(v) = 2 /\ v[1] = own.ufrag
    <2>1. verdict = IF ~ RfcFingerprint(d) THEN 0
                    ELSE IF nameless THEN 400
                    ELSE IF valid /\ RfcIntegrity(d, own.pwd) THEN 200
                    ELSE 401
      BY Zenon DEF RfcVerdict, own, names, Has
    <2>2. ~ nameless => (valid /\ RfcIntegrity(d, own.pwd) <=> ~ wrong)
      BY <1>6
    <2> HIDE DEF valid, nameless, wrong
    <2> QED
      BY <2>1, <2>2
  <1>13. FromItsPeer(d, own, conn) /\ ~ nameless /\ ~ wrong =>
           Has("PRIORITY") /\ (conn # Nil => name[2] = conn.ufrag)
    BY <1>10 DEF FromItsPeer, Has
  <1> HIDE DEF nameless, wrong
  <1>14. /\ verdict = 0 => reply = Nil
         /\ verdict # 0 => reply \in {bad, unauth, good}
         /\ verdict = 400 => reply = bad
         /\ verdict = 401 => reply = unauth
         /\ verdict = 200 /\ FromItsPeer(d, own, conn) => reply = good
         /\ verdict \in {0, 200, 400, 401}
    BY <1>11, <1>12, <1>13
  <1>15. IsReply(reply, verdict, d, own, conn, addr)
    BY <1>7, <1>8, <1>9, <1>14 DEF IsReply
  <1> QED
    BY <1>15 DEF own

-----------------------------------------------------------------------------
(* The pushes that wait and those that were served are together as many as   *)
(* were sent, so that every peer connection has one of the numbers below     *)
(* the bound.                                                                *)

Pushes(q) == {i \in DOMAIN q : q[i].cmd = "PUSH"}

Counted == Len(pcs) + Cardinality(Pushes(queue)) <= MaxPush

LEMMA PushesFinite ==
  ASSUME NEW q, q \in Seq(Range(q))
  PROVE  /\ IsFiniteSet(Pushes(q)) /\ Cardinality(Pushes(q)) \in Nat
         /\ Len(q) \in Nat /\ DOMAIN q = 1..Len(q)
  <1>1. Len(q) \in Nat /\ DOMAIN q = 1..Len(q)
    OBVIOUS
  <1>2. IsFiniteSet(1..Len(q))
    BY <1>1, FS_Interval
  <1>3. Pushes(q) \in SUBSET (1..Len(q))
    BY <1>1 DEF Pushes
  <1>4. IsFiniteSet(Pushes(q))
    BY <1>2, <1>3, FS_Subset
  <1> QED
    BY <1>1, <1>4, FS_CardinalityType

LEMMA PushesAppend ==
  ASSUME NEW q, q \in Seq(Range(q)), NEW m
  PROVE  Cardinality(Pushes(Append(q, m))) =
           Cardinality(Pushes(q)) + (IF m.cmd = "PUSH" THEN 1 ELSE 0)
  <1> DEFINE k == Len(q) + 1
  <1>1. PICK t : t = Append(q, m)
    OBVIOUS
  <1>2. /\ DOMAIN t = (DOMAIN q) \cup {k} /\ t[k] = m /\ Len(q) \in Nat /\ DOMAIN q = 1..Len(q)
        /\ \A i \in DOMAIN q : t[i] = q[i]
    BY <1>1, LongerInSeq
  <1>3. k \notin DOMAIN q
    BY <1>2
  <1> HIDE DEF k
  <1>4. IsFiniteSet(Pushes(q)) /\ Cardinality(Pushes(q)) \in Nat
    BY PushesFinite
  <1>5. CASE m.cmd = "PUSH"
    <2>1. Pushes(t) = Pushes(q) \cup {k} /\ k \notin Pushes(q)
      BY <1>2, <1>3, <1>5 DEF Pushes
    <2>2. Cardinality(Pushes(t)) = Cardinality(Pushes(q)) + 1
      BY <2>1, <1>4, FS_AddElement
    <2> QED
      BY <2>2, <1>1, <1>5
  <1>6. CASE m.cmd # "PUSH"
    <2>1. Pushes(t) = Pushes(q)
      BY <1>2, <1>3, <1>6 DEF Pushes
    <2> QED
      BY <2>1, <1>1, <1>4, <1>6
  <1> QED
    BY <1>5, <1>6

LEMMA PushesTail ==
  ASSUME NEW q, q \in Seq(Range(q)), q # << >>
  PROVE  Cardinality(Pushes(Tail(q))) + (IF Head(q).cmd = "PUSH" THEN 1 ELSE 0)
           <= Cardinality(Pushes(q))
  <1>1. PICK t : t = Tail(q)
    OBVIOUS
  <1>2. /\ t \in Seq(Range(t)) /\ 1 \in DOMAIN q /\ Head(q) = q[1]
        /\ \A i \in DOMAIN t : i + 1 \in DOMAIN q /\ t[i] = q[i + 1]
    BY <1>1, RestInSeq
  <1>3. /\ IsFiniteSet(Pushes(q)) /\ Cardinality(Pushes(q)) \in Nat
        /\ Cardinality(Pushes(t)) \in Nat /\ Pushes(t) \subseteq Nat \ {0}
    <2>1. Len(t) \in Nat /\ DOMAIN t = 1..Len(t)
      BY <1>2, PushesFinite
    <2>2. Pushes(t) \subseteq Nat \ {0}
      BY <2>1 DEF Pushes
    <2> QED
      BY <2>2, <1>2, PushesFinite
  <1> DEFINE T == Pushes(q) \ {1}
             f == [i \in Pushes(t) |-> i + 1]
  <1>4. IsFiniteSet(T) /\ Cardinality(T) = IF 1 \in Pushes(q) THEN Cardinality(Pushes(q)) - 1
                                           ELSE Cardinality(Pushes(q))
    BY <1>3, FS_RemoveElement
  <1>5. f \in Injection(Pushes(t), T)
    <2>1. \A i \in Pushes(t) : i + 1 \in T
      <3> TAKE i \in Pushes(t)
      <3>1. i + 1 \in Pushes(q)
        BY <1>2 DEF Pushes
      <3>2. i + 1 # 1
        BY <1>3
      <3> QED
        BY <3>1, <3>2
    <2>2. \A i, j \in Pushes(t) : i + 1 = j + 1 => i = j
      BY <1>3
    <2> HIDE DEF T
    <2>3. f \in [Pushes(t) -> T] /\ DOMAIN f = Pushes(t)
      BY <2>1
    <2>4. \A i, j \in Pushes(t) : f[i] = f[j] => i = j
      BY <2>2
    <2> HIDE DEF f
    <2> QED
      BY <2>3, <2>4 DEF Injection, IsInjective
  <1>6. 1 \in Pushes(q) <=> Head(q).cmd = "PUSH"
    BY <1>2 DEF Pushes
  <1> HIDE DEF f, T
  <1>7. Cardinality(Pushes(t)) <= Cardinality(T)
    BY <1>4, <1>5, FS_Injection
  <1>8. Cardinality(Pushes(t)) + (IF Head(q).cmd = "PUSH" THEN 1 ELSE 0) <= Cardinality(Pushes(q))
    BY <1>3, <1>4, <1>6, <1>7
  <1> QED
    BY <1>1, <1>8

LEMMA SameLength == ASSUME NEW a \in Nat, NEW b \in Nat, 1..a = 1..b PROVE a = b
  <1>1. a \in 1..b \/ a = 0
    OBVIOUS
  <1>2. b \in 1..a \/ b = 0
    BY SMTT(90)
  <1> QED
    BY <1>1, <1>2

LEMMA EvolvesLength ==
  ASSUME Shape, NEW k, NEW U, Evolves(k, U)
  PROVE  Len(pcs') = Len(pcs) /\ Len(pcs) \in Nat
  <1>1. DOMAIN pcs = 1..Len(pcs) /\ Len(pcs) \in Nat
    BY DEF Shape
  <1>2. DOMAIN pcs' = 1..Len(pcs') /\ Len(pcs') \in Nat /\ DOMAIN pcs' = DOMAIN pcs
    BY DEF Evolves
  <1> QED
    BY <1>1, <1>2, SameLength

LEMMA CountedInit == Init => Counted
  <1> SUFFICES ASSUME Init PROVE Counted
    OBVIOUS
  <1>1. queue = << >> /\ pcs = << >> /\ Len(pcs) = 0
    BY DEF Init
  <1>2. Pushes(queue) = {}
    BY <1>1 DEF Pushes
  <1> QED
    BY <1>1, <1>2, FS_EmptySet, BoundAssumption DEF Counted

LEMMA CountedStep == SessionInv /\ AnswerInv /\ Counted /\ [Next]_vars => Counted'
  <1> SUFFICES ASSUME SessionInv, AnswerInv, Counted, [Next]_vars PROVE Counted'
    OBVIOUS
  <1>1. Shape /\ queue \in Seq(Range(queue))
    BY DEF SessionInv, AnswerInv, Messages
  <1>2. PICK q, c : q = queue /\ c = Cardinality(Pushes(queue))
    OBVIOUS
  <1>3. q \in Seq(Range(q)) /\ c \in Nat /\ Len(pcs) \in Nat /\ Len(pcs) + c <= MaxPush /\ MaxPush \in Nat
    BY <1>1, <1>2, PushesFinite, BoundAssumption DEF Shape, Counted
  <1>4. ASSUME NEW k, NEW U, Evolves(k, U), queue' = queue PROVE Counted'
    BY <1>1, <1>4, EvolvesLength DEF Counted
  <1>5. ASSUME UNCHANGED <<pcs, queue>> PROVE Counted'
    BY <1>5 DEF Counted
  <1>6. ASSUME NEW msg, NEW expired, Forward(msg, expired),
               msg = [cmd |-> msg.cmd, uid |-> msg.uid, stream |-> msg.stream, media |-> msg.media,
                      sdp |-> msg.sdp, cert |-> msg.cert],
               msg.cmd = "PUSH" => Len(pcs) + c < MaxPush
        PROVE  Counted'
    <2>1. PICK m : m = [msg EXCEPT !.cert = cert']
      OBVIOUS
    <2>2. m.cmd = msg.cmd
      BY <2>1, <1>6
    <2>3. queue' = Append(q, m) /\ pcs' = pcs
      BY <1>2, <1>6, <2>1 DEF Forward
    <2>4. Cardinality(Pushes(Append(q, m))) = c + (IF m.cmd = "PUSH" THEN 1 ELSE 0)
      BY <1>2, <1>3, PushesAppend
    <2>5. Len(pcs) + Cardinality(Pushes(Append(q, m))) <= MaxPush
      BY <2>2, <2>4, <1>3, <1>6
    <2> QED
      BY <2>3, <2>5 DEF Counted
  <1>7. ASSUME NEW uid \in Uid, NEW s \in Stream, NEW media \in Media, NEW expired \in BOOLEAN,
               ForwardPush(uid, s, media, expired)
        PROVE  Counted'
    <2> DEFINE msg == [cmd |-> "PUSH", uid |-> uid, stream |-> s, media |-> media,
                       sdp |-> Nil, cert |-> 0]
    <2>1. Forward(msg, expired) /\ Len(pcs) + c < MaxPush
      BY <1>2, <1>7 DEF ForwardPush, Pushes
    <2>2. msg = [cmd |-> msg.cmd, uid |-> msg.uid, stream |-> msg.stream, media |-> msg.media,
                 sdp |-> msg.sdp, cert |-> msg.cert]
      OBVIOUS
    <2> HIDE DEF msg
    <2> QED
      BY <2>1, <2>2, <1>6
  <1>8. ASSUME NEW n \in DOMAIN pcs, NEW layout \in Layout, NEW expired \in BOOLEAN,
               ForwardAnswer(n, layout, expired)
        PROVE  Counted'
    <2> DEFINE msg == [cmd |-> "ANSWER", uid |-> pcs[n].uid, stream |-> pcs[n].stream,
                       media |-> {}, sdp |-> AnswerText(n, layout), cert |-> 0]
    <2>1. Forward(msg, expired)
      BY <1>8 DEF ForwardAnswer
    <2>2. /\ msg.cmd # "PUSH"
          /\ msg = [cmd |-> msg.cmd, uid |-> msg.uid, stream |-> msg.stream, media |-> msg.media,
                    sdp |-> msg.sdp, cert |-> msg.cert]
      OBVIOUS
    <2>3. PICK m : m = msg
      OBVIOUS
    <2> HIDE DEF msg
    <2> QED
      BY <2>1, <2>2, <2>3, <1>6
  <1>9. CASE RenewElsewhere
    BY <1>5, <1>9 DEF RenewElsewhere
  <1>10. ASSUME NEW fails \in SUBSET Network, NEW intact, NEW crash \in BOOLEAN,
               ProcessPush(fails, intact, crash)
         PROVE  Counted'
    <2>1. /\ queue # << >> /\ Head(queue).cmd = "PUSH" /\ queue' = Tail(queue)
          /\ \E pc : pcs' = Append(pcs, pc)
      BY <1>10 DEF ProcessPush
    <2>2. Len(pcs') = Len(pcs) + 1
      <3>1. PICK p, pc : p = pcs /\ pcs' = Append(p, pc)
        BY <2>1
      <3>2. p \in Seq(Range(p) \cup {pc})
        BY <3>1, <1>1 DEF Shape
      <3> QED
        BY <3>1, <3>2
    <2>3. Cardinality(Pushes(Tail(q))) + 1 <= c
      BY <2>1, <1>2, <1>3, PushesTail
    <2>4. PICK t : t = Tail(q)
      OBVIOUS
    <2>5. Cardinality(Pushes(t)) \in Nat
      BY <2>1, <2>4, <1>2, <1>3, RestInSeq, PushesFinite
    <2>6. Len(pcs) + 1 + Cardinality(Pushes(t)) <= MaxPush
      BY <2>3, <2>4, <2>5, <1>3
    <2> QED
      BY <2>1, <2>2, <2>4, <2>6, <1>2 DEF Counted
  <1>11. CASE ProcessAnswer
    <2>1. queue # << >> /\ Head(queue).cmd = "ANSWER" /\ queue' = Tail(queue)
      BY <1>11 DEF ProcessAnswer
    <2>2. PICK k, U : Evolves(k, U)
      BY <1>1, <1>11, ProcessAnswerEvolves
    <2>3. Len(pcs') = Len(pcs)
      BY <2>2, <1>1, EvolvesLength
    <2>4. PICK t : t = Tail(q)
      OBVIOUS
    <2>5. Cardinality(Pushes(t)) \in Nat
      BY <2>1, <2>4, <1>2, <1>3, RestInSeq, PushesFinite
    <2>6. Cardinality(Pushes(t)) <= c
      BY <2>1, <2>4, <2>5, <1>2, <1>3, PushesTail
    <2>7. Len(pcs) + Cardinality(Pushes(t)) <= MaxPush
      BY <2>5, <2>6, <1>3
    <2> QED
      BY <2>1, <2>3, <2>4, <2>7, <1>2 DEF Counted
  <1>12. ASSUME NEW n \in DOMAIN pcs, NEW mid \in DOMAIN pcs[n].channels, NEW x \in Network \X Addr,
                NEW check \in Check, ReceiveRequest(n, mid, x, check)
         PROVE  Counted'
    BY <1>1, <1>4, <1>12, ReceiveRequestEvolves DEF ReceiveRequest
  <1>13. ASSUME NEW n \in DOMAIN pcs, NEW mid \in DOMAIN pcs[n].channels, NEW x \in Network \X Addr,
                NEW type, ReceiveResponse(n, mid, x, type)
         PROVE  Counted'
    BY <1>5, <1>13 DEF ReceiveResponse
  <1>14. ASSUME NEW n \in DOMAIN pcs, NEW mid \in DOMAIN pcs[n].channels, NEW x \in Network \X Addr,
                NEW packet \in Packet, NEW crash \in BOOLEAN, ReceivePacket(n, mid, x, packet, crash)
         PROVE  Counted'
    BY <1>1, <1>4, <1>14, ReceivePacketEvolves DEF ReceivePacket
  <1>15. CASE UNCHANGED vars
    BY <1>5, <1>15 DEF vars
  <1> QED
    BY <1>7, <1>8, <1>9, <1>10, <1>11, <1>12, <1>13, <1>14, <1>15 DEF Next, Datagram

-----------------------------------------------------------------------------
(* Pings and replies *)

\* IceConnection::ping, ConnectionRequest::prepare: to a peer whose one answer
\* was understood goes a request that the peer accepts.
THEOREM PingsAreAccepted == Spec => []PingsAcceptable
  <1>1. SessionInv => PingsAcceptable
    <2> SUFFICES ASSUME SessionInv, NEW r \in Reached,
                        NEW n, n = r[1], NEW mid, mid = r[2], NEW x, x = r[3],
                        NEW ch, ch = Channel(n, mid), NEW conn, conn = ch.conns[x],
                        NEW ping, ping = PingMessage(n, mid, x),
                        conn # Nil, conn.password # Empty
                 PROVE  /\ RfcFramed(ping) /\ RfcFingerprint(ping)
                        /\ ch.remote = Remote(n) /\ ~ ch.replaced /\ conn.ufrag = Remote(n).ufrag =>
                             /\ RfcIntegrity(ping, Remote(n).pwd)
                             /\ Carries(ping, "USERNAME", <<Remote(n).ufrag, Local(n).ufrag>>)
      BY Zenon DEF PingsAcceptable
    <2>1. n \in DOMAIN pcs /\ mid \in DOMAIN pcs[n].channels /\ x \in Place
      BY DEF Reached, Place
    <2>2. ch.params = Local(n) /\ Passwords(ch)
      BY <2>1 DEF SessionInv, Credentials, Channel
    <2>3. IsPing(ping, conn, Local(n))
      BY <2>2, BindingRequestIs DEF PingMessage
    <2>4. ASSUME ch.remote = Remote(n), ~ ch.replaced, conn.ufrag = Remote(n).ufrag
          PROVE  conn.password = Remote(n).pwd
      BY <2>1, <2>2, <2>4 DEF Passwords
    <2> QED
      BY <2>3, <2>4 DEF IsPing
  <1> QED
    BY <1>1, SessionInvariant, PTL

\* _on_read_packet, get_stun_message: a request that RFC 5389 and RFC 8445
\* reject gets the error they ask for, one of the offer's peer its success, and
\* every reply is a message of the RFC.
THEOREM RepliesFollowRfc == Spec => []RepliesMatchRfc
  <1>1. SessionInv /\ AnswerInv /\ Counted => RepliesMatchRfc
    <2> SUFFICES ASSUME SessionInv, AnswerInv, Counted, NEW r \in Reached, NEW check \in Check
                 PROVE  LET n    == r[1]
                            ch   == Channel(n, r[2])
                            d    == PeerRequest[<<n, check>>]
                            conn == ch.conns[r[3]]
                        IN  IsReply(RequestReply(d, ch, conn, r[3][2]), RfcVerdict(d, Local(n)),
                                    d, Local(n), conn, r[3][2])
      BY Zenon DEF RepliesMatchRfc, IsReply
    <2>0. PICK n, mid, x : n = r[1] /\ mid = r[2] /\ x = r[3]
      OBVIOUS
    <2> DEFINE ch == Channel(n, mid)
    <2>1. n \in DOMAIN pcs /\ mid \in DOMAIN pcs[n].channels /\ x[2] \in Addr
      BY <2>0 DEF Reached
    <2>2. ch.params = Local(n)
      BY <2>1 DEF SessionInv, Credentials, Channel
    <2>3. n \in 1..MaxPush
      <3>1. DOMAIN pcs = 1..Len(pcs) /\ Len(pcs) \in Nat
        BY DEF SessionInv, Shape
      <3>2. Len(pcs) <= MaxPush
        <4>1. Cardinality(Pushes(queue)) \in Nat
          BY PushesFinite DEF AnswerInv, Messages
        <4> QED
          BY <3>1, <4>1, BoundAssumption DEF Counted
      <3> QED
        BY <2>1, <3>1, <3>2, BoundAssumption
    <2> QED
      BY <2>0, <2>1, <2>2, <2>3, ReplyFollowsRfc
  <1>2. Spec => []Counted
    BY CountedInit, CountedStep, SessionInvariant, AnswerInvariant, PTL DEF Spec
  <1> QED
    BY <1>1, <1>2, SessionInvariant, AnswerInvariant, PTL
=============================================================================
