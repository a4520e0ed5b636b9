---------------------------- MODULE RtcSession ----------------------------
(***************************************************************************)
(* What becomes of pushes and answers in an RTC worker: the stream         *)
(* manager, the peer connections with their descriptions, transport        *)
(* controllers, ICE agents, channels, ports and DTLS transports, and the   *)
(* datagrams of the peers.  One thread runs every handler to its end; the  *)
(* certificate its handlers point to belongs to the thread of RtcServer.   *)
(* Pings and states of connections over time are in IceChannel and IcePing.*)
(*                                                                         *)
(* Deleting a stream leaves its IceAgent, and with it channel, ports and   *)
(* sockets, behind: peer connections are never removed from the model.     *)
(***************************************************************************)
EXTENDS Integers, Sequences, FiniteSets, SequencesExt, StunMessage, SessionDescription

CONSTANTS
  Stream, Uid,
  Media,          \* the audio and video flags of pushes: sets of mids
  Network,        \* the interfaces: records [ip, private]
  Ranges,         \* configured pairs of ice_min_port and ice_max_port
  Port,           \* ports a socket may be bound to
  Taken,          \* those that other programs hold or that are not permitted
  Addr,           \* addresses of peers
  Check,          \* the ways a peer's binding request may be made (PeerMessage)
  Layout,         \* the ways the text of an answer may be laid out (AnswerText)
  PeerUfragSize,  \* length of a peer's ufrag
  MaxPush,        \* bound on pushes
  MaxAnswer,      \* bound on answers
  MaxQueue,       \* bound on messages waiting for the worker
  MaxCert         \* bound on certificates

\* The buffer of AsyncUdpSocket
MAX_BUF_SIZE == 1500

ASSUME BoundAssumption ==
  /\ MaxPush \in Nat /\ MaxAnswer \in Nat /\ MaxQueue \in Nat /\ MaxCert \in Nat \ {0}
\* A ufrag is known from a binding request, which fits the receive buffer.
ASSUME UfragAssumption == PeerUfragSize \in 1..MAX_BUF_SIZE
\* The configuration has numbers, and a port of a range may be bound to.
ASSUME PortAssumption ==
  /\ Port \subseteq Nat \ {0} /\ Ranges \subseteq Int \X Int
  /\ \A r \in Ranges : r[1] > 0 => r[1]..r[2] \subseteq Port

\* No transport description that create_offer makes is a null pointer.
ASSUME NilAssumption ==
  Nil \notin [mid : {"audio", "video"}, ufrag : {"local"} \X Nat, pwd : {"localpwd"} \X Nat,
              fingerprint : {"cert", "freed"} \X Nat, role : {"actpass"}]

VARIABLES
  range,          \* the configured pair of ports
  cert,           \* the certificate RtcServer holds; earlier ones are freed
  queue,          \* the worker's messages
  answers,        \* number of answers forwarded
  push_streams,   \* _push_streams: index into pcs, 0 for none
  pcs,            \* the peer connections, in the order they were made
  running         \* the process has not crashed

vars == <<range, cert, queue, answers, push_streams, pcs, running>>

Init ==
  /\ range \in Ranges /\ cert = 1 /\ queue = << >> /\ answers = 0
  /\ push_streams = [s \in Stream |-> 0] /\ pcs = << >>
  /\ running = TRUE

\* The credentials of the n-th peer connection (create_random_ice_credentials)
\* and of the peer that got its offer
Local(n) == [ufrag |-> <<"local", n>>, pwd |-> <<"localpwd", n>>]
Remote(n) == [ufrag |-> <<"remote", n>>, pwd |-> <<"remotepwd", n>>]
NoParams == [ufrag |-> Empty, pwd |-> Empty]

ICE_UFRAG_LENGTH == 4

-----------------------------------------------------------------------------
(* RtcServer: _process_rtc_msg *)

\* The certificate is checked with every message, and its address goes along.
Forward(msg, expired) ==
  /\ running /\ Len(queue) < MaxQueue
  /\ expired => cert < MaxCert
  /\ cert' = IF expired THEN cert + 1 ELSE cert
  /\ queue' = Append(queue, [msg EXCEPT !.cert = cert'])
  /\ answers' = IF msg.cmd = "ANSWER" THEN answers + 1 ELSE answers
  /\ UNCHANGED <<range, push_streams, pcs, running>>

\* A message for another worker renews it.
RenewElsewhere ==
  /\ running /\ cert < MaxCert /\ cert' = cert + 1
  /\ UNCHANGED <<range, queue, answers, push_streams, pcs, running>>

ForwardPush(uid, s, media, expired) ==
  /\ Len(pcs) + Cardinality({i \in DOMAIN queue : queue[i].cmd = "PUSH"}) < MaxPush
  /\ Forward([cmd |-> "PUSH", uid |-> uid, stream |-> s, media |-> media,
              sdp |-> Nil, cert |-> 0], expired)

\* The text a client answers the n-th offer with, in one of the layouts.
\*   crlf, the line ends; cr, that of the last credential;
\*   level: "media", or "session" for credentials above the m-lines;
\*   bad: a fingerprint that cannot be parsed
AnswerText(n, layout) ==
  LET Line(key, value) == [key |-> key, value |-> value, cr |-> layout.crlf]
      fp    == Line("a=fingerprint", IF layout.bad THEN Empty ELSE <<"peer", n>>)
      creds == <<Line("a=ice-ufrag", Remote(n).ufrag),
                 [Line("a=ice-pwd", Remote(n).pwd) EXCEPT !.cr = layout.cr]>>
      Section(mid) == <<Line("m=", <<mid, 0>>)>> \o
                      (IF layout.level = "media" THEN <<fp>> \o creds ELSE <<fp>>)
      mids  == pcs[n].desc.contents
  IN  [crlf |-> layout.crlf,
       lines |-> <<Line("v=", <<"0", 0>>), Line("a=group", <<"BUNDLE", 0>>)>>
                 \o (IF layout.level = "session" THEN creds ELSE << >>)
                 \o FlattenSeq([i \in DOMAIN mids |-> Section(mids[i])])]

ForwardAnswer(n, layout, expired) ==
  /\ answers < MaxAnswer
  /\ Forward([cmd |-> "ANSWER", uid |-> pcs[n].uid, stream |-> pcs[n].stream,
              media |-> {}, sdp |-> AnswerText(n, layout), cert |-> 0], expired)

-----------------------------------------------------------------------------
(* A push: RtcWorker::_process_push, create_push_stream, create_offer *)

\* PortAllocator::set_port_range: what is left of the configured pair
PortRange ==
  [min |-> IF range[1] > 0 THEN range[1] ELSE 0,
   max |-> IF range[2] > 0 /\ range[2] > range[1] THEN range[2] ELSE 0]

Channels == UNION {Range(pcs[n].channels) : n \in DOMAIN pcs}

\* Ports of an interface that bind() refuses
Held(nw) == Taken \cup {p.port : p \in {q \in UNION {ch.ports : ch \in Channels} : q.network = nw}}

\* Mutant: the last port of the range is not tried.
SockBindShort(nw, sin_port, port) ==
  LET free == (PortRange.min .. (PortRange.max - 1)) \ Held(nw) IN
  IF PortRange.min = 0 \/ PortRange.max = 0 THEN port \in Port \ Held(nw) /\ sin_port \in {0, port}
  ELSE port \in free /\ \A q \in free : port <= q

\* sock_bind gives a socket the port: the first free one of the range.  Without
\* a range bind() is called with what is in sin_port.
SockBind(nw, sin_port, port) ==
  LET free == (PortRange.min .. PortRange.max) \ Held(nw) IN
  IF PortRange.min = 0 \/ PortRange.max = 0 THEN port \in Port \ Held(nw) /\ sin_port \in {0, port}
  ELSE port \in free /\ \A q \in free : port <= q

\* create_ice_candidate on every interface that a socket can be had for
\* (fails: the others): the interfaces that get a port, and which.  It does not
\* initialise sin_port: 0, for which the kernel chooses, or some port.
GatheredPorts(fails) ==
  LET Bindable(sin_port) ==
        {nw \in Network \ fails : \E p \in Port : SockBind(nw, sin_port[nw], p)}
  IN  UNION {{f \in [Bindable(sin_port) -> Port] :
                \A nw \in DOMAIN f : SockBind(nw, sin_port[nw], f[nw])} :
             sin_port \in [Network -> Port \cup {0}]}

\* Mutant: the channel is named after the last content of the bundle.
ChannelMidsLast(desc) == {desc.contents[i] : i \in {Len(desc.contents)} \ {0}}

\* TransportController::set_local_description: the contents that get a channel
\* (create_channel) and a DtlsTransport (_add_dtls_transport)
ChannelMids(desc) ==
  {mid \in Range(desc.contents) : IsBundle(desc, mid) => mid = GetFirstBundleMid(desc)}

\* DtlsTransport, after set_local_certificate
NewDtlsTransport(certificate) ==
  [local_certificate |-> certificate, cached_client_hello |-> FALSE, dtls |-> FALSE]

\* gathering_candidate: no ports without credentials
NewChannel(desc, mid, certificate, bound) ==
  LET td == GetTransportInfo(desc, mid) IN
  [params |-> IF td = Nil THEN NoParams ELSE [ufrag |-> td.ufrag, pwd |-> td.pwd],
   remote |-> NoParams, replaced |-> FALSE,
   ports |-> IF td = Nil THEN {} ELSE {[network |-> nw, port |-> bound[nw]] : nw \in DOMAIN bound},
   conns |-> [x \in Network \X Addr |-> Nil],
   dtls |-> NewDtlsTransport(certificate)]

\* PeerConnection::create_offer up to set_local_description, fingerprint being
\* what add_transport_info takes of the certificate for each content.  With the
\* options of a PushStream everything is bundled.
OfferDescription(n, media, fingerprint) ==
  LET Add(desc, mid) ==
        IF mid \in media
        THEN AddTransportInfo(AddContent(desc, mid), mid, Local(n), fingerprint[mid]) ELSE desc
      desc == Add(Add(NewSessionDescription("offer"), "audio"), "video")
      Name(names, mid) == IF mid \in Range(desc.contents) THEN AddContentName(names, mid) ELSE names
      names == Name(Name(<< >>, "audio"), "video")
  IN  IF names = << >> THEN desc ELSE AddGroup(desc, names)

\* on_candidate_allocate_done, for each channel that gathered
AddGathered(desc, channels) ==
  LET Done(d, mid) == IF mid \in DOMAIN channels
                      THEN AddCandidates(d, mid, channels[mid].ports) ELSE d
  IN  Done(Done(desc, "audio"), "video")

\* The n-th peer connection, with what its offer said.  Only the contents in
\* intact had their fingerprint taken while the certificate was there; that of
\* a freed one may be anything.
NewPeerConnection(n, msg, intact, fails, bound) ==
  LET Fingerprint(mid) == IF mid \in intact THEN <<"cert", msg.cert>> ELSE <<"freed", 0>>
      desc  == OfferDescription(n, msg.media, [mid \in {"audio", "video"} |-> Fingerprint(mid)])
      channels == [mid \in ChannelMids(desc) |-> NewChannel(desc, mid, msg.cert, bound)]
      done  == AddGathered(desc, channels)
  IN  [uid |-> msg.uid, stream |-> msg.stream, intact |-> intact, fails |-> fails,
       desc |-> done, offer |-> OfferText(done), channels |-> channels]

\* create_push_stream.  RtcServer runs on: it may free the certificate before
\* the message is taken, or before any of the fingerprints, audio first.  The
\* use of a freed one may end the process.  After the fingerprints only the
\* address is copied, so that a renewal then is a step of its own.
ProcessPush(fails, intact, crash) ==
  /\ running /\ queue # << >> /\ Head(queue).cmd = "PUSH"
  /\ LET msg  == Head(queue)
         used == msg.media \cap {"audio", "video"}
     IN  /\ intact \subseteq used
         /\ intact # {} => msg.cert = cert
         /\ intact = {"video"} => used = {"video"}
         /\ cert' = IF msg.cert = cert /\ intact # used THEN cert + 1 ELSE cert
         /\ crash => intact # used
         /\ \E bound \in GatheredPorts(fails) :
              pcs' = Append(pcs, NewPeerConnection(Len(pcs) + 1, msg, intact, fails, bound))
  /\ cert' <= MaxCert
  /\ running' = ~ crash
  /\ push_streams' = [push_streams EXCEPT ![Head(queue).stream] = Len(pcs) + 1]
  /\ queue' = Tail(queue)
  /\ UNCHANGED <<range, answers>>

-----------------------------------------------------------------------------
(* An answer: RtcStreamManager::set_answer, PeerConnection::set_remote_sdp *)

\* IceConnection::maybe_set_remote_ice_params
MaybeSetRemoteIceParams(conn, params) ==
  IF conn # Nil /\ conn.ufrag = params.ufrag /\ conn.password = Empty
  THEN [conn EXCEPT !.password = params.pwd] ELSE conn

\* Mutant: only connections made from now on get the password.
SetRemoteIceParamsLater(ch, params) ==
  [ch EXCEPT !.remote = params,
             !.replaced = @ \/ ch.remote \notin {NoParams, params}]

\* IceTransportChannel::set_remote_ice_params
SetRemoteIceParams(ch, params) ==
  [ch EXCEPT !.remote = params,
             !.replaced = @ \/ ch.remote \notin {NoParams, params},
             !.conns = [x \in DOMAIN @ |-> MaybeSetRemoteIceParams(@[x], params)]]

\* TransportController::set_remote_description.  IceAgent ignores a content
\* that has no channel.
SetRemoteDescription(channels, desc) ==
  [mid \in DOMAIN channels |->
     IF mid \in Range(desc.contents) /\ (IsBundle(desc, mid) => mid = GetFirstBundleMid(desc))
     THEN LET td == GetTransportInfo(desc, mid)
          IN  SetRemoteIceParams(channels[mid], [ufrag |-> td.ufrag, pwd |-> td.pwd])
     ELSE channels[mid]]

\* Mutant: the user is not compared.
MayAnswerAnyUser(msg) == push_streams[msg.stream] # 0

\* find_push_stream and the comparison of the uids
MayAnswer(msg) ==
  push_streams[msg.stream] # 0 /\ msg.uid = pcs[push_streams[msg.stream]].uid

\* A text that does not parse leaves the channels as they were.
ProcessAnswer ==
  /\ running /\ queue # << >> /\ Head(queue).cmd = "ANSWER"
  /\ LET msg  == Head(queue)
         desc == ParseAnswer(msg.sdp)
     IN  pcs' = IF MayAnswer(msg) /\ desc # Nil
                THEN [pcs EXCEPT ![push_streams[msg.stream]].channels =
                                   SetRemoteDescription(@, desc)]
                ELSE pcs
  /\ queue' = Tail(queue)
  /\ UNCHANGED <<range, cert, answers, push_streams, running>>

-----------------------------------------------------------------------------
(* Datagrams.  A channel is named by the peer connection and the mid, its    *)
(* port by the interface; x is the pair of interface and peer address.       *)

\* UDPPort::get_stun_message: 0 for a message it accepts, the code of the
\* error it sends, -1 for what is no STUN message
GetStunMessage(d, params) ==
  IF ~ (ValidateFingerprint(d) /\ Readable(d)) THEN -1
  ELSE IF d.type # STUN_BINDING_REQUEST THEN 0
  ELSE IF ~ (HasAttribute(d, "USERNAME") /\ HasAttribute(d, "MESSAGE_INTEGRITY"))
    THEN STUN_ERROR_BAD_REQUEST
  \* _parse_stun_username: two fields, ours first
  ELSE LET fields == GetAttribute(d, "USERNAME").value IN
       IF \/ Len(fields) # 2 \/ fields[1] # params.ufrag
          \/ ~ ValidateMessageIntegrity(d, params.pwd)
       THEN STUN_ERROR_UNAUTHORIZED ELSE 0

\* send_binding_error_response, for the two codes that occur: "Bad request",
\* "Unauthorized", no integrity
BindingErrorResponse(d, code) ==
  Write(AddFingerprint(AddAttribute(
    NewStunMessage(STUN_BINDING_ERROR_RESPONSE, d.id),
    StunErrorCodeAttribute(code, IF code = STUN_ERROR_BAD_REQUEST THEN 11 ELSE 12))))

\* send_stun_binding_response
BindingResponse(d, addr, params) ==
  Write(AddFingerprint(AddMessageIntegrity(
    AddAttribute(NewStunMessage(STUN_BINDING_RESPONSE, d.id),
                 StunXorAddressAttribute("XOR_MAPPED_ADDRESS", addr)),
    params.pwd)))

\* Mutant: the two halves of the user name are swapped.
BindingRequestSwapped(id, conn, params) ==
  Write(AddFingerprint(AddMessageIntegrity(AddAttribute(AddAttribute(
    NewStunMessage(STUN_BINDING_REQUEST, id),
    StunByteStringAttribute("USERNAME", PeerUfragSize + 1 + ICE_UFRAG_LENGTH,
                            <<params.ufrag, conn.ufrag>>)),
    StunUint32Attribute("PRIORITY", <<110>>)), conn.password)))

\* ConnectionRequest::prepare, create_stun_username: theirs first
BindingRequest(id, conn, params) ==
  LET name == StunByteStringAttribute("USERNAME", PeerUfragSize + 1 + ICE_UFRAG_LENGTH,
                                      <<conn.ufrag, params.ufrag>>)
      named == AddAttribute(NewStunMessage(STUN_BINDING_REQUEST, id), name)
      role  == AddAttribute(AddAttribute(named, StunUint64Attribute("ICE_CONTROLLING", <<0>>)),
                            StunByteStringAttribute("USE_CANDIDATE", 0, << >>))
      msg   == AddAttribute(role, StunUint32Attribute("PRIORITY", <<110>>))
  IN  Write(AddFingerprint(AddMessageIntegrity(msg, conn.password)))

Channel(n, mid) == pcs[n].channels[mid]
HasPort(n, mid, x) == x[1] \in {p.network : p \in Channel(n, mid).ports}

\* IceConnection::ping.  When it is sent, and what it changes, is in IceChannel.
PingMessage(n, mid, x) ==
  BindingRequest(<<"local", n>>, Channel(n, mid).conns[x], Channel(n, mid).params)

\* IceTransportChannel::_on_unknown_address: the peer-reflexive candidate
NewConnection(d, ch) ==
  [ufrag |-> GetAttribute(d, "USERNAME").value[2], password |-> ch.remote.pwd]

\* The answer to a binding request, Nil for silence: _on_read_packet of the
\* port, and of the connection if the address has one
RequestReply(d, ch, conn, addr) ==
  LET code == GetStunMessage(d, ch.params) IN
  IF code = -1 THEN Nil
  ELSE IF code # 0 THEN BindingErrorResponse(d, code)
  ELSE IF conn = Nil /\ ~ HasAttribute(d, "PRIORITY")
    THEN BindingErrorResponse(d, STUN_ERROR_BAD_REQUEST)
  ELSE IF conn # Nil /\ GetAttribute(d, "USERNAME").value[2] # conn.ufrag
    THEN BindingErrorResponse(d, STUN_ERROR_UNAUTHORIZED)
  ELSE BindingResponse(d, addr, ch.params)

\* A request of the n-th peer, as RFC 8445 has it, or with something wrong
RequestName(n, user) ==
  CASE user = "offered" -> <<Local(n).ufrag, Remote(n).ufrag>>
    [] user = "other"   -> <<Local(0).ufrag, Remote(n).ufrag>>
    [] user = "restart" -> <<Local(n).ufrag, Remote(0).ufrag>>
    [] user = "single"  -> <<Local(n).ufrag>>
    [] user = "none"    -> << >>

PeerMessage(n, check) ==
  LET name  == RequestName(n, check.user)
      username == [type |-> "USERNAME", length |-> ICE_UFRAG_LENGTH + 1 + PeerUfragSize,
                   value |-> name]
      attrs == (IF name = << >> THEN << >> ELSE <<username>>)
               \o <<[type |-> "SOFTWARE", length |-> 5, value |-> << >>],
                    [type |-> check.role, length |-> 8, value |-> <<"tie", n>>]>>
               \o (IF check.priority THEN <<[type |-> "PRIORITY", length |-> 4, value |-> <<1>>]>>
                                     ELSE << >>)
      d == RfcMessage(STUN_BINDING_REQUEST, <<"peer", n>>, attrs, check.key # "none",
                      IF check.key = "offered" THEN Local(n).pwd ELSE Local(0).pwd)
  IN  IF check.damaged THEN [d EXCEPT !.id = <<"damaged", n>>] ELSE d

PeerRequest == [r \in (1..MaxPush) \X Check |-> PeerMessage(r[1], r[2])]

\* What a request is made of, and no reply is a null pointer.
ASSUME CheckAssumption ==
  Check \subseteq [user : {"offered", "other", "restart", "single", "none"},
                   key : {"offered", "wrong", "none"}, role : {"ICE_CONTROLLED", "ICE_CONTROLLING"},
                   priority : BOOLEAN, damaged : BOOLEAN]
ASSUME ReplyAssumption ==
  \A n \in 1..MaxPush, check \in Check :
    LET d == PeerRequest[<<n, check>>] IN
    /\ \A code \in {STUN_ERROR_BAD_REQUEST, STUN_ERROR_UNAUTHORIZED} :
         Nil # BindingErrorResponse(d, code)
    /\ \A addr \in Addr : Nil # BindingResponse(d, addr, Local(n))

ReceiveRequest(n, mid, x, check) ==
  LET ch    == Channel(n, mid)
      conn  == ch.conns[x]
      d     == PeerRequest[<<n, check>>]
      reply == RequestReply(d, ch, conn, x[2])
  IN  /\ running /\ HasPort(n, mid, x)
      /\ pcs' = IF conn = Nil /\ reply # Nil /\ reply.type = STUN_BINDING_RESPONSE
                THEN [pcs EXCEPT ![n].channels[mid].conns[x] = NewConnection(d, ch)]
                ELSE pcs
      /\ UNCHANGED <<range, cert, queue, answers, push_streams, running>>

\* The peer answers a ping, sent once its password was known, with a message
\* it signs with that password: IceConnection::on_read_packet, check_response.
\* The code of an error is never read (GetErrorCodeValue), so that none is
\* taken for one to try again after; the connection goes, and with it the
\* process (IceChannel).
ReceiveResponse(n, mid, x, type) ==
  LET ch   == Channel(n, mid)
      conn == ch.conns[x]
      d    == RfcMessage(type, <<"local", n>>,
                IF type = STUN_BINDING_RESPONSE
                THEN <<[type |-> "XOR_MAPPED_ADDRESS", length |-> 8, value |-> <<"xored", 0>>]>>
                ELSE <<[type |-> "ERROR_CODE", length |-> 16, value |-> <<4, 1>>]>>,
                TRUE, Remote(n).pwd)
      taken == /\ GetStunMessage(d, ch.params) = 0
               /\ ValidateMessageIntegrity(d, conn.password)
  IN  /\ running /\ conn # Nil
      /\ conn.password # Empty
      /\ running' = ~ (/\ taken /\ type = GetStunErrorResponse(STUN_BINDING_REQUEST)
                       /\ GetErrorCodeValue(d) \notin {<<4, 1>>, <<4, 20>>, <<5, 0>>})
      /\ UNCHANGED <<range, cert, queue, answers, push_streams, pcs>>

\* is_dtls_client_hello_packet: a handshake record whose message type is less
\* than 1, that is a HelloRequest; a ClientHello has type 1.
IsDtlsClientHelloPacket(packet) == packet.content = 22 /\ packet.handshake < 1

\* A packet that is no STUN message, on a connection: DtlsTransport's
\* _on_read_packet in state k_new, which nothing leaves.  _setup_dtls clones
\* the identity of a certificate that may have been freed.
ReceivePacket(n, mid, x, packet, crash) ==
  LET dtls  == Channel(n, mid).dtls
      hello == IsDtlsClientHelloPacket(packet)
  IN  /\ running /\ Channel(n, mid).conns[x] # Nil
      /\ crash => hello /\ ~ dtls.dtls /\ dtls.local_certificate # cert
      /\ running' = ~ crash
      /\ pcs' = IF hello THEN [pcs EXCEPT ![n].channels[mid].dtls.cached_client_hello = TRUE,
                                          ![n].channels[mid].dtls.dtls = TRUE]
                ELSE pcs
      /\ UNCHANGED <<range, cert, queue, answers, push_streams>>

Packet == {[content |-> 22, handshake |-> 0], [content |-> 22, handshake |-> 1],
           [content |-> 23, handshake |-> 0]}

Datagram ==
  \E n \in DOMAIN pcs : \E mid \in DOMAIN pcs[n].channels, x \in Network \X Addr :
    \/ \E check \in Check : ReceiveRequest(n, mid, x, check)
    \/ \E type \in {STUN_BINDING_RESPONSE, STUN_BINDING_ERROR_RESPONSE} :
         ReceiveResponse(n, mid, x, type)
    \/ \E packet \in Packet, crash \in BOOLEAN : ReceivePacket(n, mid, x, packet, crash)

Next ==
  \/ \E uid \in Uid, s \in Stream, media \in Media, expired \in BOOLEAN :
       ForwardPush(uid, s, media, expired)
  \/ \E n \in DOMAIN pcs, layout \in Layout, expired \in BOOLEAN :
       ForwardAnswer(n, layout, expired)
  \/ RenewElsewhere
  \/ \E fails \in SUBSET Network, intact \in SUBSET {"audio", "video"}, crash \in BOOLEAN :
       ProcessPush(fails, intact, crash)
  \/ ProcessAnswer
  \/ Datagram

Spec == Init /\ [][Next]_vars

-----------------------------------------------------------------------------
(* Properties *)

\* The channel a peer reaches for an m-line of an offer: that of the first
\* bundled content, or the content's own
ServingMid(offer, mid) == IF mid \in Range(offer.bundle) THEN offer.bundle[1] ELSE mid

\* Every m-line that create_offer shows is served: its channel exists, checks
\* the very credentials the m-line shows, listens where the candidates point,
\* and its DTLS transport has the certificate whose fingerprint is shown,
\* unless RtcServer freed that one before this fingerprint was taken.
OfferServed ==
  \A n \in DOMAIN pcs :
    LET offer == pcs[n].offer IN
    \A i \in DOMAIN offer.media :
      LET m   == offer.media[i]
          mid == ServingMid(offer, m.mid)
      IN  /\ mid \in DOMAIN pcs[n].channels
          /\ LET ch == Channel(n, mid) IN
             /\ [ufrag |-> m.info.ufrag, pwd |-> m.info.pwd] = ch.params
             /\ m.mid = mid => m.candidates = {ShownCandidate(p) : p \in ch.ports}
             /\ m.mid \in pcs[n].intact => m.info.fingerprint = <<"cert", ch.dtls.local_certificate>>

\* The pair of ports is a range: sock_bind keeps to it.
Limited == 0 < range[1] /\ range[1] < range[2]

\* The interfaces that a socket could be had for and whose candidate a channel
\* of the n-th peer connection lacks
Lacks(n) == {nw \in Network \ pcs[n].fails : \E mid \in DOMAIN pcs[n].channels :
               nw \notin {p.network : p \in pcs[n].channels[mid].ports}}

\* sock_bind, over the life of the worker and with the ports of deleted
\* streams still held: no two sockets of an interface share a port; with a
\* range of ports they keep to it, and an offer lacks a candidate for an
\* interface only when the whole range is taken there.
PortsFromRange ==
  LET Bound(n) == UNION {ch.ports : ch \in Range(pcs[n].channels)}
  IN  /\ \A m, n \in DOMAIN pcs : m # n => Bound(m) \cap Bound(n) = {}
      /\ Limited => \A n \in DOMAIN pcs :
           /\ \A p \in Bound(n) : p.port \in range[1]..range[2]
           /\ \A nw \in Lacks(n) : range[1]..range[2] \subseteq Held(nw)

\* set_answer: credentials that are not those of a channel's own peer are an
\* earlier peer's of the same user and stream, whose answer came after the
\* user had pushed the stream anew.
AnswerReachesItsPush ==
  \A n \in DOMAIN pcs : \A mid \in DOMAIN pcs[n].channels :
    \A k \in DOMAIN pcs \ {n} :
      Channel(n, mid).remote.ufrag = Remote(k).ufrag =>
        k < n /\ pcs[k].uid = pcs[n].uid /\ pcs[k].stream = pcs[n].stream

\* maybe_set_remote_ice_params: whether the peer's checks or its answer come
\* first, its connections have the password of the answer, until a second,
\* different answer replaces the first.
PasswordFollowsAnswer ==
  \A n \in DOMAIN pcs : \A mid \in DOMAIN pcs[n].channels :
    LET ch == Channel(n, mid) IN
    ~ ch.replaced =>
      \A x \in Network \X Addr :
        ch.conns[x] # Nil /\ ch.conns[x].ufrag = ch.remote.ufrag =>
          ch.conns[x].password = ch.remote.pwd

\* A datagram has an attribute of a type with a value.
Carries(d, type, value) ==
  \E i \in DOMAIN d.attrs : d.attrs[i].type = type /\ d.attrs[i].value = value

\* Channels with a port that a peer's datagram may come to
Reached == {r \in (DOMAIN pcs) \X {"audio", "video"} \X (Network \X Addr) :
              r[2] \in DOMAIN pcs[r[1]].channels /\ HasPort(r[1], r[2], r[3])}

\* A ping of the worker, to a peer whose one answer was understood, is one
\* that the peer accepts: a message of RFC 5389 with the right length and
\* fingerprint, the peer's ufrag first in its user name, and signed with the
\* peer's password.
PingsAcceptable ==
  \A r \in Reached :
    LET n    == r[1]
        ch   == Channel(n, r[2])
        conn == ch.conns[r[3]]
        ping == PingMessage(n, r[2], r[3])
    IN  conn # Nil /\ conn.password # Empty =>
          /\ RfcFramed(ping) /\ RfcFingerprint(ping)
          /\ ch.remote = Remote(n) /\ ~ ch.replaced /\ conn.ufrag = Remote(n).ufrag =>
               /\ RfcIntegrity(ping, Remote(n).pwd)
               /\ Carries(ping, "USERNAME", <<Remote(n).ufrag, Local(n).ufrag>>)

\* What a peer's datagram as it is calls for by RFC 5389, 10.1.2, and RFC 8445,
\* 7.3: nothing (0), an error, or success (200).  A user name is valid when it
\* has two parts, the first being the ufrag of the offer.
RfcVerdict(d, own) ==
  LET Has(t)    == \E i \in DOMAIN d.attrs : d.attrs[i].type = t
      name      == {d.attrs[i].value : i \in {j \in DOMAIN d.attrs : d.attrs[j].type = "USERNAME"}}
      Valid(v)  == Len(v) = 2 /\ v[1] = own.ufrag
  IN  IF ~ RfcFingerprint(d) THEN 0
      ELSE IF ~ Has("USERNAME") \/ ~ Has("MESSAGE_INTEGRITY") THEN 400
      ELSE IF (\E v \in name : Valid(v)) /\ RfcIntegrity(d, own.pwd) THEN 200 ELSE 401

\* What else a request of the offer's peer has: a PRIORITY, the role of the
\* answerer, and on an address with a connection the ufrag of the connection
FromItsPeer(d, own, conn) ==
  /\ \E i, j \in DOMAIN d.attrs : d.attrs[i].type = "PRIORITY" /\ d.attrs[j].type = "ICE_CONTROLLED"
  /\ conn # Nil => Carries(d, "USERNAME", <<own.ufrag, conn.ufrag>>)

\* The port's replies to whatever request comes, at whatever time: one that
\* the RFC rejects gets exactly the error the RFC asks for, or nothing if its
\* fingerprint is wrong; one that a peer of the offer makes gets a success with
\* its own source address, signed with the password of the offer; and every
\* reply has the right length, transaction and fingerprint.
RepliesMatchRfc ==
  \A r \in Reached, check \in Check :
    LET n       == r[1]
        ch      == Channel(n, r[2])
        conn    == ch.conns[r[3]]
        d       == PeerRequest[<<n, check>>]
        reply   == RequestReply(d, ch, conn, r[3][2])
        verdict == RfcVerdict(d, Local(n))
    IN  /\ reply = Nil <=> verdict = 0
        /\ reply # Nil => RfcFramed(reply) /\ RfcFingerprint(reply) /\ reply.id = d.id
        /\ verdict \in {400, 401} =>
             /\ reply.type = STUN_BINDING_ERROR_RESPONSE
             /\ Carries(reply, "ERROR_CODE", <<verdict \div 100, verdict % 100>>)
        /\ verdict = 200 /\ FromItsPeer(d, Local(n), conn) =>
             /\ reply.type = STUN_BINDING_RESPONSE /\ RfcIntegrity(reply, Local(n).pwd)
             /\ Carries(reply, "XOR_MAPPED_ADDRESS", <<"xored", r[3][2]>>)

============================================================================
