------------------------ MODULE UdpSendQueueProofs ------------------------
(***************************************************************************)
(* The sending half of AsyncUdpSocket keeps account of its packets and     *)
(* implements LossyFifo, for any number of calls of send_to.  Both follow  *)
(* from SendInv: what was sent and what waits are, one after the other,    *)
(* increasing numbers below the packet in hand, so a packet that send_to   *)
(* refuses is in neither.                                                  *)
(***************************************************************************)
EXTENDS UdpSendQueue, SequenceTheorems, TLAPS

\* The numbers in a sequence increase.
Increasing(s) == \A i, j \in 1..Len(s) : i < j => s[i] < s[j]

\* Packets leave in the order of the calls and wait in that order.
InOrder ==
  /\ Increasing(sent) /\ Increasing(list)
  /\ \A i \in 1..Len(sent), j \in 1..Len(list) : sent[i] < list[j]

\* The packet in hand is the newest, and nothing is newer than the last call.
CurrentIsNewest ==
  /\ pc = "add" => current = handed
  /\ \A i \in 1..Len(list) : list[i] <= handed /\ list[i] # current
  /\ \A i \in 1..Len(sent) : sent[i] <= handed /\ sent[i] # current
  /\ \A p \in refused : p <= handed

SendInv ==
  /\ TypeOK
  /\ InOrder
  /\ CurrentIsNewest
  /\ PacketsAccounted

-----------------------------------------------------------------------------
\* What Head and Tail, which the flushing loops apply, do to the elements.
LEMMA HeadTailElements ==
  ASSUME NEW S, NEW s \in Seq(S), s # << >>
  PROVE  /\ Head(s) = s[1] /\ Head(s) \in S /\ Tail(s) \in Seq(S)
         /\ Len(s) \in Nat /\ Len(s) >= 1 /\ Len(Tail(s)) = Len(s) - 1
         /\ \A i \in 1..Len(Tail(s)) : i + 1 \in 1..Len(s) /\ Tail(s)[i] = s[i + 1]
  BY HeadTailProperties, EmptySeq

\* What Append, which SEND_AGAIN and sendto() apply, does to the elements.
LEMMA AppendElements ==
  ASSUME NEW S, NEW s \in Seq(S), NEW e \in S
  PROVE  /\ Append(s, e) \in Seq(S) /\ Len(s) \in Nat
         /\ Len(Append(s, e)) = Len(s) + 1
         /\ Append(s, e)[Len(s) + 1] = e
         /\ \A i \in 1..Len(s) : Append(s, e)[i] = s[i]
  BY AppendProperties

\* Taking the head leaves an increasing sequence of larger numbers.
LEMMA IncreasingTail ==
  ASSUME NEW s \in Seq(Packet), s # << >>, Increasing(s)
  PROVE  /\ Increasing(Tail(s))
         /\ \A i \in 1..Len(Tail(s)) : Head(s) < Tail(s)[i]
  <1> USE HeadTailElements DEF Increasing
  <1>1. \A i \in 1..Len(Tail(s)) : Head(s) < Tail(s)[i]
    OBVIOUS
  <1>2. Increasing(Tail(s))
    OBVIOUS
  <1> QED
    BY <1>1, <1>2

\* Appending a larger number keeps a sequence increasing.
LEMMA IncreasingAppend ==
  ASSUME NEW s \in Seq(Packet), NEW e \in Packet, Increasing(s),
         \A i \in 1..Len(s) : s[i] < e
  PROVE  Increasing(Append(s, e))
  <1> SUFFICES ASSUME NEW i \in 1..Len(Append(s, e)), NEW j \in 1..Len(Append(s, e)), i < j
               PROVE  Append(s, e)[i] < Append(s, e)[j]
    BY DEF Increasing
  <1>1. i \in 1..Len(s) /\ Append(s, e)[i] = s[i]
    BY AppendElements
  <1>2. CASE j = Len(s) + 1
    BY <1>1, <1>2, AppendElements
  <1>3. CASE j \in 1..Len(s)
    BY <1>1, <1>3, AppendElements DEF Increasing
  <1> QED
    BY <1>2, <1>3, AppendElements

-----------------------------------------------------------------------------
\* Nothing was handed over yet.
LEMMA SendInvInit == Init => SendInv
  <1> SUFFICES ASSUME Init PROVE SendInv
    OBVIOUS
  <1> USE PacketsAssumption DEF Init
  <1>1. TypeOK
    <2>1. << >> \in Seq(Packet) /\ 0 \in 0..MaxPackets
      OBVIOUS
    <2> QED
      BY <2>1 DEF TypeOK
  <1>2. InOrder
    BY DEF InOrder, Increasing
  <1>3. CurrentIsNewest
    BY DEF CurrentIsNewest
  <1>4. PacketsAccounted
    BY DEF PacketsAccounted, RefusedIsGone, NoPacketForgotten
  <1> QED
    BY <1>1, <1>2, <1>3, <1>4 DEF SendInv

\* send_to is called: the packet in hand is newer than all others.
LEMMA SendToStep ==
  ASSUME SendInv, SendTo
  PROVE  SendInv'
  <1> USE PacketsAssumption DEF SendInv, SendTo, Packet, None
  <1>1. TypeOK'
    BY DEF TypeOK
  <1>2. InOrder'
    BY DEF InOrder, Increasing
  <1>3. CurrentIsNewest'
    BY SMTT(90) DEF CurrentIsNewest, TypeOK
  <1>4. PacketsAccounted'
    <2>1. RefusedIsGone'
      BY DEF CurrentIsNewest, PacketsAccounted, RefusedIsGone, Waiting, Sent, TypeOK
    <2>2. NoPacketForgotten'
      BY DEF TypeOK, PacketsAccounted, NoPacketForgotten, Waiting, Sent
    <2> QED
      BY <2>1, <2>2 DEF PacketsAccounted
  <1> QED
    BY <1>1, <1>2, <1>3, <1>4

\* The packet in hand goes behind the ones that wait.
LEMMA SendAgainStep ==
  ASSUME SendInv, pc = "add", SendAgain, UNCHANGED <<sent, handed, refused, failed>>
  PROVE  SendInv'
  <1> USE PacketsAssumption DEF SendInv, SendAgain, None
  <1>1. current \in Packet /\ list \in Seq(Packet) /\ current = handed
    BY DEF TypeOK, CurrentIsNewest
  <1>2. \A i \in 1..Len(list) : list[i] < current /\ list[i] \in Packet
    BY <1>1 DEF CurrentIsNewest, Packet
  <1>3. \A i \in 1..Len(sent) : sent[i] < current /\ sent[i] \in Packet
    BY SMTT(90), <1>1 DEF CurrentIsNewest, Packet, TypeOK
  <1>4. TypeOK'
    BY <1>1, AppendElements DEF TypeOK
  <1>5. InOrder'
    <2>1. Increasing(list')
      BY <1>1, <1>2, IncreasingAppend DEF InOrder
    <2>2. \A i \in 1..Len(sent), j \in 1..Len(list') : sent[i] < list'[j]
      BY <1>1, <1>2, <1>3, AppendElements DEF InOrder
    <2> QED
      BY <2>1, <2>2 DEF InOrder
  <1>6. CurrentIsNewest'
    <2>1. \A i \in 1..Len(list') : list'[i] <= handed /\ list'[i] # None
      BY <1>1, <1>2, AppendElements DEF Packet
    <2>2. \A i \in 1..Len(sent) : sent[i] <= handed /\ sent[i] # None
      BY <1>1, <1>3 DEF Packet
    <2> QED
      BY <2>1, <2>2 DEF CurrentIsNewest
  <1>7. RefusedIsGone'
    BY <1>1, AppendElements DEF PacketsAccounted, RefusedIsGone, Waiting, Sent, Packet, TypeOK
  <1>8. NoPacketForgotten'
    <2> SUFFICES ASSUME NEW p \in 1..handed
                 PROVE  Waiting(p)' \/ Sent(p) \/ p \in refused \/ p \in failed
      BY DEF NoPacketForgotten, Sent
    <2>1. CASE p = current
      BY <2>1, <1>1, AppendElements DEF Waiting
    <2>2. CASE Waiting(p)
      BY <2>2, <1>1, AppendElements DEF Waiting
    <2> QED
      BY <2>1, <2>2 DEF PacketsAccounted, NoPacketForgotten
  <1> QED
    BY <1>4, <1>5, <1>6, <1>7, <1>8 DEF PacketsAccounted

\* After a tail, what waits is what waited except the head.
LEMMA WaitingTail ==
  ASSUME list \in Seq(Packet), list # << >>, list' = Tail(list)
  PROVE  \A p : Waiting(p) <=> Waiting(p)' \/ p = Head(list)
  <1> TAKE p
  <1>1. ASSUME Waiting(p), p # Head(list) PROVE Waiting(p)'
    <2>1. PICK i \in 1..Len(list) : list[i] = p
      BY <1>1 DEF Waiting
    <2>2. i - 1 \in 1..Len(Tail(list)) /\ Tail(list)[i - 1] = list[i]
      BY <2>1, <1>1, HeadTailElements
    <2> QED
      BY <2>1, <2>2 DEF Waiting
  <1>2. Waiting(Head(list))
    BY HeadTailElements DEF Waiting
  <1>3. Waiting(p)' => Waiting(p)
    BY HeadTailElements DEF Waiting
  <1> QED
    BY <1>1, <1>2, <1>3

\* The head of the list is sent, by either loop.
LEMMA HeadSentStep ==
  ASSUME SendInv, list # << >>, sent' = Append(sent, Head(list)), list' = Tail(list),
         UNCHANGED <<watched, pc, current, handed, refused, failed>>
  PROVE  SendInv'
  <1> USE PacketsAssumption DEF SendInv
  <1>1. list \in Seq(Packet) /\ sent \in Seq(Packet) /\ Head(list) \in Packet
    BY HeadTailElements DEF TypeOK
  <1>2. \A i \in 1..Len(sent) : sent[i] < Head(list)
    BY <1>1, HeadTailElements DEF InOrder
  <1>3. TypeOK'
    BY <1>1, HeadTailElements, AppendElements DEF TypeOK
  <1>4. InOrder'
    <2>1. Increasing(sent')
      BY <1>1, <1>2, IncreasingAppend DEF InOrder
    <2>2. Increasing(list')
      BY <1>1, IncreasingTail DEF InOrder
    <2>3. ASSUME NEW i \in 1..Len(sent'), NEW j \in 1..Len(list')
          PROVE  sent'[i] < list'[j]
      <3>1. CASE i = Len(sent) + 1
        BY <3>1, <1>1, IncreasingTail, AppendElements DEF InOrder
      <3>2. CASE i \in 1..Len(sent)
        BY <3>2, <1>1, HeadTailElements, AppendElements DEF InOrder
      <3> QED
        BY <3>1, <3>2, <1>1, AppendElements
    <2> QED
      BY <2>1, <2>2, <2>3 DEF InOrder
  <1>5. CurrentIsNewest'
    <2>1. \A i \in 1..Len(list') : list'[i] <= handed /\ list'[i] # current
      BY <1>1, HeadTailElements DEF CurrentIsNewest
    <2>2. Head(list) <= handed /\ Head(list) # current
      BY <1>1, HeadTailElements DEF CurrentIsNewest
    <2>3. \A i \in 1..Len(sent') : sent'[i] <= handed /\ sent'[i] # current
      BY <1>1, <2>2, AppendElements DEF CurrentIsNewest
    <2> QED
      BY <2>1, <2>3 DEF CurrentIsNewest
  <1>6. \A p : Waiting(p) <=> Waiting(p)' \/ p = Head(list)
    BY <1>1, WaitingTail
  <1>7. \A p : Sent(p)' <=> Sent(p) \/ p = Head(list)
    BY <1>1, AppendElements DEF Sent
  <1>8. RefusedIsGone'
    BY <1>6, <1>7 DEF PacketsAccounted, RefusedIsGone
  <1>9. NoPacketForgotten'
    BY <1>6, <1>7 DEF PacketsAccounted, NoPacketForgotten
  <1> QED
    BY <1>3, <1>4, <1>5, <1>8, <1>9 DEF PacketsAccounted

\* What InOrder and the bounds of CurrentIsNewest keep when the head is given up.
LEMMA HeadDropped ==
  ASSUME SendInv, list # << >>, list' = Tail(list), UNCHANGED <<sent, handed>>
  PROVE  /\ list' \in Seq(Packet) /\ Head(list) \in Packet
         /\ InOrder'
         /\ \A i \in 1..Len(list') : list'[i] \in Packet /\ list'[i] <= handed /\ list'[i] # current
         /\ \A p : Waiting(p) <=> Waiting(p)' \/ p = Head(list)
         /\ \A p : Sent(p)' <=> Sent(p)
  <1> USE DEF SendInv
  <1>1. list \in Seq(Packet) /\ sent \in Seq(Packet)
    BY DEF TypeOK
  <1>2. list' \in Seq(Packet) /\ Head(list) \in Packet
    BY <1>1, HeadTailElements
  <1>3. InOrder'
    <2>1. Increasing(list')
      BY <1>1, IncreasingTail DEF InOrder
    <2>2. \A i \in 1..Len(sent), j \in 1..Len(list') : sent[i] < list'[j]
      BY <1>1, HeadTailElements DEF InOrder
    <2> QED
      BY <2>1, <2>2 DEF InOrder
  <1>4. \A i \in 1..Len(list') : list'[i] \in Packet /\ list'[i] <= handed /\ list'[i] # current
    BY <1>1, <1>2, HeadTailElements DEF CurrentIsNewest
  <1>5. \A p : Waiting(p) <=> Waiting(p)' \/ p = Head(list)
    BY <1>1, WaitingTail
  <1>6. \A p : Sent(p)' <=> Sent(p)
    BY DEF Sent
  <1> QED
    BY <1>2, <1>3, <1>4, <1>5, <1>6

\* The head fails in _add_udp_packet, and the packet in hand is refused.
LEMMA FlushFailsStep ==
  ASSUME SendInv, FlushFails
  PROVE  SendInv'
  <1> USE PacketsAssumption DEF SendInv, FlushFails
  <1>1. /\ list' \in Seq(Packet) /\ Head(list) \in Packet
        /\ InOrder'
        /\ \A i \in 1..Len(list') : list'[i] \in Packet /\ list'[i] <= handed /\ list'[i] # current
        /\ \A p : Waiting(p) <=> Waiting(p)' \/ p = Head(list)
        /\ \A p : Sent(p)' <=> Sent(p)
    BY HeadDropped
  <1>2. current \in Packet /\ current = handed
    BY DEF TypeOK, CurrentIsNewest
  <1>3. TypeOK'
    BY <1>1, <1>2 DEF TypeOK, None
  <1>4. CurrentIsNewest'
    <2>1. \A i \in 1..Len(list') : list'[i] <= handed /\ list'[i] # None
      BY <1>1 DEF Packet, None
    <2>2. \A i \in 1..Len(sent) : sent[i] <= handed /\ sent[i] # None
      BY SMTT(90) DEF Packet, None, TypeOK, CurrentIsNewest
    <2>3. \A p \in refused' : p <= handed
      BY <1>2 DEF CurrentIsNewest, Packet
    <2> QED
      BY <2>1, <2>2, <2>3 DEF CurrentIsNewest
  <1>5. RefusedIsGone'
    <2> SUFFICES ASSUME NEW p \in refused'
                 PROVE  ~ Waiting(p)' /\ ~ Sent(p)' /\ p # None
      BY DEF RefusedIsGone
    <2>1. CASE p \in refused
      BY <2>1, <1>1 DEF PacketsAccounted, RefusedIsGone, TypeOK, Packet, None
    <2>2. CASE p = current
      <3>1. ~ Waiting(p)'
        BY <2>2, <1>1 DEF Waiting
      <3>2. ~ Sent(p)'
        BY <2>2, <1>1 DEF Sent, CurrentIsNewest
      <3> QED
        BY <3>1, <3>2, <2>2, <1>2 DEF Packet, None
    <2> QED
      BY <2>1, <2>2
  <1>6. NoPacketForgotten'
    BY <1>1 DEF PacketsAccounted, NoPacketForgotten
  <1> QED
    BY <1>1, <1>3, <1>4, <1>5, <1>6 DEF PacketsAccounted

\* The head fails in send_data.
LEMMA DrainFailsStep ==
  ASSUME SendInv, DrainFails
  PROVE  SendInv'
  <1> USE PacketsAssumption DEF SendInv, DrainFails
  <1>1. /\ list' \in Seq(Packet) /\ Head(list) \in Packet
        /\ InOrder'
        /\ \A i \in 1..Len(list') : list'[i] \in Packet /\ list'[i] <= handed /\ list'[i] # current
        /\ \A p : Waiting(p) <=> Waiting(p)' \/ p = Head(list)
        /\ \A p : Sent(p)' <=> Sent(p)
    BY HeadDropped
  <1>2. TypeOK'
    BY <1>1 DEF TypeOK
  <1>3. CurrentIsNewest'
    BY <1>1 DEF CurrentIsNewest
  <1>4. PacketsAccounted'
    BY <1>1 DEF PacketsAccounted, RefusedIsGone, NoPacketForgotten
  <1> QED
    BY <1>1, <1>2, <1>3, <1>4

\* sendto() fails for the packet in hand.
LEMMA CurrentFailsStep ==
  ASSUME SendInv, CurrentFails
  PROVE  SendInv'
  <1> USE PacketsAssumption DEF SendInv, CurrentFails
  <1>1. current \in Packet /\ current = handed
    BY DEF TypeOK, CurrentIsNewest
  <1>2. TypeOK'
    BY <1>1 DEF TypeOK
  <1>3. InOrder'
    BY DEF InOrder, Increasing
  <1>4. CurrentIsNewest'
    BY <1>1 DEF CurrentIsNewest, TypeOK, Packet, None
  <1>5. \A p \in 1..MaxPackets : (Sent(p)' <=> Sent(p)) /\ (Waiting(p)' <=> Waiting(p))
    BY DEF Sent, Waiting
  <1>6. ~ Sent(current) /\ ~ Waiting(current)
    BY DEF Sent, Waiting, CurrentIsNewest
  <1>7. RefusedIsGone'
    BY <1>1, <1>5, <1>6 DEF PacketsAccounted, RefusedIsGone, TypeOK, Packet, None
  <1>8. NoPacketForgotten'
    BY <1>1, <1>5 DEF PacketsAccounted, NoPacketForgotten, TypeOK, Packet
  <1> QED
    BY <1>2, <1>3, <1>4, <1>7, <1>8 DEF PacketsAccounted

\* The packet in hand is sent.
LEMMA CurrentSentStep ==
  ASSUME SendInv, CurrentSent
  PROVE  SendInv'
  <1> USE PacketsAssumption DEF SendInv, CurrentSent
  <1>1. current \in Packet /\ current = handed /\ sent \in Seq(Packet)
    BY DEF TypeOK, CurrentIsNewest
  <1>2. \A i \in 1..Len(sent) : sent[i] \in Packet /\ sent[i] < current
    BY <1>1 DEF CurrentIsNewest, Packet
  <1>3. TypeOK'
    BY <1>1, AppendElements DEF TypeOK
  <1>4. InOrder'
    BY <1>1, <1>2, IncreasingAppend DEF InOrder
  <1>5. CurrentIsNewest'
    <2>1. \A i \in 1..Len(sent') : sent'[i] <= handed /\ sent'[i] # None
      BY <1>1, <1>2, AppendElements DEF Packet, None
    <2> QED
      BY <2>1 DEF CurrentIsNewest
  <1>6. \A p : (Sent(p)' <=> Sent(p) \/ p = current) /\ (Waiting(p)' <=> Waiting(p))
    BY <1>1, AppendElements DEF Sent, Waiting
  <1>7. RefusedIsGone'
    BY <1>6 DEF PacketsAccounted, RefusedIsGone, TypeOK, Packet, None
  <1>8. NoPacketForgotten'
    BY <1>6 DEF PacketsAccounted, NoPacketForgotten
  <1> QED
    BY <1>3, <1>4, <1>5, <1>7, <1>8 DEF PacketsAccounted

\* Steps that move no packet.
LEMMA NoPacketMoves ==
  ASSUME SendInv, UNCHANGED <<list, current, sent, handed, refused, failed>>,
         pc' \in {"idle", "add", "drain"}, watched' \in BOOLEAN, pc' = "add" <=> pc = "add"
  PROVE  SendInv'
  <1> USE DEF SendInv
  <1>1. TypeOK'
    BY DEF TypeOK
  <1>2. InOrder' /\ CurrentIsNewest'
    BY DEF InOrder, Increasing, CurrentIsNewest
  <1>3. PacketsAccounted'
    BY DEF PacketsAccounted, RefusedIsGone, NoPacketForgotten, Sent, Waiting
  <1> QED
    BY <1>1, <1>2, <1>3

\* Every step of the socket keeps SendInv.
LEMMA SendInvStep ==
  ASSUME SendInv, [Next]_vars
  PROVE  SendInv'
  <1>1. CASE SendTo
    BY <1>1, SendToStep
  <1>2. CASE FlushFails
    BY <1>2, FlushFailsStep
  <1>3. CASE FlushBlocks
    BY <1>3, SendAgainStep DEF FlushBlocks
  <1>4. CASE FlushSends
    BY <1>4, HeadSentStep DEF FlushSends
  <1>5. CASE CurrentFails
    BY <1>5, CurrentFailsStep
  <1>6. CASE CurrentBlocks
    BY <1>6, SendAgainStep DEF CurrentBlocks
  <1>7. CASE CurrentSent
    BY <1>7, CurrentSentStep
  <1>8. CASE DrainFails
    BY <1>8, DrainFailsStep
  <1>9. CASE DrainSends
    BY <1>9, HeadSentStep DEF DrainSends
  <1>10. CASE Writable
    BY <1>10, NoPacketMoves DEF Writable, SendInv, TypeOK
  <1>11. CASE DrainBlocks
    BY <1>11, NoPacketMoves DEF DrainBlocks, SendInv, TypeOK
  <1>12. CASE Drained
    BY <1>12, NoPacketMoves DEF Drained
  <1>13. CASE UNCHANGED vars
    BY <1>13, NoPacketMoves DEF vars, SendInv, TypeOK
  <1> QED
    BY <1>1, <1>2, <1>3, <1>4, <1>5, <1>6, <1>7, <1>8, <1>9, <1>10, <1>11, <1>12, <1>13
       DEF Next, Handle

\* SendInv holds in every state, for any number of calls of send_to.
THEOREM SendInvariant == Spec => []SendInv
  BY SendInvInit, SendInvStep, PTL DEF Spec

\* A packet for which send_to returned -1 is neither sent nor waiting, and no
\* packet it accepted is lost on the way through its two flushing loops.
THEOREM PacketsAreAccounted == Spec => []PacketsAccounted
  BY SendInvariant, PTL DEF SendInv

\* What was sent and what waits increase: no packet is sent twice or overtakes.
THEOREM SocketOrder == Spec => []InOrder
  BY SendInvariant, PTL DEF SendInv

-----------------------------------------------------------------------------
(* The refinement *)

\* The abstract queue is the list and, behind it, the packet in hand.
AbsQueue == IF current = None THEN list ELSE Append(list, current)

\* One element is all there is behind an empty list.
LEMMA Singleton ==
  ASSUME NEW e \in Packet
  PROVE  /\ Append(<< >>, e) \in Seq(Packet) /\ Len(Append(<< >>, e)) = 1
         /\ Append(<< >>, e) # << >> /\ Head(Append(<< >>, e)) = e
         /\ Tail(Append(<< >>, e)) = << >>
         /\ SubSeq(Append(<< >>, e), 1, 0) = << >>
  OBVIOUS

\* Appending and taking the head commute on a list that is not empty.
LEMMA HeadPlusTail ==
  ASSUME NEW s \in Seq(Packet), s # << >>, NEW e \in Packet
  PROVE  /\ Append(s, e) # << >> /\ Head(Append(s, e)) = Head(s)
         /\ Tail(Append(s, e)) = Append(Tail(s), e)
         /\ SubSeq(Append(s, e), 2, Len(Append(s, e)) - 1) = Tail(s)
  BY SMTT(60)

\* The tail is what is left from the second element on.
LEMMA TailAsSubSeq ==
  ASSUME NEW s \in Seq(Packet), s # << >>
  PROVE  Tail(s) = SubSeq(s, 2, Len(s))
  OBVIOUS

\* An empty list and no packet in hand are an empty abstract queue.
LEMMA RefinesInit == Init => Fifo!Init
  BY DEF Init, Fifo!Init, None

\* Each call of sendto() is a step of LossyFifo or leaves its queue as it is.
LEMMA RefinesStep ==
  ASSUME SendInv, [Next]_vars
  PROVE  [Fifo!Next]_(Fifo!vars)
  <1> USE DEF AbsQueue
  <1>1. list \in Seq(Packet) /\ current \in Packet \cup {None} /\ None \notin Packet /\ None = 0
        /\ (current # None <=> pc = "add")
    BY DEF SendInv, TypeOK, None, Packet
  <1>2. CASE SendTo
    BY <1>1, <1>2, PacketsAssumption DEF SendTo, Fifo!Next, Fifo!Put, SendInv, TypeOK
  <1>3. CASE FlushFails
    <2>1. AbsQueue # << >> /\ AbsQueue' = SubSeq(AbsQueue, 2, Len(AbsQueue) - 1)
      BY <1>1, <1>3, HeadPlusTail DEF FlushFails
    <2> QED
      BY <2>1, <1>3 DEF FlushFails, Fifo!Next, Fifo!GiveUp
  <1>4. CASE FlushBlocks \/ CurrentBlocks
    BY <1>1, <1>4 DEF FlushBlocks, CurrentBlocks, SendAgain, Fifo!vars
  <1>5. CASE FlushSends
    BY <1>1, <1>5, HeadPlusTail DEF FlushSends, Fifo!Next, Fifo!Transmit
  <1>6. CASE CurrentFails
    <2>1. AbsQueue # << >> /\ Len(AbsQueue) = 1 /\ AbsQueue' = SubSeq(AbsQueue, 1, 0)
      BY <1>1, <1>6, Singleton DEF CurrentFails
    <2>2. 0 = Len(AbsQueue) - 1
      BY <2>1
    <2> QED
      BY <2>1, <2>2, <1>6 DEF CurrentFails, Fifo!Next, Fifo!GiveUp
  <1>7. CASE CurrentSent
    BY <1>1, <1>7, Singleton DEF CurrentSent, Fifo!Next, Fifo!Transmit
  <1>8. CASE DrainFails
    <2>1. AbsQueue # << >> /\ AbsQueue' = SubSeq(AbsQueue, 2, Len(AbsQueue))
      BY <1>1, <1>8, TailAsSubSeq DEF DrainFails
    <2> QED
      BY <2>1, <1>8 DEF DrainFails, Fifo!Next, Fifo!GiveUp
  <1>9. CASE DrainSends
    BY <1>1, <1>9 DEF DrainSends, Fifo!Next, Fifo!Transmit
  <1>10. CASE Writable \/ DrainBlocks \/ Drained \/ UNCHANGED vars
    BY <1>10 DEF Writable, DrainBlocks, Drained, vars, Fifo!vars
  <1> QED
    BY <1>2, <1>3, <1>4, <1>5, <1>6, <1>7, <1>8, <1>9, <1>10 DEF Next, Handle

\* send_to, send_data and the loop's WRITE events together implement LossyFifo.
THEOREM SendQueueRefinesFifo == Spec => SendsInOrder
  BY RefinesInit, RefinesStep, SendInvariant, PTL DEF Spec, SendsInOrder, Fifo!Spec
=============================================================================
