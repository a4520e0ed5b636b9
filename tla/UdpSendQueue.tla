---------------------------- MODULE UdpSendQueue ----------------------------
(***************************************************************************)
(* The sending half of AsyncUdpSocket: send_to() flushes the packets that  *)
(* are waiting and then sends its own, or queues it when the kernel would  *)
(* block; the event loop calls send_data() when the socket is writable,    *)
(* as long as WRITE is watched.  One step is one call of sendto(), which   *)
(* may send, would block (0) or fail (-1).                                 *)
(***************************************************************************)
EXTENDS Integers, Sequences, FiniteSets

CONSTANT MaxPackets     \* bound on calls of send_to

ASSUME PacketsAssumption == MaxPackets \in Nat

Packet == 1..MaxPackets
None == 0

VARIABLES
  list,             \* _udp_packet_list
  watched,          \* whether WRITE is watched
  pc,               \* in the loop, in _add_udp_packet, or in send_data
  current,          \* the packet send_to was called with
  sent,             \* auxiliary: what sendto() has sent
  handed,           \* auxiliary: number of packets given to send_to so far
  refused,          \* auxiliary: packets for which send_to returned -1
  failed            \* auxiliary: packets for which sendto() failed

vars == <<list, watched, pc, current, sent, handed, refused, failed>>

Init ==
  /\ list = << >> /\ watched = FALSE /\ pc = "idle" /\ current = None
  /\ sent = << >> /\ handed = 0 /\ refused = {} /\ failed = {}

-----------------------------------------------------------------------------
(* send_to *)

SendTo ==
  /\ pc = "idle" /\ handed < MaxPackets
  /\ handed' = handed + 1
  /\ current' = handed + 1
  /\ pc' = "add"
  /\ UNCHANGED <<list, watched, sent, refused, failed>>

\* mutated form: a packet that would block is put in front
SendAgainInFront ==
  /\ list' = <<current>> \o list
  /\ watched' = TRUE
  /\ pc' = "idle" /\ current' = None

\* SEND_AGAIN: queue the packet and have the loop watch for WRITE
SendAgain ==
  /\ list' = Append(list, current)
  /\ watched' = TRUE
  /\ pc' = "idle" /\ current' = None

\* mutated form: an error at the head refuses the packet and keeps it
FlushFailsQueues ==
  /\ pc = "add" /\ list # << >>
  /\ failed' = failed \cup {Head(list)}
  /\ refused' = refused \cup {current}
  /\ list' = Append(Tail(list), current)
  /\ pc' = "idle" /\ current' = None
  /\ UNCHANGED <<watched, sent, handed>>

\* The flushing loop of _add_udp_packet: the head fails, and with it the
\* call, before its own packet was tried
FlushFails ==
  /\ pc = "add" /\ list # << >>
  /\ failed' = failed \cup {Head(list)}
  /\ refused' = refused \cup {current}
  /\ list' = Tail(list)
  /\ pc' = "idle" /\ current' = None
  /\ UNCHANGED <<watched, sent, handed>>

\* the head would block: the packet goes behind it
FlushBlocks ==
  /\ pc = "add" /\ list # << >>
  /\ SendAgain
  /\ UNCHANGED <<sent, handed, refused, failed>>

\* the head is sent
FlushSends ==
  /\ pc = "add" /\ list # << >>
  /\ sent' = Append(sent, Head(list))
  /\ list' = Tail(list)
  /\ UNCHANGED <<watched, pc, current, handed, refused, failed>>

\* The packet's own turn: it fails,
CurrentFails ==
  /\ pc = "add" /\ list = << >>
  /\ failed' = failed \cup {current}
  /\ refused' = refused \cup {current}
  /\ pc' = "idle" /\ current' = None
  /\ UNCHANGED <<list, watched, sent, handed>>

\* would block,
CurrentBlocks ==
  /\ pc = "add" /\ list = << >>
  /\ SendAgain
  /\ UNCHANGED <<sent, handed, refused, failed>>

\* or is sent
CurrentSent ==
  /\ pc = "add" /\ list = << >>
  /\ sent' = Append(sent, current)
  /\ pc' = "idle" /\ current' = None
  /\ UNCHANGED <<list, watched, handed, refused, failed>>

-----------------------------------------------------------------------------
(* async_udp_socket_io_cb with WRITE: send_data *)

Writable ==
  /\ pc = "idle" /\ watched
  /\ pc' = "drain"
  /\ UNCHANGED <<list, watched, current, sent, handed, refused, failed>>

\* mutated form: the error stops the watch as well
DrainFailsStops ==
  /\ pc = "drain" /\ list # << >>
  /\ failed' = failed \cup {Head(list)}
  /\ list' = Tail(list)
  /\ watched' = FALSE
  /\ pc' = "idle"
  /\ UNCHANGED <<current, sent, handed, refused>>

\* The head fails and is dropped; the watch stays on
DrainFails ==
  /\ pc = "drain" /\ list # << >>
  /\ failed' = failed \cup {Head(list)}
  /\ list' = Tail(list)
  /\ pc' = "idle"
  /\ UNCHANGED <<watched, current, sent, handed, refused>>

\* mutated form: a head that would block is dropped
DrainBlocksDrops ==
  /\ pc = "drain" /\ list # << >>
  /\ list' = Tail(list)
  /\ pc' = "idle"
  /\ UNCHANGED <<watched, current, sent, handed, refused, failed>>

\* The head would block
DrainBlocks ==
  /\ pc = "drain" /\ list # << >>
  /\ pc' = "idle"
  /\ UNCHANGED <<list, watched, current, sent, handed, refused, failed>>

\* The head is sent
DrainSends ==
  /\ pc = "drain" /\ list # << >>
  /\ sent' = Append(sent, Head(list))
  /\ list' = Tail(list)
  /\ UNCHANGED <<watched, pc, current, handed, refused, failed>>

\* The list is empty: stop watching
Drained ==
  /\ pc = "drain" /\ list = << >>
  /\ watched' = FALSE
  /\ pc' = "idle"
  /\ UNCHANGED <<list, current, sent, handed, refused, failed>>

-----------------------------------------------------------------------------
\* A running handler goes on.
Handle ==
  \/ FlushFails \/ FlushBlocks \/ FlushSends
  \/ CurrentFails \/ CurrentBlocks \/ CurrentSent
  \/ DrainFails \/ DrainBlocks \/ DrainSends \/ Drained

Next == SendTo \/ Writable \/ Handle

Spec == Init /\ [][Next]_vars

\* The loop serves a watched socket that is writable, which it is again and
\* again; being writable means that sendto() now and then does not block.
Fairness ==
  /\ WF_vars(Handle)
  /\ SF_vars(Writable)
  /\ SF_vars(DrainFails \/ DrainSends)

FairSpec == Spec /\ Fairness

-----------------------------------------------------------------------------
TypeOK ==
  /\ list \in Seq(Packet)
  /\ watched \in BOOLEAN
  /\ pc \in {"idle", "add", "drain"}
  /\ current \in Packet \cup {None} /\ (current # None <=> pc = "add")
  /\ sent \in Seq(Packet)
  /\ handed \in 0..MaxPackets
  /\ refused \subseteq Packet /\ failed \subseteq Packet

Waiting(p) == \E i \in 1..Len(list) : list[i] = p
Sent(p) == \E i \in 1..Len(sent) : sent[i] = p

\* A caller that got -1 knows: its packet was not sent and never will be,
\* also when the error was an older packet's.
RefusedIsGone == \A p \in refused : ~ Waiting(p) /\ ~ Sent(p) /\ p # current

\* Every packet handed over is accounted for: it waits, was sent, was refused
\* to its sender, or sendto() failed for it.
NoPacketForgotten ==
  \A p \in 1..handed :
    Waiting(p) \/ Sent(p) \/ p = current \/ p \in refused \/ p \in failed

\* What a caller may conclude from send_to's result, through both loops and
\* whichever packet failed.
PacketsAccounted == RefusedIsGone /\ NoPacketForgotten

\* Packets leave in the order of the calls of send_to, each at most once, and
\* only the oldest and the newest are ever given up.
Fifo == INSTANCE LossyFifo WITH
          queue <- IF current = None THEN list ELSE Append(list, current),
          out <- sent
SendsInOrder == Fifo!Spec

\* A packet that waits is sent or given up, without another send_to.
WaitingLeaves == \A p \in Packet : Waiting(p) ~> ~ Waiting(p)

=============================================================================
