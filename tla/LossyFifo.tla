----------------------------- MODULE LossyFifo -----------------------------
(***************************************************************************)
(* What a queue of outgoing datagrams promises: packets, numbered in the   *)
(* order they are handed over, leave in that order, each at most once; the *)
(* oldest and the newest one waiting may be given up.                      *)
(***************************************************************************)
EXTENDS Integers, Sequences

CONSTANT MaxPackets
VARIABLES queue, out, handed

vars == <<queue, out, handed>>

Init == queue = << >> /\ out = << >> /\ handed = 0

Put ==
  /\ handed < MaxPackets
  /\ handed' = handed + 1
  /\ queue' = Append(queue, handed + 1)
  /\ UNCHANGED out

Transmit ==
  /\ queue # << >>
  /\ out' = Append(out, Head(queue))
  /\ queue' = Tail(queue)
  /\ UNCHANGED handed

GiveUp ==
  /\ queue # << >>
  /\ \E first \in {1, 2}, last \in {Len(queue) - 1, Len(queue)} :
       queue' = SubSeq(queue, first, last)
  /\ UNCHANGED <<out, handed>>

Next == Put \/ Transmit \/ GiveUp

Spec == Init /\ [][Next]_vars
=============================================================================
