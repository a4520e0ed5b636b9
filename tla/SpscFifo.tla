------------------------------ MODULE SpscFifo ------------------------------
(***************************************************************************)
(* What a single-producer single-consumer queue promises to its two        *)
(* threads: the consumer obtains the produced values, each exactly once    *)
(* and in the order they were produced.  The state is the two histories;   *)
(* the content of the queue is what is in the first and not in the second. *)
(***************************************************************************)
EXTENDS Naturals, Sequences

CONSTANT Value      \* what the queue carries: descriptors or messages

VARIABLES
  produced,         \* every value whose production took effect, in order
  consumed          \* every value handed to the consumer, in order

Init == produced = << >> /\ consumed = << >>

Put(v) ==
  /\ produced' = Append(produced, v)
  /\ UNCHANGED consumed

Get ==
  /\ Len(consumed) < Len(produced)
  /\ consumed' = Append(consumed, produced[Len(consumed) + 1])
  /\ UNCHANGED produced

Next == Get \/ \E v \in Value : Put(v)

Spec == Init /\ [][Next]_<<produced, consumed>>
=============================================================================
