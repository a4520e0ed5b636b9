--------------------------- MODULE LockFreeQueue ---------------------------
(***************************************************************************)
(* base/lock_free_queue.h: a linked list shared by one producer thread and *)
(* one consumer thread without a lock.  The list always holds at least one *)
(* node; the nodes from `first' up to and including `divider' have been    *)
(* consumed, the ones after `divider' up to `last' are waiting.  The       *)
(* producer frees the consumed nodes before `divider' at the end of every  *)
(* produce().                                                              *)
(*                                                                         *)
(* Each action is one access to a location both threads use.  An address   *)
(* that was freed may be returned by the next `new', so comparing          *)
(* addresses is not comparing nodes: `stamp', an auxiliary variable the    *)
(* code does not have, numbers the nodes in the order of their allocation. *)
(***************************************************************************)
EXTENDS Integers, Sequences, FiniteSets

CONSTANTS
  Addr,             \* heap addresses a Node can be allocated at
  NULL,             \* nullptr
  Value,            \* T
  Blank,            \* T(), the value of the first node
  MaxProduce        \* bound on the number of calls of produce()

ASSUME NullAssumption == NULL \notin Addr
ASSUME BlankAssumption == Blank \notin Value
ASSUME MaxProduceAssumption == MaxProduce \in Nat

VARIABLES
  value, next,      \* the two fields of the node at each address
  live,             \* the addresses allocated and not yet freed
  first, divider, last,
  size,             \* _size
  temp,             \* the producer's local `temp'
  result,           \* *result, where consume() copies the value
  ppc, cpc,         \* where the producer and the consumer are
  stamp,            \* auxiliary: allocation number of the node at an address
  produced,         \* auxiliary: values made visible by produce()
  consumed          \* auxiliary: values consume() has taken

heap == <<value, next, live, stamp>>
vars == <<value, next, live, first, divider, last, size, temp, result,
          ppc, cpc, stamp, produced, consumed>>

Init ==
  \E a \in Addr :
    /\ value = [x \in Addr |-> Blank]
    /\ next = [x \in Addr |-> NULL]
    /\ live = {a}
    /\ first = a /\ divider = a /\ last = a
    /\ size = 0
    /\ temp = NULL
    /\ result = Blank
    /\ ppc = "idle" /\ cpc = "idle"
    /\ stamp = [x \in Addr |-> 0]
    /\ produced = << >> /\ consumed = << >>

-----------------------------------------------------------------------------
(* Mutated forms of the actions below: each is a bug this code could have. *)

\* the reclamation loop runs up to `last' instead of `divider'
ReclaimUpToLast ==
  /\ ppc = "reclaim"
  /\ last # first
  /\ temp' = first
  /\ first' = next[first]
  /\ ppc' = "delete"
  /\ UNCHANGED <<heap, divider, last, size, result, cpc, produced, consumed>>

\* one node is freed and the others up to `divider' are skipped
ReclaimSkips ==
  /\ ppc = "reclaim"
  /\ divider # first
  /\ temp' = first
  /\ first' = divider
  /\ ppc' = "delete"
  /\ UNCHANGED <<heap, divider, last, size, result, cpc, produced, consumed>>

\* `first' is not advanced
ReclaimStuck ==
  /\ ppc = "reclaim"
  /\ divider # first
  /\ temp' = first
  /\ ppc' = "delete"
  /\ UNCHANGED <<heap, first, divider, last, size, result, cpc, produced, consumed>>

\* a freed node is discounted a second time
DeleteTempCounts ==
  /\ ppc = "delete"
  /\ live' = live \ {temp}
  /\ size' = size - 1
  /\ ppc' = "reclaim"
  /\ UNCHANGED <<value, next, stamp, first, divider, last, temp, result,
                 cpc, produced, consumed>>

\* the value is taken from `divider', the node consumed before
ConsumeReadDivider ==
  /\ cpc = "read"
  /\ result' = value[divider]
  /\ cpc' = "advance"
  /\ UNCHANGED <<heap, first, divider, last, size, temp, ppc, produced, consumed>>

-----------------------------------------------------------------------------
(* produce(t), run by the producer thread only *)

\* last->next = new Node(t)
ProduceLink(t, a) ==
  /\ ppc = "idle"
  /\ Len(produced) < MaxProduce
  /\ a \notin live
  /\ live' = live \cup {a}
  /\ value' = [value EXCEPT ![a] = t]
  /\ next' = [next EXCEPT ![a] = NULL, ![last] = a]
  /\ stamp' = [stamp EXCEPT ![a] = stamp[last] + 1]
  /\ ppc' = "publish"
  /\ UNCHANGED <<first, divider, last, size, temp, result, cpc, produced, consumed>>

\* last = last->next
ProducePublish ==
  /\ ppc = "publish"
  /\ last' = next[last]
  /\ produced' = Append(produced, value[next[last]])
  /\ ppc' = "count"
  /\ UNCHANGED <<heap, first, divider, size, temp, result, cpc, consumed>>

\* ++_size
ProduceCount ==
  /\ ppc = "count"
  /\ size' = size + 1
  /\ ppc' = "reclaim"
  /\ UNCHANGED <<heap, first, divider, last, temp, result, cpc, produced, consumed>>

\* the test of the while loop, and on success temp = first; first = first->next
Reclaim ==
  /\ ppc = "reclaim"
  /\ divider # first
  /\ temp' = first
  /\ first' = next[first]
  /\ ppc' = "delete"
  /\ UNCHANGED <<heap, divider, last, size, result, cpc, produced, consumed>>

\* delete temp
DeleteTemp ==
  /\ ppc = "delete"
  /\ live' = live \ {temp}
  /\ ppc' = "reclaim"
  /\ UNCHANGED <<value, next, stamp, first, divider, last, size, temp, result,
                 cpc, produced, consumed>>

ProduceReturn ==
  /\ ppc = "reclaim"
  /\ divider = first
  /\ ppc' = "idle"
  /\ UNCHANGED <<heap, first, divider, last, size, temp, result, cpc, produced, consumed>>

-----------------------------------------------------------------------------
(* consume(result), run by the consumer thread only *)

\* divider != last; a call that finds the queue empty returns false and
\* changes nothing
ConsumeTest ==
  /\ cpc = "idle"
  /\ divider # last
  /\ cpc' = "read"
  /\ UNCHANGED <<heap, first, divider, last, size, temp, result, ppc, produced, consumed>>

\* *result = divider->next->value
ConsumeRead ==
  /\ cpc = "read"
  /\ result' = value[next[divider]]
  /\ cpc' = "advance"
  /\ UNCHANGED <<heap, first, divider, last, size, temp, ppc, produced, consumed>>

\* divider = divider->next
ConsumeAdvance ==
  /\ cpc = "advance"
  /\ divider' = next[divider]
  /\ consumed' = Append(consumed, result)
  /\ cpc' = "count"
  /\ UNCHANGED <<heap, first, last, size, temp, result, ppc, produced>>

\* --_size; return true
ConsumeCount ==
  /\ cpc = "count"
  /\ size' = size - 1
  /\ cpc' = "idle"
  /\ UNCHANGED <<heap, first, divider, last, temp, result, ppc, produced, consumed>>

-----------------------------------------------------------------------------
Produce ==
  \/ \E t \in Value, a \in Addr : ProduceLink(t, a)
  \/ ProducePublish
  \/ ProduceCount
  \/ Reclaim
  \/ DeleteTemp
  \/ ProduceReturn

Consume == ConsumeTest \/ ConsumeRead \/ ConsumeAdvance \/ ConsumeCount

Next == Produce \/ Consume

Spec == Init /\ [][Next]_vars

\* A thread that is inside produce() or consume() keeps running; when it
\* calls again is up to its owner.
Fairness ==
  /\ WF_vars(ProducePublish \/ ProduceCount \/ Reclaim \/ DeleteTemp \/ ProduceReturn)
  /\ WF_vars(ConsumeRead \/ ConsumeAdvance \/ ConsumeCount)

FairSpec == Spec /\ Fairness

-----------------------------------------------------------------------------
TypeOK ==
  /\ value \in [Addr -> Value \cup {Blank}]
  /\ next \in [Addr -> Addr \cup {NULL}]
  /\ live \subseteq Addr
  /\ first \in Addr /\ divider \in Addr /\ last \in Addr
  /\ size \in Int
  /\ temp \in Addr \cup {NULL}
  /\ result \in Value \cup {Blank}
  /\ ppc \in {"idle", "publish", "count", "reclaim", "delete"}
  /\ cpc \in {"idle", "read", "advance", "count"}
  /\ stamp \in [Addr -> Nat]
  /\ produced \in Seq(Value)
  /\ consumed \in Seq(Value)

\* The nodes the next step of each thread dereferences.
Dereferenced ==
     (IF ppc \in {"idle", "publish"} THEN {last} ELSE {})
\cup (IF ppc = "publish" THEN {next[last]} ELSE {})
\cup (IF ppc = "reclaim" THEN {first} ELSE {})
\cup (IF ppc = "delete" THEN {temp} ELSE {})
\cup (IF cpc \in {"read", "advance"} THEN {divider, next[divider]} ELSE {})

\* No thread follows a null pointer or touches a node the producer has
\* already freed, whatever the interleaving of the reclamation loop of
\* produce() with a consume() that has read `divider' but not advanced it.
NoUseAfterFree == Dereferenced \subseteq live

\* Reclamation loses no node: every allocated node is on the list from
\* `first' to its end, except the one the producer is about to delete.
NoNodeLeaked ==
  \A a \in live :
    \/ ppc = "delete" /\ a = temp
    \/ stamp[first] <= stamp[a] /\ stamp[a] <= stamp[last] + (IF ppc = "publish" THEN 1 ELSE 0)

\* _size differs from the number of waiting values only while a thread is
\* between moving its pointer and counting: it never exceeds that number by
\* more than one, and is never below it by more than one, so empty() can be
\* true while one value waits and size() can be -1.
SizeTracksContent ==
  size = Len(produced) - Len(consumed)
           - (IF ppc = "count" THEN 1 ELSE 0)
           + (IF cpc = "count" THEN 1 ELSE 0)

\* The queue is a FIFO: the consumer sees what was produced, once, in order.
Fifo == INSTANCE SpscFifo
ImplementsFifo == Fifo!Spec

\* produce() returns although the consumer keeps moving `divider' while the
\* loop of produce() chases it.
ProduceReturns == (ppc # "idle") ~> (ppc = "idle")

=============================================================================
