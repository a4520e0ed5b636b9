------------------------ MODULE LockFreeQueueProofs ------------------------
(***************************************************************************)
(* The queue of base/lock_free_queue.h is a memory-safe FIFO for any set   *)
(* of addresses and values and any number of calls.  None of the           *)
(* properties is inductive by itself; they follow together from QueueInv,  *)
(* which says that the allocated nodes are one chain numbered without gaps *)
(* and where the three pointers stand on it.                               *)
(***************************************************************************)
EXTENDS LockFreeQueue, TLAPS

\* The number of the last node linked to the list, published or not.
TailStamp == stamp[last] + (IF ppc = "publish" THEN 1 ELSE 0)

PointersLive ==
  /\ first \in live /\ divider \in live /\ last \in live
  /\ stamp[first] <= stamp[divider]
  /\ stamp[divider] <= stamp[last]

StampsDistinct == \A a, b \in live : stamp[a] = stamp[b] => a = b

LiveInRange ==
  \A a \in live :
    \/ ppc = "delete" /\ a = temp
    \/ stamp[first] <= stamp[a] /\ stamp[a] <= TailStamp

Chained ==
  \A a \in live :
    stamp[a] < TailStamp => next[a] \in live /\ stamp[next[a]] = stamp[a] + 1

HistoryMatches ==
  /\ stamp[last] = Len(produced)
  /\ stamp[divider] = Len(consumed)
  /\ \A a \in live : stamp[a] >= 1 => value[a] \in Value
  /\ \A a \in live :
       stamp[a] >= 1 /\ stamp[a] <= Len(produced) => value[a] = produced[stamp[a]]

ConsumerHolds ==
  /\ cpc \in {"read", "advance"} => stamp[divider] < stamp[last]
  /\ cpc = "advance" => result = value[next[divider]]

TempHolds ==
  ppc = "delete" => temp \in live /\ stamp[temp] + 1 = stamp[first]

QueueInv ==
  /\ TypeOK
  /\ PointersLive
  /\ StampsDistinct
  /\ LiveInRange
  /\ Chained
  /\ HistoryMatches
  /\ ConsumerHolds
  /\ TempHolds
  /\ SizeTracksContent

-----------------------------------------------------------------------------
\* QueueInv holds initially: one node, numbered 0.
LEMMA QueueInvInit == Init => QueueInv
  <1> SUFFICES ASSUME Init PROVE QueueInv
    OBVIOUS
  <1>1. PICK a \in Addr : live = {a} /\ first = a /\ divider = a /\ last = a
    BY DEF Init
  <1>2. TypeOK
    BY DEF Init, TypeOK
  <1> QED
    BY <1>1, <1>2 DEF Init, QueueInv, PointersLive, StampsDistinct, LiveInRange, Chained,
       HistoryMatches, ConsumerHolds, TempHolds, SizeTracksContent, TailStamp

\* Linking a node gives it the number after the last one's.
LEMMA LinkStep ==
  ASSUME QueueInv, NEW t \in Value, NEW a \in Addr, ProduceLink(t, a)
  PROVE  QueueInv'
  <1> USE NullAssumption DEF QueueInv, ProduceLink
  <1>1. TypeOK'
    <2>1. next' \in [Addr -> Addr \cup {NULL}] /\ live' \subseteq Addr
      BY DEF TypeOK
    <2>2. value' \in [Addr -> Value \cup {Blank}]
      BY DEF TypeOK
    <2>3. stamp' \in [Addr -> Nat]
      <3>1. stamp[last] + 1 \in Nat
        BY DEF TypeOK
      <3> QED
        BY <3>1 DEF TypeOK
    <2> QED
      BY <2>1, <2>2, <2>3 DEF TypeOK
  <1>2. \A b \in live : stamp'[b] = stamp[b] /\ value'[b] = value[b]
                        /\ (b # last => next'[b] = next[b])
    BY DEF TypeOK
  <1>3. stamp'[a] = stamp[last] + 1 /\ value'[a] = t /\ next'[last] = a /\ a # last
    BY DEF TypeOK, PointersLive
  <1>4. PointersLive'
    BY <1>2 DEF PointersLive, TypeOK
  <1>5. \A b \in live : stamp[b] <= stamp[last]
    BY DEF LiveInRange, TailStamp, TypeOK, PointersLive
  <1>6. StampsDistinct'
    BY <1>2, <1>3, <1>5 DEF StampsDistinct, TypeOK
  <1>7. TailStamp' = stamp[last] + 1
    BY <1>2 DEF TailStamp, PointersLive
  <1>8. LiveInRange'
    BY <1>2, <1>3, <1>5, <1>7 DEF LiveInRange, PointersLive, TypeOK
  <1>9. Chained'
    <2> SUFFICES ASSUME NEW b \in live', stamp'[b] < TailStamp'
                 PROVE  next'[b] \in live' /\ stamp'[next'[b]] = stamp'[b] + 1
      BY DEF Chained
    <2>1. CASE b = last
      BY <2>1, <1>2, <1>3 DEF PointersLive
    <2>2. CASE b # last
      <3>1. b \in live /\ stamp[b] <= stamp[last]
        BY <1>3, <1>5, <1>7, <2>2
      <3>2. stamp[b] # stamp[last]
        BY <3>1, <2>2 DEF StampsDistinct, PointersLive
      <3>3. stamp[b] < TailStamp
        BY <3>1, <3>2 DEF TailStamp, TypeOK
      <3> QED
        BY <3>1, <3>3, <2>2, <1>2 DEF Chained, TypeOK
    <2> QED
      BY <2>1, <2>2
  <1>10. HistoryMatches'
    BY <1>2, <1>3, <1>5 DEF HistoryMatches, PointersLive, TypeOK
  <1>11. ConsumerHolds'
    <2>1. cpc = "advance" => next[divider] \in live /\ divider # last
      BY DEF ConsumerHolds, Chained, PointersLive, TailStamp, TypeOK
    <2> QED
      BY <1>2, <2>1 DEF ConsumerHolds, PointersLive, TypeOK
  <1>12. TempHolds' /\ SizeTracksContent'
    BY DEF TempHolds, SizeTracksContent
  <1> QED
    BY <1>1, <1>4, <1>6, <1>8, <1>9, <1>10, <1>11, <1>12

\* Publishing makes the node after `last' the last one; its value enters the
\* history under its own number.
LEMMA PublishStep == ASSUME QueueInv, ProducePublish PROVE QueueInv'
  <1> USE DEF QueueInv, ProducePublish, heap
  <1>1. next[last] \in live /\ stamp[next[last]] = stamp[last] + 1
    BY SMTT(90) DEF Chained, TailStamp, PointersLive, TypeOK
  <1>2. value[next[last]] \in Value
    BY <1>1 DEF HistoryMatches, TypeOK
  <1>3. TypeOK'
    BY <1>1, <1>2 DEF TypeOK
  <1>4. TailStamp' = TailStamp
    BY <1>1 DEF TailStamp, TypeOK
  <1>5. PointersLive' /\ StampsDistinct' /\ LiveInRange' /\ Chained'
    BY <1>1, <1>4 DEF PointersLive, StampsDistinct, LiveInRange, Chained, TypeOK
  <1>6. HistoryMatches'
    <2>1. Len(produced') = Len(produced) + 1
          /\ \A i \in 1..Len(produced) : produced'[i] = produced[i]
      BY <1>2 DEF TypeOK
    <2>2. produced'[Len(produced) + 1] = value[next[last]]
      BY <1>2 DEF TypeOK
    <2>3. ASSUME NEW b \in live, stamp[b] >= 1, stamp[b] <= Len(produced')
          PROVE  value[b] = produced'[stamp[b]]
      <3>1. CASE stamp[b] <= Len(produced)
        BY <3>1, <2>1, <2>3 DEF HistoryMatches, TypeOK
      <3>2. CASE stamp[b] = Len(produced) + 1
        BY <3>2, <2>2, <1>1 DEF HistoryMatches, StampsDistinct, TypeOK
      <3> QED
        BY SMTT(60), <3>1, <3>2, <2>1, <2>3 DEF TypeOK
    <2> QED
      BY <2>1, <2>3, <1>1 DEF HistoryMatches, TypeOK
  <1>7. ConsumerHolds' /\ TempHolds'
    BY <1>1 DEF ConsumerHolds, TempHolds, PointersLive, TypeOK
  <1>8. SizeTracksContent'
    BY SMTT(90), <1>2 DEF SizeTracksContent, TypeOK
  <1> QED
    BY <1>3, <1>5, <1>6, <1>7, <1>8

\* Counting changes nothing but _size.
LEMMA CountSteps == ASSUME QueueInv, ProduceCount \/ ConsumeCount PROVE QueueInv'
  <1>1. TypeOK'
    BY DEF QueueInv, TypeOK, ProduceCount, ConsumeCount, heap
  <1>2. Len(produced) \in Int /\ Len(consumed) \in Int /\ size \in Int
    BY DEF QueueInv, TypeOK
  <1>3. SizeTracksContent'
    <2>1. CASE ProduceCount
      BY <1>2, <2>1 DEF QueueInv, SizeTracksContent, ProduceCount
    <2>2. CASE ConsumeCount
      BY <1>2, <2>2 DEF QueueInv, SizeTracksContent, ConsumeCount
    <2> QED
      BY <2>1, <2>2
  <1> QED
    BY <1>1, <1>3 DEF QueueInv, ProduceCount, ConsumeCount, heap, PointersLive, StampsDistinct,
       LiveInRange, Chained, HistoryMatches, ConsumerHolds, TempHolds, TailStamp

\* A loop iteration takes the node before `divider' out of the list ...
LEMMA ReclaimStep == ASSUME QueueInv, Reclaim PROVE QueueInv'
  <1> USE DEF QueueInv, Reclaim, heap
  <1>1. stamp[first] < stamp[divider]
    BY DEF PointersLive, StampsDistinct, TypeOK
  <1>2. next[first] \in live /\ stamp[next[first]] = stamp[first] + 1
    BY SMTT(90), <1>1 DEF Chained, PointersLive, TailStamp, TypeOK
  <1>3. TypeOK' /\ TailStamp' = TailStamp
    BY <1>2 DEF TypeOK, TailStamp
  <1>4. PointersLive' /\ StampsDistinct' /\ Chained' /\ TempHolds'
    BY <1>1, <1>2, <1>3 DEF PointersLive, StampsDistinct, Chained, TempHolds, TypeOK
  <1>5. LiveInRange'
    BY <1>2, <1>3 DEF LiveInRange, StampsDistinct, PointersLive, TypeOK
  <1> QED
    BY <1>3, <1>4, <1>5 DEF HistoryMatches, ConsumerHolds, SizeTracksContent

\* ... and frees it; nothing in the list points at it.
LEMMA DeleteStep == ASSUME QueueInv, DeleteTemp PROVE QueueInv'
  <1> USE DEF QueueInv, DeleteTemp
  <1>1. temp \in live /\ stamp[temp] + 1 = stamp[first]
    BY DEF TempHolds
  <1>2. TypeOK' /\ TailStamp' = TailStamp
    BY DEF TypeOK, TailStamp
  <1>3. PointersLive' /\ StampsDistinct'
    BY <1>1 DEF PointersLive, StampsDistinct, TypeOK
  <1>4. \A a \in live' : stamp[first] <= stamp[a] /\ stamp[a] <= TailStamp
    BY DEF LiveInRange
  <1>5. LiveInRange' /\ TempHolds'
    BY <1>2, <1>4 DEF LiveInRange, TempHolds
  <1>6. Chained'
    BY SMTT(90), <1>1, <1>2, <1>4 DEF Chained, TypeOK
  <1>7. HistoryMatches' /\ ConsumerHolds' /\ SizeTracksContent'
    BY DEF HistoryMatches, ConsumerHolds, SizeTracksContent
  <1> QED
    BY <1>2, <1>3, <1>5, <1>6, <1>7

\* Leaving the loop, and finding the queue nonempty, only move a program counter.
LEMMA ControlSteps == ASSUME QueueInv, ProduceReturn \/ ConsumeTest PROVE QueueInv'
  <1> USE DEF QueueInv, ProduceReturn, ConsumeTest, heap
  <1>1. TypeOK' /\ TailStamp' = TailStamp
    BY DEF TypeOK, TailStamp
  <1>2. ConsumerHolds'
    BY DEF ConsumerHolds, PointersLive, StampsDistinct, TypeOK
  <1> QED
    BY ZenonT(120), <1>1, <1>2 DEF PointersLive, StampsDistinct, LiveInRange, Chained,
       HistoryMatches, TempHolds, SizeTracksContent

\* The value the consumer copies is the oldest one not yet taken.
LEMMA ReadStep == ASSUME QueueInv, ConsumeRead PROVE QueueInv'
  <1> USE DEF QueueInv, ConsumeRead, heap
  <1>1. next[divider] \in Addr
    BY DEF ConsumerHolds, Chained, PointersLive, TailStamp, TypeOK
  <1>2. TypeOK' /\ TailStamp' = TailStamp
    BY <1>1 DEF TypeOK, TailStamp
  <1> QED
    BY <1>2 DEF PointersLive, StampsDistinct, LiveInRange, Chained,
       HistoryMatches, ConsumerHolds, TempHolds, SizeTracksContent

\* What `result' holds when the consumer advances.
LEMMA AdvanceValue ==
  ASSUME QueueInv, ConsumeAdvance
  PROVE  /\ next[divider] \in live
         /\ stamp[next[divider]] = stamp[divider] + 1
         /\ Len(consumed) < Len(produced)
         /\ result = produced[Len(consumed) + 1]
  <1> USE DEF QueueInv, ConsumeAdvance
  <1>1. /\ next[divider] \in live
        /\ stamp[next[divider]] = stamp[divider] + 1
        /\ Len(consumed) < Len(produced)
    BY DEF ConsumerHolds, Chained, PointersLive, TailStamp, HistoryMatches, TypeOK
  <1>2. result = produced[Len(consumed) + 1]
    BY <1>1 DEF ConsumerHolds, HistoryMatches, TypeOK
  <1> QED
    BY <1>1, <1>2

LEMMA AdvanceStep == ASSUME QueueInv, ConsumeAdvance PROVE QueueInv'
  <1>1. /\ next[divider] \in live
        /\ stamp[next[divider]] = stamp[divider] + 1
        /\ Len(consumed) < Len(produced)
        /\ result = produced[Len(consumed) + 1]
    BY AdvanceValue
  <1> USE DEF QueueInv, ConsumeAdvance, heap
  <1>2. result \in Value
    BY <1>1 DEF TypeOK
  <1>3. TypeOK' /\ TailStamp' = TailStamp
    BY SMTT(90), <1>1, <1>2 DEF TypeOK, TailStamp
  <1>4. PointersLive'
    BY <1>1 DEF PointersLive, HistoryMatches, TypeOK
  <1>5. Len(consumed') = Len(consumed) + 1
    BY <1>2 DEF TypeOK
  <1>6. HistoryMatches' /\ SizeTracksContent'
    BY <1>1, <1>5 DEF HistoryMatches, SizeTracksContent, TypeOK
  <1> QED
    BY <1>3, <1>4, <1>6 DEF StampsDistinct, LiveInRange, Chained, ConsumerHolds, TempHolds

LEMMA QueueInvStep == ASSUME QueueInv, [Next]_vars PROVE QueueInv'
  <1>1. CASE \E t \in Value, a \in Addr : ProduceLink(t, a)
    BY <1>1, LinkStep
  <1>2. CASE ProducePublish
    BY <1>2, PublishStep
  <1>3. CASE ProduceCount \/ ConsumeCount
    BY <1>3, CountSteps
  <1>4. CASE Reclaim
    BY <1>4, ReclaimStep
  <1>5. CASE DeleteTemp
    BY <1>5, DeleteStep
  <1>6. CASE ProduceReturn \/ ConsumeTest
    BY <1>6, ControlSteps
  <1>7. CASE ConsumeRead
    BY <1>7, ReadStep
  <1>8. CASE ConsumeAdvance
    BY <1>8, AdvanceStep
  <1>9. CASE UNCHANGED vars
    BY <1>9 DEF vars, QueueInv, TypeOK, PointersLive, StampsDistinct, LiveInRange, Chained,
       HistoryMatches, ConsumerHolds, TempHolds, SizeTracksContent, TailStamp
  <1> QED
    BY <1>1, <1>2, <1>3, <1>4, <1>5, <1>6, <1>7, <1>8, <1>9 DEF Next, Produce, Consume

\* The strengthened invariant of the queue.
THEOREM QueueInvariant == Spec => []QueueInv
  <1>1. QueueInv /\ [Next]_vars => QueueInv'
    BY QueueInvStep
  <1> QED
    BY QueueInvInit, <1>1, PTL DEF Spec

\* Every variable of the queue keeps its type.
THEOREM TypeCorrect == Spec => []TypeOK
  <1>1. QueueInv => TypeOK
    BY DEF QueueInv
  <1> QED
    BY QueueInvariant, <1>1, PTL

\* No step of produce() or consume() dereferences a null or freed node.
THEOREM MemorySafe == Spec => []NoUseAfterFree
  <1>1. QueueInv => NoUseAfterFree
    <2> SUFFICES ASSUME QueueInv PROVE Dereferenced \subseteq live
      BY DEF NoUseAfterFree
    <2> USE DEF QueueInv
    <2>1. ppc = "publish" => next[last] \in live
      BY DEF Chained, TailStamp, PointersLive, TypeOK
    <2>2. cpc \in {"read", "advance"} => next[divider] \in live
      BY DEF ConsumerHolds, Chained, PointersLive, TailStamp, TypeOK
    <2> QED
      BY <2>1, <2>2 DEF Dereferenced, PointersLive, TempHolds
  <1> QED
    BY QueueInvariant, <1>1, PTL

\* The reclamation loop frees every node it unlinks and unlinks no other.
THEOREM NoLeak == Spec => []NoNodeLeaked
  <1>1. QueueInv => NoNodeLeaked
    BY DEF QueueInv, LiveInRange, NoNodeLeaked, TailStamp
  <1> QED
    BY QueueInvariant, <1>1, PTL

\* _size is the number of waiting values up to the steps not yet counted.
THEOREM SizeCorrect == Spec => []SizeTracksContent
  <1>1. QueueInv => SizeTracksContent
    BY DEF QueueInv
  <1> QED
    BY QueueInvariant, <1>1, PTL

\* The pointer-level queue implements the FIFO of SpscFifo: publishing is the
\* step that puts a value, advancing `divider' the one that takes it.
THEOREM QueueIsFifo == Spec => ImplementsFifo
  <1>1. Init => Fifo!Init
    BY DEF Init, Fifo!Init
  <1>2. ASSUME QueueInv, [Next]_vars PROVE [Fifo!Next]_<<produced, consumed>>
    <2>1. CASE ProducePublish
      <3>1. value[next[last]] \in Value
        BY <1>2, <2>1 DEF QueueInv, ProducePublish, Chained, TailStamp, PointersLive,
           HistoryMatches, TypeOK
      <3> QED
        BY <3>1, <2>1 DEF ProducePublish, Fifo!Next, Fifo!Put
    <2>2. CASE ConsumeAdvance
      BY <1>2, <2>2, AdvanceValue DEF ConsumeAdvance, Fifo!Next, Fifo!Get
    <2>3. CASE UNCHANGED <<produced, consumed>>
      BY <2>3
    <2> QED
      BY <1>2, <2>1, <2>2, <2>3 DEF Next, Produce, Consume, ProduceLink, ProduceCount, Reclaim,
         DeleteTemp, ProduceReturn, ConsumeTest, ConsumeRead, ConsumeCount, vars
  <1> QED
    BY QueueInvariant, <1>1, <1>2, PTL DEF Spec, ImplementsFifo, Fifo!Spec
=============================================================================
