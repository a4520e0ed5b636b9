------------------------------ MODULE IceProofs ------------------------------
(***************************************************************************)
(* An IceTransportChannel for any number of connections, any priorities    *)
(* and any round trips: the sort of the controller sorts, the channel and  *)
(* the controller agree, the state of the channel is never behind those of *)
(* its connections and no ping goes out unsigned; with the clocks, for any *)
(* intervals, a connection is given up only after the silence the code     *)
(* asks for.                                                               *)
(***************************************************************************)
EXTENDS IcePing, FiniteSetTheorems, SequenceTheorems, TLAPS

-----------------------------------------------------------------------------
(* Sequences without duplicates *)

\* RemoveFirst takes away the one occurrence of e and keeps the rest in order.
LEMMA RemoveFirstFacts ==
  ASSUME NEW S, NEW s \in Seq(S), IsInjective(s), NEW e
  PROVE  /\ RemoveFirst(s, e) \in Seq(S)
         /\ \A i \in DOMAIN RemoveFirst(s, e) :
              \E k \in DOMAIN s : k >= i /\ RemoveFirst(s, e)[i] = s[k] /\ s[k] # e
         /\ \A i, j \in DOMAIN RemoveFirst(s, e) : i < j =>
              \E k, l \in DOMAIN s : /\ k < l /\ RemoveFirst(s, e)[i] = s[k]
                                     /\ RemoveFirst(s, e)[j] = s[l]
         /\ \A k \in DOMAIN s : s[k] # e =>
              \E i \in DOMAIN RemoveFirst(s, e) : RemoveFirst(s, e)[i] = s[k]
<1>0. Len(s) \in Nat /\ DOMAIN s = 1..Len(s)
  BY LenProperties
<1>1. CASE ~ \E i \in 1..Len(s) : s[i] = e
  <2>1. RemoveFirst(s, e) = s
    BY <1>1 DEF RemoveFirst
  <2> QED BY <1>0, <1>1, <2>1
<1>2. CASE \E i \in 1..Len(s) : s[i] = e
  <2>0. PICK k \in 1..Len(s) : s[k] = e
    BY <1>2
  <2> DEFINE I == {i \in 1..Len(s) : s[i] = e}
             r == [i \in 1..(Len(s) - 1) |-> IF i < k THEN s[i] ELSE s[i + 1]]
  <2>1. I = {k}
    BY <1>0, <2>0 DEF IsInjective
  <2>2. Min(I) = k
    BY <1>0, <2>0, <2>1 DEF Min
  <2>3. RemoveFirst(s, e) = RemoveAt(s, k)
    <3>1. RemoveFirst(s, e) = RemoveAt(s, IF I # {} THEN Min(I) ELSE 0)
      BY <1>2 DEF RemoveFirst, SelectInSeq
    <3> HIDE DEF I
    <3> QED BY <2>1, <2>2, <3>1
  <2>4. RemoveAt(s, k) = r
    <3> DEFINE a == SubSeq(s, 1, k - 1)
               b == SubSeq(s, k + 1, Len(s))
               n == Len(s)
    <3>0. n \in Nat /\ k \in 1..n
      BY <1>0, <2>0
    <3>1. /\ a \in Seq(S) /\ Len(a) = k - 1
          /\ \A i \in 1..(k - 1) : a[i] = s[i]
      <4>1. \A i \in 1..(k - 1) : s[i] \in S
        BY <1>0, <2>0, ElementOfSeq
      <4>2. IF 1 <= k - 1 THEN Len(a) = k - 1 - 1 + 1 ELSE Len(a) = 0
        BY <1>0, <2>0, SubSeqProperties, <4>1
      <4> QED BY <1>0, <2>0, <4>1, <4>2, SubSeqProperties
    <3>2. /\ b \in Seq(S) /\ Len(b) = n - k
          /\ \A i \in 1..(n - k) : b[i] = s[k + i]
      <4>1. \A i \in (k + 1)..n : s[i] \in S
        BY <1>0, <2>0, ElementOfSeq
      <4>2. k + 1 \in Int /\ n \in Int
        BY <3>0
      <4>3. /\ b \in Seq(S)
            /\ Len(b) = IF k + 1 <= n THEN n - (k + 1) + 1 ELSE 0
            /\ \A i \in 1..(n - (k + 1) + 1) : b[i] = s[(k + 1) + i - 1]
        <5> HIDE DEF n
        <5> QED BY <4>1, <4>2, SubSeqProperties DEF n
      <4>4. n - (k + 1) + 1 = n - k /\ \A i \in 1..(n - k) : (k + 1) + i - 1 = k + i
        <5> HIDE DEF n
        <5> QED BY <3>0
      <4>5. Len(b) = n - k
        <5> HIDE DEF n, b
        <5> QED BY <3>0, <4>3
      <4> HIDE DEF n, b
      <4> QED BY <4>3, <4>4, <4>5
    <3> HIDE DEF a, b, n
    <3>3. /\ a \o b \in Seq(S) /\ Len(a \o b) = Len(a) + Len(b)
          /\ \A i \in 1..(Len(a) + Len(b)) :
               (a \o b)[i] = IF i <= Len(a) THEN a[i] ELSE b[i - Len(a)]
      BY ZenonT(120), <3>1, <3>2, ConcatProperties
    <3>4. Len(a) + Len(b) = n - 1
      BY <3>0, <3>1, <3>2
    <3>5. ASSUME NEW i \in 1..(n - 1)
          PROVE  (a \o b)[i] = IF i < k THEN s[i] ELSE s[i + 1]
      <4>1. (a \o b)[i] = IF i <= Len(a) THEN a[i] ELSE b[i - Len(a)]
        BY <3>3, <3>4
      <4>2. CASE i < k
        <5>1. i <= Len(a) /\ i \in 1..(k - 1)
          BY <3>0, <3>1, <4>2
        <5> QED BY <3>1, <4>1, <4>2, <5>1
      <4>3. CASE ~ (i < k)
        <5>1. i - Len(a) \in 1..(n - k) /\ k + (i - Len(a)) = i + 1
          BY <3>0, <3>1, <4>3
        <5>2. ~ (i <= Len(a))
          BY <3>0, <3>1, <4>3
        <5> QED BY <3>2, <4>1, <4>3, <5>1, <5>2
      <4> QED BY <4>2, <4>3
    <3>6. a \o b = r
      <4>1. a \o b \in [1..Len(a \o b) -> S]
        BY <3>3, LenProperties
      <4>2. a \o b \in [1..(n - 1) -> S]
        BY <3>3, <3>4, <4>1
      <4> QED BY <3>5, <4>2 DEF n
    <3>7. RemoveAt(s, k) = a \o b
      BY DEF RemoveAt, a, b
    <3> QED BY <3>6, <3>7
  <2>5. \A i \in 1..(Len(s) - 1) : r[i] = IF i < k THEN s[i] ELSE s[i + 1]
    OBVIOUS
  <2>6. DOMAIN r = 1..(Len(s) - 1)
    OBVIOUS
  <2>7. r \in Seq(S)
    <3>1. \A i \in 1..(Len(s) - 1) : r[i] \in S
      BY <1>0, <2>0, <2>5, ElementOfSeq
    <3>2. Len(s) - 1 \in Nat
      BY <1>0, <2>0
    <3> QED BY <3>1, <3>2, IsASeq
  <2> HIDE DEF r
  <2>8. \A i \in DOMAIN r : \E l \in DOMAIN s : l >= i /\ r[i] = s[l] /\ s[l] # e
    <3> SUFFICES ASSUME NEW i \in 1..(Len(s) - 1)
                 PROVE  \E l \in DOMAIN s : l >= i /\ r[i] = s[l] /\ s[l] # e
      BY <2>6
    <3>1. CASE i < k
      BY <1>0, <2>0, <2>5, <3>1 DEF IsInjective
    <3>2. CASE ~ (i < k)
      <4>1. i + 1 \in DOMAIN s /\ i + 1 # k /\ i + 1 >= i
        BY <1>0, <2>0, <3>2
      <4> QED BY <1>0, <2>0, <2>5, <3>2, <4>1 DEF IsInjective
    <3> QED BY <3>1, <3>2
  <2>9. \A i, j \in DOMAIN r : i < j =>
           \E m, l \in DOMAIN s : m < l /\ r[i] = s[m] /\ r[j] = s[l]
    <3> SUFFICES ASSUME NEW i \in 1..(Len(s) - 1), NEW j \in 1..(Len(s) - 1), i < j
                 PROVE  \E m, l \in DOMAIN s : m < l /\ r[i] = s[m] /\ r[j] = s[l]
      BY <2>6
    <3> DEFINE m == IF i < k THEN i ELSE i + 1
               l == IF j < k THEN j ELSE j + 1
    <3>1. m \in DOMAIN s /\ l \in DOMAIN s /\ m < l
      BY <1>0, <2>0
    <3>2. r[i] = s[m] /\ r[j] = s[l]
      BY <2>5
    <3> HIDE DEF m, l
    <3> QED BY <3>1, <3>2
  <2>10. \A l \in DOMAIN s : s[l] # e => \E i \in DOMAIN r : r[i] = s[l]
    <3> SUFFICES ASSUME NEW l \in 1..Len(s), s[l] # e
                 PROVE  \E i \in DOMAIN r : r[i] = s[l]
      BY <1>0
    <3>1. CASE l < k
      <4>1. l \in 1..(Len(s) - 1)
        BY <1>0, <2>0, <3>1
      <4> QED BY <2>5, <2>6, <3>1, <4>1
    <3>2. CASE l > k
      <4>1. l - 1 \in 1..(Len(s) - 1) /\ ~ (l - 1 < k) /\ (l - 1) + 1 = l
        BY <1>0, <2>0, <3>2
      <4> QED BY <2>5, <2>6, <4>1
    <3> QED BY <1>0, <2>0, <3>1, <3>2
  <2> QED BY <2>3, <2>4, <2>7, <2>8, <2>9, <2>10
<1> QED BY <1>1, <1>2

\* Without duplicates, RemoveFirst leaves none, and every element but e.
LEMMA RemoveFirstRange ==
  ASSUME NEW S, NEW s \in Seq(S), IsInjective(s), NEW e
  PROVE  /\ RemoveFirst(s, e) \in Seq(S)
         /\ IsInjective(RemoveFirst(s, e))
         /\ Range(RemoveFirst(s, e)) = Range(s) \ {e}
<1> DEFINE r == RemoveFirst(s, e)
<1>1. /\ r \in Seq(S)
      /\ \A i \in DOMAIN r : \E k \in DOMAIN s : r[i] = s[k] /\ s[k] # e
      /\ \A i, j \in DOMAIN r : i < j =>
           \E k, l \in DOMAIN s : k < l /\ r[i] = s[k] /\ r[j] = s[l]
      /\ \A k \in DOMAIN s : s[k] # e => \E i \in DOMAIN r : r[i] = s[k]
  BY RemoveFirstFacts
<1> HIDE DEF r
<1>2. IsInjective(r)
  <2> SUFFICES ASSUME NEW i \in DOMAIN r, NEW j \in DOMAIN r, i # j
               PROVE  r[i] # r[j]
    BY DEF IsInjective
  <2>1. DOMAIN r = 1..Len(r) /\ Len(r) \in Nat /\ DOMAIN s = 1..Len(s) /\ Len(s) \in Nat
    BY <1>1, LenProperties
  <2>2. i < j \/ j < i
    BY <2>1
  <2>3. \E k, l \in DOMAIN s : k # l /\ r[i] = s[k] /\ r[j] = s[l]
    BY <1>1, <2>1, <2>2
  <2> QED BY <2>3 DEF IsInjective
<1>3. Range(r) = Range(s) \ {e}
  BY <1>1 DEF Range
<1> QED BY <1>1, <1>2, <1>3 DEF r

\* A new element at the end
LEMMA AppendRange ==
  ASSUME NEW S, NEW s \in Seq(S), IsInjective(s), NEW e \in S, e \notin Range(s)
  PROVE  /\ Append(s, e) \in Seq(S)
         /\ IsInjective(Append(s, e))
         /\ Range(Append(s, e)) = Range(s) \cup {e}
<1> DEFINE r == Append(s, e)
<1>1. /\ r \in Seq(S) /\ Len(r) = Len(s) + 1 /\ r[Len(s) + 1] = e
      /\ \A i \in 1..Len(s) : r[i] = s[i]
  BY AppendProperties
<1>2. /\ DOMAIN s = 1..Len(s) /\ Len(s) \in Nat
      /\ DOMAIN r = 1..(Len(s) + 1)
  BY <1>1, LenProperties
<1> HIDE DEF r
<1>3. \A i \in 1..(Len(s) + 1) : i \in 1..Len(s) \/ i = Len(s) + 1
  BY <1>2
<1>4. \A i \in 1..Len(s) : s[i] # e
  BY <1>2 DEF Range
<1>5. IsInjective(r)
  BY <1>1, <1>2, <1>3, <1>4 DEF IsInjective
<1>6. Range(r) = Range(s) \cup {e}
  <2>1. Range(r) \subseteq Range(s) \cup {e}
    BY <1>1, <1>2, <1>3 DEF Range
  <2>2. e \in Range(r)
    BY <1>1, <1>2 DEF Range
  <2>3. Range(s) \subseteq Range(r)
    <3>1. \A i \in 1..Len(s) : i \in 1..(Len(s) + 1)
      BY <1>2
    <3> QED BY <1>1, <1>2, <3>1 DEF Range
  <2> QED BY <2>1, <2>2, <2>3
<1> QED BY <1>1, <1>5, <1>6 DEF r

-----------------------------------------------------------------------------
(* The sort of the controller *)

\* Connections of cs
Held(cs) == {c \in Conn : cs[c] # Null}

\* a is not behind b, the round trip aside.
NoWorse(cs, a, b) ==
  /\ cs[a].write_state <= cs[b].write_state
  /\ cs[a].write_state = cs[b].write_state =>
       /\ cs[b].receiving => cs[a].receiving
       /\ cs[b].receiving = cs[a].receiving => Priority[a] >= Priority[b]

\* What the comparison reads of a connection
LEMMA ConnectionFields ==
  ASSUME NEW cn \in IceConnection
  PROVE  cn.write_state \in 0..3 /\ cn.rtt \in Nat /\ cn.receiving \in BOOLEAN
  BY ValueAssumption DEF IceConnection

\* _compare_connections with rtt() is a strict weak order, as c_stable_sort
\* asks for.
LEMMA BetterOrder ==
  ASSUME NEW cs, NEW a \in Conn, NEW b \in Conn, NEW c \in Conn,
         cs[a] \in IceConnection, cs[b] \in IceConnection, cs[c] \in IceConnection
  PROVE  /\ ~ Better(cs, a, a)
         /\ Better(cs, a, b) => ~ Better(cs, b, a)
         /\ Better(cs, a, b) /\ Better(cs, b, c) => Better(cs, a, c)
         /\ ~ Better(cs, a, b) /\ ~ Better(cs, b, c) => ~ Better(cs, a, c)
         /\ ~ Better(cs, b, a) => NoWorse(cs, a, b)
<1>1. /\ cs[a].write_state \in Int /\ cs[b].write_state \in Int /\ cs[c].write_state \in Int
      /\ cs[a].rtt \in Int /\ cs[b].rtt \in Int /\ cs[c].rtt \in Int
      /\ cs[a].receiving \in BOOLEAN /\ cs[b].receiving \in BOOLEAN /\ cs[c].receiving \in BOOLEAN
  BY ConnectionFields
<1>2. Priority[a] \in Int /\ Priority[b] \in Int /\ Priority[c] \in Int
  BY ValueAssumption
<1>3. ~ Better(cs, a, a)
  BY <1>1, <1>2 DEF Better
<1>4. Better(cs, a, b) => ~ Better(cs, b, a)
  BY <1>1, <1>2 DEF Better
<1>5. Better(cs, a, b) /\ Better(cs, b, c) => Better(cs, a, c)
  BY <1>1, <1>2 DEF Better
<1>6. ~ Better(cs, a, b) /\ ~ Better(cs, b, c) => ~ Better(cs, a, c)
  BY <1>1, <1>2 DEF Better
<1>7. ~ Better(cs, b, a) => NoWorse(cs, a, b)
  BY <1>1, <1>2 DEF Better, NoWorse
<1> QED BY <1>3, <1>4, <1>5, <1>6, <1>7

\* A sequence of connections that cs has
Sortable(cs, s) == s \in Seq(Conn) /\ \A i \in DOMAIN s : cs[s[i]] \in IceConnection

\* The places of a stable sort are in a strict total order.
LEMMA BeforeOrder ==
  ASSUME NEW cs, NEW s, Sortable(cs, s),
         NEW i \in DOMAIN s, NEW j \in DOMAIN s, NEW k \in DOMAIN s
  PROVE  /\ ~ Before(cs, s, i, i)
         /\ i # j => Before(cs, s, i, j) \/ Before(cs, s, j, i)
         /\ Before(cs, s, i, j) /\ Before(cs, s, j, k) => Before(cs, s, i, k)
         /\ Before(cs, s, i, j) => NoWorse(cs, s[i], s[j])
<1>1. /\ s[i] \in Conn /\ s[j] \in Conn /\ s[k] \in Conn
      /\ cs[s[i]] \in IceConnection /\ cs[s[j]] \in IceConnection /\ cs[s[k]] \in IceConnection
  BY LenProperties, ElementOfSeq DEF Sortable
<1>2. i \in Int /\ j \in Int /\ k \in Int
  BY LenProperties DEF Sortable
<1> DEFINE B(x, y) == Better(cs, s[x], s[y])
<1>3. /\ ~ B(i, i) /\ (B(i, j) => ~ B(j, i))
      /\ B(i, j) /\ B(j, k) => B(i, k)
      /\ ~ B(i, k) /\ ~ B(k, j) => ~ B(i, j)
      /\ ~ B(j, i) /\ ~ B(i, k) => ~ B(j, k)
      /\ ~ B(k, j) /\ ~ B(j, i) => ~ B(k, i)
      /\ ~ B(j, i) => NoWorse(cs, s[i], s[j])
  BY <1>1, BetterOrder
<1>4. \A x, y \in {i, j, k} : Before(cs, s, x, y) <=> B(x, y) \/ (~ B(y, x) /\ x < y)
  BY DEF Before
<1> HIDE DEF B
<1>5. Before(cs, s, i, j) /\ Before(cs, s, j, k) => Before(cs, s, i, k)
  BY <1>2, <1>3, <1>4
<1>6. i # j => Before(cs, s, i, j) \/ Before(cs, s, j, i)
  BY <1>2, <1>3, <1>4
<1>7. ~ Before(cs, s, i, i)
  BY <1>2, <1>3, <1>4
<1>8. Before(cs, s, i, j) => NoWorse(cs, s[i], s[j])
  BY <1>2, <1>3, <1>4
<1> QED BY <1>5, <1>6, <1>7, <1>8

\* An element that goes before another has the smaller place.
LEMMA PlaceOrder ==
  ASSUME NEW cs, NEW s, Sortable(cs, s), NEW i \in DOMAIN s
  PROVE  /\ Place(cs, s, i) \in DOMAIN s
         /\ \A k \in DOMAIN s : Before(cs, s, i, k) => Place(cs, s, i) < Place(cs, s, k)
<1> DEFINE Pre(k) == {j \in DOMAIN s : Before(cs, s, j, k)}
<1>1. /\ Len(s) \in Nat /\ DOMAIN s = 1..Len(s) /\ IsFiniteSet(DOMAIN s)
      /\ Cardinality(DOMAIN s) = Len(s)
  <2>1. Len(s) \in Nat /\ DOMAIN s = 1..Len(s)
    BY LenProperties DEF Sortable
  <2>2. /\ IsFiniteSet(1..Len(s))
        /\ Cardinality(1..Len(s)) = IF 1 > Len(s) THEN 0 ELSE Len(s) - 1 + 1
    BY <2>1, FS_Interval
  <2>3. (IF 1 > Len(s) THEN 0 ELSE Len(s) - 1 + 1) = Len(s)
    BY <2>1
  <2> QED BY <2>1, <2>2, <2>3
<1>2. \A k \in DOMAIN s : /\ IsFiniteSet(Pre(k)) /\ Cardinality(Pre(k)) \in Nat
                          /\ Place(cs, s, k) = Cardinality(Pre(k)) + 1
  <2> SUFFICES ASSUME NEW k \in DOMAIN s
               PROVE  /\ IsFiniteSet(Pre(k)) /\ Cardinality(Pre(k)) \in Nat
                      /\ Place(cs, s, k) = Cardinality(Pre(k)) + 1
    OBVIOUS
  <2>1. Pre(k) \in SUBSET DOMAIN s
    OBVIOUS
  <2>2. IsFiniteSet(Pre(k))
    BY <1>1, <2>1, FS_Subset
  <2>3. Cardinality(Pre(k)) \in Nat
    BY <2>2, FS_CardinalityType
  <2> QED BY <2>2, <2>3 DEF Place
<1>3. Place(cs, s, i) \in DOMAIN s
  <2>1. Pre(i) \in SUBSET DOMAIN s /\ Pre(i) # DOMAIN s
    BY BeforeOrder
  <2>2. Cardinality(Pre(i)) <= Len(s) /\ Cardinality(Pre(i)) # Len(s)
    <3> HIDE DEF Pre
    <3> QED BY <1>1, <2>1, FS_Subset
  <2> HIDE DEF Pre
  <2> QED BY <1>1, <1>2, <2>2
<1>4. ASSUME NEW k \in DOMAIN s, Before(cs, s, i, k)
      PROVE  Place(cs, s, i) < Place(cs, s, k)
  <2>1. Pre(i) \in SUBSET Pre(k)
    BY <1>4, BeforeOrder
  <2>2. i \in Pre(k) /\ i \notin Pre(i)
    BY <1>4, BeforeOrder
  <2>3. Cardinality(Pre(i)) <= Cardinality(Pre(k)) /\ Cardinality(Pre(i)) # Cardinality(Pre(k))
    <3> HIDE DEF Pre
    <3> QED BY <1>2, <2>1, <2>2, FS_Subset
  <2> HIDE DEF Pre
  <2> QED BY <1>2, <2>3
<1> QED BY <1>3, <1>4

\* There is one element for every place.
LEMMA PlaceTaken ==
  ASSUME NEW cs, NEW s, Sortable(cs, s), NEW n \in DOMAIN s
  PROVE  \E i \in DOMAIN s : Place(cs, s, i) = n
<1> DEFINE f == [i \in DOMAIN s |-> Place(cs, s, i)]
           D == DOMAIN s
<1>1. IsFiniteSet(D)
  <2>1. Len(s) \in Nat /\ D = 1..Len(s)
    BY LenProperties DEF Sortable
  <2> QED BY <2>1, FS_Interval
<1>2. f \in [D -> D]
  BY PlaceOrder
<1>3. \A i, k \in D : f[i] = f[k] => i = k
  <2> SUFFICES ASSUME NEW i \in D, NEW k \in D, i # k PROVE f[i] # f[k]
    OBVIOUS
  <2>1. Place(cs, s, i) < Place(cs, s, k) \/ Place(cs, s, k) < Place(cs, s, i)
    BY BeforeOrder, PlaceOrder
  <2>2. D \subseteq Int
    BY LenProperties DEF Sortable
  <2>3. Place(cs, s, i) \in Int /\ Place(cs, s, k) \in Int
    BY <2>2, PlaceOrder
  <2> QED BY <2>1, <2>3
<1>4. f \in Injection(D, D)
  <2> HIDE DEF f, D
  <2> QED BY <1>2, <1>3 DEF Injection, IsInjective
<1>5. f \in Surjection(D, D)
  <2> HIDE DEF f, D
  <2> QED BY <1>1, <1>4, FS_Injection
<1> QED BY <1>5 DEF Surjection

\* c_stable_sort of the connections: the same connections, in the order of
\* the comparison.
LEMMA SortSorts ==
  ASSUME NEW cs, NEW s, Sortable(cs, s), IsInjective(s)
  PROVE  /\ StableSort(cs, s) \in Seq(Conn)
         /\ DOMAIN StableSort(cs, s) = DOMAIN s
         /\ IsInjective(StableSort(cs, s))
         /\ Range(StableSort(cs, s)) = Range(s)
         /\ \A m, n \in DOMAIN s : m < n =>
              NoWorse(cs, StableSort(cs, s)[m], StableSort(cs, s)[n])
<1> DEFINE At(n) == CHOOSE i \in DOMAIN s : Place(cs, s, i) = n
           r == StableSort(cs, s)
<1>1. DOMAIN r = DOMAIN s /\ \A n \in DOMAIN s : r[n] = s[At(n)]
  BY DEF StableSort
<1>2. \A n \in DOMAIN s : At(n) \in DOMAIN s /\ Place(cs, s, At(n)) = n
  BY PlaceTaken
<1>3. s \in Seq(Conn) /\ Len(s) \in Nat /\ DOMAIN s = 1..Len(s)
  BY LenProperties DEF Sortable
<1> HIDE DEF At
<1>4. r \in Seq(Conn)
  <2>1. r = [n \in 1..Len(s) |-> s[At(n)]]
    BY <1>3 DEF StableSort, At
  <2>2. \A n \in 1..Len(s) : s[At(n)] \in Conn
    BY <1>2, <1>3, ElementOfSeq
  <2> QED BY <1>3, <2>1, <2>2, IsASeq
<1> HIDE DEF r
<1>5. IsInjective(r)
  <2> SUFFICES ASSUME NEW m \in DOMAIN s, NEW n \in DOMAIN s, r[m] = r[n] PROVE m = n
    BY <1>1 DEF IsInjective
  <2>1. At(m) = At(n)
    BY <1>1, <1>2 DEF IsInjective
  <2> QED BY <1>2, <2>1
<1>6. Range(r) = Range(s)
  <2>1. Range(r) \subseteq Range(s)
    BY <1>1, <1>2 DEF Range
  <2>2. ASSUME NEW i \in DOMAIN s PROVE s[i] \in Range(r)
    <3>1. Place(cs, s, i) \in DOMAIN s
      BY PlaceOrder
    <3>2. At(Place(cs, s, i)) = i
      <4> DEFINE k == At(Place(cs, s, i))
      <4>1. k \in DOMAIN s /\ Place(cs, s, k) = Place(cs, s, i)
        BY <1>2, <3>1
      <4>2. Place(cs, s, i) \in Int
        BY <1>3, <3>1
      <4>3. ~ Before(cs, s, i, k) /\ ~ Before(cs, s, k, i)
        <5> HIDE DEF k
        <5>1. Before(cs, s, i, k) => Place(cs, s, i) < Place(cs, s, k)
          BY <4>1, PlaceOrder
        <5>2. Before(cs, s, k, i) => Place(cs, s, k) < Place(cs, s, i)
          BY <4>1, PlaceOrder
        <5> QED BY <4>1, <4>2, <5>1, <5>2
      <4> HIDE DEF k
      <4>4. i = k
        BY <4>1, <4>3, BeforeOrder
      <4> QED BY <4>4 DEF k
    <3> QED BY <1>1, <3>1, <3>2 DEF Range
  <2> QED BY <2>1, <2>2 DEF Range
<1>7. ASSUME NEW m \in DOMAIN s, NEW n \in DOMAIN s, m < n
      PROVE  NoWorse(cs, r[m], r[n])
  <2>1. At(m) \in DOMAIN s /\ At(n) \in DOMAIN s /\ Place(cs, s, At(m)) = m /\ Place(cs, s, At(n)) = n
    BY <1>2
  <2>2. m \in Int /\ n \in Int
    BY <1>3
  <2>3. At(m) # At(n) /\ ~ Before(cs, s, At(n), At(m))
    <3>1. Before(cs, s, At(n), At(m)) => n < m
      BY <2>1, PlaceOrder
    <3> QED BY <1>7, <2>1, <2>2, <3>1
  <2>4. Before(cs, s, At(m), At(n))
    BY <2>1, <2>3, BeforeOrder
  <2>5. NoWorse(cs, s[At(m)], s[At(n)])
    BY <2>1, <2>4, BeforeOrder
  <2> QED BY <1>1, <2>5
<1> QED BY <1>1, <1>4, <1>5, <1>6, <1>7 DEF r

-----------------------------------------------------------------------------
(* The inductive invariant of IceChannel *)

\* The types of what SortAndUpdate changes
ChannelTypes ==
  /\ conn \in [Conn -> IceConnection \cup {Null}]
  /\ connections \in Seq(Conn)
  /\ selected \in Conn \cup {Null} /\ ctl_selected \in Conn \cup {Null}
  /\ writable \in BOOLEAN /\ receiving \in BOOLEAN /\ start_pinging \in BOOLEAN

\* The types of the rest
OtherTypes ==
  /\ remote_params \in BOOLEAN
  /\ recent \in Seq(Conn) /\ todo \in Seq(Conn)
  /\ unpinged \subseteq Conn /\ pinged \subseteq Conn
  /\ requests \subseteq Conn /\ since \subseteq Conn
  /\ pc \in {"idle", "response", "unreliable", "timeout", "receiving", "crashed"}

\* The vector has each connection once.
Members == IsInjective(connections) /\ Range(connections) = LiveConn

\* The whole vector is in the order of the comparison, the round trip aside;
\* FirstIsBest alone would not survive the loss of the first connection.
Sorted ==
  \A i, j \in DOMAIN connections : i < j => NoWorse(conn, connections[i], connections[j])

\* SelectedAgree and ChannelStateCurrent before the crash
Selection ==
  /\ selected = ctl_selected
  /\ selected # Null => Live(selected) /\ conn[selected].write_state # STATE_WRITE_INIT

Current ==
  /\ writable = (selected # Null /\ conn[selected].write_state = STATE_WRITABLE)
  /\ receiving = \E c \in LiveConn : conn[c].receiving

\* What a handler has yet to look at exists.
Todo ==
  /\ Range(todo) \subseteq LiveConn
  /\ pc \in {"response", "timeout", "receiving"} => todo # << >>
  /\ pc = "response" => CanSign(conn[Head(todo)])

\* Only connections that exist are in the sets and have requests, so that a
\* new connection has none.
Known == unpinged \cup pinged \cup requests \cup since \cup Range(recent) \subseteq LiveConn

\* A connection that was pinged, or has left its first state, has a password:
\* only an answer, or pings without one, make it leave that state.
Signed ==
  \A c \in LiveConn :
    c \in requests \cup since \cup Range(recent) \/ conn[c].write_state # STATE_WRITE_INIT =>
      CanSign(conn[c])

ChannelInv == ChannelTypes /\ Members /\ Sorted /\ Selection /\ Current

IceInv ==
  /\ ChannelTypes /\ OtherTypes
  /\ Members /\ Sorted /\ Signed /\ IsInjective(recent)
  /\ ~ Crashed => Selection /\ Current /\ Todo /\ Known

\* The invariant includes the type invariant.
LEMMA IceInvTypes == IceInv => TypeOK
  BY DEF IceInv, ChannelTypes, OtherTypes, TypeOK

-----------------------------------------------------------------------------
(* Sorting and switching *)

\* sort_and_switch_connection switches to the first connection, if it has
\* answered.
LEMMA SwitchToFacts ==
  ASSUME NEW cs, NEW s \in Seq(Conn), SwitchTo(cs, s) # Null
  PROVE  SwitchTo(cs, s) \in Range(s) /\ cs[SwitchTo(cs, s)].write_state # STATE_WRITE_INIT
<1>1. s # << >> /\ ReadyToSend(cs[s[1]]) /\ SwitchTo(cs, s) = s[1]
  BY DEF SwitchTo
<1>2. s[1] \in Range(s)
  <2>1. DOMAIN s = 1..Len(s) /\ Len(s) \in Nat /\ Len(s) # 0
    BY <1>1, LenProperties, EmptySeq
  <2> QED BY <2>1 DEF Range
<1>3. cs[s[1]].write_state # STATE_WRITE_INIT
  BY <1>1 DEF ReadyToSend, STATE_WRITABLE, STATE_WRITE_UNRELIABLE, STATE_WRITE_INIT
<1> QED BY <1>1, <1>2, <1>3

\* _sort_connections_and_update_state brings channel and controller in line
\* with the connections, whatever happened to them.
LEMMA SortAndUpdateFacts ==
  ASSUME NEW cs \in [Conn -> IceConnection \cup {Null}], NEW old \in Seq(Conn),
         IsInjective(old), Range(old) = Held(cs),
         selected \in Conn \cup {Null}, selected = ctl_selected,
         selected # Null => cs[selected] # Null /\ cs[selected].write_state # STATE_WRITE_INIT,
         SortAndUpdate(cs, old)
  PROVE  conn' = cs /\ ChannelInv'
<1> DEFINE s   == StableSort(cs, old)
           new == SwitchTo(cs, s)
           sel == IF new = Null THEN selected ELSE new
           ctl == IF new = Null THEN ctl_selected ELSE new
<1>1. /\ conn' = cs /\ connections' = s /\ selected' = sel /\ ctl_selected' = ctl
      /\ writable' = (sel # Null /\ cs[sel].write_state = STATE_WRITABLE)
      /\ receiving' = \E c \in Range(s) : cs[c].receiving
      /\ start_pinging' = (start_pinging \/ HasPingable(cs, s, ctl))
  BY DEF SortAndUpdate, UpdateState
<1>2. LiveConn' = Held(cs)
  BY <1>1 DEF LiveConn, Live, Held
<1>3. Sortable(cs, old)
  <2>1. \A i \in DOMAIN old : old[i] \in Held(cs)
    BY DEF Range
  <2> QED BY <2>1 DEF Sortable, Held
<1>4. /\ s \in Seq(Conn) /\ DOMAIN s = DOMAIN old /\ IsInjective(s) /\ Range(s) = Held(cs)
      /\ \A m, n \in DOMAIN old : m < n => NoWorse(cs, s[m], s[n])
  BY <1>3, SortSorts
<1> HIDE DEF s
<1>5. sel = ctl /\ sel \in Conn \cup {Null}
      /\ (sel # Null => cs[sel] # Null /\ cs[sel].write_state # STATE_WRITE_INIT)
  <2>1. CASE new = Null
    BY <2>1
  <2>2. CASE new # Null
    <3>1. new \in Held(cs) /\ cs[new].write_state # STATE_WRITE_INIT
      BY <1>4, <2>2, SwitchToFacts
    <3> QED BY <2>2, <3>1 DEF Held
  <2> QED BY <2>1, <2>2
<1> HIDE DEF sel, ctl
<1>6. ChannelTypes'
  <2>1. writable' \in BOOLEAN /\ receiving' \in BOOLEAN /\ start_pinging' \in BOOLEAN
    BY <1>1
  <2> QED BY <1>1, <1>4, <1>5, <2>1 DEF ChannelTypes
<1>7. Members'
  BY <1>1, <1>2, <1>4 DEF Members
<1>8. Sorted'
  <2>1. \A m, n \in DOMAIN s : m < n => NoWorse(cs, s[m], s[n])
    BY <1>4
  <2> QED BY <1>1, <2>1 DEF Sorted
<1>9. Selection'
  BY <1>1, <1>5 DEF Selection, Live
<1>10. Current'
  <2>1. writable' = (selected' # Null /\ conn'[selected'].write_state = STATE_WRITABLE)
    BY <1>1
  <2>2. receiving' = \E c \in LiveConn' : conn'[c].receiving
    BY <1>1, <1>2, <1>4
  <2> QED BY <2>1, <2>2 DEF Current
<1> QED BY <1>1, <1>6, <1>7, <1>8, <1>9, <1>10 DEF ChannelInv

\* A change of one connection, signalled or not
LEMMA SignalFacts ==
  ASSUME ChannelInv, NEW c \in Conn, Live(c), NEW cn \in IceConnection,
         conn[c].write_state # STATE_WRITE_INIT => cn.write_state # STATE_WRITE_INIT,
         SignalStateChange(c, cn)
  PROVE  conn' = [conn EXCEPT ![c] = cn] /\ LiveConn' = LiveConn /\ ChannelInv'
<1> DEFINE cs == [conn EXCEPT ![c] = cn]
<1>1. /\ conn \in [Conn -> IceConnection \cup {Null}] /\ connections \in Seq(Conn)
      /\ selected \in Conn \cup {Null} /\ selected = ctl_selected
      /\ IsInjective(connections) /\ Range(connections) = LiveConn
      /\ selected # Null => Live(selected) /\ conn[selected].write_state # STATE_WRITE_INIT
  BY DEF ChannelInv, ChannelTypes, Members, Selection
<1>2. cs \in [Conn -> IceConnection \cup {Null}]
  BY <1>1
<1>3. \A d \in Conn : cs[d] = IF d = c THEN cn ELSE conn[d]
  BY <1>1
<1> HIDE DEF cs
<1>4. \A d \in Conn : cs[d] # Null <=> Live(d)
  BY <1>3, ConnAssumption DEF Live
<1>5. Held(cs) = LiveConn
  BY <1>4 DEF Held, LiveConn
<1>6. selected # Null => cs[selected] # Null /\ cs[selected].write_state # STATE_WRITE_INIT
  BY <1>1, <1>3, <1>4
<1>7. CASE <<cn.write_state, cn.receiving>> # <<conn[c].write_state, conn[c].receiving>>
  <2>1. SortAndUpdate(cs, connections)
    BY <1>7 DEF SignalStateChange, cs
  <2>2. conn' = cs /\ ChannelInv'
    BY <1>1, <1>2, <1>5, <1>6, <2>1, SortAndUpdateFacts
  <2>3. LiveConn' = LiveConn
    BY <1>5, <2>2 DEF LiveConn, Live, Held
  <2> QED BY <2>2, <2>3 DEF cs
<1>8. CASE <<cn.write_state, cn.receiving>> = <<conn[c].write_state, conn[c].receiving>>
  <2>1. conn' = cs /\ UNCHANGED <<connections, ctl_selected, selected, writable, receiving, start_pinging>>
    BY <1>8 DEF SignalStateChange, cs, chvars
  <2>2. LiveConn' = LiveConn
    BY <1>5, <2>1 DEF LiveConn, Live, Held
  <2>3. \A d \in Conn : conn'[d].write_state = conn[d].write_state /\ conn'[d].receiving = conn[d].receiving
    BY <1>3, <1>8, <2>1
  <2>4. ChannelTypes' /\ Members'
    BY <1>2, <2>1, <2>2 DEF ChannelInv, ChannelTypes, Members
  <2>5. Sorted'
    <3> SUFFICES ASSUME NEW i \in DOMAIN connections, NEW j \in DOMAIN connections, i < j
                 PROVE  NoWorse(conn', connections[i], connections[j])
      BY <2>1 DEF Sorted
    <3>1. connections[i] \in Conn /\ connections[j] \in Conn
      BY <1>1, LenProperties, ElementOfSeq
    <3>2. NoWorse(conn, connections[i], connections[j])
      BY DEF ChannelInv, Sorted
    <3> QED BY <2>3, <3>1, <3>2 DEF NoWorse
  <2>6. Selection'
    BY <1>1, <1>4, <1>6, <2>1 DEF Selection, Live
  <2>7. Current'
    <3>1. selected' # Null => conn'[selected'].write_state = conn[selected].write_state
      BY <1>1, <2>1, <2>3
    <3>2. /\ writable = (selected # Null /\ conn[selected].write_state = STATE_WRITABLE)
          /\ receiving = \E d \in LiveConn : conn[d].receiving
      BY DEF ChannelInv, Current
    <3>3. (\E d \in LiveConn : conn[d].receiving) <=> \E d \in LiveConn' : conn'[d].receiving
      BY <2>2, <2>3 DEF LiveConn
    <3>4. writable' = (selected' # Null /\ conn'[selected'].write_state = STATE_WRITABLE)
      BY <2>1, <3>1, <3>2
    <3>5. receiving' = \E d \in LiveConn' : conn'[d].receiving
      BY <2>1, <3>2, <3>3
    <3> QED BY <3>4, <3>5 DEF Current
  <2> QED BY <2>1, <2>2, <2>4, <2>5, <2>6, <2>7 DEF ChannelInv, cs
<1> QED BY <1>7, <1>8

-----------------------------------------------------------------------------
(* The actions, one lemma each *)

\* Elements of a sequence of connections
LEMMA HeadTail ==
  ASSUME NEW s \in Seq(Conn), s # << >>
  PROVE  /\ Head(s) \in Range(s) /\ Head(s) \in Conn
         /\ Tail(s) \in Seq(Conn) /\ Range(Tail(s)) \subseteq Range(s)
<1>1. Len(s) \in Nat /\ DOMAIN s = 1..Len(s) /\ Len(s) # 0
  BY LenProperties, EmptySeq
<1>2. /\ Tail(s) \in Seq(Conn) /\ Len(Tail(s)) = Len(s) - 1
      /\ \A i \in 1..Len(Tail(s)) : Tail(s)[i] = s[i + 1]
  BY HeadTailProperties
<1>3. Head(s) = s[1] /\ 1 \in DOMAIN s
  BY <1>1
<1>4. Head(s) \in Range(s) /\ Head(s) \in Conn
  BY <1>1, <1>3, ElementOfSeq DEF Range
<1>5. DOMAIN Tail(s) = 1..(Len(s) - 1)
  BY <1>2, LenProperties
<1>6. \A i \in 1..(Len(s) - 1) : i + 1 \in DOMAIN s /\ Tail(s)[i] = s[i + 1]
  BY <1>1, <1>2
<1>7. Range(Tail(s)) \subseteq Range(s)
  BY <1>5, <1>6 DEF Range
<1> QED BY <1>2, <1>4, <1>7

\* Before the crash everything holds.
LEMMA Running ==
  ASSUME IceInv, ~ Crashed
  PROVE  /\ ChannelInv /\ OtherTypes /\ Signed /\ IsInjective(recent)
         /\ Todo /\ Known
  BY DEF IceInv, ChannelInv

\* The invariant from its parts
LEMMA RunningInv ==
  ASSUME ChannelInv, OtherTypes, Signed, IsInjective(recent), Todo, Known
  PROVE  IceInv
  BY DEF IceInv, ChannelInv

\* Passwords, when one connection changes but keeps its own
LEMMA SignedKept ==
  ASSUME Signed, conn \in [Conn -> IceConnection \cup {Null}],
         NEW c \in LiveConn, NEW cn \in IceConnection,
         conn' = [conn EXCEPT ![c] = cn], CanSign(cn) = CanSign(conn[c]),
         cn.write_state # STATE_WRITE_INIT => CanSign(cn),
         requests' \subseteq requests, since' \subseteq since, recent' = recent
  PROVE  Signed'
<1>1. c \in Conn /\ \A d \in Conn : conn'[d] = IF d = c THEN cn ELSE conn[d]
  BY DEF LiveConn
<1>2. SUFFICES ASSUME NEW d \in Conn, conn'[d] # Null,
                      \/ d \in requests' \cup since' \cup Range(recent')
                      \/ conn'[d].write_state # STATE_WRITE_INIT
               PROVE  CanSign(conn'[d])
  BY DEF Signed, LiveConn, Live
<1>3. CASE d = c
  <2>1. d \in requests \cup since \cup Range(recent) => CanSign(conn[c])
    BY <1>3 DEF Signed
  <2>2. CASE cn.write_state # STATE_WRITE_INIT
    BY <1>1, <1>3, <2>2
  <2>3. CASE cn.write_state = STATE_WRITE_INIT
    BY <1>1, <1>2, <1>3, <2>1, <2>3
  <2> QED BY <2>2, <2>3
<1>4. CASE d # c
  <2>1. conn'[d] = conn[d] /\ d \in LiveConn
    BY <1>1, <1>2, <1>4 DEF LiveConn, Live
  <2> QED BY <1>2, <2>1 DEF Signed
<1> QED BY <1>3, <1>4

\* A step of a handler that changes the connection it looks at
LEMMA SignalInv ==
  ASSUME IceInv, ~ Crashed, NEW c \in LiveConn, NEW cn \in IceConnection,
         conn[c].write_state # STATE_WRITE_INIT => cn.write_state # STATE_WRITE_INIT,
         CanSign(cn) = CanSign(conn[c]),
         cn.write_state # STATE_WRITE_INIT => CanSign(cn),
         SignalStateChange(c, cn),
         requests' \subseteq requests, since' \subseteq since,
         UNCHANGED <<remote_params, recent, unpinged, pinged>>,
         pc' \in {"idle", "response", "unreliable", "timeout", "receiving"},
         todo' \in Seq(Conn), Range(todo') \subseteq LiveConn,
         pc' \in {"response", "timeout", "receiving"} => todo' # << >>,
         pc' = "response" => Head(todo') = c /\ CanSign(cn)
  PROVE  IceInv'
<1>1. ChannelInv /\ OtherTypes /\ Signed /\ IsInjective(recent) /\ Todo /\ Known
  BY Running
<1>2. c \in Conn /\ Live(c)
  BY DEF LiveConn
<1>3. conn' = [conn EXCEPT ![c] = cn] /\ LiveConn' = LiveConn /\ ChannelInv'
  BY <1>1, <1>2, SignalFacts
<1>4. conn \in [Conn -> IceConnection \cup {Null}]
  BY <1>1 DEF ChannelInv, ChannelTypes
<1>5. Signed'
  BY <1>1, <1>3, <1>4, SignedKept
<1>6. OtherTypes'
  BY <1>1 DEF OtherTypes
<1>7. Todo'
  <2>1. conn'[c] = cn
    BY <1>2, <1>3, <1>4
  <2> QED BY <1>3, <2>1 DEF Todo
<1>8. Known'
  BY <1>1, <1>3 DEF Known
<1>9. IsInjective(recent)'
  BY <1>1
<1> QED BY <1>3, <1>5, <1>6, <1>7, <1>8, <1>9, RunningInv, PTL

\* A ping of an unknown address makes a connection nobody knew.
LEMMA UnknownAddressInv ==
  ASSUME IceInv, NEW c \in Conn, NEW name \in Username, UnknownAddress(c, name)
  PROVE  IceInv'
<1> DEFINE cn == NewIceConnection(name)
           cs == [conn EXCEPT ![c] = cn]
           old == Append(connections, c)
<1>1. /\ pc = "idle" /\ ~ Live(c) /\ SortAndUpdate(cs, old)
      /\ unpinged' = unpinged \cup {c}
      /\ UNCHANGED <<remote_params, pinged, recent, requests, since, pc, todo>>
  BY DEF UnknownAddress, KnownAddress, netvars
<1>2. ChannelInv /\ OtherTypes /\ Signed /\ IsInjective(recent) /\ Todo /\ Known
  BY <1>1, Running DEF Crashed
<1>3. /\ conn \in [Conn -> IceConnection \cup {Null}] /\ connections \in Seq(Conn)
      /\ selected \in Conn \cup {Null} /\ selected = ctl_selected
      /\ IsInjective(connections) /\ Range(connections) = LiveConn
      /\ selected # Null => Live(selected) /\ conn[selected].write_state # STATE_WRITE_INIT
  BY <1>2 DEF ChannelInv, ChannelTypes, Members, Selection
<1>4. cn \in IceConnection /\ cn.write_state = STATE_WRITE_INIT
  <2>1. remote_params \in BOOLEAN
    BY <1>2 DEF OtherTypes
  <2> QED BY <2>1, ValueAssumption DEF NewIceConnection, IceConnection, STATE_WRITE_INIT
<1> HIDE DEF cn
<1>5. cs \in [Conn -> IceConnection \cup {Null}] /\ \A d \in Conn : cs[d] = IF d = c THEN cn ELSE conn[d]
  BY <1>3, <1>4
<1>6. cs[c] # Null
  BY <1>4, <1>5, ConnAssumption
<1> HIDE DEF cs
<1>7. Held(cs) = LiveConn \cup {c}
  BY <1>5, <1>6 DEF Held, LiveConn, Live
<1>8. old \in Seq(Conn) /\ IsInjective(old) /\ Range(old) = Held(cs)
  <2>1. c \notin Range(connections)
    BY <1>1, <1>3 DEF LiveConn
  <2> QED BY <1>3, <1>7, <2>1, AppendRange
<1> HIDE DEF old
<1>9. selected # Null => cs[selected] # Null /\ cs[selected].write_state # STATE_WRITE_INIT
  BY <1>1, <1>3, <1>5 DEF Live
<1>10. conn' = cs /\ ChannelInv'
  BY <1>1, <1>3, <1>5, <1>8, <1>9, SortAndUpdateFacts
<1>11. LiveConn' = LiveConn \cup {c}
  BY <1>7, <1>10 DEF LiveConn, Live, Held
<1>12. OtherTypes'
  BY <1>1, <1>2 DEF OtherTypes
<1>13. Todo' /\ Known'
  <2>1. Known'
    BY <1>1, <1>2, <1>11 DEF Known
  <2>2. Range(todo') \subseteq LiveConn'
    BY <1>1, <1>2, <1>11 DEF Todo
  <2> QED BY <1>1, <2>1, <2>2 DEF Todo
<1>14. Signed'
  <2> SUFFICES ASSUME NEW d \in LiveConn',
                      \/ d \in requests \cup since \cup Range(recent)
                      \/ cs[d].write_state # STATE_WRITE_INIT
               PROVE  CanSign(cs[d])
    BY <1>1, <1>10 DEF Signed
  <2>1. d # c
    <3>1. c \notin LiveConn /\ cs[c].write_state = STATE_WRITE_INIT
      BY <1>1, <1>4, <1>5 DEF LiveConn
    <3> QED BY <1>2, <3>1 DEF Known
  <2>2. d \in LiveConn /\ cs[d] = conn[d]
    BY <1>5, <1>11, <2>1 DEF LiveConn
  <2> QED BY <1>2, <2>2 DEF Signed
<1> QED BY <1>1, <1>2, <1>10, <1>12, <1>13, <1>14 DEF IceInv, ChannelInv

\* The answer brings passwords, and changes nothing that is compared.
LEMMA SetRemoteIceParamsInv ==
  ASSUME IceInv, SetRemoteIceParams
  PROVE  IceInv'
<1> DEFINE Signing(d) == [conn[d] EXCEPT !.password = TRUE]
           cs == [d \in Conn |-> IF Live(d) /\ conn[d].username = "answer" THEN Signing(d) ELSE conn[d]]
<1>1. /\ pc = "idle" /\ remote_params' = TRUE /\ SortAndUpdate(cs, connections)
      /\ UNCHANGED <<unpinged, pinged, recent, requests, since, pc, todo>>
  BY DEF SetRemoteIceParams, netvars, setvars
<1>2. ChannelInv /\ OtherTypes /\ Signed /\ IsInjective(recent) /\ Todo /\ Known
  BY <1>1, Running DEF Crashed
<1>3. /\ conn \in [Conn -> IceConnection \cup {Null}] /\ connections \in Seq(Conn)
      /\ selected \in Conn \cup {Null} /\ selected = ctl_selected
      /\ IsInjective(connections) /\ Range(connections) = LiveConn
      /\ selected # Null => Live(selected) /\ conn[selected].write_state # STATE_WRITE_INIT
  BY <1>2 DEF ChannelInv, ChannelTypes, Members, Selection
<1>4. \A d \in LiveConn : /\ Signing(d) \in IceConnection
                          /\ Signing(d).write_state = conn[d].write_state
                          /\ CanSign(conn[d]) => CanSign(Signing(d))
  <2>1. \A d \in LiveConn : conn[d] \in IceConnection
    BY <1>3 DEF LiveConn, Live
  <2> QED BY <2>1 DEF IceConnection, CanSign
<1> HIDE DEF Signing
<1>5. /\ cs \in [Conn -> IceConnection \cup {Null}]
      /\ \A d \in Conn \ LiveConn : cs[d] = Null
      /\ \A d \in LiveConn : cs[d] = Signing(d) \/ cs[d] = conn[d]
  BY <1>3, <1>4 DEF LiveConn, Live
<1> HIDE DEF cs
<1>6. Held(cs) = LiveConn
  <2>1. \A d \in LiveConn : cs[d] # Null
    BY <1>4, <1>5, ConnAssumption DEF LiveConn, Live
  <2> QED BY <1>5, <2>1 DEF Held, LiveConn
<1>7. selected # Null => cs[selected] # Null /\ cs[selected].write_state # STATE_WRITE_INIT
  <2> SUFFICES ASSUME selected # Null
               PROVE  cs[selected] # Null /\ cs[selected].write_state # STATE_WRITE_INIT
    OBVIOUS
  <2>1. selected \in LiveConn
    BY <1>3 DEF LiveConn
  <2>2. selected \in Held(cs)
    BY <1>6, <2>1
  <2> QED BY <1>3, <1>4, <1>5, <2>1, <2>2 DEF Held
<1>8. conn' = cs /\ ChannelInv'
  BY <1>1, <1>3, <1>5, <1>6, <1>7, SortAndUpdateFacts
<1>9. LiveConn' = LiveConn
  BY <1>6, <1>8 DEF LiveConn, Live, Held
<1>10. OtherTypes'
  BY <1>1, <1>2 DEF OtherTypes
<1>11. Todo' /\ Known'
  BY <1>1, <1>2, <1>9 DEF Todo, Known
<1>12. Signed'
  <2> SUFFICES ASSUME NEW d \in LiveConn,
                      \/ d \in requests \cup since \cup Range(recent)
                      \/ cs[d].write_state # STATE_WRITE_INIT
               PROVE  CanSign(cs[d])
    BY <1>1, <1>8, <1>9 DEF Signed
  <2>1. CASE cs[d] = Signing(d)
    BY <1>2, <1>4, <2>1 DEF Signed
  <2>2. CASE cs[d] = conn[d]
    BY <1>2, <2>2 DEF Signed
  <2> QED BY <1>5, <2>1, <2>2
<1> QED BY <1>1, <1>2, <1>8, <1>10, <1>11, <1>12 DEF IceInv, ChannelInv

\* A response, up to update_receiving
LEMMA PingResponseInv ==
  ASSUME IceInv, NEW c \in Conn, NEW rtt \in Rtt, PingResponse(c, rtt)
  PROVE  IceInv'
<1> DEFINE cn == [conn[c] EXCEPT !.rtt = rtt, !.receiving = TRUE]
<1>1. /\ pc = "idle" /\ Live(c) /\ c \in requests
      /\ requests' \subseteq requests /\ since' \subseteq since
      /\ SignalStateChange(c, cn) /\ pc' = "response" /\ todo' = <<c>>
      /\ UNCHANGED <<remote_params, unpinged, pinged, recent>>
  BY DEF PingResponse, KnownAddress, Pending, setvars
<1>2. ~ Crashed /\ c \in LiveConn
  BY <1>1 DEF Crashed, LiveConn
<1>3. conn[c] \in IceConnection
  BY <1>2 DEF IceInv, ChannelTypes, LiveConn, Live
<1>4. /\ cn \in IceConnection
      /\ cn.write_state = conn[c].write_state /\ CanSign(cn) = CanSign(conn[c])
  BY <1>3 DEF IceConnection, CanSign
<1>5. CanSign(conn[c])
  BY <1>1, <1>2 DEF IceInv, Signed
<1>6. /\ todo' \in Seq(Conn) /\ Range(todo') \subseteq LiveConn
      /\ todo' # << >> /\ Head(todo') = c
  <2>1. <<c>> \in Seq(Conn) /\ DOMAIN <<c>> = {1} /\ <<c>>[1] = c /\ Head(<<c>>) = c /\ <<c>> # << >>
    OBVIOUS
  <2> QED BY <1>1, <1>2, <2>1 DEF Range
<1> HIDE DEF cn
<1> QED BY <1>1, <1>2, <1>4, <1>5, <1>6, SignalInv

\* A handler between two signals looks at a connection that exists.
LEMMA AtHead ==
  ASSUME IceInv, pc \in {"response", "unreliable", "timeout", "receiving"}, todo # << >>
  PROVE  /\ ~ Crashed /\ Head(todo) \in LiveConn /\ conn[Head(todo)] \in IceConnection
         /\ todo \in Seq(Conn) /\ Range(todo) \subseteq LiveConn
         /\ Tail(todo) \in Seq(Conn) /\ Range(Tail(todo)) \subseteq LiveConn
<1>1. ~ Crashed
  BY DEF Crashed
<1>2. todo \in Seq(Conn) /\ Range(todo) \subseteq LiveConn
  BY <1>1 DEF IceInv, OtherTypes, Todo
<1>3. /\ Head(todo) \in LiveConn
      /\ Tail(todo) \in Seq(Conn) /\ Range(Tail(todo)) \subseteq LiveConn
  BY <1>2, HeadTail
<1>4. conn[Head(todo)] \in IceConnection
  BY <1>3 DEF IceInv, ChannelTypes, LiveConn, Live
<1> QED BY <1>1, <1>2, <1>3, <1>4

\* The rest of the response
LEMMA PingResponseWritableInv ==
  ASSUME IceInv, PingResponseWritable
  PROVE  IceInv'
<1> DEFINE c == Head(todo)
           cn == [conn[c] EXCEPT !.write_state = STATE_WRITABLE]
<1>1. /\ pc = "response" /\ SignalStateChange(c, cn) /\ pc' = "idle" /\ todo' = << >>
      /\ UNCHANGED <<remote_params, unpinged, pinged, recent, requests, since>>
  BY DEF PingResponseWritable, netvars, setvars
<1>2. todo # << >> /\ CanSign(conn[c])
  BY <1>1 DEF IceInv, Todo, Crashed
<1>3. ~ Crashed /\ c \in LiveConn /\ conn[c] \in IceConnection
  BY <1>1, <1>2, AtHead
<1>4. /\ cn \in IceConnection
      /\ cn.write_state # STATE_WRITE_INIT /\ CanSign(cn) = CanSign(conn[c])
  BY <1>3 DEF IceConnection, CanSign, STATE_WRITABLE, STATE_WRITE_INIT
<1>5. todo' \in Seq(Conn) /\ Range(todo') \subseteq LiveConn
  BY <1>1 DEF Range
<1> HIDE DEF cn, c
<1> QED BY <1>1, <1>2, <1>3, <1>4, <1>5, SignalInv

\* An error response: the connection goes, the others stay in order, and the
\* process ends.
LEMMA ErrorResponseInv ==
  ASSUME IceInv, NEW c \in Conn, ErrorResponse(c)
  PROVE  IceInv'
<1> DEFINE r == RemoveFirst(connections, c)
<1>1. /\ pc = "idle" /\ Live(c) /\ conn' = [conn EXCEPT ![c] = Null]
      /\ connections' = r /\ unpinged' \subseteq unpinged /\ pinged' \subseteq pinged
      /\ requests' \subseteq requests /\ since' \subseteq since
      /\ selected' = (IF selected = c THEN Null ELSE selected) /\ pc' = "crashed"
      /\ UNCHANGED <<remote_params, recent, ctl_selected, writable, receiving, start_pinging, todo>>
  BY DEF ErrorResponse, Forget, KnownAddress
<1>2. /\ ChannelTypes /\ OtherTypes /\ Members /\ Sorted /\ Signed /\ IsInjective(recent)
  BY DEF IceInv
<1>3. /\ conn \in [Conn -> IceConnection \cup {Null}] /\ connections \in Seq(Conn)
      /\ IsInjective(connections) /\ Range(connections) = LiveConn
  BY <1>2 DEF ChannelTypes, Members
<1>4. /\ conn' \in [Conn -> IceConnection \cup {Null}]
      /\ \A d \in Conn : conn'[d] = IF d = c THEN Null ELSE conn[d]
  BY <1>1, <1>3
<1>5. LiveConn' = LiveConn \ {c}
  BY <1>4 DEF LiveConn, Live
<1>6. r \in Seq(Conn) /\ IsInjective(r) /\ Range(r) = LiveConn \ {c}
  BY <1>3, RemoveFirstRange
<1>7. \A i, j \in DOMAIN r : i < j =>
        \E k, l \in DOMAIN connections : k < l /\ r[i] = connections[k] /\ r[j] = connections[l]
  BY <1>3, RemoveFirstFacts
<1> HIDE DEF r
<1>8. Members'
  BY <1>1, <1>5, <1>6 DEF Members
<1>9. Sorted'
  <2> SUFFICES ASSUME NEW i \in DOMAIN r, NEW j \in DOMAIN r, i < j
               PROVE  NoWorse(conn', r[i], r[j])
    BY <1>1 DEF Sorted
  <2>1. NoWorse(conn, r[i], r[j])
    BY <1>2, <1>7 DEF Sorted
  <2>2. conn'[r[i]] = conn[r[i]] /\ conn'[r[j]] = conn[r[j]]
    <3>1. r[i] \in LiveConn \ {c} /\ r[j] \in LiveConn \ {c}
      BY <1>6 DEF Range
    <3> QED BY <1>4, <3>1 DEF LiveConn
  <2> QED BY <2>1, <2>2 DEF NoWorse
<1>10. Signed'
  <2> SUFFICES ASSUME NEW d \in LiveConn \ {c},
                      \/ d \in requests' \cup since' \cup Range(recent)
                      \/ conn'[d].write_state # STATE_WRITE_INIT
               PROVE  CanSign(conn'[d])
    BY <1>1, <1>5 DEF Signed
  <2>1. conn'[d] = conn[d]
    BY <1>4 DEF LiveConn
  <2> QED BY <1>1, <1>2, <2>1 DEF Signed
<1>11. ChannelTypes'
  BY <1>1, <1>2, <1>4, <1>6 DEF ChannelTypes
<1>12. OtherTypes'
  BY <1>1, <1>2 DEF OtherTypes
<1> QED BY <1>1, <1>2, <1>8, <1>9, <1>10, <1>11, <1>12 DEF IceInv, Crashed

\* The timer: the handler copies the vector.
LEMMA CheckAndPingInv ==
  ASSUME IceInv, CheckAndPing
  PROVE  IceInv'
<1>1. /\ pc = "idle" /\ todo' = connections /\ pc' = "unreliable"
      /\ UNCHANGED <<conn, remote_params, connections, unpinged, pinged, recent, requests, since,
                     ctl_selected, selected, writable, receiving, start_pinging>>
  BY DEF CheckAndPing, setvars, netvars, chvars
<1>2. ChannelInv /\ OtherTypes /\ Signed /\ IsInjective(recent) /\ Todo /\ Known
  BY <1>1, Running DEF Crashed
<1>3. LiveConn' = LiveConn
  BY <1>1 DEF LiveConn, Live
<1>4. ChannelTypes' /\ Members' /\ Sorted' /\ Selection'
  BY <1>1, <1>2, <1>3 DEF ChannelInv, ChannelTypes, Members, Sorted, Selection, Live
<1>5. Current' /\ Signed'
  BY <1>1, <1>2, <1>3 DEF ChannelInv, Current, Signed
<1>6. Todo'
  BY <1>1, <1>2, <1>3 DEF ChannelInv, Members, Todo
<1>7. OtherTypes'
  BY <1>1, <1>2 DEF OtherTypes, ChannelInv, ChannelTypes
<1>8. Known'
  BY <1>1, <1>2, <1>3 DEF Known
<1> QED BY <1>1, <1>2, <1>4, <1>5, <1>6, <1>7, <1>8 DEF IceInv

\* update_state, its three parts.  A connection in its first state times out
\* only after pings, for which it needs a password.
LEMMA UpdateUnreliableInv ==
  ASSUME IceInv, NEW late \in BOOLEAN, UpdateUnreliable(late)
  PROVE  IceInv'
<1> DEFINE c == Head(todo)
           cn == IF late /\ c \in since /\ conn[c].write_state = STATE_WRITABLE
                 THEN [conn[c] EXCEPT !.write_state = STATE_WRITE_UNRELIABLE] ELSE conn[c]
<1>1. /\ pc = "unreliable" /\ todo # << >> /\ SignalStateChange(c, cn) /\ pc' = "timeout"
      /\ UNCHANGED <<remote_params, unpinged, pinged, recent, requests, since, todo>>
  BY DEF UpdateUnreliable, netvars, setvars
<1>2. /\ ~ Crashed /\ c \in LiveConn /\ conn[c] \in IceConnection
      /\ todo \in Seq(Conn) /\ Range(todo) \subseteq LiveConn
  BY <1>1, AtHead
<1>3. conn[c].write_state # STATE_WRITE_INIT => CanSign(conn[c])
  BY <1>2 DEF IceInv, Signed
<1>4. /\ cn \in IceConnection /\ CanSign(cn) = CanSign(conn[c])
      /\ cn.write_state # STATE_WRITE_INIT <=> conn[c].write_state # STATE_WRITE_INIT
  BY <1>2 DEF IceConnection, CanSign, STATE_WRITABLE, STATE_WRITE_UNRELIABLE, STATE_WRITE_INIT
<1> HIDE DEF cn, c
<1> QED BY <1>1, <1>2, <1>3, <1>4, SignalInv

\* see UpdateUnreliableInv
LEMMA UpdateTimeoutInv ==
  ASSUME IceInv, NEW late \in BOOLEAN, UpdateTimeout(late)
  PROVE  IceInv'
<1> DEFINE c == Head(todo)
           lost == /\ late /\ c \in since
                   /\ conn[c].write_state \in {STATE_WRITE_UNRELIABLE, STATE_WRITE_INIT}
           cn == IF lost THEN [conn[c] EXCEPT !.write_state = STATE_WRITE_TIMEOUT] ELSE conn[c]
<1>1. /\ pc = "timeout" /\ SignalStateChange(c, cn) /\ pc' = "receiving"
      /\ UNCHANGED <<remote_params, unpinged, pinged, recent, requests, since, todo>>
  BY DEF UpdateTimeout, netvars, setvars
<1>2. todo # << >>
  BY <1>1 DEF IceInv, Todo, Crashed
<1>3. /\ ~ Crashed /\ c \in LiveConn /\ conn[c] \in IceConnection
      /\ todo \in Seq(Conn) /\ Range(todo) \subseteq LiveConn
  BY <1>1, <1>2, AtHead
<1>4. lost \/ conn[c].write_state # STATE_WRITE_INIT => CanSign(conn[c])
  BY <1>3 DEF IceInv, Signed
<1>5. /\ cn \in IceConnection /\ CanSign(cn) = CanSign(conn[c])
      /\ cn.write_state = conn[c].write_state \/ (lost /\ cn.write_state = STATE_WRITE_TIMEOUT)
  <2>1. CASE lost
    <3> HIDE DEF lost
    <3> QED BY <1>3, <2>1 DEF IceConnection, CanSign, STATE_WRITE_TIMEOUT
  <2>2. CASE ~ lost
    <3> HIDE DEF lost
    <3> QED BY <1>3, <2>2
  <2> QED BY <2>1, <2>2
<1>6. STATE_WRITE_TIMEOUT # STATE_WRITE_INIT
  BY DEF STATE_WRITE_TIMEOUT, STATE_WRITE_INIT
<1> HIDE DEF cn, c, lost
<1>7. /\ conn[c].write_state # STATE_WRITE_INIT => cn.write_state # STATE_WRITE_INIT
      /\ cn.write_state # STATE_WRITE_INIT => CanSign(cn)
  BY <1>4, <1>5, <1>6
<1> QED BY <1>1, <1>2, <1>3, <1>5, <1>7, SignalInv

\* see UpdateUnreliableInv
LEMMA UpdateReceivingInv ==
  ASSUME IceInv, NEW late \in BOOLEAN, UpdateReceiving(late)
  PROVE  IceInv'
<1> DEFINE c == Head(todo)
           cn == [conn[c] EXCEPT !.receiving = @ /\ ~ late]
<1>1. /\ pc = "receiving" /\ SignalStateChange(c, cn)
      /\ todo' = Tail(todo) /\ pc' = "unreliable"
      /\ UNCHANGED <<remote_params, unpinged, pinged, recent, requests, since>>
  BY DEF UpdateReceiving, netvars, setvars
<1>2. todo # << >>
  BY <1>1 DEF IceInv, Todo, Crashed
<1>3. /\ ~ Crashed /\ c \in LiveConn /\ conn[c] \in IceConnection
      /\ Tail(todo) \in Seq(Conn) /\ Range(Tail(todo)) \subseteq LiveConn
  BY <1>1, <1>2, AtHead
<1>4. conn[c].write_state # STATE_WRITE_INIT => CanSign(conn[c])
  BY <1>3 DEF IceInv, Signed
<1>5. /\ cn \in IceConnection /\ CanSign(cn) = CanSign(conn[c])
      /\ cn.write_state = conn[c].write_state
  BY <1>3 DEF IceConnection, CanSign
<1> HIDE DEF cn, c
<1> QED BY <1>1, <1>3, <1>4, <1>5, SignalInv

\* A step of the timer that only moves connections between the sets
LEMMA PingStepInv ==
  ASSUME IceInv, pc = "unreliable", todo = << >>, pc' = "idle",
         UNCHANGED <<conn, remote_params, connections, ctl_selected, selected,
                     writable, receiving, start_pinging, todo>>,
         unpinged' \cup pinged' \subseteq LiveConn,
         \/ UNCHANGED <<recent, requests, since>>
         \/ \E c \in LiveConn :
              /\ CanSign(conn[c])
              /\ recent' = Append(RemoveFirst(recent, c), c)
              /\ requests' = requests \cup {c} /\ since' = since \cup {c}
  PROVE  IceInv'
<1>1. ChannelInv /\ OtherTypes /\ Signed /\ IsInjective(recent) /\ Todo /\ Known
  BY Running DEF Crashed
<1>2. LiveConn' = LiveConn /\ LiveConn \subseteq Conn
  BY DEF LiveConn, Live
<1>3. ChannelTypes' /\ Members' /\ Sorted' /\ Selection'
  BY <1>1, <1>2 DEF ChannelInv, ChannelTypes, Members, Sorted, Selection, Live
<1>4. Current'
  BY <1>1, <1>2 DEF ChannelInv, Current
<1>5. Todo'
  BY <1>1, <1>2 DEF Todo
<1>6. CASE UNCHANGED <<recent, requests, since>>
  <2>1. OtherTypes'
    BY <1>1, <1>2, <1>6 DEF OtherTypes
  <2>2. Known' /\ Signed' /\ IsInjective(recent)'
    BY <1>1, <1>2, <1>6 DEF Known, Signed
  <2> QED BY <1>3, <1>4, <1>5, <2>1, <2>2 DEF IceInv
<1>7. ASSUME NEW c \in LiveConn, CanSign(conn[c]),
             recent' = Append(RemoveFirst(recent, c), c),
             requests' = requests \cup {c}, since' = since \cup {c}
      PROVE  IceInv'
  <2>0. recent \in Seq(Conn) /\ IsInjective(recent) /\ c \in Conn
    BY <1>1, <1>2 DEF OtherTypes
  <2>1. /\ RemoveFirst(recent, c) \in Seq(Conn) /\ IsInjective(RemoveFirst(recent, c))
        /\ Range(RemoveFirst(recent, c)) = Range(recent) \ {c}
    BY <2>0, RemoveFirstRange
  <2>2. /\ recent' \in Seq(Conn) /\ IsInjective(recent')
        /\ Range(recent') = Range(RemoveFirst(recent, c)) \cup {c}
    BY <1>7, <2>0, <2>1, AppendRange
  <2>3. Range(recent') \subseteq Range(recent) \cup {c}
    BY <2>1, <2>2
  <2>4. OtherTypes'
    BY <1>1, <1>2, <1>7, <2>2 DEF OtherTypes
  <2>5. Known'
    BY <1>1, <1>2, <1>7, <2>3 DEF Known
  <2>6. Signed'
    BY <1>1, <1>2, <1>7, <2>3 DEF Signed
  <2> QED BY <1>3, <1>4, <1>5, <2>2, <2>4, <2>5, <2>6 DEF IceInv
<1> QED BY <1>6, <1>7

\* The selected connection is pinged without a look at its password; it has
\* one, since it has answered.
LEMMA PingSelectedInv ==
  ASSUME IceInv, NEW due \in SUBSET Conn, PingSelected(due)
  PROVE  IceInv'
<1>1. /\ pc = "unreliable" /\ todo = << >> /\ ctl_selected # Null
      /\ recent' = Append(RemoveFirst(recent, ctl_selected), ctl_selected)
      /\ requests' = requests \cup {ctl_selected} /\ since' = since \cup {ctl_selected}
      /\ unpinged' \subseteq unpinged /\ pinged' = pinged \cup {ctl_selected}
      /\ pc' = "idle"
      /\ UNCHANGED <<conn, remote_params, connections, ctl_selected, selected,
                     writable, receiving, start_pinging, todo>>
  BY DEF PingSelected, SelectedFirst, PingConnection, chvars
<1>2. ChannelInv /\ Signed /\ Known
  BY <1>1, Running DEF Crashed
<1>3. ctl_selected \in LiveConn /\ CanSign(conn[ctl_selected])
  BY <1>1, <1>2 DEF ChannelInv, ChannelTypes, Selection, Signed, LiveConn
<1>4. unpinged' \cup pinged' \subseteq LiveConn
  BY <1>1, <1>2, <1>3 DEF Known
<1> QED BY <1>1, <1>3, <1>4, PingStepInv

\* The next connection to ping is one with a password.
LEMMA PingNextInv ==
  ASSUME IceInv, NEW due \in SUBSET Conn, NEW c \in Conn, PingNext(c, due)
  PROVE  IceInv'
<1>1. /\ pc = "unreliable" /\ todo = << >> /\ c \in unpinged \cup pinged /\ CanSign(conn[c])
      /\ recent' = Append(RemoveFirst(recent, c), c)
      /\ requests' = requests \cup {c} /\ since' = since \cup {c}
      /\ unpinged' \subseteq unpinged \cup pinged /\ pinged' = {c}
      /\ pc' = "idle"
      /\ UNCHANGED <<conn, remote_params, connections, ctl_selected, selected,
                     writable, receiving, start_pinging, todo>>
  BY DEF PingNext, IsPingable, PingConnection, chvars
<1>2. Known
  BY <1>1, Running DEF Crashed
<1>3. c \in LiveConn /\ unpinged' \cup pinged' \subseteq LiveConn
  BY <1>1, <1>2 DEF Known
<1> QED BY <1>1, <1>3, PingStepInv

\* No ping
LEMMA NoPingInv ==
  ASSUME IceInv, (\E due \in SUBSET Conn : PingNone(due)) \/ PingLater
  PROVE  IceInv'
<1>1. /\ pc = "unreliable" /\ todo = << >> /\ pc' = "idle"
      /\ unpinged' \cup pinged' = unpinged \cup pinged
      /\ UNCHANGED <<conn, remote_params, connections, ctl_selected, selected,
                     writable, receiving, start_pinging, todo, recent, requests, since>>
  BY DEF PingNone, PingLater, chvars, netvars, setvars
<1>2. Known
  BY <1>1, Running DEF Crashed
<1>3. unpinged' \cup pinged' \subseteq LiveConn
  BY <1>1, <1>2 DEF Known
<1> QED BY <1>1, <1>3, PingStepInv

-----------------------------------------------------------------------------
(* The theorems about IceChannel *)

\* No connection yet
LEMMA IceInit == Init => IceInv
<1> SUFFICES ASSUME Init PROVE IceInv
  OBVIOUS
<1>1. LiveConn = {}
  BY DEF Init, LiveConn, Live
<1>2. Range(<< >>) = {} /\ IsInjective(<< >>) /\ << >> \in Seq(Conn) /\ DOMAIN << >> = {}
  BY DEF Range, IsInjective
<1>3. ChannelTypes /\ OtherTypes
  BY <1>2 DEF Init, ChannelTypes, OtherTypes
<1>4. Members /\ Sorted /\ Signed
  BY <1>1, <1>2 DEF Init, Members, Sorted, Signed
<1>5. Selection /\ Current
  BY <1>1 DEF Init, Selection, Current
<1>6. Todo /\ Known
  BY <1>2 DEF Init, Todo, Known
<1> QED BY <1>2, <1>3, <1>4, <1>5, <1>6 DEF IceInv, Init

\* Every step of the channel keeps the invariant.
LEMMA IceNext == IceInv /\ [Next]_vars => IceInv'
<1> SUFFICES ASSUME IceInv, [Next]_vars PROVE IceInv'
  OBVIOUS
<1>1. CASE \E c \in Conn, name \in Username : UnknownAddress(c, name)
  BY <1>1, UnknownAddressInv
<1>2. CASE SetRemoteIceParams
  BY <1>2, SetRemoteIceParamsInv
<1>3. CASE \E c \in Conn, rtt \in Rtt : PingResponse(c, rtt)
  BY <1>3, PingResponseInv
<1>4. CASE PingResponseWritable
  BY <1>4, PingResponseWritableInv
<1>5. CASE \E c \in Conn : ErrorResponse(c)
  BY <1>5, ErrorResponseInv
<1>6. CASE CheckAndPing
  BY <1>6, CheckAndPingInv
<1>7. CASE \E late \in BOOLEAN : UpdateUnreliable(late) \/ UpdateTimeout(late) \/ UpdateReceiving(late)
  BY <1>7, UpdateUnreliableInv, UpdateTimeoutInv, UpdateReceivingInv
<1>8. CASE \E due \in SUBSET Conn : PingSelected(due)
  BY <1>8, PingSelectedInv
<1>9. CASE \E due \in SUBSET Conn : \E c \in Conn : PingNext(c, due)
  BY <1>9, PingNextInv
<1>10. CASE (\E due \in SUBSET Conn : PingNone(due)) \/ PingLater
  BY <1>10, NoPingInv
<1>11. CASE UNCHANGED vars
  <2>1. UNCHANGED <<conn, remote_params, connections, unpinged, pinged, recent, requests, since,
                    ctl_selected, selected, writable, receiving, start_pinging, pc, todo>>
    BY <1>11 DEF vars, setvars, netvars, chvars
  <2>2. LiveConn' = LiveConn
    BY <2>1 DEF LiveConn, Live
  <2>3. /\ ChannelTypes' = ChannelTypes /\ OtherTypes' = OtherTypes
        /\ Members' = Members /\ Sorted' = Sorted
    BY <2>1, <2>2 DEF ChannelTypes, OtherTypes, Members, Sorted
  <2>4. Signed' = Signed /\ Selection' = Selection /\ Current' = Current
    BY <2>1, <2>2 DEF Signed, Selection, Current, Live
  <2>5. Todo' = Todo /\ Known' = Known /\ Crashed' = Crashed
    BY <2>1, <2>2 DEF Todo, Known, Crashed
  <2> QED BY <2>1, <2>3, <2>4, <2>5 DEF IceInv
<1> QED
  BY <1>1, <1>2, <1>3, <1>4, <1>5, <1>6, <1>7, <1>8, <1>9, <1>10, <1>11 DEF Next

\* The invariant gives the properties that are checked.
LEMMA IceProperties ==
  IceInv => SelectedAgree /\ ChannelStateCurrent /\ FirstIsBest /\ PingsAreSigned
<1> SUFFICES ASSUME IceInv
             PROVE  SelectedAgree /\ ChannelStateCurrent /\ FirstIsBest /\ PingsAreSigned
  OBVIOUS
<1>1. SelectedAgree
  BY DEF IceInv, Selection, SelectedAgree
<1>2. ChannelStateCurrent
  BY DEF IceInv, Current, ChannelStateCurrent
<1>3. PingsAreSigned
  BY DEF IceInv, Signed, PingsAreSigned
<1>4. FirstIsBest
  <2> SUFFICES ASSUME NEW i \in DOMAIN connections
               PROVE  NoWorse(conn, connections[1], connections[i])
    BY DEF FirstIsBest, NoWorse
  <2>1. /\ connections \in Seq(Conn) /\ Range(connections) = LiveConn
        /\ conn \in [Conn -> IceConnection \cup {Null}]
    BY DEF IceInv, ChannelTypes, Members
  <2>2. DOMAIN connections = 1..Len(connections) /\ Len(connections) \in Nat
    BY <2>1, LenProperties
  <2>3. CASE i = 1
    <3> DEFINE c == connections[1]
    <3>1. c \in Conn /\ conn[c] \in IceConnection
      BY <2>1, <2>3 DEF Range, LiveConn, Live
    <3>2. conn[c].write_state \in 0..3 /\ Priority[c] \in Nat
      BY <3>1, ConnectionFields, ValueAssumption
    <3> HIDE DEF c
    <3>3. NoWorse(conn, c, c)
      BY <3>2 DEF NoWorse
    <3> QED BY <2>3, <3>3 DEF c
  <2>4. CASE i # 1
    <3>1. 1 \in DOMAIN connections /\ 1 < i
      BY <2>2, <2>4
    <3> QED BY <3>1 DEF IceInv, Sorted
  <2> QED BY <2>3, <2>4
<1> QED BY <1>1, <1>2, <1>3, <1>4

\* The invariant of a channel, with its type invariant
THEOREM ChannelInvariant == Spec => [](TypeOK /\ IceInv)
<1> QED BY IceInit, IceNext, IceInvTypes, PTL DEF Spec

\* Until a connection is destroyed, channel and controller hold the same
\* selected connection, which exists and has answered a ping.
THEOREM SelectionAgrees == Spec => []SelectedAgree
<1> QED BY IceInit, IceNext, IceProperties, PTL DEF Spec

\* _writable and _receiving of a channel are never behind the states of its
\* connections.
THEOREM ChannelIsCurrent == Spec => []ChannelStateCurrent
<1> QED BY IceInit, IceNext, IceProperties, PTL DEF Spec

\* The first connection of the vector is never behind another, the round
\* trip aside, for any number of connections.
THEOREM FirstConnectionIsBest == Spec => []FirstIsBest
<1> QED BY IceInit, IceNext, IceProperties, PTL DEF Spec

\* Every connection that was pinged had the peer's password.
THEOREM EveryPingIsSigned == Spec => []PingsAreSigned
<1> QED BY IceInit, IceNext, IceProperties, PTL DEF Spec

-----------------------------------------------------------------------------
(* The inductive invariant of IcePing *)

ClockTypes ==
  /\ ping_age \in [Conn -> Age] /\ response_age \in [Conn -> Age]
  /\ answered \in [Conn -> BOOLEAN]
  /\ pings \in [Conn -> Seq(Age)] /\ \A c \in Conn : Len(pings[c]) <= ConnectFails
  /\ request_ages \in [Conn -> SUBSET Age]
  /\ num_pings_sent \in [Conn -> 0..MinPings]
  /\ rtt_samples \in [Conn -> 0..(RttRatio + 2)]
  /\ channel_age \in Age

TimerTypes ==
  /\ timer_age \in Age
  /\ cur_ping_interval \in {WeakInterval, StrongInterval} /\ gone \in BOOLEAN

\* The pings without a response were sent after the last response.
PingsSince == \A c \in Conn : \A i \in DOMAIN pings[c] : pings[c][i] <= response_age[c]

\* Once there is a sample, the average is one of ages.
Averaged == \A c \in Conn : rtt_samples[c] # 0 => c \in LiveConn /\ conn[c].rtt \in Rtt

\* The part of GivenUpWasSilent about one connection
SilentConn(c) ==
  /\ conn[c].write_state = STATE_WRITE_UNRELIABLE => response_age[c] > ConnectTimeout
  /\ conn[c].write_state = STATE_WRITE_TIMEOUT => response_age[c] > WriteTimeout

\* Between the two halves of a response only its own connection may be in a
\* state it is about to leave.
Silent == \A c \in LiveConn : (pc = "response" => c # Head(todo)) => SilentConn(c)

TimeInv == IceInv /\ ClockTypes /\ TimerTypes /\ PingsSince /\ Averaged /\ Silent

\* Facts about the constants
LEMMA Constants ==
  /\ MaxAge \in Nat /\ Rtt = 0..MaxAge /\ Age = 0..MaxAge
  /\ ConnectTimeout \in 0..(MaxAge - 1) /\ WriteTimeout \in 0..(MaxAge - 1)
  /\ WeakInterval \in Nat /\ StrongInterval \in Nat
  /\ MinPings \in Nat \ {0} /\ ConnectFails \in Nat \ {0} /\ RttRatio \in Nat \ {0}
<1>1. MaxAge \in Nat /\ Rtt = 0..MaxAge /\ Age = 0..MaxAge
  BY ClockAssumption DEF Age
<1>2. ConnectTimeout \in 0..(MaxAge - 1) /\ WriteTimeout \in 0..(MaxAge - 1)
  BY ClockAssumption
<1>3. WeakInterval \in 0..(MaxAge - 1) /\ StrongInterval \in 0..(MaxAge - 1)
  BY ClockAssumption
<1>4. MinPings \in Nat \ {0} /\ ConnectFails \in Nat \ {0} /\ RttRatio \in Nat \ {0}
  BY ClockAssumption
<1> QED BY <1>1, <1>2, <1>3, <1>4

\* Ages grow, up to MaxAge, and keep their order.
LEMMA OlderFacts ==
  ASSUME NEW a \in Age
  PROVE  /\ Older(a) \in Age
         /\ \A t \in 0..(MaxAge - 1) : a > t => Older(a) > t
         /\ \A b \in Age : a <= b => Older(a) <= Older(b)
<1>1. MaxAge \in Nat /\ a \in 0..MaxAge /\ Age = 0..MaxAge
  BY Constants
<1>2. \A b \in Age : Older(b) = IF b + 1 < MaxAge THEN b + 1 ELSE MaxAge
  BY DEF Older, UpTo
<1> QED BY <1>1, <1>2

\* A count that stops at its bound
LEMMA UpToFacts ==
  ASSUME NEW bound \in Nat, NEW n \in 0..bound
  PROVE  UpTo(bound, n + 1) \in 0..bound /\ (bound # 0 => UpTo(bound, n + 1) # 0)
  BY DEF UpTo

\* Products keep the order.
LEMMA MulMono ==
  ASSUME NEW r \in Nat, NEW x \in Nat, NEW y \in Nat, x <= y
  PROVE  r * x \in Nat /\ r * x <= r * y
  OBVIOUS

\* What \div gives
LEMMA DivFacts ==
  ASSUME NEW n \in Nat, NEW d \in Nat, d > 0
  PROVE  n \div d \in Nat /\ d * (n \div d) <= n
  OBVIOUS

\* A weighted average of two numbers up to m is one, too
\* (GetNextMovingAverage).
LEMMA AverageBound ==
  ASSUME NEW m \in Nat, NEW x \in 0..m, NEW y \in 0..m, NEW r \in Nat
  PROVE  (r * x + y) \div (r + 1) \in 0..m
<1> DEFINE n == r * x + y
           q == n \div (r + 1)
<1>1. r * x \in Nat /\ r * x <= r * m
  BY MulMono
<1>2. n \in Nat /\ r + 1 \in Nat /\ r + 1 > 0
  BY <1>1
<1>3. q \in Nat /\ (r + 1) * q <= n
  <2> HIDE DEF n
  <2> QED BY <1>2, DivFacts
<1>4. n <= r * m + m
  <2>1. r * m \in Nat
    BY MulMono
  <2> QED BY <1>1, <2>1
<1> HIDE DEF q, n
<1>5. (r + 1) * q = r * q + q
  BY <1>3
<1>6. ASSUME q > m PROVE FALSE
  <2>1. r * m \in Nat /\ r * m <= r * q
    BY <1>3, <1>6, MulMono
  <2>2. r * q \in Nat
    BY <1>3, MulMono
  <2>3. r * q + q <= r * m + m
    BY <1>2, <1>3, <1>4, <1>5, <2>1, <2>2
  <2> QED BY <1>3, <1>6, <2>1, <2>2, <2>3
<1>7. q \in 0..m
  BY <1>3, <1>6
<1> QED BY <1>7 DEF q, n

\* The average of round trips is a value IceChannel allows.
LEMMA NextRttFacts ==
  ASSUME TimeInv, NEW c \in Conn, NEW a \in Age
  PROVE  NextRtt(c, a) \in Rtt
<1>1. MaxAge \in Nat /\ a \in 0..MaxAge /\ Rtt = 0..MaxAge /\ RttRatio \in Nat
  BY Constants
<1>2. CASE rtt_samples[c] = 0
  BY <1>1, <1>2 DEF NextRtt
<1>3. CASE rtt_samples[c] # 0
  <2>1. conn[c].rtt \in 0..MaxAge
    BY <1>1, <1>3 DEF TimeInv, Averaged
  <2>2. (RttRatio * conn[c].rtt + a) \div (RttRatio + 1) \in 0..MaxAge
    BY <1>1, <2>1, AverageBound
  <2> QED BY <1>1, <1>3, <2>2 DEF NextRtt
<1> QED BY <1>2, <1>3

-----------------------------------------------------------------------------
(* With clocks, every step is one of IceChannel. *)

\* What the clocks say is a choice that IceChannel has.
LEMMA ClockStep ==
  ASSUME TimeInv, [TNext]_<<vars, timevars>>
  PROVE  [Next]_vars
<1>1. CASE Tick \/ PeerGone
  BY <1>1 DEF Tick, PeerGone
<1>2. CASE \E c \in Conn, name \in Username : TUnknownAddress(c, name)
  BY <1>2 DEF TUnknownAddress, Next
<1>3. CASE TSetRemoteIceParams
  BY <1>3 DEF TSetRemoteIceParams, Next
<1>4. CASE Response
  <2>1. PICK c \in Conn, a \in Age : TPingResponse(c, a)
    BY <1>4 DEF Response
  <2>2. PingResponse(c, NextRtt(c, a))
    BY <2>1 DEF TPingResponse
  <2>3. NextRtt(c, a) \in Rtt
    BY NextRttFacts
  <2> QED BY <2>2, <2>3 DEF Next
<1>5. CASE TCheckAndPing
  BY <1>5 DEF TCheckAndPing, Next
<1>6. CASE TPingResponseWritable
  BY <1>6 DEF TPingResponseWritable, Next
<1>7. CASE TUpdateUnreliable
  <2>1. \E late \in BOOLEAN : UpdateUnreliable(late)
    <3> DEFINE late == TooManyPingFails(Head(todo)) /\ TooLongWithoutResponse(Head(todo), ConnectTimeout)
    <3>1. UpdateUnreliable(late)
      BY <1>7 DEF TUpdateUnreliable
    <3>2. late \in BOOLEAN
      OBVIOUS
    <3> HIDE DEF late
    <3> QED BY <3>1, <3>2
  <2> QED BY <2>1 DEF Next
<1>8. CASE TUpdateTimeout
  <2>1. \E late \in BOOLEAN : UpdateTimeout(late)
    <3> DEFINE late == TooLongWithoutResponse(Head(todo), WriteTimeout)
    <3>1. UpdateTimeout(late)
      BY <1>8 DEF TUpdateTimeout
    <3>2. late \in BOOLEAN
      BY DEF TooLongWithoutResponse
    <3> HIDE DEF late
    <3> QED BY <3>1, <3>2
  <2> QED BY <2>1 DEF Next
<1>9. CASE TUpdateReceiving
  <2>1. \E late \in BOOLEAN : UpdateReceiving(late)
    <3> DEFINE late == ~ (answered[Head(todo)] \/ response_age[Head(todo)] < ReceiveTimeout)
    <3>1. UpdateReceiving(late)
      BY <1>9 DEF TUpdateReceiving
    <3>2. late \in BOOLEAN
      OBVIOUS
    <3> HIDE DEF late
    <3> QED BY <3>1, <3>2
  <2> QED BY <2>1 DEF Next
<1>10. CASE TPingSelected \/ (\E c \in Conn : TPingNext(c)) \/ TPingNone
  <2>1. Due \in SUBSET Conn
    BY DEF Due, LiveConn
  <2>2. PingSelected(Due) \/ (\E c \in Conn : PingNext(c, Due)) \/ PingNone(Due)
    BY <1>10 DEF TPingSelected, TPingNext, TPingNone
  <2> QED BY <2>1, <2>2 DEF Next
<1>11. CASE TPingLater
  BY <1>11 DEF TPingLater, Next
<1>12. CASE UNCHANGED <<vars, timevars>>
  BY <1>12
<1> QED
  BY <1>1, <1>2, <1>3, <1>4, <1>5, <1>6, <1>7, <1>8, <1>9, <1>10, <1>11, <1>12
  DEF TNext, Handler

-----------------------------------------------------------------------------
(* The actions with clocks *)

\* A signal, or none, leaves the changed connection.
LEMMA SignalConn ==
  ASSUME NEW c, NEW cn, SignalStateChange(c, cn)
  PROVE  conn' = [conn EXCEPT ![c] = cn]
  BY DEF SignalStateChange, SortAndUpdate

\* A step that touches no clock but the timer's, and keeps the averages of
\* the connections
LEMMA QuietStep ==
  ASSUME TimeInv, IceInv', UNCHANGED clocks, TimerTypes',
         \A c \in LiveConn : c \in LiveConn' /\ conn'[c].rtt = conn[c].rtt,
         Silent'
  PROVE  TimeInv'
<1>1. UNCHANGED <<ping_age, response_age, answered, pings, request_ages,
                  num_pings_sent, rtt_samples, channel_age>>
  BY DEF clocks
<1>2. ClockTypes' /\ PingsSince'
  BY <1>1 DEF TimeInv, ClockTypes, PingsSince
<1>3. Averaged'
  BY <1>1 DEF TimeInv, Averaged
<1> QED BY <1>2, <1>3 DEF TimeInv

\* The timer starts.
LEMMA StartTimerTypes ==
  ASSUME TimeInv, StartTimer
  PROVE  TimerTypes'
<1>1. timer_age' \in {0, timer_age} /\ UNCHANGED <<cur_ping_interval, gone>>
  BY DEF StartTimer
<1>2. 0 \in Age
  BY Constants
<1> QED BY <1>1, <1>2 DEF TimeInv, TimerTypes

\* The timer starts again.
LEMMA RestartTimerTypes ==
  ASSUME TimeInv, RestartTimer
  PROVE  TimerTypes'
<1>1. /\ timer_age' \in {0, timer_age} /\ UNCHANGED gone
      /\ cur_ping_interval' \in {WeakInterval, StrongInterval}
  BY DEF RestartTimer, ChannelInterval
<1>2. 0 \in Age
  BY Constants
<1> QED BY <1>1, <1>2 DEF TimeInv, TimerTypes

\* The connections as functions
LEMMA ConnTypes ==
  ASSUME TimeInv
  PROVE  /\ conn \in [Conn -> IceConnection \cup {Null}] /\ LiveConn \subseteq Conn
         /\ \A c \in LiveConn : conn[c] \in IceConnection
  BY DEF TimeInv, IceInv, ChannelTypes, LiveConn, Live

\* A handler's step on the connection it looks at: if it gives the connection
\* up, the connection was silent.
LEMMA LookStep ==
  ASSUME TimeInv, IceInv', UNCHANGED clocks, StartTimer,
         NEW c \in LiveConn, NEW cn \in IceConnection, SignalStateChange(c, cn),
         cn.rtt = conn[c].rtt,
         pc # "response" \/ c = Head(todo), pc' # "response",
         cn.write_state = conn[c].write_state =>
           pc # "response" \/ cn.write_state = STATE_WRITABLE,
         cn.write_state # conn[c].write_state =>
           /\ cn.write_state = STATE_WRITE_UNRELIABLE => response_age[c] > ConnectTimeout
           /\ cn.write_state = STATE_WRITE_TIMEOUT => response_age[c] > WriteTimeout
  PROVE  TimeInv'
<1>1. conn' = [conn EXCEPT ![c] = cn]
  BY SignalConn
<1>2. /\ conn \in [Conn -> IceConnection \cup {Null}] /\ LiveConn \subseteq Conn
      /\ \A d \in LiveConn : conn[d] \in IceConnection
  BY ConnTypes
<1>3. \A d \in Conn : conn'[d] = IF d = c THEN cn ELSE conn[d]
  BY <1>1, <1>2
<1>4. LiveConn' = LiveConn
  BY <1>2, <1>3, ConnAssumption DEF LiveConn, Live
<1>5. Silent'
  <2> SUFFICES ASSUME NEW d \in LiveConn PROVE SilentConn(d)'
    BY <1>4 DEF Silent
  <2>1. response_age'[d] = response_age[d]
    BY DEF clocks
  <2>2. CASE d # c
    <3>1. SilentConn(d) /\ conn'[d] = conn[d]
      BY <1>2, <1>3, <2>2 DEF TimeInv, Silent
    <3> QED BY <2>1, <3>1 DEF SilentConn
  <2>3. CASE d = c
    <3>1. conn'[d] = cn
      BY <1>2, <1>3, <2>3
    <3>2. CASE cn.write_state = conn[c].write_state
      <4>1. CASE pc # "response"
        <5>1. SilentConn(d)
          BY <4>1 DEF TimeInv, Silent
        <5> QED BY <2>1, <2>3, <3>1, <3>2, <5>1 DEF SilentConn
      <4>2. CASE cn.write_state = STATE_WRITABLE
        BY <3>1, <4>2 DEF SilentConn, STATE_WRITABLE, STATE_WRITE_UNRELIABLE, STATE_WRITE_TIMEOUT
      <4> QED BY <3>2, <4>1, <4>2
    <3>3. CASE cn.write_state # conn[c].write_state
      BY <2>1, <2>3, <3>1, <3>3 DEF SilentConn
    <3> QED BY <3>2, <3>3
  <2> QED BY <2>2, <2>3
<1>6. \A d \in LiveConn : d \in LiveConn' /\ conn'[d].rtt = conn[d].rtt
  BY <1>2, <1>3, <1>4
<1>7. TimerTypes'
  BY StartTimerTypes
<1> QED BY <1>5, <1>6, <1>7, QuietStep

\* Time passes.
LEMMA TickInv ==
  ASSUME TimeInv, IceInv', Tick
  PROVE  TimeInv'
<1>1. /\ pc = "idle"
      /\ ping_age' = [c \in Conn |-> Older(ping_age[c])]
      /\ response_age' = [c \in Conn |-> Older(response_age[c])]
      /\ pings' = [c \in Conn |-> [i \in DOMAIN pings[c] |-> Older(pings[c][i])]]
      /\ request_ages' = [c \in Conn |-> {Older(a) : a \in request_ages[c]}]
      /\ channel_age' = Older(channel_age) /\ timer_age' = Older(timer_age)
      /\ UNCHANGED <<conn, pc, todo, answered, num_pings_sent, rtt_samples, cur_ping_interval, gone>>
  BY DEF Tick, vars
<1>2. /\ ping_age \in [Conn -> Age] /\ response_age \in [Conn -> Age]
      /\ pings \in [Conn -> Seq(Age)] /\ \A c \in Conn : Len(pings[c]) <= ConnectFails
      /\ request_ages \in [Conn -> SUBSET Age] /\ channel_age \in Age /\ timer_age \in Age
  BY DEF TimeInv, ClockTypes, TimerTypes
<1>3. LiveConn' = LiveConn /\ LiveConn \subseteq Conn
  BY <1>1 DEF LiveConn, Live
<1>4. \A c \in Conn : pings'[c] \in Seq(Age) /\ Len(pings'[c]) <= ConnectFails
  <2> SUFFICES ASSUME NEW c \in Conn
               PROVE  pings'[c] \in Seq(Age) /\ Len(pings'[c]) <= ConnectFails
    OBVIOUS
  <2> DEFINE p == pings[c]
  <2>1. p \in Seq(Age) /\ Len(p) \in Nat /\ DOMAIN p = 1..Len(p) /\ Len(p) <= ConnectFails
    BY <1>2, LenProperties
  <2>2. pings'[c] = [i \in 1..Len(p) |-> Older(p[i])]
    BY <1>1, <2>1
  <2>3. \A i \in 1..Len(p) : Older(p[i]) \in Age
    BY <2>1, ElementOfSeq, OlderFacts
  <2> HIDE DEF p
  <2>4. pings'[c] \in Seq(Age)
    BY <2>1, <2>2, <2>3, IsASeq
  <2>5. Len(pings'[c]) = Len(p)
    <3>1. DOMAIN pings'[c] = 1..Len(p) /\ DOMAIN pings'[c] = 1..Len(pings'[c]) /\ Len(pings'[c]) \in Nat
      BY <2>2, <2>4, LenProperties
    <3> QED BY <2>1, <3>1
  <2> QED BY <2>1, <2>4, <2>5
<1>5. ClockTypes'
  <2>1. ping_age' \in [Conn -> Age] /\ response_age' \in [Conn -> Age] /\ channel_age' \in Age
    BY <1>1, <1>2, OlderFacts
  <2>2. request_ages' \in [Conn -> SUBSET Age]
    BY <1>1, <1>2, OlderFacts
  <2>3. pings' \in [Conn -> Seq(Age)]
    BY <1>1, <1>4
  <2> QED BY <1>1, <1>4, <2>1, <2>2, <2>3 DEF TimeInv, ClockTypes
<1>6. TimerTypes'
  <2>1. timer_age' \in Age
    BY <1>1, <1>2, OlderFacts
  <2> QED BY <1>1, <2>1 DEF TimeInv, TimerTypes
<1>7. PingsSince'
  <2> SUFFICES ASSUME NEW c \in Conn, NEW i \in DOMAIN pings'[c]
               PROVE  pings'[c][i] <= response_age'[c]
    BY DEF PingsSince
  <2>1. i \in DOMAIN pings[c] /\ pings'[c][i] = Older(pings[c][i])
    BY <1>1
  <2>2. pings[c][i] \in Age /\ response_age[c] \in Age
    <3>1. pings[c] \in Seq(Age)
      BY <1>2
    <3>2. i \in 1..Len(pings[c])
      BY <2>1, <3>1, LenProperties
    <3> QED BY <1>2, <3>1, <3>2, ElementOfSeq
  <2>3. pings[c][i] <= response_age[c]
    BY <2>1 DEF TimeInv, PingsSince
  <2>4. response_age'[c] = Older(response_age[c])
    BY <1>1
  <2> QED BY <2>1, <2>2, <2>3, <2>4, OlderFacts
<1>8. Averaged'
  BY <1>1, <1>3 DEF TimeInv, Averaged
<1>9. Silent'
  <2> SUFFICES ASSUME NEW c \in LiveConn PROVE SilentConn(c)'
    BY <1>3 DEF Silent
  <2>1. SilentConn(c)
    BY <1>1 DEF TimeInv, Silent
  <2>2. response_age[c] \in Age /\ response_age'[c] = Older(response_age[c])
    BY <1>1, <1>2, <1>3
  <2>3. ConnectTimeout \in 0..(MaxAge - 1) /\ WriteTimeout \in 0..(MaxAge - 1)
    BY Constants
  <2>4. /\ response_age[c] > ConnectTimeout => response_age'[c] > ConnectTimeout
        /\ response_age[c] > WriteTimeout => response_age'[c] > WriteTimeout
    BY <2>2, <2>3, OlderFacts
  <2> QED BY <1>1, <2>1, <2>4 DEF SilentConn
<1> QED BY <1>5, <1>6, <1>7, <1>8, <1>9 DEF TimeInv

\* A step that changes no connection and ends no response
LEMMA SilentKept ==
  ASSUME TimeInv, UNCHANGED <<conn, response_age>>, pc # "response"
  PROVE  Silent' /\ LiveConn' = LiveConn
<1>1. LiveConn' = LiveConn
  BY DEF LiveConn, Live
<1> QED BY <1>1 DEF TimeInv, Silent, SilentConn

\* The peer goes.
LEMMA PeerGoneInv ==
  ASSUME TimeInv, IceInv', PeerGone
  PROVE  TimeInv'
<1>1. /\ UNCHANGED <<conn, pc, todo, timer_age, cur_ping_interval>> /\ gone' = TRUE
      /\ UNCHANGED clocks
  BY DEF PeerGone, vars
<1>2. LiveConn' = LiveConn
  BY <1>1 DEF LiveConn, Live
<1>3. TimerTypes'
  BY <1>1 DEF TimeInv, TimerTypes
<1>4. Silent'
  BY <1>1, <1>2 DEF TimeInv, Silent, SilentConn, clocks
<1> QED BY <1>1, <1>2, <1>3, <1>4, QuietStep

\* A new connection is in its first state.
LEMMA TUnknownAddressInv ==
  ASSUME TimeInv, IceInv', NEW c \in Conn, NEW name \in Username, TUnknownAddress(c, name)
  PROVE  TimeInv'
<1> DEFINE cn == NewIceConnection(name)
<1>1. /\ pc = "idle" /\ ~ Live(c) /\ conn' = [conn EXCEPT ![c] = cn]
      /\ StartTimer /\ UNCHANGED clocks
  BY DEF TUnknownAddress, UnknownAddress, KnownAddress, SortAndUpdate
<1>2. cn.write_state = STATE_WRITE_INIT
  BY DEF NewIceConnection
<1>3. conn \in [Conn -> IceConnection \cup {Null}] /\ LiveConn \subseteq Conn
  BY ConnTypes
<1> HIDE DEF cn
<1>4. /\ \A d \in LiveConn : d # c
      /\ \A d \in Conn : conn'[d] = IF d = c THEN cn ELSE conn[d]
  BY <1>1, <1>3 DEF LiveConn
<1>5. /\ \A d \in LiveConn : d \in LiveConn' /\ conn'[d].rtt = conn[d].rtt
      /\ LiveConn' \subseteq LiveConn \cup {c}
  BY <1>3, <1>4 DEF LiveConn, Live
<1>6. Silent'
  <2> SUFFICES ASSUME NEW d \in LiveConn' PROVE SilentConn(d)'
    BY DEF Silent
  <2>1. CASE d = c
    <3>1. conn'[d].write_state = STATE_WRITE_INIT
      BY <1>2, <1>4, <2>1
    <3> QED
      BY <3>1 DEF SilentConn, STATE_WRITE_INIT, STATE_WRITE_UNRELIABLE, STATE_WRITE_TIMEOUT
  <2>2. CASE d # c
    <3>1. d \in LiveConn /\ conn'[d] = conn[d]
      BY <1>3, <1>4, <1>5, <2>2
    <3>2. SilentConn(d)
      BY <1>1, <3>1 DEF TimeInv, Silent
    <3> QED BY <1>1, <3>1, <3>2 DEF SilentConn, clocks
  <2> QED BY <2>1, <2>2
<1>7. TimerTypes'
  BY <1>1, StartTimerTypes
<1> QED BY <1>1, <1>5, <1>6, <1>7, QuietStep

\* The answer changes no state of a connection.
LEMMA TSetRemoteIceParamsInv ==
  ASSUME TimeInv, IceInv', TSetRemoteIceParams
  PROVE  TimeInv'
<1> DEFINE Signing(d) == [conn[d] EXCEPT !.password = TRUE]
<1>1. /\ pc = "idle" /\ StartTimer /\ UNCHANGED clocks
      /\ conn' = [d \in Conn |-> IF Live(d) /\ conn[d].username = "answer" THEN Signing(d) ELSE conn[d]]
  BY DEF TSetRemoteIceParams, SetRemoteIceParams, SortAndUpdate
<1>2. /\ conn \in [Conn -> IceConnection \cup {Null}] /\ LiveConn \subseteq Conn
      /\ \A c \in LiveConn : conn[c] \in IceConnection
  BY ConnTypes
<1>3. \A d \in LiveConn : /\ Signing(d) \in IceConnection
                          /\ Signing(d).write_state = conn[d].write_state
                          /\ Signing(d).rtt = conn[d].rtt
  BY <1>2 DEF IceConnection
<1> HIDE DEF Signing
<1>4. /\ \A d \in Conn \ LiveConn : conn'[d] = Null
      /\ \A d \in LiveConn : conn'[d] = Signing(d) \/ conn'[d] = conn[d]
  BY <1>1, <1>2 DEF LiveConn, Live
<1>5. /\ \A d \in LiveConn : /\ conn'[d] # Null
                             /\ conn'[d].write_state = conn[d].write_state
                             /\ conn'[d].rtt = conn[d].rtt
  BY <1>2, <1>3, <1>4, ConnAssumption
<1>6. LiveConn' = LiveConn
  BY <1>2, <1>4, <1>5 DEF LiveConn, Live
<1>7. Silent'
  <2> SUFFICES ASSUME NEW d \in LiveConn PROVE SilentConn(d)'
    BY <1>6 DEF Silent
  <2>1. SilentConn(d)
    BY <1>1 DEF TimeInv, Silent
  <2> QED BY <1>1, <1>5, <2>1 DEF SilentConn, clocks
<1>8. TimerTypes'
  BY <1>1, StartTimerTypes
<1> QED BY <1>1, <1>5, <1>6, <1>7, <1>8, QuietStep

\* The second half of a response ends the state the connection was in.
LEMMA TPingResponseWritableInv ==
  ASSUME TimeInv, IceInv', TPingResponseWritable
  PROVE  TimeInv'
<1> DEFINE c == Head(todo)
           cn == [conn[c] EXCEPT !.write_state = STATE_WRITABLE]
<1>1. /\ pc = "response" /\ SignalStateChange(c, cn) /\ pc' = "idle"
      /\ StartTimer /\ UNCHANGED clocks
  BY DEF TPingResponseWritable, PingResponseWritable
<1>2. IceInv /\ todo # << >>
  BY <1>1 DEF TimeInv, IceInv, Todo, Crashed
<1>3. c \in LiveConn /\ conn[c] \in IceConnection
  BY <1>1, <1>2, AtHead
<1>4. cn \in IceConnection /\ cn.write_state = STATE_WRITABLE /\ cn.rtt = conn[c].rtt
  BY <1>3 DEF IceConnection, STATE_WRITABLE
<1>5. STATE_WRITABLE # STATE_WRITE_UNRELIABLE /\ STATE_WRITABLE # STATE_WRITE_TIMEOUT
  BY DEF STATE_WRITABLE, STATE_WRITE_UNRELIABLE, STATE_WRITE_TIMEOUT
<1>6. c = Head(todo)
  OBVIOUS
<1> HIDE DEF c, cn
<1> QED BY <1>1, <1>3, <1>4, <1>5, <1>6, LookStep

\* Unanswered pings are at most as old as the last response.
LEMMA TooLongIsSilent ==
  ASSUME TimeInv, NEW c \in Conn, NEW time \in Nat, TooLongWithoutResponse(c, time)
  PROVE  response_age[c] > time
<1>1. pings[c] # << >> /\ pings[c][1] > time
  BY DEF TooLongWithoutResponse
<1>2. pings[c] \in Seq(Age) /\ response_age[c] \in Age
  BY DEF TimeInv, ClockTypes
<1>3. Len(pings[c]) \in Nat /\ Len(pings[c]) # 0 /\ DOMAIN pings[c] = 1..Len(pings[c])
  BY <1>1, <1>2, LenProperties, EmptySeq
<1>4. 1 \in 1..Len(pings[c])
  BY <1>3
<1>5. pings[c][1] <= response_age[c]
  BY <1>3, <1>4 DEF TimeInv, PingsSince
<1>6. pings[c][1] \in Age
  BY <1>2, <1>4, ElementOfSeq
<1>7. pings[c][1] \in Int /\ response_age[c] \in Int
  BY <1>2, <1>6, Constants
<1> QED BY <1>1, <1>5, <1>7

\* update_state: unreliable
LEMMA TUpdateUnreliableInv ==
  ASSUME TimeInv, IceInv', TUpdateUnreliable
  PROVE  TimeInv'
<1> DEFINE c == Head(todo)
           late == TooManyPingFails(c) /\ TooLongWithoutResponse(c, ConnectTimeout)
           lost == late /\ c \in since /\ conn[c].write_state = STATE_WRITABLE
           cn == IF lost THEN [conn[c] EXCEPT !.write_state = STATE_WRITE_UNRELIABLE] ELSE conn[c]
<1>1. /\ todo # << >> /\ pc = "unreliable" /\ SignalStateChange(c, cn) /\ pc' = "timeout"
      /\ StartTimer /\ UNCHANGED clocks
  BY DEF TUpdateUnreliable, UpdateUnreliable
<1>2. c \in LiveConn /\ conn[c] \in IceConnection
  BY <1>1, AtHead DEF TimeInv
<1>3. lost => response_age[c] > ConnectTimeout
  <2>1. ConnectTimeout \in Nat
    BY Constants
  <2> QED BY <1>2, <2>1, TooLongIsSilent DEF LiveConn
<1> HIDE DEF lost
<1>4. /\ cn \in IceConnection /\ cn.rtt = conn[c].rtt
      /\ cn.write_state # conn[c].write_state => lost /\ cn.write_state = STATE_WRITE_UNRELIABLE
  BY <1>2 DEF IceConnection, STATE_WRITE_UNRELIABLE
<1>5. STATE_WRITE_UNRELIABLE # STATE_WRITE_TIMEOUT
  BY DEF STATE_WRITE_UNRELIABLE, STATE_WRITE_TIMEOUT
<1> HIDE DEF c, cn
<1> QED BY <1>1, <1>2, <1>3, <1>4, <1>5, LookStep

\* update_state: timed out
LEMMA TUpdateTimeoutInv ==
  ASSUME TimeInv, IceInv', TUpdateTimeout
  PROVE  TimeInv'
<1> DEFINE c == Head(todo)
           lost == /\ TooLongWithoutResponse(c, WriteTimeout) /\ c \in since
                   /\ conn[c].write_state \in {STATE_WRITE_UNRELIABLE, STATE_WRITE_INIT}
           cn == IF lost THEN [conn[c] EXCEPT !.write_state = STATE_WRITE_TIMEOUT] ELSE conn[c]
<1>1. /\ todo # << >> /\ pc = "timeout" /\ SignalStateChange(c, cn) /\ pc' = "receiving"
      /\ StartTimer /\ UNCHANGED clocks
  BY DEF TUpdateTimeout, UpdateTimeout
<1>2. c \in LiveConn /\ conn[c] \in IceConnection
  BY <1>1, AtHead DEF TimeInv
<1>3. lost => response_age[c] > WriteTimeout
  <2>1. WriteTimeout \in Nat
    BY Constants
  <2> QED BY <1>2, <2>1, TooLongIsSilent DEF LiveConn
<1> HIDE DEF lost
<1>4. /\ cn \in IceConnection /\ cn.rtt = conn[c].rtt
      /\ cn.write_state # conn[c].write_state => lost /\ cn.write_state = STATE_WRITE_TIMEOUT
  BY <1>2 DEF IceConnection, STATE_WRITE_TIMEOUT
<1>5. STATE_WRITE_UNRELIABLE # STATE_WRITE_TIMEOUT
  BY DEF STATE_WRITE_UNRELIABLE, STATE_WRITE_TIMEOUT
<1> HIDE DEF c, cn
<1> QED BY <1>1, <1>2, <1>3, <1>4, <1>5, LookStep

\* update_receiving does not touch the state.
LEMMA TUpdateReceivingInv ==
  ASSUME TimeInv, IceInv', TUpdateReceiving
  PROVE  TimeInv'
<1> DEFINE c == Head(todo)
           late == ~ (answered[c] \/ response_age[c] < ReceiveTimeout)
           cn == [conn[c] EXCEPT !.receiving = @ /\ ~ late]
<1>1. /\ todo # << >> /\ pc = "receiving" /\ SignalStateChange(c, cn) /\ pc' = "unreliable"
      /\ StartTimer /\ UNCHANGED clocks
  BY DEF TUpdateReceiving, UpdateReceiving
<1>2. c \in LiveConn /\ conn[c] \in IceConnection
  BY <1>1, AtHead DEF TimeInv
<1> HIDE DEF late
<1>3. cn \in IceConnection /\ cn.rtt = conn[c].rtt /\ cn.write_state = conn[c].write_state
  BY <1>2 DEF IceConnection
<1> HIDE DEF c, cn
<1> QED BY <1>1, <1>2, <1>3, LookStep

\* The timer fires.
LEMMA TCheckAndPingInv ==
  ASSUME TimeInv, IceInv', TCheckAndPing
  PROVE  TimeInv'
<1>1. /\ pc = "idle" /\ UNCHANGED <<conn, cur_ping_interval, gone>> /\ timer_age' = 0
      /\ UNCHANGED clocks
  BY DEF TCheckAndPing, CheckAndPing
<1>2. UNCHANGED response_age
  BY <1>1 DEF clocks
<1>3. Silent' /\ LiveConn' = LiveConn
  BY <1>1, <1>2, SilentKept
<1>4. TimerTypes'
  <2>1. 0 \in Age
    BY Constants
  <2> QED BY <1>1, <2>1 DEF TimeInv, TimerTypes
<1> QED BY <1>1, <1>3, <1>4, QuietStep

\* No connection is pinged.
LEMMA TNoPingInv ==
  ASSUME TimeInv, IceInv', TPingNone \/ TPingLater
  PROVE  TimeInv'
<1>1. pc = "unreliable" /\ UNCHANGED conn /\ RestartTimer /\ UNCHANGED clocks
  BY DEF TPingNone, TPingLater, PingNone, PingLater
<1>2. UNCHANGED response_age
  BY <1>1 DEF clocks
<1>3. Silent' /\ LiveConn' = LiveConn
  BY <1>1, <1>2, SilentKept
<1>4. TimerTypes'
  BY <1>1, RestartTimerTypes
<1> QED BY <1>1, <1>3, <1>4, QuietStep

\* A ping is younger than any response.
LEMMA PingClocksInv ==
  ASSUME TimeInv, IceInv', NEW c \in Conn, PingClocks(c), RestartTimer,
         UNCHANGED conn, pc = "unreliable"
  PROVE  TimeInv'
<1>1. /\ ping_age' = [ping_age EXCEPT ![c] = 0] /\ answered' = [answered EXCEPT ![c] = FALSE]
      /\ pings' = [pings EXCEPT ![c] = IF Len(@) < ConnectFails THEN Append(@, 0) ELSE @]
      /\ request_ages' = [request_ages EXCEPT ![c] = @ \cup {0}]
      /\ num_pings_sent' = [num_pings_sent EXCEPT ![c] = UpTo(MinPings, @ + 1)]
      /\ channel_age' = 0 /\ UNCHANGED <<response_age, rtt_samples>>
  BY DEF PingClocks
<1>2. ClockTypes /\ PingsSince
  BY DEF TimeInv
<1>3. Silent' /\ LiveConn' = LiveConn
  BY <1>1, SilentKept
<1>4. 0 \in Age /\ MinPings \in Nat /\ ConnectFails \in Nat /\ \A a \in Age : 0 <= a
  BY Constants
<1> DEFINE p == pings[c]
           q == IF Len(p) < ConnectFails THEN Append(p, 0) ELSE p
<1>5. p \in Seq(Age) /\ Len(p) \in Nat /\ Len(p) <= ConnectFails /\ DOMAIN p = 1..Len(p)
  BY <1>2, LenProperties DEF ClockTypes
<1>6. /\ q \in Seq(Age) /\ Len(q) <= ConnectFails
      /\ \A i \in DOMAIN q : q[i] = 0 \/ (i \in DOMAIN p /\ q[i] = p[i])
  <2>1. CASE Len(p) < ConnectFails
    <3>1. q = Append(p, 0)
      BY <2>1
    <3>2. /\ q \in Seq(Age) /\ Len(q) = Len(p) + 1 /\ q[Len(p) + 1] = 0
          /\ \A i \in 1..Len(p) : q[i] = p[i]
      <4> HIDE DEF p, q
      <4> QED BY <1>4, <1>5, <3>1, AppendProperties
    <3>3. DOMAIN q = 1..Len(q)
      BY <3>2, LenProperties
    <3> HIDE DEF p, q
    <3>4. Len(q) <= ConnectFails
      BY <1>4, <1>5, <2>1, <3>2
    <3>5. \A i \in DOMAIN q : i = Len(p) + 1 \/ i \in 1..Len(p)
      BY <1>5, <3>2, <3>3
    <3> QED BY <1>5, <3>2, <3>4, <3>5
  <2>2. CASE ~ (Len(p) < ConnectFails)
    BY <1>5, <2>2
  <2> QED BY <2>1, <2>2
<1>7. \A d \in Conn : pings'[d] = IF d = c THEN q ELSE pings[d]
  BY <1>1, <1>2 DEF ClockTypes
<1>8. pings' = [pings EXCEPT ![c] = q]
  BY <1>1
<1> HIDE DEF q
<1>9. ClockTypes'
  <2>1. pings' \in [Conn -> Seq(Age)]
    BY <1>2, <1>6, <1>8 DEF ClockTypes
  <2>2. \A d \in Conn : Len(pings'[d]) <= ConnectFails
    BY <1>2, <1>6, <1>7 DEF ClockTypes
  <2>3. num_pings_sent' \in [Conn -> 0..MinPings]
    <3>1. num_pings_sent \in [Conn -> 0..MinPings]
      BY <1>2 DEF ClockTypes
    <3>2. UpTo(MinPings, num_pings_sent[c] + 1) \in 0..MinPings
      BY <1>4, <3>1, UpToFacts
    <3> QED BY <1>1, <3>1, <3>2
  <2>4. ping_age' \in [Conn -> Age] /\ answered' \in [Conn -> BOOLEAN]
    BY <1>1, <1>2, <1>4 DEF ClockTypes
  <2>5. request_ages' \in [Conn -> SUBSET Age]
    BY <1>1, <1>2, <1>4 DEF ClockTypes
  <2> QED BY <1>1, <1>2, <1>4, <2>1, <2>2, <2>3, <2>4, <2>5 DEF ClockTypes
<1>10. PingsSince'
  <2> SUFFICES ASSUME NEW d \in Conn, NEW i \in DOMAIN pings'[d]
               PROVE  pings'[d][i] <= response_age[d]
    BY <1>1 DEF PingsSince
  <2>1. CASE d = c
    <3>1. response_age[d] \in Age
      BY <1>2 DEF ClockTypes
    <3>2. pings'[d] = q
      BY <1>7, <2>1
    <3>3. CASE q[i] = 0
      BY <1>4, <3>1, <3>2, <3>3
    <3>4. CASE i \in DOMAIN p /\ q[i] = p[i]
      BY <1>2, <2>1, <3>2, <3>4 DEF PingsSince
    <3> QED BY <1>6, <3>2, <3>3, <3>4
  <2>2. CASE d # c
    BY <1>2, <1>7, <2>2 DEF PingsSince
  <2> QED BY <2>1, <2>2
<1>11. Averaged'
  BY <1>1, <1>3 DEF TimeInv, Averaged
<1>12. TimerTypes'
  BY RestartTimerTypes
<1> QED BY <1>3, <1>9, <1>10, <1>11, <1>12 DEF TimeInv

\* A connection is pinged.
LEMMA TPingInv ==
  ASSUME TimeInv, IceInv', TPingSelected \/ \E c \in Conn : TPingNext(c)
  PROVE  TimeInv'
<1>1. pc = "unreliable" /\ UNCHANGED conn /\ RestartTimer
  BY DEF TPingSelected, TPingNext, PingSelected, PingNext
<1>2. \E c \in Conn : PingClocks(c)
  <2>1. CASE TPingSelected
    <3>1. PingClocks(ctl_selected) /\ ctl_selected # Null
      BY <2>1 DEF TPingSelected, PingSelected, SelectedFirst
    <3>2. ctl_selected \in Conn
      BY <3>1 DEF TimeInv, IceInv, ChannelTypes
    <3> QED BY <3>1, <3>2
  <2>2. CASE \E c \in Conn : TPingNext(c)
    BY <2>2 DEF TPingNext
  <2> QED BY <2>1, <2>2
<1> QED BY <1>1, <1>2, PingClocksInv

\* The first half of a response: no pings since, and a new average.
LEMMA TPingResponseInv ==
  ASSUME TimeInv, IceInv', NEW c \in Conn, NEW a \in Age, TPingResponse(c, a)
  PROVE  TimeInv'
<1> DEFINE rtt == NextRtt(c, a)
           cn == [conn[c] EXCEPT !.rtt = rtt, !.receiving = TRUE]
<1>1. /\ pc = "idle" /\ Live(c) /\ SignalStateChange(c, cn) /\ pc' = "response" /\ todo' = <<c>>
      /\ \E s \in SUBSET request_ages[c] : request_ages' = [request_ages EXCEPT ![c] = s]
      /\ response_age' = [response_age EXCEPT ![c] = 0]
      /\ answered' = [answered EXCEPT ![c] = ping_age[c] > 0]
      /\ pings' = [pings EXCEPT ![c] = << >>]
      /\ rtt_samples' = [rtt_samples EXCEPT ![c] = UpTo(RttRatio + 2, @ + 1)]
      /\ StartTimer /\ UNCHANGED <<ping_age, num_pings_sent, channel_age>>
  <2>1. /\ PingResponse(c, rtt)
        /\ \E more \in BOOLEAN :
             request_ages' =
               [request_ages EXCEPT ![c] = IF more /\ a = MaxAge THEN @ ELSE @ \ {a}]
        /\ response_age' = [response_age EXCEPT ![c] = 0]
        /\ answered' = [answered EXCEPT ![c] = ping_age[c] > 0]
        /\ pings' = [pings EXCEPT ![c] = << >>]
        /\ rtt_samples' = [rtt_samples EXCEPT ![c] = UpTo(RttRatio + 2, @ + 1)]
        /\ StartTimer /\ UNCHANGED <<ping_age, num_pings_sent, channel_age>>
    BY DEF TPingResponse
  <2>2. pc = "idle" /\ Live(c) /\ SignalStateChange(c, cn) /\ pc' = "response" /\ todo' = <<c>>
    BY <2>1 DEF PingResponse, KnownAddress
  <2>3. \E s \in SUBSET request_ages[c] : request_ages' = [request_ages EXCEPT ![c] = s]
    <3>1. PICK more \in BOOLEAN :
            request_ages' = [request_ages EXCEPT ![c] = IF more /\ a = MaxAge THEN @ ELSE @ \ {a}]
      BY <2>1
    <3>2. CASE more /\ a = MaxAge
      <4>1. request_ages' = [request_ages EXCEPT ![c] = request_ages[c]]
        BY <3>1, <3>2
      <4> QED BY <4>1
    <3>3. CASE ~ (more /\ a = MaxAge)
      <4>1. request_ages' = [request_ages EXCEPT ![c] = request_ages[c] \ {a}]
        BY <3>1, <3>3
      <4> QED BY <4>1
    <3> QED BY <3>2, <3>3
  <2> QED BY <2>1, <2>2, <2>3
<1>2. rtt \in Rtt
  BY NextRttFacts
<1> HIDE DEF rtt
<1>3. /\ conn \in [Conn -> IceConnection \cup {Null}] /\ LiveConn \subseteq Conn
      /\ c \in LiveConn /\ conn[c] \in IceConnection
  BY <1>1, ConnTypes DEF LiveConn
<1>4. cn \in IceConnection /\ cn.rtt = rtt
  BY <1>2, <1>3 DEF IceConnection
<1>5. \A d \in Conn : conn'[d] = IF d = c THEN cn ELSE conn[d]
  <2> HIDE DEF cn
  <2>1. conn' = [conn EXCEPT ![c] = cn]
    BY <1>1, SignalConn
  <2> QED BY <1>3, <2>1
<1> HIDE DEF cn
<1>6. LiveConn' = LiveConn
  BY <1>3, <1>4, <1>5, ConnAssumption DEF LiveConn, Live
<1>7. ClockTypes /\ PingsSince /\ Averaged
  BY DEF TimeInv
<1>8. 0 \in Age /\ RttRatio + 2 \in Nat /\ RttRatio + 2 # 0 /\ ConnectFails \in Nat
  BY Constants
<1>9. UpTo(RttRatio + 2, rtt_samples[c] + 1) \in 0..(RttRatio + 2)
  <2>1. rtt_samples[c] \in 0..(RttRatio + 2)
    BY <1>7 DEF ClockTypes
  <2> QED BY <1>8, <2>1, UpToFacts
<1>10. ClockTypes'
  <2>1. response_age' \in [Conn -> Age] /\ answered' \in [Conn -> BOOLEAN]
    BY <1>1, <1>7, <1>8 DEF ClockTypes
  <2>2. pings' \in [Conn -> Seq(Age)] /\ \A d \in Conn : Len(pings'[d]) <= ConnectFails
    <3>0. << >> \in Seq(Age) /\ Len(<< >>) = 0
      BY EmptySeq
    <3>1. pings \in [Conn -> Seq(Age)] /\ \A d \in Conn : Len(pings[d]) <= ConnectFails
      BY <1>7 DEF ClockTypes
    <3>2. \A d \in Conn : pings'[d] = IF d = c THEN << >> ELSE pings[d]
      BY <1>1, <3>1
    <3>3. 0 <= ConnectFails
      BY <1>8
    <3>4. pings' \in [Conn -> Seq(Age)]
      BY <1>1, <3>0, <3>1
    <3> QED BY <3>0, <3>1, <3>2, <3>3, <3>4
  <2>3. rtt_samples' \in [Conn -> 0..(RttRatio + 2)]
    <3>1. rtt_samples \in [Conn -> 0..(RttRatio + 2)]
      BY <1>7 DEF ClockTypes
    <3> QED BY <1>1, <1>9, <3>1
  <2>4. request_ages' \in [Conn -> SUBSET Age]
    <3>1. request_ages \in [Conn -> SUBSET Age]
      BY <1>7 DEF ClockTypes
    <3> QED BY <1>1, <3>1
  <2> QED BY <1>1, <1>7, <2>1, <2>2, <2>3, <2>4 DEF ClockTypes
<1>11. PingsSince'
  <2> SUFFICES ASSUME NEW d \in Conn, NEW i \in DOMAIN pings'[d]
               PROVE  pings'[d][i] <= response_age'[d]
    BY DEF PingsSince
  <2>1. d # c
    <3>1. d = c => pings'[d] = << >>
      BY <1>1, <1>7 DEF ClockTypes
    <3> QED BY <3>1
  <2>2. pings'[d] = pings[d] /\ response_age'[d] = response_age[d]
    BY <1>1, <1>7, <2>1 DEF ClockTypes
  <2> QED BY <1>7, <2>2 DEF PingsSince
<1>12. Averaged'
  <2> SUFFICES ASSUME NEW d \in Conn, rtt_samples'[d] # 0
               PROVE  d \in LiveConn /\ conn'[d].rtt \in Rtt
    BY <1>6 DEF Averaged
  <2>1. CASE d = c
    BY <1>2, <1>3, <1>4, <1>5, <2>1
  <2>2. CASE d # c
    <3>1. rtt_samples'[d] = rtt_samples[d]
      BY <1>1, <1>7, <2>2 DEF ClockTypes
    <3> QED BY <1>5, <1>7, <2>2, <3>1 DEF Averaged
  <2> QED BY <2>1, <2>2
<1>13. Silent'
  <2> SUFFICES ASSUME NEW d \in LiveConn, d # Head(todo') PROVE SilentConn(d)'
    BY <1>1, <1>6 DEF Silent
  <2>1. Head(todo') = c
    BY <1>1
  <2>2. conn'[d] = conn[d] /\ response_age'[d] = response_age[d]
    BY <1>1, <1>3, <1>5, <1>7, <2>1 DEF ClockTypes
  <2>3. SilentConn(d)
    BY <1>1 DEF TimeInv, Silent
  <2> QED BY <2>2, <2>3 DEF SilentConn
<1>14. TimerTypes'
  BY <1>1, StartTimerTypes
<1> QED BY <1>10, <1>11, <1>12, <1>13, <1>14 DEF TimeInv

-----------------------------------------------------------------------------
(* The theorems about IcePing *)

\* No ping, no response, no connection
LEMMA TimeInit == TInit => TimeInv
<1> SUFFICES ASSUME TInit PROVE TimeInv
  OBVIOUS
<1>1. IceInv
  BY IceInit DEF TInit
<1>2. LiveConn = {}
  BY DEF TInit, Init, LiveConn, Live
<1>3. MaxAge \in Age /\ 0 \in Age /\ 0 \in 0..MinPings /\ 0 \in 0..(RttRatio + 2) /\ 0 <= ConnectFails
  BY Constants
<1>4. << >> \in Seq(Age) /\ Len(<< >>) = 0 /\ DOMAIN << >> = {}
  BY EmptySeq
<1>5. ClockTypes
  <2>1. pings = [c \in Conn |-> << >>]
    BY DEF TInit
  <2>2. pings \in [Conn -> Seq(Age)] /\ \A c \in Conn : Len(pings[c]) <= ConnectFails
    BY <1>3, <1>4, <2>1
  <2> QED BY <1>3, <2>2 DEF TInit, ClockTypes
<1>6. TimerTypes
  BY <1>3 DEF TInit, TimerTypes
<1>7. PingsSince /\ Averaged
  BY <1>4 DEF TInit, PingsSince, Averaged
<1>8. Silent
  BY <1>2 DEF Silent
<1> QED BY <1>1, <1>5, <1>6, <1>7, <1>8 DEF TimeInv

\* Every step with clocks keeps the invariant.
LEMMA TimeNext == TimeInv /\ [TNext]_<<vars, timevars>> => TimeInv'
<1> SUFFICES ASSUME TimeInv, [TNext]_<<vars, timevars>> PROVE TimeInv'
  OBVIOUS
<1>0. IceInv'
  <2>1. IceInv /\ [Next]_vars
    BY ClockStep DEF TimeInv
  <2> QED BY <2>1, IceNext
<1>1. CASE Tick
  BY <1>0, <1>1, TickInv
<1>2. CASE PeerGone
  BY <1>0, <1>2, PeerGoneInv
<1>3. CASE \E c \in Conn, name \in Username : TUnknownAddress(c, name)
  BY <1>0, <1>3, TUnknownAddressInv
<1>4. CASE TSetRemoteIceParams
  BY <1>0, <1>4, TSetRemoteIceParamsInv
<1>5. CASE Response
  BY <1>0, <1>5, TPingResponseInv DEF Response
<1>6. CASE TCheckAndPing
  BY <1>0, <1>6, TCheckAndPingInv
<1>7. CASE TPingResponseWritable
  BY <1>0, <1>7, TPingResponseWritableInv
<1>8. CASE TUpdateUnreliable \/ TUpdateTimeout \/ TUpdateReceiving
  BY <1>0, <1>8, TUpdateUnreliableInv, TUpdateTimeoutInv, TUpdateReceivingInv
<1>9. CASE TPingSelected \/ \E c \in Conn : TPingNext(c)
  BY <1>0, <1>9, TPingInv
<1>10. CASE TPingNone \/ TPingLater
  BY <1>0, <1>10, TNoPingInv
<1>11. CASE UNCHANGED <<vars, timevars>>
  <2>1. /\ UNCHANGED <<conn, pc, todo>> /\ UNCHANGED clocks
        /\ UNCHANGED <<timer_age, cur_ping_interval, gone>>
    BY <1>11 DEF vars, timevars
  <2>2. LiveConn' = LiveConn
    BY <2>1 DEF LiveConn, Live
  <2>3. TimerTypes'
    BY <2>1 DEF TimeInv, TimerTypes
  <2>4. Silent'
    BY <2>1, <2>2 DEF TimeInv, Silent, SilentConn, clocks
  <2> QED BY <1>0, <2>1, <2>2, <2>3, <2>4, QuietStep
<1> QED
  BY <1>1, <1>2, <1>3, <1>4, <1>5, <1>6, <1>7, <1>8, <1>9, <1>10, <1>11 DEF TNext, Handler

\* The clocks keep their types, with everything else.
THEOREM ClockInvariant == TSpec => [](TTypeOK /\ TimeInv)
<1>1. TimeInv => TTypeOK
  BY IceInvTypes DEF TimeInv, ClockTypes, TimerTypes, TTypeOK
<1> QED BY <1>1, TimeInit, TimeNext, PTL DEF TSpec

\* The channel with clocks is one of those that IceChannel allows, so that
\* every theorem about IceChannel holds for it.  The step that is not plain:
\* the moving average of round trips stays within the values of Rtt.
THEOREM ClocksImplementChannel == TSpec => Spec
<1>1. TimeInv /\ [TNext]_<<vars, timevars>> => [Next]_vars
  BY ClockStep
<1>2. TInit => Init
  BY DEF TInit
<1> QED BY <1>1, <1>2, TimeInit, TimeNext, PTL DEF TSpec, Spec

\* update_state gives a connection up only if no response came for the whole
\* time the code allows, for any intervals.
THEOREM GivenUpOnlyInSilence == TSpec => []GivenUpWasSilent
<1>1. TimeInv => GivenUpWasSilent
  BY DEF TimeInv, Silent, SilentConn, GivenUpWasSilent
<1> QED BY <1>1, TimeInit, TimeNext, PTL DEF TSpec

=============================================================================
