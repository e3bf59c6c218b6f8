------------------------- MODULE GraphCompileProofs -------------------------
(***************************************************************************)
(* Proofs about GraphCompile, for every configuration and any number of    *)
(* nodes and edges.                                                        *)
(***************************************************************************)
EXTENDS GraphCompile, FiniteSetTheorems, SequenceTheorems, TLAPS

(* Every set of naturals that is not empty has a least element. *)
LEMMA LeastNatural ==
  ASSUME NEW S \in SUBSET Nat, S # {}
  PROVE  \E m \in S : \A k \in S : m <= k
<1> DEFINE R == StrictSubsetOrdering(Nat)
           T == {0..k : k \in S}
<1>1. IsWellFoundedOn(R, FiniteSubsetsOf(Nat))
  BY FS_StrictSubsetOrderingWellFounded
<1>2. T \subseteq FiniteSubsetsOf(Nat) /\ T # {}
  <2>1. ASSUME NEW k \in S PROVE 0..k \in SUBSET Nat /\ IsFiniteSet(0..k)
    BY FS_Interval
  <2> QED BY <2>1 DEF FiniteSubsetsOf
<1>3. PICK x \in T : \A y \in T : ~(<<y, x>> \in R)
  <2> HIDE DEF R, T
  <2> QED BY <1>1, <1>2, WFMin
<1>4. PICK m \in S : x = 0..m
  BY <1>3
<1>5. ASSUME NEW k \in S, k < m PROVE FALSE
  <2>1. 0..k \subseteq 0..m /\ m \in 0..m /\ m \notin 0..k
    BY <1>5
  <2>2. <<0..k, 0..m>> \in R
    BY <2>1, <1>5 DEF StrictSubsetOrdering
  <2> QED BY <2>2, <1>3, <1>4
<1> QED BY <1>5

(* Every finite set of naturals that is not empty has a greatest. *)
LEMMA GreatestNatural ==
  ASSUME NEW S \in SUBSET Nat, IsFiniteSet(S), S # {}
  PROVE  /\ Max(S) \in S
         /\ \A k \in S : k <= Max(S)
<1> DEFINE U(a) == {y \in S : y >= a}
           T == {U(a) : a \in S}
<1>1. IsWellFoundedOn(StrictSubsetOrdering(Nat), FiniteSubsetsOf(Nat))
  BY FS_StrictSubsetOrderingWellFounded
<1>2. T \subseteq FiniteSubsetsOf(Nat) /\ T # {}
  <2>1. ASSUME NEW k \in S PROVE U(k) \in SUBSET Nat /\ IsFiniteSet(U(k))
    <3>1. U(k) \in SUBSET S
      OBVIOUS
    <3> QED BY <3>1, FS_Subset
  <2> QED BY <2>1 DEF FiniteSubsetsOf
<1>3. PICK x \in T : \A y \in T : ~(<<y, x>> \in StrictSubsetOrdering(Nat))
  <2> HIDE DEF T
  <2> QED BY <1>1, <1>2, WFMin
<1>4. PICK m \in S : x = U(m)
  BY <1>3
<1>5. ASSUME NEW k \in S, k > m PROVE FALSE
  <2>0. k \in Nat /\ m \in Nat /\ k > m /\ m \in S /\ \A y \in S : y \in Nat
    BY <1>5
  <2>1. U(k) \subseteq U(m) /\ m \in U(m) /\ m \notin U(k)
    <3>1. \A y \in S : y >= k => y >= m
      BY <2>0
    <3>2. ~(m >= k) /\ m >= m
      BY <2>0
    <3> QED BY <2>0, <3>1, <3>2
  <2>2. <<U(k), U(m)>> \in StrictSubsetOrdering(Nat)
    BY <2>1, <1>5 DEF StrictSubsetOrdering
  <2> QED BY <2>2, <1>3, <1>4
<1>6. m \in S /\ \A k \in S : m >= k
  BY <1>5
<1> QED BY <1>6 DEF Max

(* A sequence without repetition has as many elements as it is long. *)
LEMMA DistinctCount ==
  ASSUME NEW S, NEW s \in Seq(S), \A i, j \in DOMAIN s : s[i] = s[j] => i = j
  PROVE  /\ IsFiniteSet({s[i] : i \in DOMAIN s})
         /\ Cardinality({s[i] : i \in DOMAIN s}) = Len(s)
<1> DEFINE T == {s[i] : i \in DOMAIN s}
<1>1. Len(s) \in Nat /\ DOMAIN s = 1..Len(s) /\ s \in [1..Len(s) -> S]
  BY LenProperties
<1>2. s \in Bijection(1..Len(s), T)
  BY <1>1 DEF Bijection, Injection, Surjection, IsInjective
<1>3. IsFiniteSet(1..Len(s)) /\ Cardinality(1..Len(s)) = Len(s)
  BY <1>1, FS_Interval
<1> HIDE DEF T
<1>4. IsFiniteSet(T) /\ Cardinality(T) = Cardinality(1..Len(s))
  BY <1>2, <1>3, FS_Bijection DEF ExistsBijection
<1> QED BY <1>3, <1>4 DEF T

(* The elements of a list that is popped and extended. *)
LEMMA PopElements ==
  ASSUME NEW S, NEW q \in Seq(S), q # <<>>
  PROVE  /\ Head(q) \in S /\ Tail(q) \in Seq(S) /\ Head(q) = q[1]
         /\ DOMAIN q = 1..Len(q) /\ Len(q) \in Nat \ {0}
         /\ DOMAIN Tail(q) = 1..(Len(q) - 1)
         /\ \A i \in DOMAIN Tail(q) : Tail(q)[i] = q[i + 1] /\ i + 1 \in DOMAIN q
<1>1. Len(q) \in Nat \ {0} /\ DOMAIN q = 1..Len(q)
  BY EmptySeq, LenProperties
<1>2. /\ Tail(q) \in Seq(S) /\ Head(q) \in S /\ Len(Tail(q)) = Len(q) - 1
      /\ \A i \in 1..Len(Tail(q)) : Tail(q)[i] = q[i + 1]
  BY HeadTailProperties
<1>3. DOMAIN Tail(q) = 1..(Len(q) - 1)
  BY <1>2, LenProperties
<1>4. Head(q) = q[1]
  BY <1>1
<1> QED BY <1>1, <1>2, <1>3, <1>4

LEMMA ConcatElements ==
  ASSUME NEW S, NEW s \in Seq(S), NEW t \in Seq(S)
  PROVE  /\ s \o t \in Seq(S)
         /\ Len(s) \in Nat /\ Len(t) \in Nat
         /\ DOMAIN s = 1..Len(s) /\ DOMAIN t = 1..Len(t)
         /\ DOMAIN (s \o t) = 1..(Len(s) + Len(t))
         /\ \A i \in DOMAIN (s \o t) :
              (s \o t)[i] = IF i <= Len(s) THEN s[i] ELSE t[i - Len(s)]
<1>1. Len(s) \in Nat /\ Len(t) \in Nat /\ DOMAIN s = 1..Len(s) /\ DOMAIN t = 1..Len(t)
  BY LenProperties
<1>2. /\ s \o t \in Seq(S) /\ Len(s \o t) = Len(s) + Len(t)
      /\ \A i \in 1..Len(s) + Len(t) : (s \o t)[i] = IF i <= Len(s) THEN s[i] ELSE t[i - Len(s)]
  BY ConcatProperties
<1>3. DOMAIN (s \o t) = 1..(Len(s) + Len(t))
  BY <1>2, LenProperties
<1> QED BY <1>1, <1>2, <1>3

-----------------------------------------------------------------------------
-----------------------------------------------------------------------------
(* Where the sort is: what is listed, what waits to be, and the edges into *)
(* a node from nodes not listed yet, which deg counts.                     *)
Done     == {order[i] : i \in DOMAIN order}
Waiting  == {queue[i] : i \in DOMAIN queue}
Open(n)  == {e \in Into(n) : e.from \notin Done}
Distinct(s) == \A i, j \in DOMAIN s : s[i] = s[j] => i = j
Begun    == pc \notin {"nodes", "edges"} /\ err \in {"none", "cycle", "empty"}

Kahn ==
    /\ Distinct(order) /\ Distinct(queue) /\ Done \cap Waiting = {}
    /\ \A n \in Nodes : deg[n] = Cardinality(Open(n))
    /\ \A n \in Nodes : deg[n] = 0 <=> n \in Done \cup Waiting
    /\ \A i \in DOMAIN order : \A e \in Into(order[i]) :
          \E j \in DOMAIN order : j < i /\ order[j] = e.from

IInv ==
    /\ TypeOK
    /\ ~Begun => queue = <<>> /\ order = <<>>
    /\ Begun => Kahn
    /\ Built \/ err = "empty" => queue = <<>> /\ Complete
    /\ err = "cycle" => queue = <<>> /\ ~Complete

LEMMA EmptyDomain == DOMAIN <<>> = {}
<1>1. <<>> \in Seq({}) /\ Len(<<>>) = 0
  BY EmptySeq
<1> QED BY <1>1, LenProperties

(* Nodes and edges are finite. *)
LEMMA GraphFinite ==
  ASSUME TypeOK
  PROVE  /\ IsFiniteSet(Nodes) /\ Nodes \subseteq Nat
         /\ \A n : IsFiniteSet(Into(n)) /\ IsFiniteSet(Open(n))
         /\ \A S : S \subseteq Nodes => IsFiniteSet(S)
<1>1. Nodes \subseteq Id /\ edges \subseteq Edge
  BY DEF TypeOK
<1>2. IsFiniteSet(Nodes) /\ IsFiniteSet(edges) /\ Nodes \subseteq Nat
  BY <1>1, FS_Subset, GraphAssumption
<1>3. ASSUME NEW n PROVE IsFiniteSet(Into(n)) /\ IsFiniteSet(Open(n))
  <2>1. Into(n) \in SUBSET edges /\ Open(n) \in SUBSET edges
    BY DEF Into, Open
  <2> QED BY <2>1, <1>2, FS_Subset
<1>4. ASSUME NEW S, S \subseteq Nodes PROVE IsFiniteSet(S)
  BY <1>2, <1>4, FS_Subset
<1> QED BY <1>2, <1>3, <1>4

(* Sorted lists every element of a set once. *)
LEMMA SortedLists ==
  ASSUME TypeOK, NEW S, S \subseteq Nodes, NEW s \in Sorted(S)
  PROVE  s \in Seq(Nodes) /\ Distinct(s) /\ {s[i] : i \in DOMAIN s} = S
<1>1. IsFiniteSet(S) /\ S \subseteq Nat
  BY GraphFinite
<1>2. Cardinality(S) \in Nat
  BY <1>1, FS_CardinalityType
<1>3. /\ s \in [1..Cardinality(S) -> S]
      /\ \A x \in S : \E i \in DOMAIN s : s[i] = x
      /\ \A i, j \in DOMAIN s : i < j => s[i] < s[j]
  BY DEF Sorted
<1>4. s \in Seq(S) /\ DOMAIN s = 1..Cardinality(S)
  BY <1>2, <1>3, SeqDef
<1>5. s \in Seq(Nodes)
  BY <1>4, SeqMonotonic
<1>6. Distinct(s)
  <2> SUFFICES ASSUME NEW i \in DOMAIN s, NEW j \in DOMAIN s, s[i] = s[j], i # j PROVE FALSE
    BY DEF Distinct
  <2>1. s[i] \in Nat /\ s[j] \in Nat /\ i \in Nat /\ j \in Nat
    <3>1. i \in 1..Cardinality(S) /\ j \in 1..Cardinality(S)
      BY <1>4
    <3>2. s[i] \in S /\ s[j] \in S
      BY <1>3, <3>1
    <3>3. i \in Nat /\ j \in Nat
      BY <1>2, <3>1
    <3>4. s[i] \in Nat /\ s[j] \in Nat
      BY <1>1, <3>2
    <3> QED BY <3>3, <3>4
  <2>2. s[i] < s[j] \/ s[j] < s[i]
    BY <2>1, <1>3
  <2> QED BY <2>1, <2>2
<1>7. {s[i] : i \in DOMAIN s} = S
  BY <1>3
<1> QED BY <1>5, <1>6, <1>7

(* The sort starts with the nodes nothing leads into. *)
LEMMA StartKahn ==
  ASSUME TypeOK, order = <<>>, EdgesAdded
  PROVE  Kahn' /\ deg' \in [Nodes -> Nat] /\ queue' \in Seq(Nodes)
<1> DEFINE Z == {n \in Nodes : deg'[n] = 0}
<1>1. /\ deg' = [n \in Nodes |-> Cardinality(Into(n))]
      /\ queue' \in Sorted(Z) /\ order' = <<>> /\ UNCHANGED <<node, edges>>
  BY DEF EdgesAdded
<1>2. Z \subseteq Nodes
  OBVIOUS
<1>3. queue' \in Seq(Nodes) /\ Distinct(queue') /\ {queue'[i] : i \in DOMAIN queue'} = Z
  <2> HIDE DEF Z
  <2> QED BY <1>1, <1>2, SortedLists
<1>4. deg' \in [Nodes -> Nat]
  BY <1>1, GraphFinite, FS_CardinalityType
<1>5. DOMAIN order' = {}
  BY <1>1, EmptyDomain
<1>6. Done' = {} /\ Waiting' = Z /\ Nodes' = Nodes
  BY <1>1, <1>3, <1>5 DEF Done, Waiting, Nodes
<1>7. \A n : Open(n)' = Into(n) /\ Into(n)' = Into(n)
  BY <1>1, <1>6 DEF Open, Into
<1> QED
  BY <1>1, <1>3, <1>4, <1>5, <1>6, <1>7 DEF Kahn, Distinct

(* Popping a node lowers the count of its successors by the edges that     *)
(* lead from it, and queues those that wait for nothing else.              *)
LEMMA PopLowers ==
  ASSUME TypeOK, Kahn, Begun, NEW n \in Nodes, n \notin Done, NEW m \in Nodes
  PROVE  /\ Lowered(n)[m] = Cardinality(Open(m) \ OutOf(n))
         /\ Lowered(n)[m] \in Nat
         /\ OutOf(n) \cap Into(m) \subseteq Open(m)
<1>1. OutOf(n) \cap Into(m) \subseteq Open(m) /\ Open(m) \cap OutOf(n) = OutOf(n) \cap Into(m)
  BY DEF Open, Into, OutOf
<1>2. IsFiniteSet(Open(m)) /\ IsFiniteSet(Open(m) \ OutOf(n))
  BY GraphFinite, FS_Difference
<1>3. Cardinality(Open(m) \ OutOf(n)) = Cardinality(Open(m)) - Cardinality(OutOf(n) \cap Into(m))
  BY <1>1, <1>2, FS_Difference
<1>4. deg[m] = Cardinality(Open(m))
  BY DEF Kahn
<1>5. Lowered(n)[m] = deg[m] - Cardinality(OutOf(n) \cap Into(m))
  BY DEF Lowered
<1> QED
  BY <1>1, <1>2, <1>3, <1>4, <1>5, FS_CardinalityType

LEMMA ReadyIsNew ==
  ASSUME TypeOK, Kahn, Begun, NEW n \in Nodes, n \notin Done
  PROVE  Ready(n) \subseteq Nodes /\ Ready(n) \cap (Done \cup Waiting) = {}
<1>1. Ready(n) \subseteq Nodes
  BY DEF Ready
<1>2. ASSUME NEW m \in Ready(n), m \in Done \cup Waiting PROVE FALSE
  <2>1. m \in Nodes /\ OutOf(n) \cap Into(m) # {}
    BY DEF Ready
  <2>2. Open(m) # {}
    BY <2>1, PopLowers
  <2>3. Cardinality(Open(m)) = 0
    BY <1>2, <2>1 DEF Kahn
  <2> QED
    BY <2>2, <2>3, GraphFinite, FS_EmptySet
<1> QED BY <1>1, <1>2

(* A queue without repetition, popped and extended by new nodes. *)
Elems(q) == {q[i] : i \in DOMAIN q}

LEMMA Requeue ==
  ASSUME NEW S, NEW q \in Seq(S), NEW s \in Seq(S), q # <<>>, Distinct(q), Distinct(s),
         \A i \in DOMAIN q : \A j \in DOMAIN s : q[i] # s[j]
  PROVE  /\ Tail(q) \o s \in Seq(S) /\ Distinct(Tail(q) \o s)
         /\ Elems(Tail(q) \o s) = (Elems(q) \ {Head(q)}) \cup Elems(s)
<1> DEFINE t == Tail(q)
           r == t \o s
<1>1. /\ t \in Seq(S) /\ Head(q) = q[1] /\ DOMAIN q = 1..Len(q) /\ Len(q) \in Nat \ {0}
      /\ DOMAIN t = 1..(Len(q) - 1) /\ Len(t) = Len(q) - 1
      /\ \A i \in DOMAIN t : t[i] = q[i + 1] /\ i + 1 \in DOMAIN q
  BY PopElements, HeadTailProperties
<1> HIDE DEF t
<1>2. /\ r \in Seq(S) /\ Len(t) \in Nat /\ Len(s) \in Nat
      /\ DOMAIN t = 1..Len(t) /\ DOMAIN s = 1..Len(s) /\ DOMAIN r = 1..(Len(t) + Len(s))
      /\ \A i \in DOMAIN r : r[i] = IF i <= Len(t) THEN t[i] ELSE s[i - Len(t)]
  <2>1. t \in Seq(S)
    BY <1>1
  <2> HIDE DEF r
  <2>2. r = t \o s
    BY DEF r
  <2>3. /\ t \o s \in Seq(S) /\ Len(t) \in Nat /\ Len(s) \in Nat
        /\ DOMAIN t = 1..Len(t) /\ DOMAIN s = 1..Len(s)
        /\ DOMAIN (t \o s) = 1..(Len(t) + Len(s))
        /\ \A i \in DOMAIN (t \o s) :
             (t \o s)[i] = IF i <= Len(t) THEN t[i] ELSE s[i - Len(t)]
    BY <2>1, ConcatElements
  <2> QED BY <2>2, <2>3
<1> HIDE DEF r
<1>3. Len(t) = Len(q) - 1
  BY <1>1
<1>4. \A i \in DOMAIN r : \/ /\ i <= Len(t) /\ i + 1 \in DOMAIN q /\ r[i] = q[i + 1] /\ i \in Nat
                          \/ /\ i > Len(t) /\ i - Len(t) \in DOMAIN s /\ r[i] = s[i - Len(t)] /\ i \in Nat
  <2> TAKE i \in DOMAIN r
  <2>1. i \in 1..(Len(t) + Len(s)) /\ i \in Nat
    BY <1>2
  <2>2. CASE i <= Len(t)
    <3>1. i \in DOMAIN t /\ r[i] = t[i]
      BY <1>2, <2>1, <2>2
    <3> QED BY <3>1, <2>1, <2>2, <1>1
  <2>3. CASE ~(i <= Len(t))
    <3>1. r[i] = s[i - Len(t)]
      BY <1>2, <2>3
    <3>2. i > Len(t) /\ i - Len(t) \in 1..Len(s)
      BY <1>2, <2>1, <2>3
    <3> QED BY <3>1, <3>2, <2>1, <1>2
  <2> QED BY <2>2, <2>3
<1>5. Distinct(r)
  <2> SUFFICES ASSUME NEW i \in DOMAIN r, NEW j \in DOMAIN r, r[i] = r[j] PROVE i = j
    BY DEF Distinct
  <2>1. CASE i <= Len(t) /\ j <= Len(t)
    <3>1. i + 1 \in DOMAIN q /\ j + 1 \in DOMAIN q /\ q[i + 1] = q[j + 1] /\ i \in Nat /\ j \in Nat
      BY <1>2, <1>4, <2>1
    <3>2. i + 1 = j + 1
      BY <3>1 DEF Distinct
    <3> QED BY <3>1, <3>2
  <2>2. CASE i > Len(t) /\ j > Len(t)
    <3>1. /\ i - Len(t) \in DOMAIN s /\ j - Len(t) \in DOMAIN s
          /\ s[i - Len(t)] = s[j - Len(t)] /\ i \in Nat /\ j \in Nat
      BY <1>2, <1>4, <2>2
    <3>2. i - Len(t) = j - Len(t)
      BY <3>1 DEF Distinct
    <3> QED BY <3>1, <3>2, <1>2
  <2>3. CASE (i <= Len(t)) # (j <= Len(t))
    BY <1>2, <1>4, <2>3
  <2>4. i \in Nat /\ j \in Nat
    BY <1>4
  <2> QED BY <1>2, <2>1, <2>2, <2>3, <2>4
<1>6. ASSUME NEW x PROVE (\E i \in DOMAIN r : r[i] = x) <=>
        \/ x # Head(q) /\ \E i \in DOMAIN q : q[i] = x
        \/ \E i \in DOMAIN s : s[i] = x
  <2>1. ASSUME NEW i \in DOMAIN r, r[i] = x
        PROVE  (x # Head(q) /\ \E k \in DOMAIN q : q[k] = x) \/ \E k \in DOMAIN s : s[k] = x
    <3>1. CASE i <= Len(t) /\ i + 1 \in DOMAIN q /\ r[i] = q[i + 1] /\ i \in Nat
      <4>1. 1 \in DOMAIN q /\ i + 1 # 1
        BY <1>1, <1>2, <3>1
      <4>2. q[i + 1] # q[1]
        BY <3>1, <4>1 DEF Distinct
      <4> QED BY <1>1, <2>1, <3>1, <4>2
    <3>2. CASE i - Len(t) \in DOMAIN s /\ r[i] = s[i - Len(t)]
      BY <2>1, <3>2
    <3> QED BY <1>4, <3>1, <3>2
  <2>2. ASSUME NEW k \in DOMAIN q, q[k] = x, x # Head(q) PROVE \E i \in DOMAIN r : r[i] = x
    <3>1. k \in 1..Len(q) /\ k # 1
      BY <1>1, <2>2
    <3>2. k - 1 \in DOMAIN t /\ (k - 1) + 1 = k
      BY <1>1, <3>1
    <3>3. t[k - 1] = q[k]
      BY <1>1, <3>2
    <3>4. k - 1 \in DOMAIN r /\ k - 1 <= Len(t)
      BY <1>1, <1>2, <1>3, <3>1
    <3> QED BY <1>2, <2>2, <3>3, <3>4
  <2>3. ASSUME NEW k \in DOMAIN s, s[k] = x PROVE \E i \in DOMAIN r : r[i] = x
    <3>1. k \in 1..Len(s)
      BY <1>2
    <3>2. k + Len(t) \in DOMAIN r /\ ~(k + Len(t) <= Len(t)) /\ (k + Len(t)) - Len(t) = k
      BY <1>2, <3>1
    <3>3. r[k + Len(t)] = s[k]
      BY <1>2, <3>2
    <3> QED BY <2>3, <3>2, <3>3
  <2> QED BY <2>1, <2>2, <2>3
<1>7. {r[i] : i \in DOMAIN r} = ({q[i] : i \in DOMAIN q} \ {Head(q)}) \cup {s[i] : i \in DOMAIN s}
  BY <1>6
<1>8. r = Tail(q) \o s
  BY DEF r, t
<1> QED
  BY <1>2, <1>5, <1>7, <1>8 DEF Elems

LEMMA PopKahn ==
  ASSUME TypeOK, Kahn, Begun, Pop
  PROVE  Kahn' /\ deg' \in [Nodes -> Nat] /\ queue' \in Seq(Nodes) /\ order' \in Seq(Nodes)
<1> DEFINE n == Head(queue)
<1>1. /\ queue # <<>> /\ deg' = Lowered(n) /\ order' = Append(order, n)
      /\ UNCHANGED <<node, edges>>
  BY DEF Pop
<1>2. PICK s \in Sorted(Ready(n)) : queue' = Tail(queue) \o s
  BY DEF Pop
<1>3. queue \in Seq(Nodes) /\ order \in Seq(Nodes)
  BY DEF TypeOK
<1>4. n \in Nodes /\ n \in Waiting /\ n \notin Done
  <2>1. n \in Nodes /\ n = queue[1] /\ 1 \in DOMAIN queue
    BY <1>1, <1>3, PopElements
  <2> QED BY <2>1 DEF Waiting, Kahn
<1>5. /\ order' \in Seq(Nodes) /\ Len(order) \in Nat
      /\ DOMAIN order = 1..Len(order) /\ DOMAIN order' = 1..(Len(order) + 1)
      /\ \A i \in DOMAIN order : order'[i] = order[i] /\ i \in DOMAIN order'
      /\ order'[Len(order) + 1] = n
  <2>1. /\ Append(order, n) \in Seq(Nodes) /\ Len(Append(order, n)) = Len(order) + 1
        /\ \A i \in 1..Len(order) : Append(order, n)[i] = order[i]
        /\ Append(order, n)[Len(order) + 1] = n
    BY <1>3, <1>4, AppendProperties
  <2>2. Len(order) \in Nat /\ DOMAIN order = 1..Len(order)
    BY <1>3, LenProperties
  <2>3. DOMAIN Append(order, n) = 1..(Len(order) + 1)
    BY <2>1, LenProperties
  <2> HIDE DEF n
  <2> QED BY <1>1, <2>1, <2>2, <2>3
<1> HIDE DEF n
<1>6. Done' = Done \cup {n}
  BY <1>5 DEF Done
<1>7. \A m \in Nodes : Open(m)' = Open(m) \ OutOf(n)
  BY <1>1, <1>6 DEF Open, Into, OutOf
<1>8. \A m \in Nodes : deg'[m] = Cardinality(Open(m)') /\ deg'[m] \in Nat
  BY <1>1, <1>4, <1>7, PopLowers
<1>9. deg' \in [Nodes -> Nat]
  BY <1>1, <1>8 DEF Lowered
<1>10. s \in Seq(Nodes) /\ Distinct(s) /\ {s[i] : i \in DOMAIN s} = Ready(n)
  BY <1>2, <1>4, ReadyIsNew, SortedLists
<1>11. /\ Tail(queue) \o s \in Seq(Nodes) /\ Distinct(Tail(queue) \o s)
       /\ Elems(Tail(queue) \o s) = (Elems(queue) \ {Head(queue)}) \cup Elems(s)
  <2>1. \A i \in DOMAIN queue : \A j \in DOMAIN s : queue[i] # s[j]
    BY <1>4, <1>10, ReadyIsNew DEF Waiting
  <2>2. Distinct(queue)
    BY DEF Kahn
  <2>3. queue \in Seq(Nodes) /\ queue # <<>> /\ s \in Seq(Nodes) /\ Distinct(s)
    BY <1>1, <1>3, <1>10
  <2> QED BY <2>1, <2>2, <2>3, Requeue
<1>12. queue' \in Seq(Nodes) /\ Distinct(queue') /\ Waiting' = (Waiting \ {n}) \cup Ready(n)
  BY <1>2, <1>10, <1>11 DEF Waiting, n, Elems
<1>13. Distinct(order')
  <2> SUFFICES ASSUME NEW i \in DOMAIN order', NEW j \in DOMAIN order', order'[i] = order'[j]
               PROVE  i = j
    BY DEF Distinct
  <2>1. CASE i \in DOMAIN order /\ j \in DOMAIN order
    BY <1>5, <2>1 DEF Kahn, Distinct
  <2>2. \A k \in DOMAIN order : order[k] # n
    BY <1>4 DEF Done
  <2>3. (i \in DOMAIN order \/ i = Len(order) + 1) /\ (j \in DOMAIN order \/ j = Len(order) + 1)
    BY <1>5
  <2> QED BY <1>5, <2>1, <2>2, <2>3
<1>14. Done' \cap Waiting' = {}
  BY <1>4, <1>6, <1>12, ReadyIsNew DEF Kahn
<1>15. ASSUME NEW m \in Nodes PROVE deg'[m] = 0 <=> m \in Done' \cup Waiting'
  <2>1. Done' \cup Waiting' = Done \cup Waiting \cup Ready(n)
    BY <1>4, <1>6, <1>12
  <2>2. ASSUME m \in Done \cup Waiting PROVE deg'[m] = 0
    <3>1. deg[m] = 0 /\ deg[m] = Cardinality(Open(m))
      BY <2>2 DEF Kahn
    <3>2. Open(m) = {}
      BY <3>1, GraphFinite, FS_EmptySet
    <3>3. Open(m)' = {}
      BY <1>7, <3>2
    <3> QED BY <1>8, <3>3, FS_EmptySet
  <2>3. ASSUME m \in Ready(n) PROVE deg'[m] = 0
    BY <1>1, <2>3 DEF Ready
  <2>4. ASSUME deg'[m] = 0, m \notin Ready(n) PROVE m \in Done \cup Waiting
    <3>1. OutOf(n) \cap Into(m) = {}
      BY <1>1, <2>4 DEF Ready
    <3>2. Open(m) \ OutOf(n) = Open(m)
      BY <3>1 DEF Open
    <3>3. deg[m] = 0
      BY <1>7, <1>8, <2>4, <3>2 DEF Kahn
    <3> QED BY <3>3 DEF Kahn
  <2> QED BY <2>1, <2>2, <2>3, <2>4
<1>16. ASSUME NEW i \in DOMAIN order', NEW e \in Into(order'[i])
       PROVE  \E j \in DOMAIN order' : j < i /\ order'[j] = e.from
  <2>1. CASE i \in DOMAIN order
    <3>1. \E j \in DOMAIN order : j < i /\ order[j] = e.from
      BY <1>5, <2>1 DEF Kahn
    <3> QED BY <1>5, <3>1
  <2>2. CASE i = Len(order) + 1
    <3>1. Cardinality(Open(n)) = 0
      BY <1>4 DEF Kahn
    <3>2. Open(n) = {}
      BY <3>1, GraphFinite, FS_EmptySet
    <3>3. e \in Into(n)
      BY <1>5, <2>2
    <3>4. e.from \in Done
      BY <3>2, <3>3 DEF Open
    <3>5. PICK j \in DOMAIN order : order[j] = e.from
      BY <3>4 DEF Done
    <3>6. j \in DOMAIN order' /\ order'[j] = e.from /\ j < Len(order) + 1
      BY <1>5, <3>5
    <3> QED BY <2>2, <3>6
  <2> QED BY <1>5, <2>1, <2>2
<1>17. Nodes' = Nodes /\ \A m : Into(m)' = Into(m)
  BY <1>1 DEF Nodes, Into
<1> QED
  BY <1>5, <1>8, <1>9, <1>12, <1>13, <1>14, <1>15, <1>16, <1>17 DEF Kahn

-----------------------------------------------------------------------------
LEMMA InitIInv == Init => IInv
<1> SUFFICES ASSUME Init PROVE IInv
  OBVIOUS
<1>1. /\ decl \in Seq(Decl) /\ Nodes = {} /\ node \in [Nodes -> Decl]
      /\ DOMAIN depth = {} /\ depth \in [DOMAIN depth -> Nat]
  BY GraphAssumption DEF Init, Nodes
<1>2. queue = <<>> /\ order = <<>> /\ queue \in Seq(Nodes) /\ order \in Seq(Nodes)
  BY EmptySeq DEF Init
<1>3. TypeOK
  BY <1>1, <1>2 DEF Init, TypeOK
<1> QED
  BY <1>2, <1>3 DEF Init, IInv, Begun, Built

(* What of the invariant depends on the graph and the sort alone. *)
LEMMA SortKept ==
  ASSUME UNCHANGED <<node, edges, deg, queue, order>>
  PROVE  (Kahn' <=> Kahn) /\ (Complete' <=> Complete)
<1>1. Nodes' = Nodes /\ Done' = Done /\ Waiting' = Waiting
  BY DEF Nodes, Done, Waiting
<1>2. \A n : Into(n)' = Into(n) /\ Open(n)' = Open(n)
  BY <1>1 DEF Into, Open
<1> QED
  BY <1>1, <1>2 DEF Kahn, Complete

(* Before the sort the graph grows, and nothing is listed. *)
LEMMA GrowStep ==
  ASSUME IInv, AddNode \/ NodesAdded \/ \E e \in Edge : AddEdge(e)
  PROVE  IInv'
<1>1. /\ TypeOK /\ pc \in {"nodes", "edges"} /\ err = "none"
      /\ queue = <<>> /\ order = <<>>
  BY DEF IInv, TypeOK, AddNode, NodesAdded, AddEdge, Begun
<1>2. UNCHANGED <<queue, order>>
  BY DEF AddNode, NodesAdded, AddEdge, sortVars
<1>3. \A S : queue' \in Seq(S) /\ order' \in Seq(S)
  BY <1>1, <1>2, EmptySeq
<1>4. ~Begun' /\ ~Built' /\ err' \notin {"cycle", "empty"}
  <2>1. CASE AddNode
    BY <1>1, <2>1 DEF AddNode, Fail, Begun, Built
  <2>2. CASE NodesAdded
    BY <1>1, <2>2 DEF NodesAdded, Begun, Built
  <2>3. ASSUME NEW e \in Edge, AddEdge(e) PROVE ~Begun' /\ ~Built' /\ err' \notin {"cycle", "empty"}
    BY <1>1, <2>3 DEF AddEdge, Fail, EdgeError, Begun, Built
  <2> QED BY <2>1, <2>2, <2>3
<1>5. TypeOK'
  <2>1. CASE AddNode
    <3> DEFINE d == Head(decl)
    <3>1. /\ d \in Decl /\ decl' \in Seq(Decl) /\ d.id \in Id
          /\ UNCHANGED <<edges, events, sortVars, planVars>>
      <4>1. decl \in Seq(Decl) /\ decl # <<>>
        BY <1>1, <2>1 DEF TypeOK, AddNode
      <4>2. d \in Decl /\ Tail(decl) \in Seq(Decl)
        BY <4>1, PopElements
      <4>3. d.id \in Id
        BY <4>2 DEF Decl
      <4> QED BY <2>1, <4>2, <4>3 DEF AddNode
    <3>2. CASE d.id \in Nodes /\ Fail("duplicate") /\ UNCHANGED node
      BY <1>1, <1>3, <3>1, <3>2 DEF TypeOK, Fail, sortVars, planVars, Nodes
    <3>3. CASE /\ d.id \notin Nodes
               /\ node' = [n \in Nodes \cup {d.id} |-> IF n = d.id THEN d ELSE node[n]]
               /\ IF d.media # "any" /\ d.kind # "filter"
                  THEN Fail("media") ELSE UNCHANGED <<pc, err>>
      <4>1. Nodes' = Nodes \cup {d.id} /\ Nodes' \subseteq Id /\ node' \in [Nodes' -> Decl]
        BY <1>1, <3>1, <3>3 DEF TypeOK, Nodes
      <4>2. /\ pc' \in {"nodes", "failed"} /\ err' \in {"none", "media"}
            /\ (pc' = "failed") = (err' # "none")
        BY <1>1, <2>1, <3>3 DEF Fail, AddNode
      <4> QED
        BY <1>1, <1>3, <3>1, <4>1, <4>2 DEF TypeOK, sortVars, planVars
    <3> QED BY <2>1, <3>2, <3>3 DEF AddNode
  <2>2. CASE NodesAdded
    BY <1>1, <1>3, <2>2 DEF NodesAdded, TypeOK, sortVars, planVars, Nodes
  <2>3. ASSUME NEW e \in Edge, AddEdge(e) PROVE TypeOK'
    <3>1. UNCHANGED <<decl, node, sortVars, planVars>>
      BY <2>3 DEF AddEdge
    <3>2. /\ edges' \subseteq Edge /\ events' \subseteq Edge
          /\ \A f \in edges' : f.from \in Nodes /\ f.to \in Nodes
      BY <1>1, <2>3 DEF AddEdge, TypeOK, EdgeError
    <3>3. /\ pc' \in {"edges", "failed"} /\ (pc' = "failed") = (err' # "none")
          /\ err' \in {"none", "unknown", "self-loop", "end", "media"}
          /\ (err' = "none" => pc' = "edges")
      BY <1>1, <2>3 DEF AddEdge, Fail, EdgeError
    <3> QED
      BY <1>1, <1>3, <3>1, <3>2, <3>3 DEF TypeOK, sortVars, planVars, Nodes
  <2> QED BY <2>1, <2>2, <2>3
<1> QED
  BY <1>1, <1>2, <1>4, <1>5 DEF IInv

LEMMA SortStep ==
  ASSUME IInv, EdgesAdded \/ Pop \/ QueueEmpty
  PROVE  IInv'
<1>1. TypeOK /\ err = "none" /\ pc \in {"edges", "sort"}
  BY DEF IInv, TypeOK, EdgesAdded, Pop, QueueEmpty
<1>2. CASE EdgesAdded
  <2>1. order = <<>>
    BY <1>2 DEF IInv, Begun, EdgesAdded
  <2>2. Kahn' /\ deg' \in [Nodes -> Nat] /\ queue' \in Seq(Nodes)
    BY <1>1, <1>2, <2>1, StartKahn
  <2> QED
    BY <1>1, <1>2, <2>2 DEF IInv, TypeOK, EdgesAdded, Begun, Built, planVars, Nodes
<1>3. CASE Pop
  <2>1. Begun
    BY <1>1, <1>3 DEF Begun, Pop
  <2>2. Kahn' /\ deg' \in [Nodes -> Nat] /\ queue' \in Seq(Nodes) /\ order' \in Seq(Nodes)
    BY <1>1, <1>3, <2>1, PopKahn DEF IInv
  <2> QED
    BY <1>1, <1>3, <2>2 DEF IInv, TypeOK, Pop, Begun, Built, planVars, Nodes
<1>4. CASE QueueEmpty
  <2>1. Begun /\ queue = <<>> /\ UNCHANGED <<node, edges, deg, queue, order>>
    BY <1>1, <1>4 DEF Begun, QueueEmpty, sortVars
  <2>2. Kahn' /\ (Complete' <=> Complete)
    BY <2>1, SortKept DEF IInv
  <2>3. TypeOK'
    BY <1>1, <1>4, <2>1 DEF TypeOK, QueueEmpty, Fail, planVars, Nodes
  <2> QED
    BY <1>1, <1>4, <2>1, <2>2, <2>3 DEF IInv, QueueEmpty, Fail, Begun, Built
<1> QED BY <1>2, <1>3, <1>4

(* A depth is a natural number: there are finitely many predecessors. *)
LEMMA DepthTyped ==
  ASSUME TypeOK, NEW n
  PROVE  /\ Deepest(n) \in Nat
         /\ \A e \in Into(n) : Deepest(n) >= DepthOf(e.from) + 1
         /\ Deepest(n) = 0 \/ \E e \in Into(n) : Deepest(n) = DepthOf(e.from) + 1
<1> DEFINE D == {DepthOf(e.from) + 1 : e \in Into(n)}
           f == [e \in Into(n) |-> DepthOf(e.from) + 1]
<1>1. \A m : DepthOf(m) \in Nat
  BY DEF TypeOK, DepthOf
<1>2. D \subseteq Nat /\ f \in Surjection(Into(n), D)
  BY <1>1 DEF Surjection
<1>3. IsFiniteSet(D)
  <2> HIDE DEF D, f
  <2> QED BY <1>2, GraphFinite, FS_Surjection
<1>4. {0} \cup D \in SUBSET Nat /\ IsFiniteSet({0} \cup D) /\ {0} \cup D # {}
  <2> HIDE DEF D
  <2>1. IsFiniteSet({0}) 
    BY FS_Singleton
  <2>2. IsFiniteSet({0} \cup D)
    BY <1>3, <2>1, FS_Union
  <2> QED BY <1>2, <2>2
<1>5. Max({0} \cup D) \in {0} \cup D /\ \A k \in {0} \cup D : k <= Max({0} \cup D)
  <2> HIDE DEF D
  <2> QED BY <1>4, GreatestNatural
<1>6. Deepest(n) = Max({0} \cup D)
  BY DEF Deepest
<1>7. Deepest(n) \in {0} \cup D /\ \A k \in D : k <= Deepest(n)
  BY <1>5, <1>6
<1>8. Deepest(n) \in Nat
  <2> HIDE DEF D
  <2>1. \A k \in {0} \cup D : k \in Nat
    BY <1>2
  <2> QED BY <1>7, <2>1
<1> QED BY <1>1, <1>7, <1>8

PlanAction == \/ ComputeDepth \/ StagesComputed \/ BranchesFound \/ EventsWalked
              \/ \E e \in Edge : WalkBack(e) \/ WalkEvent(e)

(* What the plan leaves alone. *)
LEMMA PlanKeeps ==
  ASSUME TypeOK, PlanAction
  PROVE  /\ UNCHANGED <<node, edges, deg, queue, order>>
         /\ UNCHANGED <<decl, events, err>> /\ err = "none" /\ Built /\ Built'
         /\ Nodes' = Nodes
<1>1. /\ UNCHANGED <<node, edges, deg, queue, order>>
      /\ UNCHANGED <<decl, events, err>> /\ Built /\ Built' /\ pc # "failed"
  <2>1. CASE ComputeDepth
    BY <2>1 DEF ComputeDepth, sortVars, Built
  <2>2. CASE StagesComputed
    BY <2>2 DEF StagesComputed, sortVars, Built
  <2>3. CASE BranchesFound
    BY <2>3 DEF BranchesFound, sortVars, Built
  <2>4. CASE EventsWalked
    BY <2>4 DEF EventsWalked, sortVars, Built
  <2>5. CASE \E e \in Edge : WalkBack(e)
    BY <2>5 DEF WalkBack, sortVars, Built
  <2>6. CASE \E e \in Edge : WalkEvent(e)
    BY <2>6 DEF WalkEvent, sortVars, Built
  <2> QED BY <2>1, <2>2, <2>3, <2>4, <2>5, <2>6 DEF PlanAction
<1>2. err = "none"
  BY <1>1 DEF TypeOK
<1> QED BY <1>1, <1>2 DEF Nodes

LEMMA PlanType ==
  ASSUME TypeOK, PlanAction
  PROVE  TypeOK'
<1>1. /\ UNCHANGED <<node, edges, deg, queue, order>>
      /\ UNCHANGED <<decl, events, err>> /\ err = "none" /\ Built /\ Built'
      /\ Nodes' = Nodes
  BY PlanKeeps
<1>2. pc' \in {"stages", "live", "events", "done"}
  BY <1>1 DEF Built
<1>3. /\ next' \in Nat \ {0} /\ depth' \in [DOMAIN depth' -> Nat] /\ DOMAIN depth' \subseteq Nodes
      /\ live' \subseteq Nodes /\ evLive' \subseteq Id \cup {Unknown}
  <2>1. CASE ComputeDepth
    <3> DEFINE n == order[next]
    <3>1. n \in Nodes
      <4>1. next \in 1..Len(order) /\ order \in Seq(Nodes)
        BY <2>1, LenProperties DEF ComputeDepth, TypeOK
      <4> QED BY <4>1, ElementOfSeq
    <3>2. Deepest(n) \in Nat
      BY DepthTyped
    <3>3. /\ depth' = [m \in DOMAIN depth \cup {n} |-> IF m = n THEN Deepest(n) ELSE depth[m]]
          /\ next' = next + 1 /\ UNCHANGED <<live, evLive>>
      BY <2>1 DEF ComputeDepth
    <3> HIDE DEF n
    <3> QED BY <3>1, <3>2, <3>3 DEF TypeOK
  <2>2. CASE StagesComputed
    BY <2>2 DEF StagesComputed, TypeOK, Sinks
  <2>3. CASE BranchesFound
    BY <2>3 DEF BranchesFound, TypeOK
  <2>4. CASE EventsWalked
    BY <2>4 DEF EventsWalked, TypeOK, planVars
  <2>5. CASE \E e \in Edge : WalkBack(e)
    BY <2>5 DEF WalkBack, TypeOK
  <2>6. CASE \E e \in Edge : WalkEvent(e)
    <3>1. \A e \in Edge : e.to \in Id \cup {Unknown}
      BY GraphAssumption DEF EdgeDef
    <3> QED BY <2>6, <3>1 DEF WalkEvent, TypeOK
  <2> QED BY <2>1, <2>2, <2>3, <2>4, <2>5, <2>6 DEF PlanAction
<1>4. deg' \in [Nodes' -> Nat]
  BY <1>1 DEF TypeOK, Built
<1> QED
  BY <1>1, <1>2, <1>3, <1>4 DEF TypeOK

LEMMA StepIInv == IInv /\ [Next]_vars => IInv'
<1> SUFFICES ASSUME IInv, [Next]_vars PROVE IInv'
  OBVIOUS
<1>1. CASE AddNode \/ NodesAdded \/ \E e \in Edge : AddEdge(e)
  BY <1>1, GrowStep
<1>2. CASE EdgesAdded \/ Pop \/ QueueEmpty
  BY <1>2, SortStep
<1>3. CASE PlanAction
  <2>1. TypeOK
    BY DEF IInv
  <2>2. /\ UNCHANGED <<node, edges, deg, queue, order>> /\ UNCHANGED err
        /\ err = "none" /\ Built /\ Built'
    BY <1>3, <2>1, PlanKeeps
  <2>3. (Kahn' <=> Kahn) /\ (Complete' <=> Complete)
    BY <2>2, SortKept
  <2>4. TypeOK'
    BY <1>3, <2>1, PlanType
  <2> QED BY <2>2, <2>3, <2>4 DEF IInv, Begun, Built
<1>4. CASE UNCHANGED vars
  <2>1. UNCHANGED <<node, edges, deg, queue, order>>
    BY <1>4 DEF vars, sortVars
  <2>2. (Kahn' <=> Kahn) /\ (Complete' <=> Complete)
    BY <2>1, SortKept
  <2>3. TypeOK'
    BY <1>4 DEF IInv, TypeOK, vars, sortVars, planVars, Nodes
  <2> QED
    BY <1>4, <2>1, <2>2, <2>3 DEF IInv, Begun, Built, vars
<1> QED BY <1>1, <1>2, <1>3, <1>4 DEF Next, PlanAction

(* The invariant from which the sort is judged holds throughout.           *)
THEOREM Invariance == Spec => []IInv
BY InitIInv, StepIInv, PTL DEF Spec

(* Every variable keeps its type, whatever the configuration lists.        *)
THEOREM TypeCorrect == Spec => []TypeOK
BY Invariance, PTL DEF IInv

(* A complete order lists every node. *)
LEMMA CompleteListsAll ==
  ASSUME TypeOK, Kahn
  PROVE  Complete <=> Done = Nodes
<1>1. order \in Seq(Nodes) /\ Distinct(order)
  BY DEF TypeOK, Kahn
<1>2. IsFiniteSet(Done) /\ Cardinality(Done) = Len(order)
  BY <1>1, DistinctCount DEF Done, Distinct
<1>3. Done \subseteq Nodes /\ IsFiniteSet(Nodes)
  <2>1. \A i \in DOMAIN order : order[i] \in Nodes
    BY <1>1, LenProperties
  <2> QED BY <2>1, GraphFinite DEF Done
<1>4. Cardinality(Done) = Cardinality(Nodes) => Done = Nodes
  BY <1>3, FS_Subset
<1> QED BY <1>2, <1>4 DEF Complete

(* A graph that was built is listed sources first: every node once, and no *)
(* edge leads backward ("topological order" of graph.Build).               *)
THEOREM SourcesFirst == Spec => []OrderFollowsEdges
<1>1. IInv => OrderFollowsEdges
  <2> SUFFICES ASSUME IInv, Built PROVE
        /\ \A n \in Nodes : \E i \in DOMAIN order : order[i] = n
        /\ Distinct(order)
        /\ \A i, j \in DOMAIN order :
              (\E e \in edges : e.from = order[i] /\ e.to = order[j]) => i < j
    BY DEF OrderFollowsEdges, Distinct
  <2>1. TypeOK /\ Kahn /\ Complete
    BY DEF IInv, Begun, Built, TypeOK
  <2>2. Done = Nodes /\ Distinct(order)
    BY <2>1, CompleteListsAll DEF Kahn
  <2>3. ASSUME NEW i \in DOMAIN order, NEW j \in DOMAIN order,
               NEW e \in edges, e.from = order[i], e.to = order[j]
        PROVE  i < j
    <3>1. PICK k \in DOMAIN order : k < j /\ order[k] = e.from
      BY <2>1, <2>3 DEF Kahn, Into
    <3>2. k = i
      BY <2>2, <2>3, <3>1 DEF Distinct
    <3> QED BY <3>1, <3>2
  <2> QED BY <2>2, <2>3 DEF Done
<1> QED BY <1>1, Invariance, PTL

(* Build refuses a graph for a cycle exactly when it has one.  What is left *)
(* over by the sort waits for what is left over; and in a complete order    *)
(* the first node of a set waits for none of the set.                      *)
THEOREM CyclesRefused == Spec => []CycleIffRefused
<1>1. IInv => CycleIffRefused
  <2> SUFFICES ASSUME IInv PROVE CycleIffRefused
    OBVIOUS
  <2>1. ASSUME err = "cycle" PROVE \E C \in SUBSET Nodes : Knot(C)
    <3>1. TypeOK /\ Kahn /\ queue = <<>> /\ ~Complete
      BY <2>1 DEF IInv, Begun, TypeOK
    <3>2. Done # Nodes /\ \A n \in Done : n \in Nodes
      <4>1. order \in Seq(Nodes)
        BY <3>1 DEF TypeOK
      <4> QED BY <3>1, <4>1, CompleteListsAll, LenProperties DEF Done
    <3>3. Waiting = {}
      BY <3>1, EmptyDomain DEF Waiting
    <3>4. ASSUME NEW n \in Nodes \ Done PROVE \E e \in Into(n) : e.from \in Nodes \ Done
      <4>1. Cardinality(Open(n)) # 0
        BY <3>1, <3>3 DEF Kahn
      <4>2. PICK e \in Open(n) : TRUE
        BY <3>1, <4>1, FS_EmptySet
      <4> QED BY <3>1, <4>2 DEF Open, Into, TypeOK
    <3>5. Nodes \ Done # {} /\ Knot(Nodes \ Done)
      BY <3>2, <3>4 DEF Knot
    <3> QED BY <3>5
  <2>2. ASSUME Built, NEW C \in SUBSET Nodes, Knot(C) PROVE FALSE
    <3>1. TypeOK /\ Kahn /\ Done = Nodes
      BY <2>2, CompleteListsAll DEF IInv, Begun, Built, TypeOK
    <3> DEFINE P == {i \in DOMAIN order : order[i] \in C}
    <3>2. P \in SUBSET Nat
      BY <3>1, LenProperties DEF TypeOK
    <3>3. P # {}
      BY <2>2, <3>1 DEF Knot, Done
    <3>4. PICK i \in P : \A k \in P : i <= k
      BY <3>2, <3>3, LeastNatural
    <3>5. PICK e \in Into(order[i]) : e.from \in C
      BY <2>2 DEF Knot
    <3>6. PICK j \in DOMAIN order : j < i /\ order[j] = e.from
      BY <3>1, <3>5 DEF Kahn
    <3> QED BY <3>2, <3>4, <3>5, <3>6
  <2> QED BY <2>1, <2>2 DEF CycleIffRefused
<1> QED BY <1>1, Invariance, PTL

-----------------------------------------------------------------------------
(* The nodes with a stage are the first of the order; every edge among them *)
(* goes up at least one stage, and into a later stage one goes up just one. *)
Rises(n) == \A e \in Into(n) : e.from \in DOMAIN depth /\ depth[n] >= depth[e.from] + 1
Tight(n) == \/ depth[n] = 0
            \/ \E e \in Into(n) : e.from \in DOMAIN depth /\ depth[n] = depth[e.from] + 1
Depths ==
    /\ ~Built => DOMAIN depth = {} /\ next = 1
    /\ Built => /\ next \in 1..(Len(order) + 1)
                /\ DOMAIN depth = {order[i] : i \in 1..(next - 1)}
                /\ \A n \in DOMAIN depth : Rises(n) /\ Tight(n)
    /\ pc \in {"live", "events", "done"} => next = Len(order) + 1

LEMMA DepthStep ==
  ASSUME IInv, Depths, ComputeDepth
  PROVE  Depths'
<1> DEFINE n == order[next]
<1>1. TypeOK /\ Kahn /\ pc = "stages" /\ Built /\ Built' /\ pc' = "stages"
  BY DEF ComputeDepth, Built, IInv, Begun, TypeOK
<1>2. /\ next' = next + 1 /\ UNCHANGED <<edges, order>>
      /\ depth' = [m \in DOMAIN depth \cup {n} |-> IF m = n THEN Deepest(n) ELSE depth[m]]
  BY DEF ComputeDepth, sortVars
<1>3. /\ order \in Seq(Nodes) /\ Len(order) \in Nat /\ DOMAIN order = 1..Len(order)
      /\ next \in 1..Len(order)
  BY <1>1, LenProperties DEF TypeOK, ComputeDepth
<1>4. DOMAIN depth = {order[i] : i \in 1..(next - 1)} /\ \A m \in DOMAIN depth : Rises(m) /\ Tight(m)
  BY <1>1 DEF Depths
<1>5. n \notin DOMAIN depth
  <2> SUFFICES ASSUME NEW i \in 1..(next - 1), order[i] = n PROVE FALSE
    BY <1>4
  <2>1. i \in DOMAIN order /\ next \in DOMAIN order /\ i # next
    BY <1>3
  <2> QED BY <1>1, <2>1 DEF Kahn, Distinct
<1>6. \A e \in Into(n) : e.from \in DOMAIN depth
  <2> TAKE e \in Into(n)
  <2>1. PICK j \in DOMAIN order : j < next /\ order[j] = e.from
    BY <1>1, <1>3 DEF Kahn
  <2>2. j \in 1..(next - 1)
    BY <1>3, <2>1
  <2> QED BY <1>4, <2>1, <2>2
<1>7. DOMAIN depth' = DOMAIN depth \cup {n}
  BY <1>2
<1>8. DOMAIN depth' = {order'[i] : i \in 1..(next' - 1)}
  <2>1. 1..(next' - 1) = 1..(next - 1) \cup {next}
    BY <1>2, <1>3
  <2> QED BY <1>2, <1>4, <1>7, <2>1
<1>9. /\ \A m \in DOMAIN depth : depth'[m] = depth[m]
      /\ depth'[n] = Deepest(n)
  BY <1>2, <1>5
<1>10. \A m : Into(m)' = Into(m)
  BY <1>2 DEF Into
<1> HIDE DEF n
<1>11. ASSUME NEW m \in DOMAIN depth' PROVE Rises(m)' /\ Tight(m)'
  <2>1. CASE m \in DOMAIN depth
    BY <1>4, <1>7, <1>9, <1>10, <2>1 DEF Rises, Tight
  <2>2. CASE m = n
    <3>1. \A e \in Into(m) : DepthOf(e.from) = depth'[e.from] /\ e.from \in DOMAIN depth'
      BY <1>6, <1>7, <1>9, <2>2 DEF DepthOf
    <3>2. depth'[m] = Deepest(m) /\ Into(m)' = Into(m)
      BY <1>9, <1>10, <2>2
    <3>3. /\ \A e \in Into(m) : Deepest(m) >= DepthOf(e.from) + 1
          /\ Deepest(m) = 0 \/ \E e \in Into(m) : Deepest(m) = DepthOf(e.from) + 1
      BY <1>1, DepthTyped
    <3>4. Rises(m)'
      BY <3>1, <3>2, <3>3 DEF Rises
    <3>5. Tight(m)'
      BY <3>1, <3>2, <3>3 DEF Tight
    <3> QED BY <3>4, <3>5
  <2> QED BY <1>7, <2>1, <2>2
<1> QED
  BY <1>1, <1>2, <1>3, <1>8, <1>11 DEF Depths

LEMMA DepthsInvariant == Spec => []Depths
<1>1. Init => Depths
  BY DEF Init, Depths, Built
<1>2. ASSUME IInv, Depths, [Next]_vars PROVE Depths'
  <2>1. CASE ComputeDepth
    BY <1>2, <2>1, DepthStep
  <2>2. CASE AddNode \/ NodesAdded \/ \E e \in Edge : AddEdge(e)
    <3>1. ~Built /\ UNCHANGED <<next, depth>>
      BY <2>2 DEF AddNode, NodesAdded, AddEdge, Built, planVars
    <3>2. ~Built'
      BY <2>2 DEF AddNode, NodesAdded, AddEdge, Built, Fail
    <3> QED BY <1>2, <3>1, <3>2 DEF Depths, Built
  <2>3. CASE EdgesAdded \/ Pop
    <3>1. ~Built /\ ~Built' /\ UNCHANGED <<next, depth>>
      BY <2>3 DEF EdgesAdded, Pop, Built, planVars
    <3> QED BY <1>2, <3>1 DEF Depths, Built
  <2>4. CASE QueueEmpty
    <3>1. ~Built /\ UNCHANGED <<order, next, depth>> /\ pc' \in {"stages", "failed"}
      BY <2>4 DEF QueueEmpty, Built, planVars, sortVars, Fail
    <3>2. order \in Seq(Nodes) /\ Len(order) \in Nat
      BY <1>2, LenProperties DEF IInv, TypeOK
    <3>3. DOMAIN depth = {} /\ next = 1 /\ 1 \in 1..(Len(order) + 1) /\ 1..(1 - 1) = {}
      BY <1>2, <3>1, <3>2 DEF Depths
    <3> QED BY <3>1, <3>3 DEF Depths, Built
  <2>5. CASE StagesComputed
    <3>1. /\ pc = "stages" /\ pc' = "live" /\ next > Len(order)
          /\ UNCHANGED <<edges, order, next, depth>>
      BY <2>5 DEF StagesComputed, sortVars
    <3>2. order \in Seq(Nodes) /\ Len(order) \in Nat
      BY <1>2, LenProperties DEF IInv, TypeOK
    <3>3. next = Len(order) + 1
      BY <1>2, <3>1, <3>2 DEF Depths, Built
    <3>4. \A n : Into(n)' = Into(n) /\ (Rises(n)' <=> Rises(n)) /\ (Tight(n)' <=> Tight(n))
      BY <3>1 DEF Into, Rises, Tight
    <3> QED BY <1>2, <3>1, <3>3, <3>4 DEF Depths, Built
  <2>6. CASE BranchesFound \/ EventsWalked \/ \E e \in Edge : WalkBack(e) \/ WalkEvent(e)
    <3>1. /\ pc \in {"live", "events"} /\ pc' \in {"live", "events", "done"}
          /\ UNCHANGED <<edges, order, next, depth>>
      BY <2>6 DEF BranchesFound, EventsWalked, WalkBack, WalkEvent, sortVars, planVars
    <3>2. \A n : Into(n)' = Into(n) /\ (Rises(n)' <=> Rises(n)) /\ (Tight(n)' <=> Tight(n))
      BY <3>1 DEF Into, Rises, Tight
    <3> QED BY <1>2, <3>1, <3>2 DEF Depths, Built
  <2>7. CASE UNCHANGED vars
    <3>1. UNCHANGED <<edges, order, next, depth, pc>>
      BY <2>7 DEF vars, sortVars, planVars
    <3>2. \A n : Into(n)' = Into(n) /\ (Rises(n)' <=> Rises(n)) /\ (Tight(n)' <=> Tight(n))
      BY <3>1 DEF Into, Rises, Tight
    <3> QED BY <1>2, <3>1, <3>2 DEF Depths, Built
  <2> QED BY <1>2, <2>1, <2>2, <2>3, <2>4, <2>5, <2>6, <2>7 DEF Next
<1> QED BY <1>1, <1>2, Invariance, PTL DEF Spec

-----------------------------------------------------------------------------
(* In a finished plan: no path into a node is longer than its stage ...    *)
LEMMA PathsAreShort ==
  ASSUME TypeOK, DOMAIN depth = Nodes, \A n \in Nodes : Rises(n),
         NEW p \in Seq(Id), PathIn(p, edges), Len(p) > 0, p[Len(p)] \in Nodes
  PROVE  Len(p) - 1 <= depth[p[Len(p)]]
<1>1. Len(p) \in Nat /\ depth \in [Nodes -> Nat]
  BY LenProperties DEF TypeOK
<1> DEFINE Good(i) == p[i] \in Nodes /\ depth[p[i]] >= i - 1
           Bad == {i \in 1..Len(p) : ~Good(i)}
<1>2. Bad = {}
  <2> SUFFICES ASSUME Bad # {} PROVE FALSE
    OBVIOUS
  <2>1. PICK m \in Bad : \A k \in Bad : m <= k
    <3>1. Bad \in SUBSET Nat
      BY <1>1
    <3> HIDE DEF Bad
    <3> QED BY <3>1, LeastNatural
  <2>2. m \in 1..Len(p) /\ ~Good(m)
    OBVIOUS
  <2>3. CASE m = 1
    <3>1. p[1] \in Nodes
      <4>1. CASE Len(p) = 1
        BY <4>1
      <4>2. CASE Len(p) # 1
        <5>1. 1 \in 1..(Len(p) - 1)
          BY <1>1, <4>2
        <5>2. PICK e \in edges : e.from = p[1]
          BY <5>1 DEF PathIn
        <5> QED BY <5>2 DEF TypeOK
      <4> QED BY <4>1, <4>2
    <3> QED BY <1>1, <2>2, <2>3, <3>1
  <2>4. CASE m # 1
    <3>1. m - 1 \in 1..(Len(p) - 1) /\ m - 1 \in 1..Len(p) /\ m \in Nat /\ (m - 1) + 1 = m
      BY <1>1, <2>2, <2>4
    <3>2. Good(m - 1)
      <4>1. m - 1 \notin Bad
        BY <2>1, <3>1
      <4> QED BY <3>1, <4>1
    <3>3. PICK e \in edges : e.from = p[m - 1] /\ e.to = p[m]
      BY <3>1 DEF PathIn
    <3>4. p[m] \in Nodes /\ e \in Into(p[m])
      BY <3>3 DEF TypeOK, Into
    <3>5. depth[p[m]] >= depth[p[m - 1]] + 1
      BY <3>3, <3>4 DEF Rises
    <3>6. depth[p[m]] \in Nat /\ depth[p[m - 1]] \in Nat
      BY <1>1, <3>2, <3>4
    <3> QED BY <2>2, <3>1, <3>2, <3>4, <3>5, <3>6
  <2> QED BY <2>3, <2>4
<1>3. Len(p) \in 1..Len(p)
  BY <1>1
<1>4. Good(Len(p))
  BY <1>2, <1>3
<1> QED BY <1>1, <1>4

(* ... and one is just as long: it goes up one stage an edge. *)
Climbs(p, n) ==
    /\ p \in Seq(Id) /\ Len(p) = depth[n] + 1 /\ p[Len(p)] = n /\ PathIn(p, edges)
    /\ \A i \in 1..Len(p) : p[i] \in Nodes /\ depth[p[i]] = i - 1

LEMMA PathExists ==
  ASSUME TypeOK, DOMAIN depth = Nodes, \A n \in Nodes : Tight(n)
  PROVE  \A n \in Nodes : \E p : Climbs(p, n)
<1>1. depth \in [Nodes -> Nat] /\ Nodes \subseteq Id
  BY DEF TypeOK
<1> DEFINE Bad == {n \in Nodes : \A p : ~Climbs(p, n)}
           D == {depth[n] : n \in Bad}
<1> SUFFICES ASSUME Bad # {} PROVE FALSE
  OBVIOUS
<1>2. PICK d \in D : \A k \in D : d <= k
  <2>1. D \in SUBSET Nat /\ D # {}
    BY <1>1
  <2> HIDE DEF D
  <2> QED BY <2>1, LeastNatural
<1>3. PICK n \in Bad : depth[n] = d
  OBVIOUS
<1>4. n \in Nodes /\ n \in Id /\ d \in Nat
  BY <1>1, <1>3
<1>5. CASE d = 0
  <2> DEFINE p == [i \in 1..1 |-> n]
  <2>1. p \in Seq(Id) /\ Len(p) = 1 /\ p[1] = n
    <3>1. p \in [1..1 -> Id]
      BY <1>4
    <3>2. p \in Seq(Id)
      BY <3>1, SeqDef
    <3>3. DOMAIN p = 1..1 /\ DOMAIN p = 1..Len(p) /\ Len(p) \in Nat
      BY <3>2, LenProperties
    <3> QED BY <3>2, <3>3
  <2> HIDE DEF p
  <2>2. 1..(Len(p) - 1) = {} /\ 1..Len(p) = {1}
    BY <2>1
  <2>3. PathIn(p, edges)
    BY <2>2 DEF PathIn
  <2>4. Climbs(p, n)
    BY <1>3, <1>4, <1>5, <2>1, <2>2, <2>3 DEF Climbs
  <2> QED BY <1>3, <2>4
<1>6. CASE d # 0
  <2>1. PICK e \in Into(n) : e.from \in Nodes /\ d = depth[e.from] + 1
    BY <1>3, <1>4, <1>6 DEF Tight
  <2> DEFINE m == e.from
  <2>2. m \in Nodes /\ depth[m] \in Nat /\ depth[m] < d
    BY <1>1, <2>1
  <2>3. PICK p : Climbs(p, m)
    <3>1. m \notin Bad
      BY <1>2, <1>4, <2>2
    <3> QED BY <2>2, <3>1
  <2> DEFINE q == Append(p, n)
  <2>4. p \in Seq(Id) /\ Len(p) = d /\ p[d] = m /\ Len(p) \in Nat
    BY <2>1, <2>2, <2>3 DEF Climbs
  <2>5. /\ q \in Seq(Id) /\ Len(q) = d + 1 /\ q[d + 1] = n
        /\ \A i \in 1..d : q[i] = p[i]
    BY <1>4, <2>4, AppendProperties
  <2> HIDE DEF q
  <2>6. PathIn(q, edges)
    <3> SUFFICES ASSUME NEW i \in 1..(Len(q) - 1)
                 PROVE  \E f \in edges : f.from = q[i] /\ f.to = q[i + 1]
      BY DEF PathIn
    <3>1. i \in 1..d /\ i \in Nat
      BY <1>4, <2>5
    <3>2. CASE i = d
      <4>1. e \in edges /\ e.from = q[i] /\ e.to = q[i + 1]
        BY <2>1, <2>4, <2>5, <3>1, <3>2 DEF Into
      <4> QED BY <4>1
    <3>3. CASE i # d
      <4>1. i \in 1..(Len(p) - 1) /\ i + 1 \in 1..d
        BY <1>4, <2>4, <3>1, <3>3
      <4>2. \E f \in edges : f.from = p[i] /\ f.to = p[i + 1]
        BY <2>3, <4>1 DEF Climbs, PathIn
      <4> QED BY <2>5, <3>1, <4>1, <4>2
    <3> QED BY <3>2, <3>3
  <2>7. ASSUME NEW i \in 1..Len(q) PROVE q[i] \in Nodes /\ depth[q[i]] = i - 1
    <3>1. i \in 1..d \/ i = d + 1
      BY <1>4, <2>5
    <3>2. CASE i \in 1..d
      BY <2>3, <2>4, <2>5, <3>2 DEF Climbs
    <3>3. CASE i = d + 1
      BY <1>3, <1>4, <2>5, <3>3
    <3> QED BY <3>1, <3>2, <3>3
  <2>8. Climbs(q, n)
    BY <1>3, <2>5, <2>6, <2>7 DEF Climbs
  <2> QED BY <1>3, <2>8
<1> QED BY <1>5, <1>6

(* The stage of a node is the length of the longest path into it. *)
THEOREM LongestPath == Spec => []StageIsLongestPath
<1>1. ASSUME IInv, Depths PROVE StageIsLongestPath
  <2> DEFINE Ending(n) == {q \in Paths(edges) : q[Len(q)] = n}
             Lengths(n) == {Len(p) - 1 : p \in Ending(n)}
  <2> SUFFICES ASSUME pc = "done", NEW n \in Nodes PROVE depth[n] = Max(Lengths(n))
    BY DEF StageIsLongestPath
  <2>1. TypeOK /\ Kahn /\ Complete /\ Built
    BY <1>1 DEF IInv, Begun, Built, TypeOK
  <2>2. DOMAIN depth = Nodes /\ \A m \in Nodes : Rises(m) /\ Tight(m)
    <3>1. order \in Seq(Nodes) /\ Len(order) \in Nat /\ DOMAIN order = 1..Len(order)
      BY <2>1, LenProperties DEF TypeOK
    <3>2. 1..(next - 1) = DOMAIN order
      BY <1>1, <3>1 DEF Depths
    <3>3. DOMAIN depth = Done
      BY <1>1, <2>1, <3>2 DEF Depths, Done
    <3>4. Done = Nodes
      BY <2>1, CompleteListsAll
    <3> QED BY <1>1, <2>1, <3>3, <3>4 DEF Depths
  <2>3. depth[n] \in Nat /\ IsFiniteSet(Id)
    BY <2>1, <2>2, GraphAssumption DEF TypeOK
  <2>4. ASSUME NEW p \in Paths(edges) PROVE p \in Seq(Id) /\ Len(p) \in Nat \ {0} /\ PathIn(p, edges)
    <3>1. PICK k \in 1..Cardinality(Id) : p \in [1..k -> Id]
      BY DEF Paths
    <3>2. k \in Nat \ {0} /\ Cardinality(Id) \in Nat
      BY <2>3, <3>1, FS_CardinalityType
    <3>3. p \in Seq(Id)
      BY <3>1, <3>2, SeqDef
    <3>4. 1..k = 1..Len(p) /\ Len(p) \in Nat
      BY <3>1, <3>3, LenProperties
    <3>5. Len(p) # 0
      BY <3>2, <3>4
    <3> QED BY <3>3, <3>4, <3>5 DEF Paths
  <2>5. ASSUME NEW y \in Lengths(n) PROVE y \in Nat /\ y <= depth[n]
    <3>1. PICK p \in Paths(edges) : p[Len(p)] = n /\ y = Len(p) - 1
      BY <2>5
    <3>2. p \in Seq(Id) /\ Len(p) \in Nat \ {0} /\ PathIn(p, edges)
      BY <2>4, <3>1
    <3>3. Len(p) - 1 <= depth[p[Len(p)]]
      BY <2>1, <2>2, <3>1, <3>2, PathsAreShort
    <3> QED BY <3>1, <3>2, <3>3
  <2>6. depth[n] \in Lengths(n)
    <3>1. PICK p : Climbs(p, n)
      BY <2>1, <2>2, PathExists
    <3>2. p \in Seq(Id) /\ Len(p) = depth[n] + 1 /\ p[Len(p)] = n /\ PathIn(p, edges)
      BY <3>1 DEF Climbs
    <3>3. DOMAIN p = 1..Len(p) /\ Len(p) \in Nat \ {0} /\ p \in [1..Len(p) -> Id]
      BY <2>3, <3>2, LenProperties
    <3>4. \A i, j \in DOMAIN p : p[i] = p[j] => i = j
      <4> SUFFICES ASSUME NEW i \in DOMAIN p, NEW j \in DOMAIN p, p[i] = p[j] PROVE i = j
        OBVIOUS
      <4>1. depth[p[i]] = i - 1 /\ depth[p[j]] = j - 1 /\ i \in Nat /\ j \in Nat
        BY <3>1, <3>3 DEF Climbs
      <4> QED BY <4>1
    <3>5. Len(p) <= Cardinality(Id) /\ Cardinality(Id) \in Nat
      <4> DEFINE R == {p[i] : i \in DOMAIN p}
      <4>1. Cardinality(R) = Len(p)
        BY <3>2, <3>4, DistinctCount
      <4>2. R \in SUBSET Id
        BY <3>3
      <4> HIDE DEF R
      <4> QED BY <2>3, <4>1, <4>2, FS_Subset, FS_CardinalityType
    <3>6. Len(p) \in 1..Cardinality(Id)
      BY <3>3, <3>5
    <3>7. p \in Paths(edges)
      BY <3>2, <3>3, <3>6 DEF Paths
    <3> QED BY <2>3, <3>2, <3>7
  <2> HIDE DEF Lengths
  <2>7. \A x \in Lengths(n) : (\A y \in Lengths(n) : x >= y) => x = depth[n]
    BY <2>3, <2>5, <2>6
  <2> QED BY <2>3, <2>5, <2>6, <2>7 DEF Max
<1> QED BY <1>1, Invariance, DepthsInvariant, PTL
-----------------------------------------------------------------------------
(* A way along edges that comes through nothing twice. *)
Trail(p, S, E) ==
    /\ p \in Seq(S) /\ Len(p) >= 1 /\ PathIn(p, E)
    /\ \A i, j \in DOMAIN p : p[i] = p[j] => i = j
Visits(p, L) == \A i \in DOMAIN p : p[i] \in L

LEMMA TrailShort ==
  ASSUME NEW S, IsFiniteSet(S), NEW E, NEW p, Trail(p, S, E)
  PROVE  \E k \in 1..Cardinality(S) : p \in [1..k -> S] /\ k = Len(p)
<1>1. p \in Seq(S) /\ Len(p) \in Nat /\ DOMAIN p = 1..Len(p) /\ p \in [1..Len(p) -> S]
  BY LenProperties DEF Trail
<1> DEFINE R == {p[i] : i \in DOMAIN p}
<1>2. Cardinality(R) = Len(p)
  BY <1>1, DistinctCount DEF Trail
<1>3. R \in SUBSET S
  BY <1>1
<1> HIDE DEF R
<1>4. Len(p) <= Cardinality(S) /\ Cardinality(S) \in Nat
  BY <1>2, <1>3, FS_Subset, FS_CardinalityType
<1>5. Len(p) \in 1..Cardinality(S)
  BY <1>1, <1>4 DEF Trail
<1> QED BY <1>1, <1>5

LEMMA TrailOne ==
  ASSUME NEW S, NEW E, NEW a \in S
  PROVE  \E p : /\ Trail(p, S, E) /\ p[1] = a /\ p[Len(p)] = a /\ \A L : a \in L => Visits(p, L)
<1> DEFINE p == [i \in 1..1 |-> a]
<1>1. p \in [1..1 -> S]
  OBVIOUS
<1>2. p \in Seq(S) /\ Len(p) = 1 /\ p[1] = a /\ DOMAIN p = 1..1
  <2>1. p \in Seq(S)
    BY <1>1, SeqDef
  <2>2. DOMAIN p = 1..1 /\ DOMAIN p = 1..Len(p) /\ Len(p) \in Nat
    BY <2>1, LenProperties
  <2> QED BY <2>1, <2>2
<1> HIDE DEF p
<1>3. 1..(Len(p) - 1) = {} /\ 1..1 = {1}
  BY <1>2
<1>4. Trail(p, S, E)
  BY <1>2, <1>3 DEF Trail, PathIn
<1>5. \A L : a \in L => Visits(p, L)
  BY <1>2, <1>3 DEF Visits
<1> QED BY <1>2, <1>4, <1>5

(* One more edge at the end, to where it has not been ... *)
LEMMA TrailOn ==
  ASSUME NEW S, NEW E, NEW p, Trail(p, S, E), NEW e \in E, p[Len(p)] = e.from, e.to \in S,
         NEW L, Visits(p, L), e.to \notin L
  PROVE  \E q : Trail(q, S, E) /\ q[1] = p[1] /\ q[Len(q)] = e.to /\ Visits(q, L \cup {e.to})
<1> DEFINE n == Len(p)
           q == Append(p, e.to)
<1>1. p \in Seq(S) /\ n \in Nat /\ n >= 1 /\ DOMAIN p = 1..n
  BY LenProperties DEF Trail
<1>2. q \in Seq(S) /\ Len(q) = n + 1 /\ q[n + 1] = e.to /\ (\A i \in 1..n : q[i] = p[i]) /\ DOMAIN q = 1..(n + 1)
  <2>1. q \in Seq(S) /\ Len(q) = n + 1 /\ q[n + 1] = e.to /\ \A i \in 1..n : q[i] = p[i]
    BY <1>1, AppendProperties
  <2> QED BY <2>1, LenProperties
<1> HIDE DEF q
<1>3. ASSUME NEW i \in 1..(Len(q) - 1) PROVE \E f \in E : f.from = q[i] /\ f.to = q[i + 1]
  <2>1. i \in 1..n /\ q[i] = p[i]
    BY <1>1, <1>2
  <2>2. CASE i = n
    BY <1>2, <2>1, <2>2
  <2>3. CASE i # n
    <3>0. n \in Nat /\ i \in 1..n /\ i # n
      BY <1>1, <2>1, <2>3
    <3>1. i \in 1..(n - 1) /\ i + 1 \in 1..n
      <4> HIDE DEF n
      <4> QED BY <3>0
    <3>2. q[i + 1] = p[i + 1] /\ i \in 1..(Len(p) - 1)
      BY <1>2, <3>1
    <3> QED BY <2>1, <3>2 DEF Trail, PathIn
  <2> QED BY <2>2, <2>3
<1>4. ASSUME NEW i \in DOMAIN q, NEW j \in DOMAIN q, q[i] = q[j] PROVE i = j
  <2>1. \A k \in DOMAIN q : k = n + 1 \/ (k \in 1..n /\ q[k] = p[k] /\ q[k] \in L)
    BY <1>1, <1>2 DEF Visits
  <2>2. CASE i \in 1..n /\ j \in 1..n
    BY <1>1, <1>2, <1>4, <2>2 DEF Trail
  <2> QED BY <1>2, <1>4, <2>1, <2>2
<1>5. Visits(q, L \cup {e.to})
  <2>1. ASSUME NEW i \in DOMAIN q PROVE q[i] \in L \cup {e.to}
    <3>1. i \in 1..n \/ i = n + 1
      BY <1>1, <1>2
    <3> QED BY <1>1, <1>2, <3>1 DEF Visits
  <2> QED BY <2>1 DEF Visits
<1>6. q[1] = p[1] /\ Len(q) >= 1 /\ q[Len(q)] = e.to
  BY <1>1, <1>2
<1> QED BY <1>2, <1>3, <1>4, <1>5, <1>6 DEF Trail, PathIn

(* ... and one at the front. *)
LEMMA TrailBefore ==
  ASSUME NEW S, NEW E, NEW p, Trail(p, S, E), NEW e \in E, p[1] = e.to, e.from \in S,
         NEW L, Visits(p, L), e.from \notin L
  PROVE  \E q : Trail(q, S, E) /\ q[1] = e.from /\ q[Len(q)] = p[Len(p)] /\ Visits(q, L \cup {e.from})
<1> DEFINE n == Len(p)
           q == [i \in 1..(n + 1) |-> IF i = 1 THEN e.from ELSE p[i - 1]]
<1>1. p \in Seq(S) /\ n \in Nat /\ n >= 1 /\ DOMAIN p = 1..n /\ p \in [1..n -> S]
  BY LenProperties DEF Trail
<1>2. q \in Seq(S) /\ Len(q) = n + 1 /\ DOMAIN q = 1..(n + 1)
  <2>1. ASSUME NEW i \in 1..(n + 1) PROVE q[i] \in S
    <3>1. i = 1 \/ i - 1 \in 1..n
      BY <1>1
    <3> QED BY <1>1, <3>1
  <2>2. q \in [1..(n + 1) -> S]
    BY <2>1
  <2>3. q \in Seq(S)
    BY <1>1, <2>2, SeqDef
  <2>4. DOMAIN q = 1..(n + 1) /\ DOMAIN q = 1..Len(q) /\ Len(q) \in Nat
    BY <2>3, LenProperties
  <2> QED BY <1>1, <2>3, <2>4
<1>3. q[1] = e.from /\ (\A i \in 1..n : q[i + 1] = p[i])
  <2>1. 1 \in 1..(n + 1) /\ \A i \in 1..n : i + 1 \in 1..(n + 1) /\ i + 1 # 1 /\ (i + 1) - 1 = i
    BY <1>1
  <2> QED BY <2>1
<1>4. \A i \in 1..(n + 1) : i = 1 \/ \E k \in 1..n : i = k + 1
  <2> TAKE i \in 1..(n + 1)
  <2>1. i = 1 \/ (i - 1 \in 1..n /\ i = (i - 1) + 1)
    BY <1>1
  <2> QED BY <2>1
<1> HIDE DEF q
<1>5. ASSUME NEW i \in 1..(Len(q) - 1) PROVE \E f \in E : f.from = q[i] /\ f.to = q[i + 1]
  <2>1. i \in 1..n /\ q[i + 1] = p[i]
    BY <1>1, <1>2, <1>3
  <2>2. CASE i = 1
    BY <1>3, <2>1, <2>2
  <2>3. CASE i # 1
    <3>1. i - 1 \in 1..n /\ i - 1 \in 1..(Len(p) - 1) /\ (i - 1) + 1 = i
      BY <1>1, <2>1, <2>3
    <3>2. q[i] = p[i - 1]
      BY <1>3, <3>1
    <3>3. \E f \in E : f.from = p[i - 1] /\ f.to = p[(i - 1) + 1]
      BY <3>1 DEF Trail, PathIn
    <3> QED BY <2>1, <3>1, <3>2, <3>3
  <2> QED BY <2>2, <2>3
<1>6. ASSUME NEW i \in DOMAIN q, NEW j \in DOMAIN q, q[i] = q[j] PROVE i = j
  <2>1. \A k \in 1..n : p[k] \in L /\ q[k + 1] = p[k] /\ q[k + 1] # q[1]
    BY <1>1, <1>3 DEF Visits
  <2>2. CASE i = 1 \/ j = 1
    BY <1>2, <1>4, <1>6, <2>1, <2>2
  <2>3. CASE i # 1 /\ j # 1
    <3>1. PICK k \in 1..n, m \in 1..n : i = k + 1 /\ j = m + 1
      BY <1>2, <1>4, <2>3
    <3>2. p[k] = p[m]
      BY <1>3, <1>6, <3>1
    <3>3. k = m
      BY <1>1, <3>2 DEF Trail
    <3> QED BY <3>1, <3>3
  <2> QED BY <2>2, <2>3
<1>7. Visits(q, L \cup {e.from})
  <2>1. ASSUME NEW i \in DOMAIN q PROVE q[i] \in L \cup {e.from}
    <3>1. i = 1 \/ \E k \in 1..n : i = k + 1
      BY <1>2, <1>4
    <3> QED BY <1>1, <1>3, <3>1 DEF Visits
  <2> QED BY <2>1 DEF Visits
<1>8. Len(q) >= 1 /\ q[Len(q)] = p[Len(p)]
  <2>1. n \in 1..n /\ Len(q) = n + 1
    BY <1>1, <1>2
  <2> QED BY <1>1, <1>3, <2>1
<1> QED BY <1>2, <1>3, <1>5, <1>6, <1>7, <1>8 DEF Trail, PathIn

LEMMA VisitsMore == ASSUME NEW p, NEW L, NEW M, L \subseteq M, Visits(p, L) PROVE Visits(p, M)
BY DEF Visits

-----------------------------------------------------------------------------
(* What the two walks have found: a way to a sink, or from a node with one  *)
(* along events; and in the end nothing is left to find.                    *)
ToSink(n) == \E p : Trail(p, Id, edges) /\ p[1] = n /\ p[Len(p)] \in Sinks /\ Visits(p, live)
FromLive(n) == \E p : Trail(p, Names, events) /\ p[1] \in live /\ p[Len(p)] = n /\ Visits(p, evLive)
Walks ==
    /\ pc \notin {"live", "events", "done"} => live = {}
    /\ pc \notin {"events", "done"} => evLive = {}
    /\ \A n \in live : ToSink(n)
    /\ \A n \in evLive : FromLive(n)
    /\ pc \in {"live", "events", "done"} => Sinks \subseteq live
    /\ pc \in {"events", "done"} => (\A e \in edges : e.to \in live => e.from \in live) /\ live \subseteq evLive
    /\ pc = "done" => Stable

LEMMA WalksStep ==
  ASSUME IInv, Walks, [Next]_vars
  PROVE  Walks'
<1>a. TypeOK /\ Nodes \subseteq Id /\ live \subseteq Id /\ Id \subseteq Names
  BY DEF IInv, TypeOK, Names
<1>1. CASE live = {} /\ evLive = {} /\ UNCHANGED <<live, evLive>> /\ pc' \notin {"live", "events", "done"}
  BY <1>1 DEF Walks
<1>2. CASE StagesComputed
  <2>1. /\ pc = "stages" /\ pc' = "live" /\ live' = Sinks /\ evLive' = {} /\ UNCHANGED <<node, edges, events>>
    BY <1>2 DEF StagesComputed, Walks
  <2>2. Sinks' = Sinks
    BY <2>1 DEF Sinks, Nodes, IsA
  <2>3. ASSUME NEW n \in live' PROVE ToSink(n)'
    <3>1. n \in Id /\ n \in Sinks
      BY <1>a, <2>1 DEF Sinks
    <3>2. PICK p : Trail(p, Id, edges) /\ p[1] = n /\ p[Len(p)] = n /\ \A L : n \in L => Visits(p, L)
      BY <3>1, TrailOne
    <3>3. Visits(p, live')
      BY <2>3, <3>2
    <3>4. Trail(p, Id, edges')
      BY <2>1, <3>2
    <3> QED BY <2>2, <3>1, <3>2, <3>3, <3>4 DEF ToSink
  <2> QED BY <2>1, <2>2, <2>3 DEF Walks
<1>3. ASSUME NEW e \in Edge, WalkBack(e) PROVE Walks'
  <2>1. /\ pc = "live" /\ pc' = "live" /\ e \in edges /\ e.to \in live /\ e.from \notin live
        /\ live' = live \cup {e.from} /\ evLive' = {} /\ evLive = {} /\ UNCHANGED <<node, edges, events>>
    BY <1>3 DEF WalkBack, Walks
  <2>2. Sinks' = Sinks
    BY <2>1 DEF Sinks, Nodes, IsA
  <2>3. ASSUME NEW n \in live' PROVE ToSink(n)'
    <3>1. CASE n \in live
      <4>1. PICK p : Trail(p, Id, edges) /\ p[1] = n /\ p[Len(p)] \in Sinks /\ Visits(p, live)
        BY <3>1 DEF Walks, ToSink
      <4>2. Visits(p, live') /\ Trail(p, Id, edges')
        BY <2>1, <4>1, VisitsMore
      <4> QED BY <2>2, <4>1, <4>2 DEF ToSink
    <3>2. CASE n = e.from
      <4>1. PICK p : Trail(p, Id, edges) /\ p[1] = e.to /\ p[Len(p)] \in Sinks /\ Visits(p, live)
        BY <2>1 DEF Walks, ToSink
      <4>2. e.from \in Id
        BY <1>a, <2>1 DEF TypeOK
      <4>3. PICK q : Trail(q, Id, edges) /\ q[1] = e.from /\ q[Len(q)] = p[Len(p)] /\ Visits(q, live \cup {e.from})
        BY <2>1, <4>1, <4>2, TrailBefore
      <4>4. Visits(q, live') /\ Trail(q, Id, edges')
        BY <2>1, <4>3
      <4> QED BY <2>2, <3>2, <4>1, <4>3, <4>4 DEF ToSink
    <3> QED BY <2>1, <2>3, <3>1, <3>2
  <2>4. Sinks \subseteq live
    BY <2>1 DEF Walks
  <2> QED BY <2>1, <2>2, <2>3, <2>4 DEF Walks
<1>4. CASE BranchesFound
  <2>1. /\ pc = "live" /\ pc' = "events" /\ evLive' = live /\ UNCHANGED <<live, node, edges, events>>
        /\ \A e \in edges : e.to \in live => e.from \in live
    BY <1>4 DEF BranchesFound
  <2>2. Sinks' = Sinks
    BY <2>1 DEF Sinks, Nodes, IsA
  <2>3. ASSUME NEW n \in evLive' PROVE FromLive(n)'
    <3>1. n \in Names /\ n \in live
      BY <1>a, <2>1
    <3>2. PICK p : Trail(p, Names, events) /\ p[1] = n /\ p[Len(p)] = n /\ \A L : n \in L => Visits(p, L)
      BY <3>1, TrailOne
    <3>3. Visits(p, evLive')
      BY <2>3, <3>2
    <3>4. Trail(p, Names, events')
      BY <2>1, <3>2
    <3> QED BY <2>1, <3>1, <3>2, <3>3, <3>4 DEF FromLive
  <2>4. \A n \in live' : ToSink(n)'
    BY <2>1, <2>2 DEF Walks, ToSink
  <2>5. Sinks \subseteq live
    BY <2>1 DEF Walks
  <2> QED BY <2>1, <2>2, <2>3, <2>4, <2>5 DEF Walks
<1>5. ASSUME NEW e \in Edge, WalkEvent(e) PROVE Walks'
  <2>1. /\ pc = "events" /\ pc' = "events" /\ e \in events /\ e.from \in evLive /\ e.to \notin evLive
        /\ evLive' = evLive \cup {e.to} /\ UNCHANGED <<live, node, edges, events>>
    BY <1>5 DEF WalkEvent
  <2>2. Sinks' = Sinks
    BY <2>1 DEF Sinks, Nodes, IsA
  <2>3. ASSUME NEW n \in evLive' PROVE FromLive(n)'
    <3>1. CASE n \in evLive
      <4>1. PICK p : Trail(p, Names, events) /\ p[1] \in live /\ p[Len(p)] = n /\ Visits(p, evLive)
        BY <3>1 DEF Walks, FromLive
      <4>2. Visits(p, evLive') /\ Trail(p, Names, events')
        BY <2>1, <4>1, VisitsMore
      <4> QED BY <2>1, <4>1, <4>2 DEF FromLive
    <3>2. CASE n = e.to
      <4>1. PICK p : Trail(p, Names, events) /\ p[1] \in live /\ p[Len(p)] = e.from /\ Visits(p, evLive)
        BY <2>1 DEF Walks, FromLive
      <4>2. e.to \in Names
        BY GraphAssumption DEF Names, EdgeDef
      <4>3. PICK q : Trail(q, Names, events) /\ q[1] = p[1] /\ q[Len(q)] = e.to /\ Visits(q, evLive \cup {e.to})
        BY <2>1, <4>1, <4>2, TrailOn
      <4>4. Visits(q, evLive') /\ Trail(q, Names, events')
        BY <2>1, <4>3
      <4> QED BY <2>1, <3>2, <4>1, <4>3, <4>4 DEF FromLive
    <3> QED BY <2>1, <2>3, <3>1, <3>2
  <2>4. \A n \in live' : ToSink(n)'
    BY <2>1, <2>2 DEF Walks, ToSink
  <2>5. Sinks \subseteq live /\ live \subseteq evLive /\ \A f \in edges : f.to \in live => f.from \in live
    BY <2>1 DEF Walks
  <2> QED BY <2>1, <2>2, <2>3, <2>4, <2>5 DEF Walks
<1>6. CASE UNCHANGED <<node, edges, events, live, evLive>>
           /\ (pc' = pc \/ (EventsWalked /\ pc = "events" /\ pc' = "done" /\ Stable))
  <2>1. Sinks' = Sinks /\ (Stable' <=> Stable)
    BY <1>6 DEF Sinks, Nodes, IsA, Stable
  <2>2. \A n : (ToSink(n)' <=> ToSink(n)) /\ (FromLive(n)' <=> FromLive(n))
    BY <1>6, <2>1 DEF ToSink, FromLive
  <2> QED BY <1>6, <2>1, <2>2 DEF Walks
<1>7. CASE EventsWalked
  BY <1>6, <1>7 DEF EventsWalked, planVars
<1>8. CASE ComputeDepth
  BY <1>6, <1>8 DEF ComputeDepth
<1>9. CASE UNCHANGED vars
  BY <1>6, <1>9 DEF vars, planVars
<1>10. CASE AddNode \/ NodesAdded \/ \E e \in Edge : AddEdge(e)
  <2>1. pc \notin {"live", "events", "done"} /\ pc' \notin {"live", "events", "done"} /\ UNCHANGED <<live, evLive>>
    BY <1>10 DEF AddNode, NodesAdded, AddEdge, Fail, planVars
  <2> QED BY <1>1, <2>1 DEF Walks
<1>11. CASE EdgesAdded \/ Pop \/ QueueEmpty
  <2>1. pc \notin {"live", "events", "done"} /\ pc' \notin {"live", "events", "done"} /\ UNCHANGED <<live, evLive>>
    BY <1>11 DEF EdgesAdded, Pop, QueueEmpty, Fail, planVars
  <2> QED BY <1>1, <2>1 DEF Walks
<1> QED BY <1>2, <1>3, <1>4, <1>5, <1>7, <1>8, <1>9, <1>10, <1>11 DEF Next

LEMMA WalksInvariant == Spec => []Walks
<1>1. Init => Walks
  BY DEF Init, Walks
<1>2. IInv /\ Walks /\ [Next]_vars => Walks'
  BY WalksStep
<1> QED BY <1>1, <1>2, Invariance, PTL DEF Spec

(* A path stays in a set that is closed under its edges ... *)
LEMMA PathAhead ==
  ASSUME NEW E, NEW L, \A e \in E : e.from \in L => e.to \in L,
         NEW n \in Nat \ {0}, NEW p, \A i \in 1..(n - 1) : \E e \in E : e.from = p[i] /\ e.to = p[i + 1],
         p[1] \in L
  PROVE  p[n] \in L
<1> DEFINE Bad == {i \in 1..n : p[i] \notin L}
<1>1. CASE Bad = {}
  <2>1. n \in 1..n
    OBVIOUS
  <2> QED BY <1>1, <2>1
<1>2. CASE Bad # {}
  <2>1. PICK m \in Bad : \A k \in Bad : m <= k
    <3>1. Bad \in SUBSET Nat
      OBVIOUS
    <3> HIDE DEF Bad
    <3> QED BY <1>2, <3>1, LeastNatural
  <2>2. m \in 1..n /\ p[m] \notin L /\ m # 1
    OBVIOUS
  <2>3. m - 1 \in 1..(n - 1) /\ (m - 1) + 1 = m /\ m - 1 \in 1..n /\ ~(m <= m - 1)
    BY <2>2
  <2>4. p[m - 1] \in L
    BY <2>1, <2>3
  <2>5. PICK e \in E : e.from = p[m - 1] /\ e.to = p[(m - 1) + 1]
    BY <2>3
  <2> QED BY <2>2, <2>3, <2>4, <2>5
<1> QED BY <1>1, <1>2

(* ... and backward likewise. *)
LEMMA PathBehind ==
  ASSUME NEW E, NEW L, \A e \in E : e.to \in L => e.from \in L,
         NEW n \in Nat \ {0}, NEW p, \A i \in 1..(n - 1) : \E e \in E : e.from = p[i] /\ e.to = p[i + 1],
         p[n] \in L
  PROVE  p[1] \in L
<1> DEFINE Good == {i \in 1..n : p[i] \in L}
<1>1. PICK m \in Good : \A k \in Good : m <= k
  <2>1. Good \in SUBSET Nat /\ n \in Good
    OBVIOUS
  <2> HIDE DEF Good
  <2> QED BY <2>1, LeastNatural
<1>2. m \in 1..n /\ p[m] \in L
  OBVIOUS
<1>3. CASE m = 1
  BY <1>2, <1>3
<1>4. CASE m # 1
  <2>1. m - 1 \in 1..(n - 1) /\ (m - 1) + 1 = m /\ m - 1 \in 1..n /\ ~(m <= m - 1)
    BY <1>2, <1>4
  <2>2. PICK e \in E : e.from = p[m - 1] /\ e.to = p[(m - 1) + 1]
    BY <2>1
  <2>3. m - 1 \in Good
    BY <1>2, <2>1, <2>2
  <2> QED BY <1>1, <2>1, <2>3
<1> QED BY <1>3, <1>4

(* What the two walks find is what the paths lead to. *)
LEMMA WalksFind ==
  ASSUME IInv, Walks, pc = "done"
  PROVE  Useful = live /\ Told = evLive
<1>1. TypeOK /\ Nodes \subseteq Id /\ live \subseteq evLive /\ Sinks \subseteq live /\ Stable
  BY DEF IInv, TypeOK, Walks
<1>2. IsFiniteSet(Id) /\ IsFiniteSet(Names) /\ Cardinality(Id) \in Nat /\ Cardinality(Names) \in Nat
  BY GraphAssumption, FS_AddElement, FS_CardinalityType DEF Names
<1>3. ASSUME NEW S, IsFiniteSet(S), NEW k \in 1..Cardinality(S), NEW p \in [1..k -> S]
      PROVE  k \in Nat \ {0} /\ Len(p) = k
  <2>1. k \in Nat \ {0} /\ p \in Seq(S)
    BY <1>3, FS_CardinalityType, SeqDef
  <2>2. Len(p) \in Nat /\ 1..k = 1..Len(p)
    BY <2>1, LenProperties
  <2> QED BY <2>1, <2>2
<1>4. ASSUME NEW n \in Useful PROVE n \in live
  <2>1. PICK p \in Paths(edges) : p[Len(p)] \in Sinks /\ n = p[1]
    BY DEF Useful
  <2>2. PICK k \in 1..Cardinality(Id) : p \in [1..k -> Id]
    BY DEF Paths
  <2>3. k \in Nat \ {0} /\ Len(p) = k /\ p[k] \in live
    BY <1>1, <1>2, <1>3, <2>1, <2>2
  <2>4. \A i \in 1..(k - 1) : \E e \in edges : e.from = p[i] /\ e.to = p[i + 1]
    BY <2>3 DEF Paths, PathIn
  <2>5. \A e \in edges : e.to \in live => e.from \in live
    BY DEF Walks
  <2>6. p[1] \in live
    <3>1. k \in Nat \ {0} /\ p[k] \in live
      BY <2>3
    <3> QED BY <2>4, <2>5, <3>1, PathBehind
  <2> QED BY <2>1, <2>6
<1>5. ASSUME NEW n \in live PROVE n \in Useful
  <2>1. PICK p : Trail(p, Id, edges) /\ p[1] = n /\ p[Len(p)] \in Sinks
    BY DEF Walks, ToSink
  <2>2. PICK k \in 1..Cardinality(Id) : p \in [1..k -> Id]
    BY <1>2, <2>1, TrailShort
  <2>3. p \in Paths(edges)
    BY <2>1, <2>2 DEF Paths, Trail
  <2> QED BY <2>1, <2>3 DEF Useful
<1>6. Useful = live
  BY <1>4, <1>5
<1>7. ASSUME NEW n \in Told PROVE n \in evLive
  <2>1. PICK p \in Chains : p[1] \in live /\ n = p[Len(p)]
    BY <1>6 DEF Told
  <2>2. PICK k \in 1..Cardinality(Names) : p \in [1..k -> Names]
    BY DEF Chains
  <2>3. k \in Nat \ {0} /\ Len(p) = k /\ p[1] \in evLive
    BY <1>1, <1>2, <1>3, <2>1, <2>2
  <2>4. \A i \in 1..(k - 1) : \E e \in events : e.from = p[i] /\ e.to = p[i + 1]
    BY <2>3 DEF Chains, PathIn
  <2>5. \A e \in events : e.from \in evLive => e.to \in evLive
    BY <1>1 DEF Stable
  <2>6. p[k] \in evLive
    <3>1. k \in Nat \ {0} /\ p[1] \in evLive
      BY <2>3
    <3> QED BY <2>4, <2>5, <3>1, PathAhead
  <2> QED BY <2>1, <2>3, <2>6
<1>8. ASSUME NEW n \in evLive PROVE n \in Told
  <2>1. PICK p : Trail(p, Names, events) /\ p[1] \in live /\ p[Len(p)] = n
    BY DEF Walks, FromLive
  <2>2. PICK k \in 1..Cardinality(Names) : p \in [1..k -> Names]
    BY <1>2, <2>1, TrailShort
  <2>3. p \in Chains
    BY <2>1, <2>2 DEF Chains, Trail
  <2> QED BY <1>6, <2>1, <2>3 DEF Told
<1> QED BY <1>6, <1>7, <1>8

(* Nobody is told that a node's results are discarded when they reach an    *)
(* output, as frames or as events; and a filter or an encoder whose results *)
(* reach nothing is told of, in a graph of any size.                        *)
THEOREM WarnsOfWaste == Spec => []DeadIsWasted
<1>1. ASSUME IInv, Walks PROVE DeadIsWasted
  <2> SUFFICES ASSUME pc = "done"
               PROVE  LET heeded == Useful \cup Told IN
                      /\ DeadNode \cap heeded = {}
                      /\ \A n \in Nodes \ heeded :
                            IsA(n, {"filter", "encoder"}) /\ ~Excused(n) => n \in DeadNode
    BY DEF DeadIsWasted
  <2>1. Useful = live /\ Told = evLive
    BY <1>1, WalksFind
  <2>2. \A n : IsA(n, {"filter", "encoder"}) => ~IsA(n, {"go_processor"})
    BY DEF IsA
  <2> QED BY <2>1, <2>2 DEF DeadNode
<1> QED BY <1>1, Invariance, WalksInvariant, PTL

(* A configuration Validate accepts: every filter and encoder has a path to *)
(* an output, and the engine, which looks by other rules, warns of none; the *)
(* inputs it warns of feed events alone.                                    *)
THEOREM AcceptedRunsSound == Spec => []AcceptedIsSound
<1>1. ASSUME IInv, Walks PROVE AcceptedIsSound
  <2> SUFFICES ASSUME pc = "done", Accepted
               PROVE  /\ \A n \in Nodes : IsA(n, {"filter", "encoder"}) => n \in Useful \ DeadNode
                      /\ \A n \in DisconnectedSource : \E e \in events : e.from = n
    BY DEF AcceptedIsSound
  <2>1. \A n \in Nodes : IsA(n, {"filter", "encoder"}) => n \in live
    BY DEF Accepted, Unreachable
  <2>2. Useful = live
    BY <1>1, WalksFind
  <2>3. live \cap DeadNode = {}
    BY DEF DeadNode
  <2>4. ASSUME NEW n \in DisconnectedSource PROVE \E e \in events : e.from = n
    <3>1. n \in Sources /\ OutOf(n) = {} /\ ~node[n].clip
      BY DEF DisconnectedSource, Excused
    <3> QED BY <3>1 DEF Accepted, Dangling
  <2> QED BY <2>1, <2>2, <2>3, <2>4
<1> QED BY <1>1, Invariance, WalksInvariant, PTL
=============================================================================
