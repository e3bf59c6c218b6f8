------------------------- MODULE OutputBufferProofs -------------------------
(***************************************************************************)
(* Proofs about OutputBuffer, for any outputs, channels and streams.  The  *)
(* packets a channel has given stand in one line, oldest first: those the   *)
(* handler took out of the buffer, those in the buffer, the one that came   *)
(* too late for it, the one in the goroutine's hand, those still upstream.  *)
(***************************************************************************)
EXTENDS OutputBuffer, FiniteSetTheorems, SequenceTheorems,
        WellFoundedInduction, TLAPS

Of(p) == OutOf[p[1]]
Before(p, q) == p[1] = q[1] => p[2] < q[2]
Ascends(b) == \A i, j \in DOMAIN b : i < j => Before(b[i], b[j])

(* TypeOK without the bound on eos, which follows from Ends. *)
Typed ==
    /\ next \in [Chan -> Nat \ {0}] /\ cut \in BOOLEAN
    /\ gor \in [Chan -> {"fill", "filling", "filled", "produce", "enqueuing",
                         "waking", "lastwake", "ended"}]
    /\ hand \in [Chan -> Maybe(Packet)] /\ leftover \in [Chan -> Maybe(Packet)]
    /\ buf \in [Output -> Seq(Packet)] /\ state \in [Output -> States]
    /\ ready \in [Output -> BOOLEAN] /\ notify \in [Output -> BOOLEAN]
    /\ eos \in [Output -> Nat] /\ graph \in {"waiting", "ready", "stopped"}
    /\ pc \in [Output -> {"fill", "graph", "flush", "join", "roll", "write",
                          "idle", "returned"}]
    /\ item \in [Output -> Seq(Packet)]
    /\ ret \in [Output -> {"nil", "err", "ctx"}]
    /\ fate \in [Packet -> {"upstream", "alive", "written", "evicted", "closed", "lost"}]
    /\ cancelled \in BOOLEAN /\ outside \in BOOLEAN

(* The line. *)
Waits(p) == /\ p[2] < next[p[1]]
            /\ hand[p[1]] # None \/ leftover[p[1]] # None => p[2] < next[p[1]] - 1
QueueLine(o) ==
    /\ Ascends(buf[o]) /\ Ascends(item[o])
    /\ \A p \in Members(buf[o]) \cup Members(item[o]) : Of(p) = o /\ Waits(p)
    /\ \A p \in Members(item[o]), q \in Members(buf[o]) : Before(p, q)
ChanLine(c) ==
    /\ hand[c] # None <=> gor[c] \in {"filling", "enqueuing"}
    /\ hand[c] # None => hand[c] = <<c, next[c] - 1>>
    /\ leftover[c] # None => gor[c] = "filled" /\ leftover[c] = <<c, next[c] - 1>>
Lined == (\A o \in Output : QueueLine(o)) /\ (\A c \in Chan : ChanLine(c))

(* A packet is alive where it is, and nothing alive is older than what was *)
(* written.                                                                *)
InPlace(p) == \/ hand[p[1]] = p \/ leftover[p[1]] = p
              \/ p \in Members(buf[Of(p)]) \/ p \in Members(item[Of(p)])
Placed == \A p \in Packet : /\ fate[p] = "alive" <=> InPlace(p)
                            /\ fate[p] = "upstream" <=> p[2] >= next[p[1]]
OldestFirst == \A p, q \in Packet :
    p[1] = q[1] /\ fate[p] = "alive" /\ fate[q] = "written" => q[2] < p[2]

(* What the gate has let through. *)
Gate == /\ graph = "ready" => \A o \in Output : ready[o]
        /\ \A o \in Output : pc[o] \in {"flush", "join", "roll", "write", "idle"} => graph = "ready"
        /\ \A p \in Packet : fate[p] = "written" => graph = "ready"

(* The handler of an output and the goroutines of its channels. *)
Filling == {"fill", "filling", "filled"}
Phases == \A o \in Output :
    /\ pc[o] \notin {"flush", "write"} => item[o] = <<>>
    /\ pc[o] = "write" => Len(item[o]) = 1
    /\ pc[o] \in {"flush", "join"} => buf[o] = <<>> /\ state[o] = "STREAMING"
    /\ pc[o] \in {"fill", "graph", "flush", "join"} => \A c \in Chans(o) : gor[c] \in Filling
    /\ pc[o] \in {"roll", "write", "idle"} => \A c \in Chans(o) : gor[c] \notin Filling

(* An output that is done has seen the end of all its channels, and nothing *)
(* is given up before somebody has cancelled.                              *)
Told(o) == {c \in Chans(o) : gor[c] \in {"lastwake", "ended"}}
Ends ==
    /\ \A c \in Chan : gor[c] \in {"lastwake", "ended"} => AtEnd(c)
    /\ cut => cancelled
    /\ \A o \in Output : ret[o] # "nil" => cancelled
    /\ \A p \in Packet : fate[p] \in {"closed", "lost"} => cancelled
    /\ \A o \in Output : eos[o] = Cardinality(Told(o))
    /\ \A o \in Output : pc[o] = "returned" /\ ~cancelled => buf[o] = <<>> /\ Told(o) = Chans(o)

Order == Lined /\ Placed /\ OldestFirst
IInv == Typed /\ Order /\ Gate /\ Phases /\ Ends

(***************************************************************************)
(* Packets, and what remains of a sequence of them.                        *)
(***************************************************************************)
(* A packet is its channel and its number. *)
LEMMA PacketPair ==
  ASSUME NEW p \in Packet
  PROVE  /\ p[1] \in Chan /\ p[2] \in Nat \ {0} /\ p[2] \in DOMAIN Feed[p[1]]
         /\ p = <<p[1], p[2]>> /\ Of(p) \in Output /\ p[1] \in Chans(Of(p)) /\ p # None
<1>1. PICK c \in Chan : \E i \in DOMAIN Feed[c] : p = <<c, i>>
  BY DEF Packet
<1>3. PICK i \in DOMAIN Feed[c] : p = <<c, i>>
  BY <1>1
<1>2. DOMAIN Feed[c] = 1..Len(Feed[c]) /\ Len(Feed[c]) \in Nat
  BY FeedAssumption, LenProperties
<1>4. p[1] = c /\ p[2] = i /\ p = <<p[1], p[2]>> /\ i \in Nat \ {0}
  BY <1>2, <1>3
<1>5. OutOf[c] \in Output /\ p # None
  BY FeedAssumption, CapAssumption
<1> QED BY <1>3, <1>4, <1>5 DEF Of, Chans

LEMMA SamePacket ==
  ASSUME NEW p \in Packet, NEW q \in Packet, p[1] = q[1], p[2] = q[2]
  PROVE  p = q
BY PacketPair

(* A set of naturals that is not empty has a least element. *)
LEMMA LeastNatural ==
  ASSUME NEW S \in SUBSET Nat, S # {}
  PROVE  Min(S) \in S
<1> DEFINE R == StrictSubsetOrdering(Nat)
           T == {0..k : k \in S}
<1>1. IsWellFoundedOn(R, FiniteSubsetsOf(Nat))
  BY FS_StrictSubsetOrderingWellFounded
<1>2. T \subseteq FiniteSubsetsOf(Nat) /\ T # {}
  <2>1. ASSUME NEW k \in S PROVE 0..k \in SUBSET Nat /\ IsFiniteSet(0..k)
    BY FS_Interval
  <2> QED BY <2>1 DEF FiniteSubsetsOf
<1>3. PICK x \in T : \A y \in T : ~(<<y, x>> \in R)
  <2> HIDE DEF R, T
  <2> QED BY <1>1, <1>2, WFMin
<1>4. PICK m \in S : x = 0..m
  BY <1>3
<1>5. ASSUME NEW k \in S, k < m PROVE FALSE
  <2>1. 0..k \subseteq 0..m /\ m \in 0..m /\ m \notin 0..k
    BY <1>5
  <2>2. <<0..k, 0..m>> \in R
    BY <2>1, <1>5 DEF StrictSubsetOrdering
  <2> QED BY <2>2, <1>3, <1>4
<1>6. \A k \in S : m <= k
  BY <1>5
<1> QED BY <1>6 DEF Min

(* Appending, taking the first, and removing one. *)
LEMMA AppendLine ==
  ASSUME NEW b \in Seq(Packet), NEW p \in Packet, Ascends(b),
         \A q \in Members(b) : Before(q, p)
  PROVE  /\ Append(b, p) \in Seq(Packet) /\ Append(b, p) # <<>> /\ Ascends(Append(b, p))
         /\ Members(Append(b, p)) = Members(b) \cup {p}
<1>1. /\ Append(b, p) \in Seq(Packet) /\ Len(Append(b, p)) = Len(b) + 1 /\ Len(b) \in Nat
      /\ \A i \in 1..Len(b) : Append(b, p)[i] = b[i]
      /\ Append(b, p)[Len(b) + 1] = p /\ Append(b, p) # <<>>
  BY AppendProperties, LenProperties
<1>2. DOMAIN b = 1..Len(b) /\ DOMAIN Append(b, p) = 1..(Len(b) + 1)
  BY <1>1, LenProperties
<1>3. \A i \in DOMAIN Append(b, p) : i \in DOMAIN b \/ i = Len(b) + 1
  BY <1>1, <1>2
<1>4. Members(Append(b, p)) = Members(b) \cup {p}
  BY <1>1, <1>2, <1>3 DEF Members
<1>5. Ascends(Append(b, p))
  <2> SUFFICES ASSUME NEW i \in DOMAIN Append(b, p), NEW j \in DOMAIN Append(b, p), i < j
               PROVE  Before(Append(b, p)[i], Append(b, p)[j])
    BY DEF Ascends
  <2>1. i \in DOMAIN b
    BY <1>1, <1>2, <1>3
  <2>2. CASE j \in DOMAIN b
    BY <1>1, <1>2, <2>1, <2>2 DEF Ascends
  <2>3. CASE j = Len(b) + 1
    BY <1>1, <1>2, <2>1, <2>3 DEF Members
  <2> QED BY <1>3, <2>2, <2>3
<1> QED BY <1>1, <1>4, <1>5

LEMMA TailLine ==
  ASSUME NEW b \in Seq(Packet), b # <<>>, Ascends(b)
  PROVE  /\ Head(b) \in Packet /\ Head(b) \in Members(b)
         /\ Tail(b) \in Seq(Packet) /\ Ascends(Tail(b)) /\ Len(Tail(b)) = Len(b) - 1
         /\ Members(Tail(b)) = Members(b) \ {Head(b)}
         /\ \A q \in Members(Tail(b)) : Before(Head(b), q)
<1>1. Len(b) \in Nat \ {0} /\ DOMAIN b = 1..Len(b)
  BY EmptySeq, LenProperties
<1>2. /\ Tail(b) \in Seq(Packet) /\ Head(b) \in Packet /\ Len(Tail(b)) = Len(b) - 1
      /\ \A i \in 1..Len(Tail(b)) : Tail(b)[i] = b[i + 1]
  BY HeadTailProperties
<1>3. DOMAIN Tail(b) = 1..(Len(b) - 1)
  BY <1>2, LenProperties
<1>4. Head(b) = b[1] /\ 1 \in DOMAIN b
  BY <1>1
<1>5. \A i \in DOMAIN Tail(b) : Tail(b)[i] = b[i + 1] /\ i + 1 \in DOMAIN b /\ 1 < i + 1
  BY <1>1, <1>2, <1>3
<1>6. \A i \in DOMAIN b : i = 1 \/ (i - 1 \in DOMAIN Tail(b) /\ (i - 1) + 1 = i)
  BY <1>1, <1>3
<1>7. \A q \in Members(Tail(b)) : Before(Head(b), q)
  BY <1>4, <1>5 DEF Ascends, Members
<1>8. Ascends(Tail(b))
  <2> SUFFICES ASSUME NEW i \in DOMAIN Tail(b), NEW j \in DOMAIN Tail(b), i < j
               PROVE  Before(Tail(b)[i], Tail(b)[j])
    BY DEF Ascends
  <2>1. i + 1 < j + 1
    BY <1>1, <1>3
  <2> QED BY <1>5, <2>1 DEF Ascends
<1>9. \A q \in Members(Tail(b)) : q # Head(b) /\ q \in Packet
  <2>1. ASSUME NEW q \in Members(Tail(b)) PROVE q \in Packet
    BY <1>2, <1>3, <1>5, ElementOfSeq, <1>1 DEF Members
  <2>2. ASSUME NEW q \in Members(Tail(b)), q = Head(b) PROVE FALSE
    <3>1. q[2] < q[2] /\ q[2] \in Nat
      BY <1>7, <2>1, <2>2, PacketPair DEF Before
    <3> QED BY <3>1
  <2> QED BY <2>1, <2>2
<1>10. Members(Tail(b)) = Members(b) \ {Head(b)}
  <2>1. Members(Tail(b)) \subseteq Members(b)
    BY <1>5 DEF Members
  <2>2. Members(b) \subseteq Members(Tail(b)) \cup {Head(b)}
    BY <1>4, <1>5, <1>6 DEF Members
  <2> QED BY <2>1, <2>2, <1>9
<1> QED BY <1>2, <1>4, <1>7, <1>8, <1>10 DEF Members

LEMMA RemoveLine ==
  ASSUME NEW b \in Seq(Packet), Ascends(b), NEW k \in DOMAIN b
  PROVE  /\ Remove(b, k) \in Seq(Packet) /\ Ascends(Remove(b, k))
         /\ Members(Remove(b, k)) = Members(b) \ {b[k]}
<1> DEFINE r == Remove(b, k)
           At(i) == IF i < k THEN i ELSE i + 1
<1>1. Len(b) \in Nat /\ DOMAIN b = 1..Len(b) /\ k \in 1..Len(b)
  BY LenProperties
<1> DEFINE l == SubSeq(b, 1, k - 1)
           h == SubSeq(b, k + 1, Len(b))
<1>2. l \in Seq(Packet) /\ Len(l) = k - 1 /\ \A i \in 1..(k - 1) : l[i] = b[i]
  <2>1. /\ 1 \in Int /\ k - 1 \in Int
        /\ \A i \in 1..(k - 1) : 1 + i - 1 = i /\ b[i] \in Packet
        /\ (1 <= k - 1 \/ k - 1 = 0) /\ (k - 1) - 1 + 1 = k - 1
    BY <1>1, ElementOfSeq
  <2>2. /\ l \in Seq(Packet) /\ Len(l) = IF 1 <= k - 1 THEN (k - 1) - 1 + 1 ELSE 0
        /\ \A i \in 1..((k - 1) - 1 + 1) : l[i] = b[1 + i - 1]
    BY <2>1, SubSeqProperties
  <2> QED BY <2>1, <2>2
<1>3. h \in Seq(Packet) /\ Len(h) = Len(b) - k /\ \A i \in 1..(Len(b) - k) : h[i] = b[k + i]
  <2>1. PICK j \in Int : j = k + 1
    BY <1>1
  <2> DEFINE n == Len(b)
  <2>2. n \in Int
    BY <1>1
  <2>3. \A i \in j..n : b[i] \in Packet
    BY <1>1, <2>1, <2>2, ElementOfSeq
  <2>4. /\ SubSeq(b, j, n) \in Seq(Packet) /\ Len(SubSeq(b, j, n)) = IF j <= n THEN n - j + 1 ELSE 0
        /\ \A i \in 1..(n - j + 1) : SubSeq(b, j, n)[i] = b[j + i - 1]
    <3> HIDE DEF n
    <3> QED BY <2>2, <2>3, SubSeqProperties
  <2>5. h = SubSeq(b, j, n)
    BY <2>1, <2>2
  <2>6. n - j + 1 = n - k /\ (j <= n \/ n - k = 0)
    BY <1>1, <2>1, <2>2
  <2>7. h \in Seq(Packet) /\ Len(h) = Len(b) - k
    BY <1>1, <2>2, <2>4, <2>5, <2>6
  <2>8. ASSUME NEW i \in 1..(Len(b) - k) PROVE h[i] = b[k + i]
    <3>1. h[i] = b[j + i - 1]
      BY <2>4, <2>5, <2>6
    <3>2. j + i - 1 = k + i
      BY <1>1, <2>1
    <3> QED BY <3>1, <3>2
  <2> QED BY <2>7, <2>8
<1>4. /\ r \in Seq(Packet) /\ Len(r) = Len(b) - 1
      /\ \A i \in 1..(Len(b) - 1) : r[i] = IF i <= k - 1 THEN l[i] ELSE h[i - (k - 1)]
  <2>1. (k - 1) + (Len(b) - k) = Len(b) - 1
    BY <1>1
  <2>2. r = l \o h
    BY DEF Remove
  <2> HIDE DEF r, l, h
  <2>3. /\ l \o h \in Seq(Packet) /\ Len(l \o h) = Len(l) + Len(h)
        /\ \A i \in 1..(Len(l) + Len(h)) : (l \o h)[i] = IF i <= Len(l) THEN l[i] ELSE h[i - Len(l)]
    BY <1>2, <1>3, ConcatProperties
  <2> QED BY <1>2, <1>3, <2>1, <2>2, <2>3
<1> HIDE DEF r, l, h
<1>5. DOMAIN r = 1..(Len(b) - 1)
  BY <1>4, LenProperties
<1>6. \A i \in DOMAIN r : r[i] = b[At(i)] /\ At(i) \in DOMAIN b /\ At(i) # k
  <2> SUFFICES ASSUME NEW i \in 1..(Len(b) - 1)
               PROVE  r[i] = b[At(i)] /\ At(i) \in DOMAIN b /\ At(i) # k
    BY <1>5
  <2>1. CASE i < k
    <3>1. i \in 1..(k - 1) /\ i <= k - 1
      BY <1>1, <2>1
    <3> QED BY <1>1, <1>2, <1>4, <2>1, <3>1
  <2>2. CASE ~(i < k)
    <3>1. ~(i <= k - 1) /\ i - (k - 1) \in 1..(Len(b) - k) /\ k + (i - (k - 1)) = i + 1
      BY <1>1, <2>2
    <3>2. r[i] = b[i + 1]
      BY <1>3, <1>4, <3>1
    <3> QED BY <1>1, <2>2, <3>2
  <2> QED BY <2>1, <2>2
<1>7. \A i, j \in DOMAIN r : i < j => At(i) < At(j)
  BY <1>1, <1>5
<1>8. \A m \in DOMAIN b : m = k \/ \E i \in DOMAIN r : At(i) = m
  <2> SUFFICES ASSUME NEW m \in 1..Len(b), m # k PROVE \E i \in 1..(Len(b) - 1) : At(i) = m
    BY <1>1, <1>5
  <2>1. CASE m < k
    BY <1>1, <2>1
  <2>2. CASE m > k
    <3>1. m - 1 \in 1..(Len(b) - 1) /\ ~(m - 1 < k) /\ (m - 1) + 1 = m
      BY <1>1, <2>2
    <3> QED BY <3>1
  <2> QED BY <1>1, <2>1, <2>2
<1> HIDE DEF At
<1>9. Ascends(r)
  BY <1>6, <1>7 DEF Ascends
<1>10. \A i, j \in DOMAIN b : b[i] = b[j] => i = j
  <2> SUFFICES ASSUME NEW i \in DOMAIN b, NEW j \in DOMAIN b, i < j, b[i] = b[j] PROVE FALSE
    BY <1>1
  <2>1. b[i] \in Packet /\ Before(b[i], b[i])
    BY <1>1, ElementOfSeq DEF Ascends
  <2>2. b[i][2] < b[i][2] /\ b[i][2] \in Nat
    BY <2>1, PacketPair DEF Before
  <2> QED BY <2>2
<1>11. Members(r) = Members(b) \ {b[k]}
  <2>1. Members(r) \subseteq Members(b) \ {b[k]}
    BY <1>6, <1>10 DEF Members
  <2>2. Members(b) \ {b[k]} \subseteq Members(r)
    BY <1>6, <1>8 DEF Members
  <2> QED BY <2>1, <2>2
<1> QED BY <1>4, <1>9, <1>11 DEF r

(* Eviction leaves a suffix. *)
LEMMA EvictLine ==
  ASSUME NEW o, NEW b \in Seq(Packet), b # <<>>, Ascends(b)
  PROVE  /\ Evict(o, b) \in Seq(Packet) /\ Ascends(Evict(o, b))
         /\ Members(Evict(o, b)) \subseteq Members(b)
<1> DEFINE fits == {k \in DOMAIN b : k = Len(b) \/ Span(SubSeq(b, k, Len(b))) <= MaxDur[o]}
           m == Min(fits)
<1>1. Len(b) \in Nat \ {0} /\ DOMAIN b = 1..Len(b)
  BY EmptySeq, LenProperties
<1>2. m \in DOMAIN b
  <2>1. fits \in SUBSET Nat /\ Len(b) \in fits /\ fits \subseteq DOMAIN b
    BY <1>1
  <2> HIDE DEF fits
  <2>2. fits # {}
    BY <2>1
  <2>3. Min(fits) \in fits
    BY <2>1, <2>2, LeastNatural
  <2> QED BY <2>1, <2>3
<1>3. Evict(o, b) = SubSeq(b, m, Len(b))
  BY DEF Evict
<1> HIDE DEF m
<1> DEFINE r == SubSeq(b, m, Len(b))
<1>4. m \in 1..Len(b)
  BY <1>1, <1>2
<1>5. r \in Seq(Packet) /\ Len(r) = Len(b) - m + 1 /\ \A i \in 1..(Len(b) - m + 1) : r[i] = b[m + i - 1]
  BY <1>1, <1>4, SubSeqProperties
<1>6. DOMAIN r = 1..(Len(b) - m + 1)
  BY <1>5, LenProperties
<1>7. \A i \in DOMAIN r : r[i] = b[m + i - 1] /\ m + i - 1 \in DOMAIN b
  BY <1>1, <1>4, <1>5, <1>6
<1> HIDE DEF r
<1>8. \A i, j \in DOMAIN r : i < j => m + i - 1 < m + j - 1
  BY <1>4, <1>6, <1>1
<1>9. Ascends(r)
  BY <1>7, <1>8 DEF Ascends
<1>10. Members(r) \subseteq Members(b)
  BY <1>7 DEF Members
<1> QED BY <1>3, <1>5, <1>9, <1>10 DEF r

(* The packet with the lowest timestamp is the oldest of its channel. *)
LEMMA LowestKey ==
  ASSUME NEW b \in Seq(Packet), b # <<>>, Ascends(b)
  PROVE  /\ MinKey(b) \in DOMAIN b
         /\ \A j \in DOMAIN b : j # MinKey(b) => Before(b[MinKey(b)], b[j])
<1> DEFINE Less(i, j) == Key(b[i]) < Key(b[j]) \/ (Key(b[i]) = Key(b[j]) /\ i < j)
           D(k) == {j \in DOMAIN b : Less(j, k)}
           T == {D(k) : k \in DOMAIN b}
           R == StrictSubsetOrdering(Nat)
           First(i) == \A j \in DOMAIN b :
                          Key(b[i]) < Key(b[j]) \/ (Key(b[i]) = Key(b[j]) /\ i <= j)
<1>1. Len(b) \in Nat \ {0} /\ DOMAIN b = 1..Len(b)
  BY EmptySeq, LenProperties
<1>2. \A i \in DOMAIN b : b[i] \in Packet
  BY <1>1, ElementOfSeq
<1>3. \A p \in Packet : Key(p) \in Int
  <2> SUFFICES ASSUME NEW p \in Packet PROVE Key(p) \in Int
    OBVIOUS
  <2>1. p[1] \in Chan /\ p[2] \in DOMAIN Feed[p[1]] /\ p = <<p[1], p[2]>>
    BY PacketPair
  <2>2. Feed[p[1]][p[2]] \in [dts : Stamp, pts : Stamp]
    BY <2>1, FeedAssumption, ElementOfSeq, LenProperties
  <2>3. Key(p) # NoTs
    BY <2>1, FeedAssumption
  <2> QED BY <2>2, <2>3 DEF Key, Dts, Pts, Stamp
<1>4. \A i \in DOMAIN b : Key(b[i]) \in Int /\ i \in Nat
  BY <1>1, <1>2, <1>3
<1>5. \A p, q \in Packet : p[1] = q[1] /\ p[2] < q[2] => Key(p) <= Key(q)
  <2> SUFFICES ASSUME NEW p \in Packet, NEW q \in Packet, p[1] = q[1], p[2] < q[2]
               PROVE  Key(p) <= Key(q)
    OBVIOUS
  <2>1. p[2] <= q[2] /\ p = <<p[1], p[2]>> /\ q = <<p[1], q[2]>>
    BY PacketPair
  <2>2. p[1] \in Chan /\ p[2] \in DOMAIN Feed[p[1]] /\ q[2] \in DOMAIN Feed[p[1]]
    BY PacketPair
  <2>3. Key(<<p[1], p[2]>>) <= Key(<<p[1], q[2]>>)
    BY <2>1, <2>2, FeedAssumption
  <2> QED BY <2>1, <2>3
<1>6. \E m \in DOMAIN b : First(m)
  <2>1. IsWellFoundedOn(R, FiniteSubsetsOf(Nat))
    BY FS_StrictSubsetOrderingWellFounded
  <2>2. T \subseteq FiniteSubsetsOf(Nat) /\ T # {}
    <3>1. IsFiniteSet(DOMAIN b) /\ DOMAIN b \subseteq Nat /\ 1 \in DOMAIN b
      BY <1>1, FS_Interval
    <3>2. ASSUME NEW k \in DOMAIN b PROVE D(k) \in SUBSET Nat /\ IsFiniteSet(D(k))
      BY <3>1, FS_Subset
    <3> QED BY <3>1, <3>2 DEF FiniteSubsetsOf
  <2>3. PICK x \in T : \A y \in T : ~(<<y, x>> \in R)
    <3> HIDE DEF R, T
    <3> QED BY <2>1, <2>2, WFMin
  <2>4. PICK m \in DOMAIN b : x = D(m)
    BY <2>3
  <2>5. ASSUME NEW j \in DOMAIN b, Less(j, m) PROVE FALSE
    <3>1. \A i \in DOMAIN b : Less(i, j) => Less(i, m)
      BY <1>4, <2>5
    <3>2. ~Less(j, j)
      BY <1>4
    <3> HIDE DEF Less
    <3>3. D(j) \subseteq D(m) /\ D(j) # D(m) /\ D(m) \subseteq Nat
      BY <1>4, <2>5, <3>1, <3>2
    <3>4. <<D(j), D(m)>> \in R
      BY <3>3 DEF StrictSubsetOrdering
    <3> QED BY <2>3, <2>4, <3>4
  <2>6. First(m)
    BY <1>4, <2>5
  <2> QED BY <2>6
<1>7. MinKey(b) \in DOMAIN b /\ First(MinKey(b))
  BY <1>6 DEF MinKey
<1> DEFINE i == MinKey(b)
<1> HIDE DEF i
<1>8. i \in DOMAIN b /\ First(i)
  BY <1>7 DEF i
<1>9. ASSUME NEW j \in DOMAIN b, j # i PROVE Before(b[i], b[j])
  <2>1. CASE i < j
    BY <1>8, <2>1 DEF Ascends
  <2>2. CASE j < i
    <3>1. Before(b[j], b[i])
      BY <1>8, <2>2 DEF Ascends
    <3>2. ~(Key(b[j]) <= Key(b[i]))
      BY <1>4, <1>8, <2>2
    <3>3. b[i][1] # b[j][1]
      BY <1>2, <1>5, <1>8, <3>1, <3>2 DEF Before
    <3> QED BY <3>3 DEF Before
  <2> QED BY <1>4, <1>8, <1>9, <2>1, <2>2
<1> QED BY <1>8, <1>9 DEF i

(***************************************************************************)
(* The line, action by action.                                             *)
(***************************************************************************)
LEMMA MembersArePackets ==
  ASSUME NEW b \in Seq(Packet)
  PROVE  Members(b) \subseteq Packet
BY ElementOfSeq, LenProperties DEF Members

LEMMA NoMembers == Ascends(<<>>) /\ Members(<<>>) = {} /\ <<>> \in Seq(Packet)
<1>1. DOMAIN <<>> = {} /\ <<>> \in Seq(Packet)
  BY EmptySeq, LenProperties
<1> QED BY <1>1 DEF Ascends, Members

(* No packet is in two places. *)
LEMMA Apart ==
  ASSUME Typed, Order, NEW p \in Packet
  PROVE  /\ hand[p[1]] = p => leftover[p[1]] # p
         /\ hand[p[1]] = p \/ leftover[p[1]] = p =>
               p \notin Members(buf[Of(p)]) /\ p \notin Members(item[Of(p)])
         /\ ~(p \in Members(buf[Of(p)]) /\ p \in Members(item[Of(p)]))
<1>1. p[1] \in Chan /\ p[2] \in Nat /\ p # None /\ Of(p) \in Output
  BY PacketPair
<1>2. ChanLine(p[1]) /\ QueueLine(Of(p))
  BY <1>1 DEF Order, Lined
<1>3. hand[p[1]] = p => leftover[p[1]] # p
  BY <1>1, <1>2 DEF ChanLine
<1>4. ASSUME hand[p[1]] = p \/ leftover[p[1]] = p PROVE ~Waits(p)
  <2>1. p = <<p[1], next[p[1]] - 1>>
    BY <1>1, <1>2, <1>4 DEF ChanLine
  <2>2. p[2] = next[p[1]] - 1 /\ next[p[1]] \in Nat
    BY <1>1, <2>1 DEF Typed
  <2>3. ~(p[2] < next[p[1]] - 1)
    BY <1>1, <2>2
  <2> QED BY <1>1, <1>4, <2>3 DEF Waits
<1>5. ~(p \in Members(buf[Of(p)]) /\ p \in Members(item[Of(p)]))
  <2> SUFFICES ASSUME p \in Members(buf[Of(p)]), p \in Members(item[Of(p)]) PROVE FALSE
    OBVIOUS
  <2>1. p[2] < p[2]
    BY <1>2 DEF QueueLine, Before
  <2> QED BY <1>1, <2>1
<1> QED BY <1>2, <1>3, <1>4, <1>5 DEF QueueLine

(* A step that takes nothing from upstream and hands nothing over. *)
LEMMA WaitsOn ==
  ASSUME Typed, UNCHANGED next, NEW p \in Packet, Waits(p),
         hand'[p[1]] # None \/ leftover'[p[1]] # None => hand[p[1]] # None \/ leftover[p[1]] # None
  PROVE  Waits(p)'
BY DEF Waits

LEMMA PushOrder ==
  ASSUME Typed, Order, NEW c \in Chan, NEW g \in {"fill", "waking"},
         gor[c] \in {"filling", "enqueuing"}, Push(OutOf[c], hand[c]),
         hand' = [hand EXCEPT ![c] = None], gor' = [gor EXCEPT ![c] = g],
         UNCHANGED <<next, leftover, item>>
  PROVE  /\ buf' \in [Output -> Seq(Packet)]
         /\ fate' \in [Packet -> {"upstream", "alive", "written", "evicted", "closed", "lost"}]
         /\ \A q \in Packet : fate'[q] = fate[q] \/ fate'[q] = "evicted"
         /\ Order'
<1> DEFINE o == OutOf[c]
<1>1. o \in Output /\ buf[o] \in Seq(Packet) /\ item[o] \in Seq(Packet)
  BY FeedAssumption DEF Typed
<1>2. ChanLine(c) /\ QueueLine(o) /\ hand[c] # None /\ hand[c] = <<c, next[c] - 1>> /\ leftover[c] = None
  BY <1>1 DEF Order, Lined, ChanLine
<1>0. PICK p \in Packet : p = hand[c]
  BY <1>2 DEF Typed, Maybe
<1> DEFINE b == Append(buf[o], p)
           e == Evict(o, b)
           M == Members(buf[o])
<1>3. p[1] = c /\ p[2] = next[c] - 1 /\ Of(p) = o /\ next[c] \in Nat \ {0}
  BY <1>2, <1>0 DEF Typed, Of
<1>4. M \subseteq Packet /\ Members(item[o]) \subseteq Packet
  BY <1>1, MembersArePackets
<1>5. \A q \in M \cup Members(item[o]) : Before(q, p) /\ q # p
  <2> SUFFICES ASSUME NEW q \in M \cup Members(item[o]) PROVE Before(q, p) /\ q # p
    OBVIOUS
  <2>1. q \in Packet /\ Waits(q)
    BY <1>2, <1>4 DEF QueueLine
  <2>2. q[1] = c => q[2] < next[c] - 1
    BY <1>2, <2>1 DEF Waits
  <2>3. next[c] - 1 \in Int /\ ~(next[c] - 1 < next[c] - 1)
    BY <1>3
  <2> QED BY <1>3, <2>2, <2>3 DEF Before
<1>6. /\ b \in Seq(Packet) /\ b # <<>> /\ Ascends(b) /\ Members(b) = M \cup {p}
  BY <1>1, <1>2, <1>3, <1>5, AppendLine DEF QueueLine
<1>7. e \in Seq(Packet) /\ Ascends(e) /\ Members(e) \subseteq M \cup {p}
  <2> HIDE DEF b
  <2> QED BY <1>1, <1>6, EvictLine
<1>8. buf' = [buf EXCEPT ![o] = e] /\ buf'[o] = e
  BY <1>1, <1>0 DEF Push, Typed
<1>9. fate' = [q \in Packet |-> IF q \in (M \cup {p}) \ Members(e) THEN "evicted" ELSE fate[q]]
  BY <1>8, <1>0 DEF Push, Set
<1> HIDE DEF o, b, e, M
<1>10. /\ buf' \in [Output -> Seq(Packet)]
       /\ fate' \in [Packet -> {"upstream", "alive", "written", "evicted", "closed", "lost"}]
  BY <1>1, <1>7, <1>8, <1>9 DEF Typed
<1>11. \A q \in Packet : fate'[q] = fate[q] \/ fate'[q] = "evicted"
  BY <1>9
<1>12. hand \in [Chan -> Maybe(Packet)] /\ hand'[c] = None /\ \A d \in Chan \ {c} : hand'[d] = hand[d]
  BY DEF Typed
<1>13. \A d \in Chan : ChanLine(d)'
  <2> SUFFICES ASSUME NEW d \in Chan PROVE ChanLine(d)'
    OBVIOUS
  <2>1. ChanLine(d)
    BY DEF Order, Lined
  <2>2. CASE d = c
    BY <1>2, <1>12, <2>2 DEF ChanLine, Typed
  <2>3. CASE d # c
    BY <1>12, <2>1, <2>3 DEF ChanLine, Typed
  <2> QED BY <2>2, <2>3
<1>14. \A q \in Packet : Waits(q) => Waits(q)'
  BY <1>12, WaitsOn, PacketPair
<1>15. Waits(p)'
  <2>1. hand'[p[1]] = None /\ leftover'[p[1]] = None /\ next'[p[1]] = next[c]
    BY <1>2, <1>3, <1>12
  <2>2. p[2] < next[c]
    BY <1>3
  <2> QED BY <2>1, <2>2 DEF Waits
<1>16. \A u \in Output : QueueLine(u)'
  <2> SUFFICES ASSUME NEW u \in Output PROVE QueueLine(u)'
    OBVIOUS
  <2>1. QueueLine(u) /\ item'[u] = item[u] /\ Members(buf[u]) \subseteq Packet
        /\ Members(item[u]) \subseteq Packet
    BY MembersArePackets DEF Order, Lined, Typed
  <2>2. CASE u = o
    <3>1. \A q \in Members(buf'[u]) : q \in M \/ q = p
      BY <1>7, <1>8, <2>2
    <3>2. \A q \in Members(buf'[u]) \cup Members(item'[u]) : Of(q) = u /\ Waits(q)'
      BY <1>3, <1>4, <1>14, <1>15, <2>1, <2>2, <3>1 DEF QueueLine, M
    <3>3. \A q \in Members(item'[u]), r \in Members(buf'[u]) : Before(q, r)
      BY <1>5, <2>1, <2>2, <3>1 DEF QueueLine, M
    <3> QED BY <1>7, <1>8, <2>1, <2>2, <3>2, <3>3 DEF QueueLine, Of
  <2>3. CASE u # o
    <3>1. buf'[u] = buf[u]
      BY <1>1, <1>8, <2>3 DEF Typed
    <3> QED BY <1>14, <2>1, <3>1 DEF QueueLine, Of
  <2> QED BY <2>2, <2>3
<1>17. Placed'
  <2> SUFFICES ASSUME NEW q \in Packet
               PROVE  /\ fate'[q] = "alive" <=> InPlace(q)'
                      /\ fate'[q] = "upstream" <=> q[2] >= next'[q[1]]
    BY DEF Placed
  <2>1. /\ fate[q] = "alive" <=> InPlace(q)
        /\ fate[q] = "upstream" <=> q[2] >= next[q[1]]
    BY DEF Order, Placed
  <2>2. q[1] \in Chan /\ Of(q) \in Output /\ q # None /\ Of(q)' = Of(q)
    BY PacketPair DEF Of
  <2>3. hand'[q[1]] = q <=> hand[q[1]] = q /\ q # p
    BY <1>3, <1>12, <1>0, <2>2
  <2>4. q \in M \cup {p} => InPlace(q)
    BY <1>2, <1>3, <1>0 DEF InPlace, QueueLine, M
  <2>5. CASE q \in (M \cup {p}) \ Members(e)
    <3>1. fate'[q] = "evicted"
      BY <1>9, <2>5
    <3>2. Of(q) = o
      BY <1>2, <1>3, <2>5 DEF QueueLine, M
    <3>3. leftover[q[1]] # q /\ q \notin Members(item[Of(q)]) /\ hand'[q[1]] # q
      BY <1>3, <1>0, <2>3, <2>5, <3>2, Apart DEF M
    <3>4. ~InPlace(q)'
      BY <1>8, <2>2, <2>5, <3>2, <3>3 DEF InPlace
    <3> QED BY <2>1, <2>4, <2>5, <3>1, <3>4
  <2>6. CASE q \in Members(e)
    <3>1. Of(q) = o /\ InPlace(q)
      BY <1>2, <1>3, <1>7, <2>4, <2>6 DEF QueueLine, M
    <3>2. InPlace(q)'
      BY <1>8, <2>2, <2>6, <3>1 DEF InPlace
    <3> QED BY <1>9, <2>1, <2>6, <3>1, <3>2
  <2>7. CASE q \notin (M \cup {p}) \cup Members(e)
    <3>1. q \in Members(buf'[Of(q)]) <=> q \in Members(buf[Of(q)])
      BY <1>1, <1>8, <2>2, <2>7 DEF M, Typed
    <3>2. InPlace(q)' <=> InPlace(q)
      BY <2>2, <2>3, <2>7, <3>1 DEF InPlace
    <3> QED BY <1>9, <2>1, <2>7, <3>2
  <2> QED BY <2>5, <2>6, <2>7
<1>18. OldestFirst'
  BY <1>11 DEF Order, OldestFirst
<1> QED BY <1>10, <1>11, <1>13, <1>16, <1>17, <1>18 DEF Order, Lined

(* Steps that move no packet. *)
LEMMA SameLine ==
  ASSUME Typed, Order, UNCHANGED <<next, hand, leftover, buf, item, fate>>,
         \A c \in Chan : gor'[c] # gor[c] =>
            /\ {gor[c], gor'[c]} \cap {"filling", "enqueuing"} = {}
            /\ gor'[c] = "filled" \/ leftover[c] = None
  PROVE  Order'
<1>1. ASSUME NEW c \in Chan PROVE ChanLine(c)'
  <2>1. ChanLine(c)
    BY DEF Order, Lined
  <2> QED BY <2>1 DEF ChanLine
<1>2. ASSUME NEW o \in Output PROVE QueueLine(o)'
  <2>1. QueueLine(o)
    BY DEF Order, Lined
  <2> QED BY <2>1 DEF QueueLine, Waits, Of
<1>3. Placed' /\ OldestFirst'
  BY DEF Order, Placed, OldestFirst, InPlace, Of
<1> QED BY <1>1, <1>2, <1>3 DEF Order, Lined

LEMMA ReceiveOrder ==
  ASSUME Typed, Order, NEW c \in Chan, Receive(c)
  PROVE  Order'
<1> DEFINE p == <<c, next[c]>>
<1>1. /\ gor[c] \in {"fill", "produce"} /\ ~AtEnd(c) /\ next[c] \in Nat \ {0}
      /\ hand' = [hand EXCEPT ![c] = p] /\ next' = [next EXCEPT ![c] = @ + 1]
      /\ gor' = [gor EXCEPT ![c] = IF @ = "fill" THEN "filling" ELSE "enqueuing"]
      /\ fate' = [q \in Packet |-> IF q \in {p} THEN "alive" ELSE fate[q]]
      /\ UNCHANGED <<leftover, buf, item>>
  BY DEF Receive, Set, bufVars, sinkVars, Typed
<1>2. PICK r \in Packet : r = p
  <2>1. Len(Feed[c]) \in Nat /\ DOMAIN Feed[c] = 1..Len(Feed[c])
    BY FeedAssumption, LenProperties
  <2>2. next[c] \in DOMAIN Feed[c]
    BY <1>1, <2>1 DEF AtEnd
  <2>3. p \in {<<c, i>> : i \in DOMAIN Feed[c]}
    BY <2>2
  <2> QED BY <2>3 DEF Packet
<1>3. r[1] = c /\ r[2] = next[c] /\ r # None
  BY <1>2, PacketPair
<1>4. hand'[c] = r /\ next'[c] = next[c] + 1 /\ next'[c] - 1 = next[c]
      /\ \A d \in Chan \ {c} : hand'[d] = hand[d] /\ next'[d] = next[d] /\ gor'[d] = gor[d]
  BY <1>1, <1>2 DEF Typed
<1>5. hand[c] = None /\ leftover[c] = None
  BY <1>1 DEF Order, Lined, ChanLine
<1>6. ASSUME NEW d \in Chan PROVE ChanLine(d)'
  <2>1. ChanLine(d)
    BY DEF Order, Lined
  <2>2. CASE d = c
    BY <1>1, <1>2, <1>3, <1>4, <1>5, <2>2 DEF ChanLine, Typed
  <2>3. CASE d # c
    BY <1>1, <1>4, <2>1, <2>3 DEF ChanLine, Typed
  <2> QED BY <2>2, <2>3
<1>7. ASSUME NEW q \in Packet, Waits(q) PROVE Waits(q)'
  <2>1. q[1] \in Chan /\ q[2] \in Nat
    BY PacketPair
  <2>2. CASE q[1] = c
    <3>1. q[2] < next[c]
      BY <1>7, <2>2 DEF Waits
    <3>2. q[2] < next'[c] /\ q[2] < next'[c] - 1
      BY <1>1, <1>4, <2>1, <3>1
    <3> QED BY <2>2, <3>2 DEF Waits
  <2>3. CASE q[1] # c
    BY <1>1, <1>4, <1>7, <2>1, <2>3 DEF Waits
  <2> QED BY <2>2, <2>3
<1>8. ASSUME NEW o \in Output PROVE QueueLine(o)'
  <2>1. QueueLine(o) /\ Members(buf[o]) \subseteq Packet /\ Members(item[o]) \subseteq Packet
    BY MembersArePackets DEF Order, Lined, Typed
  <2> QED BY <1>1, <1>7, <2>1 DEF QueueLine, Of
<1>9. ASSUME NEW q \in Packet
      PROVE  /\ fate'[q] = "alive" <=> InPlace(q)'
             /\ fate'[q] = "upstream" <=> q[2] >= next'[q[1]]
  <2>1. /\ fate[q] = "alive" <=> InPlace(q)
        /\ fate[q] = "upstream" <=> q[2] >= next[q[1]]
    BY DEF Order, Placed
  <2>2. q[1] \in Chan /\ q[2] \in Nat /\ q # None /\ Of(q) \in Output
    BY PacketPair
  <2>3. CASE q = r
    <3>1. fate'[q] = "alive" /\ InPlace(q)'
      BY <1>1, <1>2, <1>3, <1>4, <2>3 DEF InPlace
    <3>2. ~(q[2] >= next'[q[1]])
      BY <1>1, <1>3, <1>4, <2>3
    <3> QED BY <3>1, <3>2
  <2>4. CASE q # r
    <3>1. fate'[q] = fate[q] /\ (InPlace(q)' <=> InPlace(q))
      BY <1>1, <1>2, <1>3, <1>4, <1>5, <2>2, <2>4 DEF InPlace, Of
    <3>2. q[1] = c => q[2] # next[c]
      BY <1>3, <2>4, SamePacket
    <3>3. q[2] >= next'[q[1]] <=> q[2] >= next[q[1]]
      BY <1>1, <1>4, <2>2, <3>2
    <3> QED BY <2>1, <3>1, <3>3
  <2> QED BY <2>3, <2>4
<1>10. OldestFirst'
  <2> SUFFICES ASSUME NEW q \in Packet, NEW w \in Packet, q[1] = w[1],
                      fate'[q] = "alive", fate'[w] = "written"
               PROVE  w[2] < q[2]
    BY DEF OldestFirst
  <2>1. fate[w] = "written" /\ w[2] \in Nat
    BY <1>1, <1>2, PacketPair
  <2>2. CASE q = r
    <3>1. ~(w[2] >= next[c])
      BY <1>3, <2>1, <2>2 DEF Order, Placed
    <3> QED BY <1>1, <1>3, <2>1, <2>2, <3>1
  <2>3. CASE q # r
    BY <1>1, <1>2, <2>1, <2>3 DEF Order, OldestFirst
  <2> QED BY <2>2, <2>3
<1> QED BY <1>6, <1>8, <1>9, <1>10 DEF Order, Lined, Placed

LEMMA ParkOrder ==
  ASSUME Typed, Order, NEW c \in Chan, Park(c)
  PROVE  Order'
<1>1. /\ gor[c] = "filling" /\ leftover' = [leftover EXCEPT ![c] = hand[c]]
      /\ hand' = [hand EXCEPT ![c] = None] /\ gor' = [gor EXCEPT ![c] = "filled"]
      /\ UNCHANGED <<next, buf, item, fate>>
  BY DEF Park, bufVars, sinkVars
<1>2. hand[c] # None /\ hand[c] = <<c, next[c] - 1>> /\ leftover[c] = None
  BY <1>1 DEF Order, Lined, ChanLine
<1>3. leftover'[c] = hand[c] /\ hand'[c] = None
      /\ \A d \in Chan \ {c} : hand'[d] = hand[d] /\ leftover'[d] = leftover[d] /\ gor'[d] = gor[d]
  BY <1>1 DEF Typed
<1>4. ASSUME NEW d \in Chan PROVE ChanLine(d)'
  <2>1. ChanLine(d)
    BY DEF Order, Lined
  <2>2. CASE d = c
    BY <1>1, <1>2, <1>3, <2>2 DEF ChanLine, Typed
  <2>3. CASE d # c
    BY <1>1, <1>3, <2>1, <2>3 DEF ChanLine, Typed
  <2> QED BY <2>2, <2>3
<1>5. ASSUME NEW q \in Packet, Waits(q) PROVE Waits(q)'
  BY <1>1, <1>2, <1>3, <1>5, PacketPair, WaitsOn
<1>6. ASSUME NEW o \in Output PROVE QueueLine(o)'
  <2>1. QueueLine(o) /\ Members(buf[o]) \subseteq Packet /\ Members(item[o]) \subseteq Packet
    BY MembersArePackets DEF Order, Lined, Typed
  <2> QED BY <1>1, <1>5, <2>1 DEF QueueLine, Of
<1>7. ASSUME NEW q \in Packet PROVE InPlace(q)' <=> InPlace(q)
  BY <1>1, <1>2, <1>3, PacketPair DEF InPlace, Of
<1>8. Placed' /\ OldestFirst'
  BY <1>1, <1>7 DEF Order, Placed, OldestFirst
<1> QED BY <1>4, <1>6, <1>8 DEF Order, Lined

(* Steps that change the buffer and the items of one output: they keep some *)
(* of its packets, in order, and write nothing but the oldest.              *)
Line(b, i) == Members(b) \cup Members(i)
Move(o, B, I) ==
    LET all == Line(buf[o], item[o])
        gone == all \ Line(B, I)
    IN /\ Ascends(B) /\ Ascends(I) /\ \A p \in Members(I), q \in Members(B) : Before(p, q)
       /\ Line(B, I) \subseteq all
       /\ buf' = [buf EXCEPT ![o] = B] /\ item' = [item EXCEPT ![o] = I]
       /\ UNCHANGED <<next, gor, hand, leftover>>
       /\ \A p \in Packet : p \notin gone => fate'[p] = fate[p]
       /\ \A p \in gone : fate'[p] \in {"written", "closed", "lost"}
       /\ \A w \in gone, q \in all : fate'[w] = "written" /\ q # w => Before(w, q)
LEMMA MoveOrder ==
  ASSUME Typed, Order, NEW o \in Output, NEW B \in Seq(Packet), NEW I \in Seq(Packet),
         Move(o, B, I)
  PROVE  Order'
<1> PICK all : all = Line(buf[o], item[o])
  OBVIOUS
<1> PICK kept : kept = Line(B, I)
  OBVIOUS
<1>11. /\ Ascends(B) /\ Ascends(I) /\ \A p \in Members(I), q \in Members(B) : Before(p, q)
       /\ kept \subseteq all /\ all = Members(buf[o]) \cup Members(item[o])
       /\ kept = Members(B) \cup Members(I)
       /\ buf' = [buf EXCEPT ![o] = B] /\ item' = [item EXCEPT ![o] = I]
  BY DEF Move, Line
<1>12. UNCHANGED <<next, gor, hand, leftover>>
  BY DEF Move
<1>13. /\ \A p \in Packet : p \notin all \ kept => fate'[p] = fate[p]
       /\ \A p \in all \ kept : fate'[p] \in {"written", "closed", "lost"}
       /\ \A w \in all \ kept, q \in all : fate'[w] = "written" /\ q # w => Before(w, q)
  BY DEF Move
<1>1. /\ buf'[o] = B /\ item'[o] = I
      /\ \A u \in Output \ {o} : buf'[u] = buf[u] /\ item'[u] = item[u]
  BY <1>11 DEF Typed
<1>2. \A u \in Output : /\ QueueLine(u) /\ Members(buf[u]) \subseteq Packet
                        /\ Members(item[u]) \subseteq Packet
  BY MembersArePackets DEF Order, Lined, Typed
<1>3. all \subseteq Packet /\ \A p \in all : Of(p) = o /\ Waits(p)
  BY <1>11, <1>2 DEF QueueLine
<1>4. \A p \in Packet : Waits(p) => Waits(p)'
  BY <1>12, PacketPair, WaitsOn
<1>5. ASSUME NEW u \in Output PROVE QueueLine(u)'
  <2>1. CASE u = o
    <3>1. \A p \in Members(buf'[u]) \cup Members(item'[u]) : Of(p) = u /\ Waits(p)'
      BY <1>11, <1>1, <1>3, <1>4, <2>1
    <3> QED BY <1>11, <1>1, <2>1, <3>1 DEF QueueLine, Of
  <2>2. CASE u # o
    BY <1>12, <1>1, <1>2, <1>4, <2>2 DEF QueueLine, Of
  <2> QED BY <2>1, <2>2
<1>6. ASSUME NEW c \in Chan PROVE ChanLine(c)'
  BY <1>12 DEF ChanLine, Order, Lined
<1>7. ASSUME NEW p \in Packet PROVE InPlace(p)' <=> InPlace(p) /\ p \notin all \ kept
  <2>1. p[1] \in Chan /\ Of(p) \in Output /\ Of(p)' = Of(p)
    BY PacketPair DEF Of
  <2>2. CASE p \in all
    <3>1. Of(p) = o /\ hand[p[1]] # p /\ leftover[p[1]] # p
      BY <1>3, <1>11, <2>2, Apart
    <3> QED BY <1>11, <1>12, <1>1, <2>1, <2>2, <3>1 DEF InPlace
  <2>3. CASE p \notin all
    BY <1>11, <1>12, <1>1, <2>1, <2>3 DEF InPlace
  <2> QED BY <2>2, <2>3
<1>8. \A p \in all : InPlace(p) /\ fate[p] = "alive"
  BY <1>11, <1>3 DEF InPlace, Order, Placed
<1>9. Placed'
  <2> SUFFICES ASSUME NEW p \in Packet
               PROVE  /\ fate'[p] = "alive" <=> InPlace(p)'
                      /\ fate'[p] = "upstream" <=> p[2] >= next[p[1]]
    BY <1>12 DEF Placed
  <2>1. /\ fate[p] = "alive" <=> InPlace(p)
        /\ fate[p] = "upstream" <=> p[2] >= next[p[1]]
    BY DEF Order, Placed
  <2>2. CASE p \in all \ kept
    <3>1. fate'[p] \notin {"alive", "upstream"}
      BY <1>13, <2>2
    <3> QED BY <1>12, <1>7, <1>8, <2>1, <2>2, <3>1
  <2>3. CASE p \notin all \ kept
    BY <1>12, <1>13, <1>7, <2>1, <2>3
  <2> QED BY <2>2, <2>3
<1>10. OldestFirst'
  <2> SUFFICES ASSUME NEW q \in Packet, NEW w \in Packet, q[1] = w[1],
                      fate'[q] = "alive", fate'[w] = "written"
               PROVE  w[2] < q[2]
    BY DEF OldestFirst
  <2>1. q \notin all \ kept /\ fate[q] = "alive" /\ InPlace(q) /\ q # w
    BY <1>11, <1>13 DEF Order, Placed
  <2>2. CASE w \notin all \ kept
    BY <1>13, <2>1, <2>2 DEF Order, OldestFirst
  <2>3. CASE w \in all \ kept
    <3>1. Of(q) = o /\ Waits(w) /\ w[2] \in Nat /\ q[1] \in Chan
      BY <1>3, <2>3, PacketPair DEF Of
    <3>2. CASE hand[q[1]] = q \/ leftover[q[1]] = q
      <4>1. q = <<q[1], next[q[1]] - 1>>
        BY <3>1, <3>2, PacketPair DEF Order, Lined, ChanLine
      <4>2. w[2] < next[q[1]] - 1
        BY <3>1, <3>2, PacketPair DEF Waits
      <4>3. q[2] = next[q[1]] - 1
        BY <4>1
      <4> QED BY <4>2, <4>3
    <3>3. CASE q \in all
      BY <1>13, <2>1, <2>3, <3>3 DEF Before
    <3> QED BY <1>11, <2>1, <3>1, <3>2, <3>3 DEF InPlace
  <2> QED BY <2>2, <2>3
<1> QED BY <1>5, <1>6, <1>9, <1>10 DEF Order, Lined

LEMMA DrainOrder ==
  ASSUME Typed, Order, Phases, NEW o \in Output, Drain(o)
  PROVE  Order'
<1>1. /\ item[o] = <<>> /\ buf' = [buf EXCEPT ![o] = <<>>] /\ item' = [item EXCEPT ![o] = buf[o]]
      /\ UNCHANGED <<next, gor, hand, leftover, fate>>
  BY DEF Drain, AfterDrain, Phases, chanVars
<1>2. PICK I \in Seq(Packet) : I = buf[o]
  BY DEF Typed
<1>3. Ascends(I) /\ Line(<<>>, I) = Line(buf[o], item[o])
  BY <1>1, <1>2, NoMembers DEF Order, Lined, QueueLine, Line
<1>4. Move(o, <<>>, I)
  BY <1>1, <1>2, <1>3, NoMembers DEF Move
<1> QED BY <1>4, NoMembers, MoveOrder

LEMMA WriteOrder ==
  ASSUME Typed, Order, NEW o \in Output, Write(o)
  PROVE  Order'
<1>1. /\ item[o] # <<>> /\ item' = [item EXCEPT ![o] = Tail(item[o])]
      /\ fate' = [q \in Packet |-> IF q \in {Head(item[o])} THEN "written" ELSE fate[q]]
      /\ UNCHANGED <<next, gor, hand, leftover, buf>>
  BY DEF Write, Set, chanVars, bufVars
<1>2. QueueLine(o) /\ buf[o] \in Seq(Packet) /\ item[o] \in Seq(Packet)
  BY DEF Order, Lined, Typed
<1>3. /\ Head(item[o]) \in Packet /\ Head(item[o]) \in Members(item[o])
      /\ Tail(item[o]) \in Seq(Packet) /\ Ascends(Tail(item[o]))
      /\ Members(Tail(item[o])) = Members(item[o]) \ {Head(item[o])}
      /\ \A q \in Members(Tail(item[o])) : Before(Head(item[o]), q)
  BY <1>1, <1>2, TailLine DEF QueueLine
<1>4. PICK B \in Seq(Packet) : B = buf[o]
  BY <1>2
<1>5. PICK I \in Seq(Packet) : I = Tail(item[o])
  BY <1>3
<1>6. PICK w \in Packet : w = Head(item[o])
  BY <1>3
<1>7. w \notin Members(buf[o])
  BY <1>2, <1>3, <1>6, Apart DEF QueueLine
<1>8. Line(B, I) = Line(buf[o], item[o]) \ {w} /\ w \in Line(buf[o], item[o])
  BY <1>3, <1>4, <1>5, <1>6, <1>7 DEF Line
<1>9. \A q \in Line(buf[o], item[o]) : q # w => Before(w, q)
  BY <1>2, <1>3, <1>6 DEF QueueLine, Line
<1>10. /\ Ascends(B) /\ Ascends(I) /\ \A p \in Members(I), q \in Members(B) : Before(p, q)
       /\ buf' = [buf EXCEPT ![o] = B] /\ item' = [item EXCEPT ![o] = I]
  BY <1>1, <1>2, <1>3, <1>4, <1>5 DEF QueueLine, Typed
<1>11. \A p \in Packet : fate'[p] = IF p = w THEN "written" ELSE fate[p]
  BY <1>1, <1>6
<1>12. Move(o, B, I)
  BY <1>1, <1>8, <1>9, <1>10, <1>11 DEF Move
<1> QED BY <1>12, MoveOrder

LEMMA WriteFailsOrder ==
  ASSUME Typed, Order, NEW o \in Output, WriteFails(o)
  PROVE  Order'
<1>1. /\ item[o] # <<>> /\ item' = [item EXCEPT ![o] = <<>>]
      /\ fate' = [p \in Packet |-> CASE p = Head(item[o]) -> "closed"
                                     [] p \in Members(Tail(item[o])) -> "lost"
                                     [] OTHER -> fate[p]]
      /\ UNCHANGED <<next, gor, hand, leftover, buf>>
  BY DEF WriteFails, chanVars, bufVars
<1>2. QueueLine(o) /\ buf[o] \in Seq(Packet) /\ item[o] \in Seq(Packet)
  BY DEF Order, Lined, Typed
<1>3. /\ Head(item[o]) \in Packet /\ Head(item[o]) \in Members(item[o])
      /\ Members(Tail(item[o])) = Members(item[o]) \ {Head(item[o])}
  BY <1>1, <1>2, TailLine DEF QueueLine
<1>4. PICK B \in Seq(Packet) : B = buf[o]
  BY <1>2
<1>5. Members(item[o]) \subseteq Packet /\ Members(item[o]) \cap Members(buf[o]) = {}
  BY <1>2, MembersArePackets, Apart DEF QueueLine
<1>6. Line(B, <<>>) = Members(buf[o]) /\ Line(buf[o], item[o]) = Members(buf[o]) \cup Members(item[o])
  BY <1>4, NoMembers DEF Line
<1>7. \A p \in Packet : /\ p \notin Members(item[o]) => fate'[p] = fate[p]
                        /\ p \in Members(item[o]) => fate'[p] \in {"closed", "lost"}
  BY <1>1, <1>3
<1>8. Ascends(B) /\ buf' = [buf EXCEPT ![o] = B]
  BY <1>1, <1>2, <1>4 DEF QueueLine, Typed
<1>9. Move(o, B, <<>>)
  BY <1>1, <1>5, <1>6, <1>7, <1>8, NoMembers DEF Move
<1> QED BY <1>9, NoMembers, MoveOrder

LEMMA CloseOrder ==
  ASSUME Typed, Order, NEW o \in Output, Close(o)
  PROVE  Order'
<1>1. /\ buf' = [buf EXCEPT ![o] = <<>>]
      /\ fate' = [p \in Packet |-> IF p \in Members(buf[o]) THEN "closed" ELSE fate[p]]
      /\ UNCHANGED <<next, gor, hand, leftover, item>>
  BY DEF Close, Set, chanVars, sinkVars
<1>2. QueueLine(o) /\ buf[o] \in Seq(Packet) /\ item[o] \in Seq(Packet)
  BY DEF Order, Lined, Typed
<1>3. PICK I \in Seq(Packet) : I = item[o]
  BY <1>2
<1>4. Members(buf[o]) \subseteq Packet /\ Members(item[o]) \cap Members(buf[o]) = {}
  BY <1>2, MembersArePackets, Apart DEF QueueLine
<1>5. Line(<<>>, I) = Members(item[o]) /\ Line(buf[o], item[o]) = Members(buf[o]) \cup Members(item[o])
  BY <1>3, NoMembers DEF Line
<1>6. Ascends(I) /\ item' = [item EXCEPT ![o] = I]
  BY <1>1, <1>2, <1>3 DEF QueueLine, Typed
<1>7. Move(o, <<>>, I)
  BY <1>1, <1>4, <1>5, <1>6, NoMembers DEF Move
<1> QED BY <1>7, NoMembers, MoveOrder

LEMMA TakePacedOrder ==
  ASSUME Typed, Order, Phases, NEW o \in Output, TakePaced(o)
  PROVE  Order' /\ buf'[o] \in Seq(Packet) /\ item'[o] \in Seq(Packet) /\ Len(item'[o]) = 1
<1>1. item[o] = <<>> /\ buf[o] # <<>> /\ buf[o] \in Seq(Packet) /\ Ascends(buf[o])
  BY DEF TakePaced, Phases, Order, Lined, QueueLine, Typed
<1>2. PICK i : i = MinKey(buf[o])
  OBVIOUS
<1>3. i \in DOMAIN buf[o] /\ \A j \in DOMAIN buf[o] : j # i => Before(buf[o][i], buf[o][j])
  BY <1>1, <1>2, LowestKey
<1>4. buf[o][i] \in Packet
  BY <1>1, <1>3, ElementOfSeq, LenProperties
<1>5. PICK p \in Packet : p = buf[o][i]
  BY <1>4
<1>6. PICK B \in Seq(Packet) : B = Remove(buf[o], i)
  BY <1>1, <1>3, RemoveLine
<1>7. Ascends(B) /\ Members(B) = Members(buf[o]) \ {p} /\ p \in Members(buf[o])
  <2>1. Ascends(Remove(buf[o], i)) /\ Members(Remove(buf[o], i)) = Members(buf[o]) \ {buf[o][i]}
    BY <1>1, <1>3, RemoveLine
  <2>2. buf[o][i] \in Members(buf[o])
    BY <1>3 DEF Members
  <2> QED BY <2>1, <2>2, <1>5, <1>6
<1>8. /\ buf' = [buf EXCEPT ![o] = B] /\ item' = [item EXCEPT ![o] = <<p>>]
      /\ UNCHANGED <<next, gor, hand, leftover, fate>>
  BY <1>2, <1>5, <1>6 DEF TakePaced, chanVars
<1>9. <<p>> \in Seq(Packet) /\ Len(<<p>>) = 1 /\ Ascends(<<p>>) /\ Members(<<p>>) = {p}
  <2>1. <<p>> \in Seq(Packet) /\ Len(<<p>>) = 1 /\ DOMAIN <<p>> = 1..1 /\ <<p>>[1] = p
    OBVIOUS
  <2>2. \A k \in 1..1 : k = 1
    OBVIOUS
  <2> QED BY <2>1, <2>2 DEF Ascends, Members
<1>10. \A q \in Members(B) : Before(p, q)
  BY <1>3, <1>5, <1>7 DEF Members
<1>11. Line(B, <<p>>) = Line(buf[o], item[o])
  BY <1>1, <1>7, <1>9, NoMembers DEF Line
<1>12. Move(o, B, <<p>>)
  BY <1>7, <1>8, <1>9, <1>10, <1>11 DEF Move
<1>13. Order'
  BY <1>9, <1>12, MoveOrder
<1> QED BY <1>6, <1>8, <1>9, <1>13 DEF Typed

(* What a fill goroutine came too late with is written, or given up, when   *)
(* the other packets of the output are gone.                                *)
LEMMA LeftoverOrder ==
  ASSUME Typed, Order, Phases, NEW o \in Output, WriteLeftover(o)
  PROVE  Order' /\ fate' \in [Packet -> {"upstream", "alive", "written", "evicted", "closed", "lost"}]
<1>1. /\ item[o] = <<>> /\ buf[o] = <<>> /\ UNCHANGED <<next, gor, hand, buf, item>>
      /\ \A c \in Chans(o) : gor[c] = "filled"
  BY DEF WriteLeftover, AllFilled, Phases, bufVars
<1>2. PICK c \in Chans(o) :
        /\ leftover[c] # None
        /\ \/ /\ leftover' = [leftover EXCEPT ![c] = None]
              /\ fate' = [p \in Packet |-> IF p \in {leftover[c]} THEN "written" ELSE fate[p]]
           \/ /\ leftover' = [d \in Chan |-> IF OutOf[d] = o THEN None ELSE leftover[d]]
              /\ fate' = [p \in Packet |->
                            IF p = leftover[c] THEN "closed"
                            ELSE IF \E d \in Chans(o) : p = leftover[d] THEN "lost"
                            ELSE fate[p]]
  BY DEF WriteLeftover, Set
<1>3. fate' \in [Packet -> {"upstream", "alive", "written", "evicted", "closed", "lost"}]
  BY <1>2 DEF Typed
<1>4. \A d \in Chan : ChanLine(d) /\ (leftover'[d] = leftover[d] \/ leftover'[d] = None)
  BY <1>2 DEF Order, Lined, Typed
<1>5. \A d \in Chan : ChanLine(d)'
  BY <1>1, <1>4 DEF ChanLine
<1>6. \A p \in Packet : Waits(p) => Waits(p)'
  BY <1>1, <1>4, PacketPair, WaitsOn
<1>7. ASSUME NEW u \in Output PROVE QueueLine(u)'
  <2>1. QueueLine(u) /\ Members(buf[u]) \subseteq Packet /\ Members(item[u]) \subseteq Packet
    BY MembersArePackets DEF Order, Lined, Typed
  <2> QED BY <1>1, <1>6, <2>1 DEF QueueLine, Of
<1>8. \A d \in Chan : leftover[d] # None => leftover[d] \in Packet /\ leftover[d][1] = d
  BY <1>4 DEF ChanLine, Typed, Maybe
<1>9. ASSUME NEW p \in Packet, leftover'[p[1]] # leftover[p[1]], leftover[p[1]] = p
      PROVE  ~InPlace(p)' /\ fate'[p] \in {"written", "closed", "lost"} /\ Of(p) = o
             /\ fate[p] = "alive" /\ hand[p[1]] = None
  <2>1. p[1] \in Chan /\ p # None /\ Of(p)' = Of(p)
    BY PacketPair DEF Of
  <2>2. p[1] \in Chans(o) /\ Of(p) = o
    BY <1>2, <1>9, <2>1 DEF Chans, Of, Typed
  <2>3. hand[p[1]] = None /\ leftover'[p[1]] = None
    BY <1>1, <1>4, <1>9, <2>1, <2>2 DEF ChanLine
  <2>4. ~InPlace(p)'
    BY <1>1, <2>1, <2>2, <2>3, NoMembers DEF InPlace
  <2>5. fate'[p] \in {"written", "closed", "lost"}
    <3>1. leftover' = [leftover EXCEPT ![c] = None] => p[1] = c
      BY <1>9, <2>1 DEF Typed
    <3> QED BY <1>2, <1>9, <2>2, <3>1
  <2>6. InPlace(p)
    BY <1>9 DEF InPlace
  <2> QED BY <2>2, <2>3, <2>4, <2>5, <2>6 DEF Order, Placed
<1>10. ASSUME NEW p \in Packet, ~(leftover'[p[1]] # leftover[p[1]] /\ leftover[p[1]] = p)
       PROVE  (InPlace(p)' <=> InPlace(p)) /\ fate'[p] = fate[p]
  <2>1. p[1] \in Chan /\ p # None /\ Of(p)' = Of(p)
    BY PacketPair DEF Of
  <2>2. leftover'[p[1]] = p <=> leftover[p[1]] = p
    BY <1>4, <1>10, <2>1
  <2>3. fate'[p] = fate[p]
    <3>1. \A d \in Chans(o) : leftover[d] = p => d = p[1]
      BY <1>8, <2>1 DEF Chans
    <3>2. leftover' = [leftover EXCEPT ![c] = None] => leftover'[c] = None
      BY DEF Chans, Typed
    <3>3. leftover' = [d \in Chan |-> IF OutOf[d] = o THEN None ELSE leftover[d]] =>
            \A d \in Chans(o) : leftover'[d] = None
      BY DEF Chans
    <3> QED BY <1>2, <1>10, <2>1, <2>2, <3>1, <3>2, <3>3
  <2> QED BY <1>1, <2>1, <2>2, <2>3 DEF InPlace
<1>11. Placed'
  BY <1>1, <1>9, <1>10 DEF Order, Placed
<1>12. OldestFirst'
  <2> SUFFICES ASSUME NEW q \in Packet, NEW w \in Packet, q[1] = w[1],
                      fate'[q] = "alive", fate'[w] = "written"
               PROVE  w[2] < q[2]
    BY DEF OldestFirst
  <2>1. fate[q] = "alive" /\ InPlace(q) /\ InPlace(q)' /\ q # w
    BY <1>9, <1>10 DEF Order, Placed
  <2>2. CASE fate[w] = "written"
    BY <2>1, <2>2 DEF Order, OldestFirst
  <2>3. CASE fate[w] # "written"
    <3>1. leftover[w[1]] = w /\ hand[w[1]] = None /\ Of(w) = o
      BY <1>9, <1>10, <2>3
    <3>2. Of(q) = o /\ q[1] \in Chan /\ q # None
      BY <3>1, PacketPair DEF Of
    <3> QED BY <1>1, <2>1, <3>1, <3>2, NoMembers DEF InPlace
  <2> QED BY <2>2, <2>3
<1> QED BY <1>3, <1>5, <1>7, <1>11, <1>12 DEF Order, Lined

(***************************************************************************)
(* The invariant, action by action.                                        *)
(***************************************************************************)
LEMMA TypedStep ==
  ASSUME IInv, Next
  PROVE  Typed'
<1> USE DEF IInv, Typed, chanVars, bufVars, sinkVars, ctxVars
<1>1. ASSUME NEW c \in Chan, Receive(c) PROVE Typed'
  <2>1. next[c] \in Nat /\ hand' = [hand EXCEPT ![c] = <<c, next[c]>>] /\ <<c, next[c]>> \in Packet
    <3>1. Len(Feed[c]) \in Nat /\ DOMAIN Feed[c] = 1..Len(Feed[c])
      BY FeedAssumption, LenProperties
    <3>2. next[c] \in DOMAIN Feed[c]
      BY <1>1, <3>1 DEF Receive, AtEnd
    <3>3. <<c, next[c]>> \in {<<c, i>> : i \in DOMAIN Feed[c]}
      BY <3>2
    <3> QED BY <1>1, <3>3 DEF Receive, Packet
  <2> QED BY <1>1, <2>1 DEF Receive, Set, Maybe
<1>2. ASSUME NEW c \in Chan, AddOrPass(c) PROVE Typed'
  <2>1. UNCHANGED <<next, leftover, item>> /\ hand' = [hand EXCEPT ![c] = None]
        /\ gor' = [gor EXCEPT ![c] = "fill"] /\ Push(OutOf[c], hand[c]) /\ gor[c] = "filling"
    BY <1>2 DEF AddOrPass
  <2>2. /\ buf' \in [Output -> Seq(Packet)]
        /\ fate' \in [Packet -> {"upstream", "alive", "written", "evicted", "closed", "lost"}]
    BY <2>1, PushOrder
  <2>3. state' \in [Output -> States] /\ ready' \in [Output -> BOOLEAN]
    BY <1>2 DEF AddOrPass, MarkReady, States
  <2> QED BY <1>2, <2>1, <2>2, <2>3 DEF AddOrPass, Maybe
<1>3. ASSUME NEW c \in Chan, Park(c) PROVE Typed'
  BY <1>3 DEF Park, Maybe
<1>4. ASSUME NEW c \in Chan, FillEnd(c) PROVE Typed'
  BY <1>4 DEF FillEnd
<1>5. ASSUME NEW c \in Chan, Enqueue(c) PROVE Typed'
  <2>1. UNCHANGED <<next, leftover, item>> /\ hand' = [hand EXCEPT ![c] = None]
        /\ gor' = [gor EXCEPT ![c] = "waking"] /\ Push(OutOf[c], hand[c]) /\ gor[c] = "enqueuing"
    BY <1>5 DEF Enqueue
  <2>2. /\ buf' \in [Output -> Seq(Packet)]
        /\ fate' \in [Packet -> {"upstream", "alive", "written", "evicted", "closed", "lost"}]
    BY <2>1, PushOrder
  <2> QED BY <1>5, <2>1, <2>2 DEF Enqueue, Maybe
<1>6. ASSUME NEW c \in Chan, EnqueueEOS(c) PROVE Typed'
  <2>1. OutOf[c] \in Output /\ eos[OutOf[c]] + 1 \in Nat
    BY FeedAssumption
  <2> QED BY <1>6, <2>1 DEF EnqueueEOS
<1>7. ASSUME NEW c \in Chan, Notify(c) PROVE Typed'
  BY <1>7 DEF Notify, Slot, AfterWake
<1>8. ASSUME NEW o \in Output, OutputReady(o) PROVE Typed'
  BY <1>8 DEF OutputReady, MarkReady, States, Goto
<1>9. ASSUME NEW o \in Output, WaitCancelled(o) PROVE Typed'
  BY <1>9 DEF WaitCancelled, Return, Goto
<1>10. ASSUME NEW o \in Output, Drain(o) PROVE Typed'
  <2>1. <<>> \in Seq(Packet)
    BY NoMembers
  <2> QED BY <1>10, <2>1 DEF Drain, AfterDrain, States, Goto
<1>11. ASSUME NEW o \in Output, Write(o) PROVE Typed'
  <2>1. item[o] # <<>> /\ item[o] \in Seq(Packet) /\ Ascends(item[o])
    BY <1>11 DEF Write, Order, Lined, QueueLine
  <2>2. Tail(item[o]) \in Seq(Packet)
    BY <2>1, TailLine
  <2> QED BY <1>11, <2>2 DEF Write, Set, Goto
<1>12. ASSUME NEW o \in Output, Flushed(o) PROVE Typed'
  BY <1>12 DEF Flushed, Goto
<1>13. ASSUME NEW o \in Output, WriteLeftover(o) PROVE Typed'
  <2>1. fate' \in [Packet -> {"upstream", "alive", "written", "evicted", "closed", "lost"}]
    BY <1>13, LeftoverOrder
  <2>2. leftover' \in [Chan -> Maybe(Packet)]
    <3>1. PICK c \in Chans(o) :
            \/ leftover' = [leftover EXCEPT ![c] = None]
            \/ leftover' = [d \in Chan |-> IF OutOf[d] = o THEN None ELSE leftover[d]]
      BY <1>13 DEF WriteLeftover
    <3> QED BY <3>1 DEF Maybe
  <2>3. pc' \in [Output -> {"fill", "graph", "flush", "join", "roll", "write", "idle", "returned"}]
        /\ ret' \in [Output -> {"nil", "err", "ctx"}] /\ cancelled' \in BOOLEAN /\ UNCHANGED outside
    BY <1>13 DEF WriteLeftover, Return, Goto
  <2> QED BY <1>13, <2>1, <2>2, <2>3 DEF WriteLeftover
<1>14. ASSUME NEW o \in Output, StartRolling(o) PROVE Typed'
  BY <1>14 DEF StartRolling, Goto
<1>15. ASSUME NEW o \in Output, TakePaced(o) PROVE Typed'
  <2>1. buf'[o] \in Seq(Packet) /\ item'[o] \in Seq(Packet)
    BY <1>15, TakePacedOrder
  <2>2. buf' \in [Output -> Seq(Packet)] /\ item' \in [Output -> Seq(Packet)]
    BY <1>15, <2>1 DEF TakePaced
  <2> QED BY <1>15, <2>2 DEF TakePaced, Goto
<1>16. ASSUME NEW o \in Output, TakeNothing(o) PROVE Typed'
  BY <1>16 DEF TakeNothing, Finish, Return, Goto
<1>17. ASSUME NEW o \in Output, Wakeup(o) PROVE Typed'
  BY <1>17 DEF Wakeup, Goto
<1>18. ASSUME NEW o \in Output, IdleCancelled(o) PROVE Typed'
  BY <1>18 DEF IdleCancelled, Finish, Return, Goto
<1>19. ASSUME NEW o \in Output, WriteFails(o) PROVE Typed'
  <2>1. fate' \in [Packet -> {"upstream", "alive", "written", "evicted", "closed", "lost"}]
    BY <1>19 DEF WriteFails
  <2>2. <<>> \in Seq(Packet)
    BY NoMembers
  <2> QED BY <1>19, <2>1, <2>2 DEF WriteFails, Return, Goto
<1>20. ASSUME NEW o \in Output, Close(o) PROVE Typed'
  <2>1. <<>> \in Seq(Packet)
    BY NoMembers
  <2> QED BY <1>20, <2>1 DEF Close, Set, States
<1>21. ASSUME UpstreamStops PROVE Typed'
  BY <1>21 DEF UpstreamStops
<1>22. ASSUME GraphReady PROVE Typed'
  BY <1>22 DEF GraphReady
<1>23. ASSUME GraphStops PROVE Typed'
  BY <1>23 DEF GraphStops
<1>24. ASSUME OutsideCancel PROVE Typed'
  BY <1>24 DEF OutsideCancel
<1> QED
  BY <1>1, <1>2, <1>3, <1>4, <1>5, <1>6, <1>7, <1>8, <1>9, <1>10, <1>11, <1>12, <1>13, <1>14, <1>15, <1>16, <1>17, <1>18, <1>19, <1>20, <1>21, <1>22, <1>23, <1>24 DEF Next, ChanStep, SinkStep

LEMMA OrderStep ==
  ASSUME IInv, Next
  PROVE  Order'
<1> USE DEF IInv
<1>1. ASSUME NEW c \in Chan, Receive(c) PROVE Order'
  BY <1>1, ReceiveOrder
<1>2. ASSUME NEW c \in Chan, AddOrPass(c) PROVE Order'
  <2>1. UNCHANGED <<next, leftover, item>> /\ hand' = [hand EXCEPT ![c] = None]
        /\ gor' = [gor EXCEPT ![c] = "fill"] /\ Push(OutOf[c], hand[c]) /\ gor[c] = "filling"
    BY <1>2 DEF AddOrPass, sinkVars
  <2> QED BY <2>1, PushOrder
<1>3. ASSUME NEW c \in Chan, Park(c) PROVE Order'
  BY <1>3, ParkOrder
<1>4. ASSUME NEW c \in Chan, FillEnd(c) PROVE Order'
  <2>1. ChanLine(c) /\ UNCHANGED <<next, hand, leftover, buf, item, fate>>
    BY <1>4 DEF FillEnd, Order, Lined, bufVars, sinkVars
  <2>2. \A d \in Chan : gor'[d] # gor[d] =>
            /\ {gor[d], gor'[d]} \cap {"filling", "enqueuing"} = {}
            /\ gor'[d] = "filled" \/ leftover[d] = None
    BY <1>4, <2>1 DEF FillEnd, ChanLine, Typed
  <2> QED BY <2>1, <2>2, SameLine
<1>5. ASSUME NEW c \in Chan, Enqueue(c) PROVE Order'
  <2>1. UNCHANGED <<next, leftover, item>> /\ hand' = [hand EXCEPT ![c] = None]
        /\ gor' = [gor EXCEPT ![c] = "waking"] /\ Push(OutOf[c], hand[c]) /\ gor[c] = "enqueuing"
    BY <1>5 DEF Enqueue, sinkVars
  <2> QED BY <2>1, PushOrder
<1>6. ASSUME NEW c \in Chan, EnqueueEOS(c) PROVE Order'
  <2>1. ChanLine(c) /\ UNCHANGED <<next, hand, leftover, buf, item, fate>>
    BY <1>6 DEF EnqueueEOS, Order, Lined, sinkVars
  <2>2. \A d \in Chan : gor'[d] # gor[d] =>
            /\ {gor[d], gor'[d]} \cap {"filling", "enqueuing"} = {}
            /\ gor'[d] = "filled" \/ leftover[d] = None
    BY <1>6, <2>1 DEF EnqueueEOS, ChanLine, Typed
  <2> QED BY <2>1, <2>2, SameLine
<1>7. ASSUME NEW c \in Chan, Notify(c) PROVE Order'
  <2>1. ChanLine(c) /\ UNCHANGED <<next, hand, leftover, buf, item, fate>>
    BY <1>7 DEF Notify, Order, Lined, sinkVars
  <2>2. \A d \in Chan : gor'[d] # gor[d] =>
            /\ {gor[d], gor'[d]} \cap {"filling", "enqueuing"} = {}
            /\ gor'[d] = "filled" \/ leftover[d] = None
    BY <1>7, <2>1 DEF Notify, ChanLine, Typed, AfterWake
  <2> QED BY <2>1, <2>2, SameLine
<1>8. ASSUME NEW o \in Output, OutputReady(o) PROVE Order'
  BY <1>8, SameLine DEF OutputReady, chanVars, bufVars, sinkVars, ctxVars
<1>9. ASSUME NEW o \in Output, WaitCancelled(o) PROVE Order'
  BY <1>9, SameLine DEF WaitCancelled, chanVars, bufVars, sinkVars, ctxVars
<1>10. ASSUME NEW o \in Output, Drain(o) PROVE Order'
  BY <1>10, DrainOrder
<1>11. ASSUME NEW o \in Output, Write(o) PROVE Order'
  BY <1>11, WriteOrder
<1>12. ASSUME NEW o \in Output, Flushed(o) PROVE Order'
  BY <1>12, SameLine DEF Flushed, chanVars, bufVars, sinkVars, ctxVars
<1>13. ASSUME NEW o \in Output, WriteLeftover(o) PROVE Order'
  BY <1>13, LeftoverOrder
<1>14. ASSUME NEW o \in Output, StartRolling(o) PROVE Order'
  <2>1. UNCHANGED <<next, hand, leftover, buf, item, fate>>
    BY <1>14 DEF StartRolling, bufVars
  <2>2. \A d \in Chan : gor'[d] # gor[d] =>
            /\ {gor[d], gor'[d]} \cap {"filling", "enqueuing"} = {}
            /\ gor'[d] = "filled" \/ leftover[d] = None
    BY <1>14 DEF StartRolling, AllFilled
  <2> QED BY <2>1, <2>2, SameLine
<1>15. ASSUME NEW o \in Output, TakePaced(o) PROVE Order'
  BY <1>15, TakePacedOrder
<1>16. ASSUME NEW o \in Output, TakeNothing(o) PROVE Order'
  BY <1>16, SameLine DEF TakeNothing, chanVars, bufVars, sinkVars, ctxVars
<1>17. ASSUME NEW o \in Output, Wakeup(o) PROVE Order'
  BY <1>17, SameLine DEF Wakeup, chanVars, bufVars, sinkVars, ctxVars
<1>18. ASSUME NEW o \in Output, IdleCancelled(o) PROVE Order'
  BY <1>18, SameLine DEF IdleCancelled, chanVars, bufVars, sinkVars, ctxVars
<1>19. ASSUME NEW o \in Output, WriteFails(o) PROVE Order'
  BY <1>19, WriteFailsOrder
<1>20. ASSUME NEW o \in Output, Close(o) PROVE Order'
  BY <1>20, CloseOrder
<1>21. ASSUME UpstreamStops PROVE Order'
  BY <1>21, SameLine DEF UpstreamStops, chanVars, bufVars, sinkVars, ctxVars
<1>22. ASSUME GraphReady PROVE Order'
  BY <1>22, SameLine DEF GraphReady, chanVars, bufVars, sinkVars, ctxVars
<1>23. ASSUME GraphStops PROVE Order'
  BY <1>23, SameLine DEF GraphStops, chanVars, bufVars, sinkVars, ctxVars
<1>24. ASSUME OutsideCancel PROVE Order'
  BY <1>24, SameLine DEF OutsideCancel, chanVars, bufVars, sinkVars, ctxVars
<1> QED
  BY <1>1, <1>2, <1>3, <1>4, <1>5, <1>6, <1>7, <1>8, <1>9, <1>10, <1>11, <1>12, <1>13, <1>14, <1>15, <1>16, <1>17, <1>18, <1>19, <1>20, <1>21, <1>22, <1>23, <1>24 DEF Next, ChanStep, SinkStep

LEMMA PhasesStep ==
  ASSUME IInv, Next
  PROVE  Phases'
<1> USE DEF IInv, Typed, Phases, Chans, Filling
<1>1. ASSUME NEW c \in Chan, Receive(c) PROVE Phases'
  BY <1>1 DEF Receive, chanVars, bufVars, sinkVars, ctxVars
<1>2. ASSUME NEW c \in Chan, AddOrPass(c) PROVE Phases'
  <2>1. /\ UNCHANGED <<pc, item>> /\ gor[c] = "filling" /\ gor' = [gor EXCEPT ![c] = "fill"]
        /\ \A o \in Output : o # OutOf[c] => buf'[o] = buf[o]
    BY <1>2 DEF AddOrPass, Push, sinkVars
  <2>2. OutOf[c] \in Output /\ state[OutOf[c]] # "STREAMING"
    BY <1>2, FeedAssumption DEF AddOrPass, Streaming
  <2>3. \A o \in Output : state[o] = "STREAMING" => state'[o] = "STREAMING"
    BY <1>2 DEF AddOrPass, MarkReady
  <2> QED BY <2>1, <2>2, <2>3
<1>3. ASSUME NEW c \in Chan, Park(c) PROVE Phases'
  BY <1>3 DEF Park, chanVars, bufVars, sinkVars, ctxVars
<1>4. ASSUME NEW c \in Chan, FillEnd(c) PROVE Phases'
  BY <1>4 DEF FillEnd, chanVars, bufVars, sinkVars, ctxVars
<1>5. ASSUME NEW c \in Chan, Enqueue(c) PROVE Phases'
  <2>1. /\ UNCHANGED <<pc, item, state>> /\ gor[c] = "enqueuing" /\ gor' = [gor EXCEPT ![c] = "waking"]
        /\ \A o \in Output : o # OutOf[c] => buf'[o] = buf[o]
    BY <1>5 DEF Enqueue, Push, sinkVars
  <2>2. OutOf[c] \in Output /\ c \in Chans(OutOf[c])
    BY FeedAssumption
  <2>3. pc[OutOf[c]] \notin {"fill", "graph", "flush", "join"}
    BY <2>1, <2>2
  <2> QED BY <2>1, <2>2, <2>3
<1>6. ASSUME NEW c \in Chan, EnqueueEOS(c) PROVE Phases'
  BY <1>6 DEF EnqueueEOS, chanVars, bufVars, sinkVars, ctxVars
<1>7. ASSUME NEW c \in Chan, Notify(c) PROVE Phases'
  BY <1>7 DEF Notify, AfterWake, chanVars, bufVars, sinkVars, ctxVars
<1>8. ASSUME NEW o \in Output, OutputReady(o) PROVE Phases'
  BY <1>8 DEF OutputReady, MarkReady, Goto, chanVars, bufVars, sinkVars, ctxVars
<1>9. ASSUME NEW o \in Output, WaitCancelled(o) PROVE Phases'
  BY <1>9 DEF WaitCancelled, Return, Goto, chanVars, bufVars, sinkVars, ctxVars
<1>10. ASSUME NEW o \in Output, Drain(o) PROVE Phases'
  BY <1>10 DEF Drain, AfterDrain, Goto, chanVars, bufVars, sinkVars, ctxVars
<1>11. ASSUME NEW o \in Output, Write(o) PROVE Phases'
  <2>1. /\ pc[o] \in {"flush", "write"} /\ UNCHANGED <<buf, state, gor>>
        /\ item' = [item EXCEPT ![o] = Tail(item[o])]
        /\ pc' = [pc EXCEPT ![o] = IF pc[o] = "write" THEN "roll" ELSE "flush"]
    BY <1>11 DEF Write, Goto, bufVars, chanVars
  <2>2. pc[o] = "write" => Tail(item[o]) = <<>>
    <3> SUFFICES ASSUME pc[o] = "write" PROVE Tail(item[o]) = <<>>
      OBVIOUS
    <3>1. item[o] \in Seq(Packet) /\ Len(item[o]) = 1 /\ item[o] # <<>> /\ Ascends(item[o])
      BY <1>11 DEF Write, Order, Lined, QueueLine
    <3>2. Tail(item[o]) \in Seq(Packet) /\ Len(Tail(item[o])) = 0
      BY <3>1, TailLine
    <3> QED BY <3>2, EmptySeq
  <2> QED BY <2>1, <2>2
<1>12. ASSUME NEW o \in Output, Flushed(o) PROVE Phases'
  BY <1>12 DEF Flushed, Goto, chanVars, bufVars, sinkVars, ctxVars
<1>13. ASSUME NEW o \in Output, WriteLeftover(o) PROVE Phases'
  BY <1>13 DEF WriteLeftover, Return, Goto, chanVars, bufVars, sinkVars, ctxVars
<1>14. ASSUME NEW o \in Output, StartRolling(o) PROVE Phases'
  BY <1>14 DEF StartRolling, Goto, chanVars, bufVars, sinkVars, ctxVars
<1>15. ASSUME NEW o \in Output, TakePaced(o) PROVE Phases'
  <2>1. Len(item'[o]) = 1
    BY <1>15, TakePacedOrder
  <2>2. /\ pc' = [pc EXCEPT ![o] = "write"] /\ UNCHANGED <<state, gor>> /\ pc[o] = "roll"
        /\ \A u \in Output : u # o => buf'[u] = buf[u] /\ item'[u] = item[u]
    BY <1>15 DEF TakePaced, Goto, chanVars
  <2> QED BY <2>1, <2>2
<1>16. ASSUME NEW o \in Output, TakeNothing(o) PROVE Phases'
  BY <1>16 DEF TakeNothing, Finish, Return, Goto, chanVars, bufVars, sinkVars, ctxVars
<1>17. ASSUME NEW o \in Output, Wakeup(o) PROVE Phases'
  BY <1>17 DEF Wakeup, Goto, chanVars, bufVars, sinkVars, ctxVars
<1>18. ASSUME NEW o \in Output, IdleCancelled(o) PROVE Phases'
  BY <1>18 DEF IdleCancelled, Finish, Return, Goto, chanVars, bufVars, sinkVars, ctxVars
<1>19. ASSUME NEW o \in Output, WriteFails(o) PROVE Phases'
  BY <1>19 DEF WriteFails, Return, Goto, chanVars, bufVars, sinkVars, ctxVars
<1>20. ASSUME NEW o \in Output, Close(o) PROVE Phases'
  BY <1>20 DEF Close, RunOver, chanVars, bufVars, sinkVars, ctxVars
<1>21. ASSUME UpstreamStops PROVE Phases'
  BY <1>21 DEF UpstreamStops, chanVars, bufVars, sinkVars, ctxVars
<1>22. ASSUME GraphReady PROVE Phases'
  BY <1>22 DEF GraphReady, chanVars, bufVars, sinkVars, ctxVars
<1>23. ASSUME GraphStops PROVE Phases'
  BY <1>23 DEF GraphStops, chanVars, bufVars, sinkVars, ctxVars
<1>24. ASSUME OutsideCancel PROVE Phases'
  BY <1>24 DEF OutsideCancel, chanVars, bufVars, sinkVars, ctxVars
<1> QED
  BY <1>1, <1>2, <1>3, <1>4, <1>5, <1>6, <1>7, <1>8, <1>9, <1>10, <1>11, <1>12, <1>13, <1>14, <1>15, <1>16, <1>17, <1>18, <1>19, <1>20, <1>21, <1>22, <1>23, <1>24 DEF Next, ChanStep, SinkStep

LEMMA GateStep ==
  ASSUME IInv, Next
  PROVE  Gate'
<1> USE DEF IInv, Typed, Gate
<1>1. ASSUME NEW c \in Chan, Receive(c) PROVE Gate'
  BY <1>1 DEF Receive, Set, chanVars, bufVars, sinkVars, ctxVars
<1>2. ASSUME NEW c \in Chan, AddOrPass(c) PROVE Gate'
  <2>1. \A o \in Output : ready[o] => ready'[o]
    BY <1>2 DEF AddOrPass, MarkReady
  <2>2. \A p \in Packet : fate'[p] = "written" => fate[p] = "written"
    BY <1>2 DEF AddOrPass, Push, Set
  <2> QED BY <1>2, <2>1, <2>2 DEF AddOrPass, sinkVars
<1>3. ASSUME NEW c \in Chan, Park(c) PROVE Gate'
  BY <1>3 DEF Park, chanVars, bufVars, sinkVars, ctxVars
<1>4. ASSUME NEW c \in Chan, FillEnd(c) PROVE Gate'
  BY <1>4 DEF FillEnd, chanVars, bufVars, sinkVars, ctxVars
<1>5. ASSUME NEW c \in Chan, Enqueue(c) PROVE Gate'
  <2>1. \A p \in Packet : fate'[p] = "written" => fate[p] = "written"
    BY <1>5 DEF Enqueue, Push, Set
  <2> QED BY <1>5, <2>1 DEF Enqueue, sinkVars
<1>6. ASSUME NEW c \in Chan, EnqueueEOS(c) PROVE Gate'
  BY <1>6 DEF EnqueueEOS, chanVars, bufVars, sinkVars, ctxVars
<1>7. ASSUME NEW c \in Chan, Notify(c) PROVE Gate'
  BY <1>7 DEF Notify, AfterWake, chanVars, bufVars, sinkVars, ctxVars
<1>8. ASSUME NEW o \in Output, OutputReady(o) PROVE Gate'
  BY <1>8 DEF OutputReady, MarkReady, Goto, chanVars, bufVars, sinkVars, ctxVars
<1>9. ASSUME NEW o \in Output, WaitCancelled(o) PROVE Gate'
  BY <1>9 DEF WaitCancelled, Return, Goto, chanVars, bufVars, sinkVars, ctxVars
<1>10. ASSUME NEW o \in Output, Drain(o) PROVE Gate'
  BY <1>10 DEF Drain, GateOpen, AfterDrain, Goto, chanVars, bufVars, sinkVars, ctxVars
<1>11. ASSUME NEW o \in Output, Write(o) PROVE Gate'
  BY <1>11 DEF Write, Set, Goto, chanVars, bufVars, sinkVars, ctxVars
<1>12. ASSUME NEW o \in Output, Flushed(o) PROVE Gate'
  BY <1>12 DEF Flushed, Goto, chanVars, bufVars, sinkVars, ctxVars
<1>13. ASSUME NEW o \in Output, WriteLeftover(o) PROVE Gate'
  BY <1>13 DEF WriteLeftover, Return, Goto, chanVars, bufVars, sinkVars, ctxVars
<1>14. ASSUME NEW o \in Output, StartRolling(o) PROVE Gate'
  BY <1>14 DEF StartRolling, Goto, chanVars, bufVars, sinkVars, ctxVars
<1>15. ASSUME NEW o \in Output, TakePaced(o) PROVE Gate'
  BY <1>15 DEF TakePaced, Goto, chanVars, bufVars, sinkVars, ctxVars
<1>16. ASSUME NEW o \in Output, TakeNothing(o) PROVE Gate'
  BY <1>16 DEF TakeNothing, Finish, Return, Goto, chanVars, bufVars, sinkVars, ctxVars
<1>17. ASSUME NEW o \in Output, Wakeup(o) PROVE Gate'
  BY <1>17 DEF Wakeup, Goto, chanVars, bufVars, sinkVars, ctxVars
<1>18. ASSUME NEW o \in Output, IdleCancelled(o) PROVE Gate'
  BY <1>18 DEF IdleCancelled, Finish, Return, Goto, chanVars, bufVars, sinkVars, ctxVars
<1>19. ASSUME NEW o \in Output, WriteFails(o) PROVE Gate'
  BY <1>19 DEF WriteFails, Return, Goto, chanVars, bufVars, sinkVars, ctxVars
<1>20. ASSUME NEW o \in Output, Close(o) PROVE Gate'
  BY <1>20 DEF Close, Set, chanVars, bufVars, sinkVars, ctxVars
<1>21. ASSUME UpstreamStops PROVE Gate'
  BY <1>21 DEF UpstreamStops, chanVars, bufVars, sinkVars, ctxVars
<1>22. ASSUME GraphReady PROVE Gate'
  BY <1>22 DEF GraphReady, chanVars, bufVars, sinkVars, ctxVars
<1>23. ASSUME GraphStops PROVE Gate'
  BY <1>23 DEF GraphStops, chanVars, bufVars, sinkVars, ctxVars
<1>24. ASSUME OutsideCancel PROVE Gate'
  BY <1>24 DEF OutsideCancel, chanVars, bufVars, sinkVars, ctxVars
<1> QED
  BY <1>1, <1>2, <1>3, <1>4, <1>5, <1>6, <1>7, <1>8, <1>9, <1>10, <1>11, <1>12, <1>13, <1>14, <1>15, <1>16, <1>17, <1>18, <1>19, <1>20, <1>21, <1>22, <1>23, <1>24 DEF Next, ChanStep, SinkStep

(* The count of the ended channels, and when it says that all have.         *)
LEMMA Channels ==
  ASSUME NEW o \in Output
  PROVE  IsFiniteSet(Chans(o)) /\ IsFiniteSet(Told(o)) /\ Told(o) \subseteq Chans(o)
         /\ Cardinality(Chans(o)) \in Nat /\ Cardinality(Told(o)) \in Nat
         /\ Cardinality(Told(o)) <= Cardinality(Chans(o))
         /\ (Cardinality(Told(o)) >= Cardinality(Chans(o)) => Told(o) = Chans(o))
<1>1. Chans(o) \subseteq Chan /\ Told(o) \subseteq Chans(o)
  BY DEF Chans, Told
<1>2. IsFiniteSet(Chans(o))
  BY <1>1, FS_Subset, FeedAssumption
<1>3. /\ Cardinality(Told(o)) <= Cardinality(Chans(o)) /\ IsFiniteSet(Told(o))
      /\ Cardinality(Chans(o)) = Cardinality(Told(o)) => Chans(o) = Told(o)
  BY <1>1, <1>2, FS_Subset
<1>4. Cardinality(Chans(o)) \in Nat /\ Cardinality(Told(o)) \in Nat
  BY <1>2, <1>3, FS_CardinalityType
<1> QED BY <1>1, <1>2, <1>3, <1>4

(* Only EnqueueEOS ends a channel for the buffer. *)
LEMMA ToldOn ==
  ASSUME Typed, \A o \in Output : eos[o] = Cardinality(Told(o)), UNCHANGED eos,
         \A c \in Chan : gor'[c] \in {"lastwake", "ended"} <=> gor[c] \in {"lastwake", "ended"}
  PROVE  \A o \in Output : Told(o)' = Told(o) /\ eos'[o] = Cardinality(Told(o)')
<1>1. ASSUME NEW o \in Output PROVE Told(o)' = Told(o)
  BY DEF Told, Chans
<1> QED BY <1>1

LEMMA EndsStep ==
  ASSUME IInv, Next
  PROVE  Ends'
<1> USE DEF IInv, Typed
<1> DEFINE Tally == \A o \in Output : eos[o] = Cardinality(Told(o))
           Calm == /\ \A c \in Chan : gor[c] \in {"lastwake", "ended"} => AtEnd(c)
                   /\ cut => cancelled
                   /\ \A o \in Output : ret[o] # "nil" => cancelled
                   /\ \A p \in Packet : fate[p] \in {"closed", "lost"} => cancelled
           Done == \A o \in Output : pc[o] = "returned" /\ ~cancelled =>
                                        buf[o] = <<>> /\ Told(o) = Chans(o)
<1>a. Ends <=> Tally /\ Calm /\ Done
  BY DEF Ends
<1>b. ASSUME Tally', Calm', Done' PROVE Ends'
  BY <1>b DEF Ends
<1>c. ASSUME UNCHANGED <<gor, eos>> PROVE Tally' /\ \A o \in Output : Told(o)' = Told(o)
  BY <1>a, <1>c, ToldOn
<1>1. ASSUME NEW c \in Chan, Receive(c) PROVE Ends'
    <2>1. UNCHANGED eos /\ \A d \in Chan : gor'[d] \in {"lastwake", "ended"} <=> gor[d] \in {"lastwake", "ended"}
    BY <1>1 DEF Receive, chanVars, bufVars, sinkVars, ctxVars
  <2>2. Tally' /\ \A o \in Output : Told(o)' = Told(o)
    BY <1>a, <2>1, ToldOn
  <2>3. Calm'
    BY <1>1, <1>a, <2>1 DEF AtEnd, Receive, Set, chanVars, bufVars, sinkVars, ctxVars
  <2>4. Done'
    BY <1>1, <1>a, <2>2 DEF Receive, Set, chanVars, bufVars, sinkVars, ctxVars
  <2> QED BY <1>b, <2>2, <2>3, <2>4
<1>2. ASSUME NEW c \in Chan, AddOrPass(c) PROVE Ends'
  <2>1. UNCHANGED eos /\ gor[c] = "filling" /\ \A d \in Chan : gor'[d] \in {"lastwake", "ended"} <=> gor[d] \in {"lastwake", "ended"}
    BY <1>2 DEF AddOrPass
  <2>2. Tally' /\ \A o \in Output : Told(o)' = Told(o)
    BY <1>a, <2>1, ToldOn
  <2>3. \A p \in Packet : fate'[p] \in {"closed", "lost"} => fate[p] \in {"closed", "lost"}
    BY <1>2 DEF AddOrPass, Push, Set
  <2>4. UNCHANGED <<next, cut, ret, pc, cancelled>> /\ \A o \in Output : o # OutOf[c] => buf'[o] = buf[o]
    BY <1>2 DEF AddOrPass, Push, sinkVars, ctxVars
  <2>5. Calm'
    BY <1>a, <2>1, <2>3, <2>4 DEF AtEnd
  <2>6. c \in Chans(OutOf[c]) /\ c \notin Told(OutOf[c])
    BY <2>1 DEF Chans, Told
  <2>7. Done'
    BY <1>a, <2>2, <2>4, <2>6
  <2> QED BY <1>b, <2>2, <2>5, <2>7
<1>3. ASSUME NEW c \in Chan, Park(c) PROVE Ends'
    <2>1. UNCHANGED eos /\ \A d \in Chan : gor'[d] \in {"lastwake", "ended"} <=> gor[d] \in {"lastwake", "ended"}
    BY <1>3 DEF Park, chanVars, bufVars, sinkVars, ctxVars
  <2>2. Tally' /\ \A o \in Output : Told(o)' = Told(o)
    BY <1>a, <2>1, ToldOn
  <2>3. Calm'
    BY <1>3, <1>a, <2>1 DEF AtEnd, Park, chanVars, bufVars, sinkVars, ctxVars
  <2>4. Done'
    BY <1>3, <1>a, <2>2 DEF Park, chanVars, bufVars, sinkVars, ctxVars
  <2> QED BY <1>b, <2>2, <2>3, <2>4
<1>4. ASSUME NEW c \in Chan, FillEnd(c) PROVE Ends'
    <2>1. UNCHANGED eos /\ \A d \in Chan : gor'[d] \in {"lastwake", "ended"} <=> gor[d] \in {"lastwake", "ended"}
    BY <1>4 DEF FillEnd, chanVars, bufVars, sinkVars, ctxVars
  <2>2. Tally' /\ \A o \in Output : Told(o)' = Told(o)
    BY <1>a, <2>1, ToldOn
  <2>3. Calm'
    BY <1>4, <1>a, <2>1 DEF AtEnd, FillEnd, chanVars, bufVars, sinkVars, ctxVars
  <2>4. Done'
    BY <1>4, <1>a, <2>2 DEF FillEnd, chanVars, bufVars, sinkVars, ctxVars
  <2> QED BY <1>b, <2>2, <2>3, <2>4
<1>5. ASSUME NEW c \in Chan, Enqueue(c) PROVE Ends'
  <2>1. UNCHANGED eos /\ gor[c] = "enqueuing" /\ \A d \in Chan : gor'[d] \in {"lastwake", "ended"} <=> gor[d] \in {"lastwake", "ended"}
    BY <1>5 DEF Enqueue
  <2>2. Tally' /\ \A o \in Output : Told(o)' = Told(o)
    BY <1>a, <2>1, ToldOn
  <2>3. \A p \in Packet : fate'[p] \in {"closed", "lost"} => fate[p] \in {"closed", "lost"}
    BY <1>5 DEF Enqueue, Push, Set
  <2>4. UNCHANGED <<next, cut, ret, pc, cancelled>> /\ \A o \in Output : o # OutOf[c] => buf'[o] = buf[o]
    BY <1>5 DEF Enqueue, Push, sinkVars, ctxVars
  <2>5. Calm'
    BY <1>a, <2>1, <2>3, <2>4 DEF AtEnd
  <2>6. c \in Chans(OutOf[c]) /\ c \notin Told(OutOf[c])
    BY <2>1 DEF Chans, Told
  <2>7. Done'
    BY <1>a, <2>2, <2>4, <2>6
  <2> QED BY <1>b, <2>2, <2>5, <2>7
<1>6. ASSUME NEW c \in Chan, EnqueueEOS(c) PROVE Ends'
  <2>1. /\ gor[c] = "produce" /\ AtEnd(c) /\ eos' = [eos EXCEPT ![OutOf[c]] = eos[OutOf[c]] + 1]
        /\ gor' = [gor EXCEPT ![c] = "lastwake"]
        /\ UNCHANGED <<next, cut, ret, pc, cancelled, fate, buf>>
    BY <1>6 DEF EnqueueEOS, sinkVars, ctxVars
  <2>2. OutOf[c] \in Output /\ c \in Chans(OutOf[c]) /\ c \notin Told(OutOf[c])
    BY <2>1, FeedAssumption DEF Chans, Told
  <2>3. Calm'
    BY <1>a, <2>1 DEF AtEnd
  <2>4. ASSUME NEW o \in Output PROVE Told(o)' = IF o = OutOf[c] THEN Told(o) \cup {c} ELSE Told(o)
    BY <2>1, <2>2 DEF Told, Chans
  <2>5. ASSUME NEW o \in Output PROVE eos'[o] = Cardinality(Told(o)')
    <3>1. CASE o = OutOf[c]
      <4>1. Cardinality(Told(o) \cup {c}) = Cardinality(Told(o)) + 1
        BY <2>2, <3>1, Channels, FS_AddElement
      <4> QED BY <1>a, <2>1, <2>4, <3>1, <4>1
    <3>2. CASE o # OutOf[c]
      BY <1>a, <2>1, <2>4, <3>2
    <3> QED BY <3>1, <3>2
  <2>6. Done'
    <3> SUFFICES ASSUME NEW o \in Output, pc'[o] = "returned", ~cancelled'
                 PROVE  buf'[o] = <<>> /\ Told(o)' = Chans(o)
      BY DEF Chans
    <3>1. buf[o] = <<>> /\ Told(o) = Chans(o)
      BY <1>a, <2>1
    <3>2. o # OutOf[c]
      BY <2>2, <3>1
    <3> QED BY <2>1, <2>4, <3>1, <3>2
  <2>7. Tally'
    BY <2>5
  <2> QED BY <1>b, <2>3, <2>6, <2>7
<1>7. ASSUME NEW c \in Chan, Notify(c) PROVE Ends'
    <2>1. UNCHANGED eos /\ \A d \in Chan : gor'[d] \in {"lastwake", "ended"} <=> gor[d] \in {"lastwake", "ended"}
    BY <1>7 DEF Notify, AfterWake, chanVars, bufVars, sinkVars, ctxVars
  <2>2. Tally' /\ \A o \in Output : Told(o)' = Told(o)
    BY <1>a, <2>1, ToldOn
  <2>3. Calm'
    BY <1>7, <1>a, <2>1 DEF AtEnd, Notify, AfterWake, chanVars, bufVars, sinkVars, ctxVars
  <2>4. Done'
    BY <1>7, <1>a, <2>2 DEF Notify, AfterWake, chanVars, bufVars, sinkVars, ctxVars
  <2> QED BY <1>b, <2>2, <2>3, <2>4
<1>8. ASSUME NEW o \in Output, OutputReady(o) PROVE Ends'
    <2>1. UNCHANGED <<gor, eos>>
    BY <1>8 DEF OutputReady, chanVars, bufVars, sinkVars, ctxVars
  <2>2. Calm'
    BY <1>8, <1>a DEF AtEnd, OutputReady, MarkReady, Goto, chanVars, bufVars, sinkVars, ctxVars
  <2>3. Done'
    BY <1>8, <1>a, <1>c, <2>1 DEF OutputReady, MarkReady, Goto, chanVars, bufVars, sinkVars, ctxVars
  <2> QED BY <1>b, <1>c, <2>1, <2>2, <2>3
<1>9. ASSUME NEW o \in Output, WaitCancelled(o) PROVE Ends'
    <2>1. UNCHANGED <<gor, eos>>
    BY <1>9 DEF WaitCancelled, chanVars, bufVars, sinkVars, ctxVars
  <2>2. Calm'
    BY <1>9, <1>a DEF AtEnd, WaitCancelled, Return, Goto, chanVars, bufVars, sinkVars, ctxVars
  <2>3. Done'
    BY <1>9, <1>a, <1>c, <2>1 DEF WaitCancelled, Return, Goto, chanVars, bufVars, sinkVars, ctxVars
  <2> QED BY <1>b, <1>c, <2>1, <2>2, <2>3
<1>10. ASSUME NEW o \in Output, Drain(o) PROVE Ends'
    <2>1. UNCHANGED <<gor, eos>>
    BY <1>10 DEF Drain, chanVars, bufVars, sinkVars, ctxVars
  <2>2. Calm'
    BY <1>10, <1>a DEF AtEnd, Drain, AfterDrain, Goto, chanVars, bufVars, sinkVars, ctxVars
  <2>3. Done'
    BY <1>10, <1>a, <1>c, <2>1 DEF Drain, AfterDrain, Goto, chanVars, bufVars, sinkVars, ctxVars
  <2> QED BY <1>b, <1>c, <2>1, <2>2, <2>3
<1>11. ASSUME NEW o \in Output, Write(o) PROVE Ends'
    <2>1. UNCHANGED <<gor, eos>>
    BY <1>11 DEF Write, chanVars, bufVars, sinkVars, ctxVars
  <2>2. Calm'
    BY <1>11, <1>a DEF AtEnd, Write, Set, Goto, chanVars, bufVars, sinkVars, ctxVars
  <2>3. Done'
    BY <1>11, <1>a, <1>c, <2>1 DEF Write, Set, Goto, chanVars, bufVars, sinkVars, ctxVars
  <2> QED BY <1>b, <1>c, <2>1, <2>2, <2>3
<1>12. ASSUME NEW o \in Output, Flushed(o) PROVE Ends'
    <2>1. UNCHANGED <<gor, eos>>
    BY <1>12 DEF Flushed, chanVars, bufVars, sinkVars, ctxVars
  <2>2. Calm'
    BY <1>12, <1>a DEF AtEnd, Flushed, Goto, chanVars, bufVars, sinkVars, ctxVars
  <2>3. Done'
    BY <1>12, <1>a, <1>c, <2>1 DEF Flushed, Goto, chanVars, bufVars, sinkVars, ctxVars
  <2> QED BY <1>b, <1>c, <2>1, <2>2, <2>3
<1>13. ASSUME NEW o \in Output, WriteLeftover(o) PROVE Ends'
  <2>1. UNCHANGED <<gor, eos, buf, next, cut>> /\ pc[o] = "join"
    BY <1>13 DEF WriteLeftover, bufVars
  <2>2. /\ pc' = pc /\ ret' = ret /\ UNCHANGED ctxVars
           /\ \A p \in Packet : fate'[p] \in {"closed", "lost"} => fate[p] \in {"closed", "lost"}
        \/ /\ Return(o, "err")
    BY <1>13 DEF WriteLeftover, Set
  <2>3. cancelled' \/ /\ UNCHANGED <<pc, ret, cancelled>>
                      /\ \A p \in Packet : fate'[p] \in {"closed", "lost"} => fate[p] \in {"closed", "lost"}
    BY <2>2 DEF Return, ctxVars
  <2>4. cut' => cancelled'
    BY <1>a, <2>1, <2>2 DEF Return, ctxVars
  <2>5. Calm'
    BY <1>a, <2>1, <2>3, <2>4 DEF AtEnd
  <2>6. Done'
    BY <1>a, <1>c, <2>1, <2>3 DEF Chans
  <2> QED BY <1>b, <1>c, <2>1, <2>5, <2>6
<1>14. ASSUME NEW o \in Output, StartRolling(o) PROVE Ends'
  <2>1. UNCHANGED eos /\ \A d \in Chan : gor'[d] \in {"lastwake", "ended"} <=> gor[d] \in {"lastwake", "ended"}
    BY <1>14 DEF StartRolling, AllFilled, chanVars, bufVars, sinkVars, ctxVars
  <2>2. Tally' /\ \A x \in Output : Told(x)' = Told(x)
    BY <1>a, <2>1, ToldOn
  <2>3. Calm'
    BY <1>14, <1>a, <2>1 DEF AtEnd, StartRolling, Goto, chanVars, bufVars, sinkVars, ctxVars
  <2>4. Done'
    BY <1>14, <1>a, <2>2 DEF StartRolling, Goto, chanVars, bufVars, sinkVars, ctxVars
  <2> QED BY <1>b, <2>2, <2>3, <2>4
<1>15. ASSUME NEW o \in Output, TakePaced(o) PROVE Ends'
    <2>1. UNCHANGED <<gor, eos>>
    BY <1>15 DEF TakePaced, chanVars, bufVars, sinkVars, ctxVars
  <2>2. Calm'
    BY <1>15, <1>a DEF AtEnd, TakePaced, Goto, chanVars, bufVars, sinkVars, ctxVars
  <2>3. Done'
    BY <1>15, <1>a, <1>c, <2>1 DEF TakePaced, Goto, chanVars, bufVars, sinkVars, ctxVars
  <2> QED BY <1>b, <1>c, <2>1, <2>2, <2>3
<1>16. ASSUME NEW o \in Output, TakeNothing(o) PROVE Ends'
  <2>1. UNCHANGED <<gor, eos, buf, next, cut, fate>> /\ buf[o] = <<>>
    BY <1>16 DEF TakeNothing, chanVars, bufVars
  <2>2. Calm'
    BY <1>16, <1>a DEF AtEnd, TakeNothing, Finish, Return, Goto, chanVars, bufVars, ctxVars
  <2>3. ASSUME pc'[o] = "returned" PROVE Told(o) = Chans(o)
    <3>1. AllDone(o)
      BY <1>16, <2>3 DEF TakeNothing, Goto
    <3> QED BY <1>a, <3>1, Channels DEF AllDone
  <2>4. \A u \in Output : u # o => pc'[u] = pc[u]
    BY <1>16 DEF TakeNothing, Finish, Return, Goto
  <2>5. cancelled => cancelled'
    BY <1>16 DEF TakeNothing, Finish, Return, ctxVars
  <2>6. Done'
    <3> SUFFICES ASSUME NEW u \in Output, pc'[u] = "returned", ~cancelled'
                 PROVE  buf'[u] = <<>> /\ Told(u)' = Chans(u)
      BY DEF Chans
    <3> QED BY <1>a, <1>c, <2>1, <2>3, <2>4, <2>5
  <2> QED BY <1>b, <1>c, <2>1, <2>2, <2>6
<1>17. ASSUME NEW o \in Output, Wakeup(o) PROVE Ends'
    <2>1. UNCHANGED <<gor, eos>>
    BY <1>17 DEF Wakeup, chanVars, bufVars, sinkVars, ctxVars
  <2>2. Calm'
    BY <1>17, <1>a DEF AtEnd, Wakeup, Goto, chanVars, bufVars, sinkVars, ctxVars
  <2>3. Done'
    BY <1>17, <1>a, <1>c, <2>1 DEF Wakeup, Goto, chanVars, bufVars, sinkVars, ctxVars
  <2> QED BY <1>b, <1>c, <2>1, <2>2, <2>3
<1>18. ASSUME NEW o \in Output, IdleCancelled(o) PROVE Ends'
    <2>1. UNCHANGED <<gor, eos>>
    BY <1>18 DEF IdleCancelled, chanVars, bufVars, sinkVars, ctxVars
  <2>2. Calm'
    BY <1>18, <1>a DEF AtEnd, IdleCancelled, Finish, Return, Goto, chanVars, bufVars, sinkVars, ctxVars
  <2>3. Done'
    BY <1>18, <1>a, <1>c, <2>1 DEF IdleCancelled, Finish, Return, Goto, chanVars, bufVars, sinkVars, ctxVars
  <2> QED BY <1>b, <1>c, <2>1, <2>2, <2>3
<1>19. ASSUME NEW o \in Output, WriteFails(o) PROVE Ends'
    <2>1. UNCHANGED <<gor, eos>>
    BY <1>19 DEF WriteFails, chanVars, bufVars, sinkVars, ctxVars
  <2>2. Calm'
    BY <1>19, <1>a DEF AtEnd, WriteFails, Return, Goto, chanVars, bufVars, sinkVars, ctxVars
  <2>3. Done'
    BY <1>19, <1>a, <1>c, <2>1 DEF WriteFails, Return, Goto, chanVars, bufVars, sinkVars, ctxVars
  <2> QED BY <1>b, <1>c, <2>1, <2>2, <2>3
<1>20. ASSUME NEW o \in Output, Close(o) PROVE Ends'
    <2>1. UNCHANGED <<gor, eos>>
    BY <1>20 DEF Close, chanVars, bufVars, sinkVars, ctxVars
  <2>2. Calm'
    BY <1>20, <1>a, NoMembers DEF AtEnd, Close, Set, RunOver, chanVars, bufVars, sinkVars, ctxVars
  <2>3. Done'
    BY <1>20, <1>a, <1>c, <2>1 DEF Close, Set, RunOver, chanVars, bufVars, sinkVars, ctxVars
  <2> QED BY <1>b, <1>c, <2>1, <2>2, <2>3
<1>21. ASSUME UpstreamStops PROVE Ends'
    <2>1. UNCHANGED <<gor, eos>>
    BY <1>21 DEF UpstreamStops, chanVars, bufVars, sinkVars, ctxVars
  <2>2. Calm'
    BY <1>21, <1>a DEF AtEnd, UpstreamStops, chanVars, bufVars, sinkVars, ctxVars
  <2>3. Done'
    BY <1>21, <1>a, <1>c, <2>1 DEF UpstreamStops, chanVars, bufVars, sinkVars, ctxVars
  <2> QED BY <1>b, <1>c, <2>1, <2>2, <2>3
<1>22. ASSUME GraphReady PROVE Ends'
    <2>1. UNCHANGED <<gor, eos>>
    BY <1>22 DEF GraphReady, chanVars, bufVars, sinkVars, ctxVars
  <2>2. Calm'
    BY <1>22, <1>a DEF AtEnd, GraphReady, chanVars, bufVars, sinkVars, ctxVars
  <2>3. Done'
    BY <1>22, <1>a, <1>c, <2>1 DEF GraphReady, chanVars, bufVars, sinkVars, ctxVars
  <2> QED BY <1>b, <1>c, <2>1, <2>2, <2>3
<1>23. ASSUME GraphStops PROVE Ends'
    <2>1. UNCHANGED <<gor, eos>>
    BY <1>23 DEF GraphStops, chanVars, bufVars, sinkVars, ctxVars
  <2>2. Calm'
    BY <1>23, <1>a DEF AtEnd, GraphStops, chanVars, bufVars, sinkVars, ctxVars
  <2>3. Done'
    BY <1>23, <1>a, <1>c, <2>1 DEF GraphStops, chanVars, bufVars, sinkVars, ctxVars
  <2> QED BY <1>b, <1>c, <2>1, <2>2, <2>3
<1>24. ASSUME OutsideCancel PROVE Ends'
    <2>1. UNCHANGED <<gor, eos>>
    BY <1>24 DEF OutsideCancel, chanVars, bufVars, sinkVars, ctxVars
  <2>2. Calm'
    BY <1>24, <1>a DEF AtEnd, OutsideCancel, chanVars, bufVars, sinkVars, ctxVars
  <2>3. Done'
    BY <1>24, <1>a, <1>c, <2>1 DEF OutsideCancel, chanVars, bufVars, sinkVars, ctxVars
  <2> QED BY <1>b, <1>c, <2>1, <2>2, <2>3
<1> QED
  BY <1>1, <1>2, <1>3, <1>4, <1>5, <1>6, <1>7, <1>8, <1>9, <1>10, <1>11, <1>12, <1>13, <1>14, <1>15, <1>16, <1>17, <1>18, <1>19, <1>20, <1>21, <1>22, <1>23, <1>24 DEF Next, ChanStep, SinkStep

(***************************************************************************)
(* The theorems.                                                           *)
(***************************************************************************)
LEMMA InitIInv == Init => IInv
<1> SUFFICES ASSUME Init PROVE IInv
  OBVIOUS
<1>1. Typed
  <2>1. /\ next \in [Chan -> Nat \ {0}] /\ gor \in [Chan -> {"fill"}]
        /\ hand \in [Chan -> Maybe(Packet)] /\ leftover \in [Chan -> Maybe(Packet)]
    BY DEF Init, Maybe
  <2>2. /\ buf \in [Output -> Seq(Packet)] /\ item \in [Output -> Seq(Packet)]
        /\ state \in [Output -> States] /\ pc \in [Output -> {"fill"}]
    BY NoMembers DEF Init, States
  <2>3. /\ ready \in [Output -> BOOLEAN] /\ notify \in [Output -> BOOLEAN]
        /\ eos \in [Output -> Nat] /\ ret \in [Output -> {"nil"}]
        /\ fate \in [Packet -> {"upstream"}]
    BY DEF Init
  <2> QED BY <2>1, <2>2, <2>3 DEF Init, Typed
<1>2. Lined
  BY NoMembers DEF Init, Lined, QueueLine, ChanLine
<1>3. Placed
  <2> SUFFICES ASSUME NEW p \in Packet PROVE fate[p] = "upstream" /\ ~InPlace(p) /\ p[2] >= next[p[1]]
    BY DEF Placed
  <2>1. p[1] \in Chan /\ p[2] \in Nat \ {0} /\ Of(p) \in Output /\ p # None
    BY PacketPair
  <2>2. ~InPlace(p)
    BY <2>1, NoMembers DEF Init, InPlace
  <2> QED BY <2>1, <2>2 DEF Init
<1>4. OldestFirst /\ Gate /\ Phases
  BY DEF Init, OldestFirst, Gate, Phases, Chans, Filling
<1>5. Ends
  <2>1. \A o \in Output : Told(o) = {}
    BY DEF Init, Told, Chans
  <2> QED BY <2>1, FS_EmptySet DEF Init, Ends, Chans, Told
<1> QED BY <1>1, <1>2, <1>3, <1>4, <1>5 DEF IInv, Order

LEMMA StepIInv == IInv /\ [Next]_vars => IInv'
<1>1. ASSUME IInv, Next PROVE IInv'
  BY <1>1, TypedStep, OrderStep, GateStep, PhasesStep, EndsStep DEF IInv
<1>2. ASSUME IInv, UNCHANGED vars PROVE IInv'
  <2> USE <1>2 DEF vars, chanVars, bufVars, sinkVars, ctxVars, IInv
  <2>1. Typed' /\ Gate' /\ Phases'
    BY DEF Typed, Gate, Phases, Chans
  <2>2. Order'
    BY SameLine
  <2>3. Ends'
    <3>1. \A o \in Output : Told(o)' = Told(o) /\ eos'[o] = Cardinality(Told(o)')
      BY ToldOn DEF Ends
    <3> QED BY <3>1 DEF Ends, AtEnd
  <2> QED BY <2>1, <2>2, <2>3
<1> QED BY <1>1, <1>2

(* The inductive invariant of the output buffer and the sink around it.     *)
THEOREM Invariant == Spec => []IInv
BY InitIInv, StepIInv, PTL DEF Spec

(* Every variable keeps its type, and no output hears of more ends than it  *)
(* has channels.                                                            *)
THEOREM TypeCorrect == Spec => []TypeOK
<1>1. IInv => TypeOK
  <2> SUFFICES ASSUME IInv PROVE TypeOK
    OBVIOUS
  <2>1. \A o \in Output : eos[o] \in 0..Cardinality(Chans(o))
    BY Channels DEF IInv, Ends
  <2> QED BY <2>1 DEF IInv, Typed, TypeOK
<1> QED BY <1>1, Invariant, PTL

(* No output writes before all of them are ready (the gate of graphReady).  *)
THEOREM WritesStartTogether == Spec => []GatedStart
<1>1. IInv => GatedStart
  BY DEF IInv, Gate, GatedStart
<1> QED BY <1>1, Invariant, PTL

(* A packet that is still to be closed is in exactly one place.             *)
THEOREM OneOwner == Spec => []OnePlace
<1>1. IInv => OnePlace
  <2> SUFFICES ASSUME IInv PROVE OnePlace
    OBVIOUS
  <2>a. Typed /\ Order /\ Lined /\ Placed
    BY DEF IInv, Order
  <2> DEFINE held == {h \in Held : h[3] # None}
             BufOf(o) == {<<"buf", <<o, i>>, buf[o][i]>> : i \in DOMAIN buf[o]}
             ItemOf(o) == {<<"item", <<o, i>>, item[o][i]>> : i \in DOMAIN item[o]}
             HandAt(h, c) == h = <<"hand", c, hand[c]>> /\ hand[c] \in Packet /\ hand[c][1] = c
             LateAt(h, c) == h = <<"leftover", c, leftover[c]>> /\ leftover[c] \in Packet
                             /\ leftover[c][1] = c
             BufAt(h, o, i) == h = <<"buf", <<o, i>>, buf[o][i]>> /\ buf[o][i] \in Packet
                               /\ Of(buf[o][i]) = o /\ buf[o][i] \in Members(buf[o])
             ItemAt(h, o, i) == h = <<"item", <<o, i>>, item[o][i]>> /\ item[o][i] \in Packet
                               /\ Of(item[o][i]) = o /\ item[o][i] \in Members(item[o])
             Somewhere(h) == \/ \E c \in Chan : HandAt(h, c)
                             \/ \E c \in Chan : LateAt(h, c)
                             \/ \E o \in Output : \E i \in DOMAIN buf[o] : BufAt(h, o, i)
                             \/ \E o \in Output : \E i \in DOMAIN item[o] : ItemAt(h, o, i)
  <2>0. \A h : h \in Held <=> \/ \E c \in Chan : h = <<"hand", c, hand[c]>>
                              \/ \E c \in Chan : h = <<"leftover", c, leftover[c]>>
                              \/ \E o \in Output : h \in BufOf(o)
                              \/ \E o \in Output : h \in ItemOf(o)
    <3> DEFINE A == {<<"hand", c, hand[c]>> : c \in Chan}
               B == {<<"leftover", c, leftover[c]>> : c \in Chan}
               C == UNION {BufOf(o) : o \in Output}
               D == UNION {ItemOf(o) : o \in Output}
    <3>1. Held = A \cup B \cup C \cup D
      BY DEF Held
    <3>2. \A h : h \in A <=> \E c \in Chan : h = <<"hand", c, hand[c]>>
      OBVIOUS
    <3>3. \A h : h \in B <=> \E c \in Chan : h = <<"leftover", c, leftover[c]>>
      OBVIOUS
    <3> HIDE DEF BufOf, ItemOf
    <3>4. \A h : h \in C <=> \E o \in Output : h \in BufOf(o)
      OBVIOUS
    <3>5. \A h : h \in D <=> \E o \in Output : h \in ItemOf(o)
      OBVIOUS
    <3> HIDE DEF A, B, C, D
    <3>6. \A h : h \in Held <=> h \in A \/ h \in B \/ h \in C \/ h \in D
      BY <3>1
    <3> QED BY <3>2, <3>3, <3>4, <3>5, <3>6
  <2>1. ASSUME NEW c \in Chan
        PROVE  /\ hand[c] # None => hand[c] \in Packet /\ hand[c][1] = c
               /\ leftover[c] # None => leftover[c] \in Packet /\ leftover[c][1] = c
    BY <2>a DEF Typed, Lined, ChanLine, Maybe
  <2>2. ASSUME NEW o \in Output
        PROVE  /\ \A i \in DOMAIN buf[o] : /\ buf[o][i] \in Packet /\ Of(buf[o][i]) = o
                                           /\ buf[o][i] \in Members(buf[o]) /\ buf[o][i] # None
               /\ \A i \in DOMAIN item[o] : /\ item[o][i] \in Packet /\ Of(item[o][i]) = o
                                            /\ item[o][i] \in Members(item[o]) /\ item[o][i] # None
    <3>1. buf[o] \in Seq(Packet) /\ item[o] \in Seq(Packet) /\ QueueLine(o)
      BY <2>a DEF Typed, Lined
    <3>2. Members(buf[o]) \subseteq Packet /\ Members(item[o]) \subseteq Packet
      BY <3>1, MembersArePackets
    <3> QED BY <3>1, <3>2, CapAssumption DEF QueueLine, Members
  <2>3. ASSUME NEW h \in held PROVE Somewhere(h) /\ h[3] \in Packet
    <3>1. \/ \E c \in Chan : h = <<"hand", c, hand[c]>>
          \/ \E c \in Chan : h = <<"leftover", c, leftover[c]>>
          \/ \E o \in Output : \E i \in DOMAIN buf[o] : h = <<"buf", <<o, i>>, buf[o][i]>>
          \/ \E o \in Output : \E i \in DOMAIN item[o] : h = <<"item", <<o, i>>, item[o][i]>>
      BY <2>0
    <3> QED BY <3>1, <2>1, <2>2
  <2>4. ASSUME NEW p \in Packet, InPlace(p) PROVE \E h \in held : h[3] = p
    <3>1. p[1] \in Chan /\ Of(p) \in Output /\ p # None
      BY PacketPair
    <3>2. CASE hand[p[1]] = p
      <4>1. <<"hand", p[1], hand[p[1]]>> \in Held
        BY <2>0, <3>1
      <4> QED BY <3>1, <3>2, <4>1
    <3>3. CASE leftover[p[1]] = p
      <4>1. <<"leftover", p[1], leftover[p[1]]>> \in Held
        BY <2>0, <3>1
      <4> QED BY <3>1, <3>3, <4>1
    <3>4. CASE p \in Members(buf[Of(p)])
      <4>1. PICK i \in DOMAIN buf[Of(p)] : buf[Of(p)][i] = p
        BY <3>4 DEF Members
      <4>2. <<"buf", <<Of(p), i>>, buf[Of(p)][i]>> \in Held
        BY <2>0, <3>1
      <4> QED BY <3>1, <4>1, <4>2
    <3>5. CASE p \in Members(item[Of(p)])
      <4>1. PICK i \in DOMAIN item[Of(p)] : item[Of(p)][i] = p
        BY <3>5 DEF Members
      <4>2. <<"item", <<Of(p), i>>, item[Of(p)][i]>> \in Held
        BY <2>0, <3>1
      <4> QED BY <3>1, <4>1, <4>2
    <3> QED BY <2>4, <3>2, <3>3, <3>4, <3>5 DEF InPlace
  <2>5. ASSUME NEW h \in held PROVE InPlace(h[3])
    BY <2>3 DEF InPlace
  <2>6. {h[3] : h \in held} = {p \in Packet : fate[p] = "alive"}
    BY <2>a, <2>3, <2>4, <2>5 DEF Placed
  <2>7. ASSUME NEW b \in Seq(Packet), Ascends(b), NEW i \in DOMAIN b, NEW j \in DOMAIN b, b[i] = b[j]
        PROVE  i = j
    <3>1. DOMAIN b = 1..Len(b) /\ Len(b) \in Nat /\ b[i] \in Packet /\ b[i][2] \in Nat
      BY LenProperties, ElementOfSeq, PacketPair
    <3>2. ~(b[i][2] < b[i][2])
      BY <3>1
    <3>3. ~(i < j) /\ ~(j < i)
      BY <2>7, <3>2 DEF Ascends, Before
    <3> QED BY <3>1, <3>3
  <2>8. ASSUME NEW h \in held, NEW k \in held, h[3] = k[3] PROVE h = k
    <3>1. PICK p \in Packet : h[3] = p /\ k[3] = p
      BY <2>3, <2>8
    <3>2. Somewhere(h) /\ Somewhere(k) /\ Of(p) \in Output
      BY <2>3, PacketPair
    <3>3. /\ (\E c \in Chan : HandAt(h, c)) => hand[p[1]] = p /\ h = <<"hand", p[1], p>>
          /\ (\E c \in Chan : LateAt(h, c)) => leftover[p[1]] = p /\ h = <<"leftover", p[1], p>>
          /\ (\E o \in Output : \E i \in DOMAIN buf[o] : BufAt(h, o, i)) =>
                p \in Members(buf[Of(p)]) /\ \E i \in DOMAIN buf[Of(p)] :
                   buf[Of(p)][i] = p /\ h = <<"buf", <<Of(p), i>>, p>>
          /\ (\E o \in Output : \E i \in DOMAIN item[o] : ItemAt(h, o, i)) =>
                p \in Members(item[Of(p)]) /\ \E i \in DOMAIN item[Of(p)] :
                   item[Of(p)][i] = p /\ h = <<"item", <<Of(p), i>>, p>>
      BY <3>1
    <3>4. /\ (\E c \in Chan : HandAt(k, c)) => hand[p[1]] = p /\ k = <<"hand", p[1], p>>
          /\ (\E c \in Chan : LateAt(k, c)) => leftover[p[1]] = p /\ k = <<"leftover", p[1], p>>
          /\ (\E o \in Output : \E i \in DOMAIN buf[o] : BufAt(k, o, i)) =>
                p \in Members(buf[Of(p)]) /\ \E i \in DOMAIN buf[Of(p)] :
                   buf[Of(p)][i] = p /\ k = <<"buf", <<Of(p), i>>, p>>
          /\ (\E o \in Output : \E i \in DOMAIN item[o] : ItemAt(k, o, i)) =>
                p \in Members(item[Of(p)]) /\ \E i \in DOMAIN item[Of(p)] :
                   item[Of(p)][i] = p /\ k = <<"item", <<Of(p), i>>, p>>
      BY <3>1
    <3>5. /\ \A i, j \in DOMAIN buf[Of(p)] : buf[Of(p)][i] = p /\ buf[Of(p)][j] = p => i = j
          /\ \A i, j \in DOMAIN item[Of(p)] : item[Of(p)][i] = p /\ item[Of(p)][j] = p => i = j
      BY <2>a, <2>7, <3>2 DEF Typed, Lined, QueueLine
    <3> HIDE DEF HandAt, LateAt, BufAt, ItemAt
    <3> QED BY <2>a, <3>2, <3>3, <3>4, <3>5, Apart
  <2> HIDE DEF held
  <2>9. {h \in Held : h[3] # None} = held
    BY DEF held
  <2> QED BY <2>6, <2>8, <2>9 DEF OnePlace
<1> QED BY <1>1, Invariant, PTL

(* An output that returns nil in a run nobody cancelled has written all its *)
(* packets but those the cap evicted.                                       *)
THEOREM NilIsComplete == Spec => []NilMeansWritten
<1>1. IInv => NilMeansWritten
  <2> SUFFICES ASSUME IInv, NEW o \in Output, pc[o] = "returned", ~cancelled,
                      NEW p \in Packet, p[1] \in Chans(o)
               PROVE  fate[p] \in {"written", "evicted"}
    BY DEF NilMeansWritten
  <2>a. Typed /\ Lined /\ Placed /\ Phases /\ Ends
    BY DEF IInv, Order
  <2>1. buf[o] = <<>> /\ item[o] = <<>> /\ Told(o) = Chans(o)
    BY <2>a DEF Ends, Phases
  <2>2. p[1] \in Chan /\ gor[p[1]] \in {"lastwake", "ended"} /\ p # None /\ Of(p) = o
    BY <2>1, PacketPair DEF Told, Chans, Of
  <2>3. hand[p[1]] = None /\ leftover[p[1]] = None
    BY <2>a, <2>2 DEF Lined, ChanLine
  <2>4. ~InPlace(p)
    BY <2>1, <2>2, <2>3, NoMembers DEF InPlace
  <2>5. next[p[1]] > Len(Feed[p[1]])
    BY <2>a, <2>2 DEF Ends, AtEnd
  <2>6. ~(p[2] >= next[p[1]])
    <3>1. p[2] \in 1..Len(Feed[p[1]]) /\ Len(Feed[p[1]]) \in Nat /\ next[p[1]] \in Nat
      BY <2>a, <2>2, PacketPair, FeedAssumption, LenProperties DEF Typed
    <3> QED BY <2>5, <3>1
  <2>7. fate[p] \notin {"alive", "upstream", "closed", "lost"}
    BY <2>a, <2>4, <2>6 DEF Placed, Ends
  <2> QED BY <2>a, <2>7 DEF Typed
<1> QED BY <1>1, Invariant, PTL

(* A packet is never written after a later one of its stream.               *)
THEOREM StreamOrder == Spec => InOrder
<1> DEFINE Step == \A c \in Chan : \A i, j \in DOMAIN Feed[c] :
          i < j /\ fate'[<<c, i>>] = "written" /\ fate[<<c, i>>] # "written"
             => fate[<<c, j>>] # "written"
<1>1. ASSUME IInv, Next, NEW p \in Packet, fate'[p] = "written", fate[p] # "written"
      PROVE  fate[p] = "alive"
  <2>a. Typed /\ Order
    BY <1>1 DEF IInv
  <2>1. \/ \E o \in Output : Write(o) \/ WriteLeftover(o)
        \/ \A q \in Packet : fate'[q] = "written" => fate[q] = "written"
    <3>1. ASSUME NEW c \in Chan, ChanStep(c)
          PROVE  \A q \in Packet : fate'[q] = "written" => fate[q] = "written"
      BY <3>1 DEF ChanStep, Receive, AddOrPass, Park, FillEnd, Enqueue, EnqueueEOS, Notify, Push, Set
    <3>2. ASSUME NEW o \in Output, SinkStep(o), ~Write(o), ~WriteLeftover(o) PROVE UNCHANGED fate
      BY <3>2 DEF SinkStep, OutputReady, WaitCancelled, Drain, Flushed, StartRolling, TakePaced,
                  TakeNothing, Wakeup, IdleCancelled
    <3>3. ASSUME NEW o \in Output, WriteFails(o) \/ Close(o)
          PROVE  \A q \in Packet : fate'[q] = "written" => fate[q] = "written"
      BY <3>3 DEF WriteFails, Close, Set
    <3>4. ASSUME UpstreamStops \/ GraphReady \/ GraphStops \/ OutsideCancel PROVE UNCHANGED fate
      BY <3>4 DEF UpstreamStops, GraphReady, GraphStops, OutsideCancel
    <3> QED BY <1>1, <3>1, <3>2, <3>3, <3>4 DEF Next
  <2>2. ASSUME NEW o \in Output, Write(o) PROVE fate[p] = "alive"
    <3>1. item[o] \in Seq(Packet) /\ item[o] # <<>> /\ QueueLine(o) /\ p = Head(item[o])
      BY <1>1, <2>2, <2>a DEF Write, Set, Typed, Order, Lined
    <3>2. p \in Members(item[o]) /\ Of(p) = o
      BY <3>1, TailLine DEF QueueLine
    <3> QED BY <2>a, <3>2 DEF Order, Placed, InPlace
  <2>3. ASSUME NEW o \in Output, WriteLeftover(o) PROVE fate[p] = "alive"
    <3>1. PICK c \in Chans(o) : leftover[c] # None /\ p = leftover[c]
      BY <1>1, <2>3 DEF WriteLeftover, Set
    <3>2. c \in Chan /\ ChanLine(c)
      BY <2>a, <3>1 DEF Chans, Order, Lined
    <3>3. p[1] = c
      BY <3>1, <3>2 DEF ChanLine
    <3> QED BY <2>a, <3>1, <3>3 DEF Order, Placed, InPlace
  <2> QED BY <1>1, <2>1, <2>2, <2>3
<1>2. ASSUME IInv, [Next]_vars PROVE Step
  <2> SUFFICES ASSUME NEW c \in Chan, NEW i \in DOMAIN Feed[c], NEW j \in DOMAIN Feed[c], i < j,
                      fate'[<<c, i>>] = "written", fate[<<c, i>>] # "written"
               PROVE  fate[<<c, j>>] # "written"
    OBVIOUS
  <2>1. Len(Feed[c]) \in Nat /\ DOMAIN Feed[c] = 1..Len(Feed[c])
    BY FeedAssumption, LenProperties
  <2>2. <<c, i>> \in Packet /\ <<c, j>> \in Packet
    <3>1. \A k \in DOMAIN Feed[c] : <<c, k>> \in {<<c, m>> : m \in DOMAIN Feed[c]}
      OBVIOUS
    <3> QED BY <3>1 DEF Packet
  <2>3. fate[<<c, i>>] = "alive"
    <3>1. Next
      BY <1>2 DEF vars
    <3> QED BY <1>1, <1>2, <2>2, <3>1
  <2>4. fate[<<c, j>>] = "written" => j < i
    BY <1>2, <2>2, <2>3 DEF IInv, Order, OldestFirst
  <2> QED BY <2>1, <2>4
<1>3. Spec => [][IInv /\ [Next]_vars]_vars
  BY Invariant, PTL DEF Spec
<1>4. [IInv /\ [Next]_vars]_vars => [Step]_vars
  BY <1>2
<1> HIDE DEF Step
<1>5. Spec => [][Step]_vars
  BY <1>3, <1>4, PTL
<1> QED BY <1>5 DEF Step, InOrder
=============================================================================
