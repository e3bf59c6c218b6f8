--------------------------- MODULE SchedulerProofs ---------------------------
(***************************************************************************)
(* Proofs about Scheduler, for every graph, capacity and number of values. *)
(***************************************************************************)
EXTENDS Scheduler, SequenceTheorems, TLAPS

(* The owners of a value are pairwise different, and so are those of the   *)
(* values on two edges or in two handlers.                                 *)
LEMMA OwnersDiffer ==
  /\ Free # Lost
  /\ \A e : OnEdge(e) # Free /\ OnEdge(e) # Lost
  /\ \A n : HeldBy(n) # Free /\ HeldBy(n) # Lost
  /\ \A e : FwdOf(e) # Free /\ FwdOf(e) # Lost
  /\ \A n : MsgOf(n) # Free /\ MsgOf(n) # Lost
  /\ \A e, n : OnEdge(e) # HeldBy(n) /\ OnEdge(e) # FwdOf(n) /\ OnEdge(e) # MsgOf(n)
  /\ \A e, n : HeldBy(e) # FwdOf(n) /\ HeldBy(e) # MsgOf(n) /\ FwdOf(e) # MsgOf(n)
  /\ \A e, f : OnEdge(e) = OnEdge(f) => e = f
  /\ \A e, f : HeldBy(e) = HeldBy(f) => e = f
  /\ \A e, f : FwdOf(e) = FwdOf(f) => e = f
  /\ \A e, f : MsgOf(e) = MsgOf(f) => e = f
BY DEF Free, Lost, OnEdge, HeldBy, FwdOf, MsgOf

(* Alloc returns a value nobody owns. *)
LEMMA FreshIsFree == CanAlloc => Fresh \in Value /\ owner[Fresh] = Free
BY DEF CanAlloc, Fresh

(* Receiving from a channel: what remains is the channel shifted by one.   *)
LEMMA TailElements ==
  ASSUME NEW S, NEW s \in Seq(S), s # <<>>
  PROVE  /\ Tail(s) \in Seq(S) /\ Head(s) \in S /\ Head(s) = s[1]
         /\ 1 \in DOMAIN s
         /\ \A i \in DOMAIN Tail(s) : i + 1 \in DOMAIN s /\ i \in Nat /\ Tail(s)[i] = s[i + 1]
         /\ \A i \in DOMAIN s : i # 1 => i - 1 \in DOMAIN Tail(s) /\ Tail(s)[i - 1] = s[i]
<1>1. Len(s) \in Nat /\ Len(s) > 0 /\ DOMAIN s = 1..Len(s)
  BY EmptySeq, LenProperties
<1>2. /\ Tail(s) \in Seq(S) /\ Head(s) \in S /\ Head(s) = s[1] /\ Len(Tail(s)) = Len(s) - 1
      /\ \A i \in 1..Len(Tail(s)) : Tail(s)[i] = s[i + 1]
  BY HeadTailProperties
<1>3. DOMAIN Tail(s) = 1..(Len(s) - 1)
  BY <1>2, LenProperties
<1> QED
  BY <1>1, <1>2, <1>3

LEMMA EmptyDomain == DOMAIN <<>> = {} /\ Len(<<>>) = 0
<1>1. <<>> \in Seq({}) /\ Len(<<>>) = 0
  BY EmptySeq
<1>2. DOMAIN <<>> = 1..Len(<<>>)
  BY <1>1, LenProperties
<1> QED
  BY <1>1, <1>2

LEMMA TailOfSeveral ==
  ASSUME NEW S, NEW s \in Seq(S), Len(s) > 1
  PROVE  Tail(s) # <<>>
<1>1. s # <<>> /\ Len(s) \in Nat
  BY EmptySeq, LenProperties
<1>2. Len(Tail(s)) = Len(s) - 1 /\ Tail(s) \in Seq(S)
  BY <1>1, HeadTailProperties
<1>3. Len(Tail(s)) # 0
  BY <1>1, <1>2
<1>4. ASSUME Tail(s) = <<>> PROVE Len(Tail(s)) = 0
  BY <1>4, EmptySeq
<1> QED
  BY <1>3, <1>4

(* Sending on a channel: the old contents and the new value at the end.    *)
LEMMA AppendElements ==
  ASSUME NEW S, NEW s \in Seq(S), NEW x \in S
  PROVE  /\ Append(s, x) \in Seq(S)
         /\ \A i \in DOMAIN s : i \in DOMAIN Append(s, x) /\ Append(s, x)[i] = s[i]
         /\ \E i \in DOMAIN Append(s, x) : Append(s, x)[i] = x
         /\ \A i \in DOMAIN Append(s, x) :
              \/ i \in DOMAIN s /\ Append(s, x)[i] = s[i]
              \/ i = Len(s) + 1 /\ Append(s, x)[i] = x
<1>1. Len(s) \in Nat /\ DOMAIN s = 1..Len(s)
  BY LenProperties
<1>2. /\ Append(s, x) \in Seq(S) /\ Len(Append(s, x)) = Len(s) + 1
      /\ \A i \in 1..Len(s) : Append(s, x)[i] = s[i]
      /\ Append(s, x)[Len(s) + 1] = x
  BY AppendProperties
<1>3. DOMAIN Append(s, x) = 1..(Len(s) + 1)
  BY <1>2, LenProperties
<1> QED
  BY <1>1, <1>2, <1>3

-----------------------------------------------------------------------------
USE DEF handlerVars, inputVars, runVars

LEMMA OwnersTyped ==
  /\ Free \in Owners /\ Lost \in Owners
  /\ \A e \in Edge : OnEdge(e) \in Owners /\ FwdOf(e) \in Owners
  /\ \A n \in Node : HeldBy(n) \in Owners /\ MsgOf(n) \in Owners
BY DEF Owners

LEMMA Elements == ASSUME NEW S, NEW s \in Seq(S), NEW i \in DOMAIN s PROVE s[i] \in S
BY ElementOfSeq, LenProperties

(* Receiving from edge e: the head was owned by the edge, is nowhere else   *)
(* on any edge, and every other value stays on its edge.                    *)
LEMMA TakeKeeps ==
  ASSUME chan \in [Edge -> Seq(Value)], EdgeOwnership,
         NEW e \in Edge, chan[e] # <<>>, TakeFrom(e)
  PROVE  /\ chan' \in [Edge -> Seq(Value)]
         /\ Head(chan[e]) \in Value /\ owner[Head(chan[e])] = OnEdge(e)
         /\ \A f \in Edge : \A i \in DOMAIN chan'[f] :
              /\ owner[chan'[f][i]] = OnEdge(f)
              /\ chan'[f][i] # Head(chan[e])
         /\ \A f \in Edge : \A i, j \in DOMAIN chan'[f] : chan'[f][i] = chan'[f][j] => i = j
         /\ \A f \in Edge : \A i \in DOMAIN chan[f] :
              \/ chan[f][i] = Head(chan[e])
              \/ \E j \in DOMAIN chan'[f] : chan'[f][j] = chan[f][i]
<1> DEFINE s == chan[e]
<1>1. s \in Seq(Value)
  OBVIOUS
<1>2. /\ Tail(s) \in Seq(Value) /\ Head(s) \in Value /\ Head(s) = s[1] /\ 1 \in DOMAIN s
      /\ \A i \in DOMAIN Tail(s) : i + 1 \in DOMAIN s /\ i \in Nat /\ Tail(s)[i] = s[i + 1]
      /\ \A i \in DOMAIN s : i # 1 => i - 1 \in DOMAIN Tail(s) /\ Tail(s)[i - 1] = s[i]
  BY <1>1, TailElements
<1>3. chan' = [chan EXCEPT ![e] = Tail(s)]
  BY DEF TakeFrom
<1>4. chan' \in [Edge -> Seq(Value)] /\ chan'[e] = Tail(s) /\ \A f \in Edge : f # e => chan'[f] = chan[f]
  BY <1>2, <1>3
<1>5. owner[Head(s)] = OnEdge(e)
  BY <1>2 DEF EdgeOwnership
<1>6. ASSUME NEW f \in Edge
      PROVE  /\ \A i \in DOMAIN chan'[f] : owner[chan'[f][i]] = OnEdge(f) /\ chan'[f][i] # Head(s)
             /\ \A i, j \in DOMAIN chan'[f] : chan'[f][i] = chan'[f][j] => i = j
             /\ \A i \in DOMAIN chan[f] :
                  chan[f][i] = Head(s) \/ \E j \in DOMAIN chan'[f] : chan'[f][j] = chan[f][i]
  <2>1. CASE f = e
    <3>1. \A i \in DOMAIN Tail(s) : owner[Tail(s)[i]] = OnEdge(e) /\ Tail(s)[i] # Head(s)
      BY <1>2 DEF EdgeOwnership
    <3>2. \A i, j \in DOMAIN Tail(s) : Tail(s)[i] = Tail(s)[j] => i = j
      BY <1>2 DEF EdgeOwnership
    <3>3. \A i \in DOMAIN s : s[i] = Head(s) \/ \E j \in DOMAIN Tail(s) : Tail(s)[j] = s[i]
      BY <1>2
    <3> QED
      BY <2>1, <3>1, <3>2, <3>3, <1>4
  <2>2. CASE f # e
    <3>1. \A i \in DOMAIN chan[f] : owner[chan[f][i]] = OnEdge(f) /\ chan[f][i] # Head(s)
      BY <2>2, <1>5, OwnersDiffer DEF EdgeOwnership
    <3> QED
      BY <2>2, <3>1, <1>4 DEF EdgeOwnership
  <2> QED
    BY <2>1, <2>2
<1> QED
  BY <1>2, <1>4, <1>5, <1>6

(* Sending x on edge e, where it was not before: the old values stay, and   *)
(* x is on e exactly once.                                                  *)
SentOn(e, x) ==
    /\ chan' \in [Edge -> Seq(Value)]
    /\ \A f \in Edge : \A i \in DOMAIN chan'[f] :
         owner[chan'[f][i]] = OnEdge(f) \/ (f = e /\ chan'[f][i] = x)
    /\ \A f \in Edge : \A i, j \in DOMAIN chan'[f] : chan'[f][i] = chan'[f][j] => i = j
    /\ \A f \in Edge : \A i \in DOMAIN chan[f] : \E j \in DOMAIN chan'[f] : chan'[f][j] = chan[f][i]
    /\ \E j \in DOMAIN chan'[e] : chan'[e][j] = x

LEMMA SendKeeps ==
  ASSUME chan \in [Edge -> Seq(Value)], EdgeOwnership,
         NEW e \in Edge, NEW x \in Value, owner[x] # OnEdge(e),
         chan' = [chan EXCEPT ![e] = Append(@, x)]
  PROVE  SentOn(e, x)
<1> DEFINE s == chan[e]
           t == Append(s, x)
<1>1. s \in Seq(Value)
  OBVIOUS
<1>2. /\ t \in Seq(Value)
      /\ \A i \in DOMAIN s : i \in DOMAIN t /\ t[i] = s[i]
      /\ \E i \in DOMAIN t : t[i] = x
      /\ \A i \in DOMAIN t : (i \in DOMAIN s /\ t[i] = s[i]) \/ (i = Len(s) + 1 /\ t[i] = x)
  BY <1>1, AppendElements
<1>3. chan' = [chan EXCEPT ![e] = t]
  OBVIOUS
<1> HIDE DEF t
<1>4. chan' \in [Edge -> Seq(Value)] /\ chan'[e] = t /\ \A f \in Edge : f # e => chan'[f] = chan[f]
  BY <1>2, <1>3
<1>5. \A i \in DOMAIN s : owner[s[i]] = OnEdge(e) /\ s[i] # x
  BY DEF EdgeOwnership
<1>6. /\ \A i \in DOMAIN t : owner[t[i]] = OnEdge(e) \/ t[i] = x
      /\ \A i, j \in DOMAIN t : t[i] = t[j] => i = j
  BY <1>2, <1>5 DEF EdgeOwnership
<1>7. \A f \in Edge : \A i, j \in DOMAIN chan'[f] : chan'[f][i] = chan'[f][j] => i = j
  BY <1>4, <1>6 DEF EdgeOwnership
<1>8. \A f \in Edge : \A i \in DOMAIN chan'[f] : owner[chan'[f][i]] = OnEdge(f) \/ (f = e /\ chan'[f][i] = x)
  BY <1>4, <1>6 DEF EdgeOwnership
<1>9. \A f \in Edge : \A i \in DOMAIN chan[f] : \E j \in DOMAIN chan'[f] : chan'[f][j] = chan[f][i]
  BY <1>2, <1>4
<1> QED
  BY <1>2, <1>4, <1>7, <1>8, <1>9 DEF SentOn

(* The same for the message channel of a multi-input filter; only messages  *)
(* that carry a frame are owned.                                            *)
LEMMA MsgTakeKeeps ==
  ASSUME msg \in [Node -> Seq(Value \cup {None})], ForwarderOwnership,
         NEW n \in Node, msg[n] # <<>>, msg' = [msg EXCEPT ![n] = Tail(@)]
  PROVE  /\ msg' \in [Node -> Seq(Value \cup {None})]
         /\ Head(msg[n]) \in Value \cup {None}
         /\ Head(msg[n]) # None => owner[Head(msg[n])] = MsgOf(n)
         /\ \A m \in Node : \A i \in DOMAIN msg'[m] : msg'[m][i] # None =>
              owner[msg'[m][i]] = MsgOf(m) /\ msg'[m][i] # Head(msg[n])
         /\ \A m \in Node : \A i, j \in DOMAIN msg'[m] :
              msg'[m][i] # None /\ msg'[m][i] = msg'[m][j] => i = j
<1> DEFINE s == msg[n]
           t == Tail(s)
<1>1. s \in Seq(Value \cup {None})
  OBVIOUS
<1>2. /\ t \in Seq(Value \cup {None}) /\ Head(s) \in Value \cup {None} /\ Head(s) = s[1]
      /\ 1 \in DOMAIN s
      /\ \A i \in DOMAIN t : i + 1 \in DOMAIN s /\ i \in Nat /\ t[i] = s[i + 1]
  BY <1>1, TailElements
<1>3. msg' = [msg EXCEPT ![n] = t]
  OBVIOUS
<1> HIDE DEF t
<1>4. msg' \in [Node -> Seq(Value \cup {None})] /\ msg'[n] = t
      /\ \A m \in Node : m # n => msg'[m] = msg[m]
  BY <1>2, <1>3
<1>5. Head(s) # None => owner[Head(s)] = MsgOf(n)
  BY <1>2 DEF ForwarderOwnership
<1>6. \A i \in DOMAIN t : t[i] # None => owner[t[i]] = MsgOf(n) /\ t[i] # Head(s)
  BY <1>2 DEF ForwarderOwnership
<1>7. \A i, j \in DOMAIN t : t[i] # None /\ t[i] = t[j] => i = j
  BY <1>2 DEF ForwarderOwnership
<1>8. \A m \in Node : m # n => \A i \in DOMAIN msg[m] : msg[m][i] # None =>
         owner[msg[m][i]] = MsgOf(m) /\ msg[m][i] # Head(s)
  BY <1>5, OwnersDiffer DEF ForwarderOwnership
<1>9. \A m \in Node : \A i \in DOMAIN msg'[m] : msg'[m][i] # None =>
         owner[msg'[m][i]] = MsgOf(m) /\ msg'[m][i] # Head(msg[n])
  BY <1>4, <1>6, <1>8
<1>10. \A m \in Node : \A i, j \in DOMAIN msg'[m] :
         msg'[m][i] # None /\ msg'[m][i] = msg'[m][j] => i = j
  BY <1>4, <1>7 DEF ForwarderOwnership
<1> QED
  BY <1>2, <1>4, <1>5, <1>9, <1>10

LEMMA MsgSendKeeps ==
  ASSUME msg \in [Node -> Seq(Value \cup {None})], ForwarderOwnership,
         NEW n \in Node, NEW x \in Value \cup {None}, x # None => owner[x] # MsgOf(n),
         msg' = [msg EXCEPT ![n] = Append(@, x)]
  PROVE  /\ msg' \in [Node -> Seq(Value \cup {None})]
         /\ \A m \in Node : \A i \in DOMAIN msg'[m] : msg'[m][i] # None =>
              owner[msg'[m][i]] = MsgOf(m) \/ (m = n /\ msg'[m][i] = x)
         /\ \A m \in Node : \A i, j \in DOMAIN msg'[m] :
              msg'[m][i] # None /\ msg'[m][i] = msg'[m][j] => i = j
<1> DEFINE s == msg[n]
           t == Append(s, x)
<1>1. s \in Seq(Value \cup {None})
  OBVIOUS
<1>2. /\ t \in Seq(Value \cup {None})
      /\ \A i \in DOMAIN t : (i \in DOMAIN s /\ t[i] = s[i]) \/ (i = Len(s) + 1 /\ t[i] = x)
  BY <1>1, AppendElements
<1>3. msg' = [msg EXCEPT ![n] = t]
  OBVIOUS
<1> HIDE DEF t
<1>4. msg' \in [Node -> Seq(Value \cup {None})] /\ msg'[n] = t
      /\ \A m \in Node : m # n => msg'[m] = msg[m]
  BY <1>2, <1>3
<1>5. \A i \in DOMAIN s : s[i] # None => owner[s[i]] = MsgOf(n) /\ s[i] # x
  BY DEF ForwarderOwnership
<1>6. /\ \A i \in DOMAIN t : t[i] # None => owner[t[i]] = MsgOf(n) \/ t[i] = x
      /\ \A i, j \in DOMAIN t : t[i] # None /\ t[i] = t[j] => i = j
  BY <1>2, <1>5 DEF ForwarderOwnership
<1>7. \A m \in Node : \A i \in DOMAIN msg'[m] : msg'[m][i] # None =>
         owner[msg'[m][i]] = MsgOf(m) \/ (m = n /\ msg'[m][i] = x)
  BY <1>4, <1>6 DEF ForwarderOwnership
<1>8. \A m \in Node : \A i, j \in DOMAIN msg'[m] :
         msg'[m][i] # None /\ msg'[m][i] = msg'[m][j] => i = j
  BY <1>4, <1>6 DEF ForwarderOwnership
<1> QED
  BY <1>4, <1>7, <1>8

-----------------------------------------------------------------------------
(* Where the values are, as one inductive invariant.  Each way a value can  *)
(* change hands has a lemma; an action of the model is one of these moves.  *)
Places ==
    /\ chan \in [Edge -> Seq(Value)]
    /\ hold \in [Node -> Value \cup {None}] /\ dest \in [Node -> Seq(Edge)]
    /\ fv \in [Edge -> Value \cup {None}]
    /\ msg \in [Node -> Seq(Value \cup {None})]
    /\ owner \in [Value -> Owners]
    /\ Ownership /\ Accounted

places == <<chan, hold, dest, fv, msg, owner>>

(* Nothing moves. *)
LEMMA MoveNone == Places /\ UNCHANGED places => Places'
BY DEF Places, places, Ownership, EdgeOwnership, HandlerOwnership, ForwarderOwnership, Accounted

(* Only v changes owner: whoever did not own it and does not change keeps   *)
(* what it has.                                                             *)
LEMMA OthersKeep ==
  ASSUME Places, NEW v \in Value, NEW o \in Owners, Give(v, o)
  PROVE  /\ owner' \in [Value -> Owners] /\ owner'[v] = o
         /\ \A w \in Value : w # v => owner'[w] = owner[w]
         /\ (\A e \in Edge : owner[v] # OnEdge(e)) /\ UNCHANGED chan => EdgeOwnership'
         /\ (\A n \in Node : owner[v] # HeldBy(n)) /\ UNCHANGED <<hold, dest>> => HandlerOwnership'
         /\ (\A e \in Edge : owner[v] # FwdOf(e)) /\ (\A n \in Node : owner[v] # MsgOf(n))
              /\ UNCHANGED <<fv, msg>> => ForwarderOwnership'
<1> USE DEF Places, Ownership
<1>1. /\ owner' \in [Value -> Owners] /\ owner'[v] = o
      /\ \A w \in Value : w # v => owner'[w] = owner[w]
  BY DEF Give
<1>2. ASSUME \A e \in Edge : owner[v] # OnEdge(e), UNCHANGED chan PROVE EdgeOwnership'
  <2>1. \A e \in Edge : \A i \in DOMAIN chan[e] : chan[e][i] \in Value
    BY Elements
  <2> QED
    BY <1>1, <1>2, <2>1 DEF EdgeOwnership
<1>3. ASSUME \A n \in Node : owner[v] # HeldBy(n), UNCHANGED <<hold, dest>> PROVE HandlerOwnership'
  BY <1>1, <1>3 DEF HandlerOwnership
<1>4. ASSUME \A e \in Edge : owner[v] # FwdOf(e), \A n \in Node : owner[v] # MsgOf(n), UNCHANGED <<fv, msg>>
      PROVE  ForwarderOwnership'
  <2>1. \A n \in Node : \A i \in DOMAIN msg[n] : msg[n][i] \in Value \cup {None}
    BY Elements
  <2>2. \A e \in Edge : fv[e] # None => owner'[fv[e]] = FwdOf(e)
    BY <1>1, <1>4 DEF ForwarderOwnership
  <2>3. \A n \in Node : \A i \in DOMAIN msg[n] : msg[n][i] # None => owner'[msg[n][i]] = MsgOf(n)
    BY <1>1, <1>4, <2>1 DEF ForwarderOwnership
  <2> QED
    BY <1>4, <2>2, <2>3 DEF ForwarderOwnership
<1> QED
  BY <1>1, <1>2, <1>3, <1>4

(* A value is taken off an edge: the edges and the edge tags stay right.    *)
LEMMA MoveTake ==
  ASSUME Places, NEW e \in Edge, chan[e] # <<>>, NEW o \in Owners,
         \A f \in Edge : o # OnEdge(f), TakeFrom(e), Give(Head(chan[e]), o)
  PROVE  /\ chan' \in [Edge -> Seq(Value)]
         /\ Head(chan[e]) \in Value /\ owner[Head(chan[e])] = OnEdge(e)
         /\ owner' \in [Value -> Owners] /\ owner'[Head(chan[e])] = o
         /\ \A w \in Value : w # Head(chan[e]) => owner'[w] = owner[w]
         /\ EdgeOwnership'
         /\ UNCHANGED <<hold, dest>> => HandlerOwnership'
         /\ UNCHANGED <<fv, msg>> => ForwarderOwnership'
         /\ \A w \in Value : \A f \in Edge :
              owner'[w] = OnEdge(f) => \E i \in DOMAIN chan'[f] : chan'[f][i] = w
<1> DEFINE v == Head(chan[e])
<1>0. EdgeOwnership /\ chan \in [Edge -> Seq(Value)]
  BY DEF Ownership, Places
<1>1. /\ chan' \in [Edge -> Seq(Value)]
      /\ v \in Value /\ owner[v] = OnEdge(e)
      /\ \A f \in Edge : \A i \in DOMAIN chan'[f] : owner[chan'[f][i]] = OnEdge(f) /\ chan'[f][i] # v
      /\ \A f \in Edge : \A i, j \in DOMAIN chan'[f] : chan'[f][i] = chan'[f][j] => i = j
      /\ \A f \in Edge : \A i \in DOMAIN chan[f] :
           chan[f][i] = v \/ \E j \in DOMAIN chan'[f] : chan'[f][j] = chan[f][i]
  BY <1>0, TakeKeeps
<1> HIDE DEF v
<1>2. Give(v, o)
  BY DEF v
<1>2a. /\ \A n \in Node : owner[v] # HeldBy(n) /\ owner[v] # MsgOf(n)
       /\ \A f \in Edge : owner[v] # FwdOf(f)
  BY <1>1, OwnersDiffer
<1>3. /\ owner' \in [Value -> Owners] /\ owner'[v] = o
      /\ \A w \in Value : w # v => owner'[w] = owner[w]
      /\ UNCHANGED <<hold, dest>> => HandlerOwnership'
      /\ UNCHANGED <<fv, msg>> => ForwarderOwnership'
  BY <1>1, <1>2, <1>2a, OthersKeep
<1>4. \A f \in Edge : \A i \in DOMAIN chan'[f] : chan'[f][i] \in Value
  BY <1>1, Elements
<1>5. EdgeOwnership'
  BY <1>1, <1>3, <1>4 DEF EdgeOwnership
<1>6. ASSUME NEW w \in Value, NEW f \in Edge, owner'[w] = OnEdge(f)
      PROVE  \E i \in DOMAIN chan'[f] : chan'[f][i] = w
  <2>1. w # v /\ owner[w] = OnEdge(f)
    BY <1>3, <1>6
  <2>2. PICK i \in DOMAIN chan[f] : chan[f][i] = w
    BY <2>1 DEF Accounted, Places
  <2> QED
    BY <1>1, <2>1, <2>2
<1> QED
  BY <1>1, <1>3, <1>5, <1>6 DEF v

(* A value is received and Closed. *)
LEMMA MoveReceive ==
  ASSUME Places, NEW e \in Edge, chan[e] # <<>>,
         TakeFrom(e), Give(Head(chan[e]), Free), UNCHANGED <<hold, dest, fv, msg>>
  PROVE  Places'
<1>1. /\ chan' \in [Edge -> Seq(Value)] /\ Head(chan[e]) \in Value
      /\ owner' \in [Value -> Owners] /\ owner'[Head(chan[e])] = Free
      /\ \A w \in Value : w # Head(chan[e]) => owner'[w] = owner[w]
      /\ EdgeOwnership' /\ HandlerOwnership' /\ ForwarderOwnership'
      /\ \A w \in Value : \A f \in Edge :
           owner'[w] = OnEdge(f) => \E i \in DOMAIN chan'[f] : chan'[f][i] = w
  BY MoveTake, OwnersTyped, OwnersDiffer
<1>2. \A w \in Value : \A n \in Node : owner'[w] = HeldBy(n) => hold[n] = w
  BY <1>1, OwnersDiffer DEF Accounted, Places
<1> QED
  BY <1>1, <1>2 DEF Ownership, Accounted, Places

(* A copy node takes a packet in hand. *)
LEMMA MoveInHand ==
  ASSUME Places, NEW n \in Node, dest[n] = <<>>, NEW e \in Edge, chan[e] # <<>>,
         NEW s \in Seq(Edge), s # <<>>,
         TakeFrom(e), Give(Head(chan[e]), HeldBy(n)),
         hold' = [hold EXCEPT ![n] = Head(chan[e])], dest' = [dest EXCEPT ![n] = s],
         UNCHANGED <<fv, msg>>
  PROVE  Places'
<1>1. /\ chan' \in [Edge -> Seq(Value)] /\ Head(chan[e]) \in Value
      /\ owner[Head(chan[e])] = OnEdge(e)
      /\ owner' \in [Value -> Owners] /\ owner'[Head(chan[e])] = HeldBy(n)
      /\ \A w \in Value : w # Head(chan[e]) => owner'[w] = owner[w]
      /\ EdgeOwnership' /\ ForwarderOwnership'
      /\ \A w \in Value : \A f \in Edge :
           owner'[w] = OnEdge(f) => \E i \in DOMAIN chan'[f] : chan'[f][i] = w
  BY MoveTake, OwnersTyped, OwnersDiffer
<1>2. hold' \in [Node -> Value \cup {None}] /\ dest' \in [Node -> Seq(Edge)]
  BY <1>1 DEF Places
<1>3. HandlerOwnership'
  BY <1>1, BoundAssumption, OwnersDiffer DEF HandlerOwnership, Ownership, Places
<1>4. \A w \in Value : \A m \in Node : owner'[w] = HeldBy(m) => hold'[m] = w
  <2> SUFFICES ASSUME NEW w \in Value, NEW m \in Node, owner'[w] = HeldBy(m) PROVE hold'[m] = w
    OBVIOUS
  <2>1. CASE w = Head(chan[e])
    <3>1. m = n
      BY <1>1, <2>1, OwnersDiffer
    <3> QED
      BY <3>1, <2>1 DEF Places
  <2>2. CASE w # Head(chan[e])
    <3>1. hold[m] = w
      BY <1>1, <2>2 DEF Accounted, Places
    <3>2. hold[n] = None
      BY DEF HandlerOwnership, Ownership, Places
    <3> QED
      BY <3>1, <3>2, BoundAssumption
  <2> QED
    BY <2>1, <2>2
<1> QED
  BY <1>1, <1>2, <1>3, <1>4 DEF Ownership, Accounted, Places

(* A forwarder takes a frame. *)
LEMMA MoveForward ==
  ASSUME Places, NEW e \in Edge, chan[e] # <<>>,
         TakeFrom(e), Give(Head(chan[e]), FwdOf(e)),
         fv' = [fv EXCEPT ![e] = Head(chan[e])], UNCHANGED <<hold, dest, msg>>
  PROVE  Places'
<1>1. /\ chan' \in [Edge -> Seq(Value)] /\ Head(chan[e]) \in Value
      /\ owner[Head(chan[e])] = OnEdge(e)
      /\ owner' \in [Value -> Owners] /\ owner'[Head(chan[e])] = FwdOf(e)
      /\ \A w \in Value : w # Head(chan[e]) => owner'[w] = owner[w]
      /\ EdgeOwnership' /\ HandlerOwnership'
      /\ \A w \in Value : \A f \in Edge :
           owner'[w] = OnEdge(f) => \E i \in DOMAIN chan'[f] : chan'[f][i] = w
  BY MoveTake, OwnersTyped, OwnersDiffer
<1>2. fv' \in [Edge -> Value \cup {None}]
  BY <1>1 DEF Places
<1>3. ForwarderOwnership'
  <2>1. \A m \in Node : \A i \in DOMAIN msg[m] : msg[m][i] \in Value \cup {None}
    BY Elements DEF Places
  <2>2. \A f \in Edge : fv'[f] # None => owner'[fv'[f]] = FwdOf(f)
    BY <1>1, OwnersDiffer DEF ForwarderOwnership, Ownership, Places
  <2>3. \A m \in Node : \A i \in DOMAIN msg[m] : msg[m][i] # None => owner'[msg[m][i]] = MsgOf(m)
    BY <1>1, <2>1, OwnersDiffer DEF ForwarderOwnership, Ownership, Places
  <2> QED
    BY <2>2, <2>3 DEF ForwarderOwnership, Ownership, Places
<1>4. \A w \in Value : \A n \in Node : owner'[w] = HeldBy(n) => hold[n] = w
  BY <1>1, OwnersDiffer DEF Accounted, Places
<1> QED
  BY <1>1, <1>2, <1>3, <1>4 DEF Ownership, Accounted, Places

(* A forwarder hands its frame, or the end of its input, to the filter.     *)
LEMMA MovePush ==
  ASSUME Places, NEW e \in Edge, NEW n \in Node,
         msg' = [msg EXCEPT ![n] = Append(@, fv[e])], fv' = [fv EXCEPT ![e] = None],
         IF fv[e] = None THEN UNCHANGED owner ELSE Give(fv[e], MsgOf(n)),
         UNCHANGED <<chan, hold, dest>>
  PROVE  Places'
<1>0. /\ fv[e] \in Value \cup {None}
      /\ fv[e] # None => owner[fv[e]] = FwdOf(e) /\ owner[fv[e]] # MsgOf(n)
  BY OwnersDiffer DEF Places, Ownership, ForwarderOwnership
<1>1. /\ msg' \in [Node -> Seq(Value \cup {None})]
      /\ \A m \in Node : \A i \in DOMAIN msg'[m] : msg'[m][i] # None =>
           owner[msg'[m][i]] = MsgOf(m) \/ (m = n /\ msg'[m][i] = fv[e])
      /\ \A m \in Node : \A i, j \in DOMAIN msg'[m] :
           msg'[m][i] # None /\ msg'[m][i] = msg'[m][j] => i = j
  BY <1>0, MsgSendKeeps DEF Places, Ownership
<1>2. \A m \in Node : \A i \in DOMAIN msg'[m] : msg'[m][i] \in Value \cup {None}
  BY <1>1, Elements
<1>3. fv' \in [Edge -> Value \cup {None}]
  BY DEF Places
<1>4. CASE fv[e] = None
  <2>1. UNCHANGED owner
    BY <1>4
  <2>2. ForwarderOwnership'
    BY <1>1, <1>4, <2>1 DEF ForwarderOwnership, Ownership, Places
  <2> QED
    BY <1>1, <1>3, <2>1, <2>2
    DEF Places, Ownership, EdgeOwnership, HandlerOwnership, Accounted
<1>5. CASE fv[e] # None
  <2>1. fv[e] \in Value /\ owner[fv[e]] = FwdOf(e) /\ Give(fv[e], MsgOf(n))
    BY <1>0, <1>5
  <2>2. /\ owner' \in [Value -> Owners] /\ owner'[fv[e]] = MsgOf(n)
        /\ \A w \in Value : w # fv[e] => owner'[w] = owner[w]
        /\ EdgeOwnership' /\ HandlerOwnership'
    <3>1. (\A f \in Edge : owner[fv[e]] # OnEdge(f)) /\ (\A m \in Node : owner[fv[e]] # HeldBy(m))
      BY <2>1, OwnersDiffer
    <3> QED
      BY <2>1, <3>1, OthersKeep, OwnersTyped
  <2>3. \A f \in Edge : fv'[f] # None => owner'[fv'[f]] = FwdOf(f)
    BY <1>5, <2>1, <2>2, OwnersDiffer DEF ForwarderOwnership, Ownership, Places
  <2>4. \A m \in Node : \A i \in DOMAIN msg'[m] : msg'[m][i] # None => owner'[msg'[m][i]] = MsgOf(m)
    BY <1>1, <1>2, <2>1, <2>2, OwnersDiffer
  <2>5. ForwarderOwnership'
    BY <1>1, <2>3, <2>4 DEF ForwarderOwnership
  <2>6. Accounted'
    <3>1. \A w \in Value : \A f \in Edge : owner'[w] = OnEdge(f) => owner[w] = OnEdge(f)
      BY <2>1, <2>2, OwnersDiffer
    <3>2. \A w \in Value : \A m \in Node : owner'[w] = HeldBy(m) => owner[w] = HeldBy(m)
      BY <2>1, <2>2, OwnersDiffer
    <3> QED
      BY <3>1, <3>2 DEF Accounted, Places
  <2> QED
    BY <1>1, <1>3, <2>2, <2>5, <2>6 DEF Places, Ownership
<1> QED
  BY <1>4, <1>5

(* The filter takes a message and Closes its frame, or loses it.            *)
LEMMA MoveMessage ==
  ASSUME Places, NEW n \in Node, msg[n] # <<>>, NEW o \in {Free, Lost},
         msg' = [msg EXCEPT ![n] = Tail(@)],
         IF Head(msg[n]) = None THEN UNCHANGED owner ELSE Give(Head(msg[n]), o),
         UNCHANGED <<chan, hold, dest, fv>>
  PROVE  Places'
<1> DEFINE x == Head(msg[n])
<1>1. /\ msg' \in [Node -> Seq(Value \cup {None})]
      /\ x \in Value \cup {None} /\ (x # None => owner[x] = MsgOf(n))
      /\ \A m \in Node : \A i \in DOMAIN msg'[m] : msg'[m][i] # None =>
           owner[msg'[m][i]] = MsgOf(m) /\ msg'[m][i] # x
      /\ \A m \in Node : \A i, j \in DOMAIN msg'[m] :
           msg'[m][i] # None /\ msg'[m][i] = msg'[m][j] => i = j
  BY MsgTakeKeeps DEF Places, Ownership
<1>2. IF x = None THEN UNCHANGED owner ELSE Give(x, o)
  OBVIOUS
<1> HIDE DEF x
<1>3. \A m \in Node : \A i \in DOMAIN msg'[m] : msg'[m][i] \in Value \cup {None}
  BY <1>1, Elements
<1>4. CASE x = None
  <2>1. UNCHANGED owner
    BY <1>2, <1>4
  <2>2. ForwarderOwnership'
    BY <1>1, <2>1 DEF ForwarderOwnership, Ownership, Places
  <2> QED
    BY <1>1, <2>1, <2>2
    DEF Places, Ownership, EdgeOwnership, HandlerOwnership, Accounted
<1>5. CASE x # None
  <2>1. x \in Value /\ owner[x] = MsgOf(n) /\ Give(x, o) /\ o \in Owners
    BY <1>1, <1>2, <1>5, OwnersTyped
  <2>2. /\ owner' \in [Value -> Owners] /\ owner'[x] = o
        /\ \A w \in Value : w # x => owner'[w] = owner[w]
        /\ EdgeOwnership' /\ HandlerOwnership'
    <3>1. (\A f \in Edge : owner[x] # OnEdge(f)) /\ (\A m \in Node : owner[x] # HeldBy(m))
      BY <2>1, OwnersDiffer
    <3> QED
      BY <2>1, <3>1, OthersKeep
  <2>3. \A f \in Edge : fv[f] # None => owner'[fv[f]] = FwdOf(f)
    BY <2>1, <2>2, OwnersDiffer DEF ForwarderOwnership, Ownership, Places
  <2>4. \A m \in Node : \A i \in DOMAIN msg'[m] : msg'[m][i] # None => owner'[msg'[m][i]] = MsgOf(m)
    BY <1>1, <1>3, <2>2
  <2>5. ForwarderOwnership'
    BY <1>1, <2>3, <2>4 DEF ForwarderOwnership
  <2>6. Accounted'
    BY <2>1, <2>2, OwnersDiffer DEF Accounted, Places
  <2> QED
    BY <1>1, <2>2, <2>5, <2>6 DEF Places, Ownership
<1> QED
  BY <1>4, <1>5

(* A codec or filter emits a fresh value, which the handler will send. *)
LEMMA MoveEmit ==
  ASSUME Places, NEW n \in Node, dest[n] = <<>>, CanAlloc, NEW s \in Seq(Edge), s # <<>>,
         hold' = [hold EXCEPT ![n] = Fresh], dest' = [dest EXCEPT ![n] = s],
         Give(Fresh, HeldBy(n)), UNCHANGED <<chan, fv, msg>>
  PROVE  Places'
<1>0. Fresh \in Value /\ owner[Fresh] = Free
  BY FreshIsFree
<1>1. /\ owner' \in [Value -> Owners] /\ owner'[Fresh] = HeldBy(n)
      /\ \A w \in Value : w # Fresh => owner'[w] = owner[w]
      /\ EdgeOwnership' /\ ForwarderOwnership'
  <2>1. /\ \A e \in Edge : owner[Fresh] # OnEdge(e) /\ owner[Fresh] # FwdOf(e)
        /\ \A m \in Node : owner[Fresh] # MsgOf(m)
    BY <1>0, OwnersDiffer
  <2> QED
    BY <1>0, <2>1, OthersKeep, OwnersTyped
<1>2. hold' \in [Node -> Value \cup {None}] /\ dest' \in [Node -> Seq(Edge)]
  BY <1>0 DEF Places
<1>3. HandlerOwnership'
  BY <1>0, <1>1, OwnersDiffer DEF HandlerOwnership, Ownership, Places
<1>4. hold[n] = None
  BY DEF Places, Ownership, HandlerOwnership
<1>5. Accounted'
  <2>1. \A w \in Value : \A e \in Edge : owner'[w] = OnEdge(e) => owner[w] = OnEdge(e)
    BY <1>0, <1>1, OwnersDiffer
  <2>2. \A w \in Value : \A m \in Node : owner'[w] = HeldBy(m) => hold'[m] = w
    <3> SUFFICES ASSUME NEW w \in Value, NEW m \in Node, owner'[w] = HeldBy(m) PROVE hold'[m] = w
      OBVIOUS
    <3>1. CASE w = Fresh
      <4>1. m = n
        BY <1>1, <3>1, OwnersDiffer
      <4> QED
        BY <4>1, <3>1 DEF Places
    <3>2. CASE w # Fresh
      BY <1>1, <1>4, <3>2, BoundAssumption DEF Accounted, Places
    <3> QED
      BY <3>1, <3>2
  <2> QED
    BY <2>1, <2>2 DEF Accounted, Places
<1> QED
  BY <1>1, <1>2, <1>3, <1>5 DEF Places, Ownership

(* A clone is sent on the first of several edges; the original stays.       *)
LEMMA MoveClone ==
  ASSUME Places, NEW n \in Node, NEW e \in Edge, CanAlloc, dest[n] # <<>>,
         NEW s \in Seq(Edge), s # <<>>,
         chan' = [chan EXCEPT ![e] = Append(@, Fresh)], Give(Fresh, OnEdge(e)),
         dest' = [dest EXCEPT ![n] = s], UNCHANGED <<hold, fv, msg>>
  PROVE  Places'
<1>0. Fresh \in Value /\ owner[Fresh] = Free /\ owner[Fresh] # OnEdge(e)
  BY FreshIsFree, OwnersDiffer
<1>1. /\ owner' \in [Value -> Owners] /\ owner'[Fresh] = OnEdge(e)
      /\ \A w \in Value : w # Fresh => owner'[w] = owner[w]
      /\ ForwarderOwnership'
  <2>1. (\A f \in Edge : owner[Fresh] # FwdOf(f)) /\ (\A m \in Node : owner[Fresh] # MsgOf(m))
    BY <1>0, OwnersDiffer
  <2> QED
    BY <1>0, <2>1, OthersKeep, OwnersTyped
<1>2. SentOn(e, Fresh)
  <2>1. chan \in [Edge -> Seq(Value)] /\ EdgeOwnership
    BY DEF Places, Ownership
  <2> QED
    BY <1>0, <2>1, SendKeeps
<1>3. \A f \in Edge : \A i \in DOMAIN chan'[f] : chan'[f][i] \in Value
  BY <1>2, Elements DEF SentOn
<1>4. EdgeOwnership'
  <2>1. \A f \in Edge : \A i \in DOMAIN chan'[f] : owner'[chan'[f][i]] = OnEdge(f)
    <3> SUFFICES ASSUME NEW f \in Edge, NEW i \in DOMAIN chan'[f] PROVE owner'[chan'[f][i]] = OnEdge(f)
      OBVIOUS
    <3> DEFINE w == chan'[f][i]
    <3>1. w \in Value /\ (owner[w] = OnEdge(f) \/ (f = e /\ w = Fresh))
      BY <1>2, <1>3 DEF SentOn
    <3> HIDE DEF w
    <3>2. owner'[w] = OnEdge(f)
      BY <1>0, <1>1, <3>1, OwnersDiffer
    <3> QED
      BY <3>2 DEF w
  <2> QED
    BY <2>1, <1>2 DEF EdgeOwnership, SentOn
<1>5. dest' \in [Node -> Seq(Edge)]
  BY DEF Places
<1>6. HandlerOwnership'
  <2>1. \A m \in Node : dest'[m] = <<>> <=> dest[m] = <<>>
    BY DEF Places
  <2>2. \A m \in Node : dest[m] # <<>> => hold[m] \in Value /\ owner'[hold[m]] = HeldBy(m)
    BY <1>0, <1>1, OwnersDiffer DEF HandlerOwnership, Ownership, Places
  <2> QED
    BY <2>1, <2>2 DEF HandlerOwnership, Ownership, Places
<1>7. Accounted'
  <2>1. \A w \in Value : \A f \in Edge : owner'[w] = OnEdge(f) => owner[w] = OnEdge(f) \/ (w = Fresh /\ f = e)
    BY <1>0, <1>1, OwnersDiffer
  <2>2. ASSUME NEW w \in Value, NEW f \in Edge, owner'[w] = OnEdge(f)
        PROVE  \E i \in DOMAIN chan'[f] : chan'[f][i] = w
    <3>1. CASE w = Fresh /\ f = e
      BY <1>2, <3>1 DEF SentOn
    <3>2. CASE owner[w] = OnEdge(f)
      <4>1. PICK i \in DOMAIN chan[f] : chan[f][i] = w
        BY <3>2 DEF Accounted, Places
      <4> QED
        BY <1>2, <4>1 DEF SentOn
    <3> QED
      BY <2>1, <2>2, <3>1, <3>2
  <2>3. \A w \in Value : \A m \in Node : owner'[w] = HeldBy(m) => owner[w] = HeldBy(m)
    BY <1>0, <1>1, OwnersDiffer
  <2>4. \A w \in Value : \A m \in Node : owner'[w] = HeldBy(m) => hold'[m] = w
    BY <2>3 DEF Accounted, Places
  <2> QED
    BY <2>2, <2>4 DEF Accounted
<1> QED
  BY <1>1, <1>2, <1>4, <1>5, <1>6, <1>7 DEF Places, Ownership, SentOn

(* The value in hand is sent on the last edge. *)
LEMMA MoveSend ==
  ASSUME Places, NEW n \in Node, NEW e \in Edge, dest[n] # <<>>,
         chan' = [chan EXCEPT ![e] = Append(@, hold[n])], Give(hold[n], OnEdge(e)),
         dest' = [dest EXCEPT ![n] = <<>>], hold' = [hold EXCEPT ![n] = None],
         UNCHANGED <<fv, msg>>
  PROVE  Places'
<1>0. hold[n] \in Value /\ owner[hold[n]] = HeldBy(n) /\ owner[hold[n]] # OnEdge(e)
  BY OwnersDiffer DEF Places, Ownership, HandlerOwnership
<1>1. /\ owner' \in [Value -> Owners] /\ owner'[hold[n]] = OnEdge(e)
      /\ \A w \in Value : w # hold[n] => owner'[w] = owner[w]
      /\ ForwarderOwnership'
  <2>1. (\A f \in Edge : owner[hold[n]] # FwdOf(f)) /\ (\A m \in Node : owner[hold[n]] # MsgOf(m))
    BY <1>0, OwnersDiffer
  <2> QED
    BY <1>0, <2>1, OthersKeep, OwnersTyped
<1>2. SentOn(e, hold[n])
  <2>1. chan \in [Edge -> Seq(Value)] /\ EdgeOwnership
    BY DEF Places, Ownership
  <2> QED
    BY <1>0, <2>1, SendKeeps
<1>3. \A f \in Edge : \A i \in DOMAIN chan'[f] : chan'[f][i] \in Value
  BY <1>2, Elements DEF SentOn
<1>4. EdgeOwnership'
  <2>1. \A f \in Edge : \A i \in DOMAIN chan'[f] : owner'[chan'[f][i]] = OnEdge(f)
    <3> SUFFICES ASSUME NEW f \in Edge, NEW i \in DOMAIN chan'[f] PROVE owner'[chan'[f][i]] = OnEdge(f)
      OBVIOUS
    <3> DEFINE w == chan'[f][i]
    <3>1. w \in Value /\ (owner[w] = OnEdge(f) \/ (f = e /\ w = hold[n]))
      BY <1>2, <1>3 DEF SentOn
    <3> HIDE DEF w
    <3>2. owner'[w] = OnEdge(f)
      BY <1>0, <1>1, <3>1, OwnersDiffer
    <3> QED
      BY <3>2 DEF w
  <2> QED
    BY <2>1, <1>2 DEF EdgeOwnership, SentOn
<1>5. dest' \in [Node -> Seq(Edge)] /\ hold' \in [Node -> Value \cup {None}]
  BY EmptySeq DEF Places
<1>6. HandlerOwnership'
  <2> SUFFICES ASSUME NEW m \in Node
               PROVE  IF dest'[m] = <<>> THEN hold'[m] = None
                      ELSE hold'[m] \in Value /\ owner'[hold'[m]] = HeldBy(m)
    BY DEF HandlerOwnership
  <2>1. CASE m = n
    BY <2>1 DEF Places
  <2>2. CASE m # n
    <3>1. dest'[m] = dest[m] /\ hold'[m] = hold[m]
      BY <2>2 DEF Places
    <3>2. dest[m] # <<>> => hold[m] # hold[n]
      BY <1>0, <2>2, OwnersDiffer DEF HandlerOwnership, Ownership, Places
    <3> QED
      BY <1>1, <3>1, <3>2 DEF HandlerOwnership, Ownership, Places
  <2> QED
    BY <2>1, <2>2
<1>7. Accounted'
  <2>1. \A w \in Value : \A f \in Edge :
          owner'[w] = OnEdge(f) => owner[w] = OnEdge(f) \/ (w = hold[n] /\ f = e)
    BY <1>0, <1>1, OwnersDiffer
  <2>2. ASSUME NEW w \in Value, NEW f \in Edge, owner'[w] = OnEdge(f)
        PROVE  \E i \in DOMAIN chan'[f] : chan'[f][i] = w
    <3>1. CASE w = hold[n] /\ f = e
      BY <1>2, <3>1 DEF SentOn
    <3>2. CASE owner[w] = OnEdge(f)
      <4>1. PICK i \in DOMAIN chan[f] : chan[f][i] = w
        BY <3>2 DEF Accounted, Places
      <4> QED
        BY <1>2, <4>1 DEF SentOn
    <3> QED
      BY <2>1, <2>2, <3>1, <3>2
  <2>3. ASSUME NEW w \in Value, NEW m \in Node, owner'[w] = HeldBy(m) PROVE hold'[m] = w
    <3>1. w # hold[n] /\ owner[w] = HeldBy(m)
      BY <1>0, <1>1, <2>3, OwnersDiffer
    <3>2. hold[m] = w
      BY <3>1 DEF Accounted, Places
    <3> QED
      BY <3>1, <3>2 DEF Places
  <2> QED
    BY <2>2, <2>3 DEF Accounted
<1> QED
  BY <1>1, <1>2, <1>4, <1>5, <1>6, <1>7 DEF Places, Ownership, SentOn

(* The value in hand is Closed, or lost. *)
LEMMA MoveDrop ==
  ASSUME Places, NEW n \in Node, dest[n] # <<>>, NEW o \in {Free, Lost}, Give(hold[n], o),
         dest' = [dest EXCEPT ![n] = <<>>], hold' = [hold EXCEPT ![n] = None],
         UNCHANGED <<chan, fv, msg>>
  PROVE  Places'
<1>0. hold[n] \in Value /\ owner[hold[n]] = HeldBy(n) /\ o \in Owners
  BY OwnersTyped DEF Places, Ownership, HandlerOwnership
<1>1. /\ owner' \in [Value -> Owners] /\ owner'[hold[n]] = o
      /\ \A w \in Value : w # hold[n] => owner'[w] = owner[w]
      /\ EdgeOwnership' /\ ForwarderOwnership'
  <2>1. /\ \A f \in Edge : owner[hold[n]] # OnEdge(f) /\ owner[hold[n]] # FwdOf(f)
        /\ \A m \in Node : owner[hold[n]] # MsgOf(m)
    BY <1>0, OwnersDiffer
  <2> QED
    BY <1>0, <2>1, OthersKeep
<1>2. dest' \in [Node -> Seq(Edge)] /\ hold' \in [Node -> Value \cup {None}]
  BY EmptySeq DEF Places
<1>3. HandlerOwnership'
  <2> SUFFICES ASSUME NEW m \in Node
               PROVE  IF dest'[m] = <<>> THEN hold'[m] = None
                      ELSE hold'[m] \in Value /\ owner'[hold'[m]] = HeldBy(m)
    BY DEF HandlerOwnership
  <2>1. CASE m = n
    BY <2>1 DEF Places
  <2>2. CASE m # n
    <3>1. dest'[m] = dest[m] /\ hold'[m] = hold[m]
      BY <2>2 DEF Places
    <3>2. dest[m] # <<>> => hold[m] # hold[n]
      BY <1>0, <2>2, OwnersDiffer DEF HandlerOwnership, Ownership, Places
    <3> QED
      BY <1>1, <3>1, <3>2 DEF HandlerOwnership, Ownership, Places
  <2> QED
    BY <2>1, <2>2
<1>4. Accounted'
  <2>1. \A w \in Value : \A f \in Edge : owner'[w] = OnEdge(f) => owner[w] = OnEdge(f)
    BY <1>0, <1>1, OwnersDiffer
  <2>2. ASSUME NEW w \in Value, NEW m \in Node, owner'[w] = HeldBy(m) PROVE hold'[m] = w
    <3>1. w # hold[n] /\ owner[w] = HeldBy(m)
      BY <1>0, <1>1, <2>2, OwnersDiffer
    <3>2. hold[m] = w
      BY <3>1 DEF Accounted, Places
    <3> QED
      BY <3>1, <3>2 DEF Places
  <2> QED
    BY <2>1, <2>2 DEF Accounted, Places
<1> QED
  BY <1>1, <1>2, <1>3, <1>4 DEF Places, Ownership

-----------------------------------------------------------------------------
(* The edges a handler still has to send on. *)
LEMMA DestHead ==
  ASSUME Places, NEW n \in Node, dest[n] # <<>>
  PROVE  /\ Head(dest[n]) \in Edge /\ Head(dest[n]) = dest[n][1] /\ 1 \in DOMAIN dest[n]
         /\ Tail(dest[n]) \in Seq(Edge) /\ (Len(dest[n]) > 1 => Tail(dest[n]) # <<>>)
         /\ \A i \in DOMAIN Tail(dest[n]) : i + 1 \in DOMAIN dest[n] /\ Tail(dest[n])[i] = dest[n][i + 1]
<1> DEFINE s == dest[n]
<1>1. s \in Seq(Edge)
  BY DEF Places
<1>2. /\ Tail(s) \in Seq(Edge) /\ Head(s) \in Edge /\ Head(s) = s[1] /\ 1 \in DOMAIN s
      /\ \A i \in DOMAIN Tail(s) : i + 1 \in DOMAIN s /\ Tail(s)[i] = s[i + 1]
  BY <1>1, TailElements
<1>3. Len(s) > 1 => Tail(s) # <<>>
  BY <1>1, TailOfSeveral
<1> QED
  BY <1>2, <1>3

(* Every step of a handler is one of the moves. *)
LEMMA HandlerMoves ==
  ASSUME Places, NEW n \in Node, HandlerStep(n) \/ Fail(n)
  PROVE  Places'
<1>1. CASE SourceRead(n) \/ SourceEof(n) \/ LoopCancelled(n) \/ Eos(n) \/ FlushDone(n)
           \/ CopyEos(n) \/ MultiEos(n) \/ SinkReturn(n) \/ CloseOuts(n) \/ Exit(n)
  <2>1. UNCHANGED places
    BY <1>1 DEF places, SourceRead, SourceEof, LoopCancelled, Eos, FlushDone, CopyEos, MultiEos,
                SinkReturn, CloseOuts, Exit
  <2> QED
    BY <2>1, MoveNone
<1>2. CASE Recv(n)
  <2>1. PICK e \in In(n) : chan[e] # <<>> /\ TakeFrom(e) /\ Give(Head(chan[e]), Free)
    BY <1>2 DEF Recv
  <2>2. e \in Edge /\ UNCHANGED <<hold, dest, fv, msg>>
    BY <1>2 DEF Recv, In
  <2> QED
    BY <2>1, <2>2, MoveReceive
<1>3. CASE Emit(n)
  <2>1. PICK s \in Streams[n] : dest' = [dest EXCEPT ![n] = s]
    BY <1>3 DEF Emit
  <2>2. s \in Seq(Edge) /\ s # <<>>
    BY GraphAssumption
  <2>3. /\ dest[n] = <<>> /\ CanAlloc /\ hold' = [hold EXCEPT ![n] = Fresh]
        /\ Give(Fresh, HeldBy(n)) /\ UNCHANGED <<chan, fv, msg>>
    BY <1>3 DEF Emit
  <2> QED
    BY <2>1, <2>2, <2>3, MoveEmit
<1>4. CASE SendClone(n)
  <2>1. /\ CanAlloc /\ Len(dest[n]) > 1 /\ dest' = [dest EXCEPT ![n] = Tail(dest[n])]
        /\ chan' = [chan EXCEPT ![Head(dest[n])] = Append(@, Fresh)]
        /\ Give(Fresh, OnEdge(Head(dest[n]))) /\ UNCHANGED <<hold, fv, msg>>
    BY <1>4 DEF SendClone
  <2>2. dest[n] # <<>>
    BY <2>1, EmptySeq
  <2>3. Head(dest[n]) \in Edge /\ Tail(dest[n]) \in Seq(Edge) /\ Tail(dest[n]) # <<>>
    BY <2>1, <2>2, DestHead
  <2> QED
    BY <2>1, <2>2, <2>3, MoveClone
<1>5. CASE SendLast(n)
  <2>1. /\ Len(dest[n]) = 1 /\ dest' = [dest EXCEPT ![n] = <<>>]
        /\ chan' = [chan EXCEPT ![Head(dest[n])] = Append(@, hold[n])]
        /\ Give(hold[n], OnEdge(Head(dest[n]))) /\ hold' = [hold EXCEPT ![n] = None]
        /\ UNCHANGED <<fv, msg>>
    BY <1>5 DEF SendLast
  <2>2. dest[n] # <<>>
    BY <2>1, EmptySeq
  <2>3. Head(dest[n]) \in Edge
    BY <2>2, DestHead
  <2> QED
    BY <2>1, <2>2, <2>3, MoveSend
<1>6. CASE SendCancelled(n)
  <2>1. PICK o \in {Free, Lost} : Give(hold[n], o)
    BY <1>6 DEF SendCancelled
  <2>2. /\ dest[n] # <<>> /\ dest' = [dest EXCEPT ![n] = <<>>]
        /\ hold' = [hold EXCEPT ![n] = None] /\ UNCHANGED <<chan, fv, msg>>
    BY <1>6 DEF SendCancelled
  <2> QED
    BY <2>1, <2>2, MoveDrop
<1>7. CASE Fail(n)
  <2>1. /\ dest' = [dest EXCEPT ![n] = <<>>] /\ hold' = [hold EXCEPT ![n] = None]
        /\ UNCHANGED <<chan, fv, msg>>
        /\ owner' = IF dest[n] = <<>> THEN owner ELSE [owner EXCEPT ![hold[n]] = Free]
    BY <1>7 DEF Fail
  <2>2. CASE dest[n] = <<>>
    <3>1. hold[n] = None
      BY <2>2 DEF Places, Ownership, HandlerOwnership
    <3>2. UNCHANGED places
      BY <2>1, <2>2, <3>1 DEF places, Places
    <3> QED
      BY <3>2, MoveNone
  <2>3. CASE dest[n] # <<>>
    BY <2>1, <2>3, MoveDrop DEF Give
  <2> QED
    BY <2>2, <2>3
<1>8. CASE CopyRecv(n)
  <2>1. PICK e \in In(n) : /\ chan[e] # <<>> /\ TakeFrom(e)
                           /\ hold' = [hold EXCEPT ![n] = Head(chan[e])]
                           /\ Give(Head(chan[e]), HeldBy(n))
    BY <1>8 DEF CopyRecv
  <2>2. PICK s \in Streams[n] : dest' = [dest EXCEPT ![n] = s]
    BY <1>8 DEF CopyRecv
  <2>3. e \in Edge /\ s \in Seq(Edge) /\ s # <<>> /\ dest[n] = <<>> /\ UNCHANGED <<fv, msg>>
    BY <1>8, GraphAssumption DEF CopyRecv, In, Idle
  <2> QED
    BY <2>1, <2>2, <2>3, MoveInHand
<1>9. CASE MultiRecv(n)
  <2>1. PICK o \in {Free, Lost} :
          IF Head(msg[n]) = None THEN UNCHANGED owner ELSE Give(Head(msg[n]), o)
    BY <1>9 DEF MultiRecv, Give
  <2>2. /\ msg[n] # <<>> /\ msg' = [msg EXCEPT ![n] = Tail(@)]
        /\ UNCHANGED <<chan, hold, dest, fv>>
    BY <1>9 DEF MultiRecv
  <2> QED
    BY <2>1, <2>2, MoveMessage
<1> QED
  BY <1>1, <1>2, <1>3, <1>4, <1>5, <1>6, <1>7, <1>8, <1>9 DEF HandlerStep

(* So is every step of an input goroutine and of the scheduler. *)
LEMMA OtherMoves ==
  ASSUME Places, (\E e \in Edge : InputStep(e)) \/ SchedulerStep \/ OutsideCancel \/ UNCHANGED vars
  PROVE  Places'
<1>1. ASSUME NEW e \in Edge, SinkRecv(e) \/ Drain(e) PROVE Places'
  BY <1>1, MoveReceive DEF SinkRecv, Drain
<1>2. ASSUME NEW e \in Edge, FwdTake(e) PROVE Places'
  BY <1>2, MoveForward DEF FwdTake
<1>3. ASSUME NEW e \in Edge, FwdPush(e) PROVE Places'
  <2>1. To[e] \in Node
    BY GraphAssumption
  <2>2. /\ msg' = [msg EXCEPT ![To[e]] = Append(@, fv[e])] /\ fv' = [fv EXCEPT ![e] = None]
        /\ IF fv[e] = None THEN UNCHANGED owner ELSE Give(fv[e], MsgOf(To[e]))
        /\ UNCHANGED <<chan, hold, dest>>
    BY <1>3 DEF FwdPush
  <2> QED
    BY <2>1, <2>2, MovePush
<1>4. ASSUME NEW e \in Edge, FwdEos(e) \/ SinkEos(e) \/ SinkCancelled(e) PROVE Places'
  BY <1>4, MoveNone DEF FwdEos, SinkEos, SinkCancelled, places
<1>5. ASSUME Join \/ RunReturns \/ OutsideCancel \/ UNCHANGED vars PROVE Places'
  BY <1>5, MoveNone DEF Join, RunReturns, OutsideCancel, vars, places
<1> QED
  BY <1>1, <1>2, <1>3, <1>4, <1>5 DEF InputStep, SchedulerStep

LEMMA StepPlaces == Places /\ [Next]_vars => Places'
BY HandlerMoves, OtherMoves DEF Next

-----------------------------------------------------------------------------
(* Where the handlers are and who is to blame, the rest of the invariant. *)
ControlTypes ==
    /\ closed \in [Edge -> BOOLEAN]
    /\ pc \in [Node -> {"loop", "flush", "closing", "closed", "exited"}]
    /\ todo \in [Node -> 0..MaxPull] /\ left \in [Node -> 0..MaxRead]
    /\ rd \in [Edge -> {"run", "push", "done"}]
    /\ sres \in [Node -> Results] /\ stopped \subseteq Node
    /\ ret \in [Node -> Results]
    /\ cancelled \in BOOLEAN /\ outside \in BOOLEAN
    /\ err \in Results /\ run \in {"waiting", "draining", "returned"}

LEMMA Split == TypeOK /\ Ownership /\ Accounted <=> Places /\ ControlTypes
BY DEF TypeOK, Places, ControlTypes

LEMMA TypeHandler ==
  ASSUME ControlTypes, NEW n \in Node, HandlerStep(n) \/ Fail(n)
  PROVE  ControlTypes'
<1> USE BoundAssumption DEF ControlTypes, Results
<1>1. CASE SourceRead(n)
  BY <1>1 DEF SourceRead, Pull, MayRead
<1>2. CASE SourceEof(n)
  BY <1>2 DEF SourceEof, Pull
<1>3. CASE LoopCancelled(n) \/ FlushDone(n) \/ CopyEos(n)
  BY <1>3 DEF LoopCancelled, FlushDone, CopyEos, Return
<1>4. CASE Recv(n)
  BY <1>4 DEF Recv, Pull
<1>5. CASE Eos(n)
  BY <1>5 DEF Eos, Pull, Return
<1>6. CASE Emit(n)
  BY <1>6 DEF Emit
<1>7. CASE SendClone(n) \/ SendLast(n) \/ CopyRecv(n)
  BY <1>7 DEF SendClone, SendLast, CopyRecv
<1>8. CASE SendCancelled(n)
  BY <1>8 DEF SendCancelled, Return
<1>9. CASE Fail(n)
  BY <1>9 DEF Fail, Return
<1>10. CASE MultiRecv(n)
  BY <1>10 DEF MultiRecv, Pull, Return
<1>11. CASE MultiEos(n)
  BY <1>11 DEF MultiEos, Pull
<1>12. CASE SinkReturn(n)
  BY <1>12 DEF SinkReturn, Return, SinkResult
<1>13. CASE CloseOuts(n)
  BY <1>13 DEF CloseOuts
<1>14. CASE Exit(n)
  BY <1>14 DEF Exit
<1> QED
  BY <1>1, <1>2, <1>3, <1>4, <1>5, <1>6, <1>7, <1>8, <1>9, <1>10, <1>11, <1>12, <1>13, <1>14
  DEF HandlerStep

LEMMA TypeOther ==
  ASSUME ControlTypes, (\E e \in Edge : InputStep(e)) \/ SchedulerStep \/ OutsideCancel \/ UNCHANGED vars
  PROVE  ControlTypes'
<1> USE BoundAssumption DEF ControlTypes, Results
<1>1. ASSUME NEW e \in Edge, FwdTake(e) \/ FwdEos(e) \/ FwdPush(e) PROVE ControlTypes'
  BY <1>1 DEF FwdTake, FwdEos, FwdPush
<1>2. ASSUME NEW e \in Edge, SinkRecv(e) \/ SinkEos(e) \/ SinkCancelled(e) PROVE ControlTypes'
  <2>1. To[e] \in Node
    BY GraphAssumption
  <2> QED
    BY <1>2, <2>1 DEF SinkRecv, SinkEos, SinkCancelled
<1>3. ASSUME NEW e \in Edge, Drain(e) PROVE ControlTypes'
  BY <1>3 DEF Drain
<1>4. ASSUME Join \/ RunReturns \/ OutsideCancel \/ UNCHANGED vars PROVE ControlTypes'
  BY <1>4 DEF Join, RunReturns, OutsideCancel, vars
<1> QED
  BY <1>1, <1>2, <1>3, <1>4 DEF InputStep, SchedulerStep

(* A handler that takes a step has not exited, so the run still waits. *)
LEMMA HandlerBusy ==
  ASSUME Places, Phases, NEW n \in Node, HandlerStep(n) \/ Fail(n)
  PROVE  pc[n] # "exited" /\ run = "waiting" /\ run' = run
<1>1. pc[n] # "exited"
  <2>1. CASE dest[n] # <<>>
    BY <2>1 DEF Phases
  <2>2. CASE dest[n] = <<>>
    <3>1. ~SendClone(n) /\ ~SendLast(n) /\ ~SendCancelled(n)
      <4>1. Len(dest[n]) = 0
        BY <2>2, EmptySeq
      <4> QED
        BY <2>2, <4>1 DEF SendClone, SendLast, SendCancelled
    <3> QED
      BY <3>1 DEF HandlerStep, Fail, Idle, SourceRead, SourceEof, LoopCancelled, Recv, Eos, Emit,
         FlushDone, CopyRecv, CopyEos, MultiRecv, MultiEos, SinkReturn, CloseOuts, MayClose, Exit
  <2> QED
    BY <2>1, <2>2
<1>2. run' = run
  BY DEF HandlerStep, Fail, SourceRead, SourceEof, LoopCancelled, Recv, Eos, Emit, FlushDone,
         SendClone, SendLast, SendCancelled, CopyRecv, CopyEos, MultiRecv, MultiEos, SinkReturn,
         CloseOuts, Exit
<1> QED
  BY <1>1, <1>2 DEF Phases

(* The part of Phases about one handler. *)
HandlerPhases(n) ==
    /\ pc[n] \notin {"loop", "flush"} => dest[n] = <<>>
    /\ Kind[n] = "sink" => pc[n] # "flush" /\ todo[n] = 0 /\ dest[n] = <<>>
    /\ \A i \in DOMAIN dest[n] : From[dest[n][i]] = n

LEMMA PhasesHandler ==
  ASSUME Places, ControlTypes, Phases, NEW n \in Node, HandlerStep(n) \/ Fail(n)
  PROVE  Phases'
<1>0. pc[n] # "exited" /\ run = "waiting" /\ run' = run
  BY HandlerBusy
<1>1. HandlerPhases(n)
  BY DEF Phases, HandlerPhases
<1>t. /\ pc \in [Node -> {"loop", "flush", "closing", "closed", "exited"}]
      /\ dest \in [Node -> Seq(Edge)] /\ todo \in [Node -> 0..MaxPull]
  BY DEF Places, ControlTypes
<1>2. ASSUME NEW m \in Node, m # n
      PROVE  pc'[m] = pc[m] /\ dest'[m] = dest[m] /\ todo'[m] = todo[m]
  BY <1>2, <1>t
  DEF HandlerStep, Fail, SourceRead, SourceEof, LoopCancelled, Recv, Eos, Emit, FlushDone,
      SendClone, SendLast, SendCancelled, CopyRecv, CopyEos, MultiRecv, MultiEos, SinkReturn,
      CloseOuts, Exit, Pull, Return
<1>3. HandlerPhases(n)'
  <2> USE <1>t DEF HandlerPhases
  <2>1. CASE SourceRead(n) \/ SourceEof(n) \/ LoopCancelled(n) \/ Recv(n) \/ Eos(n) \/ FlushDone(n)
             \/ CopyEos(n) \/ MultiRecv(n) \/ MultiEos(n)
    BY <1>1, <2>1 DEF SourceRead, SourceEof, LoopCancelled, Recv, Eos, FlushDone, CopyEos,
                      MultiRecv, MultiEos, Pull, Return, Idle, Linear
  <2>2. CASE SinkReturn(n) \/ CloseOuts(n) \/ Exit(n)
    BY <1>1, <2>2 DEF SinkReturn, CloseOuts, Exit, MayClose, Return
  <2>3. CASE Emit(n)
    <3>1. PICK s \in Streams[n] : dest' = [dest EXCEPT ![n] = s]
      BY <2>3 DEF Emit
    <3>2. \A i \in DOMAIN s : From[s[i]] = n
      BY GraphAssumption
    <3>3. todo[n] > 0 /\ pc[n] \in {"loop", "flush"} /\ UNCHANGED pc
      BY <2>3 DEF Emit
    <3> QED
      BY <1>1, <3>1, <3>2, <3>3
  <2>4. CASE CopyRecv(n)
    <3>1. PICK s \in Streams[n] : dest' = [dest EXCEPT ![n] = s]
      BY <2>4 DEF CopyRecv
    <3>2. \A i \in DOMAIN s : From[s[i]] = n
      BY GraphAssumption
    <3>3. Kind[n] = "copy" /\ pc[n] = "loop" /\ UNCHANGED <<pc, todo>>
      BY <2>4 DEF CopyRecv, Idle
    <3> QED
      BY <3>1, <3>2, <3>3
  <2>5. CASE SendClone(n)
    <3>1. Len(dest[n]) > 1 /\ dest' = [dest EXCEPT ![n] = Tail(dest[n])] /\ UNCHANGED <<pc, todo>>
      BY <2>5 DEF SendClone
    <3>2. dest[n] # <<>>
      BY <3>1, EmptySeq
    <3>3. \A i \in DOMAIN Tail(dest[n]) : i + 1 \in DOMAIN dest[n] /\ Tail(dest[n])[i] = dest[n][i + 1]
      BY <3>2, DestHead
    <3> QED
      BY <1>1, <3>1, <3>2, <3>3
  <2>6. CASE SendLast(n) \/ SendCancelled(n) \/ Fail(n)
    <3>1. dest'[n] = <<>>
      BY <2>6 DEF SendLast, SendCancelled, Fail
    <3>2. Kind[n] # "sink"
      <4>1. ASSUME SendLast(n) PROVE dest[n] # <<>>
        <5>1. Len(dest[n]) = 1
          BY <4>1 DEF SendLast
        <5>2. ASSUME dest[n] = <<>> PROVE Len(dest[n]) = 0
          BY <5>2, EmptyDomain
        <5> QED
          BY <5>1, <5>2
      <4> QED
        BY <1>1, <2>6, <4>1 DEF SendCancelled, Fail
    <3> QED
      BY <3>1, <3>2
  <2> QED
    BY <2>1, <2>2, <2>3, <2>4, <2>5, <2>6 DEF HandlerStep
<1>4. \A e \in Edge : closed'[e] => pc'[From[e]] \in {"closed", "exited"}
  <2>1. CASE CloseOuts(n)
    <3>1. \A e \in Edge : closed'[e] => closed[e] \/ From[e] = n
      BY <2>1 DEF CloseOuts, Out
    <3>2. pc' = [pc EXCEPT ![n] = "closed"] /\ pc[n] = "closing"
      BY <2>1 DEF CloseOuts, MayClose
    <3> QED
      BY <3>1, <3>2, <1>t, GraphAssumption DEF Phases
  <2>2. CASE Exit(n)
    BY <2>2, <1>t, GraphAssumption DEF Exit, Phases
  <2>3. CASE ~CloseOuts(n) /\ ~Exit(n)
    <3>1. UNCHANGED closed
      BY <2>3
      DEF HandlerStep, Fail, SourceRead, SourceEof, LoopCancelled, Recv, Eos, Emit, FlushDone,
          SendClone, SendLast, SendCancelled, CopyRecv, CopyEos, MultiRecv, MultiEos, SinkReturn
    <3>2. pc'[n] = pc[n] \/ pc[n] \in {"loop", "flush"}
      <4>1. CASE dest[n] # <<>>
        BY <4>1, <1>1 DEF HandlerPhases
      <4>2. CASE dest[n] = <<>>
        <5>1. Len(dest[n]) = 0
          BY <4>2, EmptySeq
        <5> QED
          BY <2>3, <4>2, <5>1
          DEF HandlerStep, Fail, SourceRead, SourceEof, LoopCancelled, Recv, Eos, Emit, FlushDone,
              SendClone, SendLast, SendCancelled, CopyRecv, CopyEos, MultiRecv, MultiEos,
              SinkReturn, Idle
      <4> QED
        BY <4>1, <4>2
    <3> QED
      BY <1>2, <3>1, <3>2, GraphAssumption DEF Phases
  <2> QED
    BY <2>1, <2>2, <2>3
<1>5. ASSUME NEW m \in Node PROVE HandlerPhases(m)'
  BY <1>2, <1>3, <1>5 DEF HandlerPhases, Phases
<1> QED
  BY <1>0, <1>4, <1>5 DEF Phases, HandlerPhases

LEMMA PhasesOther ==
  ASSUME Places, ControlTypes, Phases,
         (\E e \in Edge : InputStep(e)) \/ SchedulerStep \/ OutsideCancel \/ UNCHANGED vars
  PROVE  Phases'
<1>1. ASSUME NEW e \in Edge, InputStep(e) \/ Drain(e) PROVE Phases'
  <2>1. UNCHANGED <<closed, pc, dest, todo, run>>
    BY <1>1 DEF InputStep, Drain, FwdTake, FwdEos, FwdPush, SinkRecv, SinkEos, SinkCancelled
  <2>2. UNCHANGED chan \/ chan[e] # <<>>
    BY <1>1 DEF InputStep, Drain, FwdTake, FwdEos, FwdPush, SinkRecv, SinkEos, SinkCancelled
  <2>3. run' = "returned" => UNCHANGED chan
    BY <2>1, <2>2 DEF Phases
  <2> QED
    BY <2>1, <2>3 DEF Phases
<1>2. CASE Join
  BY <1>2 DEF Join, Phases
<1>3. CASE RunReturns
  BY <1>3 DEF RunReturns, Drained, Ended, Phases
<1>4. CASE OutsideCancel \/ UNCHANGED vars
  BY <1>4 DEF OutsideCancel, vars, Phases
<1> QED
  BY <1>1, <1>2, <1>3, <1>4 DEF SchedulerStep

(* The sources of a cancellation: see Blame. *)
LEMMA BlameHandler ==
  ASSUME Places, ControlTypes, Phases, Blame, CtxOnlyFromOutside,
         NEW n \in Node, HandlerStep(n) \/ Fail(n)
  PROVE  Blame' /\ CtxOnlyFromOutside'
<1>0. /\ pc \in [Node -> {"loop", "flush", "closing", "closed", "exited"}]
      /\ ret \in [Node -> Results] /\ sres \in [Node -> Results] /\ err \in Results
  BY DEF ControlTypes
<1>1. UNCHANGED <<rd, sres, outside>>
  BY DEF HandlerStep, Fail, SourceRead, SourceEof, LoopCancelled, Recv, Eos, Emit, FlushDone,
         SendClone, SendLast, SendCancelled, CopyRecv, CopyEos, MultiRecv, MultiEos, SinkReturn,
         CloseOuts, Exit
<1>2. CASE \E r \in Results : /\ Kind[n] # "sink" /\ Return(n, r) /\ UNCHANGED runVars
                              /\ r = "ctx" => cancelled
  BY <1>0, <1>1, <1>2 DEF Return, Blame, CtxOnlyFromOutside, Results
<1>3. CASE UNCHANGED <<pc, ret, runVars>>
  BY <1>1, <1>3 DEF Blame, CtxOnlyFromOutside
<1>4. CASE /\ Kind[n] # "sink" /\ pc' = [pc EXCEPT ![n] = "flush"] /\ UNCHANGED <<ret, runVars>>
  BY <1>0, <1>1, <1>4 DEF Blame, CtxOnlyFromOutside
<1>5. CASE SinkReturn(n)
  <2>1. /\ Kind[n] = "sink" /\ pc' = [pc EXCEPT ![n] = "closing"] /\ UNCHANGED runVars
        /\ \A e \in In(n) : rd[e] = "done"
    BY <1>5 DEF SinkReturn, Return
  <2>2. PICK r \in {"nil", "err"} : ret' = [ret EXCEPT ![n] = SinkResult(n, r)]
    BY <1>5 DEF SinkReturn, Return
  <2>3. /\ sres[n] # "nil" => ret'[n] # "nil"
        /\ ret'[n] = "ctx" => sres[n] = "ctx"
    BY <1>0, <2>2 DEF SinkResult
  <2>4. \A m \in Node : m # n => ret'[m] = ret[m]
    BY <1>0, <2>2
  <2>5. pc'[n] = "closing" /\ \A m \in Node : m # n => pc'[m] = pc[m]
    BY <1>0, <2>1
  <2> QED
    BY <1>1, <2>1, <2>3, <2>4, <2>5 DEF Blame, CtxOnlyFromOutside
<1>6. CASE CloseOuts(n)
  BY <1>0, <1>1, <1>6 DEF CloseOuts, MayClose, Blame, CtxOnlyFromOutside
<1>7. CASE Exit(n)
  BY <1>0, <1>1, <1>7 DEF Exit, FirstError, Blame, CtxOnlyFromOutside, Results
<1>8. CASE dest[n] # <<>>
  <2>1. Kind[n] # "sink"
    BY <1>8 DEF Phases
  <2>2. CASE SendCancelled(n) \/ Fail(n)
    BY <1>2, <2>1, <2>2 DEF SendCancelled, Fail, Results
  <2>3. CASE SendClone(n) \/ SendLast(n)
    BY <1>3, <2>3 DEF SendClone, SendLast
  <2> QED
    BY <1>3, <1>5, <1>6, <1>7, <1>8, <2>2, <2>3
    DEF HandlerStep, SourceRead, SourceEof, LoopCancelled, Recv, Eos, Emit, FlushDone,
        CopyRecv, CopyEos, MultiRecv, MultiEos, Idle
<1>9. CASE dest[n] = <<>>
  <2>1. ~SendClone(n) /\ ~SendLast(n) /\ ~SendCancelled(n)
    <3>1. Len(dest[n]) = 0
      BY <1>9, EmptySeq
    <3> QED
      BY <1>9, <3>1 DEF SendClone, SendLast, SendCancelled
  <2>2. CASE SourceRead(n) \/ Recv(n) \/ Emit(n) \/ CopyRecv(n)
    BY <1>3, <2>2 DEF SourceRead, Recv, Emit, CopyRecv
  <2>3. CASE SourceEof(n) \/ MultiEos(n)
    BY <1>4, <2>3 DEF SourceEof, MultiEos
  <2>4. CASE LoopCancelled(n) \/ CopyEos(n) \/ Fail(n)
    BY <1>2, <2>4 DEF LoopCancelled, CopyEos, Fail, Results
  <2>5. CASE FlushDone(n)
    <3>1. Kind[n] # "sink"
      BY <2>5 DEF FlushDone, Phases
    <3> QED
      BY <1>2, <2>5, <3>1 DEF FlushDone, Results
  <2>6. CASE Eos(n)
    BY <1>2, <1>4, <2>6 DEF Eos, Linear, Results
  <2>7. CASE MultiRecv(n)
    BY <1>2, <1>3, <2>7 DEF MultiRecv, Results
  <2> QED
    BY <1>5, <1>6, <1>7, <2>1, <2>2, <2>3, <2>4, <2>5, <2>6, <2>7 DEF HandlerStep
<1> QED
  BY <1>8, <1>9

LEMMA BlameOther ==
  ASSUME ControlTypes, Blame, CtxOnlyFromOutside,
         (\E e \in Edge : InputStep(e)) \/ SchedulerStep \/ OutsideCancel \/ UNCHANGED vars
  PROVE  Blame' /\ CtxOnlyFromOutside'
<1>0. /\ rd \in [Edge -> {"run", "push", "done"}] /\ sres \in [Node -> Results]
      /\ To \in [Edge -> Node]
  BY GraphAssumption DEF ControlTypes
<1>1. ASSUME NEW e \in Edge, InputStep(e) PROVE Blame' /\ CtxOnlyFromOutside'
  <2>1. UNCHANGED <<pc, ret, runVars>>
    BY <1>1 DEF InputStep, FwdTake, FwdEos, FwdPush, SinkRecv, SinkEos, SinkCancelled
  <2>2. rd[e] # "done" /\ \A f \in Edge : f # e => rd'[f] = rd[f]
    BY <1>0, <1>1 DEF InputStep, FwdTake, FwdEos, FwdPush, SinkRecv, SinkEos, SinkCancelled
  <2>3. Kind[To[e]] = "sink" => pc[To[e]] = "loop"
    BY <1>0, <2>2 DEF Blame, In
  <2>4. \A m \in Node : Kind[m] = "sink" /\ pc[m] # "loop" => \A f \in In(m) : rd'[f] = "done"
    BY <2>2, <2>3 DEF Blame, In
  <2>5. UNCHANGED sres \/ Kind[To[e]] = "sink"
    BY <1>1 DEF InputStep, FwdTake, FwdEos, FwdPush, SinkRecv, SinkEos, SinkCancelled
  <2>6. \A m \in Node : m # To[e] => sres'[m] = sres[m]
    BY <1>0, <1>1 DEF InputStep, FwdTake, FwdEos, FwdPush, SinkRecv, SinkEos, SinkCancelled
  <2>7. sres'[To[e]] = "ctx" => cancelled
    BY <1>0, <1>1
    DEF InputStep, FwdTake, FwdEos, FwdPush, SinkRecv, SinkEos, SinkCancelled, EgctxDone, Blame
  <2> QED
    BY <1>0, <2>1, <2>3, <2>4, <2>5, <2>6, <2>7 DEF Blame, CtxOnlyFromOutside
<1>2. CASE OutsideCancel
  BY <1>2 DEF OutsideCancel, Blame, CtxOnlyFromOutside
<1>3. ASSUME (\E e \in Edge : Drain(e)) \/ Join \/ RunReturns \/ UNCHANGED vars
      PROVE  Blame' /\ CtxOnlyFromOutside'
  <2>1. UNCHANGED <<pc, ret, rd, sres, cancelled, outside, err>>
    BY <1>3 DEF Drain, Join, RunReturns, vars
  <2> QED
    BY <2>1 DEF Blame, CtxOnlyFromOutside
<1> QED
  BY <1>1, <1>2, <1>3 DEF SchedulerStep

-----------------------------------------------------------------------------
LEMMA InitIInv == Init => IInv
<1> SUFFICES ASSUME Init PROVE IInv
  OBVIOUS
<1>1. None \notin Value /\ MaxRead \in Nat /\ MaxPull \in Nat
  BY BoundAssumption
<1>2. Places
  <2>1. \A e \in Edge : DOMAIN chan[e] = {}
    BY EmptyDomain DEF Init
  <2>2. \A n \in Node : DOMAIN msg[n] = {}
    BY EmptyDomain DEF Init
  <2>3. Ownership
    BY <2>1, <2>2 DEF Init, Ownership, EdgeOwnership, HandlerOwnership, ForwarderOwnership
  <2>4. Accounted
    BY OwnersDiffer DEF Init, Accounted
  <2>5. owner \in [Value -> Owners]
    BY OwnersTyped DEF Init
  <2> QED
    BY <2>3, <2>4, <2>5, EmptySeq DEF Init, Places
<1>3. ControlTypes
  <2>1. 0 \in 0..MaxPull /\ MaxRead \in 0..MaxRead
    BY <1>1
  <2>2. todo \in [Node -> 0..MaxPull] /\ left \in [Node -> 0..MaxRead]
    BY <2>1 DEF Init
  <2> QED
    BY <2>2, Zenon DEF Init, ControlTypes, Results
<1>4. Phases
  <2>1. \A n \in Node : DOMAIN dest[n] = {}
    BY EmptyDomain DEF Init
  <2> QED
    BY <2>1 DEF Init, Phases
<1>5. Blame /\ CtxOnlyFromOutside
  BY DEF Init, Blame, CtxOnlyFromOutside
<1> QED
  BY <1>2, <1>3, <1>4, <1>5, Split DEF IInv

LEMMA StepIInv == IInv /\ [Next]_vars => IInv'
<1> SUFFICES ASSUME IInv, [Next]_vars PROVE IInv'
  OBVIOUS
<1>1. Places /\ ControlTypes /\ Phases /\ Blame /\ CtxOnlyFromOutside
  BY Split DEF IInv
<1>2. Places' /\ ControlTypes' /\ Phases' /\ Blame' /\ CtxOnlyFromOutside'
  <2>1. ASSUME NEW n \in Node, HandlerStep(n) \/ Fail(n)
        PROVE  Places' /\ ControlTypes' /\ Phases' /\ Blame' /\ CtxOnlyFromOutside'
    BY <1>1, <2>1, HandlerMoves, TypeHandler, PhasesHandler, BlameHandler
  <2>2. ASSUME (\E e \in Edge : InputStep(e)) \/ SchedulerStep \/ OutsideCancel \/ UNCHANGED vars
        PROVE  Places' /\ ControlTypes' /\ Phases' /\ Blame' /\ CtxOnlyFromOutside'
    BY <1>1, <2>2, OtherMoves, TypeOther, PhasesOther, BlameOther
  <2> QED
    BY <2>1, <2>2 DEF Next
<1>3. TypeOK' /\ Ownership' /\ Accounted'
  BY <1>2 DEF TypeOK, Places, ControlTypes
<1> QED
  BY <1>2, <1>3 DEF IInv

(* The strengthened invariant: every value is where its owner tag says,     *)
(* what a handler's phase says about its hands, and who may be blamed.      *)
THEOREM Invariance == Spec => []IInv
BY InitIInv, StepIInv, PTL DEF Spec

(* Every variable keeps its type, for any graph, capacity and number of     *)
(* values.                                                                  *)
THEOREM TypeCorrect == Spec => []TypeOK
BY Invariance, PTL DEF IInv

(* No two goroutines of a run may Close the same frame or packet, and none  *)
(* holds one that was Closed: the ownership rule the handlers' comments     *)
(* state, over clone-and-send, forwarders and the drain.                    *)
THEOREM OneOwner == Spec => []Ownership
BY Invariance, PTL DEF IInv

(* When Scheduler.Run returns, every value is released but those that a     *)
(* cancelled clone-and-send or a multi-input filter lost.                   *)
THEOREM RunReleases == Spec => []ReturnReleases
<1>1. IInv => ReturnReleases
  <2> SUFFICES ASSUME IInv, run = "returned", NEW v \in live PROVE v \in Stranded
    BY DEF ReturnReleases
  <2>1. v \in Value /\ owner[v] \in Owners /\ owner[v] # Free
    BY DEF IInv, TypeOK, live
  <2>2. \A e \in Edge : owner[v] # OnEdge(e)
    <3> SUFFICES ASSUME NEW e \in Edge, owner[v] = OnEdge(e) PROVE FALSE
      OBVIOUS
    <3>1. PICK i \in DOMAIN chan[e] : chan[e][i] = v
      BY <2>1 DEF IInv, Accounted
    <3>2. chan[e] = <<>>
      BY DEF IInv, Phases
    <3> QED
      BY <3>1, <3>2, EmptyDomain
  <2>3. \A n \in Node : owner[v] # HeldBy(n)
    <3>1. \A n \in Node : pc[n] = "exited"
      BY DEF IInv, Phases
    <3>2. \A n \in Node : dest[n] = <<>>
      BY <3>1 DEF IInv, Phases
    <3>3. \A n \in Node : hold[n] = None
      BY <3>2 DEF IInv, Ownership, HandlerOwnership
    <3> QED
      BY <2>1, <3>3, BoundAssumption DEF IInv, Accounted
  <2> QED
    BY <2>1, <2>2, <2>3 DEF Owners, Stranded
<1> QED
  BY <1>1, Invariance, PTL

(* An error that a handler or a sink's consumer returned is never swallowed. *)
LEMMA ErrorsReported == Spec => []ErrorReported
<1>1. IInv => ErrorReported
  <2> SUFFICES ASSUME IInv, run # "waiting", NEW n \in Node, ret[n] # "nil" \/ sres[n] # "nil"
               PROVE  err # "nil"
    BY DEF ErrorReported
  <2>1. pc[n] = "exited"
    BY DEF IInv, Phases
  <2>2. ret[n] # "nil"
    BY <2>1 DEF IInv, Blame
  <2> QED
    BY <2>1, <2>2 DEF IInv, Blame
<1> QED
  BY <1>1, Invariance, PTL

(* Run returns the context's error only when its caller cancelled it, never *)
(* because of the cancellation that follows a node's error, and never nil   *)
(* when a handler or a sink's consumer failed.                              *)
THEOREM RootCause == Spec => []ErrorIsCause
BY ErrorsReported, Invariance, PTL DEF IInv, ErrorIsCause

-----------------------------------------------------------------------------
(* What a step does to the edges: nothing, one receive, or one send by the  *)
(* producer of the edge, whose handler is still running.                    *)
LEMMA ChanSteps ==
  ASSUME IInv, [Next]_vars
  PROVE  \/ UNCHANGED chan
         \/ \E e \in Edge : chan[e] # <<>> /\ TakeFrom(e)
         \/ \E e \in Edge : /\ pc[From[e]] \in {"loop", "flush"}
                            /\ \A f \in Edge \ {e} : chan'[f] = chan[f]
<1>0. Places /\ Phases
  BY Split DEF IInv
<1>1. ASSUME NEW n \in Node, SendClone(n) \/ SendLast(n)
      PROVE  \E e \in Edge : /\ pc[From[e]] \in {"loop", "flush"}
                             /\ \A f \in Edge \ {e} : chan'[f] = chan[f]
  <2>1. dest[n] # <<>>
    <3>1. Len(dest[n]) > 0
      BY <1>1 DEF SendClone, SendLast
    <3>2. ASSUME dest[n] = <<>> PROVE Len(dest[n]) = 0
      BY <3>2, EmptyDomain
    <3> QED
      BY <3>1, <3>2
  <2>2. Head(dest[n]) \in Edge /\ From[Head(dest[n])] = n /\ pc[n] \in {"loop", "flush"}
    BY <1>0, <2>1, DestHead DEF Phases
  <2>3. \A f \in Edge \ {Head(dest[n])} : chan'[f] = chan[f]
    BY <1>0, <1>1 DEF SendClone, SendLast, Places
  <2> QED
    BY <2>2, <2>3
<1>2. ASSUME NEW n \in Node, Recv(n) \/ CopyRecv(n)
      PROVE  \E e \in Edge : chan[e] # <<>> /\ TakeFrom(e)
  BY <1>2 DEF Recv, CopyRecv, In
<1>3. ASSUME NEW n \in Node, HandlerStep(n) \/ Fail(n),
             ~(SendClone(n) \/ SendLast(n) \/ Recv(n) \/ CopyRecv(n))
      PROVE  UNCHANGED chan
  BY <1>3
  DEF HandlerStep, Fail, SourceRead, SourceEof, LoopCancelled, Eos, Emit, FlushDone,
      SendCancelled, CopyEos, MultiRecv, MultiEos, SinkReturn, CloseOuts, Exit
<1>4. ASSUME NEW e \in Edge, InputStep(e) \/ Drain(e)
      PROVE  UNCHANGED chan \/ (chan[e] # <<>> /\ TakeFrom(e))
  BY <1>4 DEF InputStep, FwdTake, FwdEos, FwdPush, SinkRecv, SinkEos, SinkCancelled, Drain
<1>5. ASSUME Join \/ RunReturns \/ OutsideCancel \/ UNCHANGED vars PROVE UNCHANGED chan
  BY <1>5 DEF Join, RunReturns, OutsideCancel, vars
<1> QED
  BY <1>1, <1>2, <1>3, <1>4, <1>5 DEF Next, SchedulerStep

(* What is said about a closed edge in a step.                              *)
LEMMA ClosedKeeps ==
  ASSUME IInv, [Next]_vars, NEW e \in Edge, closed[e]
  PROVE  closed'[e] /\ Len(chan'[e]) <= Len(chan[e])
<1>0. Len(chan[e]) \in Nat /\ chan \in [Edge -> Seq(Value)] /\ closed \in [Edge -> BOOLEAN]
  <2>1. chan \in [Edge -> Seq(Value)] /\ closed \in [Edge -> BOOLEAN]
    BY DEF IInv, TypeOK
  <2> QED
    BY <2>1, LenProperties
<1>1. closed'[e]
  <2>1. UNCHANGED closed \/ \E n \in Node : closed' = [f \in Edge |-> closed[f] \/ f \in Out(n)]
    BY DEF Next, HandlerStep, Fail, SourceRead, SourceEof, LoopCancelled, Recv, Eos, Emit,
        FlushDone, SendClone, SendLast, SendCancelled, CopyRecv, CopyEos, MultiRecv, MultiEos,
        SinkReturn, CloseOuts, Exit, InputStep, FwdTake, FwdEos, FwdPush, SinkRecv, SinkEos,
        SinkCancelled, SchedulerStep, Join, RunReturns, Drain, OutsideCancel, vars
  <2> QED
    BY <2>1
<1>2. CASE UNCHANGED chan
  BY <1>0, <1>1, <1>2
<1>3. ASSUME NEW f \in Edge, chan[f] # <<>>, TakeFrom(f) PROVE Len(chan'[e]) <= Len(chan[e])
  <2>1. CASE e = f
    <3>1. Len(Tail(chan[e])) = Len(chan[e]) - 1
      BY <1>0, <1>3, <2>1, HeadTailProperties
    <3>2. chan'[e] = Tail(chan[e])
      BY <1>0, <1>3, <2>1 DEF TakeFrom
    <3> QED
      BY <1>0, <3>1, <3>2
  <2>2. CASE e # f
    BY <1>0, <1>3, <2>2 DEF TakeFrom
  <2> QED
    BY <2>1, <2>2
<1>4. ASSUME NEW f \in Edge, pc[From[f]] \in {"loop", "flush"},
             \A g \in Edge \ {f} : chan'[g] = chan[g]
      PROVE  Len(chan'[e]) <= Len(chan[e])
  <2>1. e # f
    BY <1>4 DEF IInv, Phases
  <2> QED
    BY <1>0, <1>4, <2>1
<1> QED
  BY <1>1, <1>2, <1>3, <1>4, ChanSteps

(* Nothing is sent on a closed channel, and a channel stays closed: the     *)
(* scheduler closes the outputs of a node after its handler is back.        *)
THEOREM SendsOnlyOpen == Spec => NoSendOnClosed
<1>1. ASSUME IInv, [Next]_vars, NEW e \in Edge, closed[e]
      PROVE  closed'[e] /\ Len(chan'[e]) <= Len(chan[e])
  BY <1>1, ClosedKeeps
<1>2. IInv /\ [Next]_vars
        => [\A e \in Edge : closed[e] => closed'[e] /\ Len(chan'[e]) <= Len(chan[e])]_vars
  BY <1>1
<1> QED
  BY <1>2, Invariance, PTL DEF Spec, NoSendOnClosed

-----------------------------------------------------------------------------
(* The refinement of RunContract. *)
HeldTags == {OnEdge(e) : e \in Edge} \cup {HeldBy(n) : n \in Node}

(* One value changes hands: the set of values accounted for gains it, loses *)
(* it, or stays the same.                                                   *)
LEMMA HeldChange ==
  ASSUME TypeOK, NEW v \in Value, NEW o, Give(v, o)
  PROVE  /\ owner[v] \in HeldTags /\ o \in HeldTags => Held' = Held
         /\ owner[v] \notin HeldTags /\ o \notin HeldTags => Held' = Held
         /\ owner[v] \in HeldTags /\ o \notin HeldTags => v \in Held /\ Held' = Held \ {v}
         /\ owner[v] \notin HeldTags /\ o \in HeldTags => v \in Value \ Held /\ Held' = Held \cup {v}
<1>1. owner'[v] = o /\ \A w \in Value : w # v => owner'[w] = owner[w]
  BY DEF Give, TypeOK
<1>2. Held = {w \in Value : owner[w] \in HeldTags} /\ Held' = {w \in Value : owner'[w] \in HeldTags}
  BY DEF Held, HeldTags
<1> QED
  BY <1>1, <1>2

LEMMA TagsHeld ==
  /\ \A e \in Edge : OnEdge(e) \in HeldTags /\ FwdOf(e) \notin HeldTags
  /\ \A n \in Node : HeldBy(n) \in HeldTags /\ MsgOf(n) \notin HeldTags
  /\ Free \notin HeldTags /\ Lost \notin HeldTags
BY OwnersDiffer DEF HeldTags

LEMMA HeldKept == UNCHANGED owner => UNCHANGED Held
BY DEF Held

LEMMA HandlerRefines ==
  ASSUME IInv, NEW n \in Node, HandlerStep(n) \/ Fail(n)
  PROVE  [Contract!Next]_(Contract!vars)
<1>0. Places /\ Phases /\ TypeOK
  BY Split DEF IInv
<1>1. run = "waiting" /\ run' = run
  BY <1>0, HandlerBusy
<1>2. ASSUME UNCHANGED err,
             UNCHANGED owner \/ \E v \in Value, o \in Owners : Give(v, o)
      PROVE  [Contract!Next]_(Contract!vars)
  <2>1. CASE UNCHANGED owner
    BY <1>1, <1>2, <2>1, HeldKept DEF Contract!vars
  <2>2. ASSUME NEW v \in Value, NEW o \in Owners, Give(v, o) PROVE [Contract!Next]_(Contract!vars)
    <3>1. \/ Held' = Held
          \/ v \in Held /\ Held' = Held \ {v}
          \/ v \in Value \ Held /\ Held' = Held \cup {v}
      BY <1>0, <2>2, HeldChange
    <3> QED
      BY <1>1, <1>2, <3>1
      DEF Contract!vars, Contract!Next, Contract!Acquire, Contract!Release
  <2> QED
    BY <1>2, <2>1, <2>2
<1>3. CASE Exit(n)
  <2>1. UNCHANGED Held
    BY <1>3, HeldKept DEF Exit
  <2>2. UNCHANGED err \/ (err = "nil" /\ err' \in {"err", "ctx"})
    BY <1>0, <1>3 DEF Exit, FirstError, TypeOK, Results
  <2> QED
    BY <1>1, <2>1, <2>2 DEF Contract!vars, Contract!Next, Contract!Report
<1>4. CASE ~Exit(n)
  <2>1. UNCHANGED err
    BY <1>4
    DEF HandlerStep, Fail, SourceRead, SourceEof, LoopCancelled, Recv, Eos, Emit, FlushDone,
        SendClone, SendLast, SendCancelled, CopyRecv, CopyEos, MultiRecv, MultiEos, SinkReturn,
        CloseOuts
  <2>2. UNCHANGED owner \/ \E v \in Value, o \in Owners : Give(v, o)
    <3>1. ASSUME Recv(n) \/ CopyRecv(n) PROVE \E v \in Value, o \in Owners : Give(v, o)
      <4>1. PICK e \in Edge : chan[e] # <<>> /\ \E o \in {Free, HeldBy(n)} : Give(Head(chan[e]), o)
        BY <3>1 DEF Recv, CopyRecv, In
      <4>2. Head(chan[e]) \in Value
        BY <1>0, <4>1, HeadTailProperties DEF Places
      <4> QED
        BY <4>1, <4>2, OwnersTyped
    <3>2. ASSUME Emit(n) \/ SendClone(n) PROVE \E v \in Value, o \in Owners : Give(v, o)
      <4>1. Fresh \in Value
        BY <3>2, FreshIsFree DEF Emit, SendClone
      <4>2. CASE Emit(n)
        BY <4>1, <4>2, OwnersTyped DEF Emit
      <4>3. CASE SendClone(n)
        <5>1. Len(dest[n]) > 0 /\ Give(Fresh, OnEdge(Head(dest[n])))
          BY <4>3 DEF SendClone
        <5>2. ASSUME dest[n] = <<>> PROVE Len(dest[n]) = 0
          BY <5>2, EmptyDomain
        <5>3. Head(dest[n]) \in Edge
          BY <1>0, <5>1, <5>2, DestHead
        <5> QED
          BY <4>1, <5>1, <5>3, OwnersTyped
      <4> QED
        BY <3>2, <4>2, <4>3
    <3>3. ASSUME dest[n] # <<>>, SendLast(n) \/ SendCancelled(n) \/ Fail(n)
          PROVE  \E v \in Value, o \in Owners : Give(v, o)
      <4>1. hold[n] \in Value /\ Head(dest[n]) \in Edge
        BY <1>0, <3>3, DestHead DEF Places, Ownership, HandlerOwnership
      <4>2. \E o \in {OnEdge(Head(dest[n])), Free, Lost} : Give(hold[n], o)
        BY <3>3 DEF SendLast, SendCancelled, Fail, Give
      <4> QED
        BY <4>1, <4>2, OwnersTyped
    <3>4. CASE MultiRecv(n)
      <4>1. Head(msg[n]) \in Value \cup {None}
        BY <1>0, <3>4, HeadTailProperties DEF MultiRecv, Places
      <4>2. UNCHANGED owner \/ (Head(msg[n]) # None /\ \E o \in {Free, Lost} : Give(Head(msg[n]), o))
        BY <3>4 DEF MultiRecv, Give
      <4> QED
        BY <4>1, <4>2, OwnersTyped
    <3>5. ASSUME dest[n] = <<>> PROVE ~SendLast(n) /\ ~SendCancelled(n)
      <4>1. Len(dest[n]) = 0
        BY <3>5, EmptyDomain
      <4> QED
        BY <3>5, <4>1 DEF SendLast, SendCancelled
    <3>6. ASSUME dest[n] = <<>>, Fail(n) PROVE UNCHANGED owner
      BY <3>6 DEF Fail
    <3>7. ASSUME SourceRead(n) \/ SourceEof(n) \/ LoopCancelled(n) \/ Eos(n) \/ FlushDone(n)
                 \/ CopyEos(n) \/ MultiEos(n) \/ SinkReturn(n) \/ CloseOuts(n)
          PROVE  UNCHANGED owner
      BY <3>7 DEF SourceRead, SourceEof, LoopCancelled, Eos, FlushDone, CopyEos, MultiEos,
                  SinkReturn, CloseOuts
    <3> QED
      BY <1>4, <3>1, <3>2, <3>3, <3>4, <3>5, <3>6, <3>7 DEF HandlerStep
  <2> QED
    BY <1>2, <2>1, <2>2
<1> QED
  BY <1>3, <1>4

LEMMA OtherRefines ==
  ASSUME IInv, (\E e \in Edge : InputStep(e)) \/ SchedulerStep \/ OutsideCancel \/ UNCHANGED vars
  PROVE  [Contract!Next]_(Contract!vars)
<1>0. Places /\ Phases /\ TypeOK
  BY Split DEF IInv
<1>1. ASSUME NEW e \in Edge, chan[e] # <<>>, NEW o \in {Free, FwdOf(e)},
             Give(Head(chan[e]), o), UNCHANGED <<err, run>>
      PROVE  Contract!Release
  <2>1. Head(chan[e]) \in Value /\ owner[Head(chan[e])] = OnEdge(e)
    <3>1. /\ chan[e] \in Seq(Value)
          /\ \A i \in DOMAIN chan[e] : owner[chan[e][i]] = OnEdge(e)
      BY <1>0 DEF Places, Ownership, EdgeOwnership
    <3>2. Head(chan[e]) \in Value /\ Head(chan[e]) = chan[e][1] /\ 1 \in DOMAIN chan[e]
      BY <1>1, <3>1, TailElements
    <3> QED
      BY <3>1, <3>2
  <2>2. Head(chan[e]) \in Held /\ Held' = Held \ {Head(chan[e])}
    BY <1>0, <1>1, <2>1, HeldChange, TagsHeld
  <2>3. run # "returned"
    BY <1>0, <1>1 DEF Phases
  <2> QED
    BY <1>1, <2>2, <2>3 DEF Contract!Release
<1>2. ASSUME NEW e \in Edge, FwdTake(e) \/ SinkRecv(e) \/ Drain(e)
      PROVE  [Contract!Next]_(Contract!vars)
  BY <1>1, <1>2 DEF FwdTake, SinkRecv, Drain, Contract!Next
<1>3. ASSUME NEW e \in Edge, FwdPush(e) PROVE [Contract!Next]_(Contract!vars)
  <2>1. To[e] \in Node /\ fv[e] \in Value \cup {None}
    BY <1>0, GraphAssumption DEF Places
  <2>2. fv[e] # None => owner[fv[e]] = FwdOf(e)
    BY <1>0 DEF Places, Ownership, ForwarderOwnership
  <2>3. UNCHANGED owner \/ (fv[e] # None /\ Give(fv[e], MsgOf(To[e])))
    BY <1>3 DEF FwdPush
  <2>4. UNCHANGED Held
    BY <1>0, <2>1, <2>2, <2>3, HeldChange, HeldKept, TagsHeld
  <2> QED
    BY <1>3, <2>4 DEF FwdPush, Contract!vars
<1>4. ASSUME \/ \E e \in Edge : FwdEos(e) \/ SinkEos(e) \/ SinkCancelled(e)
             \/ OutsideCancel \/ UNCHANGED vars
      PROVE  [Contract!Next]_(Contract!vars)
  <2>1. UNCHANGED <<owner, err, run>>
    BY <1>4 DEF FwdEos, SinkEos, SinkCancelled, OutsideCancel, vars
  <2> QED
    BY <2>1, HeldKept DEF Contract!vars
<1>5. CASE Join
  BY <1>5, HeldKept DEF Join, Contract!Next, Contract!Join
<1>6. CASE RunReturns
  <2>1. \A e \in Edge : chan[e] = <<>>
    BY <1>6 DEF RunReturns, Drained, Ended
  <2>2. \A v \in Value, e \in Edge : owner[v] # OnEdge(e)
    BY <1>0, <2>1, EmptyDomain DEF Places, Accounted
  <2>3. \A n \in Node : hold[n] = None
    <3>1. \A n \in Node : pc[n] = "exited"
      BY <1>0, <1>6 DEF RunReturns, Phases
    <3>2. \A n \in Node : dest[n] = <<>>
      BY <1>0, <3>1 DEF Phases
    <3> QED
      BY <1>0, <3>2 DEF Places, Ownership, HandlerOwnership
  <2>4. Held = {}
    BY <1>0, <2>2, <2>3, BoundAssumption DEF Held, Places, Accounted
  <2> QED
    BY <1>6, <2>4, HeldKept DEF RunReturns, Contract!Next, Contract!Return
<1> QED
  BY <1>2, <1>3, <1>4, <1>5, <1>6 DEF InputStep, SchedulerStep

(* Scheduler.Run implements its contract: see RunContract. *)
THEOREM Refines == Spec => KeepsContract
<1>1. Init => Contract!Init
  BY OwnersDiffer DEF Init, Contract!Init, Held
<1>2. IInv /\ [Next]_vars => [Contract!Next]_(Contract!vars)
  BY HandlerRefines, OtherRefines DEF Next
<1> QED
  BY <1>1, <1>2, Invariance, PTL DEF Spec, KeepsContract, Contract!Spec

-----------------------------------------------------------------------------
(* Delivery: what is behind nil.                                           *)
LEMMA EndedStays ==
  ASSUME IInv, [Next]_vars, NEW e \in Edge, Ended(e)
  PROVE  Ended(e)'
<1>1. chan[e] = <<>> /\ closed[e] /\ closed'[e] /\ Len(chan'[e]) <= Len(chan[e])
  BY ClosedKeeps DEF Ended
<1>2. chan' \in [Edge -> Seq(Value)]
  BY StepIInv DEF IInv, TypeOK
<1>3. Len(chan'[e]) \in Nat /\ Len(chan[e]) = 0
  BY <1>1, <1>2, LenProperties, EmptyDomain
<1>4. chan'[e] = <<>>
  BY <1>1, <1>2, <1>3, EmptySeq
<1> QED
  BY <1>1, <1>4 DEF Ended

LEMMA CancelStays ==
  ASSUME [Next]_vars, cancelled
  PROVE  cancelled'
<1>1. ASSUME NEW n \in Node, HandlerStep(n) PROVE cancelled'
  <2>1. ASSUME SourceRead(n) \/ SourceEof(n) \/ LoopCancelled(n) \/ Recv(n) PROVE cancelled'
    BY <2>1 DEF SourceRead, SourceEof, LoopCancelled, Recv
  <2>2. ASSUME Eos(n) \/ Emit(n) \/ FlushDone(n) \/ SendClone(n) \/ SendLast(n) PROVE cancelled'
    BY <2>2 DEF Eos, Emit, FlushDone, SendClone, SendLast
  <2>3. ASSUME SendCancelled(n) \/ CopyRecv(n) \/ CopyEos(n) \/ MultiRecv(n) PROVE cancelled'
    BY <2>3 DEF SendCancelled, CopyRecv, CopyEos, MultiRecv
  <2>4. ASSUME MultiEos(n) \/ SinkReturn(n) \/ CloseOuts(n) \/ Exit(n) PROVE cancelled'
    BY <2>4 DEF MultiEos, SinkReturn, CloseOuts, Exit
  <2> QED BY <1>1, <2>1, <2>2, <2>3, <2>4 DEF HandlerStep
<1>2. ASSUME NEW n \in Node, Fail(n) PROVE cancelled'
  BY <1>2 DEF Fail
<1>3. ASSUME NEW e \in Edge, InputStep(e) PROVE cancelled'
  BY <1>3 DEF InputStep, FwdTake, FwdEos, FwdPush, SinkRecv, SinkEos, SinkCancelled
<1>4. ASSUME SchedulerStep \/ OutsideCancel PROVE cancelled'
  BY <1>4 DEF SchedulerStep, Join, RunReturns, Drain, OutsideCancel
<1>5. CASE UNCHANGED vars
  BY <1>5 DEF vars
<1> QED BY <1>1, <1>2, <1>3, <1>4, <1>5 DEF Next

(* Only the goroutine that reads an edge changes what it says about it.    *)
LEMMA SomebodyReads ==
  ASSUME [Next]_vars
  PROVE  UNCHANGED <<rd, fv, sres>> \/ \E e \in Edge : InputStep(e)
<1> DEFINE Read == UNCHANGED <<rd, fv, sres>>
<1>1. ASSUME NEW n \in Node, HandlerStep(n) PROVE Read
  <2>1. ASSUME SourceRead(n) \/ SourceEof(n) \/ LoopCancelled(n) \/ Recv(n) PROVE Read
    BY <2>1 DEF SourceRead, SourceEof, LoopCancelled, Recv
  <2>2. ASSUME Eos(n) \/ Emit(n) \/ FlushDone(n) \/ SendClone(n) \/ SendLast(n) PROVE Read
    BY <2>2 DEF Eos, Emit, FlushDone, SendClone, SendLast
  <2>3. ASSUME SendCancelled(n) \/ CopyRecv(n) \/ CopyEos(n) \/ MultiRecv(n) PROVE Read
    BY <2>3 DEF SendCancelled, CopyRecv, CopyEos, MultiRecv
  <2>4. ASSUME MultiEos(n) \/ SinkReturn(n) \/ CloseOuts(n) \/ Exit(n) PROVE Read
    BY <2>4 DEF MultiEos, SinkReturn, CloseOuts, Exit
  <2> HIDE DEF Read
  <2> QED BY <1>1, <2>1, <2>2, <2>3, <2>4 DEF HandlerStep
<1>2. ASSUME NEW n \in Node, Fail(n) PROVE Read
  BY <1>2 DEF Fail
<1>3. ASSUME SchedulerStep \/ OutsideCancel PROVE Read
  BY <1>3 DEF SchedulerStep, Join, RunReturns, Drain, OutsideCancel
<1>4. CASE UNCHANGED vars
  BY <1>4 DEF vars
<1> HIDE DEF Read
<1> QED BY <1>1, <1>2, <1>3, <1>4 DEF Next, Read

LEMMA ReadingsStep ==
  ASSUME IInv, [Next]_vars, NEW d \in Edge, Readings(d)
  PROVE  Readings(d)'
<1>1. /\ Ended(d) => Ended(d)'
      /\ cancelled => cancelled'
  BY EndedStays, CancelStays
<1>2. /\ rd \in [Edge -> {"run", "push", "done"}] /\ fv \in [Edge -> Value \cup {None}]
      /\ sres \in [Node -> Results] /\ \A e \in Edge : To[e] \in Node
  BY GraphAssumption DEF IInv, TypeOK
<1>3. ASSUME rd'[d] = rd[d], fv'[d] = fv[d], sres[To[d]] # "nil" => sres'[To[d]] # "nil"
      PROVE  Readings(d)'
  BY <1>1, <1>3 DEF Readings
<1>4. ASSUME NEW e \in Edge, FwdTake(e) PROVE Readings(d)'
  <2>1. /\ Kind[To[e]] = "multi" /\ rd' = [rd EXCEPT ![e] = "push"]
        /\ fv' = [fv EXCEPT ![e] = Head(chan[e])] /\ sres' = sres /\ chan[e] # <<>>
    BY <1>4 DEF FwdTake
  <2>2. Head(chan[e]) # None
    <3>1. chan[e] \in Seq(Value) /\ None \notin Value
      BY BoundAssumption DEF IInv, TypeOK
    <3> QED
      BY <2>1, <3>1, TailElements
  <2>3. CASE e = d
    BY <1>2, <2>1, <2>2, <2>3 DEF Readings
  <2>4. CASE e # d
    BY <1>2, <1>3, <2>1, <2>4
  <2> QED
    BY <2>3, <2>4
<1>5. ASSUME NEW e \in Edge, FwdEos(e) PROVE Readings(d)'
  <2>1. /\ Kind[To[e]] = "multi" /\ rd' = [rd EXCEPT ![e] = "push"] /\ rd[e] = "run"
        /\ UNCHANGED <<fv, sres>> /\ Ended(e)
    BY <1>5 DEF FwdEos
  <2>2. CASE e = d
    BY <1>1, <1>2, <2>1, <2>2 DEF Readings
  <2>3. CASE e # d
    BY <1>2, <1>3, <2>1, <2>3
  <2> QED
    BY <2>2, <2>3
<1>6. ASSUME NEW e \in Edge, FwdPush(e) PROVE Readings(d)'
  <2>1. /\ fv' = [fv EXCEPT ![e] = None] /\ rd[e] = "push" /\ sres' = sres
        /\ \/ fv[e] = None /\ rd' = [rd EXCEPT ![e] = "done"]
           \/ rd' = [rd EXCEPT ![e] = "run"]
    BY <1>6 DEF FwdPush
  <2>2. CASE e = d
    <3>1. /\ Kind[To[d]] = "multi" /\ fv'[d] = None
          /\ (rd'[d] = "done" /\ Ended(d)) \/ rd'[d] = "run"
      BY <1>2, <2>1, <2>2 DEF Readings
    <3> QED
      BY <1>1, <3>1 DEF Readings
  <2>3. CASE e # d
    BY <1>2, <1>3, <2>1, <2>3
  <2> QED
    BY <2>2, <2>3
<1>7. ASSUME NEW e \in Edge, SinkRecv(e) PROVE Readings(d)'
  <2>1. /\ Kind[To[e]] = "sink" /\ rd[e] = "run" /\ fv' = fv
        /\ \/ UNCHANGED <<rd, sres>>
           \/ /\ rd' = [rd EXCEPT ![e] = "done"]
              /\ sres' = [sres EXCEPT ![To[e]] = IF @ = "nil" THEN "err" ELSE @]
    BY <1>7 DEF SinkRecv
  <2>2. CASE UNCHANGED <<rd, sres>>
    BY <1>3, <2>1, <2>2
  <2>3. CASE /\ rd' = [rd EXCEPT ![e] = "done"]
             /\ sres' = [sres EXCEPT ![To[e]] = IF @ = "nil" THEN "err" ELSE @]
    <3>1. sres'[To[e]] # "nil" /\ \A n \in Node : sres[n] # "nil" => sres'[n] # "nil"
      BY <1>2, <2>3
    <3>2. CASE e = d
      BY <1>2, <2>1, <2>3, <3>1, <3>2 DEF Readings
    <3>3. CASE e # d
      BY <1>2, <1>3, <2>1, <2>3, <3>1, <3>3
    <3> QED
      BY <3>2, <3>3
  <2> QED
    BY <2>1, <2>2, <2>3
<1>8. ASSUME NEW e \in Edge, SinkEos(e) PROVE Readings(d)'
  <2>1. /\ Kind[To[e]] = "sink" /\ rd[e] = "run" /\ UNCHANGED <<fv, sres>> /\ Ended(e)
        /\ rd' = [rd EXCEPT ![e] = "done"]
    BY <1>8 DEF SinkEos
  <2>2. CASE e = d
    BY <1>1, <1>2, <2>1, <2>2 DEF Readings
  <2>3. CASE e # d
    BY <1>2, <1>3, <2>1, <2>3
  <2> QED
    BY <2>2, <2>3
<1>9. ASSUME NEW e \in Edge, SinkCancelled(e) PROVE Readings(d)'
  <2>1. /\ Kind[To[e]] = "sink" /\ rd[e] = "run" /\ fv' = fv /\ rd' = [rd EXCEPT ![e] = "done"]
        /\ cancelled \/ sres[To[e]] # "nil"
        /\ sres' = sres \/ (sres[To[e]] = "nil" /\ sres' = [sres EXCEPT ![To[e]] = "ctx"])
    BY <1>9 DEF SinkCancelled, EgctxDone
  <2>2. \A n \in Node : sres[n] # "nil" => sres'[n] # "nil"
    BY <1>2, <2>1
  <2>3. CASE e = d
    BY <1>1, <1>2, <2>1, <2>2, <2>3 DEF Readings
  <2>4. CASE e # d
    BY <1>2, <1>3, <2>1, <2>2, <2>4
  <2> QED
    BY <2>3, <2>4
<1>10. CASE UNCHANGED <<rd, fv, sres>>
  BY <1>3, <1>10
<1> QED
  BY <1>4, <1>5, <1>6, <1>7, <1>8, <1>9, <1>10, SomebodyReads DEF InputStep

(* A handler that has read its inputs to their end finds nothing new there. *)
LEMMA DoneStays ==
  ASSUME IInv, Delivery, [Next]_vars, NEW m \in Node, DoneWith(m)
  PROVE  DoneWith(m)'
<1>1. Kind[m] # "sink" => \A e \in In(m) : Ended(e)'
  BY EndedStays DEF DoneWith, In
<1>2. ASSUME Kind[m] = "multi" PROVE msg'[m] = <<>> /\ \A e \in In(m) : rd'[e] = "done"
  <2>1. msg[m] = <<>> /\ \A e \in In(m) : rd[e] = "done"
    BY <1>2 DEF DoneWith
  <2>2. /\ msg \in [Node -> Seq(Value \cup {None})] /\ rd \in [Edge -> {"run", "push", "done"}]
        /\ \A e \in Edge : To[e] \in Node
    BY GraphAssumption DEF IInv, TypeOK
  <2>3. ASSUME NEW e \in Edge, InputStep(e) PROVE msg'[m] = msg[m] /\ \A f \in In(m) : rd'[f] = rd[f]
    <3>1. e \notin In(m) \/ Kind[To[e]] # "multi"
      BY <2>1, <2>3 DEF InputStep, FwdTake, FwdEos, FwdPush, SinkRecv, SinkEos, SinkCancelled
    <3>2. e \notin In(m) /\ To[e] # m
      BY <1>2, <3>1 DEF In
    <3>3. msg' = msg \/ msg' = [msg EXCEPT ![To[e]] = Append(@, fv[e])]
      BY <2>3 DEF InputStep, FwdTake, FwdEos, FwdPush, SinkRecv, SinkEos, SinkCancelled
    <3>4. rd' = rd \/ \E x \in {"run", "push", "done"} : rd' = [rd EXCEPT ![e] = x]
      BY <2>3 DEF InputStep, FwdTake, FwdEos, FwdPush, SinkRecv, SinkEos, SinkCancelled
    <3>5. msg'[m] = msg[m]
      BY <2>2, <3>2, <3>3
    <3>6. \A f \in In(m) : rd'[f] = rd[f]
      BY <2>2, <3>2, <3>4 DEF In
    <3> QED
      BY <3>5, <3>6
  <2>4. ASSUME NEW n \in Node, MultiRecv(n) PROVE msg'[m] = msg[m] /\ rd' = rd
    <3>1. msg[n] # <<>> /\ msg' = [msg EXCEPT ![n] = Tail(@)] /\ rd' = rd
      BY <2>4 DEF MultiRecv
    <3> QED
      BY <2>1, <2>2, <3>1
  <2>5. (\E e \in Edge : InputStep(e)) \/ (\E n \in Node : MultiRecv(n)) \/ UNCHANGED <<msg, rd>>
    BY DEF Next, HandlerStep, Fail, SourceRead, SourceEof, LoopCancelled, Recv, Eos, Emit,
           FlushDone, SendClone, SendLast, SendCancelled, CopyRecv, CopyEos, MultiEos,
           SinkReturn, CloseOuts, Exit, SchedulerStep, Join, RunReturns, Drain, OutsideCancel, vars
  <2> QED
    BY <2>1, <2>3, <2>4, <2>5
<1> QED
  BY <1>1, <1>2 DEF DoneWith

(* A handler begins to end at the end of its inputs.                       *)
LEMMA EndingStep ==
  ASSUME IInv, Delivery, [Next]_vars, NEW m \in Node, Ending(m)'
  PROVE  Ending(m) \/ DoneWith(m)
<1>1. /\ pc \in [Node -> {"loop", "flush", "closing", "closed", "exited"}]
      /\ ret \in [Node -> Results]
  BY DEF IInv, TypeOK
<1>2. CASE UNCHANGED <<pc, ret>>
  BY <1>2 DEF Ending
<1>3. ASSUME NEW n \in Node, HandlerStep(n) \/ Fail(n) PROVE Ending(m) \/ DoneWith(m)
  <2>1. CASE n # m
    <3>1. pc'[m] = pc[m] /\ ret'[m] = ret[m]
      BY <1>1, <1>3, <2>1
      DEF HandlerStep, Fail, SourceRead, SourceEof, LoopCancelled, Recv, Eos, Emit, FlushDone,
          SendClone, SendLast, SendCancelled, CopyRecv, CopyEos, MultiRecv, MultiEos, SinkReturn,
          CloseOuts, Exit, Return
    <3> QED
      BY <3>1 DEF Ending
  <2>2. CASE n = m /\ SourceEof(n)
    <3>1. Kind[m] = "source"
      BY <2>2 DEF SourceEof
    <3> QED
      BY <3>1, InputAssumption DEF DoneWith
  <2>3. CASE n = m /\ (Eos(n) \/ CopyEos(n))
    <3>1. PICK e \in In(m) : Ended(e)
      BY <2>3 DEF Eos, CopyEos
    <3>2. Kind[m] \in {"filter", "encoder", "copy"}
      BY <2>3 DEF Eos, CopyEos, Linear
    <3>3. \A f \in In(m) : f = e
      BY <3>1, <3>2, InputAssumption DEF In
    <3> QED
      BY <3>1, <3>2, <3>3 DEF DoneWith
  <2>4. CASE n = m /\ MultiEos(n)
    <3>1. Kind[m] = "multi" /\ msg[m] = <<>> /\ \A e \in In(m) : rd[e] = "done"
      BY <2>4 DEF MultiEos
    <3>2. \A e \in In(m) : Ended(e)
      BY <3>1 DEF Delivery, Readings, In
    <3> QED
      BY <3>1, <3>2 DEF DoneWith
  <2>5. CASE n = m /\ SinkReturn(n)
    <3>1. Kind[m] = "sink"
      BY <2>5 DEF SinkReturn
    <3> QED
      BY <3>1 DEF DoneWith
  <2>6. CASE n = m /\ (LoopCancelled(n) \/ SendCancelled(n) \/ Fail(n))
    <3>1. Return(m, "ctx") \/ Return(m, "err")
      BY <2>6 DEF LoopCancelled, SendCancelled, Fail
    <3>2. pc'[m] = "closing" /\ ret'[m] # "nil"
      BY <1>1, <3>1 DEF Return
    <3> QED
      BY <3>2 DEF Ending
  <2>7. CASE n = m /\ (FlushDone(n) \/ CloseOuts(n) \/ Exit(n))
    <3>1. CASE FlushDone(n)
      BY <2>7, <3>1 DEF FlushDone, Ending
    <3>2. CASE CloseOuts(n) \/ Exit(n)
      <4>1. pc[m] \in {"closing", "closed"} /\ pc'[m] \in {"closed", "exited"} /\ ret' = ret
        BY <1>1, <2>7, <3>2 DEF CloseOuts, MayClose, Exit
      <4> QED
        BY <4>1 DEF Ending
    <3> QED
      BY <2>7, <3>1, <3>2
  <2>8. CASE n = m /\ MultiRecv(n)
    <3>1. CASE UNCHANGED <<pc, ret>>
      BY <1>2, <3>1
    <3>2. CASE Return(m, "ctx")
      <4>1. pc'[m] = "closing" /\ ret'[m] # "nil"
        BY <1>1, <3>2 DEF Return
      <4> QED
        BY <4>1 DEF Ending
    <3> QED
      BY <2>8, <3>1, <3>2 DEF MultiRecv
  <2>9. CASE SourceRead(n) \/ Recv(n) \/ Emit(n) \/ SendClone(n) \/ SendLast(n) \/ CopyRecv(n)
    BY <1>2, <2>9 DEF SourceRead, Recv, Emit, SendClone, SendLast, CopyRecv
  <2> QED
    BY <1>3, <2>1, <2>2, <2>3, <2>4, <2>5, <2>6, <2>7, <2>8, <2>9 DEF HandlerStep
<1>4. (\E n \in Node : HandlerStep(n) \/ Fail(n)) \/ UNCHANGED <<pc, ret>>
  BY DEF Next, InputStep, FwdTake, FwdEos, FwdPush, SinkRecv, SinkEos, SinkCancelled,
         SchedulerStep, Join, RunReturns, Drain, OutsideCancel, vars
<1> QED
  BY <1>2, <1>3, <1>4

(* No tag of a forwarder or of a message queue is stale.                   *)
Elsewhere(o) == \/ o = Free \/ (\E e \in Edge : o = OnEdge(e)) \/ (\E n \in Node : o = HeldBy(n))
LEMMA TaggedKept ==
  ASSUME NEW v \in Value, Tagged(v), UNCHANGED <<fv, msg>>, cancelled => cancelled',
         owner'[v] = owner[v] \/ Elsewhere(owner'[v]) \/ (owner'[v] = Lost /\ cancelled)
  PROVE  Tagged(v)'
<1>1. CASE owner'[v] = owner[v]
  BY <1>1 DEF Tagged
<1>2. CASE Elsewhere(owner'[v]) \/ (owner'[v] = Lost /\ cancelled)
  BY <1>2, OwnersDiffer DEF Tagged, Elsewhere
<1> QED
  BY <1>1, <1>2

LEMMA TaggedStep ==
  ASSUME IInv, Delivery, [Next]_vars, NEW v \in Value
  PROVE  Tagged(v)'
<1>1. Tagged(v) /\ (cancelled => cancelled')
  BY CancelStays DEF Delivery
<1>2. /\ owner \in [Value -> Owners] /\ fv \in [Edge -> Value \cup {None}] /\ None \notin Value
      /\ msg \in [Node -> Seq(Value \cup {None})] /\ \A e \in Edge : To[e] \in Node
  BY BoundAssumption, GraphAssumption DEF IInv, TypeOK
<1>3. CASE UNCHANGED <<fv, msg, owner>>
  BY <1>1, <1>3, TaggedKept
<1>4. ASSUME UNCHANGED <<fv, msg>>, NEW x, NEW o, Give(x, o), Elsewhere(o) \/ (o = Lost /\ cancelled)
      PROVE  Tagged(v)'
  <2>1. owner'[v] = owner[v] \/ owner'[v] = o
    BY <1>2, <1>4 DEF Give
  <2> QED
    BY <1>1, <1>4, <2>1, TaggedKept
<1>5. ASSUME NEW n \in Node, Recv(n) \/ Emit(n) \/ SendClone(n) \/ SendLast(n) \/ CopyRecv(n)
      PROVE  Tagged(v)'
  <2>1. UNCHANGED <<fv, msg>> /\ \E x, o : Give(x, o) /\ Elsewhere(o)
    <3>1. CASE Recv(n)
      BY <3>1 DEF Recv, Elsewhere
    <3>2. CASE Emit(n) \/ CopyRecv(n)
      BY <3>2 DEF Emit, CopyRecv, Elsewhere
    <3>3. CASE SendClone(n) \/ SendLast(n)
      <4>1. dest[n] # <<>>
        BY <3>3, EmptyDomain DEF SendClone, SendLast
      <4>2. Head(dest[n]) \in Edge
        BY <4>1, DestHead, Split DEF IInv
      <4> QED
        BY <3>3, <4>2 DEF SendClone, SendLast, Elsewhere
    <3> QED
      BY <1>5, <3>1, <3>2, <3>3
  <2> QED
    BY <1>4, <2>1
<1>6. ASSUME NEW n \in Node, SendCancelled(n) PROVE Tagged(v)'
  <2>1. UNCHANGED <<fv, msg>> /\ cancelled /\ (Give(hold[n], Lost) \/ Give(hold[n], Free))
    BY <1>6 DEF SendCancelled
  <2> QED
    BY <1>4, <2>1 DEF Elsewhere
<1>7. ASSUME NEW n \in Node, Fail(n) PROVE Tagged(v)'
  <2>1. UNCHANGED <<fv, msg>> /\ (owner' = owner \/ Give(hold[n], Free))
    BY <1>7 DEF Fail, Give
  <2> QED
    BY <1>3, <1>4, <2>1 DEF Elsewhere
<1>8. ASSUME NEW e \in Edge, SinkRecv(e) \/ Drain(e) PROVE Tagged(v)'
  <2>1. UNCHANGED <<fv, msg>> /\ Give(Head(chan[e]), Free)
    BY <1>8 DEF SinkRecv, Drain
  <2> QED
    BY <1>4, <2>1 DEF Elsewhere
<1>9. ASSUME NEW e \in Edge, FwdTake(e) PROVE Tagged(v)'
  <2>1. /\ fv' = [fv EXCEPT ![e] = Head(chan[e])] /\ Give(Head(chan[e]), FwdOf(e)) /\ msg' = msg
        /\ rd[e] = "run"
    BY <1>9 DEF FwdTake
  <2>2. fv[e] = None
    BY <2>1 DEF Delivery, Readings
  <2>3. CASE v = Head(chan[e])
    BY <1>2, <2>1, <2>3, OwnersDiffer DEF Tagged, Give
  <2>4. CASE v # Head(chan[e])
    <3>1. owner'[v] = owner[v] /\ \A f \in Edge : f # e => fv'[f] = fv[f]
      BY <1>2, <2>1, <2>4 DEF Give
    <3>2. owner[v] # FwdOf(e)
      BY <1>1, <1>2, <2>2 DEF Tagged
    <3> QED
      BY <1>1, <2>1, <3>1, <3>2 DEF Tagged
  <2> QED
    BY <2>3, <2>4
<1>10. ASSUME NEW e \in Edge, FwdPush(e) PROVE Tagged(v)'
  <2>1. /\ fv' = [fv EXCEPT ![e] = None] /\ msg' = [msg EXCEPT ![To[e]] = Append(@, fv[e])]
        /\ (fv[e] = None /\ owner' = owner) \/ (fv[e] # None /\ Give(fv[e], MsgOf(To[e])))
        /\ rd[e] = "push" /\ (cancelled' = cancelled)
    BY <1>10 DEF FwdPush
  <2>2. Kind[To[e]] = "multi"
    BY <2>1 DEF Delivery, Readings
  <2>3. /\ \A i \in DOMAIN msg[To[e]] : i \in DOMAIN msg'[To[e]] /\ msg'[To[e]][i] = msg[To[e]][i]
        /\ \E i \in DOMAIN msg'[To[e]] : msg'[To[e]][i] = fv[e]
    <3>1. msg[To[e]] \in Seq(Value \cup {None}) /\ fv[e] \in Value \cup {None}
      BY <1>2
    <3>2. msg'[To[e]] = Append(msg[To[e]], fv[e])
      BY <1>2, <2>1
    <3> QED
      BY <3>1, <3>2, AppendElements
  <2>4. \A n \in Node : n # To[e] => msg'[n] = msg[n]
    BY <1>2, <2>1
  <2>5. CASE v = fv[e]
    <3>1. owner'[v] = MsgOf(To[e])
      BY <1>2, <2>1, <2>5 DEF Give
    <3> QED
      BY <1>2, <2>2, <2>3, <2>5, <3>1, OwnersDiffer DEF Tagged
  <2>6. CASE v # fv[e]
    <3>1. owner'[v] = owner[v] /\ \A f \in Edge : f # e => fv'[f] = fv[f]
      BY <1>2, <2>1, <2>6 DEF Give
    <3>2. owner[v] # FwdOf(e)
      BY <1>1, <2>6 DEF Tagged
    <3>3. \A n \in Node : owner[v] = MsgOf(n) => Kind[n] = "multi" /\ \E i \in DOMAIN msg'[n] : msg'[n][i] = v
      <4> SUFFICES ASSUME NEW n \in Node, owner[v] = MsgOf(n)
                   PROVE  Kind[n] = "multi" /\ \E i \in DOMAIN msg'[n] : msg'[n][i] = v
        OBVIOUS
      <4>1. Kind[n] = "multi" /\ \E i \in DOMAIN msg[n] : msg[n][i] = v
        BY <1>1 DEF Tagged
      <4> QED
        BY <2>3, <2>4, <4>1
    <3> QED
      BY <1>1, <2>1, <3>1, <3>2, <3>3 DEF Tagged
  <2> QED
    BY <2>5, <2>6
<1>11. ASSUME NEW n \in Node, MultiRecv(n) PROVE Tagged(v)'
  <2> DEFINE x == Head(msg[n])
  <2>1. /\ msg[n] # <<>> /\ msg' = [msg EXCEPT ![n] = Tail(@)] /\ fv' = fv
        /\ owner' = IF x = None THEN owner ELSE [owner EXCEPT ![x] = IF cancelled THEN Lost ELSE Free]
    BY <1>11 DEF MultiRecv
  <2>2. /\ x \in Value \cup {None} /\ x = msg[n][1]
        /\ \A i \in DOMAIN msg[n] : i # 1 => i - 1 \in DOMAIN Tail(msg[n]) /\ Tail(msg[n])[i - 1] = msg[n][i]
    <3>1. msg[n] \in Seq(Value \cup {None})
      BY <1>2
    <3> QED
      BY <2>1, <3>1, TailElements
  <2>3. \A k \in Node : k # n => msg'[k] = msg[k]
    BY <1>2, <2>1
  <2>4. CASE v = x
    <3>1. owner'[v] = Free \/ (owner'[v] = Lost /\ cancelled)
      BY <1>2, <2>1, <2>4
    <3> QED
      BY <1>1, <3>1, OwnersDiffer DEF Tagged
  <2>5. CASE v # x
    <3>1. owner'[v] = owner[v]
      BY <1>2, <2>1, <2>5
    <3>2. \A k \in Node : owner[v] = MsgOf(k) => Kind[k] = "multi" /\ \E i \in DOMAIN msg'[k] : msg'[k][i] = v
      <4> SUFFICES ASSUME NEW k \in Node, owner[v] = MsgOf(k)
                   PROVE  Kind[k] = "multi" /\ \E i \in DOMAIN msg'[k] : msg'[k][i] = v
        OBVIOUS
      <4>1. Kind[k] = "multi"
        BY <1>1 DEF Tagged
      <4>2. PICK i \in DOMAIN msg[k] : msg[k][i] = v
        BY <1>1 DEF Tagged
      <4>3. CASE k # n
        BY <2>3, <4>1, <4>2, <4>3
      <4>4. CASE k = n
        <5>1. i # 1
          BY <2>2, <2>5, <4>2, <4>4
        <5>2. msg'[n] = Tail(msg[n])
          BY <1>2, <2>1
        <5> QED
          BY <2>2, <4>1, <4>2, <4>4, <5>1, <5>2
      <4> QED
        BY <4>3, <4>4
    <3> QED
      BY <1>1, <2>1, <3>1, <3>2 DEF Tagged
  <2> QED
    BY <2>4, <2>5
<1>12. ASSUME NEW n \in Node, HandlerStep(n),
              ~(Recv(n) \/ Emit(n) \/ SendClone(n) \/ SendLast(n) \/ CopyRecv(n) \/ SendCancelled(n) \/ MultiRecv(n))
       PROVE  UNCHANGED <<fv, msg, owner>>
  BY <1>12 DEF HandlerStep, SourceRead, SourceEof, LoopCancelled, Eos, FlushDone, CopyEos, MultiEos,
     SinkReturn, CloseOuts, Exit
<1>13. ASSUME NEW e \in Edge, FwdEos(e) \/ SinkEos(e) \/ SinkCancelled(e) PROVE UNCHANGED <<fv, msg, owner>>
  BY <1>13 DEF FwdEos, SinkEos, SinkCancelled
<1>14. ASSUME Join \/ RunReturns \/ OutsideCancel \/ UNCHANGED vars PROVE UNCHANGED <<fv, msg, owner>>
  BY <1>14 DEF Join, RunReturns, OutsideCancel, vars
<1> QED
  BY <1>3, <1>5, <1>6, <1>7, <1>8, <1>9, <1>10, <1>11, <1>12, <1>13, <1>14
  DEF Next, InputStep, SchedulerStep

LEMMA InitDelivery == Init => Delivery
<1> SUFFICES ASSUME Init PROVE Delivery
  OBVIOUS
<1>1. \A e \in Edge : Readings(e)
  BY DEF Init, Readings
<1>2. \A n \in Node : ~Ending(n)
  BY DEF Init, Ending
<1>3. \A v \in Value : Tagged(v)
  BY OwnersDiffer DEF Init, Tagged
<1> QED
  BY <1>1, <1>2, <1>3 DEF Delivery

LEMMA Deliveries == Spec => []Delivery
<1>1. IInv /\ Delivery /\ [Next]_vars => Delivery'
  <2> SUFFICES ASSUME IInv, Delivery, [Next]_vars PROVE Delivery'
    OBVIOUS
  <2>1. \A e \in Edge : Readings(e)'
    BY ReadingsStep DEF Delivery
  <2>2. \A n \in Node : Ending(n)' => DoneWith(n)'
    BY EndingStep, DoneStays DEF Delivery
  <2>3. \A v \in Value : Tagged(v)'
    BY TaggedStep
  <2> QED
    BY <2>1, <2>2, <2>3 DEF Delivery
<1> QED
  BY <1>1, InitDelivery, Invariance, PTL DEF Spec

(* A run that returns nil and that nobody cancelled delivered everything:   *)
(* no value is left on an edge, in a forwarder or in a message queue, and   *)
(* none was lost.                                                           *)
THEOREM NilIsDelivered == Spec => []NilMeansDelivered
<1>1. ASSUME IInv, Delivery PROVE NilMeansDelivered
  <2> SUFFICES ASSUME run # "waiting", err = "nil", ~outside, NEW v \in Value, owner[v] # Free
               PROVE  FALSE
    BY DEF NilMeansDelivered, live
  <2>1. \A n \in Node : pc[n] = "exited" /\ dest[n] = <<>>
    BY <1>1 DEF IInv, Phases
  <2>2. ~cancelled /\ \A n \in Node : ret[n] = "nil"
    BY <1>1, <2>1 DEF IInv, Blame
  <2>3. \A n \in Node : DoneWith(n)
    BY <1>1, <2>1, <2>2 DEF Delivery, Ending
  <2>4. Tagged(v) /\ owner[v] \in Owners /\ None \notin Value
    BY <1>1, BoundAssumption DEF Delivery, IInv, TypeOK
  <2>5. ASSUME NEW e \in Edge PROVE chan[e] = <<>>
    <3>1. To[e] \in Node /\ e \in In(To[e])
      BY GraphAssumption DEF In
    <3>2. CASE Kind[To[e]] # "sink"
      BY <2>3, <3>1, <3>2 DEF DoneWith, Ended
    <3>3. CASE Kind[To[e]] = "sink"
      <4>1. rd[e] = "done" /\ sres[To[e]] = "nil"
        BY <1>1, <2>1, <2>2, <3>1, <3>3 DEF IInv, Blame
      <4> QED
        BY <1>1, <2>2, <3>3, <4>1 DEF Delivery, Readings, Ended
    <3> QED
      BY <3>2, <3>3
  <2>6. \A e \in Edge : owner[v] # OnEdge(e)
    BY <1>1, <2>5, EmptyDomain DEF IInv, Accounted
  <2>7. \A n \in Node : owner[v] # HeldBy(n)
    <3>1. \A n \in Node : hold[n] = None
      BY <1>1, <2>1 DEF IInv, Ownership, HandlerOwnership
    <3>2. \A n \in Node : owner[v] = HeldBy(n) => hold[n] = v
      BY <1>1 DEF IInv, Accounted
    <3> QED
      BY <2>4, <3>1, <3>2
  <2>8. \A e \in Edge : owner[v] # FwdOf(e)
    <3> SUFFICES ASSUME NEW e \in Edge PROVE fv[e] = None
      BY <2>4 DEF Tagged
    <3>1. To[e] \in Node /\ e \in In(To[e])
      BY GraphAssumption DEF In
    <3>2. CASE Kind[To[e]] # "multi"
      BY <1>1, <3>2 DEF Delivery, Readings
    <3>3. CASE Kind[To[e]] = "multi"
      <4>1. rd[e] = "done"
        BY <2>3, <3>1, <3>3 DEF DoneWith
      <4> QED
        BY <1>1, <3>3, <4>1 DEF Delivery, Readings
    <3> QED
      BY <3>2, <3>3
  <2>9. \A n \in Node : owner[v] # MsgOf(n)
    <3> SUFFICES ASSUME NEW n \in Node, owner[v] = MsgOf(n) PROVE FALSE
      OBVIOUS
    <3>1. Kind[n] = "multi" /\ \E i \in DOMAIN msg[n] : msg[n][i] = v
      BY <2>4 DEF Tagged
    <3>2. msg[n] = <<>>
      BY <2>3, <3>1 DEF DoneWith
    <3> QED
      BY <3>1, <3>2, EmptyDomain
  <2>10. owner[v] # Lost
    BY <2>2, <2>4 DEF Tagged
  <2> QED
    BY <2>4, <2>6, <2>7, <2>8, <2>9, <2>10 DEF Owners
<1> QED
  BY <1>1, Deliveries, Invariance, PTL
=============================================================================
