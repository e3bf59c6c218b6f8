--------------------------- MODULE SegmentsProofs ---------------------------
(***************************************************************************)
(* Proofs about Segments, for every file, every delay and any number of    *)
(* cuts and failures: a video packet is written into the segment its time  *)
(* belongs to, nothing is written into a segment that has been announced,  *)
(* and nil means that everything is written.                               *)
(***************************************************************************)
EXTENDS Segments, FiniteSetTheorems, SequenceTheorems, TLAPS

(***************************************************************************)
(* The line a video frame moves along, from the file (9) to a segment (1). *)
(***************************************************************************)
Rotating == vpc \in {"rotate", "open", "pop"}
Line == [k \in 1..9 |->
    CASE k = 1 -> {vlog[i].t : i \in DOMAIN vlog}
      [] k = 2 -> IF Rotating \/ vpc = "write" THEN {vpkt} ELSE {}
      [] k = 3 -> ToSet(vout)
      [] k = 4 -> ToSet(pipe)
      [] k = 5 -> IF gpc = "report" THEN {} ELSE ToSet(sending)
      [] k = 6 -> ToSet(delay)
      [] k = 7 -> IF gpc = "report" THEN ToSet(sending) ELSE {}
      [] k = 8 -> ToSet(vin)
      [] k = 9 -> {Items[i].t : i \in {j \in Places("video") : j >= src}}]

(* Who is further on in the line is earlier, and so within each queue.     *)
Ascending(s) == \A i, j \in DOMAIN s : i < j => s[i] < s[j]
InOrder(L) == \A j, k \in 1..9 : j < k => \A t \in L[j], u \in L[k] : t < u
Sorted == /\ Ascending(vout) /\ Ascending(pipe) /\ Ascending(delay) /\ Ascending(vin)
          /\ \A i, j \in DOMAIN vlog : i < j => vlog[i].t < vlog[j].t
Ordered == InOrder(Line) /\ Sorted

(* What the goroutines hold where they are.                                *)
Shape ==
    /\ gpc = "report" => Len(sending) = 1
    /\ gpc \in {"send", "drain"} => Len(sending) <= 1
    /\ gpc \in {"take", "done"} => sending = <<>>
    /\ gpc = "done" \/ Lookback = 0 => delay = <<>>
    /\ mu = "video" <=> vpc = "open"
    /\ ctx => gpc = "done" \/ vpc = "done"
    /\ res = "nil" => vpc = "done" /\ apc = "done" /\ ~egctx

(* Of the frames a keyframe was forced on, those the sink has rotated for.  *)
Popped == forced \ ToSet(cuts)

(* A cut that is pending is one of a frame still in the line, or its frame *)
(* is at the muxer; or the frame was dropped after the processor's end and *)
(* no later one can come.                                                  *)
Pending(c) == \/ \E k \in 3..7 : c \in Line[k]
              \/ Rotating /\ c = vpkt
              \/ gpc = "done" /\ \A k \in 1..4 : \A t \in Line[k] : t < c
(* One that is not pending any more is of a frame that came by.            *)
Past(c) == /\ \A k \in 3..9 : \A t \in Line[k] : c < t
           /\ vpc = "write" => c <= vpkt
           /\ Rotating => c < vpkt
Cuts ==
    /\ IsFiniteSet(forced) /\ \A c \in forced : \A k \in 6..9 : \A t \in Line[k] : c <= t
    /\ vpc # "done" =>
        /\ Ascending(cuts) /\ ToSet(cuts) \subseteq forced
        /\ Rotating => cuts # <<>> /\ cuts[1] = vpkt
        /\ \A c \in ToSet(cuts) : Pending(c)
        /\ \A c \in Popped : Past(c)
        /\ seg = Cardinality(Popped) + IF vpc = "pop" THEN 1 ELSE 0

(* Nothing is lost without an error.                                       *)
VideoTimes == {Items[i].t : i \in Places("video")}
VideoKept ==
    /\ \A k \in 1..9 : Line[k] \subseteq VideoTimes
    /\ ~ctx /\ ~egctx =>
        /\ \A t \in VideoTimes : \E k \in 1..9 : t \in Line[k]
        /\ gpc \in {"drain", "done"} => src > Len(Items) /\ vin = <<>>
        /\ vpc = "done" => gpc = "done" /\ pipe = <<>> /\ vout = <<>>

InHand == apc \in {"front", "bound", "flush", "front2", "bound2", "write"}
Read(kind) == {i \in Places(kind) : i < src}
AudioKept ==
    ~ctx /\ ~egctx =>
        /\ Len(alog) + Len(held) + Len(ain) + (IF InHand THEN 1 ELSE 0) = Cardinality(Read("audio"))
        /\ \A i \in Read("audio") :
              \/ Items[i].t \in ToSet(ain) \cup ToSet(held)
              \/ InHand /\ Items[i].t = apkt
              \/ \E j \in DOMAIN alog : alog[j].t = Items[i].t
        /\ apc \in {"final", "done"} => src > Len(Items) /\ ain = <<>>
        /\ apc = "done" => held = <<>>

(* Segments are announced in order, each once.                             *)
Announced ==
    ~egctx => /\ Len(posted) = seg + (IF vpc = "open" THEN 1 ELSE 0) + (IF res = "nil" THEN 1 ELSE 0)
              /\ \A i \in DOMAIN posted : posted[i] = i - 1

(***************************************************************************)
(* Types, in the groups of variables that actions leave alone.             *)
(***************************************************************************)
SrcType == src \in 1..Len(Items) + 1 /\ vin \in Seq(Nat) /\ ain \in Seq(Nat)
GpType == /\ gpc \in {"take", "report", "send", "drain", "done"}
          /\ delay \in Seq(Nat) /\ sending \in Seq(Nat)
          /\ forced \subseteq Nat /\ reported \subseteq Nat
EncType == pipe \in Seq(Nat) /\ vout \in Seq(Nat)
GateType == cuts \in Seq(Nat) /\ progressUS \in Nat
VidType == vpc \in {"take", "rotate", "open", "pop", "write", "done"} /\ vpkt \in Nat
AudType == /\ apc \in {"take", "front", "bound", "flush", "front2", "bound2", "write", "final", "done"}
           /\ apkt \in Nat /\ front \in Nat \cup {NoCut} /\ held \in Seq(Nat)
MuxType == /\ mu \in {"free", "video"} /\ seg \in Nat /\ posted \in Seq(Nat)
           /\ vlog \in Seq([t : Nat, seg : Nat]) /\ alog \in Seq([t : Nat, seg : Nat])
EndType == ctx \in BOOLEAN /\ egctx \in BOOLEAN /\ fails \in Nat /\ res \in {"none", "nil", "error"}
Typed == /\ SrcType /\ GpType /\ EncType /\ GateType /\ VidType /\ AudType /\ MuxType /\ EndType

IInv == Typed /\ Ordered /\ Shape /\ Cuts /\ VideoInSegment /\ VideoKept /\ AudioKept /\ Announced

LEMMA TypedIsTypeOK == Typed => TypeOK
  BY DEF Typed, TypeOK, SrcType, GpType, EncType, GateType, VidType, AudType, MuxType, EndType

LEMMA ItemFacts ==
  /\ Len(Items) \in Nat /\ Forever \in Nat
  /\ \A i \in 1..Len(Items) : Items[i].t \in Nat /\ Items[i].kind \in {"video", "audio"}
  /\ \A i, j \in Places("video") : i < j => Items[i].t < Items[j].t
<1>1. Items \in Seq([kind : {"video", "audio"}, t : Nat \ {0}])
  BY ItemsAssumption
<1>2. Len(Items) \in Nat /\ \A i \in 1..Len(Items) : Items[i] \in [kind : {"video", "audio"}, t : Nat \ {0}]
  BY <1>1, ElementOfSeq, LenProperties
<1>3. \A i \in 1..Len(Items) : Items[i].t \in Nat /\ Items[i].kind \in {"video", "audio"}
  BY <1>2
<1>4. Forever \in Nat
  <2>1. CASE Items = <<>>
    BY <2>1 DEF Forever
  <2>2. CASE Items # <<>>
    <3>1. Len(Items) \in 1..Len(Items)
      BY <1>1, <1>2, <2>2, EmptySeq
    <3> QED BY <1>3, <3>1, <2>2 DEF Forever
  <2> QED BY <2>1, <2>2
<1>5. \A i, j \in Places("video") : i < j => Items[i].t < Items[j].t
  BY ItemsAssumption DEF Places
<1> QED BY <1>2, <1>3, <1>4, <1>5

(***************************************************************************)
(* Sequences as queues.                                                    *)
(***************************************************************************)
LEMMA QueueTail ==
  ASSUME NEW S, NEW s \in Seq(S), s # <<>>
  PROVE  /\ s[1] \in S /\ s[1] \in ToSet(s) /\ Tail(s) \in Seq(S)
         /\ Len(s) \in Nat \ {0} /\ Len(Tail(s)) = Len(s) - 1
         /\ \A i \in 1..Len(Tail(s)) : Tail(s)[i] = s[i + 1]
         /\ ToSet(s) = {s[1]} \cup ToSet(Tail(s))
<1>1. /\ Len(s) \in Nat \ {0} /\ DOMAIN s = 1..Len(s) /\ s[1] \in S
  BY EmptySeq, LenProperties, ElementOfSeq
<1>2. /\ Tail(s) \in Seq(S) /\ Len(Tail(s)) = Len(s) - 1
      /\ \A i \in 1..Len(Tail(s)) : Tail(s)[i] = s[i + 1]
  BY HeadTailProperties
<1>3. DOMAIN Tail(s) = 1..Len(s) - 1
  BY <1>2, LenProperties
<1>4. s[1] \in ToSet(s)
  BY <1>1 DEF ToSet
<1>5. ASSUME NEW x \in ToSet(s) PROVE x \in {s[1]} \cup ToSet(Tail(s))
  <2>1. PICK i \in 1..Len(s) : x = s[i]
    BY <1>1, <1>5 DEF ToSet
  <2>2. CASE i # 1
    <3>1. i - 1 \in 1..Len(s) - 1 /\ Tail(s)[i - 1] = s[i]
      BY <1>1, <1>2, <2>1, <2>2
    <3> QED BY <1>3, <2>1, <3>1 DEF ToSet
  <2> QED BY <2>1, <2>2
<1>6. ASSUME NEW x \in ToSet(Tail(s)) PROVE x \in ToSet(s)
  <2>1. PICK i \in 1..Len(s) - 1 : x = Tail(s)[i]
    BY <1>3, <1>6 DEF ToSet
  <2>2. i + 1 \in 1..Len(s) /\ x = s[i + 1]
    BY <1>1, <1>2, <2>1
  <2> QED BY <1>1, <2>2 DEF ToSet
<1> QED BY <1>1, <1>2, <1>4, <1>5, <1>6

LEMMA QueueAppend ==
  ASSUME NEW S, NEW s \in Seq(S), NEW x \in S
  PROVE  /\ Append(s, x) \in Seq(S) /\ Len(Append(s, x)) = Len(s) + 1 /\ Len(s) \in Nat
         /\ \A i \in 1..Len(s) : Append(s, x)[i] = s[i]
         /\ Append(s, x)[Len(s) + 1] = x
         /\ DOMAIN s = 1..Len(s) /\ DOMAIN Append(s, x) = 1..Len(s) + 1
         /\ ToSet(Append(s, x)) = ToSet(s) \cup {x}
<1>1. /\ Append(s, x) \in Seq(S) /\ Len(Append(s, x)) = Len(s) + 1 /\ Len(s) \in Nat
      /\ \A i \in 1..Len(s) : Append(s, x)[i] = s[i]
      /\ Append(s, x)[Len(s) + 1] = x
  BY AppendProperties, LenProperties
<1>2. DOMAIN s = 1..Len(s) /\ DOMAIN Append(s, x) = 1..Len(s) + 1
  BY <1>1, LenProperties
<1>3. ASSUME NEW y \in ToSet(s) PROVE y \in ToSet(Append(s, x))
  BY <1>1, <1>2, <1>3 DEF ToSet
<1>4. x \in ToSet(Append(s, x))
  <2>1. Len(s) + 1 \in DOMAIN Append(s, x)
    BY <1>1, <1>2
  <2> QED BY <1>1, <2>1 DEF ToSet
<1>5. ASSUME NEW y \in ToSet(Append(s, x)) PROVE y \in ToSet(s) \cup {x}
  <2>1. PICK i \in 1..Len(s) + 1 : y = Append(s, x)[i]
    BY <1>2, <1>5 DEF ToSet
  <2> QED BY <1>1, <1>2, <2>1 DEF ToSet
<1> QED BY <1>1, <1>2, <1>3, <1>4, <1>5

LEMMA SetOfSeq ==
  ASSUME NEW S, NEW s \in Seq(S)
  PROVE  ToSet(s) \subseteq S /\ DOMAIN s = 1..Len(s) /\ Len(s) \in Nat
  BY LenProperties, ElementOfSeq DEF ToSet

LEMMA NotEmpty == \A s \in Seq(Nat) : Len(s) \in Nat /\ (s # <<>> <=> Len(s) # 0)
  BY EmptySeq, LenProperties

LEMMA SetOfNone == ToSet(<<>>) = {} /\ \A x : ToSet(<<x>>) = {x}
  BY DEF ToSet

LEMMA AscendingTail ==
  ASSUME NEW s \in Seq(Nat), s # <<>>, Ascending(s)
  PROVE  /\ Ascending(Tail(s)) /\ \A u \in ToSet(Tail(s)) : s[1] < u
         /\ ToSet(Tail(s)) = ToSet(s) \ {s[1]}
<1>1. /\ s[1] \in Nat /\ Tail(s) \in Seq(Nat) /\ Len(s) \in Nat \ {0} /\ Len(Tail(s)) = Len(s) - 1
      /\ \A i \in 1..Len(Tail(s)) : Tail(s)[i] = s[i + 1]
      /\ ToSet(s) = {s[1]} \cup ToSet(Tail(s))
  BY QueueTail
<1>2. DOMAIN s = 1..Len(s) /\ DOMAIN Tail(s) = 1..Len(s) - 1 /\ ToSet(Tail(s)) \subseteq Nat
  BY <1>1, SetOfSeq
<1>3. Ascending(Tail(s))
  <2> SUFFICES ASSUME NEW i \in 1..Len(s) - 1, NEW j \in 1..Len(s) - 1, i < j
               PROVE Tail(s)[i] < Tail(s)[j]
    BY <1>2 DEF Ascending
  <2>1. i + 1 \in DOMAIN s /\ j + 1 \in DOMAIN s /\ i + 1 < j + 1
    BY <1>1, <1>2
  <2>2. s[i + 1] < s[j + 1]
    BY <2>1 DEF Ascending
  <2> QED BY <1>1, <2>2
<1>4. ASSUME NEW u \in ToSet(Tail(s)) PROVE s[1] < u
  <2>1. PICK i \in 1..Len(s) - 1 : u = Tail(s)[i]
    BY <1>2, <1>4 DEF ToSet
  <2>2. i + 1 \in DOMAIN s /\ 1 \in DOMAIN s /\ 1 < i + 1 /\ u = s[i + 1]
    BY <1>1, <1>2, <2>1
  <2> QED BY <2>2 DEF Ascending
<1>5. s[1] \notin ToSet(Tail(s))
  BY <1>1, <1>2, <1>4
<1> QED BY <1>1, <1>3, <1>4, <1>5

LEMMA AscendingAppend ==
  ASSUME NEW s \in Seq(Nat), NEW x \in Nat, Ascending(s), \A u \in ToSet(s) : u < x
  PROVE  Ascending(Append(s, x))
<1>1. /\ Len(s) \in Nat
      /\ \A i \in 1..Len(s) : Append(s, x)[i] = s[i]
      /\ Append(s, x)[Len(s) + 1] = x
      /\ DOMAIN s = 1..Len(s) /\ DOMAIN Append(s, x) = 1..Len(s) + 1
  BY QueueAppend
<1> SUFFICES ASSUME NEW i \in 1..Len(s) + 1, NEW j \in 1..Len(s) + 1, i < j
             PROVE Append(s, x)[i] < Append(s, x)[j]
  BY <1>1 DEF Ascending
<1>2. i \in 1..Len(s) /\ Append(s, x)[i] = s[i] /\ s[i] \in ToSet(s)
  BY <1>1 DEF ToSet
<1>3. CASE j = Len(s) + 1
  BY <1>1, <1>2, <1>3
<1>4. CASE j # Len(s) + 1
  <2>1. j \in 1..Len(s)
    BY <1>1, <1>4
  <2> QED BY <1>1, <1>2, <2>1 DEF Ascending
<1> QED BY <1>3, <1>4

LEMMA AscendingShort == Ascending(<<>>) /\ \A x : Ascending(<<x>>)
  BY DEF Ascending

(***************************************************************************)
(* Types are kept.                                                         *)
(***************************************************************************)
LEMMA InitTyped == Init => Typed
<1> SUFFICES ASSUME Init PROVE Typed
  OBVIOUS
<1> USE ItemFacts DEF Init
<1>1. SrcType /\ GpType /\ EncType /\ GateType
  BY DEF SrcType, GpType, EncType, GateType
<1>2. VidType
  BY DEF VidType
<1>3. AudType
  BY DEF AudType
<1>4. MuxType
  BY DEF MuxType
<1>5. EndType
  BY DEF EndType
<1> QED BY <1>1, <1>2, <1>3, <1>4, <1>5 DEF Typed

LEMMA TypeStep ==
  ASSUME Typed, Shape, Next
  PROVE  Typed'
<1> USE DEF srcVars, gpVars, encVars, gateVars, vidVars, audVars, muxVars, endVars
<1>1. ASSUME SourceSend PROVE Typed'
  <2>1. GpType' /\ EncType' /\ GateType' /\ VidType' /\ AudType' /\ MuxType' /\ EndType'
    BY <1>1 DEF SourceSend, Typed, GpType, EncType, GateType, VidType, AudType, MuxType, EndType
  <2>2. SrcType'
    <3>1. src \in 1..Len(Items) /\ Items[src].t \in Nat
      BY <1>1, ItemFacts DEF SourceSend, SrcDone, Typed, SrcType
    <3>2. Append(vin, Items[src].t) \in Seq(Nat) /\ Append(ain, Items[src].t) \in Seq(Nat)
      BY <3>1, QueueAppend DEF Typed, SrcType
    <3>3. src' \in 1..Len(Items) + 1
      BY <1>1, <3>1, ItemFacts DEF SourceSend
    <3>4. vin' \in Seq(Nat) /\ ain' \in Seq(Nat)
      BY <1>1, <3>2 DEF SourceSend, Typed, SrcType
    <3> QED BY <3>3, <3>4 DEF SrcType
  <2> QED BY <2>1, <2>2 DEF Typed
<1>2. ASSUME SourceCancelled PROVE Typed'
  <2>1. GpType' /\ EncType' /\ GateType' /\ VidType' /\ AudType' /\ MuxType' /\ EndType'
    BY <1>2 DEF SourceCancelled, Typed, GpType, EncType, GateType, VidType, AudType, MuxType, EndType
  <2>2. SrcType'
    BY <1>2, ItemFacts DEF SourceCancelled, Typed, SrcType
  <2> QED BY <2>1, <2>2 DEF Typed
<1>3. ASSUME GpTake PROVE Typed'
  <2>1. EncType' /\ VidType' /\ AudType' /\ MuxType' /\ EndType'
    BY <1>3 DEF GpTake, Typed, EncType, VidType, AudType, MuxType, EndType
  <2>2. GpType' /\ GateType' /\ SrcType'
    <3>1. vin[1] \in Nat /\ Tail(vin) \in Seq(Nat) /\ <<vin[1]>> \in Seq(Nat)
      BY <1>3, QueueTail DEF GpTake, Typed, SrcType
    <3>2. CutFrame(vin[1]) \in Nat
      BY <3>1, QueueTail DEF CutFrame, Typed, GpType
    <3> QED BY <1>3, <3>1, <3>2 DEF GpTake, Typed, GpType, GateType, SrcType
  <2> QED BY <2>1, <2>2 DEF Typed
<1>4. ASSUME GpReport PROVE Typed'
  <2>1. SrcType' /\ EncType' /\ VidType' /\ AudType' /\ MuxType' /\ EndType'
    BY <1>4 DEF GpReport, Typed, SrcType, EncType, VidType, AudType, MuxType, EndType
  <2>2. GpType' /\ GateType'
    <3> DEFINE f == sending[1]
               d == Append(delay, f)
    <3>1. sending # <<>>
      BY <1>4 DEF GpReport, Shape
    <3>2. f \in Nat /\ <<f>> \in Seq(Nat)
      BY <3>1, QueueTail DEF Typed, GpType
    <3>3. d \in Seq(Nat) /\ d # <<>>
      <4>1. delay \in Seq(Nat)
        BY DEF Typed, GpType
      <4>2. d \in Seq(Nat) /\ Len(d) = Len(delay) + 1 /\ Len(delay) \in Nat
        BY <3>2, <4>1, QueueAppend
      <4>3. Len(d) # 0
        BY <4>2
      <4> HIDE DEF d
      <4> QED BY <4>2, <4>3, EmptySeq
    <3>4. d[1] \in Nat /\ Tail(d) \in Seq(Nat) /\ <<d[1]>> \in Seq(Nat) /\ <<>> \in Seq(Nat)
      BY <3>3, QueueTail
    <3>5. delay' \in Seq(Nat) /\ sending' \in Seq(Nat)
      BY <1>4, <3>2, <3>3, <3>4 DEF GpReport, Forward, Typed, GpType
    <3>6. CutFrame(f) \in Nat
      BY <3>2, QueueTail DEF CutFrame, Typed, GpType
    <3>7. cuts' \in Seq(Nat) /\ forced' \subseteq Nat /\ reported' \subseteq Nat
      <4>1. Append(cuts, CutFrame(f)) \in Seq(Nat)
        BY <3>6, QueueAppend DEF Typed, GateType
      <4> QED BY <1>4, <4>1, <3>2, <3>6 DEF GpReport, Signal, Typed, GateType, GpType
    <3> QED BY <1>4, <3>5, <3>7 DEF GpReport, Typed, GpType, GateType
  <2> QED BY <2>1, <2>2 DEF Typed
<1>5. ASSUME GpSend PROVE Typed'
  <2>1. SrcType' /\ VidType' /\ AudType' /\ MuxType' /\ EndType'
    BY <1>5 DEF GpSend, Typed, SrcType, VidType, AudType, MuxType, EndType
  <2>2. GpType' /\ EncType' /\ GateType'
    <3>1. ASSUME sending # <<>> PROVE Append(pipe, sending[1]) \in Seq(Nat)
      <4>1. sending[1] \in Nat
        BY <3>1, QueueTail DEF Typed, GpType
      <4> QED BY <4>1, QueueAppend DEF Typed, EncType
    <3>2. ASSUME delay # <<>> PROVE Tail(delay) \in Seq(Nat) /\ <<delay[1]>> \in Seq(Nat)
      BY <3>2, QueueTail DEF Typed, GpType
    <3>3. pipe' \in Seq(Nat) /\ vout' = vout
      BY <1>5, <3>1 DEF GpSend, Typed, EncType
    <3>4. delay' \in Seq(Nat) /\ sending' \in Seq(Nat)
      <4>1. CASE gpc = "drain" /\ delay # <<>>
        BY <1>5, <3>2, <4>1 DEF GpSend
      <4>2. CASE ~(gpc = "drain" /\ delay # <<>>)
        <5>1. sending' = <<>> /\ delay' = delay
          BY <1>5, <4>2 DEF GpSend
        <5> QED BY <5>1 DEF Typed, GpType
      <4> QED BY <4>1, <4>2
    <3>5. gpc' \in {"take", "report", "send", "drain", "done"}
      BY <1>5 DEF GpSend, Typed, GpType
    <3>6. progressUS' \in Nat
      BY <1>5, ItemFacts DEF GpSend, Typed, GateType
    <3> QED BY <1>5, <3>3, <3>4, <3>5, <3>6 DEF GpSend, Typed, GpType, EncType, GateType
  <2> QED BY <2>1, <2>2 DEF Typed
<1>6. ASSUME GpEnd PROVE Typed'
  <2>1. SrcType' /\ EncType' /\ GateType' /\ VidType' /\ AudType' /\ MuxType' /\ EndType'
    BY <1>6 DEF GpEnd, Typed, SrcType, EncType, GateType, VidType, AudType, MuxType, EndType
  <2>2. GpType'
    BY <1>6 DEF GpEnd, Typed, GpType
  <2> QED BY <2>1, <2>2 DEF Typed
<1>7. ASSUME GpStop PROVE Typed'
  <2>1. EncType' /\ VidType' /\ AudType' /\ MuxType'
    BY <1>7 DEF GpStop, Typed, EncType, VidType, AudType, MuxType
  <2>2. SrcType'
    <3>1. vin # <<>> => Tail(vin) \in Seq(Nat)
      BY QueueTail DEF Typed, SrcType
    <3> QED BY <1>7, <3>1 DEF GpStop, Typed, SrcType
  <2>3. GpType'
    BY <1>7 DEF GpStop, Typed, GpType
  <2>4. GateType'
    BY <1>7, ItemFacts DEF GpStop, Typed, GateType
  <2>5. EndType'
    <3>1. UNCHANGED <<egctx, res>> /\ (fails' = fails \/ fails' = fails + 1) /\ (ctx' = ctx \/ ctx' = TRUE)
      BY <1>7 DEF GpStop
    <3>2. fails' \in Nat
      BY <3>1 DEF Typed, EndType
    <3>3. ctx' \in BOOLEAN
      BY <3>1 DEF Typed, EndType
    <3> QED BY <3>1, <3>2, <3>3 DEF Typed, EndType
  <2> QED BY <2>1, <2>2, <2>3, <2>4, <2>5 DEF Typed
<1>8. ASSUME Encode PROVE Typed'
  <2>1. SrcType' /\ GpType' /\ GateType' /\ VidType' /\ AudType' /\ MuxType' /\ EndType'
    BY <1>8 DEF Encode, Typed, SrcType, GpType, GateType, VidType, AudType, MuxType, EndType
  <2>2. EncType'
    <3>1. pipe[1] \in Nat /\ Tail(pipe) \in Seq(Nat)
      BY <1>8, QueueTail DEF Encode, Typed, EncType
    <3>2. Append(vout, pipe[1]) \in Seq(Nat)
      BY <3>1, QueueAppend DEF Typed, EncType
    <3> QED BY <1>8, <3>1, <3>2 DEF Encode, Typed, EncType
  <2> QED BY <2>1, <2>2 DEF Typed
<1>9. ASSUME EncodeCancelled PROVE Typed'
  <2>1. SrcType' /\ GpType' /\ GateType' /\ VidType' /\ AudType' /\ MuxType' /\ EndType'
    BY <1>9 DEF EncodeCancelled, Typed, SrcType, GpType, GateType, VidType, AudType, MuxType, EndType
  <2>2. EncType'
    BY <1>9 DEF EncodeCancelled, Typed, EncType
  <2> QED BY <2>1, <2>2 DEF Typed
<1>10. ASSUME VideoTake PROVE Typed'
  <2>1. SrcType' /\ GpType' /\ GateType' /\ AudType' /\ MuxType' /\ EndType'
    BY <1>10 DEF VideoTake, Typed, SrcType, GpType, GateType, AudType, MuxType, EndType
  <2>2. EncType' /\ VidType'
    <3>1. vout[1] \in Nat /\ Tail(vout) \in Seq(Nat)
      BY <1>10, QueueTail DEF VideoTake, Typed, EncType
    <3> QED BY <1>10, <3>1 DEF VideoTake, Typed, EncType, VidType
  <2> QED BY <2>1, <2>2 DEF Typed
<1>11. ASSUME Rotate PROVE Typed'
  <2>1. SrcType' /\ GpType' /\ EncType' /\ GateType' /\ AudType' /\ EndType'
    BY <1>11 DEF Rotate, Typed, SrcType, GpType, EncType, GateType, AudType, EndType
  <2>2. VidType'
    BY <1>11 DEF Rotate, Typed, VidType
  <2>3. MuxType'
    <3>1. Append(posted, seg) \in Seq(Nat)
      BY QueueAppend DEF Typed, MuxType
    <3> QED BY <1>11, <3>1 DEF Rotate, Typed, MuxType
  <2> QED BY <2>1, <2>2, <2>3 DEF Typed
<1>12. ASSUME OpenSegment PROVE Typed'
  <2>1. SrcType' /\ GpType' /\ EncType' /\ GateType' /\ AudType' /\ EndType'
    BY <1>12 DEF OpenSegment, Typed, SrcType, GpType, EncType, GateType, AudType, EndType
  <2>2. VidType'
    BY <1>12 DEF OpenSegment, Typed, VidType
  <2>3. MuxType'
    BY <1>12 DEF OpenSegment, Typed, MuxType
  <2> QED BY <2>1, <2>2, <2>3 DEF Typed
<1>13. ASSUME PopFront PROVE Typed'
  <2>1. SrcType' /\ GpType' /\ EncType' /\ AudType' /\ MuxType' /\ EndType'
    BY <1>13 DEF PopFront, Typed, SrcType, GpType, EncType, AudType, MuxType, EndType
  <2>2. VidType'
    BY <1>13 DEF PopFront, Typed, VidType
  <2>3. GateType'
    <3>1. cuts # <<>> => Tail(cuts) \in Seq(Nat)
      BY QueueTail DEF Typed, GateType
    <3> QED BY <1>13, <3>1 DEF PopFront, Typed, GateType
  <2> QED BY <2>1, <2>2, <2>3 DEF Typed
<1>14. ASSUME VideoWrite PROVE Typed'
  <2>1. SrcType' /\ GpType' /\ EncType' /\ GateType' /\ AudType' /\ EndType'
    BY <1>14 DEF VideoWrite, Typed, SrcType, GpType, EncType, GateType, AudType, EndType
  <2>2. VidType'
    BY <1>14 DEF VideoWrite, Typed, VidType
  <2>3. MuxType'
    <3>1. [t |-> vpkt, seg |-> seg] \in [t : Nat, seg : Nat]
      BY DEF Typed, VidType, MuxType
    <3>2. Append(vlog, [t |-> vpkt, seg |-> seg]) \in Seq([t : Nat, seg : Nat])
      BY <3>1, QueueAppend DEF Typed, MuxType
    <3> QED BY <1>14, <3>2 DEF VideoWrite, Typed, MuxType
  <2> QED BY <2>1, <2>2, <2>3 DEF Typed
<1>15. ASSUME VideoEnd PROVE Typed'
  <2>1. SrcType' /\ GpType' /\ EncType' /\ AudType'
    BY <1>15 DEF VideoEnd, VideoReturn, Typed, SrcType, GpType, EncType, AudType
  <2>2. GateType'
    <3>1. cuts' = <<>> /\ progressUS' = progressUS
      BY <1>15 DEF VideoEnd, VideoReturn
    <3> QED BY <3>1 DEF Typed, GateType
  <2>3. VidType'
    BY <1>15 DEF VideoEnd, VideoReturn, Typed, VidType
  <2>4. MuxType'
    BY <1>15 DEF VideoEnd, VideoReturn, Typed, MuxType
  <2>5. EndType'
    BY <1>15 DEF VideoEnd, VideoReturn, Typed, EndType
  <2> QED BY <2>1, <2>2, <2>3, <2>4, <2>5 DEF Typed
<1>16. ASSUME VideoFail PROVE Typed'
  <2>1. SrcType' /\ GpType' /\ EncType' /\ AudType'
    BY <1>16 DEF VideoFail, VideoReturn, Typed, SrcType, GpType, EncType, AudType
  <2>2. GateType'
    BY <1>16 DEF VideoFail, VideoReturn, Typed, GateType
  <2>3. VidType'
    BY <1>16 DEF VideoFail, VideoReturn, Typed, VidType
  <2>4. MuxType'
    BY <1>16 DEF VideoFail, VideoReturn, Typed, MuxType
  <2>5. EndType'
    BY <1>16 DEF VideoFail, VideoReturn, Typed, EndType
  <2> QED BY <2>1, <2>2, <2>3, <2>4, <2>5 DEF Typed
<1>17. ASSUME AudioTake PROVE Typed'
  <2>1. GpType' /\ EncType' /\ GateType' /\ VidType' /\ MuxType' /\ EndType'
    BY <1>17 DEF AudioTake, Typed, GpType, EncType, GateType, VidType, MuxType, EndType
  <2>2. AudType' /\ SrcType'
    <3>1. ain[1] \in Nat /\ Tail(ain) \in Seq(Nat)
      BY <1>17, QueueTail DEF AudioTake, Typed, SrcType
    <3> QED BY <1>17, <3>1 DEF AudioTake, Typed, AudType, SrcType
  <2> QED BY <2>1, <2>2 DEF Typed
<1>18. ASSUME FrontCut PROVE Typed'
  <2>1. SrcType' /\ GpType' /\ EncType' /\ GateType' /\ VidType' /\ MuxType' /\ EndType'
    BY <1>18 DEF FrontCut, Typed, SrcType, GpType, EncType, GateType, VidType, MuxType, EndType
  <2>2. AudType'
    <3>1. cuts # <<>> => cuts[1] \in Nat
      BY QueueTail DEF Typed, GateType
    <3> QED BY <1>18, <3>1 DEF FrontCut, Typed, AudType
  <2> QED BY <2>1, <2>2 DEF Typed
<1>19. ASSUME FlushUpTo PROVE Typed'
  <2>1. SrcType' /\ GpType' /\ EncType' /\ GateType' /\ VidType' /\ MuxType' /\ EndType'
    BY <1>19 DEF FlushUpTo, Typed, SrcType, GpType, EncType, GateType, VidType, MuxType, EndType
  <2>2. AudType'
    <3>1. Boundary \in Nat \cup {NoCut}
      BY ItemFacts DEF Boundary, Typed, GateType, AudType
    <3> QED BY <1>19, <3>1 DEF FlushUpTo, Typed, AudType
  <2> QED BY <2>1, <2>2 DEF Typed
<1>20. ASSUME FlushHeld PROVE Typed'
  <2>1. SrcType' /\ GpType' /\ EncType' /\ GateType' /\ VidType' /\ EndType'
    BY <1>20 DEF FlushHeld, AudioWrites, Typed, SrcType, GpType, EncType, GateType, VidType, EndType
  <2>2. AudType' /\ MuxType'
    <3>1. held[1] \in Nat /\ Tail(held) \in Seq(Nat)
      BY <1>20, QueueTail DEF FlushHeld, Typed, AudType
    <3>2. [t |-> held[1], seg |-> seg] \in [t : Nat, seg : Nat]
      BY <3>1 DEF Typed, MuxType
    <3>3. Append(alog, [t |-> held[1], seg |-> seg]) \in Seq([t : Nat, seg : Nat])
      BY <3>2, QueueAppend DEF Typed, MuxType
    <3> QED BY <1>20, <3>1, <3>3 DEF FlushHeld, AudioWrites, Typed, AudType, MuxType
  <2> QED BY <2>1, <2>2 DEF Typed
<1>21. ASSUME FlushDone PROVE Typed'
  <2>1. SrcType' /\ GpType' /\ EncType' /\ GateType' /\ VidType' /\ MuxType' /\ EndType'
    BY <1>21 DEF FlushDone, Typed, SrcType, GpType, EncType, GateType, VidType, MuxType, EndType
  <2>2. AudType'
    BY <1>21 DEF FlushDone, Typed, AudType
  <2> QED BY <2>1, <2>2 DEF Typed
<1>22. ASSUME HoldBack PROVE Typed'
  <2>1. SrcType' /\ GpType' /\ EncType' /\ GateType' /\ VidType' /\ MuxType' /\ EndType'
    BY <1>22 DEF HoldBack, Typed, SrcType, GpType, EncType, GateType, VidType, MuxType, EndType
  <2>2. AudType'
    <3>1. Append(held, apkt) \in Seq(Nat)
      BY QueueAppend DEF Typed, AudType
    <3> QED BY <1>22, <3>1 DEF HoldBack, Typed, AudType
  <2> QED BY <2>1, <2>2 DEF Typed
<1>23. ASSUME Pass PROVE Typed'
  <2>1. SrcType' /\ GpType' /\ EncType' /\ GateType' /\ VidType' /\ MuxType' /\ EndType'
    BY <1>23 DEF Pass, Typed, SrcType, GpType, EncType, GateType, VidType, MuxType, EndType
  <2>2. AudType'
    BY <1>23 DEF Pass, Typed, AudType
  <2> QED BY <2>1, <2>2 DEF Typed
<1>24. ASSUME AudioWrite PROVE Typed'
  <2>1. SrcType' /\ GpType' /\ EncType' /\ GateType' /\ VidType' /\ EndType'
    BY <1>24 DEF AudioWrite, AudioWrites, Typed, SrcType, GpType, EncType, GateType, VidType, EndType
  <2>2. AudType'
    BY <1>24 DEF AudioWrite, AudioWrites, Typed, AudType
  <2>3. MuxType'
    <3>1. [t |-> apkt, seg |-> seg] \in [t : Nat, seg : Nat]
      BY DEF Typed, AudType, MuxType
    <3>2. Append(alog, [t |-> apkt, seg |-> seg]) \in Seq([t : Nat, seg : Nat])
      BY <3>1, QueueAppend DEF Typed, MuxType
    <3> QED BY <1>24, <3>2 DEF AudioWrite, AudioWrites, Typed, MuxType
  <2> QED BY <2>1, <2>2, <2>3 DEF Typed
<1>25. ASSUME AudioClosed PROVE Typed'
  <2>1. SrcType' /\ GpType' /\ EncType' /\ GateType' /\ VidType' /\ MuxType' /\ EndType'
    BY <1>25 DEF AudioClosed, Typed, SrcType, GpType, EncType, GateType, VidType, MuxType, EndType
  <2>2. AudType'
    BY <1>25 DEF AudioClosed, Typed, AudType
  <2> QED BY <2>1, <2>2 DEF Typed
<1>26. ASSUME AudioEnd PROVE Typed'
  <2>1. SrcType' /\ GpType' /\ EncType' /\ GateType' /\ VidType' /\ MuxType'
    BY <1>26 DEF AudioEnd, Typed, SrcType, GpType, EncType, GateType, VidType, MuxType
  <2>2. AudType'
    BY <1>26 DEF AudioEnd, Typed, AudType
  <2>3. EndType'
    BY <1>26 DEF AudioEnd, Typed, EndType
  <2> QED BY <2>1, <2>2, <2>3 DEF Typed
<1>27. ASSUME AudioFail PROVE Typed'
  <2>1. SrcType' /\ GpType' /\ EncType' /\ GateType' /\ VidType' /\ MuxType'
    BY <1>27 DEF AudioFail, Typed, SrcType, GpType, EncType, GateType, VidType, MuxType
  <2>2. AudType'
    BY <1>27 DEF AudioFail, Typed, AudType
  <2>3. EndType'
    BY <1>27 DEF AudioFail, Typed, EndType
  <2> QED BY <2>1, <2>2, <2>3 DEF Typed
<1>28. ASSUME SinkReturn PROVE Typed'
  <2>1. SrcType' /\ GpType' /\ EncType' /\ GateType' /\ VidType' /\ AudType'
    BY <1>28 DEF SinkReturn, Typed, SrcType, GpType, EncType, GateType, VidType, AudType
  <2>2. MuxType'
    <3>1. Append(posted, seg) \in Seq(Nat)
      BY QueueAppend DEF Typed, MuxType
    <3> QED BY <1>28, <3>1 DEF SinkReturn, Typed, MuxType
  <2>3. EndType'
    <3>1. /\ fails \in Nat /\ egctx \in BOOLEAN /\ ctx \in BOOLEAN
      BY DEF Typed, EndType
    <3>2. /\ res' \in {"error", "nil"} /\ ctx' \in {TRUE, ctx} /\ egctx' = egctx
          /\ fails' = fails \/ fails' = fails + 1
      BY <1>28 DEF SinkReturn
    <3>3. fails' \in Nat
      BY <3>1, <3>2
    <3> QED BY <3>1, <3>2, <3>3 DEF EndType
  <2> QED BY <2>1, <2>2, <2>3 DEF Typed
<1> QED
  BY <1>1, <1>2, <1>3, <1>4, <1>5, <1>6, <1>7, <1>8, <1>9, <1>10, <1>11, <1>12, <1>13, <1>14,
     <1>15, <1>16, <1>17, <1>18, <1>19, <1>20, <1>21, <1>22, <1>23, <1>24, <1>25, <1>26, <1>27, <1>28
  DEF Next, Source, GoProcessor, Encoder, Video, Audio

(***************************************************************************)
(* The line: how its stages read off the variables.                        *)
(***************************************************************************)
LEMMA LineAt ==
  /\ Line[1] = {vlog[i].t : i \in DOMAIN vlog}
  /\ Line[2] = IF Rotating \/ vpc = "write" THEN {vpkt} ELSE {}
  /\ Line[3] = ToSet(vout) /\ Line[4] = ToSet(pipe)
  /\ Line[5] = IF gpc = "report" THEN {} ELSE ToSet(sending)
  /\ Line[6] = ToSet(delay)
  /\ Line[7] = IF gpc = "report" THEN ToSet(sending) ELSE {}
  /\ Line[8] = ToSet(vin)
  /\ Line[9] = {Items[i].t : i \in {j \in Places("video") : j >= src}}
  BY DEF Line

LEMMA LineAtNext ==
  /\ Line'[1] = {vlog'[i].t : i \in DOMAIN vlog'}
  /\ Line'[2] = IF Rotating' \/ vpc' = "write" THEN {vpkt'} ELSE {}
  /\ Line'[3] = ToSet(vout') /\ Line'[4] = ToSet(pipe')
  /\ Line'[5] = IF gpc' = "report" THEN {} ELSE ToSet(sending')
  /\ Line'[6] = ToSet(delay')
  /\ Line'[7] = IF gpc' = "report" THEN ToSet(sending') ELSE {}
  /\ Line'[8] = ToSet(vin')
  /\ Line'[9] = {Items[i].t : i \in {j \in Places("video") : j >= src'}}
  BY DEF Line

Stages == [1..9 -> SUBSET Nat]
LEMMA LineType == Typed => Line \in Stages
<1> SUFFICES ASSUME Typed PROVE Line \in Stages
  OBVIOUS
<1>1. Line[1] \subseteq Nat
  <2>1. \A i \in DOMAIN vlog : vlog[i] \in [t : Nat, seg : Nat]
    BY LenProperties, ElementOfSeq DEF Typed, MuxType
  <2> QED BY <2>1, LineAt
<1>2. Line[2] \subseteq Nat
  BY LineAt DEF Typed, VidType
<1>3. Line[3] \subseteq Nat /\ Line[4] \subseteq Nat
  BY LineAt, SetOfSeq DEF Typed, EncType
<1>4. Line[5] \subseteq Nat /\ Line[6] \subseteq Nat /\ Line[7] \subseteq Nat
  <2>1. ToSet(sending) \subseteq Nat /\ ToSet(delay) \subseteq Nat
    BY SetOfSeq DEF Typed, GpType
  <2> QED BY <2>1, LineAt
<1>5. Line[8] \subseteq Nat
  BY LineAt, SetOfSeq DEF Typed, SrcType
<1>6. Line[9] \subseteq Nat
  BY LineAt, ItemFacts DEF Places
<1>7. \A k \in 1..9 : k \in {1, 2, 3, 4, 5, 6, 7, 8, 9}
  OBVIOUS
<1>8. \A k \in 1..9 : Line[k] \subseteq Nat
  BY <1>1, <1>2, <1>3, <1>4, <1>5, <1>6, <1>7
<1>9. Line = [k \in 1..9 |-> Line[k]]
  BY DEF Line
<1> QED BY <1>8, <1>9 DEF Stages

(***************************************************************************)
(* Moving along it: one frame leaves the front of stage k for stage j, and *)
(* nothing is in between.                                                  *)
(***************************************************************************)
Shift(A, B, t, j, k) ==
    /\ t \in A[k] /\ \A u \in A[k] : t <= u
    /\ \A i \in j + 1..k - 1 : A[i] = {}
    /\ B[k] = A[k] \ {t} /\ B[j] = A[j] \cup {t} /\ \A i \in 1..9 \ {j, k} : B[i] = A[i]
NoneBack(A, B) == \A k \in 1..9 : \A t \in B[k] : \E m \in k..9 : t \in A[m]
Kept(A, B, n) == \A k \in 1..n : \A t \in A[k] : \E m \in 1..k : t \in B[m]
Advance(A, B) == InOrder(B) /\ NoneBack(A, B) /\ Kept(A, B, 9)

LEMMA ShiftAdvance ==
  ASSUME NEW A \in Stages, NEW B \in Stages, NEW j \in 1..9, NEW k \in 1..9, j < k, NEW t,
         InOrder(A), Shift(A, B, t, j, k)
  PROVE  Advance(A, B)
<1>1. InOrder(B)
  <2> SUFFICES ASSUME NEW p \in 1..9, NEW q \in 1..9, p < q, NEW x \in B[p], NEW y \in B[q]
               PROVE x < y
    BY DEF InOrder
  <2>1. x \in A[p] \/ (p = j /\ x = t)
    BY DEF Shift
  <2>2. y \in A[q] \/ (q = j /\ y = t)
    BY DEF Shift
  <2>3. CASE x \in A[p] /\ y \in A[q]
    BY <2>3 DEF InOrder
  <2>4. CASE p = j /\ x = t /\ y \in A[q]
    <3>1. CASE q > k
      BY <2>4, <3>1 DEF InOrder, Shift
    <3>2. CASE q = k
      <4>1. y # t /\ t <= y /\ y \in Nat /\ t \in Nat
        BY <2>4, <3>2 DEF Shift, Stages
      <4> QED BY <2>4, <4>1
    <3>3. CASE q < k
      <4>1. q \in j + 1..k - 1
        BY <2>4, <3>3
      <4> QED BY <2>4, <4>1 DEF Shift
    <3> QED BY <3>1, <3>2, <3>3
  <2>5. CASE q = j /\ y = t /\ x \in A[p]
    BY <2>5 DEF InOrder, Shift
  <2> QED BY <2>1, <2>2, <2>3, <2>4, <2>5
<1>2. NoneBack(A, B)
  <2> SUFFICES ASSUME NEW p \in 1..9, NEW x \in B[p] PROVE \E m \in p..9 : x \in A[m]
    BY DEF NoneBack
  <2>1. x \in A[p] \/ (p = j /\ x \in A[k])
    BY DEF Shift
  <2>2. p \in p..9 /\ (p = j => k \in p..9)
    OBVIOUS
  <2> QED BY <2>1, <2>2
<1>3. Kept(A, B, 9)
  <2> SUFFICES ASSUME NEW p \in 1..9, NEW x \in A[p] PROVE \E m \in 1..p : x \in B[m]
    BY DEF Kept
  <2>1. x \in B[p] \/ (p = k /\ x \in B[j])
    BY DEF Shift
  <2>2. p \in 1..p /\ (p = k => j \in 1..p)
    OBVIOUS
  <2> QED BY <2>1, <2>2
<1> QED BY <1>1, <1>2, <1>3 DEF Advance

LEMMA AdvanceTwice ==
  ASSUME NEW A, NEW B, NEW C, Advance(A, B), Advance(B, C)
  PROVE  Advance(A, C)
<1>1. NoneBack(A, C)
  <2> SUFFICES ASSUME NEW p \in 1..9, NEW x \in C[p] PROVE \E m \in p..9 : x \in A[m]
    BY DEF NoneBack
  <2>1. PICK m \in p..9 : x \in B[m]
    BY DEF Advance, NoneBack
  <2>2. PICK n \in m..9 : x \in A[n]
    BY <2>1 DEF Advance, NoneBack
  <2> QED BY <2>2
<1>2. Kept(A, C, 9)
  <2> SUFFICES ASSUME NEW p \in 1..9, NEW x \in A[p] PROVE \E m \in 1..p : x \in C[m]
    BY DEF Kept
  <2>1. PICK m \in 1..p : x \in B[m]
    BY DEF Advance, Kept
  <2>2. PICK n \in 1..m : x \in C[n]
    BY <2>1 DEF Advance, Kept
  <2> QED BY <2>2
<1> QED BY <1>1, <1>2 DEF Advance

LEMMA AdvanceNot == ASSUME NEW A, InOrder(A) PROVE Advance(A, A)
<1>1. \A k \in 1..9 : k \in k..9 /\ k \in 1..k
  OBVIOUS
<1> QED BY <1>1 DEF Advance, NoneBack, Kept

(* Frames may also get lost.                                               *)
Loses(A, B) == \A k \in 1..9 : B[k] \subseteq A[k]
LEMMA LosesOrder ==
  ASSUME NEW A, NEW B, InOrder(A), Loses(A, B)
  PROVE  InOrder(B) /\ NoneBack(A, B)
<1>1. \A k \in 1..9 : k \in k..9
  OBVIOUS
<1> QED BY <1>1 DEF InOrder, NoneBack, Loses

LEMMA LineTypeNext == Typed' => (Line \in Stages)'
  BY LineType, PTL

(* What a cancelled processor or encoder had is behind all that goes on.   *)
Dropped == /\ gpc' = "done" /\ Loses(Line, Line')
           /\ \A k \in 1..3 : Line'[k] = Line[k]
           /\ Line'[4] = Line[4] \/ Line'[4] = {}
Moved ==
    /\ InOrder(Line') /\ NoneBack(Line, Line')
    /\ ctx' \/ egctx' \/ Kept(Line, Line', 9)
    /\ vpc' = "done" \/ Kept(Line, Line', 8) \/ Dropped

LEMMA LineStep ==
  ASSUME IInv, Next
  PROVE  Moved /\ Sorted'
<1> USE DEF srcVars, gpVars, encVars, gateVars, vidVars, audVars, muxVars, endVars
<1>a. Line \in Stages /\ Line' \in Stages /\ InOrder(Line)
  BY LineType, LineTypeNext, TypeStep DEF IInv, Ordered
<1>s. Sorted
  BY DEF IInv, Ordered
<1>t. /\ src \in 1..Len(Items) + 1 /\ vin \in Seq(Nat) /\ delay \in Seq(Nat) /\ sending \in Seq(Nat)
      /\ pipe \in Seq(Nat) /\ vout \in Seq(Nat)
  BY DEF IInv, Typed, SrcType, GpType, EncType
<1>n. \A k \in 1..9 : \A u \in Line[k] : u \in Nat
  BY <1>a DEF Stages
<1>x. Line = [k \in 1..9 |-> Line[k]] /\ Line' = [k \in 1..9 |-> Line'[k]]
  BY <1>a DEF Stages
<1>p. Line[3] = ToSet(vout) /\ Line[4] = ToSet(pipe) /\ Line[6] = ToSet(delay) /\ Line[8] = ToSet(vin)
  BY LineAt
<1>q. /\ Line'[3] = ToSet(vout') /\ Line'[4] = ToSet(pipe') /\ Line'[6] = ToSet(delay')
      /\ Line'[8] = ToSet(vin')
  BY LineAtNext
<1>r. /\ Ascending(vout) /\ Ascending(pipe) /\ Ascending(delay) /\ Ascending(vin)
  BY <1>s DEF Sorted
<1>o. \A j, k \in 1..9 : j < k => \A u \in Line[j], v \in Line[k] : u < v
  BY <1>a DEF InOrder
<1>b. /\ gpc = "report" => Len(sending) = 1
      /\ gpc \in {"send", "drain"} => Len(sending) <= 1
      /\ gpc \in {"take", "done"} => sending = <<>>
      /\ gpc = "done" \/ Lookback = 0 => delay = <<>>
      /\ ctx => gpc = "done" \/ vpc = "done"
  BY DEF IInv, Shape
<1>c. ASSUME Advance(Line, Line') PROVE Moved
  <2>1. Kept(Line, Line', 8)
    BY <1>c DEF Advance, Kept
  <2> QED BY <1>c, <2>1 DEF Advance, Moved
<1>d. ASSUME NEW t, NEW j \in 1..9, NEW k \in 1..9, j < k, Shift(Line, Line', t, j, k) PROVE Moved
  BY <1>a, <1>c, <1>d, ShiftAdvance
<1>e. ASSUME Line' = Line PROVE Moved
  BY <1>a, <1>c, <1>e, AdvanceNot
<1>f. ASSUME Loses(Line, Line'), ctx' \/ egctx',
             vpc' = "done" \/ Kept(Line, Line', 8) \/ Dropped PROVE Moved
  BY <1>a, <1>f, LosesOrder DEF Moved
<1>g. \A k \in 1..9 : k \in {1, 2, 3, 4, 5, 6, 7, 8, 9}
  OBVIOUS
<1>h. ASSUME UNCHANGED <<vlog, vout, pipe, delay, vin>> PROVE Sorted'
  BY <1>s, <1>h DEF Sorted
<1>i. ASSUME sending # <<>>, Len(sending) <= 1 PROVE ToSet(sending) = {sending[1]} /\ sending[1] \in Nat
  <2>1. sending \in Seq(Nat)
    BY <1>t
  <2>2. Len(sending) = 1
    BY <2>1, <1>i, NotEmpty
  <2>3. DOMAIN sending = 1..1
    BY <2>1, <2>2, SetOfSeq
  <2>4. sending[1] \in Nat
    BY <2>1, <1>i, QueueTail
  <2> QED BY <2>3, <2>4 DEF ToSet
<1>1. ASSUME SourceSend PROVE Moved /\ Sorted'
  <2>1. /\ src \in 1..Len(Items) /\ src' = src + 1 /\ Items[src].t \in Nat
        /\ UNCHANGED <<gpc, delay, sending, pipe, vout, vpc, vpkt, vlog>>
    BY <1>1, <1>t, ItemFacts DEF SourceSend, SrcDone
  <2>2. Line'[1] = Line[1] /\ Line'[2] = Line[2] /\ Line'[3] = Line[3]
        /\ Line'[4] = Line[4] /\ Line'[5] = Line[5] /\ Line'[6] = Line[6]
        /\ Line'[7] = Line[7]
    BY <2>1, LineAt, LineAtNext DEF Rotating
  <2>3. CASE Items[src].kind = "video"
    <3> DEFINE x == Items[src].t
    <3>1. vin' = Append(vin, x)
      BY <1>1, <2>3 DEF SourceSend
    <3>2. src \in Places("video")
      BY <2>1, <2>3 DEF Places
    <3>3. x \in Line[9]
      <4>1. src \in {j \in Places("video") : j >= src}
        BY <2>1, <3>2
      <4> QED BY <4>1, LineAt
    <3>4. Line'[8] = Line[8] \cup {x}
      <4>1. vin \in Seq(Nat) /\ x \in Nat
        BY <2>1, <1>t
      <4>2. ToSet(Append(vin, x)) = ToSet(vin) \cup {x}
        BY <4>1, QueueAppend
      <4> QED BY <3>1, <4>2, <1>p, <1>q
    <3>5. \A i \in Places("video") : i >= src + 1 => i \in Nat /\ x < Items[i].t /\ Items[i].t \in Nat
      BY <2>1, <3>2, ItemFacts DEF Places
    <3>6. Line'[9] = {Items[i].t : i \in {j \in Places("video") : j >= src + 1}}
      BY <2>1, LineAtNext
    <3>7. {j \in Places("video") : j >= src} = {src} \cup {j \in Places("video") : j >= src + 1}
      BY <2>1, <3>2 DEF Places
    <3>8. Line[9] = {x} \cup Line'[9]
      BY <3>6, <3>7, LineAt
    <3>9. \A u \in Line'[9] : x < u
      BY <3>5, <3>6
    <3>10. Shift(Line, Line', x, 8, 9)
      <4>1. Line'[9] = Line[9] \ {x} /\ \A u \in Line[9] : x <= u
        BY <2>1, <3>8, <3>9, <1>n
      <4>2. \A i \in 1..9 \ {8, 9} : Line'[i] = Line[i]
        BY <2>2, <1>g
      <4> QED BY <3>3, <3>4, <4>1, <4>2 DEF Shift
    <3>11. \A u \in ToSet(vin) : u < x
      BY <3>3, <1>o, <1>p
    <3>12. Ascending(vin')
      BY <2>1, <3>1, <3>11, <1>t, <1>r, AscendingAppend
    <3>13. Sorted'
      BY <2>1, <3>12, <1>s DEF Sorted
    <3> QED BY <3>10, <3>13, <1>d
  <2>4. CASE Items[src].kind # "video"
    <3>1. vin' = vin
      BY <1>1, <2>4 DEF SourceSend
    <3>2. {j \in Places("video") : j >= src} = {j \in Places("video") : j >= src + 1}
      BY <2>1, <2>4 DEF Places
    <3>3. Line' = Line
      BY <2>1, <3>1, <3>2 DEF Line, Rotating
    <3>4. UNCHANGED <<vlog, vout, pipe, delay, vin>>
      BY <2>1, <3>1
    <3> QED BY <3>3, <3>4, <1>e, <1>h
  <2> QED BY <2>3, <2>4
<1>2. ASSUME SourceCancelled PROVE Moved /\ Sorted'
  <2>1. /\ src' = Len(Items) + 1 /\ ctx'
        /\ UNCHANGED <<vin, gpc, delay, sending, pipe, vout, vpc, vpkt, vlog>>
    BY <1>2 DEF SourceCancelled
  <2>2. Line'[1] = Line[1] /\ Line'[2] = Line[2] /\ Line'[3] = Line[3]
        /\ Line'[4] = Line[4] /\ Line'[5] = Line[5] /\ Line'[6] = Line[6]
        /\ Line'[7] = Line[7] /\ Line'[8] = Line[8]
    BY <2>1, LineAt, LineAtNext DEF Rotating
  <2>3. Line'[9] \subseteq Line[9]
    BY <2>1, <1>t, ItemFacts, LineAt, LineAtNext DEF Places
  <2>4. Loses(Line, Line')
    BY <2>2, <2>3, <1>g DEF Loses
  <2>5. Kept(Line, Line', 8)
    <3>1. \A k \in 1..8 : Line'[k] = Line[k] /\ k \in 1..k
      BY <2>2
    <3> QED BY <3>1 DEF Kept
  <2> QED BY <2>1, <2>4, <2>5, <1>f, <1>h
<1>3. ASSUME GpTake PROVE Moved /\ Sorted'
  <2> DEFINE x == vin[1]
  <2>1. /\ vin # <<>> /\ vin' = Tail(vin) /\ sending' = <<x>> /\ gpc = "take" /\ gpc' = "report"
        /\ UNCHANGED <<src, delay, pipe, vout, vpc, vpkt, vlog>>
    BY <1>3 DEF GpTake
  <2>2. sending = <<>>
    BY <2>1, <1>b
  <2>3. Line'[1] = Line[1] /\ Line'[2] = Line[2] /\ Line'[3] = Line[3]
        /\ Line'[4] = Line[4] /\ Line'[5] = Line[5] /\ Line'[6] = Line[6]
        /\ Line'[9] = Line[9]
    BY <2>1, <2>2, LineAt, LineAtNext, SetOfNone DEF Rotating
  <2>4. Line[7] = {} /\ Line'[7] = {x}
    BY <2>1, LineAt, LineAtNext, SetOfNone
  <2>5. /\ x \in Nat /\ x \in Line[8] /\ Line'[8] = Line[8] \ {x} /\ Ascending(vin')
        /\ \A u \in Line'[8] : x < u
    <3>1. vin \in Seq(Nat) /\ Ascending(vin) /\ vin # <<>>
      BY <2>1, <1>t, <1>r
    <3>2. x \in Nat /\ x \in ToSet(vin)
      BY <3>1, QueueTail
    <3>3. /\ Ascending(Tail(vin)) /\ \A u \in ToSet(Tail(vin)) : x < u
          /\ ToSet(Tail(vin)) = ToSet(vin) \ {x}
      BY <3>1, AscendingTail
    <3> QED BY <2>1, <3>2, <3>3, <1>p, <1>q
  <2>6. Shift(Line, Line', x, 7, 8)
    <3>1. \A u \in Line[8] : x <= u
      BY <2>5, <1>n
    <3>2. \A i \in 1..9 \ {7, 8} : Line'[i] = Line[i]
      BY <2>3, <1>g
    <3> QED BY <2>4, <2>5, <3>1, <3>2 DEF Shift
  <2>7. Sorted'
    BY <2>1, <2>5, <1>s DEF Sorted
  <2> QED BY <2>6, <2>7, <1>d
<1>4. ASSUME GpReport PROVE Moved /\ Sorted'
  <2> DEFINE f == sending[1]
             d == Append(delay, f)
  <2>1. /\ gpc = "report" /\ gpc' = "send" /\ Forward(f)
        /\ UNCHANGED <<src, vin, pipe, vout, vpc, vpkt, vlog>>
    BY <1>4 DEF GpReport
  <2>2. ToSet(sending) = {f} /\ f \in Nat
    <3>1. Len(sending) = 1
      BY <2>1, <1>b
    <3>2. sending # <<>>
      <4>1. sending \in Seq(Nat)
        BY <1>t
      <4>2. Len(sending) # 0
        BY <3>1
      <4> QED BY <4>1, <4>2, NotEmpty
    <3> QED BY <3>1, <3>2, <1>i
  <2>3. Line[7] = {f} /\ Line[5] = {} /\ Line'[7] = {} /\ Line'[5] = ToSet(sending')
    BY <2>1, <2>2, LineAt, LineAtNext
  <2>4. Line'[1] = Line[1] /\ Line'[2] = Line[2] /\ Line'[3] = Line[3]
        /\ Line'[4] = Line[4] /\ Line'[8] = Line[8] /\ Line'[9] = Line[9]
    BY <2>1, LineAt, LineAtNext DEF Rotating
  <2>5. \A u \in ToSet(delay) : u < f
    <3>1. f \in Line[7] /\ ToSet(delay) = Line[6]
      BY <2>3, LineAt
    <3> QED BY <3>1, <1>o
  <2>6. d \in Seq(Nat) /\ ToSet(d) = ToSet(delay) \cup {f} /\ Ascending(d) /\ Len(d) \in Nat \ {0}
    <3>1. delay \in Seq(Nat) /\ f \in Nat /\ Ascending(delay)
      BY <2>2, <1>t, <1>r
    <3>2. /\ d \in Seq(Nat) /\ ToSet(d) = ToSet(delay) \cup {f}
          /\ Len(d) = Len(delay) + 1 /\ Len(delay) \in Nat
      BY <3>1, QueueAppend
    <3>3. Ascending(d)
      BY <2>5, <3>1, AscendingAppend
    <3> QED BY <3>2, <3>3
  <2>7. CASE Lookback = 0
    <3>1. delay = <<>> /\ sending' = <<f>> /\ delay' = delay
      BY <2>1, <2>7, <1>b DEF Forward
    <3>2. Line'[5] = {f} /\ Line[6] = {} /\ Line'[6] = {}
      BY <2>3, <3>1, SetOfNone, LineAt, LineAtNext
    <3>3. Shift(Line, Line', f, 5, 7)
      <4>1. \A i \in 1..9 \ {5, 7} : Line'[i] = Line[i]
        BY <2>4, <3>2, <1>g
      <4>2. \A i \in 5 + 1..7 - 1 : Line[i] = {}
        BY <3>2
      <4> QED BY <2>2, <2>3, <3>2, <4>1, <4>2 DEF Shift
    <3>4. UNCHANGED <<vlog, vout, pipe, delay, vin>>
      BY <2>1, <3>1
    <3> QED BY <3>3, <3>4, <1>d, <1>h
  <2>8. CASE Lookback # 0 /\ ~(Len(d) > Lookback)
    <3>1. sending' = <<>> /\ delay' = d
      BY <2>1, <2>8 DEF Forward
    <3>2. Line'[5] = {} /\ Line'[6] = Line[6] \cup {f}
      BY <2>3, <2>6, <3>1, SetOfNone, LineAt, LineAtNext
    <3>3. Shift(Line, Line', f, 6, 7)
      <4>1. \A i \in 1..9 \ {6, 7} : Line'[i] = Line[i]
        BY <2>3, <2>4, <3>2, <1>g
      <4> QED BY <2>2, <2>3, <3>2, <4>1 DEF Shift
    <3>4. Sorted'
      BY <2>1, <2>6, <3>1, <1>s DEF Sorted
    <3> QED BY <3>3, <3>4, <1>d
  <2>9. CASE Lookback # 0 /\ Len(d) > Lookback
    <3> DEFINE M == [Line EXCEPT ![6] = Line[6] \cup {f}, ![7] = {}]
    <3>1. sending' = <<d[1]>> /\ delay' = Tail(d) /\ d # <<>>
      <4>1. d # <<>>
        BY <2>6, EmptySeq
      <4> QED BY <2>1, <2>9, <4>1 DEF Forward
    <3>2. /\ M \in Stages /\ M[6] = Line[6] \cup {f} /\ M[7] = {}
          /\ \A i \in 1..9 \ {6, 7} : M[i] = Line[i]
      BY <2>2, <1>a DEF Stages
    <3> HIDE DEF M
    <3>3. Shift(Line, M, f, 6, 7)
      BY <2>2, <2>3, <3>2 DEF Shift
    <3>4. Advance(Line, M)
      BY <3>2, <3>3, <1>a, ShiftAdvance
    <3>5. M[6] = ToSet(d)
      BY <2>6, <3>2, <1>p
    <3>6. /\ d[1] \in Nat /\ d[1] \in ToSet(d) /\ ToSet(Tail(d)) = ToSet(d) \ {d[1]} /\ Ascending(Tail(d))
          /\ \A u \in ToSet(Tail(d)) : d[1] < u
      <4> HIDE DEF d
      <4> QED BY <2>6, <3>1, QueueTail, AscendingTail
    <3>7. Line'[5] = {d[1]} /\ Line'[6] = M[6] \ {d[1]}
      BY <2>3, <3>1, <3>5, <3>6, SetOfNone, LineAtNext
    <3>8. Shift(M, Line', d[1], 5, 6)
      <4>1. M[5] = {}
        BY <2>3, <3>2
      <4>2. \A i \in 1..9 \ {5, 6} : Line'[i] = M[i]
        BY <2>3, <2>4, <3>2, <1>g
      <4>3. \A u \in M[6] : d[1] <= u
        <5>1. \A u \in M[6] : u \in Nat /\ (u = d[1] \/ d[1] < u)
          BY <3>2, <3>5, <3>6 DEF Stages
        <5> QED BY <5>1, <3>6
      <4> QED BY <3>5, <3>6, <3>7, <4>1, <4>2, <4>3 DEF Shift
    <3>9. Advance(M, Line')
      BY <3>2, <3>4, <3>8, <1>a, ShiftAdvance DEF Advance
    <3>10. Advance(Line, Line')
      BY <3>4, <3>9, AdvanceTwice
    <3>11. Sorted'
      BY <2>1, <3>1, <3>6, <1>s DEF Sorted
    <3> QED BY <3>10, <3>11, <1>c
  <2> QED BY <2>7, <2>8, <2>9
<1>5. ASSUME GpSend PROVE Moved /\ Sorted'
  <2>1. /\ gpc \in {"send", "drain"} /\ gpc' # "report"
        /\ UNCHANGED <<src, vin, vout, vpc, vpkt, vlog>>
        /\ \/ sending = <<>> /\ pipe' = pipe
           \/ sending # <<>> /\ pipe' = Append(pipe, sending[1])
        /\ \/ gpc = "drain" /\ delay # <<>> /\ sending' = <<delay[1]>> /\ delay' = Tail(delay)
           \/ sending' = <<>> /\ delay' = delay
    BY <1>5 DEF GpSend
  <2>2. Line'[1] = Line[1] /\ Line'[2] = Line[2] /\ Line'[3] = Line[3]
        /\ Line'[7] = Line[7] /\ Line'[8] = Line[8] /\ Line'[9] = Line[9]
    BY <2>1, LineAt, LineAtNext DEF Rotating
  <2>3. /\ Line[5] = ToSet(sending) /\ Line[4] = ToSet(pipe) /\ Line[6] = ToSet(delay)
        /\ Line'[5] = ToSet(sending') /\ Line'[4] = ToSet(pipe') /\ Line'[6] = ToSet(delay')
    BY <2>1, LineAt, LineAtNext
  <2> DEFINE M == [Line EXCEPT ![4] = ToSet(pipe'), ![5] = {}]
  <2>4. ToSet(pipe') \subseteq Nat /\ pipe' \in Seq(Nat)
    <3>1. pipe' \in Seq(Nat)
      BY TypeStep DEF IInv, Typed, EncType
    <3> QED BY <3>1, SetOfSeq
  <2>5. /\ M \in Stages /\ M[4] = ToSet(pipe') /\ M[5] = {}
        /\ \A i \in 1..9 \ {4, 5} : M[i] = Line[i]
    <3>1. DOMAIN Line = 1..9 /\ \A i \in 1..9 : Line[i] \in SUBSET Nat
      BY <1>a DEF Stages
    <3>2. DOMAIN M = 1..9 /\ M = [i \in 1..9 |-> M[i]]
      BY <3>1
    <3>3. M[4] = ToSet(pipe') /\ M[5] = {} /\ \A i \in 1..9 \ {4, 5} : M[i] = Line[i]
      BY <3>1
    <3> HIDE DEF M
    <3>4. \A i \in 1..9 : M[i] \in SUBSET Nat
      BY <2>4, <3>1, <3>3
    <3> QED BY <3>2, <3>3, <3>4 DEF Stages
  <2>m. DOMAIN M = 1..9 /\ DOMAIN Line = 1..9 /\ DOMAIN Line' = 1..9
    BY <2>5, <1>a DEF Stages
  <2> HIDE DEF M
  <2>6. Advance(Line, M) /\ Ascending(pipe')
    <3>1. CASE sending = <<>>
      <4>1. Line[5] = {} /\ pipe' = pipe
        BY <2>1, <2>3, <3>1, SetOfNone
      <4>2. \A i \in 1..9 : M[i] = Line[i]
        BY <2>3, <2>5, <4>1, <1>g
      <4>3. M = [i \in 1..9 |-> M[i]] /\ Line = [i \in 1..9 |-> Line[i]]
        BY <2>5, <1>a DEF Stages
      <4>4. M = Line
        BY <4>2, <4>3
      <4> QED BY <4>1, <4>4, <1>a, <1>r, AdvanceNot
    <3>2. CASE sending # <<>>
      <4>1. /\ ToSet(sending) = {sending[1]} /\ sending[1] \in Nat /\ pipe' = Append(pipe, sending[1])
        BY <2>1, <3>2, <1>b, <1>i
      <4>2. M[4] = Line[4] \cup {sending[1]}
        BY <2>3, <2>5, <4>1, <1>t, QueueAppend
      <4>3. Shift(Line, M, sending[1], 4, 5)
        BY <2>3, <2>5, <4>1, <4>2 DEF Shift
      <4>4. \A u \in ToSet(pipe) : u < sending[1]
        BY <2>3, <4>1, <1>o
      <4>5. Ascending(pipe')
        BY <4>1, <4>4, <1>t, <1>r, AscendingAppend
      <4> QED BY <2>5, <4>3, <4>5, <1>a, ShiftAdvance
    <3> QED BY <3>1, <3>2
  <2>7. Advance(M, Line') /\ Ascending(delay')
    <3>1. CASE sending' = <<>> /\ delay' = delay
      <4>1. Line'[5] = {} /\ Line'[6] = Line[6]
        BY <2>3, <3>1, SetOfNone
      <4>2. \A i \in 1..9 : Line'[i] = M[i]
        BY <2>2, <2>3, <2>5, <4>1, <1>g
      <4>3. M = [i \in 1..9 |-> M[i]] /\ Line' = [i \in 1..9 |-> Line'[i]]
        BY <2>5, <1>a DEF Stages
      <4>4. Line' = M
        BY <4>2, <4>3
      <4>5. InOrder(M)
        BY <2>6 DEF Advance
      <4> QED BY <3>1, <4>4, <4>5, <1>r, AdvanceNot
    <3>2. CASE delay # <<>> /\ sending' = <<delay[1]>> /\ delay' = Tail(delay)
      <4>1. /\ delay[1] \in Nat /\ delay[1] \in ToSet(delay) /\ Ascending(delay')
            /\ ToSet(delay') = ToSet(delay) \ {delay[1]} /\ \A u \in ToSet(delay') : delay[1] < u
        BY <3>2, <1>t, <1>r, QueueTail, AscendingTail
      <4>2. Line'[5] = {delay[1]} /\ Line'[6] = M[6] \ {delay[1]} /\ M[6] = ToSet(delay)
        BY <2>3, <2>5, <3>2, <4>1, SetOfNone
      <4>3. \A u \in M[6] : delay[1] <= u
        <5>1. \A u \in M[6] : u \in Nat /\ (u = delay[1] \/ delay[1] < u)
          BY <2>5, <4>1, <4>2 DEF Stages
        <5> QED BY <5>1, <4>1
      <4>4. \A i \in 1..9 \ {5, 6} : Line'[i] = M[i]
        BY <2>2, <2>3, <2>5, <1>g
      <4>5. Shift(M, Line', delay[1], 5, 6)
        BY <2>5, <4>1, <4>2, <4>3, <4>4 DEF Shift
      <4> QED BY <2>5, <2>6, <4>1, <4>5, <1>a, ShiftAdvance DEF Advance
    <3> QED BY <2>1, <3>1, <3>2
  <2>8. Advance(Line, Line')
    BY <2>6, <2>7, AdvanceTwice
  <2>9. Sorted'
    BY <2>1, <2>6, <2>7, <1>s DEF Sorted
  <2> QED BY <2>8, <2>9, <1>c
<1>6. ASSUME GpEnd PROVE Moved /\ Sorted'
  <2>1. /\ gpc = "take" /\ gpc' = "drain"
        /\ UNCHANGED <<src, vin, delay, sending, pipe, vout, vpc, vpkt, vlog>>
    BY <1>6 DEF GpEnd
  <2>2. Line' = Line
    BY <2>1 DEF Line, Rotating
  <2> QED BY <2>1, <2>2, <1>e, <1>h
<1>7. ASSUME GpStop PROVE Moved /\ Sorted'
  <2>1. /\ gpc' = "done" /\ sending' = <<>> /\ delay' = <<>> /\ ctx'
        /\ UNCHANGED <<src, pipe, vout, vpc, vpkt, vlog>>
    BY <1>7 DEF GpStop
  <2>v. vin' = vin \/ (vin # <<>> /\ vin' = Tail(vin))
    BY <1>7 DEF GpStop
  <2>2. Line'[1] = Line[1] /\ Line'[2] = Line[2] /\ Line'[3] = Line[3]
        /\ Line'[4] = Line[4] /\ Line'[9] = Line[9]
    BY <2>1, LineAt, LineAtNext DEF Rotating
  <2>3. Line'[5] = {} /\ Line'[6] = {} /\ Line'[7] = {}
    BY <2>1, LineAtNext, SetOfNone
  <2>4. Line'[8] \subseteq Line[8] /\ Ascending(vin')
    <3>1. CASE vin' = vin
      BY <3>1, <1>r, <1>p, <1>q
    <3>2. CASE vin # <<>> /\ vin' = Tail(vin)
      BY <3>2, <1>t, <1>r, <1>p, <1>q, AscendingTail
    <3> QED BY <2>v, <3>1, <3>2
  <2>5. Loses(Line, Line')
    BY <2>2, <2>3, <2>4, <1>g DEF Loses
  <2>7. Dropped
    <3>1. \A k \in 1..3 : Line'[k] = Line[k]
      BY <2>2, <1>g
    <3> QED BY <2>1, <2>2, <2>5, <3>1 DEF Dropped
  <2>6. Sorted'
    BY <2>1, <2>4, <1>s, AscendingShort DEF Sorted
  <2> QED BY <2>1, <2>5, <2>6, <2>7, <1>f
<1>8. ASSUME Encode PROVE Moved /\ Sorted'
  <2> DEFINE x == pipe[1]
  <2>1. /\ pipe # <<>> /\ pipe' = Tail(pipe) /\ vout' = Append(vout, x)
        /\ UNCHANGED <<src, vin, delay, gpc, sending, vpc, vpkt, vlog>>
    BY <1>8 DEF Encode
  <2>2. Line'[1] = Line[1] /\ Line'[2] = Line[2] /\ Line'[5] = Line[5]
        /\ Line'[6] = Line[6] /\ Line'[7] = Line[7] /\ Line'[8] = Line[8]
        /\ Line'[9] = Line[9]
    BY <2>1, LineAt, LineAtNext DEF Rotating
  <2>3. /\ x \in Nat /\ x \in Line[4] /\ Line'[4] = Line[4] \ {x} /\ Ascending(pipe')
        /\ \A u \in Line'[4] : x < u
    <3>1. pipe \in Seq(Nat) /\ Ascending(pipe) /\ pipe # <<>>
      BY <2>1, <1>t, <1>r
    <3>2. x \in Nat /\ x \in ToSet(pipe)
      BY <3>1, QueueTail
    <3>3. /\ Ascending(Tail(pipe)) /\ \A u \in ToSet(Tail(pipe)) : x < u
          /\ ToSet(Tail(pipe)) = ToSet(pipe) \ {x}
      BY <3>1, AscendingTail
    <3> QED BY <2>1, <3>2, <3>3, <1>p, <1>q
  <2>4. Line'[3] = Line[3] \cup {x}
    BY <2>1, <2>3, <1>t, <1>p, <1>q, QueueAppend
  <2>5. Shift(Line, Line', x, 3, 4)
    <3>1. \A u \in Line[4] : x <= u
      BY <2>3, <1>n
    <3>2. \A i \in 1..9 \ {3, 4} : Line'[i] = Line[i]
      BY <2>2, <1>g
    <3> QED BY <2>3, <2>4, <3>1, <3>2 DEF Shift
  <2>6. \A u \in ToSet(vout) : u < x
    BY <2>3, <1>o, <1>p
  <2>7. Ascending(vout')
    BY <2>1, <2>3, <2>6, <1>t, <1>r, AscendingAppend
  <2>8. Sorted'
    BY <2>1, <2>3, <2>7, <1>s DEF Sorted
  <2> QED BY <2>5, <2>8, <1>d
<1>9. ASSUME EncodeCancelled PROVE Moved /\ Sorted'
  <2>1. /\ pipe' = <<>> /\ ctx /\ ctx' = ctx
        /\ UNCHANGED <<src, vin, delay, gpc, sending, vout, vpc, vpkt, vlog>>
    BY <1>9 DEF EncodeCancelled
  <2>2. Line'[1] = Line[1] /\ Line'[2] = Line[2] /\ Line'[3] = Line[3]
        /\ Line'[5] = Line[5] /\ Line'[6] = Line[6] /\ Line'[7] = Line[7]
        /\ Line'[8] = Line[8] /\ Line'[9] = Line[9]
    BY <2>1, LineAt, LineAtNext DEF Rotating
  <2>3. Line'[4] = {}
    BY <2>1, LineAtNext, SetOfNone
  <2>4. Loses(Line, Line')
    BY <2>2, <2>3, <1>g DEF Loses
  <2>5. Dropped \/ vpc' = "done"
    <3>1. \A k \in 1..3 : Line'[k] = Line[k]
      BY <2>2, <1>g
    <3> QED BY <2>1, <2>3, <2>4, <3>1, <1>b DEF Dropped
  <2>6. Sorted'
    BY <2>1, <1>s, AscendingShort DEF Sorted
  <2> QED BY <2>1, <2>4, <2>5, <2>6, <1>f
<1>10. ASSUME VideoTake PROVE Moved /\ Sorted'
  <2> DEFINE x == vout[1]
  <2>1. /\ vout # <<>> /\ vout' = Tail(vout) /\ vpkt' = x /\ vpc = "take" /\ vpc' \in {"rotate", "write"}
        /\ UNCHANGED <<src, vin, delay, gpc, sending, pipe, vlog>>
    BY <1>10 DEF VideoTake
  <2>2. Line'[1] = Line[1] /\ Line'[4] = Line[4] /\ Line'[5] = Line[5]
        /\ Line'[6] = Line[6] /\ Line'[7] = Line[7] /\ Line'[8] = Line[8]
        /\ Line'[9] = Line[9]
    BY <2>1, LineAt, LineAtNext
  <2>3. /\ x \in Nat /\ x \in Line[3] /\ Line'[3] = Line[3] \ {x} /\ Ascending(vout')
        /\ \A u \in Line'[3] : x < u
    <3>1. vout \in Seq(Nat) /\ Ascending(vout) /\ vout # <<>>
      BY <2>1, <1>t, <1>r
    <3>2. x \in Nat /\ x \in ToSet(vout)
      BY <3>1, QueueTail
    <3>3. /\ Ascending(Tail(vout)) /\ \A u \in ToSet(Tail(vout)) : x < u
          /\ ToSet(Tail(vout)) = ToSet(vout) \ {x}
      BY <3>1, AscendingTail
    <3> QED BY <2>1, <3>2, <3>3, <1>p, <1>q
  <2>4. Line'[2] = Line[2] \cup {x}
    BY <2>1, LineAt, LineAtNext DEF Rotating
  <2>5. Shift(Line, Line', x, 2, 3)
    <3>1. \A u \in Line[3] : x <= u
      BY <2>3, <1>n
    <3>2. \A i \in 1..9 \ {2, 3} : Line'[i] = Line[i]
      BY <2>2, <1>g
    <3> QED BY <2>3, <2>4, <3>1, <3>2 DEF Shift
  <2>6. Sorted'
    BY <2>1, <2>3, <1>s DEF Sorted
  <2> QED BY <2>5, <2>6, <1>d
<1>11. ASSUME Rotate PROVE Moved /\ Sorted'
  <2>1. Line' = Line
    BY <1>11 DEF Rotate, Line, Rotating
  <2>2. UNCHANGED <<vlog, vout, pipe, delay, vin>>
    BY <1>11 DEF Rotate
  <2> QED BY <2>1, <2>2, <1>e, <1>h
<1>12. ASSUME OpenSegment PROVE Moved /\ Sorted'
  <2>1. Line' = Line
    BY <1>12 DEF OpenSegment, Line, Rotating
  <2>2. UNCHANGED <<vlog, vout, pipe, delay, vin>>
    BY <1>12 DEF OpenSegment
  <2> QED BY <2>1, <2>2, <1>e, <1>h
<1>13. ASSUME PopFront PROVE Moved /\ Sorted'
  <2>1. Line' = Line
    BY <1>13 DEF PopFront, Line, Rotating
  <2>2. UNCHANGED <<vlog, vout, pipe, delay, vin>>
    BY <1>13 DEF PopFront
  <2> QED BY <2>1, <2>2, <1>e, <1>h
<1>14. ASSUME VideoWrite PROVE Moved /\ Sorted'
  <2> DEFINE r == [t |-> vpkt, seg |-> seg]
  <2>1. /\ vlog' = Append(vlog, r) /\ vpc = "write" /\ vpc' = "take"
        /\ UNCHANGED <<src, vin, delay, gpc, sending, pipe, vout, vpkt>>
    BY <1>14 DEF VideoWrite
  <2>2. Line'[3] = Line[3] /\ Line'[4] = Line[4] /\ Line'[5] = Line[5]
        /\ Line'[6] = Line[6] /\ Line'[7] = Line[7] /\ Line'[8] = Line[8]
        /\ Line'[9] = Line[9]
    BY <2>1, LineAt, LineAtNext
  <2>3. Line[2] = {vpkt} /\ Line'[2] = {} /\ vpkt \in Nat
    BY <2>1, LineAt, LineAtNext DEF Rotating, IInv, Typed, VidType
  <2>4. /\ DOMAIN vlog = 1..Len(vlog) /\ DOMAIN vlog' = 1..Len(vlog) + 1 /\ Len(vlog) \in Nat
        /\ \A i \in 1..Len(vlog) : vlog'[i] = vlog[i]
        /\ vlog'[Len(vlog) + 1] = r
    <3>1. vlog \in Seq([t : Nat, seg : Nat]) /\ r \in [t : Nat, seg : Nat]
      BY DEF IInv, Typed, VidType, MuxType
    <3> QED BY <2>1, <3>1, QueueAppend
  <2>5. Line'[1] = Line[1] \cup {vpkt}
    <3>1. Len(vlog) + 1 \in DOMAIN vlog' /\ vlog'[Len(vlog) + 1].t = vpkt
      BY <2>4
    <3>2. \A i \in DOMAIN vlog : i \in DOMAIN vlog' /\ vlog'[i] = vlog[i]
      BY <2>4
    <3>3. \A i \in DOMAIN vlog' : i \in DOMAIN vlog \/ vlog'[i].t = vpkt
      BY <2>4
    <3> QED BY <3>1, <3>2, <3>3, LineAt, LineAtNext
  <2>6. Shift(Line, Line', vpkt, 1, 2)
    <3>1. \A i \in 1..9 \ {1, 2} : Line'[i] = Line[i]
      BY <2>2, <1>g
    <3> QED BY <2>3, <2>5, <3>1 DEF Shift
  <2>7. \A i \in 1..Len(vlog) : vlog[i].t < vpkt
    <3>1. \A u \in Line[1] : u < vpkt
      BY <2>3, <1>o
    <3>2. \A i \in 1..Len(vlog) : vlog[i].t \in Line[1]
      BY <2>4, LineAt
    <3> QED BY <3>1, <3>2
  <2>8. \A i, j \in DOMAIN vlog' : i < j => vlog'[i].t < vlog'[j].t
    <3> SUFFICES ASSUME NEW i \in 1..Len(vlog) + 1, NEW j \in 1..Len(vlog) + 1, i < j
                 PROVE vlog'[i].t < vlog'[j].t
      BY <2>4
    <3>1. i \in 1..Len(vlog) /\ vlog'[i] = vlog[i]
      BY <2>4
    <3>2. CASE j = Len(vlog) + 1
      BY <2>4, <2>7, <3>1, <3>2
    <3>3. CASE j \in 1..Len(vlog)
      BY <2>4, <3>1, <3>3, <1>s DEF Sorted
    <3> QED BY <2>4, <3>2, <3>3
  <2>9. Sorted'
    BY <2>1, <2>8, <1>s DEF Sorted
  <2> QED BY <2>6, <2>9, <1>d
<1>15. ASSUME VideoEnd PROVE Moved /\ Sorted'
  <2>1. /\ vpc' = "done"
        /\ UNCHANGED <<src, vin, delay, gpc, sending, pipe, vout, vlog>>
        /\ vpc = "take"
    BY <1>15 DEF VideoEnd, VideoReturn
  <2>2. Line'[1] = Line[1] /\ Line'[3] = Line[3] /\ Line'[4] = Line[4]
        /\ Line'[5] = Line[5] /\ Line'[6] = Line[6] /\ Line'[7] = Line[7]
        /\ Line'[8] = Line[8] /\ Line'[9] = Line[9]
    BY <2>1, LineAt, LineAtNext
  <2>3. Line'[2] = {}
    BY <2>1, LineAtNext DEF Rotating
  <2>4. Line[2] = {}
    BY <1>15, LineAt DEF VideoEnd, Rotating
  <2>5. \A i \in 1..9 : Line'[i] = Line[i]
    BY <2>2, <2>3, <2>4, <1>g
  <2>6. Line' = Line
    BY <2>5, <1>x
  <2> QED BY <2>1, <2>6, <1>e, <1>h
<1>16. ASSUME VideoFail PROVE Moved /\ Sorted'
  <2>1. /\ vpc' = "done"
        /\ UNCHANGED <<src, vin, delay, gpc, sending, pipe, vout, vlog>>
        /\ egctx'
    BY <1>16 DEF VideoFail, VideoReturn
  <2>2. Line'[1] = Line[1] /\ Line'[3] = Line[3] /\ Line'[4] = Line[4]
        /\ Line'[5] = Line[5] /\ Line'[6] = Line[6] /\ Line'[7] = Line[7]
        /\ Line'[8] = Line[8] /\ Line'[9] = Line[9]
    BY <2>1, LineAt, LineAtNext
  <2>3. Line'[2] = {}
    BY <2>1, LineAtNext DEF Rotating
  <2>4. Loses(Line, Line')
    BY <2>2, <2>3, <1>g DEF Loses
  <2> QED BY <2>1, <2>4, <1>f, <1>h
<1>17. ASSUME AudioTake PROVE Moved /\ Sorted'
  <2>1. Line' = Line
    BY <1>17 DEF AudioTake, Line, Rotating
  <2>2. UNCHANGED <<vlog, vout, pipe, delay, vin>>
    BY <1>17 DEF AudioTake
  <2> QED BY <2>1, <2>2, <1>e, <1>h
<1>18. ASSUME FrontCut PROVE Moved /\ Sorted'
  <2>1. Line' = Line
    BY <1>18 DEF FrontCut, Line, Rotating
  <2>2. UNCHANGED <<vlog, vout, pipe, delay, vin>>
    BY <1>18 DEF FrontCut
  <2> QED BY <2>1, <2>2, <1>e, <1>h
<1>19. ASSUME FlushUpTo PROVE Moved /\ Sorted'
  <2>1. Line' = Line
    BY <1>19 DEF FlushUpTo, Line, Rotating
  <2>2. UNCHANGED <<vlog, vout, pipe, delay, vin>>
    BY <1>19 DEF FlushUpTo
  <2> QED BY <2>1, <2>2, <1>e, <1>h
<1>20. ASSUME FlushHeld PROVE Moved /\ Sorted'
  <2>1. Line' = Line
    BY <1>20 DEF FlushHeld, AudioWrites, Line, Rotating
  <2>2. UNCHANGED <<vlog, vout, pipe, delay, vin>>
    BY <1>20 DEF FlushHeld, AudioWrites
  <2> QED BY <2>1, <2>2, <1>e, <1>h
<1>21. ASSUME FlushDone PROVE Moved /\ Sorted'
  <2>1. Line' = Line
    BY <1>21 DEF FlushDone, Line, Rotating
  <2>2. UNCHANGED <<vlog, vout, pipe, delay, vin>>
    BY <1>21 DEF FlushDone
  <2> QED BY <2>1, <2>2, <1>e, <1>h
<1>22. ASSUME HoldBack PROVE Moved /\ Sorted'
  <2>1. Line' = Line
    BY <1>22 DEF HoldBack, Line, Rotating
  <2>2. UNCHANGED <<vlog, vout, pipe, delay, vin>>
    BY <1>22 DEF HoldBack
  <2> QED BY <2>1, <2>2, <1>e, <1>h
<1>23. ASSUME Pass PROVE Moved /\ Sorted'
  <2>1. Line' = Line
    BY <1>23 DEF Pass, Line, Rotating
  <2>2. UNCHANGED <<vlog, vout, pipe, delay, vin>>
    BY <1>23 DEF Pass
  <2> QED BY <2>1, <2>2, <1>e, <1>h
<1>24. ASSUME AudioWrite PROVE Moved /\ Sorted'
  <2>1. Line' = Line
    BY <1>24 DEF AudioWrite, AudioWrites, Line, Rotating
  <2>2. UNCHANGED <<vlog, vout, pipe, delay, vin>>
    BY <1>24 DEF AudioWrite, AudioWrites
  <2> QED BY <2>1, <2>2, <1>e, <1>h
<1>25. ASSUME AudioClosed PROVE Moved /\ Sorted'
  <2>1. Line' = Line
    BY <1>25 DEF AudioClosed, Line, Rotating
  <2>2. UNCHANGED <<vlog, vout, pipe, delay, vin>>
    BY <1>25 DEF AudioClosed
  <2> QED BY <2>1, <2>2, <1>e, <1>h
<1>26. ASSUME AudioEnd PROVE Moved /\ Sorted'
  <2>1. Line' = Line
    BY <1>26 DEF AudioEnd, Line, Rotating
  <2>2. UNCHANGED <<vlog, vout, pipe, delay, vin>>
    BY <1>26 DEF AudioEnd
  <2> QED BY <2>1, <2>2, <1>e, <1>h
<1>27. ASSUME AudioFail PROVE Moved /\ Sorted'
  <2>1. Line' = Line
    BY <1>27 DEF AudioFail, Line, Rotating
  <2>2. UNCHANGED <<vlog, vout, pipe, delay, vin>>
    BY <1>27 DEF AudioFail
  <2> QED BY <2>1, <2>2, <1>e, <1>h
<1>28. ASSUME SinkReturn PROVE Moved /\ Sorted'
  <2>1. Line' = Line
    BY <1>28 DEF SinkReturn, Line, Rotating
  <2>2. UNCHANGED <<vlog, vout, pipe, delay, vin>>
    BY <1>28 DEF SinkReturn
  <2> QED BY <2>1, <2>2, <1>e, <1>h
<1> QED
  BY <1>1, <1>2, <1>3, <1>4, <1>5, <1>6, <1>7, <1>8, <1>9, <1>10, <1>11, <1>12, <1>13, <1>14,
     <1>15, <1>16, <1>17, <1>18, <1>19, <1>20, <1>21, <1>22, <1>23, <1>24, <1>25, <1>26, <1>27, <1>28
  DEF Next, Source, GoProcessor, Encoder, Video, Audio

(***************************************************************************)
(* What the goroutines hold.                                               *)
(***************************************************************************)
LEMMA ShapeStep ==
  ASSUME IInv, Next
  PROVE  Shape'
<1> USE DEF srcVars, gpVars, encVars, gateVars, vidVars, audVars, muxVars, endVars
<1>a. Shape
  BY DEF IInv
<1>b. Len(<<>>) = 0 /\ \A x : Len(<<x>>) = 1
  OBVIOUS
<1>c. /\ ctx \in BOOLEAN /\ egctx \in BOOLEAN /\ mu \in {"free", "video"}
  BY DEF IInv, Typed, EndType, MuxType
<1>1. ASSUME SourceSend PROVE Shape'
  BY <1>1, <1>a, <1>b, <1>c DEF SourceSend, Shape
<1>2. ASSUME SourceCancelled PROVE Shape'
  BY <1>2, <1>a, <1>b, <1>c DEF SourceCancelled, Shape
<1>3. ASSUME GpTake PROVE Shape'
  BY <1>3, <1>a, <1>b, <1>c DEF GpTake, Shape
<1>4. ASSUME GpReport PROVE Shape'
  <2>1. /\ gpc = "report" /\ gpc' = "send" /\ Forward(sending[1])
        /\ UNCHANGED <<mu, vpc, ctx, res, apc, egctx>>
    BY <1>4 DEF GpReport
  <2>2. Lookback = 0 => sending' = <<sending[1]>> /\ delay' = delay
    BY <2>1 DEF Forward
  <2>3. Lookback # 0 => sending' = <<>> \/ sending' = <<Append(delay, sending[1])[1]>>
    BY <2>1 DEF Forward
  <2>4. Len(sending') <= 1
    BY <2>2, <2>3, <1>b
  <2> QED BY <2>1, <2>2, <2>4, <1>a DEF Shape
<1>5. ASSUME GpSend PROVE Shape'
  <2>1. /\ gpc \in {"send", "drain"} /\ UNCHANGED <<mu, vpc, ctx, res, apc, egctx>>
        /\ \/ delay # <<>> /\ gpc = "drain" /\ gpc' = gpc /\ sending' = <<delay[1]>>
           \/ /\ sending' = <<>> /\ delay' = delay
              /\ \/ gpc' = "take"
                 \/ gpc' = "done" /\ delay = <<>>
    BY <1>5 DEF GpSend
  <2>2. Len(sending') <= 1
    <3>1. sending' = <<>> \/ sending' = <<delay[1]>>
      BY <2>1
    <3>2. Len(sending') = 0 \/ Len(sending') = 1
      BY <3>1, <1>b
    <3> QED BY <3>2
  <2>3. /\ gpc' \in {"drain", "take", "done"} /\ (gpc' \in {"take", "done"} => sending' = <<>>)
        /\ (gpc' = "done" \/ Lookback = 0 => delay' = <<>>)
    BY <2>1, <1>a DEF Shape
  <2>4. ctx' => gpc' = "done" \/ vpc' = "done"
    BY <2>1, <1>a DEF Shape
  <2> QED BY <2>1, <2>2, <2>3, <2>4, <1>a DEF Shape
<1>6. ASSUME GpEnd PROVE Shape'
  BY <1>6, <1>a, <1>b, <1>c DEF GpEnd, Shape
<1>7. ASSUME GpStop PROVE Shape'
  BY <1>7, <1>a, <1>b, <1>c DEF GpStop, Shape
<1>8. ASSUME Encode PROVE Shape'
  BY <1>8, <1>a, <1>b, <1>c DEF Encode, Shape
<1>9. ASSUME EncodeCancelled PROVE Shape'
  BY <1>9, <1>a, <1>b, <1>c DEF EncodeCancelled, Shape
<1>10. ASSUME VideoTake PROVE Shape'
  BY <1>10, <1>a, <1>b, <1>c DEF VideoTake, Shape
<1>11. ASSUME Rotate PROVE Shape'
  BY <1>11, <1>a, <1>b, <1>c DEF Rotate, Shape
<1>12. ASSUME OpenSegment PROVE Shape'
  BY <1>12, <1>a, <1>b, <1>c DEF OpenSegment, Shape
<1>13. ASSUME PopFront PROVE Shape'
  BY <1>13, <1>a, <1>b, <1>c DEF PopFront, Shape
<1>14. ASSUME VideoWrite PROVE Shape'
  BY <1>14, <1>a, <1>b, <1>c DEF VideoWrite, Shape
<1>15. ASSUME VideoEnd PROVE Shape'
  BY <1>15, <1>a, <1>b, <1>c DEF VideoEnd, Shape, VideoReturn, VideoDone
<1>16. ASSUME VideoFail PROVE Shape'
  BY <1>16, <1>a, <1>b, <1>c DEF VideoFail, Shape, VideoReturn
<1>17. ASSUME AudioTake PROVE Shape'
  BY <1>17, <1>a, <1>b, <1>c DEF AudioTake, Shape
<1>18. ASSUME FrontCut PROVE Shape'
  BY <1>18, <1>a, <1>b, <1>c DEF FrontCut, Shape
<1>19. ASSUME FlushUpTo PROVE Shape'
  BY <1>19, <1>a, <1>b, <1>c DEF FlushUpTo, Shape
<1>20. ASSUME FlushHeld PROVE Shape'
  BY <1>20, <1>a, <1>b, <1>c DEF FlushHeld, Shape, AudioWrites
<1>21. ASSUME FlushDone PROVE Shape'
  BY <1>21, <1>a, <1>b, <1>c DEF FlushDone, Shape
<1>22. ASSUME HoldBack PROVE Shape'
  BY <1>22, <1>a, <1>b, <1>c DEF HoldBack, Shape
<1>23. ASSUME Pass PROVE Shape'
  BY <1>23, <1>a, <1>b, <1>c DEF Pass, Shape
<1>24. ASSUME AudioWrite PROVE Shape'
  BY <1>24, <1>a, <1>b, <1>c DEF AudioWrite, Shape, AudioWrites
<1>25. ASSUME AudioClosed PROVE Shape'
  BY <1>25, <1>a, <1>b, <1>c DEF AudioClosed, Shape
<1>26. ASSUME AudioEnd PROVE Shape'
  BY <1>26, <1>a, <1>b, <1>c DEF AudioEnd, Shape
<1>27. ASSUME AudioFail PROVE Shape'
  BY <1>27, <1>a, <1>b, <1>c DEF AudioFail, Shape
<1>28. ASSUME SinkReturn PROVE Shape'
  BY <1>28, <1>a, <1>b, <1>c DEF SinkReturn, Shape, VideoDone, AudioDone
<1> QED
  BY <1>1, <1>2, <1>3, <1>4, <1>5, <1>6, <1>7, <1>8, <1>9, <1>10, <1>11, <1>12, <1>13, <1>14,
     <1>15, <1>16, <1>17, <1>18, <1>19, <1>20, <1>21, <1>22, <1>23, <1>24, <1>25, <1>26, <1>27, <1>28
  DEF Next, Source, GoProcessor, Encoder, Video, Audio

(* Once the processor has ended the sink gets what is in the encoder only. *)
LEMMA NearStep ==
  ASSUME IInv, Next, gpc = "done", NEW k \in 1..4
  PROVE  \A t \in Line'[k] : \E m \in k..4 : t \in Line[m]
<1> USE DEF srcVars, gpVars, encVars, gateVars, vidVars, audVars, muxVars, endVars
<1>a. ASSUME Line'[1] \subseteq Line[1] \cup Line[2], Line'[2] \subseteq Line[2] \cup Line[3],
             Line'[3] \subseteq Line[3] \cup Line[4], Line'[4] \subseteq Line[4]
      PROVE \A t \in Line'[k] : \E m \in k..4 : t \in Line[m]
  <2>1. CASE k = 1
    <3>1. 1 \in k..4 /\ 2 \in k..4
      BY <2>1
    <3> QED BY <2>1, <3>1, <1>a
  <2>2. CASE k = 2
    <3>1. 2 \in k..4 /\ 3 \in k..4
      BY <2>2
    <3> QED BY <2>2, <3>1, <1>a
  <2>3. CASE k = 3
    <3>1. 3 \in k..4 /\ 4 \in k..4
      BY <2>3
    <3> QED BY <2>3, <3>1, <1>a
  <2>4. CASE k = 4
    <3>1. 4 \in k..4
      BY <2>4
    <3> QED BY <2>4, <3>1, <1>a
  <2> QED BY <2>1, <2>2, <2>3, <2>4
<1>b. pipe \in Seq(Nat) /\ vout \in Seq(Nat)
  BY DEF IInv, Typed, EncType
<1>c. ASSUME UNCHANGED <<vlog, vpc, vpkt, vout, pipe>>
      PROVE \A t \in Line'[k] : \E m \in k..4 : t \in Line[m]
  <2>1. Line'[1] = Line[1] /\ Line'[2] = Line[2] /\ Line'[3] = Line[3] /\ Line'[4] = Line[4]
    BY <1>c, LineAt, LineAtNext DEF Rotating
  <2> QED BY <2>1, <1>a
<1>1. ASSUME SourceSend PROVE \A t \in Line'[k] : \E m \in k..4 : t \in Line[m]
  BY <1>1, <1>c DEF SourceSend
<1>2. ASSUME SourceCancelled PROVE \A t \in Line'[k] : \E m \in k..4 : t \in Line[m]
  BY <1>2, <1>c DEF SourceCancelled
<1>3. ASSUME GpTake PROVE \A t \in Line'[k] : \E m \in k..4 : t \in Line[m]
  BY <1>3 DEF GpTake
<1>4. ASSUME GpReport PROVE \A t \in Line'[k] : \E m \in k..4 : t \in Line[m]
  BY <1>4 DEF GpReport
<1>5. ASSUME GpSend PROVE \A t \in Line'[k] : \E m \in k..4 : t \in Line[m]
  BY <1>5 DEF GpSend
<1>6. ASSUME GpEnd PROVE \A t \in Line'[k] : \E m \in k..4 : t \in Line[m]
  BY <1>6 DEF GpEnd
<1>7. ASSUME GpStop PROVE \A t \in Line'[k] : \E m \in k..4 : t \in Line[m]
  BY <1>7 DEF GpStop
<1>8. ASSUME Encode PROVE \A t \in Line'[k] : \E m \in k..4 : t \in Line[m]
  <2>1. /\ pipe # <<>> /\ pipe' = Tail(pipe) /\ vout' = Append(vout, pipe[1])
        /\ UNCHANGED <<vpc, vpkt, vlog>>
    BY <1>8 DEF Encode
  <2>2. pipe[1] \in Nat /\ ToSet(pipe) = {pipe[1]} \cup ToSet(Tail(pipe))
    BY <2>1, <1>b, QueueTail
  <2>3. ToSet(vout') = ToSet(vout) \cup {pipe[1]}
    BY <2>1, <2>2, <1>b, QueueAppend
  <2>4. Line'[1] = Line[1] /\ Line'[2] = Line[2]
    BY <2>1, LineAt, LineAtNext DEF Rotating
  <2>5. Line'[3] \subseteq Line[3] \cup Line[4] /\ Line'[4] \subseteq Line[4]
    BY <2>1, <2>2, <2>3, LineAt, LineAtNext
  <2> QED BY <2>4, <2>5, <1>a
<1>9. ASSUME EncodeCancelled PROVE \A t \in Line'[k] : \E m \in k..4 : t \in Line[m]
  <2>1. Line'[1] \subseteq Line[1] \cup Line[2]
    BY <1>9, SetOfNone, LineAt, LineAtNext DEF EncodeCancelled, Rotating
  <2>2. Line'[2] \subseteq Line[2] \cup Line[3]
    BY <1>9, SetOfNone, LineAt, LineAtNext DEF EncodeCancelled, Rotating
  <2>3. Line'[3] \subseteq Line[3] \cup Line[4]
    BY <1>9, SetOfNone, LineAt, LineAtNext DEF EncodeCancelled, Rotating
  <2>4. Line'[4] \subseteq Line[4]
    BY <1>9, SetOfNone, LineAt, LineAtNext DEF EncodeCancelled, Rotating
  <2> QED BY <2>1, <2>2, <2>3, <2>4, <1>a
<1>10. ASSUME VideoTake PROVE \A t \in Line'[k] : \E m \in k..4 : t \in Line[m]
  <2>1. /\ vout # <<>> /\ vout' = Tail(vout) /\ vpkt' = vout[1] /\ UNCHANGED <<pipe, vlog>>
    BY <1>10 DEF VideoTake
  <2>2. ToSet(vout) = {vout[1]} \cup ToSet(Tail(vout))
    BY <2>1, <1>b, QueueTail
  <2>3. Line'[1] = Line[1] /\ Line'[4] = Line[4]
    BY <2>1, LineAt, LineAtNext
  <2>4. Line'[3] \subseteq Line[3] /\ Line'[2] \subseteq Line[3]
    BY <2>1, <2>2, LineAt, LineAtNext
  <2> QED BY <2>3, <2>4, <1>a
<1>11. ASSUME Rotate PROVE \A t \in Line'[k] : \E m \in k..4 : t \in Line[m]
  <2>1. Line'[1] \subseteq Line[1] \cup Line[2]
    BY <1>11, LineAt, LineAtNext DEF Rotate, Rotating
  <2>2. Line'[2] \subseteq Line[2] \cup Line[3]
    BY <1>11, LineAt, LineAtNext DEF Rotate, Rotating
  <2>3. Line'[3] \subseteq Line[3] \cup Line[4]
    BY <1>11, LineAt, LineAtNext DEF Rotate, Rotating
  <2>4. Line'[4] \subseteq Line[4]
    BY <1>11, LineAt, LineAtNext DEF Rotate, Rotating
  <2> QED BY <2>1, <2>2, <2>3, <2>4, <1>a
<1>12. ASSUME OpenSegment PROVE \A t \in Line'[k] : \E m \in k..4 : t \in Line[m]
  <2>1. Line'[1] \subseteq Line[1] \cup Line[2]
    BY <1>12, LineAt, LineAtNext DEF OpenSegment, Rotating
  <2>2. Line'[2] \subseteq Line[2] \cup Line[3]
    BY <1>12, LineAt, LineAtNext DEF OpenSegment, Rotating
  <2>3. Line'[3] \subseteq Line[3] \cup Line[4]
    BY <1>12, LineAt, LineAtNext DEF OpenSegment, Rotating
  <2>4. Line'[4] \subseteq Line[4]
    BY <1>12, LineAt, LineAtNext DEF OpenSegment, Rotating
  <2> QED BY <2>1, <2>2, <2>3, <2>4, <1>a
<1>13. ASSUME PopFront PROVE \A t \in Line'[k] : \E m \in k..4 : t \in Line[m]
  <2>1. Line'[1] \subseteq Line[1] \cup Line[2]
    BY <1>13, LineAt, LineAtNext DEF PopFront, Rotating
  <2>2. Line'[2] \subseteq Line[2] \cup Line[3]
    BY <1>13, LineAt, LineAtNext DEF PopFront, Rotating
  <2>3. Line'[3] \subseteq Line[3] \cup Line[4]
    BY <1>13, LineAt, LineAtNext DEF PopFront, Rotating
  <2>4. Line'[4] \subseteq Line[4]
    BY <1>13, LineAt, LineAtNext DEF PopFront, Rotating
  <2> QED BY <2>1, <2>2, <2>3, <2>4, <1>a
<1>14. ASSUME VideoWrite PROVE \A t \in Line'[k] : \E m \in k..4 : t \in Line[m]
  <2> DEFINE r == [t |-> vpkt, seg |-> seg]
  <2>1. /\ vlog' = Append(vlog, r) /\ vpc = "write" /\ vpc' = "take" /\ UNCHANGED <<vout, pipe, vpkt>>
    BY <1>14 DEF VideoWrite
  <2>2. vlog \in Seq([t : Nat, seg : Nat]) /\ r \in [t : Nat, seg : Nat]
    BY DEF IInv, Typed, VidType, MuxType
  <2>3. \A i \in DOMAIN vlog' : (i \in DOMAIN vlog /\ vlog'[i] = vlog[i]) \/ vlog'[i].t = vpkt
    BY <2>1, <2>2, QueueAppend
  <2>4. Line[2] = {vpkt} /\ Line'[2] = {} /\ Line'[3] = Line[3] /\ Line'[4] = Line[4]
    BY <2>1, LineAt, LineAtNext DEF Rotating
  <2>5. Line'[1] \subseteq Line[1] \cup Line[2]
    BY <2>3, <2>4, LineAt, LineAtNext
  <2> QED BY <2>4, <2>5, <1>a
<1>15. ASSUME VideoEnd PROVE \A t \in Line'[k] : \E m \in k..4 : t \in Line[m]
  <2>1. Line'[1] \subseteq Line[1] \cup Line[2]
    BY <1>15, LineAt, LineAtNext DEF VideoEnd, VideoReturn, Rotating
  <2>2. Line'[2] \subseteq Line[2] \cup Line[3]
    BY <1>15, LineAt, LineAtNext DEF VideoEnd, VideoReturn, Rotating
  <2>3. Line'[3] \subseteq Line[3] \cup Line[4]
    BY <1>15, LineAt, LineAtNext DEF VideoEnd, VideoReturn, Rotating
  <2>4. Line'[4] \subseteq Line[4]
    BY <1>15, LineAt, LineAtNext DEF VideoEnd, VideoReturn, Rotating
  <2> QED BY <2>1, <2>2, <2>3, <2>4, <1>a
<1>16. ASSUME VideoFail PROVE \A t \in Line'[k] : \E m \in k..4 : t \in Line[m]
  <2>1. Line'[1] \subseteq Line[1] \cup Line[2]
    BY <1>16, LineAt, LineAtNext DEF VideoFail, VideoReturn, Rotating
  <2>2. Line'[2] \subseteq Line[2] \cup Line[3]
    BY <1>16, LineAt, LineAtNext DEF VideoFail, VideoReturn, Rotating
  <2>3. Line'[3] \subseteq Line[3] \cup Line[4]
    BY <1>16, LineAt, LineAtNext DEF VideoFail, VideoReturn, Rotating
  <2>4. Line'[4] \subseteq Line[4]
    BY <1>16, LineAt, LineAtNext DEF VideoFail, VideoReturn, Rotating
  <2> QED BY <2>1, <2>2, <2>3, <2>4, <1>a
<1>17. ASSUME AudioTake PROVE \A t \in Line'[k] : \E m \in k..4 : t \in Line[m]
  BY <1>17, <1>c DEF AudioTake
<1>18. ASSUME FrontCut PROVE \A t \in Line'[k] : \E m \in k..4 : t \in Line[m]
  BY <1>18, <1>c DEF FrontCut
<1>19. ASSUME FlushUpTo PROVE \A t \in Line'[k] : \E m \in k..4 : t \in Line[m]
  BY <1>19, <1>c DEF FlushUpTo
<1>20. ASSUME FlushHeld PROVE \A t \in Line'[k] : \E m \in k..4 : t \in Line[m]
  BY <1>20, <1>c DEF FlushHeld, AudioWrites
<1>21. ASSUME FlushDone PROVE \A t \in Line'[k] : \E m \in k..4 : t \in Line[m]
  BY <1>21, <1>c DEF FlushDone
<1>22. ASSUME HoldBack PROVE \A t \in Line'[k] : \E m \in k..4 : t \in Line[m]
  BY <1>22, <1>c DEF HoldBack
<1>23. ASSUME Pass PROVE \A t \in Line'[k] : \E m \in k..4 : t \in Line[m]
  BY <1>23, <1>c DEF Pass
<1>24. ASSUME AudioWrite PROVE \A t \in Line'[k] : \E m \in k..4 : t \in Line[m]
  BY <1>24, <1>c DEF AudioWrite, AudioWrites
<1>25. ASSUME AudioClosed PROVE \A t \in Line'[k] : \E m \in k..4 : t \in Line[m]
  BY <1>25, <1>c DEF AudioClosed
<1>26. ASSUME AudioEnd PROVE \A t \in Line'[k] : \E m \in k..4 : t \in Line[m]
  BY <1>26, <1>c DEF AudioEnd
<1>27. ASSUME AudioFail PROVE \A t \in Line'[k] : \E m \in k..4 : t \in Line[m]
  BY <1>27, <1>c DEF AudioFail
<1>28. ASSUME SinkReturn PROVE \A t \in Line'[k] : \E m \in k..4 : t \in Line[m]
  BY <1>28, <1>c DEF SinkReturn
<1> QED
  BY <1>1, <1>2, <1>3, <1>4, <1>5, <1>6, <1>7, <1>8, <1>9, <1>10, <1>11, <1>12, <1>13, <1>14,
     <1>15, <1>16, <1>17, <1>18, <1>19, <1>20, <1>21, <1>22, <1>23, <1>24, <1>25, <1>26, <1>27, <1>28
  DEF Next, Source, GoProcessor, Encoder, Video, Audio

(***************************************************************************)
(* Cuts: where the frame of one is, and what has come by.                  *)
(***************************************************************************)
LEMMA CutFrameFacts ==
  ASSUME IInv, gpc = "report", NEW t, t = CutFrame(sending[1])
  PROVE  /\ sending # <<>> /\ t \in Nat /\ \E k \in 6..7 : t \in Line[k]
         /\ \A k \in 6..9 : \A u \in Line[k] : t <= u
<1>1. Line \in Stages /\ InOrder(Line) /\ Ascending(delay)
  BY LineType DEF IInv, Ordered, Sorted
<1>2. delay \in Seq(Nat) /\ sending \in Seq(Nat)
  BY DEF IInv, Typed, GpType
<1>3. Len(sending) = 1 /\ (Lookback = 0 => delay = <<>>)
  BY DEF IInv, Shape
<1>4. sending # <<>> /\ DOMAIN sending = 1..1
  BY <1>2, <1>3, NotEmpty, SetOfSeq
<1>5. sending[1] \in Nat /\ ToSet(sending) = {sending[1]}
  BY <1>2, <1>4, QueueTail DEF ToSet
<1>6. Line[6] = ToSet(delay) /\ Line[7] = {sending[1]}
  BY <1>5, LineAt
<1>7. Lookback \in Nat
  BY BoundAssumption
<1>8. CASE delay = <<>>
  <2>1. t = sending[1] /\ Line[6] = {}
    BY <1>6, <1>8, SetOfNone DEF CutFrame
  <2>2. \A k \in 6..9 : k = 6 \/ k = 7 \/ (k \in 1..9 /\ k > 7)
    OBVIOUS
  <2>3. \A k \in 1..9 : k > 7 => \A u \in Line[k] : t < u /\ u \in Nat
    BY <1>1, <1>6, <2>1 DEF InOrder, Stages
  <2>4. t \in Line[7] /\ \A u \in Line[7] : t <= u
    BY <1>5, <1>6, <2>1
  <2>5. \A k \in 6..9 : \A u \in Line[k] : t <= u
    BY <1>5, <2>1, <2>2, <2>3, <2>4
  <2> QED BY <1>4, <1>5, <2>1, <2>4, <2>5
<1>9. CASE delay # <<>>
  <2>1. t = delay[1]
    BY <1>3, <1>7, <1>9 DEF CutFrame
  <2>2. /\ delay[1] \in Nat /\ delay[1] \in Line[6]
        /\ ToSet(delay) = {delay[1]} \cup ToSet(Tail(delay)) /\ ToSet(delay) \subseteq Nat
    BY <1>2, <1>6, <1>9, QueueTail, SetOfSeq
  <2>3. \A u \in ToSet(Tail(delay)) : delay[1] < u
    BY <1>1, <1>2, <1>9, AscendingTail
  <2>4. \A u \in Line[6] : t <= u
    BY <1>6, <2>1, <2>2, <2>3
  <2>5. \A k \in 1..9 : k > 6 => \A u \in Line[k] : t < u /\ u \in Nat
    BY <1>1, <2>1, <2>2 DEF InOrder, Stages
  <2>6. \A k \in 6..9 : k = 6 \/ (k \in 1..9 /\ k > 6)
    OBVIOUS
  <2>7. \A k \in 6..9 : \A u \in Line[k] : t <= u
    BY <2>1, <2>2, <2>4, <2>5, <2>6
  <2> QED BY <1>4, <2>1, <2>2, <2>7
<1> QED BY <1>8, <1>9

LEMMA DoneStays ==
  ASSUME Next, gpc = "done"
  PROVE  gpc' = "done"
<1> USE DEF srcVars, gpVars, encVars, gateVars, vidVars, audVars, muxVars, endVars
<1>1. ASSUME SourceSend PROVE gpc' = "done"
  BY <1>1, gpc = "done" DEF SourceSend
<1>2. ASSUME SourceCancelled PROVE gpc' = "done"
  BY <1>2, gpc = "done" DEF SourceCancelled
<1>3. ASSUME GpTake PROVE gpc' = "done"
  BY <1>3, gpc = "done" DEF GpTake
<1>4. ASSUME GpReport PROVE gpc' = "done"
  BY <1>4, gpc = "done" DEF GpReport
<1>5. ASSUME GpSend PROVE gpc' = "done"
  BY <1>5, gpc = "done" DEF GpSend
<1>6. ASSUME GpEnd PROVE gpc' = "done"
  BY <1>6, gpc = "done" DEF GpEnd
<1>7. ASSUME GpStop PROVE gpc' = "done"
  BY <1>7, gpc = "done" DEF GpStop
<1>8. ASSUME Encode PROVE gpc' = "done"
  BY <1>8, gpc = "done" DEF Encode
<1>9. ASSUME EncodeCancelled PROVE gpc' = "done"
  BY <1>9, gpc = "done" DEF EncodeCancelled
<1>10. ASSUME VideoTake PROVE gpc' = "done"
  BY <1>10, gpc = "done" DEF VideoTake
<1>11. ASSUME Rotate PROVE gpc' = "done"
  BY <1>11, gpc = "done" DEF Rotate
<1>12. ASSUME OpenSegment PROVE gpc' = "done"
  BY <1>12, gpc = "done" DEF OpenSegment
<1>13. ASSUME PopFront PROVE gpc' = "done"
  BY <1>13, gpc = "done" DEF PopFront
<1>14. ASSUME VideoWrite PROVE gpc' = "done"
  BY <1>14, gpc = "done" DEF VideoWrite
<1>15. ASSUME VideoEnd PROVE gpc' = "done"
  BY <1>15, gpc = "done" DEF VideoEnd, VideoReturn
<1>16. ASSUME VideoFail PROVE gpc' = "done"
  BY <1>16, gpc = "done" DEF VideoFail, VideoReturn
<1>17. ASSUME AudioTake PROVE gpc' = "done"
  BY <1>17, gpc = "done" DEF AudioTake
<1>18. ASSUME FrontCut PROVE gpc' = "done"
  BY <1>18, gpc = "done" DEF FrontCut
<1>19. ASSUME FlushUpTo PROVE gpc' = "done"
  BY <1>19, gpc = "done" DEF FlushUpTo
<1>20. ASSUME FlushHeld PROVE gpc' = "done"
  BY <1>20, gpc = "done" DEF FlushHeld, AudioWrites
<1>21. ASSUME FlushDone PROVE gpc' = "done"
  BY <1>21, gpc = "done" DEF FlushDone
<1>22. ASSUME HoldBack PROVE gpc' = "done"
  BY <1>22, gpc = "done" DEF HoldBack
<1>23. ASSUME Pass PROVE gpc' = "done"
  BY <1>23, gpc = "done" DEF Pass
<1>24. ASSUME AudioWrite PROVE gpc' = "done"
  BY <1>24, gpc = "done" DEF AudioWrite, AudioWrites
<1>25. ASSUME AudioClosed PROVE gpc' = "done"
  BY <1>25, gpc = "done" DEF AudioClosed
<1>26. ASSUME AudioEnd PROVE gpc' = "done"
  BY <1>26, gpc = "done" DEF AudioEnd
<1>27. ASSUME AudioFail PROVE gpc' = "done"
  BY <1>27, gpc = "done" DEF AudioFail
<1>28. ASSUME SinkReturn PROVE gpc' = "done"
  BY <1>28, gpc = "done" DEF SinkReturn
<1> QED
  BY <1>1, <1>2, <1>3, <1>4, <1>5, <1>6, <1>7, <1>8, <1>9, <1>10, <1>11, <1>12, <1>13, <1>14,
     <1>15, <1>16, <1>17, <1>18, <1>19, <1>20, <1>21, <1>22, <1>23, <1>24, <1>25, <1>26, <1>27, <1>28
  DEF Next, Source, GoProcessor, Encoder, Video, Audio

Steady == UNCHANGED <<cuts, forced, seg, vpc, vpkt, vlog>>
NewCut == /\ gpc = "report" /\ UNCHANGED <<seg, vpc, vpkt, vlog>> /\ Signal(CutFrame(sending[1]))
          /\ forced' = forced \cup {CutFrame(sending[1])}
Ending == UNCHANGED <<forced, vlog>> /\ vpc' = "done"
CutStep == Steady \/ NewCut \/ VideoTake \/ Rotate \/ OpenSegment \/ PopFront \/ VideoWrite \/ Ending
LEMMA CutSteps ==
  ASSUME Next
  PROVE  CutStep
<1> USE DEF srcVars, gpVars, encVars, gateVars, vidVars, audVars, muxVars, endVars
<1>1. ASSUME SourceSend PROVE CutStep
  BY <1>1 DEF SourceSend, Steady, CutStep
<1>2. ASSUME SourceCancelled PROVE CutStep
  BY <1>2 DEF SourceCancelled, Steady, CutStep
<1>3. ASSUME GpTake PROVE CutStep
  BY <1>3 DEF GpTake, Steady, CutStep
<1>4. ASSUME GpReport PROVE CutStep
  BY <1>4 DEF GpReport, Steady, NewCut, CutStep
<1>5. ASSUME GpSend PROVE CutStep
  BY <1>5 DEF GpSend, Steady, CutStep
<1>6. ASSUME GpEnd PROVE CutStep
  BY <1>6 DEF GpEnd, Steady, CutStep
<1>7. ASSUME GpStop PROVE CutStep
  BY <1>7 DEF GpStop, Steady, CutStep
<1>8. ASSUME Encode PROVE CutStep
  BY <1>8 DEF Encode, Steady, CutStep
<1>9. ASSUME EncodeCancelled PROVE CutStep
  BY <1>9 DEF EncodeCancelled, Steady, CutStep
<1>10. ASSUME VideoTake PROVE CutStep
  BY <1>10 DEF CutStep
<1>11. ASSUME Rotate PROVE CutStep
  BY <1>11 DEF CutStep
<1>12. ASSUME OpenSegment PROVE CutStep
  BY <1>12 DEF CutStep
<1>13. ASSUME PopFront PROVE CutStep
  BY <1>13 DEF CutStep
<1>14. ASSUME VideoWrite PROVE CutStep
  BY <1>14 DEF CutStep
<1>15. ASSUME VideoEnd PROVE CutStep
  BY <1>15 DEF VideoEnd, VideoReturn, Ending, CutStep
<1>16. ASSUME VideoFail PROVE CutStep
  BY <1>16 DEF VideoFail, VideoReturn, Ending, CutStep
<1>17. ASSUME AudioTake PROVE CutStep
  BY <1>17 DEF AudioTake, Steady, CutStep
<1>18. ASSUME FrontCut PROVE CutStep
  BY <1>18 DEF FrontCut, Steady, CutStep
<1>19. ASSUME FlushUpTo PROVE CutStep
  BY <1>19 DEF FlushUpTo, Steady, CutStep
<1>20. ASSUME FlushHeld PROVE CutStep
  BY <1>20 DEF FlushHeld, Steady, CutStep, AudioWrites
<1>21. ASSUME FlushDone PROVE CutStep
  BY <1>21 DEF FlushDone, Steady, CutStep
<1>22. ASSUME HoldBack PROVE CutStep
  BY <1>22 DEF HoldBack, Steady, CutStep
<1>23. ASSUME Pass PROVE CutStep
  BY <1>23 DEF Pass, Steady, CutStep
<1>24. ASSUME AudioWrite PROVE CutStep
  BY <1>24 DEF AudioWrite, Steady, CutStep, AudioWrites
<1>25. ASSUME AudioClosed PROVE CutStep
  BY <1>25 DEF AudioClosed, Steady, CutStep
<1>26. ASSUME AudioEnd PROVE CutStep
  BY <1>26 DEF AudioEnd, Steady, CutStep
<1>27. ASSUME AudioFail PROVE CutStep
  BY <1>27 DEF AudioFail, Steady, CutStep
<1>28. ASSUME SinkReturn PROVE CutStep
  BY <1>28 DEF SinkReturn, Steady, CutStep
<1> QED
  BY <1>1, <1>2, <1>3, <1>4, <1>5, <1>6, <1>7, <1>8, <1>9, <1>10, <1>11, <1>12, <1>13, <1>14,
     <1>15, <1>16, <1>17, <1>18, <1>19, <1>20, <1>21, <1>22, <1>23, <1>24, <1>25, <1>26, <1>27, <1>28
  DEF Next, Source, GoProcessor, Encoder, Video, Audio

LEMMA ForcedStep ==
  ASSUME IInv, Next
  PROVE  /\ IsFiniteSet(forced')
         /\ \A c \in forced' : \A k \in 6..9 : \A t \in Line'[k] : c <= t
<1> USE DEF srcVars, gpVars, encVars, gateVars, vidVars, audVars, muxVars, endVars
<1>1. \A k \in 6..9 : \A t \in Line'[k] : \E m \in 6..9 : t \in Line[m]
  <2> SUFFICES ASSUME NEW k \in 6..9, NEW t \in Line'[k] PROVE \E m \in 6..9 : t \in Line[m]
    OBVIOUS
  <2>1. k \in 1..9
    OBVIOUS
  <2>2. PICK m \in k..9 : t \in Line[m]
    BY <2>1, LineStep DEF Moved, NoneBack
  <2> QED BY <2>2
<1>2. IsFiniteSet(forced) /\ \A c \in forced : \A k \in 6..9 : \A t \in Line[k] : c <= t
  BY DEF IInv, Cuts
<1>3. CASE forced' = forced
  BY <1>1, <1>2, <1>3
<1>4. CASE NewCut
  <2> DEFINE t == CutFrame(sending[1])
  <2>1. \A k \in 6..9 : \A u \in Line[k] : t <= u
    BY <1>4, CutFrameFacts DEF NewCut
  <2>2. forced' = forced \cup {t}
    BY <1>4 DEF NewCut
  <2>3. IsFiniteSet(forced')
    BY <1>2, <2>2, FS_AddElement
  <2> HIDE DEF t
  <2> QED BY <1>1, <1>2, <2>1, <2>2, <2>3
<1>5. forced' = forced \/ NewCut
  BY CutSteps DEF CutStep, Ending, Steady, VideoTake, Rotate, OpenSegment, PopFront, VideoWrite
<1> QED BY <1>3, <1>4, <1>5

(* A cut stays pending until its frame is taken by the sink.               *)
LEMMA PendingStays ==
  ASSUME IInv, Next, NEW c, Pending(c), Rotating /\ c = vpkt => Rotating' /\ c = vpkt',
         \A k \in 3..7 : c \in Line[k] => Pending(c)'
  PROVE  Pending(c)'
<1>1. CASE \E k \in 3..7 : c \in Line[k]
  BY <1>1
<1>2. CASE Rotating /\ c = vpkt
  BY <1>2 DEF Pending
<1>3. CASE gpc = "done" /\ \A k \in 1..4 : \A t \in Line[k] : t < c
  <2>1. gpc' = "done"
    BY <1>3, DoneStays
  <2>2. ASSUME NEW k \in 1..4, NEW t \in Line'[k] PROVE t < c
    <3>1. PICK m \in k..4 : t \in Line[m]
      BY <1>3, NearStep
    <3> QED BY <1>3, <3>1
  <2> QED BY <2>1, <2>2 DEF Pending
<1> QED BY <1>1, <1>2, <1>3 DEF Pending

LEMMA PendingStep ==
  ASSUME IInv, Next, vpc' # "done", UNCHANGED <<vlog, vpc, vpkt>>, NEW c, Pending(c)
  PROVE  Pending(c)'
<1>1. Rotating' = Rotating /\ Line'[1] = Line[1] /\ Line'[2] = Line[2]
  BY LineAt, LineAtNext DEF Rotating
<1>2. \A j, k \in 1..9 : j < k => \A t \in Line[j], u \in Line[k] : t < u
  BY DEF IInv, Ordered, InOrder
<1>3. \A k \in 1..9 : Line[k] \subseteq Nat
  BY LineType DEF IInv, Stages
<1>4. ASSUME NEW k \in 3..7, c \in Line[k] PROVE Pending(c)'
  <2>1. k \in 1..8 /\ k \in 1..9 /\ c \in Nat
    BY <1>3, <1>4
  <2>2. CASE Kept(Line, Line', 8)
    <3>1. PICK m \in 1..k : c \in Line'[m]
      BY <1>4, <2>1, <2>2 DEF Kept
    <3>2. ASSUME m \in {1, 2} PROVE FALSE
      <4>1. c \in Line[m] /\ m \in 1..9 /\ m < k
        BY <1>1, <3>1, <3>2
      <4>2. c < c
        BY <1>2, <1>4, <2>1, <4>1
      <4> QED BY <2>1, <4>2
    <3>3. m \in 3..7
      BY <3>2
    <3> QED BY <3>1, <3>3 DEF Pending
  <2>3. CASE Dropped
    <3>1. /\ gpc' = "done" /\ \A m \in 1..9 : Line'[m] \subseteq Line[m]
          /\ Line'[3] = Line[3]
          /\ Line'[4] = Line[4] \/ Line'[4] = {}
      BY <2>3 DEF Dropped, Loses
    <3>2. ASSUME \A m \in 3..7 : c \notin Line'[m], NEW m \in 1..4, NEW t \in Line'[m] PROVE t < c
      <4>1. t \in Line[m] /\ m \in 1..9
        BY <3>1
      <4>2. CASE m < k
        BY <1>2, <1>4, <2>1, <4>1, <4>2
      <4>3. CASE m >= k
        <5>1. (m = 3 /\ k = 3) \/ (m = 4 /\ (k = 3 \/ k = 4))
          BY <4>3
        <5>2. k # 3
          <6>1. 3 \in 3..7
            OBVIOUS
          <6> QED BY <1>4, <3>1, <3>2, <6>1
        <5>3. Line'[4] # {}
          BY <5>1, <5>2
        <5>4. Line'[4] = Line[4]
          BY <2>3, <5>3 DEF Dropped
        <5> QED BY <1>4, <3>2, <5>1, <5>2, <5>4
      <4> QED BY <4>2, <4>3
    <3> QED BY <3>1, <3>2 DEF Pending
  <2> QED BY <2>2, <2>3, LineStep DEF Moved
<1> QED BY <1>1, <1>4, PendingStays

(* What is behind stays behind.                                            *)
LEMMA BehindStep ==
  ASSUME IInv, Next, NEW c, \A k \in 3..9 : \A t \in Line[k] : c < t
  PROVE  \A k \in 3..9 : \A t \in Line'[k] : c < t
<1> SUFFICES ASSUME NEW k \in 3..9, NEW t \in Line'[k] PROVE c < t
  OBVIOUS
<1>1. k \in 1..9
  OBVIOUS
<1>2. PICK m \in k..9 : t \in Line[m]
  BY <1>1, LineStep DEF Moved, NoneBack
<1> QED BY <1>2

(***************************************************************************)
(* The gate agrees with the segment that is open.                          *)
(***************************************************************************)
Gate ==
    /\ Ascending(cuts) /\ ToSet(cuts) \subseteq forced
    /\ Rotating => cuts # <<>> /\ cuts[1] = vpkt
    /\ \A c \in ToSet(cuts) : Pending(c)
    /\ \A c \in Popped : Past(c)
    /\ seg = Cardinality(Popped) + IF vpc = "pop" THEN 1 ELSE 0

LEMMA GateSteady == ASSUME IInv, Next, Gate, vpc' # "done", Steady PROVE Gate'
<1>1. /\ UNCHANGED <<vlog, vpc, vpkt>> /\ cuts' = cuts /\ forced' = forced /\ seg' = seg
  BY DEF Steady
<1>2. Popped' = Popped /\ Rotating' = Rotating
  BY <1>1 DEF Popped, Rotating
<1>3. \A c \in ToSet(cuts) : Pending(c)'
  BY <1>1, PendingStep DEF Gate
<1>4. ASSUME NEW c \in Popped PROVE Past(c)'
  <2>1. Past(c)
    BY DEF Gate
  <2>2. \A k \in 3..9 : \A t \in Line'[k] : c < t
    BY <2>1, BehindStep DEF Past
  <2> QED BY <1>1, <1>2, <2>1, <2>2 DEF Past
<1> QED BY <1>1, <1>2, <1>3, <1>4 DEF Gate

LEMMA GateNewCut == ASSUME IInv, Next, Gate, vpc' # "done", NewCut PROVE Gate'
<1> DEFINE t == CutFrame(sending[1])
<1>1. /\ gpc = "report" /\ UNCHANGED <<seg, vpc, vpkt, vlog>> /\ forced' = forced \cup {t}
      /\ cuts' = IF cuts = <<>> \/ cuts[Len(cuts)] # t THEN Append(cuts, t) ELSE cuts
  BY DEF NewCut, Signal
<1>2. t \in Nat /\ \E k \in 6..7 : t \in Line[k]
  BY <1>1, CutFrameFacts
<1>3. /\ cuts \in Seq(Nat) /\ forced \subseteq Nat
  BY DEF IInv, Typed, GateType, GpType
<1>4. /\ Ascending(cuts) /\ ToSet(cuts) \subseteq forced
      /\ (Rotating => cuts # <<>> /\ cuts[1] = vpkt)
      /\ (\A c \in ToSet(cuts) : Pending(c)) /\ (\A c \in Popped : Past(c))
  BY DEF Gate
<1>5. \A c \in forced : c <= t
  <2>1. \A c \in forced : \A k \in 6..9 : \A u \in Line[k] : c <= u
    BY DEF IInv, Cuts
  <2>2. \A k \in 6..7 : k \in 6..9
    OBVIOUS
  <2> HIDE DEF t
  <2> QED BY <1>2, <2>1, <2>2
<1>6. Pending(t)
  <2>1. \A k \in 6..7 : k \in 3..7
    OBVIOUS
  <2> HIDE DEF t
  <2> QED BY <1>2, <2>1 DEF Pending
<1>7. Rotating' = Rotating
  BY <1>1 DEF Rotating
<1>8. t \notin Popped
  <2> SUFFICES ASSUME t \in Popped PROVE FALSE
    OBVIOUS
  <2>1. \A k \in 3..9 : \A u \in Line[k] : t < u
    BY <1>4 DEF Past
  <2>2. \A k \in 6..7 : k \in 3..9
    OBVIOUS
  <2> HIDE DEF t
  <2>3. t < t
    BY <1>2, <2>1, <2>2
  <2> QED BY <1>2, <2>3
<1> HIDE DEF t
<1>9. ASSUME cuts = <<>> \/ cuts[Len(cuts)] # t
      PROVE /\ Ascending(cuts') /\ ToSet(cuts') = ToSet(cuts) \cup {t}
            /\ (Rotating => cuts' # <<>> /\ cuts'[1] = vpkt)
  <2>1. cuts' = Append(cuts, t)
    BY <1>1, <1>9
  <2>2. /\ Len(cuts) \in Nat /\ DOMAIN cuts = 1..Len(cuts) /\ ToSet(cuts') = ToSet(cuts) \cup {t}
        /\ \A i \in 1..Len(cuts) : cuts'[i] = cuts[i]
    BY <1>2, <1>3, <2>1, QueueAppend
  <2>3. ASSUME NEW u \in ToSet(cuts) PROVE u < t
    <3>1. u \in Nat /\ u <= t
      BY <1>3, <1>4, <1>5
    <3>2. PICK i \in 1..Len(cuts) : u = cuts[i]
      BY <2>2 DEF ToSet
    <3>3. Len(cuts) \in 1..Len(cuts) /\ i <= Len(cuts)
      BY <2>2, <3>2
    <3>4. cuts # <<>>
      BY <1>3, <2>2, <3>3, NotEmpty
    <3>5. cuts[Len(cuts)] \in ToSet(cuts)
      BY <2>2, <3>3 DEF ToSet
    <3>6. cuts[Len(cuts)] \in Nat /\ cuts[Len(cuts)] <= t /\ cuts[Len(cuts)] # t
      BY <1>3, <1>4, <1>5, <1>9, <3>4, <3>5
    <3>7. CASE i = Len(cuts)
      BY <1>2, <3>2, <3>6, <3>7
    <3>8. CASE i < Len(cuts)
      <4>1. u < cuts[Len(cuts)]
        BY <1>4, <2>2, <3>2, <3>3, <3>8 DEF Ascending
      <4> QED BY <1>2, <3>1, <3>6, <4>1
    <3>9. i < Len(cuts) \/ i = Len(cuts)
      <4>1. Len(cuts) \in Nat
        BY <2>2
      <4>2. \A m \in Nat : \A l \in 1..m : l < m \/ l = m
        OBVIOUS
      <4> QED BY <4>1, <4>2
    <3> QED BY <3>7, <3>8, <3>9
  <2>4. Ascending(cuts')
    BY <1>2, <1>3, <1>4, <2>1, <2>3, AscendingAppend
  <2>5. Rotating => cuts' # <<>> /\ cuts'[1] = vpkt
    <3> SUFFICES ASSUME Rotating PROVE cuts' # <<>> /\ cuts'[1] = vpkt
      OBVIOUS
    <3>1. 1 \in 1..Len(cuts)
      BY <1>3, <1>4, <2>2, NotEmpty
    <3>2. cuts' # <<>>
      BY <2>2, SetOfNone
    <3> QED BY <1>4, <2>2, <3>1, <3>2
  <2> QED BY <2>2, <2>4, <2>5
<1>10. ASSUME ~(cuts = <<>> \/ cuts[Len(cuts)] # t)
       PROVE /\ Ascending(cuts') /\ ToSet(cuts') = ToSet(cuts) \cup {t}
             /\ (Rotating => cuts' # <<>> /\ cuts'[1] = vpkt)
  <2>1. cuts' = cuts /\ cuts # <<>> /\ cuts[Len(cuts)] = t
    BY <1>1, <1>10
  <2>2. Len(cuts) \in 1..Len(cuts) /\ DOMAIN cuts = 1..Len(cuts)
    BY <1>3, <2>1, NotEmpty, SetOfSeq
  <2>3. t \in ToSet(cuts)
    BY <2>1, <2>2 DEF ToSet
  <2> QED BY <1>4, <2>1, <2>3
<1>11. /\ Ascending(cuts') /\ ToSet(cuts') = ToSet(cuts) \cup {t}
       /\ (Rotating => cuts' # <<>> /\ cuts'[1] = vpkt)
  BY <1>9, <1>10
<1>12. Popped' = Popped
  BY <1>1, <1>8, <1>11 DEF Popped
<1>13. \A c \in ToSet(cuts') : Pending(c)'
  BY <1>1, <1>4, <1>6, <1>11, PendingStep
<1>14. ASSUME NEW c \in Popped PROVE Past(c)'
  <2>1. Past(c)
    BY <1>4
  <2>2. \A k \in 3..9 : \A u \in Line'[k] : c < u
    BY <2>1, BehindStep DEF Past
  <2> QED BY <1>1, <1>7, <2>1, <2>2 DEF Past
<1>15. seg' = Cardinality(Popped') + IF vpc' = "pop" THEN 1 ELSE 0
  BY <1>1, <1>12 DEF Gate
<1>16. ToSet(cuts') \subseteq forced'
  BY <1>1, <1>4, <1>11
<1> QED BY <1>1, <1>7, <1>11, <1>12, <1>13, <1>14, <1>15, <1>16 DEF Gate

LEMMA GateTake == ASSUME IInv, Next, Gate, VideoTake PROVE Gate'
<1> DEFINE x == vout[1]
<1>1. /\ vpc = "take" /\ vout # <<>> /\ vpkt' = x /\ vout' = Tail(vout)
      /\ vpc' = IF KeyFrame(x) /\ cuts # <<>> /\ x >= cuts[1] THEN "rotate" ELSE "write"
      /\ cuts' = cuts /\ forced' = forced /\ seg' = seg
      /\ UNCHANGED <<gpc, delay, sending, pipe, vlog>>
  BY DEF VideoTake, gateVars, gpVars, muxVars
<1>2. /\ vout \in Seq(Nat) /\ cuts \in Seq(Nat) /\ forced \subseteq Nat
  BY DEF IInv, Typed, EncType, GateType, GpType
<1>3. /\ Ascending(cuts) /\ ToSet(cuts) \subseteq forced
      /\ (\A c \in ToSet(cuts) : Pending(c)) /\ (\A c \in Popped : Past(c))
  BY DEF Gate
<1>4. x \in Nat /\ x \in Line[3] /\ ToSet(vout) = {x} \cup ToSet(Tail(vout))
  BY <1>1, <1>2, QueueTail, LineAt
<1>5. \A u \in Line[3] : x <= u /\ u \in Nat
  <2>1. ToSet(vout) \subseteq Nat /\ \A u \in ToSet(Tail(vout)) : x < u
    BY <1>1, <1>2, AscendingTail, SetOfSeq DEF IInv, Ordered, Sorted
  <2> QED BY <1>4, <2>1, LineAt
<1>6. \A k \in 3..9 : k # 3 => \A u \in Line[k] : x < u
  BY <1>4 DEF IInv, Ordered, InOrder
<1>7. ~Rotating /\ (Rotating' <=> vpc' = "rotate") /\ vpc' \in {"rotate", "write"} /\ Popped' = Popped
  BY <1>1 DEF Rotating, Popped
<1>8. Line'[3] \cup {x} = Line[3] /\ \A k \in 4..7 : Line'[k] = Line[k]
  <2>1. Line'[3] \cup {x} = Line[3]
    BY <1>1, <1>4, LineAt, LineAtNext
  <2>2. Line'[4] = Line[4] /\ Line'[5] = Line[5] /\ Line'[6] = Line[6] /\ Line'[7] = Line[7]
    BY <1>1, LineAt, LineAtNext
  <2>3. \A k \in 4..7 : k \in {4, 5, 6, 7}
    OBVIOUS
  <2> QED BY <2>1, <2>2, <2>3
<1> HIDE DEF x
<1>9. \A c \in ToSet(cuts) : cuts # <<>> /\ cuts[1] \in ToSet(cuts) /\ cuts[1] \in Nat /\ c \in Nat /\ cuts[1] <= c
  <2> SUFFICES ASSUME NEW c \in ToSet(cuts)
               PROVE cuts # <<>> /\ cuts[1] \in ToSet(cuts) /\ cuts[1] \in Nat /\ c \in Nat /\ cuts[1] <= c
    OBVIOUS
  <2>1. cuts # <<>>
    BY SetOfNone
  <2>2. cuts[1] \in ToSet(cuts) /\ cuts[1] \in Nat /\ ToSet(cuts) = {cuts[1]} \cup ToSet(Tail(cuts))
    BY <1>2, <2>1, QueueTail
  <2>3. \A u \in ToSet(Tail(cuts)) : cuts[1] < u
    BY <1>2, <1>3, <2>1, AscendingTail
  <2>4. c \in Nat
    BY <1>2, <1>3
  <2> QED BY <2>1, <2>2, <2>3, <2>4
<1>10. ASSUME NEW c \in ToSet(cuts), c = x PROVE vpc' = "rotate"
  <2>1. KeyFrame(x)
    BY <1>3, <1>10 DEF KeyFrame
  <2>2. cuts # <<>> /\ x >= cuts[1]
    BY <1>9, <1>10
  <2> QED BY <1>1, <2>1, <2>2
<1>11. ASSUME NEW c \in ToSet(cuts) PROVE Pending(c)'
  <2>1. Pending(c)
    BY <1>3
  <2>2. ASSUME NEW k \in 3..7, c \in Line[k] PROVE Pending(c)'
    <3>1. CASE k # 3
      <4>1. k \in 4..7
        BY <3>1
      <4>2. c \in Line'[k]
        BY <1>8, <2>2, <4>1
      <4> QED BY <4>2 DEF Pending
    <3>2. CASE k = 3 /\ c # x
      <4>1. c \in Line'[3] /\ 3 \in 3..7
        BY <1>8, <2>2, <3>2
      <4> QED BY <4>1 DEF Pending
    <3>3. CASE c = x
      <4>1. Rotating' /\ vpkt' = c
        BY <1>1, <1>7, <1>10, <3>3
      <4> QED BY <4>1 DEF Pending
    <3> QED BY <3>1, <3>2, <3>3
  <2> QED BY <1>7, <2>1, <2>2, PendingStays
<1>12. ASSUME Rotating' PROVE cuts' # <<>> /\ cuts'[1] = vpkt'
  <2>1. cuts # <<>> /\ x >= cuts[1]
    BY <1>1, <1>7, <1>12
  <2>2. cuts[1] \in ToSet(cuts) /\ cuts[1] \in Nat
    BY <1>2, <2>1, QueueTail
  <2>3. Pending(cuts[1])
    BY <1>3, <2>2
  <2>4. ~(gpc = "done" /\ \A k \in 1..4 : \A t \in Line[k] : t < cuts[1])
    <3>1. 3 \in 1..4 /\ ~(x < cuts[1])
      BY <1>4, <2>1, <2>2
    <3> QED BY <1>4, <3>1
  <2>5. PICK k \in 3..7 : cuts[1] \in Line[k]
    BY <1>7, <2>3, <2>4 DEF Pending
  <2>6. x <= cuts[1]
    <3>1. CASE k = 3
      BY <1>5, <2>5, <3>1
    <3>2. CASE k # 3
      <4>1. k \in 3..9
        OBVIOUS
      <4>2. x < cuts[1]
        BY <1>6, <2>5, <3>2, <4>1
      <4> QED BY <1>4, <2>2, <4>2
    <3> QED BY <3>1, <3>2
  <2>7. cuts[1] = x
    BY <1>4, <2>1, <2>2, <2>6
  <2> QED BY <1>1, <2>1, <2>7
<1>13. ASSUME NEW c \in Popped PROVE Past(c)'
  <2>1. Past(c)
    BY <1>3
  <2>2. \A k \in 3..9 : \A u \in Line'[k] : c < u
    BY <2>1, BehindStep DEF Past
  <2>3. c < x /\ c \in Nat
    <3>1. 3 \in 3..9
      OBVIOUS
    <3> QED BY <1>2, <1>4, <2>1, <3>1 DEF Past, Popped
  <2>4. c < vpkt' /\ c <= vpkt'
    BY <1>1, <1>4, <2>3
  <2> QED BY <2>2, <2>4 DEF Past
<1>14. seg' = Cardinality(Popped') + IF vpc' = "pop" THEN 1 ELSE 0
  <2>1. seg = Cardinality(Popped) + IF vpc = "pop" THEN 1 ELSE 0
    BY DEF Gate
  <2>2. seg' = seg /\ Popped' = Popped
    BY <1>1, <1>7
  <2>3. (IF vpc = "pop" THEN 1 ELSE 0) = 0 /\ (IF vpc' = "pop" THEN 1 ELSE 0) = 0
    BY <1>1, <1>7
  <2> QED BY <2>1, <2>2, <2>3
<1> QED BY <1>1, <1>3, <1>7, <1>11, <1>12, <1>13, <1>14 DEF Gate

(* Nothing moves in the line in front of the sink.                         *)
LEMMA GateStill ==
  ASSUME IInv, Next, Gate, UNCHANGED <<vout, pipe, gpc, sending, delay>>, NEW c, Pending(c),
         Rotating /\ c = vpkt => Rotating' /\ c = vpkt'
  PROVE  Pending(c)'
<1>1. /\ Line'[3] = Line[3] /\ Line'[4] = Line[4] /\ Line'[5] = Line[5] /\ Line'[6] = Line[6]
      /\ Line'[7] = Line[7]
  BY LineAt, LineAtNext
<1>2. \A k \in 3..7 : k \in {3, 4, 5, 6, 7}
  OBVIOUS
<1>3. \A k \in 3..7 : c \in Line[k] => c \in Line'[k]
  BY <1>1, <1>2
<1> QED BY <1>3, PendingStays DEF Pending

LEMMA GateRotate == ASSUME IInv, Next, Gate, Rotate \/ OpenSegment PROVE Gate'
<1>1. /\ cuts' = cuts /\ forced' = forced /\ vpkt' = vpkt
      /\ UNCHANGED <<vout, pipe, gpc, sending, delay>>
      /\ \/ vpc = "rotate" /\ vpc' = "open" /\ seg' = seg
         \/ vpc = "open" /\ vpc' = "pop" /\ seg' = seg + 1
  BY DEF Rotate, OpenSegment, gateVars, gpVars, encVars
<1>2. Rotating /\ Rotating' /\ Popped' = Popped
  BY <1>1 DEF Rotating, Popped
<1>3. /\ Ascending(cuts) /\ ToSet(cuts) \subseteq forced /\ cuts # <<>> /\ cuts[1] = vpkt
      /\ (\A c \in ToSet(cuts) : Pending(c)) /\ (\A c \in Popped : Past(c))
  BY <1>2 DEF Gate
<1>4. \A c \in ToSet(cuts) : Pending(c)'
  BY <1>1, <1>2, <1>3, GateStill
<1>5. ASSUME NEW c \in Popped PROVE Past(c)'
  <2>1. Past(c)
    BY <1>3
  <2>2. \A k \in 3..9 : \A u \in Line'[k] : c < u
    BY <2>1, BehindStep DEF Past
  <2>3. c < vpkt' /\ vpc' # "write"
    BY <1>1, <1>2, <2>1 DEF Past
  <2> QED BY <2>2, <2>3 DEF Past
<1>6. seg' = Cardinality(Popped') + IF vpc' = "pop" THEN 1 ELSE 0
  <2>1. seg = Cardinality(Popped) + IF vpc = "pop" THEN 1 ELSE 0
    BY DEF Gate
  <2>2. seg \in Nat /\ Cardinality(Popped) \in Nat
    <3>1. IsFiniteSet(Popped)
      BY FS_Subset DEF IInv, Cuts, Popped
    <3> QED BY <3>1, FS_CardinalityType DEF IInv, Typed, MuxType
  <2>3. seg = Cardinality(Popped)
    BY <1>1, <2>1, <2>2
  <2>4. CASE vpc' = "open"
    BY <1>1, <1>2, <2>2, <2>3, <2>4
  <2>5. CASE vpc' = "pop"
    <3>1. seg' = seg + 1 /\ (IF vpc' = "pop" THEN 1 ELSE 0) = 1
      BY <1>1, <2>5
    <3> QED BY <1>2, <2>3, <3>1
  <2> QED BY <1>1, <2>4, <2>5
<1> QED BY <1>1, <1>2, <1>3, <1>4, <1>5, <1>6 DEF Gate

LEMMA GatePop == ASSUME IInv, Next, Gate, PopFront PROVE Gate'
<1>1. /\ vpc = "pop" /\ vpc' = "write" /\ Rotating /\ ~Rotating'
      /\ forced' = forced /\ vpkt' = vpkt /\ seg' = seg
      /\ UNCHANGED <<vout, pipe, gpc, sending, delay>>
      /\ cuts' = IF cuts = <<>> THEN cuts ELSE Tail(cuts)
  BY DEF PopFront, gpVars, encVars, muxVars, Rotating
<1>2. /\ Ascending(cuts) /\ ToSet(cuts) \subseteq forced /\ cuts # <<>> /\ cuts[1] = vpkt
      /\ (\A c \in ToSet(cuts) : Pending(c)) /\ (\A c \in Popped : Past(c))
  BY <1>1 DEF Gate
<1>3. cuts \in Seq(Nat) /\ forced \subseteq Nat /\ vpkt \in Nat
  BY DEF IInv, Typed, GateType, GpType, VidType
<1>4. /\ cuts' = Tail(cuts) /\ ToSet(cuts') = ToSet(cuts) \ {vpkt} /\ Ascending(cuts')
      /\ vpkt \in ToSet(cuts)
  BY <1>1, <1>2, <1>3, QueueTail, AscendingTail
<1>5. Popped' = Popped \cup {vpkt} /\ vpkt \notin Popped
  BY <1>1, <1>2, <1>4 DEF Popped
<1>6. \A c \in ToSet(cuts') : Pending(c)'
  BY <1>1, <1>2, <1>4, GateStill
<1>7. \A k \in 3..9 : \A u \in Line[k] : vpkt < u
  <2>1. vpkt \in Line[2]
    BY <1>1, LineAt
  <2>2. \A k \in 3..9 : k \in 1..9 /\ 2 < k
    OBVIOUS
  <2> QED BY <2>1, <2>2 DEF IInv, Ordered, InOrder
<1>8. ASSUME NEW c \in Popped' PROVE Past(c)'
  <2>1. c = vpkt \/ Past(c)
    BY <1>2, <1>5
  <2>2. \A k \in 3..9 : \A u \in Line[k] : c < u
    BY <1>7, <2>1 DEF Past
  <2>3. \A k \in 3..9 : \A u \in Line'[k] : c < u
    BY <2>2, BehindStep
  <2>4. c <= vpkt'
    <3>1. CASE c = vpkt
      BY <1>1, <1>3, <3>1
    <3>2. CASE Past(c)
      <4>1. c < vpkt
        BY <1>1, <3>2 DEF Past
      <4>2. c \in Nat
        BY <1>3, <1>5 DEF Popped
      <4> QED BY <1>1, <1>3, <4>1, <4>2
    <3> QED BY <2>1, <3>1, <3>2
  <2> QED BY <1>1, <2>3, <2>4 DEF Past
<1>9. seg' = Cardinality(Popped') + IF vpc' = "pop" THEN 1 ELSE 0
  <2>1. seg = Cardinality(Popped) + 1
    BY <1>1 DEF Gate
  <2>2. IsFiniteSet(Popped)
    BY FS_Subset DEF IInv, Cuts, Popped
  <2>3. Cardinality(Popped') = Cardinality(Popped) + 1 /\ Cardinality(Popped) \in Nat
    BY <1>5, <2>2, FS_AddElement, FS_CardinalityType
  <2> QED BY <1>1, <2>1, <2>3
<1>10. ToSet(cuts') \subseteq forced'
  BY <1>1, <1>2, <1>4
<1> QED BY <1>1, <1>4, <1>6, <1>8, <1>9, <1>10 DEF Gate

LEMMA GateWrite == ASSUME IInv, Next, Gate, VideoWrite PROVE Gate'
<1>1. /\ vpc = "write" /\ vpc' = "take" /\ ~Rotating /\ ~Rotating'
      /\ cuts' = cuts /\ forced' = forced /\ seg' = seg
      /\ UNCHANGED <<vout, pipe, gpc, sending, delay>>
  BY DEF VideoWrite, gpVars, encVars, gateVars, Rotating
<1>2. /\ Ascending(cuts) /\ ToSet(cuts) \subseteq forced
      /\ (\A c \in ToSet(cuts) : Pending(c)) /\ (\A c \in Popped : Past(c))
  BY DEF Gate
<1>3. Popped' = Popped
  BY <1>1 DEF Popped
<1>4. \A c \in ToSet(cuts) : Pending(c)'
  BY <1>1, <1>2, GateStill
<1>5. ASSUME NEW c \in Popped PROVE Past(c)'
  <2>1. \A k \in 3..9 : \A u \in Line'[k] : c < u
    BY <1>2, BehindStep DEF Past
  <2> QED BY <1>1, <2>1 DEF Past
<1>6. seg' = Cardinality(Popped') + IF vpc' = "pop" THEN 1 ELSE 0
  <2>1. seg = Cardinality(Popped) + IF vpc = "pop" THEN 1 ELSE 0
    BY DEF Gate
  <2> QED BY <1>1, <1>3, <2>1
<1> QED BY <1>1, <1>2, <1>3, <1>4, <1>5, <1>6 DEF Gate

LEMMA CutsStep ==
  ASSUME IInv, Next
  PROVE  Cuts'
<1>1. /\ IsFiniteSet(forced')
      /\ \A c \in forced' : \A k \in 6..9 : \A t \in Line'[k] : c <= t
  BY ForcedStep
<1>2. ASSUME vpc' # "done", vpc # "done" PROVE Gate'
  <2>1. Gate
    BY <1>2 DEF IInv, Cuts, Gate
  <2> QED BY <1>2, <2>1, CutSteps, GateSteady, GateNewCut, GateTake, GateRotate, GatePop, GateWrite
      DEF CutStep, Ending
<1>3. vpc = "done" => vpc' = "done"
  BY CutSteps DEF CutStep, Steady, NewCut, VideoTake, Rotate, OpenSegment, PopFront, VideoWrite, Ending
<1> QED BY <1>1, <1>2, <1>3 DEF Cuts, Gate

(***************************************************************************)
(* What is written is in its segment.                                      *)
(***************************************************************************)
LEMMA SegmentStep ==
  ASSUME IInv, Next
  PROVE  VideoInSegment'
<1> USE DEF srcVars, gpVars, encVars, gateVars, vidVars, audVars, muxVars, endVars
<1>1. \A i \in 1..Len(vlog) : vlog[i].seg = Cardinality({c \in forced : c <= vlog[i].t})
  BY DEF IInv, VideoInSegment, SegmentOf
<1>2. /\ vlog \in Seq([t : Nat, seg : Nat]) /\ forced \subseteq Nat /\ seg \in Nat /\ vpkt \in Nat
      /\ DOMAIN vlog = 1..Len(vlog)
  BY SetOfSeq DEF IInv, Typed, MuxType, GpType, VidType
<1>3. CASE UNCHANGED <<forced, vlog>>
  BY <1>1, <1>3 DEF VideoInSegment, SegmentOf
<1>4. CASE NewCut
  <2> DEFINE t == CutFrame(sending[1])
  <2>1. forced' = forced \cup {t} /\ vlog' = vlog
    BY <1>4 DEF NewCut
  <2>2. t \in Nat /\ \E k \in 6..7 : t \in Line[k]
    BY <1>4, CutFrameFacts DEF NewCut
  <2> HIDE DEF t
  <2>3. ASSUME NEW i \in 1..Len(vlog) PROVE ~(t <= vlog[i].t)
    <3>1. vlog[i].t \in Line[1] /\ vlog[i].t \in Nat
      <4>1. vlog[i] \in [t : Nat, seg : Nat]
        BY <1>2, ElementOfSeq
      <4>2. i \in DOMAIN vlog
        BY <1>2
      <4> QED BY <4>1, <4>2, LineAt
    <3>2. PICK k \in 6..7 : t \in Line[k]
      BY <2>2
    <3>3. 1 \in 1..9 /\ k \in 1..9 /\ 1 < k
      OBVIOUS
    <3>4. vlog[i].t < t
      BY <3>1, <3>2, <3>3 DEF IInv, Ordered, InOrder
    <3> QED BY <2>2, <3>1, <3>4
  <2>4. \A i \in 1..Len(vlog) : {c \in forced' : c <= vlog[i].t} = {c \in forced : c <= vlog[i].t}
    BY <2>1, <2>3
  <2> QED BY <1>1, <2>1, <2>4 DEF VideoInSegment, SegmentOf
<1>5. CASE VideoWrite
  <2> DEFINE r == [t |-> vpkt, seg |-> seg]
  <2>1. vpc = "write" /\ vlog' = Append(vlog, r) /\ forced' = forced /\ ~Rotating
    BY <1>5 DEF VideoWrite, Rotating
  <2>2. /\ Len(vlog') = Len(vlog) + 1 /\ Len(vlog) \in Nat /\ vlog'[Len(vlog) + 1] = r
        /\ \A i \in 1..Len(vlog) : vlog'[i] = vlog[i]
    <3>1. r \in [t : Nat, seg : Nat]
      BY <1>2
    <3> QED BY <1>2, <2>1, <3>1, QueueAppend
  <2>3. /\ seg = Cardinality(Popped) /\ (\A c \in ToSet(cuts) : Pending(c))
        /\ (\A c \in Popped : Past(c)) /\ ToSet(cuts) \subseteq forced
    <3>1. Gate
      BY <2>1 DEF IInv, Cuts, Gate
    <3>2. Cardinality(Popped) \in Nat
      BY FS_Subset, FS_CardinalityType DEF IInv, Cuts, Popped
    <3>3. seg = Cardinality(Popped) + IF vpc = "pop" THEN 1 ELSE 0
      BY <3>1 DEF Gate
    <3>4. seg = Cardinality(Popped)
      BY <2>1, <3>2, <3>3
    <3> QED BY <3>1, <3>4 DEF Gate
  <2>4. ASSUME NEW c \in forced PROVE c <= vpkt <=> c \in Popped
    <3>1. c \in Nat
      BY <1>2
    <3>2. ASSUME c \in Popped PROVE c <= vpkt
      BY <2>1, <2>3, <3>2 DEF Past
    <3>3. ASSUME c \notin Popped PROVE vpkt < c
      <4>1. Pending(c)
        BY <2>3, <3>3 DEF Popped
      <4>2. vpkt \in Line[2]
        BY <2>1, LineAt
      <4>3. CASE gpc = "done" /\ \A k \in 1..4 : \A u \in Line[k] : u < c
        <5>1. 2 \in 1..4
          OBVIOUS
        <5> QED BY <4>2, <4>3, <5>1
      <4>4. CASE \E k \in 3..7 : c \in Line[k]
        <5>1. PICK k \in 3..7 : c \in Line[k]
          BY <4>4
        <5>2. 2 \in 1..9 /\ k \in 1..9 /\ 2 < k
          OBVIOUS
        <5> QED BY <4>2, <5>1, <5>2 DEF IInv, Ordered, InOrder
      <4> QED BY <2>1, <4>1, <4>3, <4>4 DEF Pending
    <3> QED BY <1>2, <3>1, <3>2, <3>3
  <2>5. {c \in forced : c <= vpkt} = Popped
    BY <2>4 DEF Popped
  <2>6. r.t = vpkt /\ r.seg = seg
    OBVIOUS
  <2> HIDE DEF r
  <2> SUFFICES ASSUME NEW i \in 1..Len(vlog) + 1
               PROVE vlog'[i].seg = Cardinality({c \in forced : c <= vlog'[i].t})
    BY <2>1, <2>2 DEF VideoInSegment, SegmentOf
  <2>7. i \in 1..Len(vlog) \/ i = Len(vlog) + 1
    BY <2>2
  <2> QED BY <1>1, <2>2, <2>3, <2>5, <2>6, <2>7
<1>6. UNCHANGED <<forced, vlog>> \/ NewCut \/ VideoWrite
  BY CutSteps DEF CutStep, Steady, VideoTake, Rotate, OpenSegment, PopFront, Ending
<1> QED BY <1>3, <1>4, <1>5, <1>6

(***************************************************************************)
(* Nothing is lost without an error.                                       *)
(***************************************************************************)
LEMMA Monotone ==
  ASSUME Typed, Next
  PROVE  (ctx => ctx') /\ (egctx => egctx')
<1> USE DEF srcVars, gpVars, encVars, gateVars, vidVars, audVars, muxVars, endVars
<1>1. ASSUME SourceSend PROVE (ctx => ctx') /\ (egctx => egctx')
  BY <1>1 DEF SourceSend
<1>2. ASSUME SourceCancelled PROVE (ctx => ctx') /\ (egctx => egctx')
  BY <1>2 DEF SourceCancelled
<1>3. ASSUME GpTake PROVE (ctx => ctx') /\ (egctx => egctx')
  BY <1>3 DEF GpTake
<1>4. ASSUME GpReport PROVE (ctx => ctx') /\ (egctx => egctx')
  BY <1>4 DEF GpReport
<1>5. ASSUME GpSend PROVE (ctx => ctx') /\ (egctx => egctx')
  BY <1>5 DEF GpSend
<1>6. ASSUME GpEnd PROVE (ctx => ctx') /\ (egctx => egctx')
  BY <1>6 DEF GpEnd
<1>7. ASSUME GpStop PROVE (ctx => ctx') /\ (egctx => egctx')
  BY <1>7 DEF GpStop
<1>8. ASSUME Encode PROVE (ctx => ctx') /\ (egctx => egctx')
  BY <1>8 DEF Encode
<1>9. ASSUME EncodeCancelled PROVE (ctx => ctx') /\ (egctx => egctx')
  BY <1>9 DEF EncodeCancelled
<1>10. ASSUME VideoTake PROVE (ctx => ctx') /\ (egctx => egctx')
  BY <1>10 DEF VideoTake
<1>11. ASSUME Rotate PROVE (ctx => ctx') /\ (egctx => egctx')
  BY <1>11 DEF Rotate
<1>12. ASSUME OpenSegment PROVE (ctx => ctx') /\ (egctx => egctx')
  BY <1>12 DEF OpenSegment
<1>13. ASSUME PopFront PROVE (ctx => ctx') /\ (egctx => egctx')
  BY <1>13 DEF PopFront
<1>14. ASSUME VideoWrite PROVE (ctx => ctx') /\ (egctx => egctx')
  BY <1>14 DEF VideoWrite
<1>15. ASSUME VideoEnd PROVE (ctx => ctx') /\ (egctx => egctx')
  <2>1. ctx' = ctx /\ (egctx' = (egctx \/ FALSE) \/ egctx' = (egctx \/ TRUE))
    BY <1>15 DEF VideoEnd, VideoReturn
  <2>2. egctx \in BOOLEAN
    BY DEF Typed, EndType
  <2> QED BY <2>1, <2>2
<1>16. ASSUME VideoFail PROVE (ctx => ctx') /\ (egctx => egctx')
  BY <1>16 DEF VideoFail, VideoReturn
<1>17. ASSUME AudioTake PROVE (ctx => ctx') /\ (egctx => egctx')
  BY <1>17 DEF AudioTake
<1>18. ASSUME FrontCut PROVE (ctx => ctx') /\ (egctx => egctx')
  BY <1>18 DEF FrontCut
<1>19. ASSUME FlushUpTo PROVE (ctx => ctx') /\ (egctx => egctx')
  BY <1>19 DEF FlushUpTo
<1>20. ASSUME FlushHeld PROVE (ctx => ctx') /\ (egctx => egctx')
  BY <1>20 DEF FlushHeld, AudioWrites
<1>21. ASSUME FlushDone PROVE (ctx => ctx') /\ (egctx => egctx')
  BY <1>21 DEF FlushDone
<1>22. ASSUME HoldBack PROVE (ctx => ctx') /\ (egctx => egctx')
  BY <1>22 DEF HoldBack
<1>23. ASSUME Pass PROVE (ctx => ctx') /\ (egctx => egctx')
  BY <1>23 DEF Pass
<1>24. ASSUME AudioWrite PROVE (ctx => ctx') /\ (egctx => egctx')
  BY <1>24 DEF AudioWrite, AudioWrites
<1>25. ASSUME AudioClosed PROVE (ctx => ctx') /\ (egctx => egctx')
  BY <1>25 DEF AudioClosed
<1>26. ASSUME AudioEnd PROVE (ctx => ctx') /\ (egctx => egctx')
  BY <1>26 DEF AudioEnd
<1>27. ASSUME AudioFail PROVE (ctx => ctx') /\ (egctx => egctx')
  BY <1>27 DEF AudioFail
<1>28. ASSUME SinkReturn PROVE (ctx => ctx') /\ (egctx => egctx')
  BY <1>28 DEF SinkReturn
<1> QED
  BY <1>1, <1>2, <1>3, <1>4, <1>5, <1>6, <1>7, <1>8, <1>9, <1>10, <1>11, <1>12, <1>13, <1>14,
     <1>15, <1>16, <1>17, <1>18, <1>19, <1>20, <1>21, <1>22, <1>23, <1>24, <1>25, <1>26, <1>27, <1>28
  DEF Next, Source, GoProcessor, Encoder, Video, Audio

Ends == /\ gpc \in {"drain", "done"} => src > Len(Items) /\ vin = <<>>
        /\ vpc = "done" => gpc = "done" /\ pipe = <<>> /\ vout = <<>>
LEMMA EndsStep ==
  ASSUME IInv, Next, ~ctx', ~egctx'
  PROVE  Ends'
<1> USE DEF srcVars, gpVars, encVars, gateVars, vidVars, audVars, muxVars, endVars
<1>a. ~ctx /\ ~egctx
  BY Monotone DEF IInv
<1>b. Ends
  BY <1>a DEF IInv, VideoKept, Ends
<1>c. Len(Items) \in Nat /\ src \in 1..Len(Items) + 1
  BY ItemFacts DEF IInv, Typed, SrcType
<1>d. ~ctx' /\ ~egctx'
  OBVIOUS
<1>1. ASSUME SourceSend PROVE Ends'
  BY <1>1, <1>a, <1>b, <1>c, <1>d DEF SourceSend, Ends, SrcDone
<1>2. ASSUME SourceCancelled PROVE Ends'
  BY <1>2, <1>a, <1>b, <1>c, <1>d DEF SourceCancelled, Ends
<1>3. ASSUME GpTake PROVE Ends'
  BY <1>3, <1>a, <1>b, <1>c, <1>d DEF GpTake, Ends
<1>4. ASSUME GpReport PROVE Ends'
  BY <1>4, <1>a, <1>b, <1>c, <1>d DEF GpReport, Ends
<1>5. ASSUME GpSend PROVE Ends'
  BY <1>5, <1>a, <1>b, <1>c, <1>d DEF GpSend, Ends
<1>6. ASSUME GpEnd PROVE Ends'
  BY <1>6, <1>a, <1>b, <1>c, <1>d DEF GpEnd, Ends, SrcDone
<1>7. ASSUME GpStop PROVE Ends'
  BY <1>7, <1>a, <1>b, <1>c, <1>d DEF GpStop, Ends
<1>8. ASSUME Encode PROVE Ends'
  BY <1>8, <1>a, <1>b, <1>c, <1>d DEF Encode, Ends
<1>9. ASSUME EncodeCancelled PROVE Ends'
  BY <1>9, <1>a, <1>b, <1>c, <1>d DEF EncodeCancelled, Ends
<1>10. ASSUME VideoTake PROVE Ends'
  BY <1>10, <1>a, <1>b, <1>c, <1>d DEF VideoTake, Ends
<1>11. ASSUME Rotate PROVE Ends'
  BY <1>11, <1>a, <1>b, <1>c, <1>d DEF Rotate, Ends
<1>12. ASSUME OpenSegment PROVE Ends'
  BY <1>12, <1>a, <1>b, <1>c, <1>d DEF OpenSegment, Ends
<1>13. ASSUME PopFront PROVE Ends'
  BY <1>13, <1>a, <1>b, <1>c, <1>d DEF PopFront, Ends
<1>14. ASSUME VideoWrite PROVE Ends'
  BY <1>14, <1>a, <1>b, <1>c, <1>d DEF VideoWrite, Ends
<1>15. ASSUME VideoEnd PROVE Ends'
  BY <1>15, <1>a, <1>b, <1>c, <1>d DEF VideoEnd, Ends, EncDone, GpDone, VideoReturn
<1>16. ASSUME VideoFail PROVE Ends'
  BY <1>16, <1>a, <1>b, <1>c, <1>d DEF VideoFail, Ends, VideoReturn
<1>17. ASSUME AudioTake PROVE Ends'
  BY <1>17, <1>a, <1>b, <1>c, <1>d DEF AudioTake, Ends
<1>18. ASSUME FrontCut PROVE Ends'
  BY <1>18, <1>a, <1>b, <1>c, <1>d DEF FrontCut, Ends
<1>19. ASSUME FlushUpTo PROVE Ends'
  BY <1>19, <1>a, <1>b, <1>c, <1>d DEF FlushUpTo, Ends
<1>20. ASSUME FlushHeld PROVE Ends'
  BY <1>20, <1>a, <1>b, <1>c, <1>d DEF FlushHeld, Ends, AudioWrites
<1>21. ASSUME FlushDone PROVE Ends'
  BY <1>21, <1>a, <1>b, <1>c, <1>d DEF FlushDone, Ends
<1>22. ASSUME HoldBack PROVE Ends'
  BY <1>22, <1>a, <1>b, <1>c, <1>d DEF HoldBack, Ends
<1>23. ASSUME Pass PROVE Ends'
  BY <1>23, <1>a, <1>b, <1>c, <1>d DEF Pass, Ends
<1>24. ASSUME AudioWrite PROVE Ends'
  BY <1>24, <1>a, <1>b, <1>c, <1>d DEF AudioWrite, Ends, AudioWrites
<1>25. ASSUME AudioClosed PROVE Ends'
  BY <1>25, <1>a, <1>b, <1>c, <1>d DEF AudioClosed, Ends
<1>26. ASSUME AudioEnd PROVE Ends'
  BY <1>26, <1>a, <1>b, <1>c, <1>d DEF AudioEnd, Ends
<1>27. ASSUME AudioFail PROVE Ends'
  BY <1>27, <1>a, <1>b, <1>c, <1>d DEF AudioFail, Ends
<1>28. ASSUME SinkReturn PROVE Ends'
  BY <1>28, <1>a, <1>b, <1>c, <1>d DEF SinkReturn, Ends
<1> QED
  BY <1>1, <1>2, <1>3, <1>4, <1>5, <1>6, <1>7, <1>8, <1>9, <1>10, <1>11, <1>12, <1>13, <1>14,
     <1>15, <1>16, <1>17, <1>18, <1>19, <1>20, <1>21, <1>22, <1>23, <1>24, <1>25, <1>26, <1>27, <1>28
  DEF Next, Source, GoProcessor, Encoder, Video, Audio

LEMMA VideoKeptStep ==
  ASSUME IInv, Next
  PROVE  VideoKept'
<1>1. ASSUME NEW k \in 1..9 PROVE Line'[k] \subseteq VideoTimes
  <2>1. \A t \in Line'[k] : \E m \in k..9 : t \in Line[m]
    BY LineStep DEF Moved, NoneBack
  <2>2. \A m \in k..9 : m \in 1..9
    OBVIOUS
  <2>3. \A m \in 1..9 : Line[m] \subseteq VideoTimes
    BY DEF IInv, VideoKept
  <2> QED BY <2>1, <2>2, <2>3
<1>2. ASSUME ~ctx', ~egctx', NEW t \in VideoTimes PROVE \E k \in 1..9 : t \in Line'[k]
  <2>1. ~ctx /\ ~egctx
    BY <1>2, Monotone DEF IInv
  <2>2. PICK k \in 1..9 : t \in Line[k]
    BY <2>1 DEF IInv, VideoKept
  <2>3. Kept(Line, Line', 9)
    BY <1>2, LineStep DEF Moved
  <2>4. PICK m \in 1..k : t \in Line'[m]
    BY <2>2, <2>3 DEF Kept
  <2> QED BY <2>4
<1>3. ~ctx' /\ ~egctx' => Ends'
  BY EndsStep
<1>4. VideoTimes' = VideoTimes
  BY DEF VideoTimes, Places
<1> QED BY <1>1, <1>2, <1>3, <1>4 DEF VideoKept, Ends

(***************************************************************************)
(* Audio: each packet is in one of the channel, the hand, the packets held *)
(* back and the file.                                                      *)
(***************************************************************************)
Holds == Len(alog) + Len(held) + Len(ain) + (IF InHand THEN 1 ELSE 0) = Cardinality(Read("audio"))
Heard(i) == \/ Items[i].t \in ToSet(ain) \cup ToSet(held)
            \/ InHand /\ Items[i].t = apkt
            \/ \E j \in DOMAIN alog : alog[j].t = Items[i].t
AllHeard == \A i \in Read("audio") : Heard(i)
Closed == /\ apc \in {"final", "done"} => src > Len(Items) /\ ain = <<>>
          /\ apc = "done" => held = <<>>

LEMMA ReadFacts ==
  ASSUME Typed
  PROVE  /\ IsFiniteSet(Read("audio")) /\ Cardinality(Read("audio")) \in Nat
         /\ src \notin Read("audio")
<1>1. IsFiniteSet(1..Len(Items))
  BY FS_Interval, ItemFacts
<1>2. Read("audio") \subseteq 1..Len(Items)
  BY DEF Read, Places
<1>3. IsFiniteSet(Read("audio"))
  BY <1>1, <1>2, FS_Subset
<1> QED BY <1>3, FS_CardinalityType DEF Read, Places, Typed, SrcType

LEMMA AudioStep ==
  ASSUME IInv, Next, ~ctx', ~egctx'
  PROVE  (Holds /\ AllHeard /\ Closed)'
<1> USE DEF srcVars, gpVars, encVars, gateVars, vidVars, audVars, muxVars, endVars
<1>a. ~ctx /\ ~egctx
  BY Monotone DEF IInv
<1>b. Holds /\ AllHeard /\ Closed
  BY <1>a DEF IInv, AudioKept, Holds, AllHeard, Heard, Closed
<1>c. Len(Items) \in Nat /\ src \in 1..Len(Items) + 1
  BY ItemFacts DEF IInv, Typed, SrcType
<1>d. ~ctx' /\ ~egctx'
  OBVIOUS
<1>e. /\ ain \in Seq(Nat) /\ held \in Seq(Nat) /\ apkt \in Nat /\ seg \in Nat
      /\ alog \in Seq([t : Nat, seg : Nat])
  BY DEF IInv, Typed, SrcType, AudType, MuxType
<1>l. Len(ain) \in Nat /\ Len(held) \in Nat /\ Len(alog) \in Nat /\ Cardinality(Read("audio")) \in Nat
  BY <1>e, LenProperties, ReadFacts DEF IInv
<1>n. /\ Len(alog) + Len(held) + Len(ain) + 1 = Cardinality(Read("audio")) \/ ~InHand
      /\ Len(alog) + Len(held) + Len(ain) = Cardinality(Read("audio")) \/ InHand
  BY <1>b, <1>l DEF Holds
<1>f. ASSUME UNCHANGED <<src, ain, apkt, held, alog>>, InHand' = InHand PROVE Holds' /\ AllHeard'
  <2>1. Read("audio")' = Read("audio")
    BY <1>f DEF Read
  <2>2. Holds'
    BY <1>b, <1>f, <2>1 DEF Holds
  <2>3. \A i \in Read("audio") : Heard(i)'
    BY <1>b, <1>f DEF AllHeard, Heard
  <2> QED BY <2>1, <2>2, <2>3 DEF AllHeard
<1>g. ASSUME UNCHANGED <<src, ain, apkt, held, alog, apc>> PROVE (Holds /\ AllHeard /\ Closed)'
  <2>1. InHand' = InHand
    BY <1>g DEF InHand
  <2> QED BY <1>b, <1>f, <1>g, <2>1 DEF Closed
<1>1. ASSUME SourceSend PROVE (Holds /\ AllHeard /\ Closed)'
  <2>1. /\ src \in 1..Len(Items) /\ src' = src + 1 /\ ~(src > Len(Items))
        /\ UNCHANGED <<apc, apkt, held, alog>>
    BY <1>1, <1>c DEF SourceSend, SrcDone
  <2>2. InHand' = InHand
    BY <2>1 DEF InHand
  <2>3. Closed'
    BY <2>1, <1>b DEF Closed
  <2>4. CASE Items[src].kind = "video"
    <3>1. ain' = ain
      BY <1>1, <2>4 DEF SourceSend
    <3>2. Read("audio")' = Read("audio")
      BY <2>1, <2>4 DEF Read, Places
    <3>3. Holds'
      BY <2>1, <2>2, <3>1, <3>2, <1>b DEF Holds
    <3>4. \A i \in Read("audio") : Heard(i)'
      BY <2>1, <2>2, <3>1, <1>b DEF AllHeard, Heard
    <3> QED BY <2>3, <3>2, <3>3, <3>4 DEF AllHeard
  <2>5. CASE Items[src].kind # "video"
    <3> DEFINE x == Items[src].t
    <3>1. ain' = Append(ain, x) /\ x \in Nat /\ Items[src].kind = "audio"
      BY <1>1, <2>1, <2>5, ItemFacts DEF SourceSend
    <3>2. Len(ain') = Len(ain) + 1 /\ ToSet(ain') = ToSet(ain) \cup {x}
      <4>1. x \in Nat /\ ain \in Seq(Nat) /\ ain' = Append(ain, x)
        BY <3>1, <1>e
      <4> HIDE DEF x
      <4>2. Len(Append(ain, x)) = Len(ain) + 1 /\ ToSet(Append(ain, x)) = ToSet(ain) \cup {x}
        BY <4>1, QueueAppend
      <4> QED BY <4>1, <4>2
    <3>3. Read("audio")' = Read("audio") \cup {src}
      <4>1. src \in Places("audio")
        BY <2>1, <3>1 DEF Places
      <4>2. \A i \in Places("audio") : i \in Nat /\ (i < src + 1 <=> i < src \/ i = src)
        BY <2>1 DEF Places
      <4> QED BY <2>1, <4>1, <4>2 DEF Read
    <3>4. Cardinality(Read("audio")') = Cardinality(Read("audio")) + 1
      BY <3>3, ReadFacts, FS_AddElement DEF IInv
    <3>5. Holds'
      <4>1. CASE InHand
        <5>1. Len(alog) + Len(held) + (Len(ain) + 1) + 1 = Cardinality(Read("audio")) + 1
          BY <4>1, <1>n, <1>l
        <5> QED BY <2>1, <2>2, <3>2, <3>4, <4>1, <5>1 DEF Holds
      <4>2. CASE ~InHand
        <5>1. Len(alog) + Len(held) + (Len(ain) + 1) + 0 = Cardinality(Read("audio")) + 1
          BY <4>2, <1>n, <1>l
        <5> QED BY <2>1, <2>2, <3>2, <3>4, <4>2, <5>1 DEF Holds
      <4> QED BY <4>1, <4>2
    <3>6. \A i \in Read("audio") : Heard(i)'
      BY <2>1, <2>2, <3>2, <1>b DEF AllHeard, Heard
    <3>7. ASSUME NEW i, i = src PROVE Heard(i)'
      <4>1. Items[i].t \in ToSet(ain')
        BY <3>2, <3>7
      <4> QED BY <4>1 DEF Heard
    <3>8. ASSUME NEW i \in Read("audio")' PROVE Heard(i)'
      <4>1. i \in Read("audio") \/ i = src
        BY <3>3
      <4> QED BY <3>6, <3>7, <4>1
    <3> QED BY <2>3, <3>5, <3>8 DEF AllHeard
  <2> QED BY <2>4, <2>5
<1>2. ASSUME SourceCancelled PROVE (Holds /\ AllHeard /\ Closed)'
  BY <1>2, <1>a, <1>d DEF SourceCancelled
<1>3. ASSUME GpTake PROVE (Holds /\ AllHeard /\ Closed)'
  BY <1>3, <1>g DEF GpTake
<1>4. ASSUME GpReport PROVE (Holds /\ AllHeard /\ Closed)'
  BY <1>4, <1>g DEF GpReport
<1>5. ASSUME GpSend PROVE (Holds /\ AllHeard /\ Closed)'
  BY <1>5, <1>g DEF GpSend
<1>6. ASSUME GpEnd PROVE (Holds /\ AllHeard /\ Closed)'
  BY <1>6, <1>g DEF GpEnd
<1>7. ASSUME GpStop PROVE (Holds /\ AllHeard /\ Closed)'
  BY <1>7, <1>g DEF GpStop
<1>8. ASSUME Encode PROVE (Holds /\ AllHeard /\ Closed)'
  BY <1>8, <1>g DEF Encode
<1>9. ASSUME EncodeCancelled PROVE (Holds /\ AllHeard /\ Closed)'
  BY <1>9, <1>g DEF EncodeCancelled
<1>10. ASSUME VideoTake PROVE (Holds /\ AllHeard /\ Closed)'
  BY <1>10, <1>g DEF VideoTake
<1>11. ASSUME Rotate PROVE (Holds /\ AllHeard /\ Closed)'
  BY <1>11, <1>g DEF Rotate
<1>12. ASSUME OpenSegment PROVE (Holds /\ AllHeard /\ Closed)'
  BY <1>12, <1>g DEF OpenSegment
<1>13. ASSUME PopFront PROVE (Holds /\ AllHeard /\ Closed)'
  BY <1>13, <1>g DEF PopFront
<1>14. ASSUME VideoWrite PROVE (Holds /\ AllHeard /\ Closed)'
  BY <1>14, <1>g DEF VideoWrite
<1>15. ASSUME VideoEnd PROVE (Holds /\ AllHeard /\ Closed)'
  BY <1>15, <1>g DEF VideoEnd, VideoReturn
<1>16. ASSUME VideoFail PROVE (Holds /\ AllHeard /\ Closed)'
  BY <1>16, <1>g DEF VideoFail, VideoReturn
<1>17. ASSUME AudioTake PROVE (Holds /\ AllHeard /\ Closed)'
  <2>1. /\ apc = "take" /\ apc' \in {"front", "front2"} /\ ain # <<>> /\ ain' = Tail(ain)
        /\ apkt' = ain[1] /\ UNCHANGED <<src, held, alog>>
    BY <1>17 DEF AudioTake
  <2>2. ~InHand /\ InHand' /\ Closed'
    BY <2>1 DEF InHand, Closed
  <2>3. Len(ain') = Len(ain) - 1 /\ ToSet(ain) = {apkt'} \cup ToSet(ain')
    BY <2>1, <1>e, QueueTail
  <2>4. Read("audio")' = Read("audio")
    BY <2>1 DEF Read
  <2>5. Holds'
    <3>1. Len(alog) + Len(held) + (Len(ain) - 1) + 1 = Cardinality(Read("audio"))
      BY <2>2, <1>n, <1>l
    <3> QED BY <2>1, <2>2, <2>3, <2>4, <3>1 DEF Holds
  <2>6. \A i \in Read("audio") : Heard(i)'
    BY <2>1, <2>2, <2>3, <1>b DEF AllHeard, Heard
  <2> QED BY <2>2, <2>4, <2>5, <2>6 DEF AllHeard
<1>18. ASSUME FrontCut PROVE (Holds /\ AllHeard /\ Closed)'
  <2>1. UNCHANGED <<src, ain, apkt, held, alog>>
    BY <1>18 DEF FrontCut
  <2>2. InHand' = InHand
    BY <1>18, <1>d DEF FrontCut, InHand
  <2>3. Closed'
    BY <1>18, <1>b, <1>c, <1>d DEF FrontCut, Closed
  <2> QED BY <2>1, <2>2, <2>3, <1>f
<1>19. ASSUME FlushUpTo PROVE (Holds /\ AllHeard /\ Closed)'
  <2>1. UNCHANGED <<src, ain, apkt, held, alog>>
    BY <1>19 DEF FlushUpTo
  <2>2. InHand' = InHand
    BY <1>19, <1>d DEF FlushUpTo, InHand
  <2>3. Closed'
    BY <1>19, <1>b, <1>c, <1>d DEF FlushUpTo, Closed
  <2> QED BY <2>1, <2>2, <2>3, <1>f
<1>20. ASSUME FlushHeld PROVE (Holds /\ AllHeard /\ Closed)'
  <2> DEFINE r == [t |-> held[1], seg |-> seg]
  <2>1. /\ apc \in {"flush", "final"} /\ apc' = apc /\ alog' = Append(alog, r)
        /\ held # <<>> /\ held' = Tail(held) /\ UNCHANGED <<src, ain, apkt>>
    BY <1>20 DEF FlushHeld, AudioWrites
  <2>2. r \in [t : Nat, seg : Nat] /\ r.t = held[1]
    BY <2>1, <1>e, QueueTail
  <2>3. /\ Len(alog') = Len(alog) + 1 /\ DOMAIN alog = 1..Len(alog) /\ DOMAIN alog' = 1..Len(alog) + 1
        /\ \A i \in 1..Len(alog) : alog'[i] = alog[i]
        /\ alog'[Len(alog) + 1] = r
    BY <2>1, <2>2, <1>e, QueueAppend
  <2> HIDE DEF r
  <2>4. (\A j \in DOMAIN alog : j \in DOMAIN alog' /\ alog'[j] = alog[j]) /\ \E j \in DOMAIN alog' : alog'[j].t = held[1]
    <3>1. Len(alog) + 1 \in 1..Len(alog) + 1 /\ \A j \in 1..Len(alog) : j \in 1..Len(alog) + 1
      BY <1>l
    <3> QED BY <2>2, <2>3, <3>1
  <2>5. InHand' = InHand /\ Closed'
    BY <2>1, <1>b DEF InHand, Closed
  <2>6. Len(held') = Len(held) - 1 /\ ToSet(held) = {held[1]} \cup ToSet(held')
    BY <2>1, <1>e, QueueTail
  <2>7. Read("audio")' = Read("audio")
    BY <2>1 DEF Read
  <2>8. Holds'
    <3>1. CASE InHand
      <4>1. (Len(alog) + 1) + (Len(held) - 1) + Len(ain) + 1 = Cardinality(Read("audio"))
        BY <3>1, <1>n, <1>l
      <4> QED BY <2>1, <2>3, <2>5, <2>6, <2>7, <3>1, <4>1 DEF Holds
    <3>2. CASE ~InHand
      <4>1. (Len(alog) + 1) + (Len(held) - 1) + Len(ain) + 0 = Cardinality(Read("audio"))
        BY <3>2, <1>n, <1>l
      <4> QED BY <2>1, <2>3, <2>5, <2>6, <2>7, <3>2, <4>1 DEF Holds
    <3> QED BY <3>1, <3>2
  <2>9. ASSUME NEW i \in Read("audio") PROVE Heard(i)'
    <3>1. CASE Items[i].t \in ToSet(ain) \cup ToSet(held)
      <4>1. Items[i].t \in ToSet(ain') \cup ToSet(held') \/ Items[i].t = held[1]
        BY <2>1, <2>6, <3>1
      <4> QED BY <2>4, <4>1 DEF Heard
    <3>2. CASE InHand /\ Items[i].t = apkt
      BY <2>1, <2>5, <3>2 DEF Heard
    <3>3. CASE \E j \in DOMAIN alog : alog[j].t = Items[i].t
      BY <2>4, <3>3 DEF Heard
    <3> QED BY <1>b, <3>1, <3>2, <3>3 DEF AllHeard, Heard
  <2> QED BY <2>5, <2>7, <2>8, <2>9 DEF AllHeard
<1>21. ASSUME FlushDone PROVE (Holds /\ AllHeard /\ Closed)'
  <2>1. UNCHANGED <<src, ain, apkt, held, alog>>
    BY <1>21 DEF FlushDone
  <2>2. InHand' = InHand
    BY <1>21, <1>d DEF FlushDone, InHand
  <2>3. Closed'
    BY <1>21, <1>b, <1>c, <1>d DEF FlushDone, Closed
  <2> QED BY <2>1, <2>2, <2>3, <1>f
<1>22. ASSUME HoldBack PROVE (Holds /\ AllHeard /\ Closed)'
  <2>1. /\ apc = "bound2" /\ apc' = "take" /\ held' = Append(held, apkt)
        /\ UNCHANGED <<src, ain, apkt, alog>>
    BY <1>22 DEF HoldBack
  <2>2. InHand /\ ~InHand' /\ Closed'
    BY <2>1 DEF InHand, Closed
  <2>3. Len(held') = Len(held) + 1 /\ ToSet(held') = ToSet(held) \cup {apkt}
    <3>1. Len(Append(held, apkt)) = Len(held) + 1 /\ ToSet(Append(held, apkt)) = ToSet(held) \cup {apkt}
      BY <1>e, QueueAppend
    <3> QED BY <2>1, <3>1
  <2>4. Read("audio")' = Read("audio")
    BY <2>1 DEF Read
  <2>5. Holds'
    <3>1. Len(alog) + (Len(held) + 1) + Len(ain) + 0 = Cardinality(Read("audio"))
      BY <2>2, <1>n, <1>l
    <3> QED BY <2>1, <2>2, <2>3, <2>4, <3>1 DEF Holds
  <2>6. \A i \in Read("audio") : Heard(i)'
    BY <2>1, <2>2, <2>3, <1>b DEF AllHeard, Heard
  <2> QED BY <2>2, <2>4, <2>5, <2>6 DEF AllHeard
<1>23. ASSUME Pass PROVE (Holds /\ AllHeard /\ Closed)'
  <2>1. UNCHANGED <<src, ain, apkt, held, alog>>
    BY <1>23 DEF Pass
  <2>2. InHand' = InHand
    BY <1>23, <1>d DEF Pass, InHand
  <2>3. Closed'
    BY <1>23, <1>b, <1>c, <1>d DEF Pass, Closed
  <2> QED BY <2>1, <2>2, <2>3, <1>f
<1>24. ASSUME AudioWrite PROVE (Holds /\ AllHeard /\ Closed)'
  <2> DEFINE r == [t |-> apkt, seg |-> seg]
  <2>1. /\ apc = "write" /\ apc' = "take" /\ alog' = Append(alog, r)
        /\ UNCHANGED <<src, ain, apkt, held>>
    BY <1>24 DEF AudioWrite, AudioWrites
  <2>2. r \in [t : Nat, seg : Nat] /\ r.t = apkt
    BY <1>e
  <2>3. /\ Len(alog') = Len(alog) + 1 /\ DOMAIN alog = 1..Len(alog) /\ DOMAIN alog' = 1..Len(alog) + 1
        /\ \A i \in 1..Len(alog) : alog'[i] = alog[i]
        /\ alog'[Len(alog) + 1] = r
    BY <2>1, <2>2, <1>e, QueueAppend
  <2> HIDE DEF r
  <2>4. (\A j \in DOMAIN alog : j \in DOMAIN alog' /\ alog'[j] = alog[j]) /\ \E j \in DOMAIN alog' : alog'[j].t = apkt
    <3>1. Len(alog) + 1 \in 1..Len(alog) + 1 /\ \A j \in 1..Len(alog) : j \in 1..Len(alog) + 1
      BY <1>l
    <3> QED BY <2>2, <2>3, <3>1
  <2>5. InHand /\ ~InHand' /\ Closed'
    BY <2>1 DEF InHand, Closed
  <2>6. Read("audio")' = Read("audio")
    BY <2>1 DEF Read
  <2>7. Holds'
    <3>1. (Len(alog) + 1) + Len(held) + Len(ain) + 0 = Cardinality(Read("audio"))
      BY <2>5, <1>n, <1>l
    <3> QED BY <2>1, <2>3, <2>5, <2>6, <3>1 DEF Holds
  <2>8. ASSUME NEW i \in Read("audio") PROVE Heard(i)'
    <3>1. CASE Items[i].t \in ToSet(ain) \cup ToSet(held)
      BY <2>1, <3>1 DEF Heard
    <3>2. CASE InHand /\ Items[i].t = apkt
      BY <2>4, <3>2 DEF Heard
    <3>3. CASE \E j \in DOMAIN alog : alog[j].t = Items[i].t
      BY <2>4, <3>3 DEF Heard
    <3> QED BY <1>b, <3>1, <3>2, <3>3 DEF AllHeard, Heard
  <2> QED BY <2>5, <2>6, <2>7, <2>8 DEF AllHeard
<1>25. ASSUME AudioClosed PROVE (Holds /\ AllHeard /\ Closed)'
  <2>1. UNCHANGED <<src, ain, apkt, held, alog>>
    BY <1>25 DEF AudioClosed
  <2>2. InHand' = InHand
    BY <1>25, <1>d DEF AudioClosed, InHand
  <2>3. Closed'
    BY <1>25, <1>b, <1>c, <1>d DEF AudioClosed, Closed, SrcDone
  <2> QED BY <2>1, <2>2, <2>3, <1>f
<1>26. ASSUME AudioEnd PROVE (Holds /\ AllHeard /\ Closed)'
  <2>1. UNCHANGED <<src, ain, apkt, held, alog>>
    BY <1>26 DEF AudioEnd
  <2>2. InHand' = InHand
    BY <1>26, <1>d DEF AudioEnd, InHand
  <2>3. Closed'
    BY <1>26, <1>b, <1>c, <1>d DEF AudioEnd, Closed
  <2> QED BY <2>1, <2>2, <2>3, <1>f
<1>27. ASSUME AudioFail PROVE (Holds /\ AllHeard /\ Closed)'
  BY <1>27, <1>a, <1>d DEF AudioFail
<1>28. ASSUME SinkReturn PROVE (Holds /\ AllHeard /\ Closed)'
  BY <1>28, <1>g DEF SinkReturn
<1> QED
  BY <1>1, <1>2, <1>3, <1>4, <1>5, <1>6, <1>7, <1>8, <1>9, <1>10, <1>11, <1>12, <1>13, <1>14,
     <1>15, <1>16, <1>17, <1>18, <1>19, <1>20, <1>21, <1>22, <1>23, <1>24, <1>25, <1>26, <1>27, <1>28
  DEF Next, Source, GoProcessor, Encoder, Video, Audio

LEMMA AudioKeptStep == ASSUME IInv, Next PROVE AudioKept'
<1>1. ~ctx' /\ ~egctx' => (Holds /\ AllHeard /\ Closed)'
  BY AudioStep
<1> QED BY <1>1 DEF AudioKept, Holds, AllHeard, Heard, Closed

(***************************************************************************)
(* Announcements.                                                          *)
(***************************************************************************)
LEMMA AnnouncedStep ==
  ASSUME IInv, Next
  PROVE  Announced'
<1> USE DEF srcVars, gpVars, encVars, gateVars, vidVars, audVars, muxVars, endVars
<1>a. Announced /\ Shape /\ Typed
  BY DEF IInv
<1>b. seg \in Nat /\ posted \in Seq(Nat) /\ Len(posted) \in Nat /\ DOMAIN posted = 1..Len(posted)
  BY SetOfSeq DEF IInv, Typed, MuxType
<1>c. ASSUME UNCHANGED <<posted, seg, egctx, res>>, (vpc' = "open") = (vpc = "open") PROVE Announced'
  BY <1>a, <1>c DEF Announced
<1>d. ASSUME posted' = Append(posted, seg), Announced, ~egctx, vpc # "open", res # "nil"
      PROVE Len(posted') = seg + 1 /\ \A i \in DOMAIN posted' : posted'[i] = i - 1
  <2>1. Len(posted) = seg /\ \A i \in DOMAIN posted : posted[i] = i - 1
    <3>1. Len(posted) = seg + 0 + 0 /\ \A i \in DOMAIN posted : posted[i] = i - 1
      BY <1>d DEF Announced
    <3> QED BY <1>b, <3>1
  <2>2. /\ Len(posted') = Len(posted) + 1 /\ DOMAIN posted' = 1..Len(posted) + 1
        /\ (\A i \in 1..Len(posted) : posted'[i] = posted[i]) /\ posted'[Len(posted) + 1] = seg
    BY <1>b, <1>d, QueueAppend
  <2>3. \A i \in 1..Len(posted) + 1 : i \in 1..Len(posted) \/ i = Len(posted) + 1
    BY <1>b
  <2>4. ASSUME NEW i \in 1..Len(posted) + 1 PROVE posted'[i] = i - 1
    <3>1. CASE i \in 1..Len(posted)
      BY <1>b, <2>1, <2>2, <3>1
    <3>2. CASE i = Len(posted) + 1
      BY <1>b, <2>1, <2>2, <3>2
    <3> QED BY <2>3, <3>1, <3>2
  <2> QED BY <2>1, <2>2, <2>4
<1>1. ASSUME SourceSend PROVE Announced'
  BY <1>1, <1>c DEF SourceSend
<1>2. ASSUME SourceCancelled PROVE Announced'
  BY <1>2, <1>c DEF SourceCancelled
<1>3. ASSUME GpTake PROVE Announced'
  BY <1>3, <1>c DEF GpTake
<1>4. ASSUME GpReport PROVE Announced'
  BY <1>4, <1>c DEF GpReport
<1>5. ASSUME GpSend PROVE Announced'
  BY <1>5, <1>c DEF GpSend
<1>6. ASSUME GpEnd PROVE Announced'
  BY <1>6, <1>c DEF GpEnd
<1>7. ASSUME GpStop PROVE Announced'
  BY <1>7, <1>c DEF GpStop
<1>8. ASSUME Encode PROVE Announced'
  BY <1>8, <1>c DEF Encode
<1>9. ASSUME EncodeCancelled PROVE Announced'
  BY <1>9, <1>c DEF EncodeCancelled
<1>10. ASSUME VideoTake PROVE Announced'
  BY <1>10, <1>c DEF VideoTake
<1>11. ASSUME Rotate PROVE Announced'
  <2>1. /\ posted' = Append(posted, seg) /\ vpc = "rotate" /\ vpc' = "open" /\ seg' = seg
        /\ res' = res /\ egctx' = egctx
    BY <1>11 DEF Rotate
  <2>2. res # "nil"
    BY <2>1, <1>a DEF Shape
  <2>3. egctx \/ (Len(posted') = seg + 1 /\ \A i \in DOMAIN posted' : posted'[i] = i - 1)
    BY <2>1, <2>2, <1>a, <1>d
  <2> QED BY <2>1, <2>2, <2>3, <1>b DEF Announced
<1>12. ASSUME OpenSegment PROVE Announced'
  <2>1. vpc = "open" /\ vpc' = "pop" /\ seg' = seg + 1 /\ UNCHANGED <<posted, res, egctx>>
    BY <1>12 DEF OpenSegment
  <2> QED BY <2>1, <1>a, <1>b DEF Announced
<1>13. ASSUME PopFront PROVE Announced'
  BY <1>13, <1>c DEF PopFront
<1>14. ASSUME VideoWrite PROVE Announced'
  BY <1>14, <1>c DEF VideoWrite
<1>15. ASSUME VideoEnd PROVE Announced'
  <2>1. /\ vpc = "take" /\ vpc' = "done" /\ UNCHANGED <<posted, seg, res>>
        /\ egctx' = (egctx \/ FALSE) \/ egctx' = (egctx \/ TRUE)
    BY <1>15 DEF VideoEnd, VideoReturn
  <2>2. egctx' = egctx \/ egctx'
    BY <2>1, <1>a DEF Typed, EndType
  <2> QED BY <2>1, <2>2, <1>a, <1>c DEF Announced
<1>16. ASSUME VideoFail PROVE Announced'
  BY <1>16 DEF VideoFail, Announced, VideoReturn
<1>17. ASSUME AudioTake PROVE Announced'
  BY <1>17, <1>c DEF AudioTake
<1>18. ASSUME FrontCut PROVE Announced'
  BY <1>18, <1>c DEF FrontCut
<1>19. ASSUME FlushUpTo PROVE Announced'
  BY <1>19, <1>c DEF FlushUpTo
<1>20. ASSUME FlushHeld PROVE Announced'
  BY <1>20, <1>c DEF FlushHeld, AudioWrites
<1>21. ASSUME FlushDone PROVE Announced'
  BY <1>21, <1>c DEF FlushDone
<1>22. ASSUME HoldBack PROVE Announced'
  BY <1>22, <1>c DEF HoldBack
<1>23. ASSUME Pass PROVE Announced'
  BY <1>23, <1>c DEF Pass
<1>24. ASSUME AudioWrite PROVE Announced'
  BY <1>24, <1>c DEF AudioWrite, AudioWrites
<1>25. ASSUME AudioClosed PROVE Announced'
  BY <1>25, <1>c DEF AudioClosed
<1>26. ASSUME AudioEnd PROVE Announced'
  <2>1. UNCHANGED <<posted, seg, res, vpc>> /\ (egctx' = egctx \/ egctx')
    BY <1>26 DEF AudioEnd
  <2> QED BY <2>1, <1>a, <1>c DEF Announced
<1>27. ASSUME AudioFail PROVE Announced'
  BY <1>27 DEF AudioFail, Announced
<1>28. ASSUME SinkReturn PROVE Announced'
  <2>1. /\ vpc = "done" /\ res = "none" /\ UNCHANGED <<seg, vpc, egctx>>
        /\ \/ egctx
           \/ res' = "error" /\ UNCHANGED posted
           \/ res' = "nil" /\ posted' = Append(posted, seg)
    BY <1>28 DEF SinkReturn, VideoDone
  <2>2. CASE egctx
    BY <2>1, <2>2 DEF Announced
  <2>3. CASE res' = "error" /\ UNCHANGED posted
    BY <2>1, <2>3, <1>a, <1>b DEF Announced
  <2>4. CASE res' = "nil" /\ posted' = Append(posted, seg)
    <3>1. egctx \/ (Len(posted') = seg + 1 /\ \A i \in DOMAIN posted' : posted'[i] = i - 1)
      BY <2>1, <2>4, <1>a, <1>d
    <3> QED BY <2>1, <2>4, <3>1, <1>b DEF Announced
  <2> QED BY <2>1, <2>2, <2>3, <2>4
<1> QED
  BY <1>1, <1>2, <1>3, <1>4, <1>5, <1>6, <1>7, <1>8, <1>9, <1>10, <1>11, <1>12, <1>13, <1>14,
     <1>15, <1>16, <1>17, <1>18, <1>19, <1>20, <1>21, <1>22, <1>23, <1>24, <1>25, <1>26, <1>27, <1>28
  DEF Next, Source, GoProcessor, Encoder, Video, Audio

(***************************************************************************)
(* The invariant.                                                          *)
(***************************************************************************)
LEMMA InitIInv == Init => IInv
<1> SUFFICES ASSUME Init PROVE IInv
  OBVIOUS
<1>1. /\ src = 1 /\ vin = <<>> /\ ain = <<>> /\ gpc = "take" /\ delay = <<>> /\ sending = <<>>
      /\ forced = {} /\ pipe = <<>> /\ vout = <<>> /\ cuts = <<>> /\ vpc = "take"
      /\ apc = "take" /\ held = <<>> /\ mu = "free" /\ seg = 0 /\ posted = <<>> /\ vlog = <<>>
      /\ alog = <<>> /\ ctx = FALSE /\ egctx = FALSE /\ res = "none"
  BY DEF Init
<1>2. Typed
  BY InitTyped
<1>3. (\A k \in 1..8 : Line[k] = {}) /\ Line[9] = VideoTimes
  <2>1. /\ Line[1] = {} /\ Line[2] = {} /\ Line[3] = {} /\ Line[4] = {} /\ Line[5] = {}
        /\ Line[6] = {} /\ Line[7] = {} /\ Line[8] = {}
    BY <1>1, LineAt, SetOfNone DEF Rotating
  <2>2. \A k \in 1..8 : k \in {1, 2, 3, 4, 5, 6, 7, 8}
    OBVIOUS
  <2>3. {j \in Places("video") : j >= 1} = Places("video")
    BY DEF Places
  <2> QED BY <1>1, <2>1, <2>2, <2>3, LineAt DEF VideoTimes
<1>4. Ordered
  <2>1. \A j, k \in 1..9 : j < k => j \in 1..8
    OBVIOUS
  <2>2. InOrder(Line)
    BY <1>3, <2>1 DEF InOrder
  <2> QED BY <1>1, <2>2, AscendingShort DEF Ordered, Sorted
<1>5. Shape
  BY <1>1 DEF Shape
<1>6. Cuts
  <2>1. Popped = {} /\ ToSet(cuts) = {}
    BY <1>1, SetOfNone DEF Popped
  <2>2. Cardinality({}) = 0 /\ IsFiniteSet({})
    BY FS_EmptySet
  <2> QED BY <1>1, <2>1, <2>2, AscendingShort DEF Cuts, Rotating
<1>7. VideoInSegment
  BY <1>1 DEF VideoInSegment
<1>8. VideoKept
  <2>1. \A k \in 1..9 : k \in 1..8 \/ k = 9
    OBVIOUS
  <2>2. \A k \in 1..9 : Line[k] \subseteq VideoTimes
    BY <1>3, <2>1
  <2>3. \A t \in VideoTimes : \E k \in 1..9 : t \in Line[k]
    <3>1. 9 \in 1..9
      OBVIOUS
    <3> QED BY <1>3, <3>1
  <2> QED BY <1>1, <2>2, <2>3 DEF VideoKept
<1>9. AudioKept
  <2>1. Read("audio") = {}
    BY <1>1 DEF Read, Places
  <2>2. Cardinality(Read("audio")) = 0
    BY <2>1, FS_EmptySet
  <2>3. Len(alog) = 0 /\ Len(held) = 0 /\ Len(ain) = 0 /\ ~InHand
    BY <1>1 DEF InHand
  <2> QED BY <1>1, <2>1, <2>2, <2>3 DEF AudioKept
<1>10. Announced
  <2>1. Len(posted) = 0 /\ DOMAIN posted = {}
    BY <1>1
  <2> QED BY <1>1, <2>1 DEF Announced
<1> QED BY <1>2, <1>4, <1>5, <1>6, <1>7, <1>8, <1>9, <1>10 DEF IInv

LEMMA StepIInv == IInv /\ [Next]_vars => IInv'
<1> SUFFICES ASSUME IInv, [Next]_vars PROVE IInv'
  OBVIOUS
<1>1. CASE Next
  <2>1. Typed'
    BY <1>1, TypeStep DEF IInv
  <2>2. Ordered'
    BY <1>1, LineStep DEF Moved, Ordered
  <2> QED BY <1>1, <2>1, <2>2, ShapeStep, CutsStep, SegmentStep, VideoKeptStep, AudioKeptStep,
             AnnouncedStep DEF IInv
<1>2. CASE UNCHANGED vars
  <2> USE <1>2 DEF vars, srcVars, gpVars, encVars, gateVars, vidVars, audVars, muxVars, endVars
  <2>1. /\ UNCHANGED <<src, vin, ain, gpc, delay, sending, forced, reported, pipe, vout, cuts>>
        /\ UNCHANGED <<progressUS, vpc, vpkt, apc, apkt, front, held, mu, seg, posted, vlog, alog>>
        /\ UNCHANGED <<ctx, egctx, fails, res>>
    OBVIOUS
  <2>2. Typed'
    BY <2>1 DEF IInv, Typed, SrcType, GpType, EncType, GateType, VidType, AudType, MuxType, EndType
  <2>3. Line' = Line /\ Rotating' = Rotating /\ Popped' = Popped /\ InHand' = InHand
    BY <2>1 DEF Line, Rotating, Popped, InHand
  <2>4. Ordered' /\ Shape'
    BY <2>1, <2>3 DEF IInv, Ordered, Sorted, Shape
  <2>5. \A c : (Pending(c) => Pending(c)') /\ (Past(c) => Past(c)')
    BY <2>1, <2>3 DEF Pending, Past
  <2>6. Cuts'
    BY <2>1, <2>3, <2>5 DEF IInv, Cuts
  <2>7. VideoInSegment' /\ Announced'
    BY <2>1 DEF IInv, VideoInSegment, SegmentOf, Announced
  <2>8. VideoKept' /\ AudioKept'
    BY <2>1, <2>3 DEF IInv, VideoKept, VideoTimes, AudioKept, Read
  <2> QED BY <2>2, <2>4, <2>6, <2>7, <2>8 DEF IInv
<1> QED BY <1>1, <1>2

(* The invariant holds in every reachable state.                           *)
THEOREM Invariant == Spec => []IInv
<1>1. Init => IInv
  BY InitIInv
<1>2. IInv /\ [Next]_vars => IInv'
  BY StepIInv
<1> QED BY <1>1, <1>2, PTL DEF Spec

(* Each variable keeps its type.                                           *)
THEOREM TypeCorrect == Spec => []TypeOK
<1>1. IInv => TypeOK
  BY TypedIsTypeOK DEF IInv
<1> QED BY <1>1, Invariant, PTL

(* A video packet is written into the segment its time belongs to, however *)
(* the Go processor, the encoder and the sink take turns, and also when a  *)
(* cut is reported twice: the keyframe of a cut never reaches the muxer    *)
(* before the cut is in the gate, and rotates it once.                     *)
THEOREM InItsSegment == Spec => []VideoInSegment
<1>1. IInv => VideoInSegment
  BY DEF IInv
<1> QED BY <1>1, Invariant, PTL

(* When the sink returns nil and nobody cancelled, every video packet is in *)
(* the files in order, every audio packet is, also those held back for a    *)
(* rotation, and each segment has been announced once.                      *)
THEOREM NilIsAllWritten == Spec => []NilMeansAllWritten
<1>1. ASSUME IInv PROVE NilMeansAllWritten
  <2> SUFFICES ASSUME res = "nil", ~ctx
               PROVE /\ {vlog[i].t : i \in 1..Len(vlog)} = {Items[i].t : i \in Places("video")}
                     /\ \A i, j \in 1..Len(vlog) : i < j => vlog[i].t < vlog[j].t
                     /\ Len(alog) = Cardinality(Places("audio"))
                     /\ \A i \in Places("audio") : \E j \in 1..Len(alog) : alog[j].t = Items[i].t
                     /\ posted = [i \in 1..seg + 1 |-> i - 1]
    BY DEF NilMeansAllWritten
  <2>1. vpc = "done" /\ apc = "done" /\ ~egctx
    BY <1>1 DEF IInv, Shape
  <2>2. gpc = "done" /\ pipe = <<>> /\ vout = <<>> /\ src > Len(Items) /\ vin = <<>>
    BY <1>1, <2>1 DEF IInv, VideoKept
  <2>3. sending = <<>> /\ delay = <<>>
    BY <1>1, <2>2 DEF IInv, Shape
  <2>4. \A i \in 1..Len(Items) : i < src /\ ~(i >= src)
    BY <1>1, <2>2, ItemFacts DEF IInv, Typed, SrcType
  <2>5. \A k \in 1..9 : k = 1 \/ Line[k] = {}
    <3>1. Line[2] = {} /\ Line[3] = {} /\ Line[4] = {} /\ Line[5] = {}
      BY <2>1, <2>2, <2>3, LineAt, SetOfNone DEF Rotating
    <3>2. Line[6] = {} /\ Line[7] = {} /\ Line[8] = {}
      BY <2>2, <2>3, LineAt, SetOfNone
    <3>3. {j \in Places("video") : j >= src} = {}
      BY <2>4 DEF Places
    <3>4. Line[9] = {}
      BY <3>3, LineAt
    <3>5. \A k \in 1..9 : k \in {1, 2, 3, 4, 5, 6, 7, 8, 9}
      OBVIOUS
    <3> QED BY <3>1, <3>2, <3>4, <3>5
  <2>6. DOMAIN vlog = 1..Len(vlog) /\ DOMAIN alog = 1..Len(alog) /\ Len(alog) \in Nat
    BY <1>1, SetOfSeq DEF IInv, Typed, MuxType
  <2>7. Line[1] = VideoTimes
    <3>1. 1 \in 1..9
      OBVIOUS
    <3>2. Line[1] \subseteq VideoTimes
      BY <1>1, <3>1 DEF IInv, VideoKept
    <3>3. \A t \in VideoTimes : \E k \in 1..9 : t \in Line[k]
      BY <1>1, <2>1 DEF IInv, VideoKept
    <3> QED BY <2>5, <3>2, <3>3
  <2>8. {vlog[i].t : i \in 1..Len(vlog)} = {Items[i].t : i \in Places("video")}
    BY <2>6, <2>7, LineAt DEF VideoTimes
  <2>9. \A i, j \in 1..Len(vlog) : i < j => vlog[i].t < vlog[j].t
    BY <1>1, <2>6 DEF IInv, Ordered, Sorted
  <2>10. Read("audio") = Places("audio")
    BY <2>4 DEF Read, Places
  <2>11. ~InHand /\ held = <<>> /\ ain = <<>>
    BY <1>1, <2>1 DEF IInv, AudioKept, InHand
  <2>12. Len(alog) = Cardinality(Places("audio"))
    <3>1. Len(alog) + Len(held) + Len(ain) + 0 = Cardinality(Places("audio"))
      BY <1>1, <2>1, <2>10, <2>11 DEF IInv, AudioKept
    <3>2. Len(held) = 0 /\ Len(ain) = 0
      BY <2>11
    <3> QED BY <2>6, <3>1, <3>2
  <2>13. \A i \in Places("audio") : \E j \in 1..Len(alog) : alog[j].t = Items[i].t
    <3>1. \A i \in Read("audio") : Heard(i)
      BY <1>1, <2>1 DEF IInv, AudioKept, Heard
    <3> QED BY <2>6, <2>10, <2>11, <3>1, SetOfNone DEF Heard
  <2>14. posted = [i \in 1..seg + 1 |-> i - 1]
    <3>1. seg \in Nat /\ posted \in Seq(Nat)
      BY <1>1 DEF IInv, Typed, MuxType
    <3>2. Len(posted) = seg + 0 + 1 /\ \A i \in DOMAIN posted : posted[i] = i - 1
      BY <1>1, <2>1 DEF IInv, Announced
    <3>3. DOMAIN posted = 1..seg + 1
      BY <3>1, <3>2, LenProperties
    <3> QED BY <3>1, <3>2, <3>3, LenProperties
  <2> QED BY <2>8, <2>9, <2>12, <2>13, <2>14
<1> QED BY <1>1, Invariant, PTL

(* As long as no call of the sink has failed, no packet is written into a   *)
(* segment that has been announced: the mutex is free only while the file   *)
(* of the current segment is open, and only earlier ones are announced.     *)
Written == WritesOpen(vlog, alog, vlog', alog', posted)
LEMMA OpenWhenFree ==
  ASSUME IInv, ~egctx, mu = "free", res # "nil"
  PROVE  seg \notin ToSet(posted)
<1>1. seg \in Nat /\ posted \in Seq(Nat) /\ Len(posted) \in Nat /\ DOMAIN posted = 1..Len(posted)
  BY SetOfSeq DEF IInv, Typed, MuxType
<1>2. vpc # "open"
  BY DEF IInv, Shape
<1>3. Len(posted) = seg + 0 + 0 /\ \A i \in DOMAIN posted : posted[i] = i - 1
  BY <1>2 DEF IInv, Announced
<1>4. \A i \in DOMAIN posted : posted[i] # seg
  BY <1>1, <1>3
<1> QED BY <1>4 DEF ToSet

LEMMA BothLogs ==
  ASSUME NEW S, NEW v \in Seq(S), NEW a \in Seq(S)
  PROVE  ToSet(v \o a) = ToSet(v) \cup ToSet(a)
<1>1. /\ v \o a \in Seq(S) /\ Len(v \o a) = Len(v) + Len(a) /\ Len(v) \in Nat /\ Len(a) \in Nat
      /\ \A i \in 1..Len(v) + Len(a) : (v \o a)[i] = IF i <= Len(v) THEN v[i] ELSE a[i - Len(v)]
      /\ DOMAIN v = 1..Len(v) /\ DOMAIN a = 1..Len(a) /\ DOMAIN (v \o a) = 1..Len(v) + Len(a)
  BY ConcatProperties, LenProperties
<1>2. ASSUME NEW x \in ToSet(v \o a) PROVE x \in ToSet(v) \cup ToSet(a)
  <2>1. PICK i \in 1..Len(v) + Len(a) : x = (v \o a)[i]
    BY <1>1, <1>2 DEF ToSet
  <2>2. CASE i <= Len(v)
    <3>1. i \in 1..Len(v) /\ x = v[i]
      BY <1>1, <2>1, <2>2
    <3> QED BY <1>1, <3>1 DEF ToSet
  <2>3. CASE ~(i <= Len(v))
    <3>1. i - Len(v) \in 1..Len(a) /\ x = a[i - Len(v)]
      BY <1>1, <2>1, <2>3
    <3> QED BY <1>1, <3>1 DEF ToSet
  <2> QED BY <2>2, <2>3
<1>3. ASSUME NEW x \in ToSet(v) PROVE x \in ToSet(v \o a)
  <2>1. PICK i \in 1..Len(v) : x = v[i]
    BY <1>1, <1>3 DEF ToSet
  <2>2. i \in 1..Len(v) + Len(a) /\ x = (v \o a)[i]
    BY <1>1, <2>1
  <2> QED BY <1>1, <2>2 DEF ToSet
<1>4. ASSUME NEW x \in ToSet(a) PROVE x \in ToSet(v \o a)
  <2>1. PICK i \in 1..Len(a) : x = a[i]
    BY <1>1, <1>4 DEF ToSet
  <2>2. i + Len(v) \in 1..Len(v) + Len(a) /\ x = (v \o a)[i + Len(v)]
    BY <1>1, <2>1
  <2> QED BY <1>1, <2>2 DEF ToSet
<1> QED BY <1>2, <1>3, <1>4

LEMMA WriteStep == ASSUME IInv, [Next]_vars, ~egctx PROVE Written
<1> USE DEF srcVars, gpVars, encVars, gateVars, vidVars, audVars, muxVars, endVars
<1> DEFINE R == [t : Nat, seg : Nat]
<1>a. /\ vlog \in Seq(R) /\ alog \in Seq(R) /\ seg \in Nat /\ vpkt \in Nat /\ apkt \in Nat
      /\ held \in Seq(Nat)
  BY DEF IInv, Typed, MuxType, VidType, AudType
<1>b. ASSUME UNCHANGED <<vlog, alog>> PROVE Written
  BY <1>b DEF Written, WritesOpen
<1>c. ASSUME NEW r \in R, r.seg \notin ToSet(posted),
             \/ vlog' = Append(vlog, r) /\ alog' = alog
             \/ alog' = Append(alog, r) /\ vlog' = vlog
      PROVE Written
  <2> HIDE DEF R
  <2>1. /\ vlog' \in Seq(R) /\ alog' \in Seq(R)
        /\ ToSet(vlog') \cup ToSet(alog') = ToSet(vlog) \cup ToSet(alog) \cup {r}
    <3>1. CASE vlog' = Append(vlog, r) /\ alog' = alog
      <4>1. Append(vlog, r) \in Seq(R) /\ ToSet(Append(vlog, r)) = ToSet(vlog) \cup {r}
        BY <1>a, QueueAppend
      <4> QED BY <1>a, <3>1, <4>1
    <3>2. CASE alog' = Append(alog, r) /\ vlog' = vlog
      <4>1. Append(alog, r) \in Seq(R) /\ ToSet(Append(alog, r)) = ToSet(alog) \cup {r}
        BY <1>a, QueueAppend
      <4> QED BY <1>a, <3>2, <4>1
    <3> QED BY <1>c, <3>1, <3>2
  <2>2. /\ ToSet(vlog \o alog) = ToSet(vlog) \cup ToSet(alog)
        /\ ToSet(vlog' \o alog') = ToSet(vlog') \cup ToSet(alog')
    BY <1>a, <2>1, BothLogs
  <2> QED BY <1>c, <2>1, <2>2 DEF Written, WritesOpen
<1>d. res = "nil" => vpc = "done" /\ apc = "done"
  BY DEF IInv, Shape
<1>e. CASE Next
  <2>1. ASSUME SourceSend PROVE Written
    <3> QED BY <2>1, <1>b DEF SourceSend
  <2>2. ASSUME SourceCancelled PROVE Written
    <3> QED BY <2>2, <1>b DEF SourceCancelled
  <2>3. ASSUME GpTake PROVE Written
    <3> QED BY <2>3, <1>b DEF GpTake
  <2>4. ASSUME GpReport PROVE Written
    <3> QED BY <2>4, <1>b DEF GpReport
  <2>5. ASSUME GpSend PROVE Written
    <3> QED BY <2>5, <1>b DEF GpSend
  <2>6. ASSUME GpEnd PROVE Written
    <3> QED BY <2>6, <1>b DEF GpEnd
  <2>7. ASSUME GpStop PROVE Written
    <3> QED BY <2>7, <1>b DEF GpStop
  <2>8. ASSUME Encode PROVE Written
    <3> QED BY <2>8, <1>b DEF Encode
  <2>9. ASSUME EncodeCancelled PROVE Written
    <3> QED BY <2>9, <1>b DEF EncodeCancelled
  <2>10. ASSUME VideoTake PROVE Written
    <3> QED BY <2>10, <1>b DEF VideoTake
  <2>11. ASSUME Rotate PROVE Written
    <3> QED BY <2>11, <1>b DEF Rotate
  <2>12. ASSUME OpenSegment PROVE Written
    <3> QED BY <2>12, <1>b DEF OpenSegment
  <2>13. ASSUME PopFront PROVE Written
    <3> QED BY <2>13, <1>b DEF PopFront
  <2>14. ASSUME VideoWrite PROVE Written
    <3> DEFINE r == [t |-> vpkt, seg |-> seg]
    <3>1. vlog' = Append(vlog, r) /\ alog' = alog /\ mu = "free" /\ res # "nil"
      BY <2>14, <1>d DEF VideoWrite
    <3>2. r \in R /\ r.seg = seg
      BY <1>a
    <3>3. seg \notin ToSet(posted)
      BY <3>1, OpenWhenFree
    <3> HIDE DEF r
    <3> QED BY <3>1, <3>2, <3>3, <1>c
  <2>15. ASSUME VideoEnd PROVE Written
    <3> QED BY <2>15, <1>b DEF VideoEnd, VideoReturn
  <2>16. ASSUME VideoFail PROVE Written
    <3> QED BY <2>16, <1>b DEF VideoFail, VideoReturn
  <2>17. ASSUME AudioTake PROVE Written
    <3> QED BY <2>17, <1>b DEF AudioTake
  <2>18. ASSUME FrontCut PROVE Written
    <3> QED BY <2>18, <1>b DEF FrontCut
  <2>19. ASSUME FlushUpTo PROVE Written
    <3> QED BY <2>19, <1>b DEF FlushUpTo
  <2>20. ASSUME FlushHeld PROVE Written
    <3> DEFINE r == [t |-> held[1], seg |-> seg]
    <3>1. alog' = Append(alog, r) /\ vlog' = vlog /\ mu = "free" /\ res # "nil"
      BY <2>20, <1>d DEF FlushHeld, AudioWrites
    <3>2. r \in R /\ r.seg = seg
      BY <2>20, <1>a, QueueTail DEF FlushHeld
    <3>3. seg \notin ToSet(posted)
      BY <3>1, OpenWhenFree
    <3> HIDE DEF r
    <3> QED BY <3>1, <3>2, <3>3, <1>c
  <2>21. ASSUME FlushDone PROVE Written
    <3> QED BY <2>21, <1>b DEF FlushDone
  <2>22. ASSUME HoldBack PROVE Written
    <3> QED BY <2>22, <1>b DEF HoldBack
  <2>23. ASSUME Pass PROVE Written
    <3> QED BY <2>23, <1>b DEF Pass
  <2>24. ASSUME AudioWrite PROVE Written
    <3> DEFINE r == [t |-> apkt, seg |-> seg]
    <3>1. alog' = Append(alog, r) /\ vlog' = vlog /\ mu = "free" /\ res # "nil"
      BY <2>24, <1>d DEF AudioWrite, AudioWrites
    <3>2. r \in R /\ r.seg = seg
      BY <1>a
    <3>3. seg \notin ToSet(posted)
      BY <3>1, OpenWhenFree
    <3> HIDE DEF r
    <3> QED BY <3>1, <3>2, <3>3, <1>c
  <2>25. ASSUME AudioClosed PROVE Written
    <3> QED BY <2>25, <1>b DEF AudioClosed
  <2>26. ASSUME AudioEnd PROVE Written
    <3> QED BY <2>26, <1>b DEF AudioEnd
  <2>27. ASSUME AudioFail PROVE Written
    <3> QED BY <2>27, <1>b DEF AudioFail
  <2>28. ASSUME SinkReturn PROVE Written
    <3> QED BY <2>28, <1>b DEF SinkReturn
  <2> QED
    BY <1>e, <2>1, <2>2, <2>3, <2>4, <2>5, <2>6, <2>7, <2>8, <2>9, <2>10, <2>11, <2>12, <2>13, <2>14,
       <2>15, <2>16, <2>17, <2>18, <2>19, <2>20, <2>21, <2>22, <2>23, <2>24, <2>25, <2>26, <2>27, <2>28
    DEF Next, Source, GoProcessor, Encoder, Video, Audio
<1>f. CASE UNCHANGED vars
  BY <1>b, <1>f DEF vars
<1> QED BY <1>e, <1>f

(* Nothing is written into a segment that has been announced, while nobody  *)
(* cancelled: the sink's mutex covers the close of the old file, its        *)
(* announcement and the opening of the next.                                *)
THEOREM ClosedStaysClosed == Spec => NoWriteAfterAnnounce
<1>1. IInv /\ [Next]_vars => egctx \/ Written
  BY WriteStep
<1>2. Spec => [][IInv /\ [Next]_vars]_vars
  BY Invariant, PTL DEF Spec
<1>3. [IInv /\ [Next]_vars]_vars => [egctx \/ Written]_<<vlog, alog>>
  BY <1>1 DEF vars, muxVars
<1> HIDE DEF Written
<1>4. Spec => [][egctx \/ Written]_<<vlog, alog>>
  BY <1>2, <1>3, PTL
<1> QED BY <1>4 DEF NoWriteAfterAnnounce, Written

=============================================================================
