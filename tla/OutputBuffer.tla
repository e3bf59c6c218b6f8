---------------------------- MODULE OutputBuffer ----------------------------
(***************************************************************************)
(* The real-time output buffer (job/output_buffer.go) and the part of the  *)
(* sink handler around it (job/handlers_sink.go, phases A and D).          *)
(*                                                                         *)
(* In real-time mode every output fills its own buffer until it holds      *)
(* Target of media, and no output writes before all of them are ready.     *)
(* Then the buffer is drained to the muxer and goes on as a rolling one:   *)
(* one producer goroutine per input channel enqueues, one consumer takes   *)
(* the packet with the lowest DTS at its wall-clock time.                  *)
(*                                                                         *)
(* The upstream of a channel is its feed, of which the goroutines here     *)
(* have received the first next[c] - 1 packets.  Wall-clock pacing is an   *)
(* arbitrary delay between taking a packet and writing it.                 *)
(***************************************************************************)
EXTENDS Integers, Sequences, FiniteSets, FiniteSetsExt

CONSTANTS
    Output, Chan,   \* real-time outputs, input channels
    OutOf,          \* the output a channel belongs to
    Feed,           \* per channel the [dts, pts] of its packets, in order
    Target, MaxDur, \* per output the fill target and the hard cap
    NoTs,           \* AV_NOPTS_VALUE
    None            \* "no packet"

Chans(o) == {c \in Chan : OutOf[c] = o}
Packet == UNION {{<<c, i>> : i \in DOMAIN Feed[c]} : c \in Chan}
Dts(p) == Feed[p[1]][p[2]].dts
Pts(p) == Feed[p[1]][p[2]].pts
Key(p) == IF Dts(p) # NoTs THEN Dts(p) ELSE Pts(p)

(* Encoders and demuxers give the muxer each stream in decoding order.      *)
Stamp == Int \cup {NoTs}
ASSUME FeedAssumption ==
    /\ IsFiniteSet(Chan) /\ OutOf \in [Chan -> Output] /\ \A o \in Output : Chans(o) # {}
    /\ \A c \in Chan : Feed[c] \in Seq([dts : Stamp, pts : Stamp])
    /\ \A c \in Chan : \A i, j \in DOMAIN Feed[c] :
          i <= j => Key(<<c, i>>) # NoTs /\ Key(<<c, i>>) <= Key(<<c, j>>)
(* NewOutputBuffer replaces a cap below the target by twice the target.     *)
ASSUME CapAssumption ==
    /\ Target \in [Output -> Nat \ {0}] /\ MaxDur \in [Output -> Nat]
    /\ \A o \in Output : MaxDur[o] >= Target[o]
    /\ None \notin Packet

VARIABLES
    next, cut,      \* next packet of a channel; the upstream stopped early
    gor, hand,      \* the goroutine that reads a channel, the packet it holds
    leftover,       \* a packet the fill goroutine came too late with
    buf, state, ready,  \* an OutputBuffer: packets, state, readyCh closed
    eos, notify,    \* ... EnqueueEOS calls, the one-slot notifyCh
    graph,          \* graphReady.run
    pc, item,       \* the sink handler, the packets it took out of the buffer
    ret,            \* its result
    fate,           \* what became of a packet
    cancelled, outside  \* the handlers' context, the caller's cancel

chanVars == <<next, cut, gor, hand, leftover>>
bufVars  == <<buf, state, ready, eos, notify>>
sinkVars == <<pc, item, ret>>
ctxVars  == <<cancelled, outside>>
vars == <<chanVars, bufVars, graph, sinkVars, fate, ctxVars>>

States == {"FILLING", "READY", "READY_PARTIAL", "STREAMING", "DRAINING"}
Streaming(o) == state[o] \in {"STREAMING", "DRAINING"}

Stamps(b) == {Pts(b[i]) : i \in DOMAIN b} \ {NoTs}
Span(b) == IF Stamps(b) = {} THEN 0 ELSE Max(Stamps(b)) - Min(Stamps(b))

(* The suffix of b that is left when the front is evicted until the span    *)
(* respects the cap.                                                        *)
Evict(o, b) ==
    LET Suffix(k) == SubSeq(b, k, Len(b))
        fits == {k \in DOMAIN b : k = Len(b) \/ Span(Suffix(k)) <= MaxDur[o]}
    IN Suffix(Min(fits))

Members(b) == {b[i] : i \in DOMAIN b}
Set(ps, f) == fate' = [p \in Packet |-> IF p \in ps THEN f ELSE fate[p]]

(* Append a packet and evict what the cap no longer allows. *)
Push(o, p) ==
    /\ buf' = [buf EXCEPT ![o] = Evict(o, Append(@, p))]
    /\ Set((Members(buf[o]) \cup {p}) \ Members(buf'[o]), "evicted")

-----------------------------------------------------------------------------
Init ==
    /\ next = [c \in Chan |-> 1] /\ cut = FALSE
    /\ gor = [c \in Chan |-> "fill"] /\ hand = [c \in Chan |-> None]
    /\ leftover = [c \in Chan |-> None]
    /\ buf = [o \in Output |-> <<>>] /\ state = [o \in Output |-> "FILLING"]
    /\ ready = [o \in Output |-> FALSE]
    /\ eos = [o \in Output |-> 0] /\ notify = [o \in Output |-> FALSE]
    /\ graph = "waiting"
    /\ pc = [o \in Output |-> "fill"] /\ item = [o \in Output |-> <<>>]
    /\ ret = [o \in Output |-> "nil"]
    /\ fate = [p \in Packet |-> "upstream"]
    /\ cancelled = FALSE /\ outside = FALSE

(* The channel is closed and empty. *)
AtEnd(c) == cut \/ next[c] > Len(Feed[c])

Receive(c) ==
    /\ gor[c] \in {"fill", "produce"} /\ ~AtEnd(c)
    /\ hand' = [hand EXCEPT ![c] = <<c, next[c]>>]
    /\ next' = [next EXCEPT ![c] = @ + 1]
    /\ gor' = [gor EXCEPT ![c] = IF @ = "fill" THEN "filling" ELSE "enqueuing"]
    /\ Set({<<c, next[c]>>}, "alive")
    /\ UNCHANGED <<cut, leftover, bufVars, graph, sinkVars, ctxVars>>

(* After a cancellation the upstream handlers return and their channels are *)
(* closed; what is left on them is drained by the scheduler.                *)
UpstreamStops ==
    /\ cancelled /\ ~cut
    /\ cut' = TRUE
    /\ UNCHANGED <<next, gor, hand, leftover, bufVars, graph, sinkVars, fate, ctxVars>>

(****************** phase A: one fill goroutine per channel ****************)
(* markReadyLocked.  Variant: an output that ended before it was full is    *)
(* not ready.                                                               *)
MarkFull(o, s) ==
    IF state[o] = "FILLING" /\ s = "READY"
    THEN state' = [state EXCEPT ![o] = s] /\ ready' = [ready EXCEPT ![o] = TRUE]
    ELSE UNCHANGED <<state, ready>>
MarkReady(o, s) ==
    IF state[o] = "FILLING"
    THEN state' = [state EXCEPT ![o] = s] /\ ready' = [ready EXCEPT ![o] = TRUE]
    ELSE UNCHANGED <<state, ready>>

AddOrPass(c) ==
    LET o == OutOf[c] IN
    /\ gor[c] = "filling" /\ ~Streaming(o)
    /\ Push(o, hand[c])
    /\ IF Span(buf'[o]) >= Target[o] THEN MarkReady(o, "READY")
       ELSE UNCHANGED <<state, ready>>
    /\ hand' = [hand EXCEPT ![c] = None]
    /\ gor' = [gor EXCEPT ![c] = "fill"]
    /\ UNCHANGED <<next, cut, leftover, eos, notify, graph, sinkVars, ctxVars>>

(* pass = true: the handler, not the buffer, gets the packet. *)
Park(c) ==
    /\ gor[c] = "filling" /\ Streaming(OutOf[c])
    /\ leftover' = [leftover EXCEPT ![c] = hand[c]]
    /\ hand' = [hand EXCEPT ![c] = None]
    /\ gor' = [gor EXCEPT ![c] = "filled"]
    /\ UNCHANGED <<next, cut, bufVars, graph, sinkVars, fate, ctxVars>>

(* fillCtx ends with the run's context, when the handler is done with the   *)
(* drained packets, and when it returns.                                    *)
FillCancelled(o) == cancelled \/ pc[o] \notin {"fill", "graph", "flush"}
FillEnd(c) ==
    /\ gor[c] = "fill" /\ (AtEnd(c) \/ FillCancelled(OutOf[c]))
    /\ gor' = [gor EXCEPT ![c] = "filled"]
    /\ UNCHANGED <<next, cut, hand, leftover, bufVars, graph, sinkVars, fate, ctxVars>>

AllFilled(o) == \A c \in Chans(o) : gor[c] = "filled"

(****************** the sink handler ***************************************)
Goto(o, l) == pc' = [pc EXCEPT ![o] = l]

(* An error cancels the context of every other handler. *)
Return(o, r) ==
    /\ Goto(o, "returned") /\ ret' = [ret EXCEPT ![o] = r]
    /\ cancelled' = (cancelled \/ r # "nil")
    /\ UNCHANGED outside

OutputReady(o) ==
    /\ pc[o] = "fill"
    /\ \/ ready[o] /\ UNCHANGED <<state, ready>>
       \/ AllFilled(o) /\ MarkReady(o, "READY_PARTIAL")
    /\ Goto(o, "graph")
    /\ UNCHANGED <<chanVars, buf, eos, notify, graph, item, ret, fate, ctxVars>>

WaitCancelled(o) ==
    /\ pc[o] \in {"fill", "graph"} /\ cancelled
    /\ Return(o, "ctx")
    /\ UNCHANGED <<chanVars, bufVars, graph, item, fate>>

(* Variant: the output looks at its own readiness only. *)
OwnReady(o) == ready[o]
GateOpen(o) == graph = "ready"

(* Variant: the buffer keeps what it hands over. *)
KeptByDrain(o) == buf[o]
AfterDrain(o) == <<>>

Drain(o) ==
    /\ pc[o] = "graph" /\ GateOpen(o)
    /\ item' = [item EXCEPT ![o] = buf[o]]
    /\ buf' = [buf EXCEPT ![o] = AfterDrain(o)]
    /\ state' = [state EXCEPT ![o] = "STREAMING"]
    /\ ready' = [ready EXCEPT ![o] = TRUE]
    /\ Goto(o, "flush")
    /\ UNCHANGED <<chanVars, eos, notify, graph, ret, fate, ctxVars>>

(* processOne closes the packet whether the write succeeds or not.          *)
Write(o) ==
    /\ pc[o] \in {"flush", "write"} /\ item[o] # <<>>
    /\ Set({Head(item[o])}, "written")
    /\ item' = [item EXCEPT ![o] = Tail(@)]
    /\ Goto(o, IF pc[o] = "write" THEN "roll" ELSE "flush")
    /\ UNCHANGED <<chanVars, bufVars, graph, ret, ctxVars>>

(* A muxer error.  The rest of the drained packets is dropped on the floor. *)
WriteFails(o) ==
    /\ pc[o] \in {"flush", "write"} /\ item[o] # <<>>
    /\ fate' = [p \in Packet |-> CASE p = Head(item[o]) -> "closed"
                                   [] p \in Members(Tail(item[o])) -> "lost"
                                   [] OTHER -> fate[p]]
    /\ item' = [item EXCEPT ![o] = <<>>]
    /\ Return(o, "err")
    /\ UNCHANGED <<chanVars, bufVars, graph>>

(* fillCancel, eosWG.Wait *)
Flushed(o) ==
    /\ pc[o] = "flush" /\ item[o] = <<>>
    /\ Goto(o, "join")
    /\ UNCHANGED <<chanVars, bufVars, graph, item, ret, fate, ctxVars>>

WriteLeftover(o) ==
    /\ pc[o] = "join" /\ AllFilled(o)
    /\ \E c \in Chans(o) :
          /\ leftover[c] # None
          /\ \/ /\ leftover' = [leftover EXCEPT ![c] = None]
                /\ Set({leftover[c]}, "written")
                /\ UNCHANGED <<pc, ret, ctxVars>>
             \/ /\ leftover' = [d \in Chan |-> IF OutOf[d] = o THEN None ELSE leftover[d]]
                /\ fate' = [p \in Packet |->
                              IF p = leftover[c] THEN "closed"
                              ELSE IF \E d \in Chans(o) : p = leftover[d] THEN "lost"
                              ELSE fate[p]]
                /\ Return(o, "err")
    /\ UNCHANGED <<next, cut, gor, hand, bufVars, graph, item>>

(******** phase D: a rolling buffer, one producer goroutine per channel ****)
StartRolling(o) ==
    /\ pc[o] = "join" /\ AllFilled(o)
    /\ \A c \in Chans(o) : leftover[c] = None
    /\ gor' = [c \in Chan |-> IF c \in Chans(o) THEN "produce" ELSE gor[c]]
    /\ Goto(o, "roll")
    /\ UNCHANGED <<next, cut, hand, leftover, bufVars, graph, item, ret, fate, ctxVars>>

(* Producers know no context and neither they nor Enqueue look at the       *)
(* state: they go on when the handler has returned.                         *)
Enqueue(c) ==
    /\ gor[c] = "enqueuing"
    /\ Push(OutOf[c], hand[c])
    /\ hand' = [hand EXCEPT ![c] = None]
    /\ gor' = [gor EXCEPT ![c] = "waking"]
    /\ UNCHANGED <<next, cut, leftover, state, ready, eos, notify, graph, sinkVars, ctxVars>>

EnqueueEOS(c) ==
    /\ gor[c] = "produce" /\ AtEnd(c)
    /\ eos' = [eos EXCEPT ![OutOf[c]] = @ + 1]
    /\ gor' = [gor EXCEPT ![c] = "lastwake"]
    /\ UNCHANGED <<next, cut, hand, leftover, buf, state, ready, notify, graph,
                   sinkVars, fate, ctxVars>>

(* A send on the one-slot channel that never blocks. *)
Slot(c) == TRUE
(* The range over the channel ends once. *)
AfterWake(c) == IF gor[c] = "waking" THEN "produce" ELSE "ended"
Notify(c) ==
    /\ gor[c] \in {"waking", "lastwake"}
    /\ notify' = [notify EXCEPT ![OutOf[c]] = Slot(c)]
    /\ gor' = [gor EXCEPT ![c] = AfterWake(c)]
    /\ UNCHANGED <<next, cut, hand, leftover, buf, state, ready, eos, graph,
                   sinkVars, fate, ctxVars>>

(* popMinPTSLocked: the oldest of the packets with the lowest timestamp.    *)
(* Variant: by presentation order.                                          *)
MinPts(b) == CHOOSE i \in DOMAIN b : \A j \in DOMAIN b :
                Pts(b[i]) < Pts(b[j]) \/ (Pts(b[i]) = Pts(b[j]) /\ i <= j)
MinKey(b) == CHOOSE i \in DOMAIN b : \A j \in DOMAIN b :
                Key(b[i]) < Key(b[j]) \/ (Key(b[i]) = Key(b[j]) /\ i <= j)
Remove(b, i) == SubSeq(b, 1, i - 1) \o SubSeq(b, i + 1, Len(b))

TakePaced(o) ==
    /\ pc[o] = "roll" /\ buf[o] # <<>>
    /\ LET i == MinKey(buf[o]) IN
          /\ item' = [item EXCEPT ![o] = <<buf[o][i]>>]
          /\ buf' = [buf EXCEPT ![o] = Remove(@, i)]
    /\ Goto(o, "write")
    /\ UNCHANGED <<chanVars, state, ready, eos, notify, graph, ret, fate, ctxVars>>

(* Variant: the end of one channel ends the output. *)
SomeDone(o) == eos[o] > 0
AllDone(o) == eos[o] >= Cardinality(Chans(o))

(* The trailer, which may fail. *)
Finish(o) == \E r \in {"nil", "err"} : Return(o, r)

TakeNothing(o) ==
    /\ pc[o] = "roll" /\ buf[o] = <<>>
    /\ IF AllDone(o) THEN Finish(o) ELSE Goto(o, "idle") /\ UNCHANGED <<ret, ctxVars>>
    /\ UNCHANGED <<chanVars, bufVars, graph, item, fate>>

Wakeup(o) ==
    /\ pc[o] = "idle" /\ notify[o]
    /\ notify' = [notify EXCEPT ![o] = FALSE]
    /\ Goto(o, "roll")
    /\ UNCHANGED <<chanVars, buf, state, ready, eos, graph, item, ret, fate, ctxVars>>

IdleCancelled(o) ==
    /\ pc[o] = "idle" /\ cancelled
    /\ Finish(o)
    /\ UNCHANGED <<chanVars, bufVars, graph, item, fate>>

(****************** the aggregator and the run *****************************)
(* graphReady.run waits for one output after the other: no output ceases to *)
(* be ready.  Its context is the caller's, not the handlers'.               *)
GraphReady ==
    /\ graph = "waiting" /\ \A o \in Output : ready[o]
    /\ graph' = "ready"
    /\ UNCHANGED <<chanVars, bufVars, sinkVars, fate, ctxVars>>

GraphStops ==
    /\ graph = "waiting" /\ outside
    /\ graph' = "stopped"
    /\ UNCHANGED <<chanVars, bufVars, sinkVars, fate, ctxVars>>

OutsideCancel ==
    /\ ~outside /\ \E o \in Output : pc[o] # "returned"
    /\ outside' = TRUE /\ cancelled' = TRUE
    /\ UNCHANGED <<chanVars, bufVars, graph, sinkVars, fate>>

(* graphRunner.close, after Scheduler.Run: the handlers are back and every  *)
(* channel is closed, but nobody has waited for the goroutines.             *)
RunOver == (\A o \in Output : pc[o] = "returned") /\ (\A c \in Chan : AtEnd(c))
Close(o) ==
    /\ RunOver /\ state[o] # "DRAINING"
    /\ Set(Members(buf[o]), "closed")
    /\ buf' = [buf EXCEPT ![o] = <<>>]
    /\ state' = [state EXCEPT ![o] = "DRAINING"]
    /\ UNCHANGED <<chanVars, ready, eos, notify, graph, sinkVars, ctxVars>>

ChanStep(c) ==
    \/ Receive(c) \/ AddOrPass(c) \/ Park(c) \/ FillEnd(c)
    \/ Enqueue(c) \/ EnqueueEOS(c) \/ Notify(c)
SinkStep(o) ==
    \/ OutputReady(o) \/ WaitCancelled(o) \/ Drain(o) \/ Write(o) \/ Flushed(o)
    \/ WriteLeftover(o) \/ StartRolling(o) \/ TakePaced(o) \/ TakeNothing(o)
    \/ Wakeup(o) \/ IdleCancelled(o)

Next ==
    \/ \E c \in Chan : ChanStep(c)
    \/ \E o \in Output : SinkStep(o) \/ WriteFails(o) \/ Close(o)
    \/ UpstreamStops \/ GraphReady \/ GraphStops \/ OutsideCancel

(* Goroutines are scheduled and the upstream of a channel delivers or ends; *)
(* nobody is obliged to fail or to cancel.                                  *)
Fairness ==
    /\ \A c \in Chan : WF_vars(ChanStep(c))
    /\ \A o \in Output : WF_vars(SinkStep(o))
    /\ WF_vars(GraphReady) /\ WF_vars(UpstreamStops)

Spec == Init /\ [][Next]_vars
FairSpec == Spec /\ Fairness

-----------------------------------------------------------------------------
Maybe(S) == S \cup {None}
TypeOK ==
    /\ next \in [Chan -> Nat \ {0}] /\ cut \in BOOLEAN
    /\ gor \in [Chan -> {"fill", "filling", "filled", "produce", "enqueuing",
                         "waking", "lastwake", "ended"}]
    /\ hand \in [Chan -> Maybe(Packet)] /\ leftover \in [Chan -> Maybe(Packet)]
    /\ buf \in [Output -> Seq(Packet)] /\ state \in [Output -> States]
    /\ ready \in [Output -> BOOLEAN] /\ notify \in [Output -> BOOLEAN]
    /\ \A o \in Output : eos[o] \in 0..Cardinality(Chans(o))
    /\ graph \in {"waiting", "ready", "stopped"}
    /\ pc \in [Output -> {"fill", "graph", "flush", "join", "roll", "write",
                          "idle", "returned"}]
    /\ item \in [Output -> Seq(Packet)]
    /\ ret \in [Output -> {"nil", "err", "ctx"}]
    /\ fate \in [Packet -> {"upstream", "alive", "written", "evicted", "closed", "lost"}]
    /\ cancelled \in BOOLEAN /\ outside \in BOOLEAN

(* "the writer must not push to the muxer until both this output's buffer   *)
(* is full AND every other output is also ready" (handlers_sink.go).        *)
GatedStart == (\E p \in Packet : fate[p] = "written") => \A o \in Output : ready[o]

(* A packet is never written after a later one of its stream: the muxer     *)
(* rejects a DTS that goes back.  Evictions, the hand-over from the fill    *)
(* goroutines through the leftovers to the producers, and the pacing keep   *)
(* the order of arrival.                                                    *)
InOrder ==
    [][\A c \in Chan : \A i, j \in DOMAIN Feed[c] :
          i < j /\ fate'[<<c, i>>] = "written" /\ fate[<<c, i>>] # "written"
             => fate[<<c, j>>] # "written"]_vars

(* An output that returns nil in a run nobody cancelled has lost nothing    *)
(* but what the cap evicted.                                                *)
NilMeansWritten ==
    \A o \in Output : pc[o] = "returned" /\ ret[o] = "nil" /\ ~cancelled =>
        \A p \in Packet : p[1] \in Chans(o) => fate[p] \in {"written", "evicted"}

(* A packet that is still to be closed is in one place, and what is in a    *)
(* place is still to be closed: nothing is written or closed twice.         *)
Held ==
    {<<"hand", c, hand[c]>> : c \in Chan} \cup {<<"leftover", c, leftover[c]>> : c \in Chan}
    \cup (UNION {{<<"buf", <<o, i>>, buf[o][i]>> : i \in DOMAIN buf[o]} : o \in Output})
    \cup (UNION {{<<"item", <<o, i>>, item[o][i]>> : i \in DOMAIN item[o]} : o \in Output})
OnePlace ==
    LET held == {h \in Held : h[3] # None} IN
    /\ {h[3] : h \in held} = {p \in Packet : fate[p] = "alive"}
    /\ \A h, k \in held : h[3] = k[3] => h = k

(* Every output finishes: none waits for ever for the other outputs, for a  *)
(* fill goroutine or for a wakeup.                                          *)
Termination == \A o \in Output : <>(pc[o] = "returned")

(* "When the caller stops owning pkt, it must Close() it" and "Drain        *)
(* transfers ownership of every buffered packet to the caller".             *)
NothingLost == \A p \in Packet : fate[p] # "lost"
=============================================================================
