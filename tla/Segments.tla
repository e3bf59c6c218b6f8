------------------------------ MODULE Segments ------------------------------
(***************************************************************************)
(* Segmentation driven by metadata: a Go processor that looks at decoded   *)
(* video (job/handlers_go_processor.go) announces cuts through a cutGate   *)
(* (job/handlers.go); the video goroutine of a sink rotates the muxer at   *)
(* the keyframe of a cut and the audio goroutine of the same sink, which   *)
(* runs ahead of the encoder, holds packets back (job/handlers_sink.go).   *)
(*                                                                         *)
(* Every use of the gate's mutex, of the sink's mutex and of a channel is  *)
(* a step.  Times are ticks of the source; a cut is the time of a frame.   *)
(***************************************************************************)
EXTENDS Integers, Sequences, SequencesExt, FiniteSets

CONSTANTS
    Items,      \* what the source reads, in its order: [kind, t]
    Cap,        \* capacity of a channel
    Delay,      \* frames the encoder holds back until its input ends
    Natural,    \* times at which the encoder makes a keyframe by itself
    Lookback,   \* LookbackFrames of the processor
    MaxCuts,    \* bound: frames on which the processor reports a cut
    MaxFail     \* bound: calls that fail

(* The frames of a stream have times of their own, in the order of the file.*)
ASSUME ItemsAssumption ==
    /\ Items \in Seq([kind : {"video", "audio"}, t : Nat \ {0}])
    /\ \A i, j \in 1..Len(Items) : i < j =>
          /\ Items[i].t <= Items[j].t
          /\ Items[i].kind = "video" /\ Items[j].kind = "video" => Items[i].t < Items[j].t
ASSUME BoundAssumption ==
    /\ Natural \subseteq Nat /\ Cap \in Nat \ {0} /\ Delay \in Nat /\ Lookback \in Nat
    /\ MaxCuts \in Nat /\ MaxFail \in Nat

NoCut == -1
Forever == IF Items = <<>> THEN 1 ELSE Items[Len(Items)].t + 1   \* math.MaxInt64
Places(kind) == {i \in 1..Len(Items) : Items[i].kind = kind}

VARIABLES
    src, vin, ain,              \* source position, its two channels
    gpc, delay, sending, forced, reported, \* the Go processor
    pipe, vout,                 \* frames in the encoder, packets to the sink
    cuts, progressUS,           \* the cutGate
    vpc, vpkt,                  \* the video goroutine of the sink
    apc, apkt, front, held,     \* the audio goroutine
    mu, seg, posted,            \* sink mutex, segCounter, SegmentCompleted events
    vlog, alog,                 \* packets written, in order, with their segment
    ctx, egctx, fails, res      \* cancellations, errors, what handleSink returns

srcVars  == <<src, vin, ain>>
gpVars   == <<gpc, delay, sending, forced, reported>>
encVars  == <<pipe, vout>>
gateVars == <<cuts, progressUS>>
vidVars  == <<vpc, vpkt>>
audVars  == <<apc, apkt, front, held>>
muxVars  == <<mu, seg, posted, vlog, alog>>
endVars  == <<ctx, egctx, fails, res>>
vars == <<srcVars, gpVars, encVars, gateVars, vidVars, audVars, muxVars, endVars>>

Init ==
    /\ src = 1 /\ vin = <<>> /\ ain = <<>>
    /\ gpc = "take" /\ delay = <<>> /\ sending = <<>> /\ forced = {} /\ reported = {}
    /\ pipe = <<>> /\ vout = <<>>
    /\ cuts = <<>> /\ progressUS = 0
    /\ vpc = "take" /\ vpkt = 0
    /\ apc = "take" /\ apkt = 0 /\ front = NoCut /\ held = <<>>
    /\ mu = "free" /\ seg = 0 /\ posted = <<>> /\ vlog = <<>> /\ alog = <<>>
    /\ ctx = FALSE /\ egctx = FALSE /\ fails = 0 /\ res = "none"

SrcDone == src > Len(Items)
GpDone == gpc = "done"
EncDone == GpDone /\ pipe = <<>>
VideoDone == vpc = "done"
AudioDone == apc = "done"

(***************************************************************************)
(* The source: one goroutine feeds both channels, in the order of the file.*)
(***************************************************************************)
SourceSend ==
    /\ ~SrcDone /\ src' = src + 1
    /\ LET x == Items[src] IN
        IF x.kind = "video"
        THEN Len(vin) < Cap /\ vin' = Append(vin, x.t) /\ UNCHANGED ain
        ELSE Len(ain) < Cap /\ ain' = Append(ain, x.t) /\ UNCHANGED vin
    /\ UNCHANGED <<gpVars, encVars, gateVars, vidVars, audVars, muxVars, endVars>>

SourceCancelled ==
    /\ ~SrcDone /\ ctx /\ src' = Len(Items) + 1
    /\ UNCHANGED <<vin, ain, gpVars, encVars, gateVars, vidVars, audVars, muxVars, endVars>>

(***************************************************************************)
(* The Go processor.  The frame a cut belongs to is the oldest one of the  *)
(* delay buffer, or the current one when there is none.                    *)
(***************************************************************************)
CutFrame(f) == IF Lookback > 0 /\ delay # <<>> THEN delay[1] ELSE f

GpTake ==
    /\ gpc = "take" /\ vin # <<>>
    /\ vin' = Tail(vin) /\ sending' = <<vin[1]>> /\ gpc' = "report"
    /\ progressUS' = IF CutFrame(vin[1]) > progressUS THEN CutFrame(vin[1]) ELSE progressUS
    /\ UNCHANGED <<src, ain, delay, forced, reported, encVars, cuts, vidVars, audVars,
                   muxVars, endVars>>

(* Detection windows may report one cut twice.  Variant: not deduplicated.  *)
SignalAlways(t) == cuts' = Append(cuts, t)
Signal(t) ==
    cuts' = IF cuts = <<>> \/ cuts[Len(cuts)] # t THEN Append(cuts, t) ELSE cuts

(* What leaves the processor after frame f: f itself, or the oldest frame  *)
(* held back once the buffer is longer than the lookback.                  *)
Forward(f) ==
    IF Lookback = 0 THEN /\ sending' = <<f>> /\ UNCHANGED delay
    ELSE LET d == Append(delay, f) IN
         IF Len(d) > Lookback THEN sending' = <<d[1]>> /\ delay' = Tail(d)
         ELSE sending' = <<>> /\ delay' = d

GpReport ==
    /\ gpc = "report" /\ gpc' = "send"
    /\ Forward(sending[1])
    /\ LET t == CutFrame(sending[1]) IN
        \/ /\ Cardinality(reported) < MaxCuts /\ Signal(t)
           /\ forced' = forced \cup {t} /\ reported' = reported \cup {sending[1]}
        \/ UNCHANGED <<cuts, forced, reported>>
    /\ UNCHANGED <<srcVars, encVars, progressUS, vidVars, audVars, muxVars, endVars>>

GpSend ==
    /\ gpc \in {"send", "drain"}
    /\ IF sending = <<>> THEN UNCHANGED pipe
       ELSE Len(pipe) < Cap + Delay /\ pipe' = Append(pipe, sending[1])
    /\ IF gpc = "drain" /\ delay # <<>>
       THEN /\ sending' = <<delay[1]>> /\ delay' = Tail(delay) /\ UNCHANGED <<gpc, progressUS>>
       ELSE /\ sending' = <<>> /\ UNCHANGED delay
            /\ IF gpc = "send" THEN gpc' = "take" /\ UNCHANGED progressUS
               ELSE gpc' = "done" /\ progressUS' = Forever
    /\ UNCHANGED <<srcVars, forced, reported, vout, cuts, vidVars, audVars, muxVars, endVars>>

GpEnd ==
    /\ gpc = "take" /\ SrcDone /\ vin = <<>> /\ gpc' = "drain"
    /\ UNCHANGED <<srcVars, delay, sending, forced, reported, encVars, gateVars, vidVars,
                   audVars, muxVars, endVars>>

(* A cancelled send, or an error of Process, which cancels everybody.      *)
GpStop ==
    /\ gpc' = "done" /\ progressUS' = Forever
    /\ sending' = <<>> /\ delay' = <<>>
    /\ \/ gpc \in {"send", "drain"} /\ ctx /\ UNCHANGED <<vin, ctx, fails>>
       \/ /\ gpc = "take" /\ vin # <<>> /\ vin' = Tail(vin)
          /\ fails < MaxFail /\ fails' = fails + 1 /\ ctx' = TRUE
    /\ UNCHANGED <<src, ain, forced, reported, encVars, cuts, vidVars, audVars, muxVars,
                   egctx, res>>

(***************************************************************************)
(* The encoder between processor and sink: frames in order, late.          *)
(***************************************************************************)
Encode ==
    /\ pipe # <<>> /\ (Len(pipe) > Delay \/ GpDone)
    /\ Len(vout) < Cap
    /\ vout' = Append(vout, pipe[1]) /\ pipe' = Tail(pipe)
    /\ UNCHANGED <<srcVars, gpVars, gateVars, vidVars, audVars, muxVars, endVars>>

EncodeCancelled ==
    /\ ctx /\ pipe # <<>> /\ pipe' = <<>>
    /\ UNCHANGED <<srcVars, gpVars, vout, gateVars, vidVars, audVars, muxVars, endVars>>

(***************************************************************************)
(* The video goroutine of the sink.                                        *)
(***************************************************************************)
KeyFrame(t) == t \in forced \cup Natural

VideoTake ==
    /\ vpc = "take" /\ vout # <<>>
    /\ vpkt' = vout[1] /\ vout' = Tail(vout)
    /\ vpc' = IF KeyFrame(vout[1]) /\ cuts # <<>> /\ vout[1] >= cuts[1]
              THEN "rotate" ELSE "write"
    /\ UNCHANGED <<srcVars, gpVars, pipe, gateVars, audVars, muxVars, endVars>>

(* rotateSegment under the sink's mutex: the old file is finished and      *)
(* announced, then the new one is opened.                                  *)
Rotate ==
    /\ vpc = "rotate" /\ mu = "free"
    /\ mu' = "video" /\ vpc' = "open" /\ posted' = Append(posted, seg)
    /\ UNCHANGED <<srcVars, gpVars, encVars, gateVars, vpkt, audVars, seg, vlog, alog, endVars>>

OpenSegment ==
    /\ vpc = "open" /\ seg' = seg + 1 /\ mu' = "free" /\ vpc' = "pop"
    /\ UNCHANGED <<srcVars, gpVars, encVars, gateVars, vpkt, audVars, posted, vlog, alog, endVars>>

PopFront ==
    /\ vpc = "pop" /\ vpc' = "write"
    /\ cuts' = IF cuts = <<>> THEN cuts ELSE Tail(cuts)
    /\ UNCHANGED <<srcVars, gpVars, encVars, progressUS, vpkt, audVars, muxVars, endVars>>

VideoWrite ==
    /\ vpc = "write" /\ mu = "free"
    /\ vlog' = Append(vlog, [t |-> vpkt, seg |-> seg]) /\ vpc' = "take"
    /\ UNCHANGED <<srcVars, gpVars, encVars, gateVars, vpkt, audVars, mu, seg, posted, alog, endVars>>

(* The goroutine returns, and its deferred clearAll drops every cut.       *)
VideoReturn(error) ==
    /\ vpc' = "done" /\ cuts' = <<>> /\ egctx' = (egctx \/ error)
    /\ mu' = IF mu = "video" THEN "free" ELSE mu
    /\ UNCHANGED <<srcVars, gpVars, encVars, progressUS, vpkt, audVars, seg, posted, vlog,
                   alog, ctx, res>>

VideoEnd ==
    /\ vpc = "take" /\ UNCHANGED fails
    /\ \/ EncDone /\ vout = <<>> /\ VideoReturn(FALSE)
       \/ (egctx \/ ctx) /\ VideoReturn(TRUE)

VideoFail ==
    /\ vpc \in {"rotate", "open", "write"} /\ fails < MaxFail /\ fails' = fails + 1
    /\ VideoReturn(TRUE)

(***************************************************************************)
(* The audio goroutine of the sink.                                        *)
(***************************************************************************)
(* audioBoundary: the front cut and the progress, one read after the other.*)
Boundary ==
    LET prog == IF progressUS < Forever THEN progressUS + 1 ELSE Forever
    IN  IF front = NoCut THEN prog
        ELSE IF front < prog THEN front ELSE prog

AudioTake ==
    /\ apc = "take" /\ ain # <<>>
    /\ apkt' = ain[1] /\ ain' = Tail(ain)
    /\ apc' = IF held # <<>> THEN "front" ELSE "front2"
    /\ UNCHANGED <<src, vin, gpVars, encVars, gateVars, vidVars, front, held, muxVars, endVars>>

FrontCut ==
    /\ apc \in {"front", "front2"}
    /\ front' = IF cuts = <<>> THEN NoCut ELSE cuts[1]
    /\ apc' = IF apc = "front" THEN "bound" ELSE "bound2"
    /\ UNCHANGED <<srcVars, gpVars, encVars, gateVars, vidVars, apkt, held, muxVars, endVars>>

(* flushHeldUpTo: the boundary is fixed when the flush begins.             *)
FlushUpTo ==
    /\ apc = "bound" /\ front' = Boundary /\ apc' = "flush"
    /\ UNCHANGED <<srcVars, gpVars, encVars, gateVars, vidVars, apkt, held, muxVars, endVars>>

(* processOne takes the sink's mutex.  Variant: it does not.                *)
AudioWritesUnlocked(t) ==
    /\ alog' = Append(alog, [t |-> t, seg |-> seg])
    /\ UNCHANGED <<mu, seg, posted, vlog>>
AudioWrites(t) ==
    /\ mu = "free" /\ alog' = Append(alog, [t |-> t, seg |-> seg])
    /\ UNCHANGED <<mu, seg, posted, vlog>>

FlushHeld ==
    /\ apc \in {"flush", "final"} /\ held # <<>>
    /\ apc = "final" \/ held[1] < front
    /\ AudioWrites(held[1]) /\ held' = Tail(held)
    /\ UNCHANGED <<srcVars, gpVars, encVars, gateVars, vidVars, apc, apkt, front, endVars>>

FlushDone ==
    /\ apc = "flush" /\ (\A i \in 1..Len(held) : held[i] >= front) /\ apc' = "front2"
    /\ UNCHANGED <<srcVars, gpVars, encVars, gateVars, vidVars, apkt, front, held, muxVars, endVars>>

(* A packet that may belong to a later segment is kept aside.  Variant: the *)
(* goroutine waits for the rotation.                                       *)
WaitForRotation ==
    /\ apc = "bound2" /\ apkt >= Boundary /\ apc' = "front2"
    /\ UNCHANGED <<srcVars, gpVars, encVars, gateVars, vidVars, apkt, front, held, muxVars, endVars>>
HoldBack ==
    /\ apc = "bound2" /\ apkt >= Boundary
    /\ held' = Append(held, apkt) /\ apc' = "take"
    /\ UNCHANGED <<srcVars, gpVars, encVars, gateVars, vidVars, apkt, front, muxVars, endVars>>

Pass ==
    /\ apc = "bound2" /\ apkt < Boundary /\ apc' = "write"
    /\ UNCHANGED <<srcVars, gpVars, encVars, gateVars, vidVars, apkt, front, held, muxVars, endVars>>

AudioWrite ==
    /\ apc = "write" /\ AudioWrites(apkt) /\ apc' = "take"
    /\ UNCHANGED <<srcVars, gpVars, encVars, gateVars, vidVars, apkt, front, held, endVars>>

(* After the end of the input what is held back is written, whatever is    *)
(* open.  Variant: it is not.                                              *)
AudioClosedAtOnce ==
    /\ apc = "take" /\ SrcDone /\ ain = <<>> /\ apc' = "done"
    /\ UNCHANGED <<srcVars, gpVars, encVars, gateVars, vidVars, apkt, front, held, muxVars, endVars>>
AudioClosed ==
    /\ apc = "take" /\ SrcDone /\ ain = <<>> /\ apc' = "final"
    /\ UNCHANGED <<srcVars, gpVars, encVars, gateVars, vidVars, apkt, front, held, muxVars, endVars>>

AudioEnd ==
    /\ \/ apc = "final" /\ held = <<>> /\ UNCHANGED egctx
       \/ apc = "take" /\ (egctx \/ ctx) /\ egctx' = TRUE
    /\ apc' = "done"
    /\ UNCHANGED <<srcVars, gpVars, encVars, gateVars, vidVars, apkt, front, held, muxVars, ctx,
                   fails, res>>

AudioFail ==
    /\ apc \in {"flush", "final", "write"} /\ fails < MaxFail /\ fails' = fails + 1
    /\ apc' = "done" /\ egctx' = TRUE
    /\ UNCHANGED <<srcVars, gpVars, encVars, gateVars, vidVars, apkt, front, held, muxVars, ctx, res>>

(***************************************************************************)
(* The sink's handler joins both, finishes the last segment, which may fail, *)
(* and returns; an error makes the scheduler cancel the others.            *)
(***************************************************************************)
SinkReturn ==
    /\ VideoDone /\ AudioDone /\ res = "none"
    /\ \/ egctx /\ res' = "error" /\ ctx' = TRUE /\ UNCHANGED <<posted, fails>>
       \/ ~egctx /\ res' = "nil" /\ posted' = Append(posted, seg) /\ UNCHANGED <<ctx, fails>>
       \/ /\ ~egctx /\ fails < MaxFail /\ fails' = fails + 1
          /\ res' = "error" /\ ctx' = TRUE /\ UNCHANGED posted
    /\ UNCHANGED <<srcVars, gpVars, encVars, gateVars, vidVars, audVars, mu, seg, vlog, alog, egctx>>

Source == SourceSend \/ SourceCancelled
GoProcessor == GpTake \/ GpReport \/ GpSend \/ GpEnd \/ GpStop
Encoder == Encode \/ EncodeCancelled
Video == VideoTake \/ Rotate \/ OpenSegment \/ PopFront \/ VideoWrite \/ VideoEnd \/ VideoFail
Audio == \/ AudioTake \/ FrontCut \/ FlushUpTo \/ FlushHeld \/ FlushDone \/ HoldBack
         \/ Pass \/ AudioWrite \/ AudioClosed \/ AudioEnd \/ AudioFail
Next == Source \/ GoProcessor \/ Encoder \/ Video \/ Audio \/ SinkReturn

Spec == Init /\ [][Next]_vars
(* Each goroutine is scheduled again and again.                            *)
FairSpec == /\ Spec /\ WF_vars(Source) /\ WF_vars(GoProcessor) /\ WF_vars(Encoder)
            /\ WF_vars(Video) /\ WF_vars(Audio) /\ WF_vars(SinkReturn)

-----------------------------------------------------------------------------
TypeOK ==
    /\ src \in 1..Len(Items) + 1 /\ vin \in Seq(Nat) /\ ain \in Seq(Nat)
    /\ gpc \in {"take", "report", "send", "drain", "done"}
    /\ delay \in Seq(Nat) /\ sending \in Seq(Nat) /\ forced \subseteq Nat /\ reported \subseteq Nat
    /\ pipe \in Seq(Nat) /\ vout \in Seq(Nat) /\ cuts \in Seq(Nat) /\ progressUS \in Nat
    /\ vpc \in {"take", "rotate", "open", "pop", "write", "done"} /\ vpkt \in Nat
    /\ apc \in {"take", "front", "bound", "flush", "front2", "bound2", "write", "final", "done"}
    /\ apkt \in Nat /\ front \in Nat \cup {NoCut} /\ held \in Seq(Nat)
    /\ mu \in {"free", "video"} /\ seg \in Nat /\ posted \in Seq(Nat)
    /\ vlog \in Seq([t : Nat, seg : Nat]) /\ alog \in Seq([t : Nat, seg : Nat])
    /\ ctx \in BOOLEAN /\ egctx \in BOOLEAN /\ fails \in Nat /\ res \in {"none", "nil", "error"}

(* The segment the time t belongs to: how many cuts are not after it.      *)
SegmentOf(t) == Cardinality({c \in forced : c <= t})

(* A video packet is in the segment its time belongs to: a cut reaches the *)
(* gate before the frame it forces a keyframe on reaches the sink, through *)
(* delay buffer and encoder, and a cut reported twice rotates once.        *)
VideoInSegment == \A i \in 1..Len(vlog) : vlog[i].seg = SegmentOf(vlog[i].t)

(* The same of audio, as job/handlers.go:213 has it ("so they wait for the *)
(* rotation before writing packets that belong to the new segment").       *)
AudioInSegment == \A i \in 1..Len(alog) : alog[i].seg = SegmentOf(alog[i].t)

(* handleSink returns nil only when each packet of both streams has been   *)
(* written once, those the audio goroutine held back included, and each    *)
(* segment announced once, in the order of the files.                      *)
NilMeansAllWritten ==
    res = "nil" /\ ~ctx =>
        /\ {vlog[i].t : i \in 1..Len(vlog)} = {Items[i].t : i \in Places("video")}
        /\ \A i, j \in 1..Len(vlog) : i < j => vlog[i].t < vlog[j].t
        /\ Len(alog) = Cardinality(Places("audio"))
        /\ \A i \in Places("audio") : \E j \in 1..Len(alog) : alog[j].t = Items[i].t
        /\ posted = [i \in 1..seg + 1 |-> i - 1]

(* No packet goes to a muxer that has been closed and announced, as        *)
(* job/handlers_sink.go:757 has it (the mutex is held "to prevent audio    *)
(* goroutines from writing to a closed/new muxer").                        *)
WritesOpen(v, a, vp, ap, done) ==
    \A x \in ToSet(vp \o ap) : x \in ToSet(v \o a) \/ x.seg \notin ToSet(done)
NoWriteToClosed == [][WritesOpen(vlog, alog, vlog', alog', posted)]_<<vlog, alog>>

(* What is left of it when a rotation may fail: it holds until a call of   *)
(* this sink has failed.                                                   *)
NoWriteAfterAnnounce ==
    [][egctx \/ WritesOpen(vlog, alog, vlog', alog', posted)]_<<vlog, alog>>

(* The sink returns: audio that waited for a rotation instead of holding   *)
(* packets back would stop the source that feeds the video.                *)
SinkReturns == <>(res # "none")
=============================================================================
