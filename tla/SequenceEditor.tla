--------------------------- MODULE SequenceEditor ---------------------------
(***************************************************************************)
(* The sequence editor (processors/sequence_editor.go, sequence_audio.go): *)
(* a renderer that walks the slots of a timeline and asks one reader per   *)
(* source file for the picture, and another for the sound, of a source     *)
(* time.  A reader is hot (the next frame of its decoder is taken), skips  *)
(* forward, or seeks: it aims a second early, learns from the first stamped*)
(* frame where it landed, aims earlier if that is too far, and gives up on *)
(* seeking a file that cannot be placed.                                   *)
(*                                                                         *)
(* Times are ticks.  A source file is what libav makes of it; one action   *)
(* is at most one decoded picture or one audio packet.                     *)
(***************************************************************************)
EXTENDS Integers, Sequences, FiniteSets

CONSTANTS
    File,       \* source files
    Media,      \* what libav makes of each, see MediaType
    Timelines,  \* sets of tracks the editor may be given, the last track on top
    Second,     \* ticks per second
    Step,       \* ticks from one slot to the next: 1 / frame_rate
    Slots,      \* numFrames
    MaxLanding  \* maxLandingFrames

(* dur: ticks from frame to frame; len: frames; keys: frames a seek may     *)
(* land on; bare, corrupt: frames without a timestamp, or that do not       *)
(* decode; late: frames the decoder holds back; from: timestamp of the      *)
(* first frame; seeks: the answers the demuxer may give to a seek; pkt,     *)
(* mute: ticks of an audio packet, and the packets without a timestamp;     *)
(* refuses: the audio packet the decoder does not take, if there is one.    *)
MediaType == [dur : Nat \ {0}, len : Nat, keys : SUBSET Nat, bare : SUBSET Nat,
              corrupt : SUBSET Nat, late : Nat, from : Nat,
              seeks : (SUBSET BOOLEAN) \ {{}}, pkt : Nat \ {0}, mute : SUBSET Nat,
              refuses : Nat, opens : BOOLEAN, sound : BOOLEAN]

(* A clip shows its file from source time in for len ticks, from slot time  *)
(* at on; during its last fade ticks it goes over into the clip after it,   *)
(* with the sound unless cut.                                               *)
Clip == [file : File, at : Nat, in : Nat, len : Nat \ {0}, fade : Nat, cut : BOOLEAN]

ASSUME MediaAssumption ==
    /\ Media \in [File -> MediaType]
    /\ \A f \in File : Media[f].keys # {}
ASSUME TimelineAssumption == Timelines \subseteq Seq(Seq(Clip))
ASSUME BoundAssumption ==
    /\ Second \in Nat \ {0} /\ Step \in Nat \ {0} /\ Slots \in Nat \ {0}
    /\ MaxLanding \in Nat \ {0}

Hot == Second \div 2        \* the continuation window of getFrameAtSeconds
MinAhead == 2 * Second      \* seekMinAheadSec
MaxSlack == 8 * Second      \* maxSeekSlackSec

VARIABLES
    timeline, slot, pc,   \* the renderer: tracks, output frame, where it is
    track, todo, req,     \* winning track, its clips still to serve, the request
    slack,                \* of the seek under way
    vid, aud,             \* the clipReader and the audioReader of each file
    shown, heard          \* what the slot got: frames and samples by clip

lineVars == <<timeline, slot>>
todoVars == <<track, todo, req>>
vars == <<timeline, slot, pc, track, todo, req, slack, vid, aud, shown, heard>>

(***************************************************************************)
(* The timeline.                                                           *)
(***************************************************************************)
Covering(tl, n, t) ==
    {k \in DOMAIN tl[n] : tl[n][k].at <= t /\ t < tl[n][k].at + tl[n][k].len}

SourceTime(c, t) == c.in + (t - c.at)

(* The topmost track that covers t; 0 when none does. *)
Wins(tl, n, t) ==
    /\ n > 0 => Covering(tl, n, t) # {}
    /\ \A m \in DOMAIN tl : m > n => Covering(tl, m, t) = {}

First(S, k) == k \in S /\ \A j \in S : k <= j
Last(S, k) == k \in S /\ \A j \in S : j <= k

(* The first of two or more clips goes over into the last of them. *)
Fades(tr, on, t) ==
    \E j, k \in on :
        /\ First(on, j) /\ k > j
        /\ tr[j].fade > 0 /\ ~tr[j].cut /\ t >= tr[j].at + tr[j].len - tr[j].fade

(* renderAudioStep: both ends of a transition, or the first clip alone. *)
Sounding(tr, on, t) == {k \in on : First(on, k) \/ (Fades(tr, on, t) /\ Last(on, k))}

(* The clips of the winning track at t, by their place on it. *)
Playing(tl, n, t) == IF n = 0 THEN {} ELSE Covering(tl, n, t)

(***************************************************************************)
(* A file and the position of its decoder.                                 *)
(***************************************************************************)
Stamp(f, k) == Media[f].from + k * Media[f].dur
IndexAt(f, t) == (2 * t + Media[f].dur) \div (2 * Media[f].dur)     \* int64(sec*fps + 0.5)
SoundLen(f) == Media[f].len * Media[f].dur

(* A reader at this place hears up to the packet its decoder refuses, and   *)
(* no further until it is moved; after that packet, to the end of the file. *)
Refused(f) == Media[f].pkt * Media[f].refuses
SoundStop(f, at) == IF at <= Refused(f) /\ Refused(f) < SoundLen(f) THEN Refused(f) ELSE SoundLen(f)
Ended(f, at) == at >= SoundStop(f, at)

(* Where av_seek_file may land: the keyframe before or the one after. *)
Landing(f, target) ==
    LET before == {k \in Media[f].keys : Stamp(f, k) <= target}
        after  == {k \in Media[f].keys : Stamp(f, k) >= target}
    IN {k \in before : Last(before, k)} \cup {k \in after : First(after, k)}

(* The packet of sound that plays at the keyframe, or the one that starts after. *)
SoundLanding(f, target) ==
    LET pkt == Media[f].pkt IN
    UNION {{pkt * ((k * Media[f].dur) \div pkt), pkt * ((k * Media[f].dur + pkt - 1) \div pkt)} :
            k \in Landing(f, target)}

Fresh == [next |-> 0, flushed |-> FALSE, pos |-> 0, last |-> 0, landed |-> 0, noSeek |-> FALSE]
Silent == [at |-> 0, served |-> 0, landed |-> 0, noSeek |-> FALSE]

Init ==
    /\ timeline \in Timelines /\ slot = 0 /\ pc = "slot"
    /\ track = 0 /\ todo = {} /\ req = <<>> /\ slack = 0
    /\ vid = [f \in File |-> Fresh] /\ aud = [f \in File |-> Silent]
    /\ shown = {} /\ heard = {}

Now == slot * Step
On == Playing(timeline, track, Now)
Request(k) ==
    [clip |-> k, file |-> timeline[track][k].file, t |-> SourceTime(timeline[track][k], Now)]
CurFile == req.file
Source == Media[CurFile]
reader == vid[CurFile]
sounder == aud[CurFile]
Target == IF req.t > slack THEN req.t - slack ELSE 0
Wanted == IndexAt(CurFile, req.t)

(* decodeNext: at the end of the file the decoder is flushed, and what it   *)
(* held back comes with the calls after that one.                           *)
Has == reader.next < Source.len /\ (reader.next + Source.late < Source.len \/ reader.flushed)
Yields == Has /\ reader.next \notin Source.corrupt
Breaks == Has /\ reader.next \in Source.corrupt
Decoded ==
    IF Has THEN [reader EXCEPT !.next = @ + 1] ELSE [reader EXCEPT !.flushed = TRUE]

(***************************************************************************)
(* render: the clips of a slot one after the other, then its sound.        *)
(***************************************************************************)
BeginSlot ==
    /\ pc = "slot" /\ slot < Slots /\ pc' = "picture"
    /\ \E n \in 0..Len(timeline) :
        /\ Wins(timeline, n, Now) /\ track' = n
        /\ todo' = Playing(timeline, n, Now)
    /\ shown' = {} /\ heard' = {}
    /\ UNCHANGED <<lineVars, req, slack, vid, aud>>

(* A reader that does not open is left out, and tried again at the next slot. *)
NextPicture ==
    /\ pc = "picture"
    /\ \E k \in todo :
        /\ First(todo, k) /\ todo' = todo \ {k} /\ req' = Request(k)
        /\ pc' = IF Media[req'.file].opens THEN "get" ELSE "picture"
    /\ UNCHANGED <<lineVars, track, slack, vid, aud, shown, heard>>

PicturesDone ==
    /\ pc = "picture" /\ todo = {} /\ pc' = "sound"
    /\ todo' = IF track = 0 THEN {} ELSE Sounding(timeline[track], On, Now)
    /\ UNCHANGED <<lineVars, track, req, slack, vid, aud, shown, heard>>

SlotDone ==
    /\ pc = "sound" /\ todo = {} /\ pc' = "sent"
    /\ UNCHANGED <<lineVars, todoVars, slack, vid, aud, shown, heard>>

NextSlot ==
    /\ pc = "sent" /\ slot' = slot + 1
    /\ pc' = IF slot' = Slots THEN "done" ELSE "slot"
    /\ UNCHANGED <<timeline, todoVars, slack, vid, aud, shown, heard>>

(* The context is looked at before each slot. *)
Cancel ==
    /\ pc = "slot" /\ pc' = "stopped"
    /\ UNCHANGED <<lineVars, todoVars, slack, vid, aud, shown, heard>>

(* The picture of the slot, or its sound, cannot be handed on. *)
SendFails ==
    /\ (pc = "picture" /\ shown # {}) \/ pc = "sound"
    /\ todo = {} /\ pc' = "stopped"
    /\ UNCHANGED <<lineVars, todoVars, slack, vid, aud, shown, heard>>

(***************************************************************************)
(* getFrameAtSeconds.                                                      *)
(***************************************************************************)
(* The frame just decoded, of index n, is the picture of the request. *)
Serve(n, rd) ==
    /\ vid' = [vid EXCEPT ![CurFile] = [rd EXCEPT !.last = req.t]]
    /\ shown' = shown \cup {[clip |-> req.clip, frame |-> n]}
    /\ pc' = "picture"
Consumed(rd, pos) == [rd EXCEPT !.pos = pos + 1]

IsHot == reader.last > 0 /\ req.t <= reader.last + Hot
IsFar == (Wanted - reader.pos) * Source.dur > MinAhead

Continue ==
    /\ pc = "get" /\ IsHot /\ Yields
    /\ Serve(reader.next, Consumed(Decoded, reader.pos))
    /\ UNCHANGED <<lineVars, todoVars, slack, aud, heard>>

Jump ==
    /\ pc = "get" /\ ~IsHot
    /\ pc' = IF IsFar /\ ~reader.noSeek THEN "seek" ELSE "skip"
    /\ slack' = Second
    /\ UNCHANGED <<lineVars, todoVars, vid, aud, shown, heard>>

(* Decode and discard until the frame asked for has been consumed.          *)
(* Variant: one frame early.                                                *)
ArrivedEarly(pos) == pos >= Wanted
Arrived(pos) == pos > Wanted
Skip ==
    /\ pc = "skip" /\ Yields
    /\ IF Arrived(reader.pos + 1) THEN Serve(reader.next, Consumed(Decoded, reader.pos))
       ELSE /\ vid' = [vid EXCEPT ![CurFile] = Consumed(Decoded, reader.pos)]
            /\ UNCHANGED <<pc, shown>>
    /\ UNCHANGED <<lineVars, todoVars, slack, aud, heard>>

(* No frame: the end of the file leaves the clip out, and so does an error  *)
(* in a transition, but an error of a single clip ends the rendering.       *)
NoFrame ==
    /\ pc = "skip" \/ (pc = "get" /\ IsHot)
    /\ ~Yields
    /\ vid' = [vid EXCEPT ![CurFile] = Decoded]
    /\ pc' = IF Breaks /\ Cardinality(On) = 1 THEN "failed" ELSE "picture"
    /\ UNCHANGED <<lineVars, todoVars, slack, aud, shown, heard>>

(***************************************************************************)
(* seekTo.                                                                 *)
(***************************************************************************)
Moved(k) == [reader EXCEPT !.next = k, !.flushed = FALSE, !.landed = 0]

Reposition ==
    /\ pc = "seek" /\ slack <= MaxSlack
    /\ \/ /\ TRUE \in Source.seeks /\ pc' = "land"
          /\ \E k \in Landing(CurFile, Target) : vid' = [vid EXCEPT ![CurFile] = Moved(k)]
       \/ /\ FALSE \in Source.seeks /\ pc' = "skip"
          /\ vid' = [vid EXCEPT ![CurFile].noSeek = TRUE]
    /\ UNCHANGED <<lineVars, todoVars, slack, aud, shown, heard>>

(* A frame without a timestamp is somewhere unknown: it is dropped. *)
LandBare ==
    /\ pc = "land" /\ reader.landed < MaxLanding /\ Yields /\ reader.next \in Source.bare
    /\ vid' = [vid EXCEPT ![CurFile] = [Decoded EXCEPT !.landed = @ + 1]]
    /\ UNCHANGED <<lineVars, pc, todoVars, slack, aud, shown, heard>>

Anchored == pc = "land" /\ reader.landed < MaxLanding /\ Yields /\ reader.next \notin Source.bare
AnchorPos == IndexAt(CurFile, Stamp(CurFile, reader.next))
LandedWell == AnchorPos <= Wanted \/ Target = 0

(* In front of the target, or as far in front as the file goes. *)
LandWell ==
    /\ Anchored /\ LandedWell
    /\ IF Arrived(AnchorPos + 1) THEN Serve(reader.next, Consumed(Decoded, AnchorPos))
       ELSE /\ vid' = [vid EXCEPT ![CurFile] = Consumed(Decoded, AnchorPos)]
            /\ pc' = "skip" /\ UNCHANGED shown
    /\ UNCHANGED <<lineVars, todoVars, slack, aud, heard>>

(* Variant: the slack stays. *)
SameSlack == slack
Wider == 2 * slack
LandPast ==
    /\ Anchored /\ ~LandedWell
    /\ vid' = [vid EXCEPT ![CurFile] = [Decoded EXCEPT !.pos = AnchorPos]]
    /\ slack' = Wider /\ pc' = "seek"
    /\ UNCHANGED <<lineVars, todoVars, aud, shown, heard>>

(* No timestamp within the bound, no more frames, or past the target from   *)
(* everywhere: the file is decoded from the start and not sought in again.  *)
(* Variant: the position of the last landing stays.                         *)
KeepPosition(k) == [Moved(k) EXCEPT !.noSeek = TRUE]
FromStart(k) == [Moved(k) EXCEPT !.pos = 0, !.noSeek = TRUE]
GiveUp ==
    /\ \/ pc = "seek" /\ slack > MaxSlack
       \/ pc = "land" /\ (reader.landed >= MaxLanding \/ ~Yields)
    /\ \/ /\ TRUE \in Source.seeks
          /\ \E k \in Landing(CurFile, 0) : vid' = [vid EXCEPT ![CurFile] = FromStart(k)]
       \/ /\ FALSE \in Source.seeks
          /\ vid' = [vid EXCEPT ![CurFile] =
                [(IF pc = "land" /\ reader.landed < MaxLanding THEN Decoded ELSE reader) EXCEPT !.noSeek = TRUE]]
    /\ pc' = "skip"
    /\ UNCHANGED <<lineVars, todoVars, slack, aud, shown, heard>>

(***************************************************************************)
(* getSamples: the same with packets of sound, placed by the time of their *)
(* first sample and served sample by sample.                               *)
(***************************************************************************)
Hears(n, k, from) == heard' = heard \cup {[clip |-> k, from |-> from, n |-> n]}

NextSound ==
    /\ pc = "sound" /\ slack' = Second
    /\ \E k \in todo :
        /\ First(todo, k) /\ todo' = todo \ {k} /\ req' = Request(k)
        /\ LET f == req'.file IN
            IF ~(Media[f].opens /\ Media[f].sound)
            THEN Hears(0, k, 0) /\ UNCHANGED pc
            ELSE /\ pc' = IF req'.t - aud[f].served > MinAhead /\ ~aud[f].noSeek
                          THEN "aseek" ELSE "samples"
                 /\ UNCHANGED heard
    /\ UNCHANGED <<lineVars, track, vid, aud, shown>>

SoundReposition ==
    /\ pc = "aseek" /\ slack <= MaxSlack
    /\ \/ /\ TRUE \in Source.seeks /\ pc' = "aland"
          /\ \E p \in SoundLanding(CurFile, Target) :
                aud' = [aud EXCEPT ![CurFile] = [sounder EXCEPT !.at = p, !.landed = 0]]
       \/ /\ FALSE \in Source.seeks /\ pc' = "samples"
          /\ aud' = [aud EXCEPT ![CurFile].noSeek = TRUE]
    /\ UNCHANGED <<lineVars, todoVars, slack, vid, shown, heard>>

SoundEnds == Ended(CurFile, sounder.at)
Mute == sounder.at \div Source.pkt \in Source.mute
SoundMayLand == pc = "aland" /\ sounder.landed < MaxLanding /\ ~SoundEnds

SoundBare ==
    /\ SoundMayLand /\ Mute
    /\ aud' = [aud EXCEPT ![CurFile] = [sounder EXCEPT !.at = @ + Source.pkt, !.landed = @ + 1]]
    /\ UNCHANGED <<lineVars, pc, todoVars, slack, vid, shown, heard>>

SoundAnchor ==
    /\ SoundMayLand /\ ~Mute
    /\ LET at == Source.from + sounder.at IN
        /\ aud' = [aud EXCEPT ![CurFile].served = at]
        /\ IF at <= req.t \/ Target = 0 THEN pc' = "samples" /\ UNCHANGED slack
           ELSE pc' = "aseek" /\ slack' = 2 * slack
    /\ UNCHANGED <<lineVars, todoVars, vid, shown, heard>>

SoundGivesUp ==
    /\ (pc = "aseek" /\ slack > MaxSlack) \/ (pc = "aland" /\ ~SoundMayLand)
    /\ \/ /\ TRUE \in Source.seeks
          /\ \E p \in SoundLanding(CurFile, 0) :
                aud' = [aud EXCEPT ![CurFile] =
                            [at |-> p, served |-> 0, landed |-> 0, noSeek |-> TRUE]]
       \/ /\ FALSE \in Source.seeks
          /\ aud' = [aud EXCEPT ![CurFile].noSeek = TRUE]
    /\ pc' = "samples"
    /\ UNCHANGED <<lineVars, todoVars, slack, vid, shown, heard>>

(* discard up to the time asked for, pop a slot of samples, silence for the *)
(* rest.  A time that has been served already is served from where it is.   *)
UpTo(n) ==
    LET stop == SoundStop(CurFile, sounder.at)
    IN IF n < stop THEN n ELSE IF sounder.at > stop THEN sounder.at ELSE stop
Samples ==
    /\ pc = "samples" /\ pc' = "sound"
    /\ LET ahead == IF req.t > sounder.served THEN req.t - sounder.served ELSE 0
           from  == UpTo(sounder.at + ahead)
           upto  == UpTo(from + Step)
       IN /\ Hears(upto - from, req.clip, from)
          /\ aud' = [aud EXCEPT ![CurFile] = [sounder EXCEPT !.at = upto, !.served = @ + ahead + Step]]
    /\ UNCHANGED <<lineVars, todoVars, slack, vid, shown>>

Picture == NextPicture \/ PicturesDone \/ Continue \/ Jump \/ Skip \/ NoFrame
Seek == Reposition \/ LandBare \/ LandWell \/ LandPast \/ GiveUp
Sound ==
    \/ NextSound \/ SoundReposition \/ SoundBare \/ SoundAnchor
    \/ SoundGivesUp \/ Samples
Render == BeginSlot \/ Picture \/ Seek \/ Sound \/ SlotDone \/ NextSlot
Next == Render \/ Cancel \/ SendFails
Spec == Init /\ [][Next]_vars /\ WF_vars(Render)

(***************************************************************************)
(* Properties.                                                             *)
(***************************************************************************)
Places == {"slot", "picture", "get", "seek", "land", "skip", "sound", "aseek", "aland",
           "samples", "sent", "done", "failed", "stopped"}
Requests == [clip : Nat, file : File, t : Nat]
VideoReader == [next : Nat, flushed : BOOLEAN, pos : Nat, last : Nat, landed : Nat, noSeek : BOOLEAN]
AudioReader == [at : Nat, served : Nat, landed : Nat, noSeek : BOOLEAN]
TypeOK ==
    /\ timeline \in Timelines /\ slot \in 0..Slots /\ pc \in Places
    /\ track \in 0..Len(timeline) /\ todo \subseteq Nat /\ slack \in Nat
    /\ req \in Requests \cup {<<>>}
    /\ vid \in [File -> VideoReader] /\ aud \in [File -> AudioReader]
    /\ shown \subseteq [clip : Nat, frame : Nat]
    /\ heard \subseteq [clip : Nat, from : Nat, n : Nat]

(* A file whose timestamps start at zero, that is seekable or is not, and   *)
(* all of whose frames decode.                                              *)
Plain(f) ==
    /\ Media[f].from = 0 /\ Media[f].seeks # BOOLEAN
    /\ Media[f].corrupt = {} /\ 0 \in Media[f].keys

(* Between two calls, and while it counts, a reader knows where its decoder *)
(* is: through seeks that landed late, that never found a timestamp or that *)
(* were refused, at the end of the file and whatever the timeline asks for, *)
(* the position it counts from is that of the next frame or sample.  What   *)
(* is counted from there on is wrong for good when it is not.               *)
Positioned ==
    \A f \in File : Plain(f) =>
        /\ (pc \in {"seek", "land"} /\ req.file = f) \/ vid[f].pos = vid[f].next
        /\ \/ pc \in {"aseek", "aland"} /\ req.file = f
           \/ aud[f].served = aud[f].at \/ Ended(f, aud[f].at)

(* The inductive form: a file that refuses every seek never loses its       *)
(* place, and what is still to be served is on the winning track.           *)
Busy == {"get", "seek", "land", "skip", "aseek", "aland", "samples"}
Current ==
    /\ todo \subseteq On
    /\ pc \in Busy => req \in Requests
    /\ pc \in {"slot", "sent"} => todo = {}
    /\ pc # "done" => slot < Slots
Lost(f, places) == pc \in places /\ req.file = f /\ TRUE \in Media[f].seeks
Exact ==
    /\ pc \in {"land", "aland"} => TRUE \in Source.seeks
    /\ \A f \in File : Plain(f) =>
        /\ Lost(f, {"seek", "land"}) \/ vid[f].pos = vid[f].next
        /\ \/ Lost(f, {"aseek", "aland"})
           \/ aud[f].served = aud[f].at \/ Ended(f, aud[f].at)
IInv == TypeOK /\ Current /\ Exact

(* What the timeline places in a slot: the frame of each clip nearest to    *)
(* its source time, and the samples from that time on.                      *)
FrameOf(c, t) == IndexAt(c.file, SourceTime(c, t))
Frames(tr, on, t) ==
    {[clip |-> k, frame |-> FrameOf(tr[k], t)] :
        k \in {j \in on : Media[tr[j].file].opens /\ FrameOf(tr[j], t) < Media[tr[j].file].len}}
SamplesOf(k, c, t) ==
    LET len == IF Media[c.file].opens /\ Media[c.file].sound THEN SoundLen(c.file) ELSE 0
        from == IF SourceTime(c, t) < len THEN SourceTime(c, t) ELSE len
    IN [clip |-> k, from |-> from, n |-> IF len - from < Step THEN len - from ELSE Step]

(* A slot shows the frame at the source time each of its clips maps to it,  *)
(* and sounds of the samples from there on.                                 *)
PictureAsked == pc = "sent" => shown = IF track = 0 THEN {} ELSE Frames(timeline[track], On, Now)
SoundAsked ==
    pc = "sent" => heard = IF track = 0 THEN {}
                           ELSE {SamplesOf(k, timeline[track][k], Now) :
                                    k \in Sounding(timeline[track], On, Now)}

(* What the slot at t, and the first slot from n on that asks for it, asks   *)
(* of a file: clips and source times.                                       *)
Asks(tl, f, t) ==
    UNION {{<<k, SourceTime(tl[n][k], t)>> : k \in {j \in Covering(tl, n, t) : tl[n][j].file = f}} :
            n \in {m \in DOMAIN tl : Wins(tl, m, t)}}
AsksNext(tl, f, n) ==
    UNION {Asks(tl, f, i * Step) :
            i \in {j \in n..Slots - 1 : \A k \in n..j - 1 : Asks(tl, f, k * Step) = {}}}

(* A file whose frames are no longer than the continuation window, whose    *)
(* first frame and first packet are stamped (a seek to the start of any     *)
(* other takes the first timestamp it finds, wherever that is), and whose   *)
(* decoder takes every packet of sound.                                     *)
Steady(f) ==
    /\ Media[f].dur <= Hot /\ 0 \notin Media[f].bare \cup Media[f].mute
    /\ Refused(f) >= SoundLen(f)

(* A timeline that walks through each of its files at the file's own rate,  *)
(* or leaves it for more than the continuation window, and asks for nothing *)
(* that is still in the decoder when the file ends, nor for sound it heard. *)
Forward(tl, f) ==
    \A i \in 0..Slots - 1 : \A q \in Asks(tl, f, i * Step) :
        /\ \A p \in Asks(tl, f, i * Step) : p = q
        /\ Media[f].late = 0 \/ IndexAt(f, q[2]) + Media[f].late < Media[f].len
        /\ \A s \in AsksNext(tl, f, i + 1) :
              /\ s[2] = q[2] + Media[f].dur \/ s[2] > q[2] + Hot
              /\ s[2] >= q[2] + Step
Uses(tl, f) == \E n \in DOMAIN tl : \E k \in DOMAIN tl[n] : tl[n][k].file = f
Orderly ==
    {tl \in Timelines : \A f \in File : Uses(tl, f) => Plain(f) /\ Steady(f) /\ Forward(tl, f)}

(* On such timelines every slot is what the timeline places there, picture  *)
(* and sound, so that the two stay together: through cuts, transitions,     *)
(* tracks on top of each other, far seeks, files that end, that cannot be   *)
(* sought in or that do not open.                                           *)
AsPlaced == timeline \in Orderly => PictureAsked /\ SoundAsked

(* The inductive form: the clips of the slot that are not waiting any more  *)
(* have been given what they ask for, and a reader is not past what will be *)
(* asked of it next.                                                        *)
Seeing == {"picture", "get", "seek", "land", "skip"}
Hearing == {"sound", "aseek", "aland", "samples"}
Serving == Seeing \cup Hearing \cup {"sent"}
Pending == todo \cup (IF pc \in Busy THEN {req.clip} ELSE {})
Waits(f) == \E k \in Pending : timeline[track][k].file = f
Audible == Sounding(timeline[track], On, Now)
Given ==
    /\ pc \in Serving => Wins(timeline, track, Now)
    /\ pc \in Busy =>
        /\ req.clip \in On \ todo /\ req = Request(req.clip) /\ Source.opens
        /\ pc \in Hearing => Source.sound
    /\ pc \in Hearing => Pending \subseteq Audible
    /\ pc \in Serving =>
        shown = Frames(timeline[track], IF pc \in Seeing THEN On \ Pending ELSE On, Now)
    /\ pc \in Serving =>
        heard = IF pc \in Seeing THEN {}
                ELSE {SamplesOf(k, timeline[track][k], Now) : k \in Audible \ Pending}

(* The slot that asks a reader next. *)
SeenFrom(f) == IF pc = "slot" \/ (pc \in Seeing /\ Waits(f)) THEN slot ELSE slot + 1
HeardFrom(f) ==
    IF pc \in {"slot"} \cup Seeing \/ (pc \in Hearing /\ Waits(f)) THEN slot ELSE slot + 1
Continues(f, t) ==
    vid[f].last > 0 /\ t <= vid[f].last + Hot =>
        vid[f].next = IndexAt(f, t) \/ vid[f].next >= Media[f].len
SeesNext(f) ==
    \A s \in AsksNext(timeline, f, SeenFrom(f)) :
        /\ vid[f].next <= IndexAt(f, s[2])
        /\ (pc \in {"seek", "land", "skip"} /\ CurFile = f) \/ Continues(f, s[2])
HearsNext(f) ==
    /\ aud[f].at <= SoundLen(f) /\ aud[f].at <= aud[f].served
    /\ \A s \in AsksNext(timeline, f, HeardFrom(f)) : aud[f].served <= s[2]
Ahead ==
    /\ pc \notin {"failed", "stopped"} =>
        \A f \in File : Uses(timeline, f) /\ Media[f].opens =>
            /\ Lost(f, {"seek", "land"}) \/ SeesNext(f)
            /\ Lost(f, {"aseek", "aland"}) \/ HearsNext(f)
    /\ pc = "land" /\ Target = 0 => reader.next = 0
    /\ pc = "aland" /\ Target = 0 => sounder.at = 0
Placed == timeline \in Orderly => Given /\ Ahead

(* The rendering ends. *)
Renders == <>(pc \in {"done", "failed", "stopped"})
=============================================================================
