------------------------ MODULE SequenceEditorProofs ------------------------
(***************************************************************************)
(* Proofs about SequenceEditor, for any files, timelines and rates: type   *)
(* correctness, that a reader counts from where its decoder is, and that   *)
(* an orderly timeline is rendered as it is placed.                        *)
(***************************************************************************)
EXTENDS SequenceEditor, TLAPS

LEMMA RoundedDiv ==
  ASSUME NEW d \in Nat \ {0}, NEW k \in Nat
  PROVE  (2 * (k * d) + d) \div (2 * d) = k
<1>1. 2 * (k * d) + d = (2 * d) * k + d /\ d < 2 * d /\ 2 * d > 0 /\ k * d \in Nat
  BY SMT
<1> QED
  BY <1>1, SMT

LEMMA DivNat ==
  ASSUME NEW n \in Nat, NEW d \in Nat \ {0}
  PROVE  n \div d \in Nat
  BY SMT

LEMMA DivSmall ==
  ASSUME NEW n \in Nat, NEW d \in Nat \ {0}, n < d
  PROVE  n \div d = 0
  BY SMT

LEMMA TimesNat ==
  ASSUME NEW n \in Nat, NEW d \in Nat
  PROVE  n * d \in Nat
  BY SMT

LEMMA TimesZero ==
  ASSUME NEW n \in Nat, NEW d \in Nat \ {0}, n * d <= 0
  PROVE  n = 0
  BY SMT

(***************************************************************************)
(* Files, readers and requests.                                            *)
(***************************************************************************)
LEMMA MediaTyped ==
  ASSUME NEW f \in File
  PROVE  /\ Media[f] \in MediaType
         /\ Media[f].dur \in Nat \ {0} /\ Media[f].len \in Nat /\ Media[f].late \in Nat
         /\ Media[f].from \in Nat /\ Media[f].pkt \in Nat \ {0}
         /\ Media[f].keys \subseteq Nat /\ Media[f].corrupt \subseteq Nat
         /\ Media[f].seeks \subseteq BOOLEAN /\ Media[f].seeks # {}
         /\ SoundLen(f) \in Nat /\ Refused(f) \in Nat
<1>1. Media[f] \in MediaType
  BY MediaAssumption
<1> QED
  BY <1>1, TimesNat DEF MediaType, SoundLen, Refused

LEMMA StampTyped ==
  ASSUME NEW f \in File, NEW k \in Nat
  PROVE  Stamp(f, k) \in Nat /\ k * Media[f].dur \in Nat
BY MediaTyped, TimesNat DEF Stamp

LEMMA IndexTyped ==
  ASSUME NEW f \in File, NEW t \in Nat
  PROVE  IndexAt(f, t) \in Nat
<1>1. 2 * t + Media[f].dur \in Nat /\ 2 * Media[f].dur \in Nat \ {0}
  BY MediaTyped
<1> QED
  BY <1>1, DivNat DEF IndexAt

(* The frame with a timestamp is the frame at the index of that timestamp. *)
LEMMA IndexOfStamp ==
  ASSUME NEW f \in File, NEW k \in Nat, Media[f].from = 0
  PROVE  IndexAt(f, Stamp(f, k)) = k
BY MediaTyped, RoundedDiv, TimesNat DEF IndexAt, Stamp

LEMMA LandingTyped ==
  ASSUME NEW f \in File, NEW t \in Nat
  PROVE  Landing(f, t) \subseteq Nat /\ SoundLanding(f, t) \subseteq Nat
<1>1. Landing(f, t) \subseteq Nat
  BY MediaTyped DEF Landing
<1>2. ASSUME NEW p \in SoundLanding(f, t) PROVE p \in Nat
  <2>1. PICK k \in Landing(f, t) :
            \/ p = Media[f].pkt * ((k * Media[f].dur) \div Media[f].pkt)
            \/ p = Media[f].pkt * ((k * Media[f].dur + Media[f].pkt - 1) \div Media[f].pkt)
    BY <1>2 DEF SoundLanding
  <2>2. /\ k * Media[f].dur \in Nat /\ k * Media[f].dur + Media[f].pkt - 1 \in Nat
    BY <1>1, StampTyped, MediaTyped
  <2>3. /\ (k * Media[f].dur) \div Media[f].pkt \in Nat
        /\ (k * Media[f].dur + Media[f].pkt - 1) \div Media[f].pkt \in Nat
    BY <2>2, DivNat, MediaTyped
  <2> QED
    BY <2>1, <2>3, TimesNat, MediaTyped
<1> QED
  BY <1>1, <1>2

(* A seek to the start of a file that begins with a keyframe gets there. *)
LEMMA LandingAtStart ==
  ASSUME NEW f \in File, Plain(f)
  PROVE  Landing(f, 0) \subseteq {0} /\ SoundLanding(f, 0) \subseteq {0}
<1>1. ASSUME NEW k \in Landing(f, 0) PROVE k = 0
  <2>1. k \in Nat /\ Media[f].from = 0 /\ 0 \in Media[f].keys /\ Stamp(f, 0) = 0
    BY LandingTyped, MediaTyped DEF Plain, Stamp
  <2>2. CASE Stamp(f, k) <= 0
    <3>1. k * Media[f].dur <= 0
      BY <2>1, <2>2, StampTyped DEF Stamp
    <3> QED
      BY <2>1, <3>1, TimesZero, MediaTyped
  <2>3. CASE First({j \in Media[f].keys : Stamp(f, j) >= 0}, k)
    BY <2>1, <2>3 DEF First
  <2> QED
    BY <2>2, <2>3 DEF Landing, Last
<1>2. (0 * Media[f].dur) \div Media[f].pkt = 0
  BY MediaTyped, DivSmall
<1>3. (0 * Media[f].dur + Media[f].pkt - 1) \div Media[f].pkt = 0
  BY MediaTyped, DivSmall
<1>4. ASSUME NEW p \in SoundLanding(f, 0) PROVE p = 0
  <2>1. PICK k \in Landing(f, 0) :
            \/ p = Media[f].pkt * ((k * Media[f].dur) \div Media[f].pkt)
            \/ p = Media[f].pkt * ((k * Media[f].dur + Media[f].pkt - 1) \div Media[f].pkt)
    BY <1>4 DEF SoundLanding
  <2> QED
    BY <1>1, <1>2, <1>3, <2>1, MediaTyped
<1> QED
  BY <1>1, <1>4

(***************************************************************************)
(* What is true while a request is served.                                 *)
(***************************************************************************)
LEMMA RequestTyped ==
  ASSUME IInv, pc \in Busy
  PROVE  /\ CurFile \in File /\ req.clip \in Nat /\ req.t \in Nat
         /\ reader \in VideoReader /\ sounder \in AudioReader
         /\ Source \in MediaType
         /\ Target \in Nat /\ Wanted \in Nat /\ Decoded \in VideoReader
<1>1. CurFile \in File /\ req.clip \in Nat /\ req.t \in Nat /\ slack \in Nat
  BY DEF IInv, TypeOK, Current, Requests, CurFile
<1>2. reader \in VideoReader /\ sounder \in AudioReader
  BY <1>1 DEF IInv, TypeOK, reader, sounder
<1>3. Target \in Nat
  BY <1>1 DEF Target
<1>4. Wanted \in Nat
  BY <1>1, IndexTyped DEF Wanted
<1>5. Decoded \in VideoReader
  <2>1. CASE Has
    BY <1>2, <2>1 DEF Decoded, VideoReader
  <2>2. CASE ~Has
    BY <1>2, <2>2 DEF Decoded, VideoReader
  <2> QED
    BY <2>1, <2>2
<1> QED
  BY <1>1, <1>2, <1>3, <1>4, <1>5, MediaTyped DEF Source

(* A step that changes the clip reader of the request alone. *)
LEMMA VideoStep ==
  ASSUME IInv, NEW X \in VideoReader, UNCHANGED <<lineVars, todoVars, aud, heard>>,
         pc \in {"get", "seek", "land", "skip"},
         pc' \in {"seek", "land", "skip", "picture", "failed"},
         vid' = [vid EXCEPT ![CurFile] = X], slack' \in Nat,
         shown' \subseteq [clip : Nat, frame : Nat],
         pc' = "land" => TRUE \in Source.seeks,
         Plain(CurFile) => X.pos = X.next \/ (pc' \in {"seek", "land"} /\ TRUE \in Source.seeks)
  PROVE  IInv'
<1> USE DEF lineVars, todoVars
<1>1. CurFile \in File /\ req \in Requests
  BY RequestTyped DEF IInv, Current, Busy
<1>2. TypeOK'
  BY <1>1 DEF IInv, TypeOK, Places
<1>3. On' = On /\ Source' = Source
  BY DEF On, Now, Source, CurFile
<1>4. Current'
  BY <1>1, <1>3 DEF IInv, Current
<1>5. Exact'
  <2>1. pc' \in {"land", "aland"} => TRUE \in Source'.seeks
    BY <1>3
  <2>2. ASSUME NEW f \in File, Plain(f)
        PROVE  /\ Lost(f, {"seek", "land"})' \/ vid'[f].pos = vid'[f].next
               /\ aud[f].served = aud[f].at \/ Ended(f, aud[f].at)
    <3>1. aud[f].served = aud[f].at \/ Ended(f, aud[f].at)
      BY <2>2 DEF IInv, Exact, Lost
    <3>2. CASE f = CurFile
      <4>1. vid'[f] = X
        BY <3>2, <1>1 DEF IInv, TypeOK
      <4> QED
        BY <3>1, <3>2, <4>1, <2>2 DEF Lost, Source, CurFile
    <3>3. CASE f # CurFile
      <4>1. vid'[f] = vid[f]
        BY <3>3, <1>1 DEF IInv, TypeOK
      <4> QED
        BY <3>1, <3>3, <4>1, <2>2 DEF Lost, CurFile, IInv, Exact
    <3> QED
      BY <3>2, <3>3
  <2> QED
    BY <2>1, <2>2 DEF Exact, Plain, SoundLen, Ended, SoundStop, Refused
<1> QED
  BY <1>2, <1>4, <1>5 DEF IInv

(* A step that changes the audio reader of the request alone. *)
LEMMA AudioStep ==
  ASSUME IInv, NEW X \in AudioReader, UNCHANGED <<lineVars, todoVars, vid, shown>>,
         pc \in {"aseek", "aland", "samples"},
         pc' \in {"aseek", "aland", "samples", "sound"},
         aud' = [aud EXCEPT ![CurFile] = X], slack' \in Nat,
         heard' \subseteq [clip : Nat, from : Nat, n : Nat],
         pc' = "aland" => TRUE \in Source.seeks,
         Plain(CurFile) =>
            \/ X.served = X.at \/ Ended(CurFile, X.at)
            \/ pc' \in {"aseek", "aland"} /\ TRUE \in Source.seeks
  PROVE  IInv'
<1> USE DEF lineVars, todoVars
<1>1. CurFile \in File /\ req \in Requests
  BY RequestTyped DEF IInv, Current, Busy
<1>2. TypeOK'
  BY <1>1 DEF IInv, TypeOK, Places
<1>3. On' = On /\ Source' = Source
  BY DEF On, Now, Source, CurFile
<1>4. Current'
  BY <1>1, <1>3 DEF IInv, Current
<1>5. Exact'
  <2>1. pc' \in {"land", "aland"} => TRUE \in Source'.seeks
    BY <1>3
  <2>2. ASSUME NEW f \in File, Plain(f)
        PROVE  /\ vid[f].pos = vid[f].next
               /\ \/ Lost(f, {"aseek", "aland"})'
                  \/ aud'[f].served = aud'[f].at \/ Ended(f, aud'[f].at)
    <3>1. vid[f].pos = vid[f].next
      BY <2>2 DEF IInv, Exact, Lost
    <3>2. CASE f = CurFile
      <4>1. aud'[f] = X
        BY <3>2, <1>1 DEF IInv, TypeOK
      <4> QED
        BY <3>1, <3>2, <4>1, <2>2 DEF Lost, Source, CurFile
    <3>3. CASE f # CurFile
      <4>1. aud'[f] = aud[f]
        BY <3>3, <1>1 DEF IInv, TypeOK
      <4> QED
        BY <3>1, <3>3, <4>1, <2>2 DEF Lost, CurFile, IInv, Exact
    <3> QED
      BY <3>2, <3>3
  <2> QED
    BY <2>1, <2>2 DEF Exact, Plain, SoundLen, Ended, SoundStop, Refused
<1> QED
  BY <1>2, <1>4, <1>5 DEF IInv

(***************************************************************************)
(* The renderer's own steps.                                               *)
(***************************************************************************)
(* A step that moves no reader and asks for nothing. *)
LEMMA PlainStep ==
  ASSUME IInv, UNCHANGED <<timeline, req, vid, aud>>,
         pc' \in Places \ Busy, pc \notin Busy,
         slot' \in 0..Slots, track' \in 0..Len(timeline), slack' \in Nat,
         todo' \subseteq On', pc' \in {"slot", "sent"} => todo' = {},
         pc' # "done" => slot' < Slots,
         shown' \subseteq [clip : Nat, frame : Nat],
         heard' \subseteq [clip : Nat, from : Nat, n : Nat], todo' \subseteq Nat
  PROVE  IInv'
<1>1. TypeOK'
  BY DEF IInv, TypeOK, Places
<1>2. Current'
  BY DEF Current
<1>3. Exact'
  BY DEF IInv, Exact, Busy, Lost, Plain, SoundLen, Ended, SoundStop, Refused, Source, CurFile
<1> QED
  BY <1>1, <1>2, <1>3 DEF IInv

LEMMA OnTyped ==
  ASSUME TypeOK
  PROVE  /\ On \subseteq Nat
         /\ \A k \in On : Request(k) \in Requests
         /\ \A n \in 0..Len(timeline) : Playing(timeline, n, Now) \subseteq Nat
<1>1. timeline \in Seq(Seq(Clip)) /\ Now \in Nat /\ track \in 0..Len(timeline)
  BY TimelineAssumption, BoundAssumption, TimesNat DEF TypeOK, Now
<1>2. ASSUME NEW n \in 1..Len(timeline), NEW k \in Covering(timeline, n, Now)
      PROVE  /\ k \in Nat /\ timeline[n][k] \in Clip /\ timeline[n][k].at <= Now
  <2>1. timeline[n] \in Seq(Clip)
    BY <1>1
  <2>2. k \in DOMAIN timeline[n] /\ timeline[n][k].at <= Now
    BY <1>2 DEF Covering
  <2> QED
    BY <2>1, <2>2
<1>3. ASSUME NEW n \in 0..Len(timeline) PROVE Playing(timeline, n, Now) \subseteq Nat
  BY <1>1, <1>2 DEF Playing
<1>4. ASSUME NEW k \in On PROVE Request(k) \in Requests
  <2>1. track \in 1..Len(timeline) /\ k \in Covering(timeline, track, Now)
    BY <1>1, <1>4 DEF On, Playing
  <2>2. k \in Nat /\ timeline[track][k] \in Clip /\ timeline[track][k].at <= Now
    BY <1>2, <2>1
  <2>3. timeline[track][k].file \in File /\ timeline[track][k].in \in Nat /\ timeline[track][k].at \in Nat
    BY <2>2 DEF Clip
  <2>4. SourceTime(timeline[track][k], Now) \in Nat
    <3>1. ASSUME NEW in \in Nat, NEW at \in Nat, NEW t \in Nat, at <= t
          PROVE  in + (t - at) \in Nat
      BY <3>1
    <3> QED
      BY <1>1, <2>2, <2>3, <3>1 DEF SourceTime
  <2> QED
    BY <2>2, <2>3, <2>4 DEF Request, Requests
<1> QED
  BY <1>1, <1>3, <1>4 DEF On

LEMMA RenderSteps ==
  ASSUME IInv, BeginSlot \/ NextPicture \/ PicturesDone \/ SlotDone \/ NextSlot \/ Cancel \/ SendFails
  PROVE  IInv'
<1> USE DEF lineVars, todoVars
<1>0. TypeOK /\ Current /\ (pc # "done" => slot < Slots)
  BY DEF IInv, Current
<1>1. CASE BeginSlot
  <2>1. PICK n \in 0..Len(timeline) : track' = n /\ todo' = Playing(timeline, n, Now)
    BY <1>1 DEF BeginSlot
  <2>2. On' = todo'
    BY <1>1, <2>1 DEF BeginSlot, On, Now
  <2>3. todo' \subseteq Nat
    BY <1>0, <2>1, OnTyped
  <2> QED
    BY <1>0, <1>1, <2>1, <2>2, <2>3, PlainStep DEF BeginSlot, TypeOK, Places, Busy
<1>2. CASE NextPicture
  <2>1. PICK k \in todo : todo' = todo \ {k} /\ req' = Request(k)
    BY <1>2 DEF NextPicture
  <2>2. req' \in Requests
    BY <1>0, <2>1, OnTyped DEF Current
  <2>3. On' = On
    BY <1>2 DEF NextPicture, On, Now
  <2>4. TypeOK'
    BY <1>0, <1>2, <2>1, <2>2 DEF NextPicture, TypeOK, Places
  <2>5. Current'
    BY <1>0, <1>2, <2>1, <2>2, <2>3 DEF NextPicture, Current
  <2>6. Exact'
    BY <1>2, <2>2 DEF NextPicture, IInv, Exact, Lost, Plain, SoundLen, Ended, SoundStop, Refused
  <2> QED
    BY <2>4, <2>5, <2>6 DEF IInv
<1>3. CASE PicturesDone
  <2>1. On' = On /\ todo' \subseteq On
    BY <1>3 DEF PicturesDone, On, Now, Sounding
  <2> QED
    BY <1>0, <1>3, <2>1, OnTyped, PlainStep DEF PicturesDone, TypeOK, Places, Busy
<1>4. CASE SlotDone
  <2>1. todo' = {}
    BY <1>4 DEF SlotDone
  <2> QED
    BY <1>0, <1>4, <2>1, PlainStep DEF SlotDone, TypeOK, Places, Busy
<1>5. CASE NextSlot
  <2>1. todo' = {} /\ slot < Slots
    BY <1>0, <1>5 DEF NextSlot, Current
  <2>2. /\ slot' \in 0..Slots /\ (pc' # "done" => slot' < Slots)
        /\ pc' \in {"done", "slot"}
    BY <1>0, <1>5, <2>1, BoundAssumption DEF NextSlot, TypeOK
  <2>3. todo' \subseteq On' /\ todo' \subseteq Nat
    BY <2>1
  <2> QED
    BY <1>0, <1>5, <2>1, <2>2, <2>3, PlainStep DEF NextSlot, TypeOK, Places, Busy
<1>6. CASE Cancel
  <2>1. todo' = {}
    BY <1>0, <1>6 DEF Cancel, Current
  <2> QED
    BY <1>0, <1>6, <2>1, PlainStep DEF Cancel, TypeOK, Places, Busy
<1>7. CASE SendFails
  <2>1. todo' = {}
    BY <1>7 DEF SendFails
  <2> QED
    BY <1>0, <1>7, <2>1, PlainStep DEF SendFails, TypeOK, Places, Busy
<1> QED
  BY <1>1, <1>2, <1>3, <1>4, <1>5, <1>6, <1>7

(***************************************************************************)
(* Pictures.                                                               *)
(***************************************************************************)
LEMMA VideoSteps ==
  ASSUME IInv, Continue \/ Jump \/ Skip \/ NoFrame
  PROVE  IInv'
<1> USE DEF lineVars, todoVars
<1>0. /\ TypeOK /\ slack \in Nat /\ shown \subseteq [clip : Nat, frame : Nat]
      /\ Second \in Nat /\ pc \in {"get", "skip"}
  BY BoundAssumption DEF IInv, TypeOK, Continue, Jump, Skip, NoFrame
<1>1. /\ CurFile \in File /\ reader \in VideoReader /\ Decoded \in VideoReader
      /\ req.t \in Nat /\ req.clip \in Nat
  BY <1>0, RequestTyped DEF Busy
<1>2. Plain(CurFile) => reader.pos = reader.next
  BY <1>0, <1>1 DEF IInv, Exact, Lost, reader
<1>3. Yields => Decoded.next = reader.next + 1
  BY <1>1 DEF Yields, Decoded, VideoReader
<1> DEFINE X == Consumed(Decoded, reader.pos)
           Y == [X EXCEPT !.last = req.t]
<1>4. /\ X \in VideoReader /\ Y \in VideoReader
      /\ Yields /\ Plain(CurFile) => X.pos = X.next /\ Y.pos = Y.next
  <2>1. X \in VideoReader /\ X.pos = reader.pos + 1 /\ X.next = Decoded.next
    BY <1>1 DEF Consumed, VideoReader
  <2>2. Y \in VideoReader /\ Y.pos = X.pos /\ Y.next = X.next
    BY <1>1, <2>1 DEF VideoReader
  <2> QED
    BY <1>2, <1>3, <2>1, <2>2
<1>5. shown \cup {[clip |-> req.clip, frame |-> reader.next]} \subseteq [clip : Nat, frame : Nat]
  BY <1>0, <1>1 DEF VideoReader
<1>6. CASE Continue
  BY <1>0, <1>4, <1>5, <1>6, VideoStep DEF Continue, Serve
<1>7. CASE Jump
  <2>1. vid' = [vid EXCEPT ![CurFile] = reader]
    BY <1>0, <1>1, <1>7 DEF Jump, TypeOK, reader
  <2> QED
    BY <1>0, <1>1, <1>2, <1>7, <2>1, VideoStep DEF Jump
<1>8. CASE Skip
  <2>1. CASE Arrived(reader.pos + 1)
    BY <1>0, <1>4, <1>5, <1>8, <2>1, VideoStep DEF Skip, Serve
  <2>2. CASE ~Arrived(reader.pos + 1)
    BY <1>0, <1>4, <1>8, <2>2, VideoStep DEF Skip
  <2> QED
    BY <2>1, <2>2
<1>9. CASE NoFrame
  <2>1. Plain(CurFile) => Decoded.pos = Decoded.next
    BY <1>1, <1>2, <1>9 DEF NoFrame, Yields, Decoded, VideoReader, Plain, Source
  <2> QED
    BY <1>0, <1>1, <1>9, <2>1, VideoStep DEF NoFrame
<1> QED
  BY <1>6, <1>7, <1>8, <1>9

(***************************************************************************)
(* Seeks.                                                                  *)
(***************************************************************************)
LEMMA SeekSteps ==
  ASSUME IInv, Seek
  PROVE  IInv'
<1> USE DEF lineVars, todoVars
<1>0. /\ TypeOK /\ slack \in Nat /\ shown \subseteq [clip : Nat, frame : Nat]
      /\ Second \in Nat /\ pc \in {"seek", "land"}
  BY BoundAssumption DEF IInv, TypeOK, Seek, Reposition, LandBare, LandWell, LandPast, GiveUp, Anchored
<1>1. /\ CurFile \in File /\ reader \in VideoReader /\ Decoded \in VideoReader
      /\ req.t \in Nat /\ req.clip \in Nat /\ Target \in Nat
      /\ Source.seeks \subseteq BOOLEAN
  BY <1>0, RequestTyped, MediaTyped DEF Busy, Source
<1>2. /\ pc = "land" => TRUE \in Source.seeks
      /\ Plain(CurFile) => reader.pos = reader.next \/ TRUE \in Source.seeks
  BY <1>0, <1>1 DEF IInv, Exact, Lost, reader, Source
<1>3. Plain(CurFile) /\ FALSE \in Source.seeks => reader.pos = reader.next
  BY <1>1, <1>2 DEF Plain, Source
<1>4. Anchored => /\ Decoded.next = reader.next + 1 /\ AnchorPos \in Nat
                  /\ Plain(CurFile) => AnchorPos = reader.next
  <2>1. Stamp(CurFile, reader.next) \in Nat
    BY <1>1, StampTyped DEF VideoReader
  <2>2. AnchorPos \in Nat
    BY <1>1, <2>1, IndexTyped DEF AnchorPos
  <2>3. Plain(CurFile) => AnchorPos = reader.next
    BY <1>1, IndexOfStamp DEF AnchorPos, Plain, VideoReader
  <2>4. Anchored => Decoded.next = reader.next + 1
    BY <1>1 DEF Anchored, Yields, Decoded, VideoReader
  <2> QED
    BY <2>2, <2>3, <2>4
<1>5. CASE Reposition
  <2>1. CASE TRUE \in Source.seeks /\ pc' = "land"
    <3>1. PICK k \in Landing(CurFile, Target) : vid' = [vid EXCEPT ![CurFile] = Moved(k)]
      BY <1>0, <1>5, <2>1 DEF Reposition
    <3>2. Moved(k) \in VideoReader
      BY <1>1, <3>1, LandingTyped DEF Moved, VideoReader
    <3> QED
      BY <1>0, <1>5, <2>1, <3>1, <3>2, VideoStep DEF Reposition
  <2>2. CASE FALSE \in Source.seeks /\ pc' = "skip"
    <3> DEFINE Y == [reader EXCEPT !.noSeek = TRUE]
    <3>1. vid' = [vid EXCEPT ![CurFile] = Y]
      BY <1>0, <1>1, <1>5, <2>2 DEF Reposition, TypeOK, reader
    <3>2. Y \in VideoReader /\ Y.pos = reader.pos /\ Y.next = reader.next
      BY <1>1 DEF VideoReader
    <3> QED
      BY <1>0, <1>3, <1>5, <2>2, <3>1, <3>2, VideoStep DEF Reposition
  <2> QED
    BY <1>5, <2>1, <2>2 DEF Reposition
<1>6. CASE LandBare
  <2> DEFINE Y == [Decoded EXCEPT !.landed = @ + 1]
  <2>1. Y \in VideoReader
    BY <1>1 DEF VideoReader
  <2> QED
    BY <1>0, <1>2, <1>6, <2>1, VideoStep DEF LandBare
<1>7. CASE LandWell
  <2> DEFINE X == Consumed(Decoded, AnchorPos)
             Y == [X EXCEPT !.last = req.t]
  <2>1. X \in VideoReader /\ X.pos = AnchorPos + 1 /\ X.next = Decoded.next
    BY <1>1, <1>4, <1>7 DEF LandWell, Consumed, VideoReader
  <2>2. Y \in VideoReader /\ Y.pos = X.pos /\ Y.next = X.next
    BY <1>1, <2>1 DEF VideoReader
  <2>3. Plain(CurFile) => X.pos = X.next /\ Y.pos = Y.next
    BY <1>4, <1>7, <2>1, <2>2 DEF LandWell
  <2>4. CASE Arrived(AnchorPos + 1)
    <3>1. shown \cup {[clip |-> req.clip, frame |-> reader.next]} \subseteq [clip : Nat, frame : Nat]
      BY <1>0, <1>1 DEF VideoReader
    <3> QED
      BY <1>0, <1>7, <2>2, <2>3, <2>4, <3>1, VideoStep DEF LandWell, Serve
  <2>5. CASE ~Arrived(AnchorPos + 1)
    BY <1>0, <1>7, <2>1, <2>3, <2>5, VideoStep DEF LandWell
  <2> QED
    BY <2>4, <2>5
<1>8. CASE LandPast
  <2> DEFINE Y == [Decoded EXCEPT !.pos = AnchorPos]
  <2>1. Y \in VideoReader
    BY <1>1, <1>4, <1>8 DEF LandPast, VideoReader
  <2>2. Wider \in Nat
    BY <1>0 DEF Wider
  <2>3. TRUE \in Source.seeks
    BY <1>2, <1>8 DEF LandPast, Anchored
  <2> QED
    BY <1>0, <1>8, <2>1, <2>2, <2>3, VideoStep DEF LandPast
<1>9. CASE GiveUp
  <2>1. CASE \E k \in Landing(CurFile, 0) : vid' = [vid EXCEPT ![CurFile] = FromStart(k)]
    <3>1. PICK k \in Landing(CurFile, 0) : vid' = [vid EXCEPT ![CurFile] = FromStart(k)]
      BY <2>1
    <3>2. k \in Nat /\ (Plain(CurFile) => k = 0)
      BY <1>1, <3>1, LandingTyped, LandingAtStart
    <3>3. FromStart(k) \in VideoReader /\ FromStart(k).pos = 0 /\ FromStart(k).next = k
      BY <1>1, <3>2 DEF FromStart, Moved, VideoReader
    <3> QED
      BY <1>0, <1>9, <3>1, <3>2, <3>3, VideoStep DEF GiveUp
  <2>2. CASE /\ FALSE \in Source.seeks
             /\ vid' = [vid EXCEPT ![CurFile] =
                   [(IF pc = "land" /\ reader.landed < MaxLanding THEN Decoded ELSE reader)
                        EXCEPT !.noSeek = TRUE]]
    <3> DEFINE Z == IF pc = "land" /\ reader.landed < MaxLanding THEN Decoded ELSE reader
               Y == [Z EXCEPT !.noSeek = TRUE]
    <3>1. Z \in VideoReader
      BY <1>1
    <3>2. Y \in VideoReader /\ Y.pos = Z.pos /\ Y.next = Z.next
      BY <3>1 DEF VideoReader
    <3>3. Plain(CurFile) => Z = reader
      BY <1>1, <1>2, <2>2 DEF Plain, Source
    <3> QED
      BY <1>0, <1>3, <1>9, <2>2, <3>2, <3>3, VideoStep DEF GiveUp
  <2> QED
    BY <1>9, <2>1, <2>2 DEF GiveUp
<1> QED
  BY <1>5, <1>6, <1>7, <1>8, <1>9 DEF Seek

(***************************************************************************)
(* Sound.                                                                  *)
(***************************************************************************)
LEMMA UpToTyped ==
  ASSUME IInv, pc = "samples", NEW n \in Nat
  PROVE  /\ UpTo(n) \in Nat /\ SoundStop(CurFile, sounder.at) \in Nat
         /\ UpTo(n) = n \/ UpTo(n) >= SoundStop(CurFile, sounder.at)
         /\ UpTo(n) >= SoundStop(CurFile, sounder.at) => Ended(CurFile, UpTo(n))
         /\ n >= sounder.at => UpTo(n) >= sounder.at
         /\ n >= SoundStop(CurFile, sounder.at) => UpTo(n) >= SoundStop(CurFile, sounder.at)
<1>1. /\ CurFile \in File /\ sounder.at \in Nat
      /\ SoundLen(CurFile) \in Nat /\ Refused(CurFile) \in Nat
  BY RequestTyped, MediaTyped DEF Busy, AudioReader
<1> QED
  BY <1>1 DEF UpTo, SoundStop, Ended

LEMMA SounderTyped ==
  ASSUME NEW r \in AudioReader, NEW a \in Nat, NEW b \in Nat
  PROVE  /\ [r EXCEPT !.at = a, !.landed = b] \in AudioReader
         /\ [r EXCEPT !.at = a, !.served = b] \in AudioReader
BY DEF AudioReader

LEMMA SoundSteps ==
  ASSUME IInv, Sound
  PROVE  IInv'
<1> USE DEF lineVars, todoVars
<1>0. /\ TypeOK /\ slack \in Nat /\ heard \subseteq [clip : Nat, from : Nat, n : Nat]
      /\ Second \in Nat /\ Step \in Nat /\ Current
  BY BoundAssumption DEF IInv, TypeOK
<1>1. ASSUME pc \in {"aseek", "aland", "samples"}
      PROVE  /\ CurFile \in File /\ sounder \in AudioReader /\ Source.seeks \subseteq BOOLEAN
             /\ req.t \in Nat /\ req.clip \in Nat /\ Target \in Nat
             /\ Source.pkt \in Nat /\ Source.from \in Nat /\ SoundLen(CurFile) \in Nat
  BY <1>1, RequestTyped, MediaTyped DEF Busy, Source
<1>2. /\ pc = "aland" => TRUE \in Source.seeks
      /\ pc \in {"aseek", "aland", "samples"} /\ Plain(CurFile) =>
            \/ sounder.served = sounder.at \/ Ended(CurFile, sounder.at)
            \/ pc # "samples" /\ TRUE \in Source.seeks
  BY <1>1 DEF IInv, Exact, Lost, sounder, Source
<1>3. CASE NextSound
  <2>1. PICK k \in todo :
            /\ todo' = todo \ {k} /\ req' = Request(k) /\ slack' = Second
            /\ pc' \in {"sound", "aseek", "samples"}
            /\ heard' \in {heard, heard \cup {[clip |-> k, from |-> 0, n |-> 0]}}
    BY <1>3 DEF NextSound, Hears
  <2>2. req' \in Requests /\ k \in Nat
    BY <1>0, <2>1, OnTyped DEF Current
  <2>3. On' = On
    BY <1>3 DEF NextSound, On, Now
  <2>4. heard' \subseteq [clip : Nat, from : Nat, n : Nat]
    BY <1>0, <2>1, <2>2
  <2>5. TypeOK'
    BY <1>0, <1>3, <2>1, <2>2, <2>4 DEF NextSound, TypeOK, Places
  <2>6. Current'
    BY <1>0, <1>3, <2>1, <2>2, <2>3 DEF NextSound, Current
  <2>7. Exact'
    BY <1>3, <2>1 DEF NextSound, IInv, Exact, Lost, Plain, SoundLen, Ended, SoundStop, Refused
  <2> QED
    BY <2>5, <2>6, <2>7 DEF IInv
<1>4. CASE SoundReposition
  <2>0. pc = "aseek"
    BY <1>4 DEF SoundReposition
  <2>1. CASE TRUE \in Source.seeks /\ pc' = "aland"
    <3>1. PICK p \in SoundLanding(CurFile, Target) :
              aud' = [aud EXCEPT ![CurFile] = [sounder EXCEPT !.at = p, !.landed = 0]]
      BY <1>4, <2>1 DEF SoundReposition
    <3> DEFINE Y == [sounder EXCEPT !.at = p, !.landed = 0]
    <3>2. aud' = [aud EXCEPT ![CurFile] = Y]
      BY <1>0, <1>1, <2>0, <3>1 DEF TypeOK, sounder
    <3>3. Y \in AudioReader
      BY <1>1, <2>0, <3>1, LandingTyped DEF AudioReader
    <3> QED
      BY <1>0, <1>4, <2>0, <2>1, <3>2, <3>3, AudioStep DEF SoundReposition
  <2>2. CASE FALSE \in Source.seeks /\ pc' = "samples"
    <3> DEFINE Y == [sounder EXCEPT !.noSeek = TRUE]
    <3>1. aud' = [aud EXCEPT ![CurFile] = Y]
      BY <1>0, <1>1, <1>4, <2>0, <2>2 DEF SoundReposition, TypeOK, sounder
    <3>2. Y \in AudioReader /\ Y.at = sounder.at /\ Y.served = sounder.served
      BY <1>1, <2>0 DEF AudioReader
    <3>3. Plain(CurFile) => sounder.served = sounder.at \/ Ended(CurFile, sounder.at)
      BY <1>1, <1>2, <2>0, <2>2 DEF Plain, Source
    <3> QED
      BY <1>0, <1>4, <2>0, <2>2, <3>1, <3>2, <3>3, AudioStep DEF SoundReposition
  <2> QED
    BY <1>4, <2>1, <2>2 DEF SoundReposition
<1>5. CASE SoundBare
  <2>0. pc = "aland"
    BY <1>5 DEF SoundBare, SoundMayLand
  <2> DEFINE Y == [sounder EXCEPT !.at = sounder.at + Source.pkt, !.landed = sounder.landed + 1]
  <2>1. aud' = [aud EXCEPT ![CurFile] = Y]
    BY <1>5 DEF SoundBare
  <2>2. Y \in AudioReader
    <3>1. sounder.at + Source.pkt \in Nat /\ sounder.landed + 1 \in Nat
      BY <1>1, <2>0 DEF AudioReader
    <3> QED
      BY <1>1, <2>0, <3>1, SounderTyped
  <2> QED
    BY <1>0, <1>2, <1>5, <2>0, <2>1, <2>2, AudioStep DEF SoundBare
<1>6. CASE SoundAnchor
  <2>0. pc = "aland"
    BY <1>6 DEF SoundAnchor, SoundMayLand
  <2> DEFINE Y == [sounder EXCEPT !.served = Source.from + sounder.at]
  <2>1. aud' = [aud EXCEPT ![CurFile] = Y]
    BY <1>0, <1>1, <1>6, <2>0 DEF SoundAnchor, TypeOK, sounder
  <2>2. Y \in AudioReader /\ (Plain(CurFile) => Y.served = Y.at)
    BY <1>1, <2>0 DEF AudioReader, Plain, Source
  <2>3. pc' \in {"samples", "aseek"} /\ slack' \in Nat
    BY <1>0, <1>6 DEF SoundAnchor
  <2> QED
    BY <1>0, <1>6, <2>0, <2>1, <2>2, <2>3, AudioStep DEF SoundAnchor
<1>7. CASE SoundGivesUp
  <2>0. pc \in {"aseek", "aland"} /\ pc' = "samples"
    BY <1>7 DEF SoundGivesUp
  <2>1. CASE \E p \in SoundLanding(CurFile, 0) :
                aud' = [aud EXCEPT ![CurFile] =
                            [at |-> p, served |-> 0, landed |-> 0, noSeek |-> TRUE]]
    <3>1. PICK p \in SoundLanding(CurFile, 0) :
              aud' = [aud EXCEPT ![CurFile] =
                          [at |-> p, served |-> 0, landed |-> 0, noSeek |-> TRUE]]
      BY <2>1
    <3> DEFINE Y == [at |-> p, served |-> 0, landed |-> 0, noSeek |-> TRUE]
    <3>2. Y \in AudioReader /\ (Plain(CurFile) => Y.served = Y.at)
      BY <1>1, <2>0, <3>1, LandingTyped, LandingAtStart DEF AudioReader
    <3> QED
      BY <1>0, <1>7, <2>0, <3>1, <3>2, AudioStep DEF SoundGivesUp
  <2>2. CASE FALSE \in Source.seeks /\ aud' = [aud EXCEPT ![CurFile].noSeek = TRUE]
    <3> DEFINE Y == [sounder EXCEPT !.noSeek = TRUE]
    <3>1. aud' = [aud EXCEPT ![CurFile] = Y]
      BY <1>0, <1>1, <2>0, <2>2 DEF TypeOK, sounder
    <3>2. Y \in AudioReader /\ Y.at = sounder.at /\ Y.served = sounder.served
      BY <1>1, <2>0 DEF AudioReader
    <3>3. Plain(CurFile) => sounder.served = sounder.at \/ Ended(CurFile, sounder.at)
      BY <1>1, <1>2, <2>0, <2>2 DEF Plain, Source
    <3> QED
      BY <1>0, <1>7, <2>0, <3>1, <3>2, <3>3, AudioStep DEF SoundGivesUp
  <2> QED
    BY <1>7, <2>1, <2>2 DEF SoundGivesUp
<1>8. CASE Samples
  <2>0. pc = "samples" /\ pc' = "sound"
    BY <1>8 DEF Samples
  <2> DEFINE ahead == IF req.t > sounder.served THEN req.t - sounder.served ELSE 0
             from  == UpTo(sounder.at + ahead)
             upto  == UpTo(from + Step)
             stop  == SoundStop(CurFile, sounder.at)
             Y     == [sounder EXCEPT !.at = upto, !.served = sounder.served + ahead + Step]
  <2>1. aud' = [aud EXCEPT ![CurFile] = Y] /\ Hears(upto - from, req.clip, from)
    BY <1>8 DEF Samples
  <2>2. ahead \in Nat /\ sounder.at \in Nat /\ sounder.served \in Nat
    BY <1>1, <2>0 DEF AudioReader
  <2>3. /\ from \in Nat /\ (from = sounder.at + ahead \/ from >= stop) /\ stop \in Nat
        /\ from >= sounder.at
    BY <1>1, <2>0, <2>2, UpToTyped
  <2>4. /\ upto \in Nat /\ (upto = from + Step \/ upto >= stop)
        /\ upto >= sounder.at /\ (upto >= stop => Ended(CurFile, upto))
        /\ (from + Step >= stop => upto >= stop)
    BY <1>0, <1>1, <2>0, <2>2, <2>3, UpToTyped
  <2>5. upto >= from
    BY <1>0, <1>1, <2>0, <2>2, <2>3 DEF UpTo
  <2>6. Y \in AudioReader /\ Y.at = upto /\ Y.served = sounder.served + ahead + Step
    <3>1. sounder.served + ahead + Step \in Nat
      BY <1>0, <2>2
    <3>2. sounder \in AudioReader /\ upto \in Nat
      BY <1>1, <2>0, <2>4
    <3>3. Y \in AudioReader
      BY <3>1, <3>2, SounderTyped
    <3> HIDE DEF upto, from, ahead
    <3>4. Y.at = upto
      BY <3>2 DEF AudioReader
    <3>5. Y.served = sounder.served + ahead + Step
      BY <3>2 DEF AudioReader
    <3> QED
      BY <3>3, <3>4, <3>5
  <2>7. from >= stop => upto >= stop
    BY <1>0, <2>3, <2>4
  <2>8. Plain(CurFile) => Y.served = Y.at \/ Ended(CurFile, Y.at)
    <3> HIDE DEF Y, upto, from, ahead
    <3>1. Ended(CurFile, sounder.at) => Ended(CurFile, upto)
      <4>1. Ended(CurFile, sounder.at) => sounder.at >= stop
        BY DEF Ended
      <4> HIDE DEF stop
      <4> QED
        BY <2>2, <2>3, <2>4, <4>1
    <3> HIDE DEF stop
    <3> QED
      BY <1>0, <1>1, <1>2, <2>0, <2>2, <2>3, <2>4, <2>6, <2>7, <3>1
  <2>9. heard' \subseteq [clip : Nat, from : Nat, n : Nat]
    <3> HIDE DEF Y, upto, from, ahead
    <3> QED
      BY <1>0, <1>1, <2>0, <2>1, <2>3, <2>4, <2>5 DEF Hears
  <2> HIDE DEF Y
  <2> QED
    BY <1>0, <1>8, <2>0, <2>1, <2>6, <2>8, <2>9, AudioStep DEF Samples
<1> QED
  BY <1>3, <1>4, <1>5, <1>6, <1>7, <1>8 DEF Sound

(***************************************************************************)
(* The invariant.                                                          *)
(***************************************************************************)
LEMMA InitHolds == Init => IInv
<1> SUFFICES ASSUME Init PROVE IInv
  OBVIOUS
<1>1. TypeOK
  <2>1. timeline \in Seq(Seq(Clip)) /\ Slots \in Nat
    BY TimelineAssumption, BoundAssumption DEF Init
  <2>2. Fresh \in VideoReader /\ Silent \in AudioReader
    BY DEF Fresh, Silent, VideoReader, AudioReader
  <2> QED
    BY <2>1, <2>2 DEF Init, TypeOK, Places
<1>2. Current
  BY BoundAssumption DEF Init, Current, Busy
<1>3. Exact
  BY DEF Init, Exact, Lost, Fresh, Silent
<1> QED
  BY <1>1, <1>2, <1>3 DEF IInv

LEMMA Inductive == IInv /\ [Next]_vars => IInv'
<1> SUFFICES ASSUME IInv, [Next]_vars PROVE IInv'
  OBVIOUS
<1>1. CASE BeginSlot \/ NextPicture \/ PicturesDone \/ SlotDone \/ NextSlot \/ Cancel \/ SendFails
  BY <1>1, RenderSteps
<1>2. CASE Continue \/ Jump \/ Skip \/ NoFrame
  BY <1>2, VideoSteps
<1>3. CASE Seek
  BY <1>3, SeekSteps
<1>4. CASE Sound
  BY <1>4, SoundSteps
<1>5. CASE UNCHANGED vars
  BY <1>5 DEF vars, IInv, TypeOK, Current, Exact, On, Now, Lost, Source, CurFile, Plain, SoundLen, Ended, SoundStop, Refused
<1> QED
  BY <1>1, <1>2, <1>3, <1>4, <1>5 DEF Next, Render, Picture

LEMMA Invariance == Spec => []IInv
BY InitHolds, Inductive, PTL DEF Spec

(* Every variable keeps its type: requests ask for times of the file, no    *)
(* position and no count of samples goes below zero.                        *)
THEOREM TypeCorrect == Spec => []TypeOK
<1>1. IInv => TypeOK
  BY DEF IInv
<1> QED
  BY <1>1, Invariance, PTL

(* Whatever the files and the timeline, a reader that is not in the middle  *)
(* of a seek counts from where its decoder is.                              *)
THEOREM InPlace == Spec => []Positioned
<1>1. IInv => Positioned
  BY DEF IInv, Exact, Lost, Positioned
<1> QED
  BY <1>1, Invariance, PTL

(***************************************************************************)
(* What the timeline asks for.                                             *)
(***************************************************************************)
LEMMA DivLater ==
  ASSUME NEW a \in Nat, NEW b \in Nat, NEW d \in Nat \ {0}, a + d <= b
  PROVE  a \div d + 1 <= b \div d
BY SMT

LEMMA DivNext ==
  ASSUME NEW a \in Nat, NEW d \in Nat \ {0}
  PROVE  (a + d) \div d = a \div d + 1
BY SMT

(* A frame on is a frame later, and so is whatever lies behind it. *)
LEMMA IndexLater ==
  ASSUME NEW f \in File, NEW t \in Nat, NEW u \in Nat, t + Media[f].dur <= u
  PROVE  /\ IndexAt(f, t) + 1 <= IndexAt(f, u)
         /\ IndexAt(f, t + Media[f].dur) = IndexAt(f, t) + 1
<1> DEFINE d == Media[f].dur
<1>1. d \in Nat \ {0}
  BY MediaTyped
<1>2. /\ 2 * t + d \in Nat /\ 2 * u + d \in Nat /\ 2 * d \in Nat \ {0}
      /\ (2 * t + d) + 2 * d <= 2 * u + d
      /\ 2 * (t + d) + d = (2 * t + d) + 2 * d
  BY <1>1
<1> HIDE DEF d
<1>3. (2 * t + d) \div (2 * d) + 1 <= (2 * u + d) \div (2 * d)
  BY <1>2, DivLater
<1>4. (2 * (t + d) + d) \div (2 * d) = (2 * t + d) \div (2 * d) + 1
  BY <1>2, DivNext
<1> QED
  BY <1>3, <1>4 DEF IndexAt, d

(* Where a request comes from. *)
LEMMA AskedBy ==
  ASSUME NEW tl \in Timelines, NEW f \in File, NEW t \in Nat, NEW q \in Asks(tl, f, t)
  PROVE  /\ q[2] \in Nat
         /\ \E n \in DOMAIN tl : Wins(tl, n, t) /\
                \E k \in Covering(tl, n, t) : tl[n][k].file = f
<1>0. PICK n \in DOMAIN tl :
          Wins(tl, n, t) /\ q \in {<<k, SourceTime(tl[n][k], t)>> :
                                      k \in {j \in Covering(tl, n, t) : tl[n][j].file = f}}
  BY DEF Asks
<1>1. PICK k \in Covering(tl, n, t) : tl[n][k].file = f /\ q = <<k, SourceTime(tl[n][k], t)>>
  BY <1>0
<1>2. tl[n] \in Seq(Clip)
  BY TimelineAssumption
<1>3. tl[n][k] \in Clip /\ tl[n][k].at <= t
  BY <1>2 DEF Covering
<1>4. tl[n][k].in \in Nat /\ tl[n][k].at \in Nat
  BY <1>3 DEF Clip
<1>5. SourceTime(tl[n][k], t) \in Nat
  BY <1>3, <1>4 DEF SourceTime
<1> QED
  BY <1>0, <1>1, <1>5

LEMMA NextTyped ==
  ASSUME NEW tl \in Timelines, NEW f \in File, NEW n \in Nat, NEW s \in AsksNext(tl, f, n)
  PROVE  s[2] \in Nat
<1>1. PICK i \in n..Slots - 1 : s \in Asks(tl, f, i * Step)
  BY DEF AsksNext
<1>2. i * Step \in Nat
  BY <1>1, BoundAssumption, TimesNat
<1> QED
  BY <1>1, <1>2, AskedBy

(* A slot that asks is the next that asks; one that does not leaves the     *)
(* next as it is.                                                           *)
LEMMA NextIsNow ==
  ASSUME NEW tl, NEW f, NEW n \in Nat, n < Slots, NEW q \in Asks(tl, f, n * Step)
  PROVE  AsksNext(tl, f, n) = Asks(tl, f, n * Step)
<1>1. n \in n..Slots - 1 /\ n..n - 1 = {}
  BY BoundAssumption
<1>2. ASSUME NEW s \in Asks(tl, f, n * Step) PROVE s \in AsksNext(tl, f, n)
  BY <1>1, <1>2 DEF AsksNext
<1>3. ASSUME NEW s \in AsksNext(tl, f, n) PROVE s \in Asks(tl, f, n * Step)
  <2>1. PICK i \in n..Slots - 1 :
            s \in Asks(tl, f, i * Step) /\ \A k \in n..i - 1 : Asks(tl, f, k * Step) = {}
    BY <1>3 DEF AsksNext
  <2>2. ~(n \in n..i - 1)
    BY <2>1
  <2>3. i = n
    BY <2>2, BoundAssumption
  <2> QED
    BY <2>1, <2>3
<1> QED
  BY <1>2, <1>3

LEMMA NextIsLater ==
  ASSUME NEW tl, NEW f, NEW n \in Nat, n < Slots, Asks(tl, f, n * Step) = {}
  PROVE  AsksNext(tl, f, n + 1) \subseteq AsksNext(tl, f, n)
<1> SUFFICES ASSUME NEW s \in AsksNext(tl, f, n + 1) PROVE s \in AsksNext(tl, f, n)
  OBVIOUS
<1>1. PICK i \in n + 1..Slots - 1 :
          s \in Asks(tl, f, i * Step) /\ \A k \in n + 1..i - 1 : Asks(tl, f, k * Step) = {}
  BY DEF AsksNext
<1>2. i \in n..Slots - 1
  BY <1>1, BoundAssumption
<1>3. ASSUME NEW k \in n..i - 1 PROVE Asks(tl, f, k * Step) = {}
  <2>1. k = n \/ k \in n + 1..i - 1
    BY <1>1
  <2> QED
    BY <1>1, <2>1
<1> QED
  BY <1>1, <1>2, <1>3 DEF AsksNext

LEMMA OrderlyFile ==
  ASSUME timeline \in Orderly, NEW f \in File, Uses(timeline, f)
  PROVE  /\ Plain(f) /\ Steady(f) /\ Forward(timeline, f) /\ timeline \in Timelines
         /\ Media[f].from = 0 /\ Media[f].corrupt = {} /\ Media[f].dur <= Hot
         /\ 0 \notin Media[f].bare /\ 0 \notin Media[f].mute
         /\ \A at \in Nat : SoundStop(f, at) = SoundLen(f)
<1>1. /\ Plain(f) /\ Steady(f) /\ Forward(timeline, f) /\ timeline \in Timelines
      /\ Refused(f) >= SoundLen(f)
  BY DEF Orderly, Steady
<1>2. \A at \in Nat : SoundStop(f, at) = SoundLen(f)
  BY <1>1, MediaTyped DEF SoundStop
<1> QED
  BY <1>1, <1>2 DEF Plain, Steady

(***************************************************************************)
(* What the clips of the slot ask for.                                     *)
(***************************************************************************)
LEMMA SlotTyped ==
  ASSUME TypeOK
  PROVE  /\ timeline \in Timelines /\ timeline \in Seq(Seq(Clip)) /\ slot \in Nat
         /\ Now \in Nat /\ track \in 0..Len(timeline) /\ Slots \in Nat /\ Step \in Nat \ {0}
         /\ Hot \in Nat
BY TimelineAssumption, BoundAssumption, TimesNat, DivNat DEF TypeOK, Now, Hot

LEMMA ClipTyped ==
  ASSUME TypeOK, NEW k \in On
  PROVE  /\ track \in 1..Len(timeline) /\ track # 0
         /\ k \in Covering(timeline, track, Now) /\ k \in DOMAIN timeline[track]
         /\ k \in Nat /\ timeline[track][k] \in Clip /\ timeline[track][k].file \in File
         /\ SourceTime(timeline[track][k], Now) \in Nat
         /\ Uses(timeline, timeline[track][k].file)
<1>1. track \in 1..Len(timeline) /\ k \in Covering(timeline, track, Now)
  BY SlotTyped DEF On, Playing
<1>2. timeline[track] \in Seq(Clip) /\ track \in DOMAIN timeline
  BY <1>1, SlotTyped
<1>3. k \in DOMAIN timeline[track] /\ timeline[track][k].at <= Now
  BY <1>1 DEF Covering
<1>4. timeline[track][k] \in Clip /\ k \in Nat
  BY <1>2, <1>3
<1>5. Request(k) \in Requests
  BY OnTyped
<1>6. SourceTime(timeline[track][k], Now) \in Nat /\ timeline[track][k].file \in File
  BY <1>5 DEF Request, Requests
<1> QED
  BY <1>1, <1>2, <1>3, <1>4, <1>6 DEF Uses

(* A clip that plays asks its file for the source time of the slot. *)
LEMMA ClipAsks ==
  ASSUME TypeOK, Wins(timeline, track, Now), NEW k \in On
  PROVE  <<k, SourceTime(timeline[track][k], Now)>>
            \in Asks(timeline, timeline[track][k].file, slot * Step)
<1>1. track \in DOMAIN timeline /\ k \in Covering(timeline, track, Now)
  BY ClipTyped, SlotTyped
<1> QED
  BY <1>1 DEF Asks, Now

(* A file that no clip of the winning track shows is not asked. *)
LEMMA NoClipNoAsk ==
  ASSUME TypeOK, NEW w \in 0..Len(timeline), Wins(timeline, w, Now), NEW f \in File,
         \A k \in Playing(timeline, w, Now) : timeline[w][k].file # f
  PROVE  Asks(timeline, f, slot * Step) = {}
<1> SUFFICES ASSUME NEW q \in Asks(timeline, f, slot * Step) PROVE FALSE
  OBVIOUS
<1>1. PICK n \in DOMAIN timeline :
          Wins(timeline, n, Now) /\ \E k \in Covering(timeline, n, Now) : timeline[n][k].file = f
  BY SlotTyped, AskedBy DEF Now
<1>2. PICK k \in Covering(timeline, n, Now) : timeline[n][k].file = f
  BY <1>1
<1>3. n \in 1..Len(timeline) /\ Covering(timeline, n, Now) # {}
  BY <1>1, <1>2, SlotTyped
<1>4. ~(w > n)
  <2>1. w > n => w \in DOMAIN timeline /\ w > 0
    BY <1>3, SlotTyped
  <2>2. w > n => Covering(timeline, w, Now) = {}
    BY <1>1, <2>1 DEF Wins
  <2>3. w > 0 => Covering(timeline, w, Now) # {}
    BY DEF Wins
  <2> QED
    BY <2>1, <2>2, <2>3
<1>5. ~(n > w)
  BY <1>1, <1>3 DEF Wins
<1>6. w = n
  BY <1>3, <1>4, <1>5
<1>7. k \in Playing(timeline, w, Now)
  BY <1>2, <1>3, <1>6 DEF Playing
<1> QED
  BY <1>2, <1>6, <1>7

(* The request that is served is what the slot asks of its file, nothing    *)
(* else of the slot asks for it, and what is asked later lies behind it.    *)
LEMMA CurrentAsk ==
  ASSUME TypeOK, Current, Given, pc \in Busy, timeline \in Orderly
  PROVE  /\ CurFile \in File /\ Uses(timeline, CurFile) /\ Source.opens
         /\ req.clip \in On /\ req.clip \notin todo /\ req.t \in Nat /\ Waits(CurFile)
         /\ timeline[track][req.clip].file = CurFile
         /\ req.t = SourceTime(timeline[track][req.clip], Now)
         /\ AsksNext(timeline, CurFile, slot) = {<<req.clip, req.t>>}
         /\ \A k \in On : timeline[track][k].file = CurFile => k = req.clip
         /\ Source.late = 0 \/ Wanted + Source.late < Source.len
         /\ \A s \in AsksNext(timeline, CurFile, slot + 1) :
                /\ s[2] \in Nat /\ s[2] >= req.t + Step /\ IndexAt(CurFile, s[2]) >= Wanted + 1
                /\ s[2] <= req.t + Hot => IndexAt(CurFile, s[2]) = Wanted + 1
<1>1. /\ req = Request(req.clip) /\ req.clip \in On /\ req.clip \notin todo /\ Source.opens
      /\ Wins(timeline, track, Now)
  BY DEF Given, Busy, Serving, Seeing, Hearing
<1>2. /\ timeline[track][req.clip].file = CurFile
      /\ req.t = SourceTime(timeline[track][req.clip], Now)
  BY <1>1 DEF Request, CurFile
<1>3. /\ CurFile \in File /\ req.t \in Nat /\ Uses(timeline, CurFile)
  BY <1>1, <1>2, ClipTyped
<1>4. Waits(CurFile)
  BY <1>2 DEF Waits, Pending
<1>5. slot \in Nat /\ slot < Slots /\ slot \in 0..Slots - 1
  <2>1. pc # "done" /\ slot \in Nat /\ Slots \in Nat
    BY SlotTyped DEF Busy
  <2> QED
    BY <2>1 DEF Current
<1> DEFINE now == Asks(timeline, CurFile, slot * Step)
           q == <<req.clip, req.t>>
<1>6. q \in now
  BY <1>1, <1>2, ClipAsks
<1>7. /\ Forward(timeline, CurFile) /\ timeline \in Timelines /\ Media[CurFile].dur <= Hot
  BY <1>3, OrderlyFile
<1>8. /\ \A p \in now : p = q
      /\ Media[CurFile].late = 0 \/ IndexAt(CurFile, q[2]) + Media[CurFile].late < Media[CurFile].len
      /\ \A s \in AsksNext(timeline, CurFile, slot + 1) :
              /\ s[2] = q[2] + Media[CurFile].dur \/ s[2] > q[2] + Hot
              /\ s[2] >= q[2] + Step
  BY <1>5, <1>6, <1>7 DEF Forward
<1>9. AsksNext(timeline, CurFile, slot) = {q}
  <2>1. AsksNext(timeline, CurFile, slot) = now
    BY <1>5, <1>6, NextIsNow
  <2> QED
    BY <1>6, <1>8, <2>1
<1>10. ASSUME NEW k \in On, timeline[track][k].file = CurFile PROVE k = req.clip
  <2>1. <<k, SourceTime(timeline[track][k], Now)>> \in now
    BY <1>1, <1>10, ClipAsks
  <2> QED
    BY <1>8, <2>1
<1>11. ASSUME NEW s \in AsksNext(timeline, CurFile, slot + 1)
       PROVE  /\ s[2] \in Nat /\ s[2] >= req.t + Step /\ IndexAt(CurFile, s[2]) >= Wanted + 1
              /\ s[2] <= req.t + Hot => IndexAt(CurFile, s[2]) = Wanted + 1
  <2>1. /\ s[2] \in Nat /\ s[2] >= req.t + Step
        /\ s[2] = req.t + Media[CurFile].dur \/ s[2] > req.t + Hot
    BY <1>5, <1>7, <1>8, <1>11, NextTyped, <1>3
  <2>0. Hot \in Nat /\ Media[CurFile].dur \in Nat
    BY <1>3, MediaTyped, SlotTyped
  <2>2. req.t + Media[CurFile].dur <= s[2]
    BY <1>3, <1>7, <2>0, <2>1
  <2>3. /\ IndexAt(CurFile, req.t) + 1 <= IndexAt(CurFile, s[2])
        /\ IndexAt(CurFile, req.t + Media[CurFile].dur) = IndexAt(CurFile, req.t) + 1
    BY <1>3, <2>1, <2>2, IndexLater
  <2>4. IndexAt(CurFile, req.t) \in Nat /\ IndexAt(CurFile, s[2]) \in Nat
    BY <1>3, <2>1, IndexTyped
  <2>5. IndexAt(CurFile, s[2]) >= Wanted + 1
    BY <2>3, <2>4 DEF Wanted
  <2>6. s[2] <= req.t + Hot => IndexAt(CurFile, s[2]) = Wanted + 1
    <3> SUFFICES ASSUME s[2] <= req.t + Hot PROVE s[2] = req.t + Media[CurFile].dur
      BY <2>3 DEF Wanted
    <3> QED
      BY <1>3, <2>0, <2>1
  <2> QED
    BY <2>1, <2>5, <2>6
<1> QED
  BY <1>1, <1>2, <1>3, <1>4, <1>8, <1>9, <1>10, <1>11 DEF Source, Wanted

(***************************************************************************)
(* Picture.                                                                *)
(***************************************************************************)
Looking == {"get", "seek", "land", "skip"}

(* A step towards the frame asked for: the reader is in the middle of a     *)
(* seek, or not past that frame.                                            *)
LEMMA VideoMoves ==
  ASSUME IInv, Given, Ahead, timeline \in Orderly, pc \in Looking, pc' \in Looking \ {"get"},
         UNCHANGED <<timeline, slot, track, todo, req, aud, shown, heard>>,
         NEW X, vid' = [vid EXCEPT ![CurFile] = X],
         (pc' \in {"seek", "land"} /\ TRUE \in Source.seeks) \/ X.next <= Wanted,
         pc' = "land" /\ Target' = 0 => X.next = 0
  PROVE  Given' /\ Ahead'
<1>0. TypeOK /\ Current /\ pc \in Busy /\ pc' \in Busy /\ pc \in Seeing /\ pc' \in Seeing
  BY DEF IInv, Looking, Busy, Seeing
<1>1. On' = On /\ Pending' = Pending /\ Source' = Source /\ Now' = Now /\ Audible' = Audible
  BY <1>0 DEF On, Now, Pending, Source, CurFile, Audible
<1>2. pc \in Serving /\ pc' \in Serving /\ pc \notin Hearing /\ pc' \notin Hearing
  BY <1>0 DEF Serving, Hearing, Seeing
<1>3. Given'
  BY <1>0, <1>1, <1>2 DEF Given, Request
<1>4. \A f \in File : /\ SeenFrom(f)' = SeenFrom(f) /\ HeardFrom(f)' = HeardFrom(f)
                      /\ (f = CurFile => SeenFrom(f) = slot)
  <2>1. pc # "slot" /\ pc' # "slot" /\ Waits(CurFile)
    BY <1>0, CurrentAsk DEF Seeing
  <2>2. \A f \in File : Waits(f)' = Waits(f)
    BY <1>1 DEF Waits
  <2> QED
    BY <1>0, <1>2, <2>1, <2>2 DEF SeenFrom, HeardFrom
<1>5. CurFile \in File /\ AsksNext(timeline, CurFile, slot) = {<<req.clip, req.t>>} /\ CurFile' = CurFile
  BY <1>0, CurrentAsk DEF CurFile
<1>6. vid'[CurFile] = X /\ \A f \in File : f # CurFile => vid'[f] = vid[f]
  BY <1>0, <1>5 DEF TypeOK
<1>7. ASSUME NEW f \in File, Uses(timeline, f), Media[f].opens
      PROVE  /\ Lost(f, {"seek", "land"})' \/ SeesNext(f)'
             /\ Lost(f, {"aseek", "aland"})' \/ HearsNext(f)'
  <2>1. pc \notin {"failed", "stopped"}
    BY <1>0 DEF Seeing
  <2>2. /\ Lost(f, {"seek", "land"}) \/ SeesNext(f)
        /\ Lost(f, {"aseek", "aland"}) \/ HearsNext(f)
    BY <1>7, <2>1 DEF Ahead
  <2>3. HearsNext(f)
    BY <1>0, <2>2 DEF Lost, Seeing
  <2>4. HearsNext(f)'
    BY <1>4, <2>3 DEF HearsNext, SoundLen
  <2>5. CASE f = CurFile
    <3>1. CASE pc' \in {"seek", "land"} /\ TRUE \in Source.seeks
      BY <2>4, <2>5, <3>1 DEF Lost, Source, CurFile
    <3>2. CASE X.next <= Wanted
      BY <1>4, <1>5, <1>6, <2>4, <2>5, <3>2 DEF SeesNext, Looking, Wanted
    <3> QED
      BY <3>1, <3>2
  <2>6. CASE f # CurFile
    <3>1. SeesNext(f) /\ vid'[f] = vid[f]
      BY <1>6, <2>2, <2>6 DEF Lost, CurFile
    <3>2. SeesNext(f)'
      BY <1>4, <1>5, <2>6, <3>1 DEF SeesNext, Continues
    <3> QED
      BY <2>4, <3>2
  <2> QED
    BY <2>5, <2>6
<1>8. pc' = "land" /\ Target' = 0 => reader'.next = 0
  BY <1>5, <1>6 DEF reader
<1> QED
  BY <1>0, <1>3, <1>7, <1>8 DEF Ahead, Looking

(* The step that ends the request: the frame asked for was taken, and the   *)
(* reader is behind it, or the file has ended before it.                    *)
LEMMA VideoServes ==
  ASSUME IInv, Given, Ahead, timeline \in Orderly, pc \in Looking, pc' = "picture",
         UNCHANGED <<timeline, slot, track, todo, req, aud, heard>>,
         NEW X \in VideoReader, vid' = [vid EXCEPT ![CurFile] = X],
         \/ /\ X.next = Wanted + 1 /\ X.last = req.t /\ Wanted < Source.len
            /\ shown' = shown \cup {[clip |-> req.clip, frame |-> Wanted]}
         \/ X.next <= Wanted /\ X.next >= Source.len /\ shown' = shown
  PROVE  Given' /\ Ahead'
<1>0. TypeOK /\ Current /\ pc \in Busy /\ pc' \notin Busy /\ pc \in Seeing /\ pc' \in Seeing
  BY DEF IInv, Looking, Busy, Seeing
<1>1. On' = On /\ Source' = Source /\ Now' = Now /\ Audible' = Audible
      /\ Pending = todo \cup {req.clip} /\ Pending' = todo
  BY <1>0 DEF On, Now, Pending, Source, CurFile, Audible
<1>2. pc \in Serving /\ pc' \in Serving /\ pc \notin Hearing /\ pc' \notin Hearing
  BY <1>0 DEF Serving, Hearing, Seeing
<1>3. /\ CurFile \in File /\ req.clip \in On /\ req.clip \notin todo /\ req.t \in Nat
      /\ timeline[track][req.clip].file = CurFile /\ Media[CurFile].opens
      /\ FrameOf(timeline[track][req.clip], Now) = Wanted /\ Waits(CurFile)
  BY <1>0, CurrentAsk DEF FrameOf, Wanted, Source
<1>4. Wanted \in Nat /\ Source.len \in Nat /\ Source.len = Media[CurFile].len
  BY <1>3, IndexTyped, MediaTyped DEF Wanted, Source
<1>5. shown' = Frames(timeline[track], On \ todo, Now)
  <2>1. shown = Frames(timeline[track], On \ Pending, Now)
    BY <1>0, <1>2 DEF Given
  <2>2. On \ todo = (On \ Pending) \cup {req.clip}
    BY <1>1, <1>3
  <2>3. shown' = shown \cup (IF Wanted < Media[CurFile].len
                              THEN {[clip |-> req.clip, frame |-> Wanted]} ELSE {})
    <3>1. CASE Wanted < Source.len
      <4>1. ~(X.next <= Wanted /\ X.next >= Source.len)
        BY <1>4, <3>1 DEF VideoReader
      <4> QED
        BY <1>4, <3>1, <4>1
    <3>2. CASE ~(Wanted < Source.len)
      BY <1>4, <3>2
    <3> QED
      BY <3>1, <3>2
  <2> HIDE DEF FrameOf
  <2>4. Frames(timeline[track], On \ todo, Now) =
            shown \cup (IF Wanted < Media[CurFile].len
                         THEN {[clip |-> req.clip, frame |-> Wanted]} ELSE {})
    BY <1>3, <2>1, <2>2 DEF Frames
  <2> QED
    BY <2>3, <2>4
<1>6. Given'
  BY <1>0, <1>1, <1>2, <1>5 DEF Given
<1>7. ~Waits(CurFile)' /\ \A f \in File : f # CurFile => Waits(f)' = Waits(f)
  <2>1. todo \subseteq On /\ \A k \in On : timeline[track][k].file = CurFile => k = req.clip
    BY <1>0, CurrentAsk DEF Current
  <2>2. ~Waits(CurFile)'
    BY <1>1, <1>3, <2>1 DEF Waits, CurFile
  <2>3. ASSUME NEW f \in File, f # CurFile PROVE Waits(f)' = Waits(f)
    BY <1>1, <1>3, <2>3 DEF Waits
  <2> QED
    BY <2>2, <2>3
<1>8. \A f \in File : /\ HeardFrom(f)' = HeardFrom(f)
                      /\ IF f = CurFile THEN SeenFrom(f)' = slot + 1
                                        ELSE SeenFrom(f)' = SeenFrom(f)
  <2>1. pc # "slot" /\ pc' # "slot"
    BY <1>0 DEF Seeing
  <2>2. \A f \in File : HeardFrom(f)' = HeardFrom(f)
    BY <1>0, <1>2, <2>1 DEF HeardFrom
  <2>3. \A f \in File : SeenFrom(f)' = IF Waits(f)' THEN slot ELSE slot + 1
    BY <1>0, <2>1 DEF SeenFrom
  <2>4. \A f \in File : SeenFrom(f) = IF Waits(f) THEN slot ELSE slot + 1
    BY <1>0, <2>1 DEF SeenFrom
  <2>5. CurFile' = CurFile
    BY DEF CurFile
  <2>6. ASSUME NEW f \in File, f = CurFile PROVE SeenFrom(f)' = slot + 1
    BY <1>7, <2>3, <2>5, <2>6
  <2>7. ASSUME NEW f \in File, f # CurFile PROVE SeenFrom(f)' = SeenFrom(f)
    BY <1>7, <2>3, <2>4, <2>7
  <2> QED
    BY <2>2, <2>6, <2>7
<1>9. vid'[CurFile] = X /\ \A f \in File : f # CurFile => vid'[f] = vid[f]
  BY <1>0, <1>3 DEF TypeOK
<1>10. ASSUME NEW f \in File, Uses(timeline, f), Media[f].opens
       PROVE  /\ Lost(f, {"seek", "land"})' \/ SeesNext(f)'
              /\ Lost(f, {"aseek", "aland"})' \/ HearsNext(f)'
  <2>1. /\ Lost(f, {"seek", "land"}) \/ SeesNext(f)
        /\ Lost(f, {"aseek", "aland"}) \/ HearsNext(f)
    BY <1>0, <1>10 DEF Ahead, Seeing
  <2>2. HearsNext(f)
    BY <1>0, <2>1 DEF Lost, Seeing
  <2>3. HearsNext(f)'
    BY <1>8, <2>2 DEF HearsNext, SoundLen
  <2>4. CASE f = CurFile
    <3>1. ASSUME NEW s \in AsksNext(timeline, f, slot + 1)
          PROVE  /\ X.next <= IndexAt(f, s[2])
                 /\ X.last > 0 /\ s[2] <= X.last + Hot =>
                        X.next = IndexAt(f, s[2]) \/ X.next >= Media[f].len
      <4>1. /\ s[2] \in Nat /\ IndexAt(f, s[2]) >= Wanted + 1
            /\ s[2] <= req.t + Hot => IndexAt(f, s[2]) = Wanted + 1
        BY <1>0, <2>4, <3>1, CurrentAsk
      <4>2. IndexAt(f, s[2]) \in Nat /\ X.next \in Nat
        BY <4>1, IndexTyped DEF VideoReader
      <4>3. X.next <= IndexAt(f, s[2])
        BY <1>4, <4>1, <4>2
      <4>4. (X.next = Wanted + 1 /\ X.last = req.t) \/ X.next >= Media[f].len
        BY <1>4, <2>4
      <4> QED
        BY <4>1, <4>3, <4>4
    <3>2. SeesNext(f)'
      BY <1>8, <1>9, <2>4, <3>1 DEF SeesNext, Continues
    <3> QED
      BY <2>3, <3>2
  <2>5. CASE f # CurFile
    <3>1. SeesNext(f) /\ vid'[f] = vid[f]
      BY <1>9, <2>1, <2>5 DEF Lost, CurFile
    <3>2. SeesNext(f)'
      BY <1>0, <1>8, <2>5, <3>1 DEF SeesNext, Continues, CurFile
    <3> QED
      BY <2>3, <3>2
  <2> QED
    BY <2>4, <2>5
<1> QED
  BY <1>0, <1>6, <1>10 DEF Ahead

(* What the reader of the request is before the frame asked for. *)
LEMMA ReaderBefore ==
  ASSUME IInv, Given, Ahead, timeline \in Orderly, pc \in Looking
  PROVE  /\ CurFile \in File /\ reader \in VideoReader /\ reader.next \in Nat /\ Decoded \in VideoReader
         /\ Wanted \in Nat /\ Source.len \in Nat /\ Source.late \in Nat
         /\ Plain(CurFile) /\ Source.corrupt = {} /\ 0 \notin Source.bare
         /\ \/ pc \in {"seek", "land"} /\ TRUE \in Source.seeks
            \/ reader.pos = reader.next /\ reader.next <= Wanted
         /\ ~(TRUE \in Source.seeks /\ FALSE \in Source.seeks)
         /\ pc = "land" => TRUE \in Source.seeks
         /\ pc = "get" => Continues(CurFile, req.t)
         /\ Yields => reader.next < Source.len /\ Decoded.next = reader.next + 1
<1>0. TypeOK /\ Current /\ Exact /\ pc \in Busy /\ pc \in Seeing
  BY DEF IInv, Looking, Busy, Seeing
<1>1. /\ CurFile \in File /\ reader \in VideoReader /\ Wanted \in Nat /\ Decoded \in VideoReader
      /\ Source.len \in Nat /\ Source.late \in Nat /\ reader.next \in Nat
  BY <1>0, RequestTyped, MediaTyped DEF Source, VideoReader
<1>2. /\ Uses(timeline, CurFile) /\ Source.opens /\ Waits(CurFile)
      /\ AsksNext(timeline, CurFile, slot) = {<<req.clip, req.t>>}
  BY <1>0, CurrentAsk
<1>3. /\ Plain(CurFile) /\ Source.corrupt = {} /\ 0 \notin Source.bare
  BY <1>1, <1>2, OrderlyFile DEF Source
<1>4. ~(TRUE \in Source.seeks /\ FALSE \in Source.seeks) /\ (pc = "land" => TRUE \in Source.seeks)
  BY <1>0, <1>1, <1>3, MediaTyped DEF Plain, Source, Exact
<1>5. Lost(CurFile, {"seek", "land"}) \/ (reader.pos = reader.next /\ SeesNext(CurFile))
  <2>1. pc \notin {"failed", "stopped"}
    BY <1>0 DEF Seeing
  <2> QED
    BY <1>0, <1>1, <1>2, <1>3, <2>1 DEF Exact, Ahead, Source, reader
<1>6. SeenFrom(CurFile) = slot
  BY <1>0, <1>2 DEF SeenFrom
<1>7. SeesNext(CurFile) => /\ reader.next <= Wanted
                           /\ pc = "get" => Continues(CurFile, req.t)
  <2> DEFINE q == <<req.clip, req.t>>
  <2>1. q \in AsksNext(timeline, CurFile, SeenFrom(CurFile)) /\ q[2] = req.t
    BY <1>2, <1>6
  <2>2. SeesNext(CurFile) =>
            /\ vid[CurFile].next <= IndexAt(CurFile, req.t)
            /\ (pc \in {"seek", "land", "skip"} /\ CurFile = CurFile) \/ Continues(CurFile, req.t)
    BY <2>1 DEF SeesNext
  <2>3. SeesNext(CurFile) => reader.next <= Wanted
    BY <2>2 DEF reader, Wanted
  <2>4. SeesNext(CurFile) /\ pc = "get" => Continues(CurFile, req.t)
    BY <2>2
  <2> QED
    BY <2>3, <2>4
<1>8. Lost(CurFile, {"seek", "land"}) => pc \in {"seek", "land"} /\ TRUE \in Source.seeks
  BY DEF Lost, Source
<1>9. Yields => reader.next < Source.len /\ Decoded.next = reader.next + 1
  BY <1>1 DEF Yields, Has, Decoded, VideoReader
<1>10. \/ pc \in {"seek", "land"} /\ TRUE \in Source.seeks
       \/ reader.pos = reader.next /\ reader.next <= Wanted
  BY <1>5, <1>7, <1>8
<1>11. pc = "get" => Continues(CurFile, req.t)
  <2>1. pc = "get" => ~(pc \in {"seek", "land"})
    OBVIOUS
  <2> QED
    BY <1>5, <1>7, <1>8, <2>1
<1> QED
  BY <1>1, <1>3, <1>4, <1>9, <1>10, <1>11

LEMMA ConsumedTyped ==
  ASSUME NEW r \in VideoReader, NEW p \in Nat, NEW t \in Nat
  PROVE  /\ Consumed(r, p) \in VideoReader /\ Consumed(r, p).next = r.next
         /\ [Consumed(r, p) EXCEPT !.last = t] \in VideoReader
         /\ [Consumed(r, p) EXCEPT !.last = t].next = r.next
         /\ [Consumed(r, p) EXCEPT !.last = t].last = t
<1>1. Consumed(r, p) \in VideoReader /\ Consumed(r, p).next = r.next
  BY DEF Consumed, VideoReader
<1> HIDE DEF Consumed
<1> QED
  BY <1>1 DEF VideoReader

LEMMA PictureGiven ==
  ASSUME IInv, Given, Ahead, timeline \in Orderly, Continue \/ Jump \/ Skip \/ NoFrame
  PROVE  Given' /\ Ahead'
<1> USE DEF lineVars, todoVars
<1>0. pc \in Looking /\ TypeOK
  BY DEF Continue, Jump, Skip, NoFrame, Looking, IInv
<1>1. /\ CurFile \in File /\ reader \in VideoReader /\ reader.next \in Nat /\ Decoded \in VideoReader
      /\ Wanted \in Nat /\ Source.len \in Nat /\ Source.late \in Nat /\ Source.corrupt = {}
      /\ pc \in {"get", "skip"} => reader.pos = reader.next /\ reader.next <= Wanted
      /\ pc = "get" => Continues(CurFile, req.t)
      /\ Yields => /\ reader.next < Source.len /\ Decoded.next = reader.next + 1
  BY <1>0, ReaderBefore
<1>2. req.t \in Nat
  BY <1>0, RequestTyped DEF Looking, Busy
<1> DEFINE X == Consumed(Decoded, reader.pos)
           Y == [X EXCEPT !.last = req.t]
<1>3. pc \in {"get", "skip"} => /\ X \in VideoReader /\ X.next = Decoded.next
                                /\ Y \in VideoReader /\ Y.next = Decoded.next /\ Y.last = req.t
  BY <1>1, <1>2, ConsumedTyped
<1>4. CASE Continue
  <2>1. /\ pc = "get" /\ pc' = "picture" /\ Yields /\ IsHot /\ vid' = [vid EXCEPT ![CurFile] = Y]
        /\ shown' = shown \cup {[clip |-> req.clip, frame |-> reader.next]}
    BY <1>4 DEF Continue, Serve
  <2>2. reader.next = Wanted
    <3>1. reader.next = IndexAt(CurFile, req.t) \/ reader.next >= Source.len
      BY <1>1, <2>1 DEF Continues, IsHot, reader, Source
    <3> QED
      BY <1>1, <2>1, <3>1 DEF Wanted
  <2> HIDE DEF X, Y
  <2>3. Y.next = Wanted + 1 /\ Wanted < Source.len
    BY <1>1, <1>3, <2>1, <2>2
  <2> QED
    BY <1>0, <1>3, <1>4, <2>1, <2>2, <2>3, VideoServes DEF Continue
<1>5. CASE Jump
  <2>1. vid' = [vid EXCEPT ![CurFile] = reader]
    BY <1>0, <1>1, <1>5 DEF Jump, TypeOK, reader
  <2>2. pc = "get" /\ pc' \in {"seek", "skip"}
    BY <1>5 DEF Jump
  <2> QED
    BY <1>0, <1>1, <1>5, <2>1, <2>2, VideoMoves DEF Jump, Looking
<1>6. CASE Skip
  <2>1. pc = "skip" /\ Yields
    BY <1>6 DEF Skip
  <2>2. CASE Arrived(reader.pos + 1)
    <3>1. /\ pc' = "picture" /\ vid' = [vid EXCEPT ![CurFile] = Y]
          /\ shown' = shown \cup {[clip |-> req.clip, frame |-> reader.next]}
      BY <1>6, <2>2 DEF Skip, Serve
    <3>2. reader.next = Wanted
      BY <1>1, <2>1, <2>2 DEF Arrived
    <3> HIDE DEF X, Y
    <3>3. Y.next = Wanted + 1 /\ Wanted < Source.len
      BY <1>1, <1>3, <2>1, <3>2
    <3> QED
      BY <1>0, <1>3, <1>6, <2>1, <3>1, <3>2, <3>3, VideoServes DEF Skip
  <2>3. CASE ~Arrived(reader.pos + 1)
    <3>1. pc' = "skip" /\ vid' = [vid EXCEPT ![CurFile] = X] /\ shown' = shown
      BY <1>6, <2>1, <2>3 DEF Skip
    <3> HIDE DEF X, Y
    <3>2. X.next <= Wanted
      BY <1>1, <1>3, <2>1, <2>3 DEF Arrived
    <3> QED
      BY <1>0, <1>6, <3>1, <3>2, VideoMoves DEF Skip, Looking
  <2> QED
    BY <2>2, <2>3
<1>7. CASE NoFrame
  <2>1. pc \in {"get", "skip"} /\ ~Yields /\ vid' = [vid EXCEPT ![CurFile] = Decoded]
    BY <1>7 DEF NoFrame
  <2>2. ~Has /\ ~Breaks /\ pc' = "picture"
    BY <1>1, <1>7, <2>1 DEF NoFrame, Yields, Breaks
  <2>3. Source.late = 0 \/ Wanted + Source.late < Source.len
    BY <1>0, CurrentAsk DEF IInv, Looking, Busy
  <2>4. reader.next >= Source.len
    BY <1>1, <2>1, <2>2, <2>3 DEF Has
  <2>5. Decoded.next = reader.next
    BY <1>1, <2>2 DEF Decoded, VideoReader
  <2> QED
    BY <1>0, <1>1, <1>7, <2>1, <2>2, <2>4, <2>5, VideoServes DEF NoFrame
<1> QED
  BY <1>4, <1>5, <1>6, <1>7

LEMMA SeekGiven ==
  ASSUME IInv, Given, Ahead, timeline \in Orderly, Seek
  PROVE  Given' /\ Ahead'
<1> USE DEF lineVars, todoVars
<1>0. pc \in {"seek", "land"} /\ pc \in Looking /\ TypeOK
  BY DEF Seek, Reposition, LandBare, LandWell, LandPast, GiveUp, Anchored, Looking, IInv
<1>1. /\ CurFile \in File /\ reader \in VideoReader /\ reader.next \in Nat /\ Decoded \in VideoReader
      /\ Wanted \in Nat /\ Source.len \in Nat /\ Plain(CurFile) /\ 0 \notin Source.bare
      /\ TRUE \in Source.seeks \/ reader.next <= Wanted
      /\ ~(TRUE \in Source.seeks /\ FALSE \in Source.seeks)
      /\ pc = "land" => TRUE \in Source.seeks
      /\ Yields => reader.next < Source.len /\ Decoded.next = reader.next + 1
  BY <1>0, ReaderBefore
<1>2. req.t \in Nat /\ Target \in Nat
  BY <1>0, RequestTyped DEF Looking, Busy
<1>3. pc = "land" /\ Target = 0 => reader.next = 0
  BY DEF Ahead
<1>4. CASE Reposition
  <2>1. CASE TRUE \in Source.seeks /\ pc' = "land"
    <3>1. PICK k \in Landing(CurFile, Target) : vid' = [vid EXCEPT ![CurFile] = Moved(k)]
      BY <1>1, <1>4, <2>1 DEF Reposition
    <3>2. Target' = Target
      BY <1>4 DEF Reposition, Target
    <3>3. Target = 0 => Moved(k).next = 0
      BY <1>1, <3>1, LandingAtStart DEF Moved, VideoReader
    <3> QED
      BY <1>0, <1>4, <2>1, <3>1, <3>2, <3>3, VideoMoves DEF Reposition, Looking
  <2>2. CASE FALSE \in Source.seeks /\ pc' = "skip"
    <3> DEFINE Y == [reader EXCEPT !.noSeek = TRUE]
    <3>1. vid' = [vid EXCEPT ![CurFile] = Y]
      BY <1>0, <1>1, <1>4, <2>2 DEF Reposition, TypeOK, reader
    <3>2. Y.next <= Wanted
      BY <1>1, <2>2 DEF VideoReader
    <3> QED
      BY <1>0, <1>4, <2>2, <3>1, <3>2, VideoMoves DEF Reposition, Looking
  <2> QED
    BY <1>4, <2>1, <2>2 DEF Reposition
<1>5. CASE LandBare
  <2>1. pc = "land" /\ pc' = "land" /\ TRUE \in Source.seeks /\ reader.next \in Source.bare
    BY <1>1, <1>5 DEF LandBare
  <2>2. Target' = Target /\ Target # 0
    BY <1>1, <1>3, <1>5, <2>1 DEF LandBare, Target
  <2> QED
    BY <1>0, <1>5, <2>1, <2>2, VideoMoves DEF LandBare, Looking
<1>6. CASE LandWell
  <2>1. pc = "land" /\ Yields
    BY <1>6 DEF LandWell, Anchored
  <2>2. AnchorPos = reader.next
    BY <1>1, IndexOfStamp DEF AnchorPos, Plain
  <2>3. reader.next <= Wanted
    BY <1>1, <1>3, <1>6, <2>1, <2>2 DEF LandWell, LandedWell
  <2> DEFINE X == Consumed(Decoded, AnchorPos)
             Y == [X EXCEPT !.last = req.t]
  <2>4. /\ X \in VideoReader /\ X.next = Decoded.next
        /\ Y \in VideoReader /\ Y.next = Decoded.next /\ Y.last = req.t
    BY <1>1, <1>2, <2>2, ConsumedTyped
  <2>5. CASE Arrived(AnchorPos + 1)
    <3>1. /\ pc' = "picture" /\ vid' = [vid EXCEPT ![CurFile] = Y]
          /\ shown' = shown \cup {[clip |-> req.clip, frame |-> reader.next]}
      BY <1>6, <2>5 DEF LandWell, Serve
    <3>2. reader.next = Wanted
      BY <1>1, <2>2, <2>3, <2>5 DEF Arrived
    <3> HIDE DEF X, Y
    <3>3. Y.next = Wanted + 1 /\ Wanted < Source.len
      BY <1>1, <2>1, <2>4, <3>2
    <3> QED
      BY <1>0, <1>6, <2>1, <2>4, <3>1, <3>2, <3>3, VideoServes DEF LandWell
  <2>6. CASE ~Arrived(AnchorPos + 1)
    <3>1. pc' = "skip" /\ vid' = [vid EXCEPT ![CurFile] = X] /\ shown' = shown
      BY <1>6, <2>6 DEF LandWell
    <3> HIDE DEF X, Y
    <3>2. X.next <= Wanted
      BY <1>1, <2>1, <2>2, <2>4, <2>6 DEF Arrived
    <3> QED
      BY <1>0, <1>6, <3>1, <3>2, VideoMoves DEF LandWell, Looking
  <2> QED
    BY <2>5, <2>6
<1>7. CASE LandPast
  <2>1. pc = "land" /\ pc' = "seek" /\ TRUE \in Source.seeks
    BY <1>1, <1>7 DEF LandPast, Anchored
  <2> QED
    BY <1>0, <1>7, <2>1, VideoMoves DEF LandPast, Looking
<1>8. CASE GiveUp
  <2>1. CASE \E k \in Landing(CurFile, 0) : vid' = [vid EXCEPT ![CurFile] = FromStart(k)]
    <3>1. PICK k \in Landing(CurFile, 0) : vid' = [vid EXCEPT ![CurFile] = FromStart(k)]
      BY <2>1
    <3>2. FromStart(k).next <= Wanted
      BY <1>1, <3>1, LandingAtStart DEF FromStart, Moved, VideoReader
    <3> QED
      BY <1>0, <1>8, <3>1, <3>2, VideoMoves DEF GiveUp, Looking
  <2>2. CASE /\ FALSE \in Source.seeks
             /\ vid' = [vid EXCEPT ![CurFile] =
                   [(IF pc = "land" /\ reader.landed < MaxLanding THEN Decoded ELSE reader)
                        EXCEPT !.noSeek = TRUE]]
    <3> DEFINE Y == [reader EXCEPT !.noSeek = TRUE]
    <3>1. vid' = [vid EXCEPT ![CurFile] = Y]
      BY <1>1, <2>2
    <3>2. Y.next <= Wanted
      BY <1>1, <2>2 DEF VideoReader
    <3> QED
      BY <1>0, <1>8, <3>1, <3>2, VideoMoves DEF GiveUp, Looking
  <2> QED
    BY <1>8, <2>1, <2>2 DEF GiveUp
<1> QED
  BY <1>4, <1>5, <1>6, <1>7, <1>8 DEF Seek

(***************************************************************************)
(* Sound.                                                                  *)
(***************************************************************************)
Listening == {"aseek", "aland", "samples"}

(* Sound that is not past what the slot asks for is not past what is asked  *)
(* for later.                                                               *)
LEMMA HeardLater ==
  ASSUME TypeOK, slot < Slots, timeline \in Orderly, NEW f \in File, Uses(timeline, f), NEW a \in Nat,
         \A s \in AsksNext(timeline, f, slot) : a <= s[2],
         NEW s \in AsksNext(timeline, f, slot + 1)
  PROVE  a <= s[2]
<1>1. timeline \in Timelines /\ slot \in 0..Slots - 1 /\ slot \in Nat /\ Step \in Nat /\ slot + 1 \in Nat
  BY SlotTyped
<1>2. CASE Asks(timeline, f, slot * Step) = {}
  BY <1>1, <1>2, NextIsLater
<1>3. ASSUME NEW q \in Asks(timeline, f, slot * Step) PROVE a <= s[2]
  <2>1. a <= q[2]
    BY <1>1, <1>3, NextIsNow
  <2>2. s[2] >= q[2] + Step
    BY <1>1, <1>3, OrderlyFile DEF Forward
  <2>3. q[2] \in Nat /\ s[2] \in Nat
    <3>1. slot * Step \in Nat
      BY <1>1, TimesNat
    <3> QED
      BY <1>1, <1>3, <3>1, AskedBy, NextTyped
  <2> QED
    BY <1>1, <2>1, <2>2, <2>3
<1> QED
  BY <1>2, <1>3

(* What the reader of the request is before the sample asked for. *)
LEMMA SounderBefore ==
  ASSUME IInv, Given, Ahead, timeline \in Orderly, pc \in Listening
  PROVE  /\ CurFile \in File /\ Uses(timeline, CurFile) /\ sounder \in AudioReader
         /\ sounder.at \in Nat /\ sounder.served \in Nat
         /\ req.t \in Nat /\ Plain(CurFile) /\ 0 \notin Source.mute /\ Source.from = 0
         /\ SoundLen(CurFile) \in Nat /\ Target \in Nat /\ Source.sound /\ Source.opens
         /\ \/ pc \in {"aseek", "aland"} /\ TRUE \in Source.seeks
            \/ /\ sounder.at <= SoundLen(CurFile) /\ sounder.at <= sounder.served
               /\ sounder.served <= req.t
               /\ sounder.served = sounder.at \/ sounder.at >= SoundLen(CurFile)
         /\ SoundStop(CurFile, sounder.at) = SoundLen(CurFile)
         /\ ~(TRUE \in Source.seeks /\ FALSE \in Source.seeks)
         /\ pc = "aland" => TRUE \in Source.seeks
<1>0. TypeOK /\ Current /\ Exact /\ pc \in Busy /\ pc \in Hearing
  BY DEF IInv, Listening, Busy, Hearing
<1>1. /\ CurFile \in File /\ sounder \in AudioReader /\ req.t \in Nat /\ Target \in Nat
      /\ sounder.at \in Nat /\ sounder.served \in Nat /\ SoundLen(CurFile) \in Nat
  BY <1>0, RequestTyped, MediaTyped DEF AudioReader
<1>2. /\ Uses(timeline, CurFile) /\ Source.opens /\ Waits(CurFile) /\ Source.sound
      /\ AsksNext(timeline, CurFile, slot) = {<<req.clip, req.t>>}
  BY <1>0, CurrentAsk DEF Given
<1>3. /\ Plain(CurFile) /\ 0 \notin Source.mute /\ Source.from = 0
      /\ SoundStop(CurFile, sounder.at) = SoundLen(CurFile)
  BY <1>1, <1>2, OrderlyFile DEF Source
<1>4. ~(TRUE \in Source.seeks /\ FALSE \in Source.seeks) /\ (pc = "aland" => TRUE \in Source.seeks)
  BY <1>0, <1>1, <1>3, MediaTyped DEF Plain, Source, Exact
<1>5. Lost(CurFile, {"aseek", "aland"})
        \/ ((sounder.served = sounder.at \/ sounder.at >= SoundLen(CurFile)) /\ HearsNext(CurFile))
  <2>1. pc \notin {"failed", "stopped"}
    BY <1>0 DEF Hearing
  <2> QED
    BY <1>0, <1>1, <1>2, <1>3, <2>1 DEF Exact, Ended, Ahead, Source, sounder
<1>6. HeardFrom(CurFile) = slot
  BY <1>0, <1>2 DEF HeardFrom
<1>7. HearsNext(CurFile) => /\ sounder.at <= SoundLen(CurFile) /\ sounder.at <= sounder.served
                            /\ sounder.served <= req.t
  <2> DEFINE q == <<req.clip, req.t>>
  <2>1. q \in AsksNext(timeline, CurFile, HeardFrom(CurFile)) /\ q[2] = req.t
    BY <1>2, <1>6
  <2> QED
    BY <2>1 DEF HearsNext, sounder
<1>8. Lost(CurFile, {"aseek", "aland"}) => pc \in {"aseek", "aland"} /\ TRUE \in Source.seeks
  BY DEF Lost, Source
<1>9. \/ pc \in {"aseek", "aland"} /\ TRUE \in Source.seeks
      \/ /\ sounder.at <= SoundLen(CurFile) /\ sounder.at <= sounder.served
         /\ sounder.served <= req.t
         /\ sounder.served = sounder.at \/ sounder.at >= SoundLen(CurFile)
  BY <1>5, <1>7, <1>8
<1> QED
  BY <1>1, <1>2, <1>3, <1>4, <1>9

(* A step towards the sample asked for: the reader is in the middle of a    *)
(* seek, or not past that sample.                                           *)
LEMMA SoundMoves ==
  ASSUME IInv, Given, Ahead, timeline \in Orderly, pc \in Listening, pc' \in Listening,
         UNCHANGED <<timeline, slot, track, todo, req, vid, shown, heard>>,
         NEW X, aud' = [aud EXCEPT ![CurFile] = X],
         \/ pc' \in {"aseek", "aland"} /\ TRUE \in Source.seeks
         \/ X.at <= SoundLen(CurFile) /\ X.at <= X.served /\ X.served <= req.t,
         pc' = "aland" /\ Target' = 0 => X.at = 0
  PROVE  Given' /\ Ahead'
<1>0. TypeOK /\ Current /\ pc \in Busy /\ pc' \in Busy /\ pc \in Hearing /\ pc' \in Hearing
  BY DEF IInv, Listening, Busy, Hearing
<1>1. On' = On /\ Pending' = Pending /\ Source' = Source /\ Now' = Now /\ Audible' = Audible
  BY <1>0 DEF On, Now, Pending, Source, CurFile, Audible
<1>2. pc \in Serving /\ pc' \in Serving /\ pc \notin Seeing /\ pc' \notin Seeing
  BY <1>0 DEF Serving, Hearing, Seeing
<1>3. Given'
  BY <1>0, <1>1, <1>2 DEF Given, Request
<1>4. \A f \in File : /\ SeenFrom(f)' = SeenFrom(f) /\ HeardFrom(f)' = HeardFrom(f)
                      /\ (f = CurFile => HeardFrom(f) = slot)
  <2>1. pc # "slot" /\ pc' # "slot" /\ Waits(CurFile)
    BY <1>0, CurrentAsk DEF Hearing
  <2>2. \A f \in File : Waits(f)' = Waits(f)
    BY <1>1 DEF Waits
  <2> QED
    BY <1>0, <1>2, <2>1, <2>2 DEF SeenFrom, HeardFrom
<1>5. CurFile \in File /\ AsksNext(timeline, CurFile, slot) = {<<req.clip, req.t>>} /\ CurFile' = CurFile
  BY <1>0, CurrentAsk DEF CurFile
<1>6. aud'[CurFile] = X /\ \A f \in File : f # CurFile => aud'[f] = aud[f]
  BY <1>0, <1>5 DEF TypeOK
<1>7. ASSUME NEW f \in File, Uses(timeline, f), Media[f].opens
      PROVE  /\ Lost(f, {"seek", "land"})' \/ SeesNext(f)'
             /\ Lost(f, {"aseek", "aland"})' \/ HearsNext(f)'
  <2>1. pc \notin {"failed", "stopped"} /\ pc \notin {"seek", "land", "skip"}
    BY <1>0 DEF Hearing
  <2>2. /\ Lost(f, {"seek", "land"}) \/ SeesNext(f)
        /\ Lost(f, {"aseek", "aland"}) \/ HearsNext(f)
    BY <1>7, <2>1 DEF Ahead
  <2>3. SeesNext(f)
    BY <2>1, <2>2 DEF Lost
  <2>4. SeesNext(f)'
    BY <1>4, <2>1, <2>3 DEF SeesNext, Continues
  <2>5. CASE f = CurFile
    <3>1. CASE pc' \in {"aseek", "aland"} /\ TRUE \in Source.seeks
      BY <2>4, <2>5, <3>1 DEF Lost, Source, CurFile
    <3>2. CASE X.at <= SoundLen(CurFile) /\ X.at <= X.served /\ X.served <= req.t
      <4>1. HeardFrom(f)' = slot
        BY <1>4, <2>5
      <4>2. \A s \in AsksNext(timeline, f, slot) : X.served <= s[2]
        BY <1>5, <2>5, <3>2
      <4>3. HearsNext(f)'
        BY <1>6, <2>5, <3>2, <4>1, <4>2 DEF HearsNext, SoundLen
      <4> QED
        BY <2>4, <4>3
    <3> QED
      BY <3>1, <3>2
  <2>6. CASE f # CurFile
    <3>1. HearsNext(f) /\ aud'[f] = aud[f]
      BY <1>6, <2>2, <2>6 DEF Lost, CurFile
    <3>2. HearsNext(f)'
      BY <1>4, <3>1 DEF HearsNext, SoundLen
    <3> QED
      BY <2>4, <3>2
  <2> QED
    BY <2>5, <2>6
<1>8. pc' = "aland" /\ Target' = 0 => sounder'.at = 0
  BY <1>5, <1>6 DEF sounder
<1> QED
  BY <1>0, <1>3, <1>7, <1>8 DEF Ahead, Listening

(* The clip whose sound was served is not waiting any more. *)
LEMMA ClipHeard ==
  ASSUME IInv, Given, Ahead, timeline \in Orderly, pc \in Hearing, pc' = "sound",
         UNCHANGED <<timeline, slot, track, vid, shown>>,
         NEW k \in Pending, todo' = Pending \ {k}, NEW f \in File, timeline[track][k].file = f,
         heard' = heard \cup {SamplesOf(k, timeline[track][k], Now)},
         \A g \in File : g # f => aud'[g] = aud[g] /\ ~Lost(g, {"aseek", "aland"}),
         Media[f].opens => /\ aud'[f].at <= SoundLen(f) /\ aud'[f].at <= aud'[f].served
                           /\ \A s \in AsksNext(timeline, f, slot + 1) : aud'[f].served <= s[2]
  PROVE  Given' /\ Ahead'
<1>0. TypeOK /\ Current /\ pc' \notin Busy /\ pc' \in Hearing
  BY DEF IInv, Busy, Hearing
<1>1. On' = On /\ Now' = Now /\ Audible' = Audible /\ Pending' = todo'
  BY <1>0 DEF On, Now, Pending, Audible
<1>2. pc \in Serving /\ pc' \in Serving /\ pc \notin Seeing /\ pc' \notin Seeing
  BY <1>0 DEF Serving, Hearing, Seeing
<1>3. Pending \subseteq Audible /\ Audible \subseteq On /\ Wins(timeline, track, Now)
  BY <1>2 DEF Given, Audible, Sounding
<1>4. heard' = {SamplesOf(j, timeline[track][j], Now) : j \in Audible \ todo'}
  <2>1. heard = {SamplesOf(j, timeline[track][j], Now) : j \in Audible \ Pending}
    BY <1>2 DEF Given
  <2>2. Audible \ todo' = (Audible \ Pending) \cup {k}
    BY <1>3
  <2> QED
    BY <2>1, <2>2
<1>5. Given'
  <2>1. shown = Frames(timeline[track], On, Now)
    BY <1>2 DEF Given
  <2> QED
    BY <1>0, <1>1, <1>2, <1>3, <1>4, <2>1 DEF Given
<1>6. ~Waits(f)' /\ \A g \in File : g # f => Waits(g)' = Waits(g)
  <2>1. \A j \in On : timeline[track][j].file = f => j = k
    <3> SUFFICES ASSUME NEW j \in On, timeline[track][j].file = f PROVE j = k
      OBVIOUS
    <3>1. k \in On /\ Uses(timeline, f)
      BY <1>0, <1>3, ClipTyped
    <3> DEFINE q(i) == <<i, SourceTime(timeline[track][i], Now)>>
    <3>2. q(j) \in Asks(timeline, f, slot * Step) /\ q(k) \in Asks(timeline, f, slot * Step)
      BY <1>0, <1>3, <3>1, ClipAsks
    <3>3. slot \in 0..Slots - 1
      <4>1. pc # "done" /\ slot \in Nat /\ Slots \in Nat
        BY <1>0, SlotTyped DEF Hearing
      <4> QED
        BY <1>0, <4>1 DEF Current
    <3>4. q(j) = q(k)
      BY <3>1, <3>2, <3>3, OrderlyFile DEF Forward
    <3> QED
      BY <3>4
  <2>2. ~Waits(f)'
    BY <1>1, <1>3, <2>1 DEF Waits
  <2>3. ASSUME NEW g \in File, g # f PROVE Waits(g)' = Waits(g)
    BY <1>1, <2>3 DEF Waits
  <2> QED
    BY <2>2, <2>3
<1>7. \A g \in File : /\ SeenFrom(g)' = SeenFrom(g)
                      /\ HeardFrom(g)' = IF Waits(g)' THEN slot ELSE slot + 1
                      /\ HeardFrom(g) = IF Waits(g) THEN slot ELSE slot + 1
  <2>1. pc # "slot" /\ pc' # "slot"
    BY <1>0 DEF Hearing
  <2> QED
    BY <1>0, <1>2, <2>1 DEF SeenFrom, HeardFrom
<1>8. ASSUME NEW g \in File, Uses(timeline, g), Media[g].opens
      PROVE  /\ Lost(g, {"seek", "land"})' \/ SeesNext(g)'
             /\ Lost(g, {"aseek", "aland"})' \/ HearsNext(g)'
  <2>1. pc \notin {"failed", "stopped"} /\ pc \notin {"seek", "land", "skip"}
    BY DEF Hearing
  <2>2. /\ Lost(g, {"seek", "land"}) \/ SeesNext(g)
        /\ Lost(g, {"aseek", "aland"}) \/ HearsNext(g)
    BY <1>8, <2>1 DEF Ahead
  <2>3. SeesNext(g)
    BY <2>1, <2>2 DEF Lost
  <2>4. SeesNext(g)'
    BY <1>7, <2>1, <2>3 DEF SeesNext, Continues
  <2>5. CASE g = f
    <3>1. HeardFrom(g)' = slot + 1
      BY <1>6, <1>7, <2>5
    <3>2. HearsNext(g)'
      BY <1>8, <2>5, <3>1 DEF HearsNext, SoundLen
    <3> QED
      BY <2>4, <3>2
  <2>6. CASE g # f
    <3>1. HearsNext(g) /\ aud'[g] = aud[g]
      BY <2>2, <2>6
    <3>2. HeardFrom(g)' = HeardFrom(g)
      BY <1>6, <1>7, <2>6
    <3>3. HearsNext(g)'
      BY <3>1, <3>2 DEF HearsNext, SoundLen
    <3> QED
      BY <2>4, <3>3
  <2> QED
    BY <2>5, <2>6
<1> QED
  BY <1>5, <1>8 DEF Ahead

LEMMA SilentGiven ==
  ASSUME IInv, Given, Ahead, timeline \in Orderly, NextSound
  PROVE  Given' /\ Ahead'
<1> USE DEF lineVars
<1>0. TypeOK /\ Current /\ pc = "sound" /\ pc \in Hearing /\ pc \notin Busy /\ pc \in Serving
  BY DEF IInv, NextSound, Hearing, Busy, Serving
<1>1. PICK k \in todo : /\ todo' = todo \ {k} /\ req' = Request(k)
                        /\ IF ~(Media[req'.file].opens /\ Media[req'.file].sound)
                            THEN Hears(0, k, 0) /\ UNCHANGED pc
                            ELSE /\ pc' = IF req'.t - aud[req'.file].served > MinAhead
                                             /\ ~aud[req'.file].noSeek THEN "aseek" ELSE "samples"
                                 /\ UNCHANGED heard
  BY DEF NextSound
<1> DEFINE f == timeline[track][k].file
<1>2. /\ Pending = todo /\ todo \subseteq Audible /\ Audible \subseteq On /\ k \in On
      /\ Wins(timeline, track, Now) /\ req'.file = f /\ req'.clip = k
      /\ req'.t = SourceTime(timeline[track][k], Now)
  BY <1>0, <1>1 DEF Given, Pending, Audible, Sounding, Request
<1>3. f \in File /\ Uses(timeline, f) /\ SourceTime(timeline[track][k], Now) \in Nat
  BY <1>0, <1>2, ClipTyped
<1>4. UNCHANGED <<timeline, slot, track, vid, aud, shown>>
  BY DEF NextSound
<1>5. On' = On /\ Now' = Now /\ Audible' = Audible
  BY <1>4 DEF On, Now, Audible
<1>6. CASE ~(Media[f].opens /\ Media[f].sound)
  <2>1. pc' = "sound" /\ heard' = heard \cup {[clip |-> k, from |-> 0, n |-> 0]}
    BY <1>0, <1>1, <1>2, <1>6 DEF Hears
  <2>2. SamplesOf(k, timeline[track][k], Now) = [clip |-> k, from |-> 0, n |-> 0]
    <3>1. Step \in Nat \ {0}
      BY BoundAssumption
    <3> HIDE DEF SourceTime
    <3>2. ~(SourceTime(timeline[track][k], Now) < 0) /\ 0 - 0 < Step /\ 0 - 0 = 0
      BY <1>3, <3>1
    <3> QED
      BY <1>6, <3>2 DEF SamplesOf
  <2>3. Media[f].opens => /\ aud'[f].at <= SoundLen(f) /\ aud'[f].at <= aud'[f].served
                          /\ \A s \in AsksNext(timeline, f, slot + 1) : aud'[f].served <= s[2]
    <3> SUFFICES ASSUME Media[f].opens
                 PROVE  /\ aud[f].at <= SoundLen(f) /\ aud[f].at <= aud[f].served
                        /\ \A s \in AsksNext(timeline, f, slot + 1) : aud[f].served <= s[2]
      BY <1>4
    <3>1. HearsNext(f)
      BY <1>0, <1>3 DEF Ahead, Lost
    <3>2. HeardFrom(f) = slot
      BY <1>0, <1>1, <1>2 DEF HeardFrom, Waits
    <3>3. aud[f].served \in Nat
      BY <1>0, <1>3 DEF TypeOK, AudioReader
    <3>4. slot < Slots
      BY <1>0 DEF Current
    <3> HIDE DEF f
    <3> QED
      BY <1>0, <1>3, <3>1, <3>2, <3>3, <3>4, HeardLater DEF HearsNext
  <2>4. \A g \in File : g # f => aud'[g] = aud[g] /\ ~Lost(g, {"aseek", "aland"})
    BY <1>0, <1>4 DEF Lost
  <2> QED
    BY <1>0, <1>1, <1>2, <1>3, <1>4, <2>1, <2>2, <2>3, <2>4, ClipHeard
<1>7. CASE Media[f].opens /\ Media[f].sound
  <2>1. pc' \in {"aseek", "samples"} /\ heard' = heard
    BY <1>1, <1>2, <1>7
  <2>2. pc' \in Busy /\ pc' \in Hearing /\ pc' \in Serving /\ pc' \notin Seeing /\ pc \notin Seeing
    BY <1>0, <2>1 DEF Busy, Hearing, Serving, Seeing
  <2>3. Pending' = Pending
    BY <1>1, <1>2, <2>2 DEF Pending
  <2>4. /\ Source'.opens /\ Source'.sound /\ Request(k)' = Request(k)
    BY <1>2, <1>4, <1>5, <1>7 DEF Source, CurFile, Request
  <2>5. Given'
    BY <1>0, <1>1, <1>2, <1>4, <1>5, <2>1, <2>2, <2>3, <2>4 DEF Given
  <2>6. \A g \in File : SeenFrom(g)' = SeenFrom(g) /\ HeardFrom(g)' = HeardFrom(g)
    <3>1. pc # "slot" /\ pc' # "slot"
      BY <1>0, <2>1
    <3>2. \A g \in File : Waits(g)' = Waits(g)
      BY <1>4, <2>3 DEF Waits
    <3> QED
      BY <1>0, <1>4, <2>2, <3>1, <3>2 DEF SeenFrom, HeardFrom
  <2>7. ASSUME NEW g \in File, Uses(timeline, g), Media[g].opens
        PROVE  SeesNext(g)' /\ HearsNext(g)'
    <3>1. SeesNext(g) /\ HearsNext(g)
      BY <1>0, <2>7 DEF Ahead, Lost
    <3>2. SeesNext(g)'
      BY <1>0, <1>4, <2>6, <3>1 DEF SeesNext, Continues
    <3>3. HearsNext(g)'
      BY <1>4, <2>6, <3>1 DEF HearsNext, SoundLen
    <3> QED
      BY <3>2, <3>3
  <2> QED
    BY <1>4, <2>1, <2>5, <2>7 DEF Ahead
<1> QED
  BY <1>6, <1>7

(* What Samples takes from a reader that is not past the time asked for:    *)
(* the samples from there on, as many as the slot holds or the file has.    *)
LEMMA SamplesTaken ==
  ASSUME IInv, Given, Ahead, timeline \in Orderly, Samples
  PROVE  LET len == SoundLen(CurFile)
             first == IF req.t < len THEN req.t ELSE len
             last == IF first + Step < len THEN first + Step ELSE len
         IN /\ heard' = heard \cup {[clip |-> req.clip, from |-> first, n |-> last - first]}
            /\ aud'[CurFile].at = last /\ aud'[CurFile].served = req.t + Step
            /\ first \in Nat /\ last \in Nat /\ last <= len /\ last <= req.t + Step
            /\ last - first = IF len - first < Step THEN len - first ELSE Step
<1>0. pc = "samples" /\ pc \in Listening /\ TypeOK /\ Step \in Nat
  BY BoundAssumption DEF Samples, Listening, IInv
<1>1. /\ CurFile \in File /\ sounder \in AudioReader /\ req.t \in Nat
      /\ sounder.at \in Nat /\ sounder.served \in Nat /\ SoundLen(CurFile) \in Nat
      /\ sounder.at <= SoundLen(CurFile) /\ sounder.at <= sounder.served /\ sounder.served <= req.t
      /\ sounder.served = sounder.at \/ sounder.at >= SoundLen(CurFile)
      /\ SoundStop(CurFile, sounder.at) = SoundLen(CurFile)
  BY <1>0, SounderBefore
<1> DEFINE len == SoundLen(CurFile)
           ahead == IF req.t > sounder.served THEN req.t - sounder.served ELSE 0
           from == UpTo(sounder.at + ahead)
           upto == UpTo(from + Step)
           first == IF req.t < len THEN req.t ELSE len
           last == IF first + Step < len THEN first + Step ELSE len
<1>2. /\ Hears(upto - from, req.clip, from)
      /\ aud' = [aud EXCEPT ![CurFile] =
                    [sounder EXCEPT !.at = upto, !.served = sounder.served + ahead + Step]]
  BY DEF Samples
<1>3. ahead = req.t - sounder.served
  BY <1>1
<1> HIDE DEF ahead
<1>4. from = first
  BY <1>1, <1>3 DEF UpTo
<1>5. first \in Nat /\ last \in Nat /\ last <= len /\ last <= req.t + Step
  BY <1>0, <1>1
<1>6. upto = last
  BY <1>0, <1>1, <1>4, <1>5 DEF UpTo
<1>7. last - first = IF len - first < Step THEN len - first ELSE Step
  BY <1>0, <1>1
<1> HIDE DEF from, upto, first, last
<1>8. aud'[CurFile].at = upto /\ aud'[CurFile].served = sounder.served + ahead + Step
  BY <1>0, <1>1, <1>2 DEF TypeOK, AudioReader
<1>9. sounder.served + ahead + Step = req.t + Step
  BY <1>0, <1>1, <1>3
<1>10. heard' = heard \cup {[clip |-> req.clip, from |-> first, n |-> last - first]}
  BY <1>2, <1>4, <1>6 DEF Hears
<1>11. /\ heard' = heard \cup {[clip |-> req.clip, from |-> first, n |-> last - first]}
       /\ aud'[CurFile].at = last /\ aud'[CurFile].served = req.t + Step
       /\ first \in Nat /\ last \in Nat /\ last <= len /\ last <= req.t + Step
       /\ last - first = IF len - first < Step THEN len - first ELSE Step
  BY <1>5, <1>6, <1>7, <1>8, <1>9, <1>10
<1> QED
  BY <1>11 DEF first, last

LEMMA SoundGiven ==
  ASSUME IInv, Given, Ahead, timeline \in Orderly, Sound
  PROVE  Given' /\ Ahead'
<1> USE DEF lineVars, todoVars
<1>0. TypeOK /\ Current
  BY DEF IInv
<1>1. CASE NextSound
  BY <1>1, SilentGiven
<1>2. CASE Samples
  <2>1. pc = "samples" /\ pc \in Hearing /\ pc \in Listening /\ pc \in Busy /\ pc' = "sound"
    BY <1>2 DEF Samples, Hearing, Listening, Busy
  <2>2. /\ CurFile \in File /\ req.clip \in On /\ req.clip \notin todo /\ Source.opens
        /\ timeline[track][req.clip].file = CurFile
        /\ req.t = SourceTime(timeline[track][req.clip], Now)
        /\ \A s \in AsksNext(timeline, CurFile, slot + 1) : s[2] >= req.t + Step
    BY <1>0, <2>1, CurrentAsk
  <2>3. Media[CurFile].opens /\ Media[CurFile].sound
    BY <2>1, <2>2, SounderBefore DEF Source
  <2>4. Pending = todo \cup {req.clip} /\ todo = Pending \ {req.clip}
    BY <2>1, <2>2 DEF Pending
  <2> DEFINE len == SoundLen(CurFile)
             first == IF req.t < len THEN req.t ELSE len
             last == IF first + Step < len THEN first + Step ELSE len
  <2>5. /\ heard' = heard \cup {[clip |-> req.clip, from |-> first, n |-> last - first]}
        /\ aud'[CurFile].at = last /\ aud'[CurFile].served = req.t + Step
        /\ last <= len /\ last <= req.t + Step
        /\ last - first = IF len - first < Step THEN len - first ELSE Step
    BY <1>2, SamplesTaken
  <2>6. SamplesOf(req.clip, timeline[track][req.clip], Now)
            = [clip |-> req.clip, from |-> first,
               n |-> IF len - first < Step THEN len - first ELSE Step]
    BY <2>2, <2>3 DEF SamplesOf
  <2>7. \A g \in File : g # CurFile => aud'[g] = aud[g] /\ ~Lost(g, {"aseek", "aland"})
    <3>1. \A g \in File : g # CurFile => aud'[g] = aud[g]
      BY <1>0, <1>2, <2>2 DEF Samples, TypeOK
    <3> QED
      BY <2>1, <3>1 DEF Lost
  <2> HIDE DEF first, last, len
  <2>8. /\ aud'[CurFile].at <= SoundLen(CurFile) /\ aud'[CurFile].at <= aud'[CurFile].served
        /\ \A s \in AsksNext(timeline, CurFile, slot + 1) : aud'[CurFile].served <= s[2]
    <3>1. \A s \in AsksNext(timeline, CurFile, slot + 1) : s[2] \in Nat
      BY <1>0, <2>1, CurrentAsk
    <3>2. req.t \in Nat /\ Step \in Nat
      BY <1>0, <2>1, CurrentAsk, BoundAssumption
    <3> QED
      BY <2>2, <2>5, <3>1, <3>2 DEF len
  <2>9. UNCHANGED <<timeline, slot, track, vid, shown>> /\ todo' = Pending \ {req.clip}
    BY <1>2, <2>4 DEF Samples
  <2> QED
    BY <2>1, <2>2, <2>4, <2>5, <2>6, <2>7, <2>8, <2>9, ClipHeard
<1>3. ASSUME pc \in Listening, ~NextSound, ~Samples PROVE Given' /\ Ahead'
  <2>1. /\ CurFile \in File /\ sounder \in AudioReader /\ sounder.at \in Nat /\ sounder.served \in Nat
        /\ req.t \in Nat /\ Plain(CurFile) /\ 0 \notin Source.mute /\ Source.from = 0
        /\ SoundLen(CurFile) \in Nat /\ Target \in Nat
        /\ \/ TRUE \in Source.seeks
           \/ /\ sounder.at <= SoundLen(CurFile) /\ sounder.at <= sounder.served
              /\ sounder.served <= req.t
        /\ SoundStop(CurFile, sounder.at) = SoundLen(CurFile)
        /\ ~(TRUE \in Source.seeks /\ FALSE \in Source.seeks)
        /\ pc = "aland" => TRUE \in Source.seeks
    BY <1>3, SounderBefore
  <2>2. pc = "aland" /\ Target = 0 => sounder.at = 0
    BY DEF Ahead
  <2>3. CASE SoundReposition
    <3>1. CASE TRUE \in Source.seeks /\ pc' = "aland"
      <4>1. PICK p \in SoundLanding(CurFile, Target) :
                aud' = [aud EXCEPT ![CurFile] = [sounder EXCEPT !.at = p, !.landed = 0]]
        BY <2>1, <2>3, <3>1 DEF SoundReposition
      <4> DEFINE Y == [sounder EXCEPT !.at = p, !.landed = 0]
      <4>2. Y.at = p
        BY <2>1 DEF AudioReader
      <4>3. Target' = Target
        BY <2>3 DEF SoundReposition, Target
      <4>5. Target = 0 => p = 0
        BY <2>1, <4>1, LandingAtStart
      <4> HIDE DEF Y
      <4>4. aud' = [aud EXCEPT ![CurFile] = Y]
        BY <4>1 DEF Y
      <4> QED
        BY <1>3, <2>3, <3>1, <4>2, <4>3, <4>4, <4>5, SoundMoves
           DEF SoundReposition, Listening
    <3>2. CASE FALSE \in Source.seeks /\ pc' = "samples"
      <4> DEFINE Y == [sounder EXCEPT !.noSeek = TRUE]
      <4>1. aud' = [aud EXCEPT ![CurFile] = Y]
        BY <1>0, <2>1, <2>3, <3>2 DEF SoundReposition, TypeOK, sounder
      <4>2. Y.at = sounder.at /\ Y.served = sounder.served
        BY <2>1 DEF AudioReader
      <4> HIDE DEF Y
      <4> QED
        BY <1>3, <2>1, <2>3, <3>2, <4>1, <4>2, SoundMoves DEF SoundReposition, Listening
    <3> QED
      BY <2>3, <3>1, <3>2 DEF SoundReposition
  <2>4. CASE SoundBare
    <3>1. pc = "aland" /\ pc' = "aland" /\ Target' = Target
      BY <2>4 DEF SoundBare, SoundMayLand, Target
    <3>2. Target # 0
      <4>1. 0 \div Source.pkt = 0
        BY <2>1, MediaTyped, DivSmall DEF Source
      <4> QED
        BY <2>1, <2>2, <2>4, <3>1, <4>1 DEF SoundBare, Mute
    <3> QED
      BY <1>3, <2>1, <2>4, <3>1, <3>2, SoundMoves DEF SoundBare, Listening
  <2>5. CASE SoundAnchor
    <3> DEFINE Y == [sounder EXCEPT !.served = Source.from + sounder.at]
    <3>1. pc = "aland" /\ aud' = [aud EXCEPT ![CurFile] = Y]
      BY <1>0, <2>1, <2>5 DEF SoundAnchor, SoundMayLand, TypeOK, sounder
    <3>2. Y.at = sounder.at /\ Y.served = sounder.at
      BY <2>1 DEF AudioReader
    <3>3. sounder.at <= SoundLen(CurFile)
      BY <2>1, <2>5 DEF SoundAnchor, SoundMayLand, SoundEnds, Ended
    <3>4. pc' = "aseek" \/ (pc' = "samples" /\ sounder.at <= req.t)
      <4>1. IF sounder.at <= req.t \/ Target = 0 THEN pc' = "samples" ELSE pc' = "aseek"
        BY <2>1, <2>5 DEF SoundAnchor
      <4> QED
        BY <2>1, <2>2, <3>1, <4>1
    <3> HIDE DEF Y
    <3>5. \/ pc' \in {"aseek", "aland"} /\ TRUE \in Source.seeks
          \/ Y.at <= SoundLen(CurFile) /\ Y.at <= Y.served /\ Y.served <= req.t
      <4>1. TRUE \in Source.seeks
        BY <2>1, <3>1
      <4>2. pc' = "samples" /\ sounder.at <= req.t =>
                Y.at <= SoundLen(CurFile) /\ Y.at <= Y.served /\ Y.served <= req.t
        BY <2>1, <3>2, <3>3
      <4> QED
        BY <3>4, <4>1, <4>2
    <3>6. pc' \in Listening /\ pc' # "aland"
      BY <3>4 DEF Listening
    <3> QED
      BY <1>3, <2>5, <3>1, <3>5, <3>6, SoundMoves DEF SoundAnchor
  <2>6. CASE SoundGivesUp
    <3>1. pc' = "samples"
      BY <2>6 DEF SoundGivesUp
    <3>2. CASE \E p \in SoundLanding(CurFile, 0) :
                  aud' = [aud EXCEPT ![CurFile] =
                              [at |-> p, served |-> 0, landed |-> 0, noSeek |-> TRUE]]
      <4>1. aud' = [aud EXCEPT ![CurFile] =
                              [at |-> 0, served |-> 0, landed |-> 0, noSeek |-> TRUE]]
        BY <2>1, <3>2, LandingAtStart
      <4> DEFINE Y == [at |-> 0, served |-> 0, landed |-> 0, noSeek |-> TRUE]
      <4>2. Y.at <= SoundLen(CurFile) /\ Y.at <= Y.served /\ Y.served <= req.t
        BY <2>1
      <4> QED
        BY <1>3, <2>6, <3>1, <4>1, <4>2, SoundMoves DEF SoundGivesUp, Listening
    <3>3. CASE FALSE \in Source.seeks /\ aud' = [aud EXCEPT ![CurFile].noSeek = TRUE]
      <4> DEFINE Y == [sounder EXCEPT !.noSeek = TRUE]
      <4>1. aud' = [aud EXCEPT ![CurFile] = Y]
        BY <1>0, <2>1, <3>3 DEF TypeOK, sounder
      <4>2. Y.at = sounder.at /\ Y.served = sounder.served
        BY <2>1 DEF AudioReader
      <4> HIDE DEF Y
      <4> QED
        BY <1>3, <2>1, <2>6, <3>1, <3>3, <4>1, <4>2, SoundMoves DEF SoundGivesUp, Listening
    <3> QED
      BY <2>6, <3>2, <3>3 DEF SoundGivesUp
  <2> QED
    BY <1>3, <2>3, <2>4, <2>5, <2>6 DEF Sound
<1>4. pc \in Listening \/ NextSound \/ Samples
  BY DEF Sound, SoundReposition, SoundBare, SoundAnchor, SoundGivesUp, SoundMayLand, Listening
<1> QED
  BY <1>1, <1>2, <1>3, <1>4

(***************************************************************************)
(* The renderer.                                                           *)
(***************************************************************************)
LEMMA FramesOfNone ==
  ASSUME NEW tr, NEW t
  PROVE  Frames(tr, {}, t) = {}
BY DEF Frames

LEMMA RenderGiven ==
  ASSUME IInv, IInv', Given, Ahead, timeline \in Orderly,
         BeginSlot \/ NextPicture \/ PicturesDone \/ SlotDone \/ NextSlot \/ Cancel \/ SendFails
  PROVE  Given' /\ Ahead'
<1> USE DEF lineVars, todoVars
<1>0. TypeOK /\ Current /\ slot \in Nat /\ Slots \in Nat
  BY SlotTyped DEF IInv
<1>1. UNCHANGED <<timeline, vid, aud>>
  BY DEF BeginSlot, NextPicture, PicturesDone, SlotDone, NextSlot, Cancel, SendFails
<1>2. CASE BeginSlot
  <2>1. PICK n \in 0..Len(timeline) :
            Wins(timeline, n, Now) /\ track' = n /\ todo' = Playing(timeline, n, Now)
    BY <1>2 DEF BeginSlot
  <2>2. /\ pc = "slot" /\ slot < Slots /\ pc' = "picture" /\ UNCHANGED <<timeline, slot>>
        /\ shown' = {} /\ heard' = {}
    BY <1>2 DEF BeginSlot
  <2>3. pc' \in Seeing /\ pc' \notin Busy /\ pc' \notin Hearing /\ pc' \in Serving
    BY <2>2 DEF Seeing, Busy, Hearing, Serving
  <2>4. Now' = Now /\ On' = todo' /\ Pending' = todo' /\ On' \ Pending' = {}
    BY <2>1, <2>2, <2>3 DEF Now, On, Pending
  <2>5. Given'
    BY <2>1, <2>2, <2>3, <2>4, FramesOfNone DEF Given
  <2>6. ASSUME NEW f \in File, Uses(timeline, f), Media[f].opens
        PROVE  SeesNext(f)' /\ HearsNext(f)'
    <3>1. SeesNext(f) /\ HearsNext(f)
      BY <2>2, <2>6 DEF Ahead, Lost
    <3>2. /\ SeenFrom(f) = slot /\ HeardFrom(f) = slot /\ HeardFrom(f)' = slot
          /\ SeenFrom(f)' = IF Waits(f)' THEN slot ELSE slot + 1
      BY <2>2, <2>3 DEF SeenFrom, HeardFrom
    <3>3. AsksNext(timeline, f, SeenFrom(f)') \subseteq AsksNext(timeline, f, slot)
      <4>1. CASE Waits(f)'
        BY <3>2, <4>1
      <4>2. CASE ~Waits(f)'
        <5>1. \A k \in Playing(timeline, n, Now) : timeline[n][k].file # f
          BY <2>1, <2>2, <2>4, <4>2 DEF Waits
        <5>2. Asks(timeline, f, slot * Step) = {}
          BY <1>0, <2>1, <5>1, NoClipNoAsk
        <5> QED
          BY <1>0, <2>2, <3>2, <4>2, <5>2, NextIsLater
      <4> QED
        BY <4>1, <4>2
    <3>4. SeesNext(f)'
      BY <1>1, <2>2, <3>1, <3>2, <3>3 DEF SeesNext, Continues
    <3>5. HearsNext(f)'
      BY <1>1, <3>1, <3>2 DEF HearsNext, SoundLen
    <3> QED
      BY <3>4, <3>5
  <2> QED
    BY <1>1, <2>2, <2>5, <2>6 DEF Ahead
<1>3. CASE NextPicture
  <2>1. PICK k \in todo : /\ todo' = todo \ {k} /\ req' = Request(k)
                          /\ pc' = IF Media[req'.file].opens THEN "get" ELSE "picture"
    BY <1>3 DEF NextPicture
  <2> DEFINE h == timeline[track][k].file
  <2>2. /\ pc = "picture" /\ UNCHANGED <<timeline, slot, track, shown, heard>>
        /\ req'.file = h /\ req'.clip = k
    BY <1>3, <2>1 DEF NextPicture, Request
  <2>3. k \in On /\ todo \subseteq On /\ h \in File
    BY <1>0, <2>1, ClipTyped DEF Current
  <2>4. /\ pc \in Seeing /\ pc \in Serving /\ pc \notin Busy /\ pc \notin Hearing
        /\ pc' \in Seeing /\ pc' \in Serving /\ pc' \notin Hearing
        /\ pc' \in Busy <=> Media[h].opens
    BY <2>1, <2>2 DEF Seeing, Serving, Busy, Hearing
  <2>5. Now' = Now /\ On' = On /\ Request(k)' = Request(k) /\ Pending = todo
    BY <2>2, <2>4 DEF Now, On, Request, Pending
  <2>6. Pending' = IF Media[h].opens THEN todo ELSE todo \ {k}
    BY <2>1, <2>2, <2>4 DEF Pending
  <2>7. /\ shown = Frames(timeline[track], On \ todo, Now) /\ heard = {}
        /\ Wins(timeline, track, Now)
    BY <2>4, <2>5 DEF Given
  <2>8. shown = Frames(timeline[track], On \ Pending', Now)
    <3>1. CASE Media[h].opens
      BY <2>6, <2>7, <3>1
    <3>2. CASE ~Media[h].opens
      <4>1. On \ Pending' = (On \ todo) \cup {k}
        BY <2>1, <2>3, <2>6, <3>2
      <4> QED
        BY <2>7, <3>2, <4>1 DEF Frames
    <3> QED
      BY <3>1, <3>2
  <2>9. pc' \in Busy => req'.clip \in On \ todo' /\ Source'.opens
    BY <1>1, <2>1, <2>2, <2>3, <2>4 DEF Source, CurFile
  <2>10. Given'
    BY <2>1, <2>2, <2>4, <2>5, <2>7, <2>8, <2>9 DEF Given
  <2>11. ASSUME NEW f \in File, Uses(timeline, f), Media[f].opens
         PROVE  SeesNext(f)' /\ HearsNext(f)'
    <3>1. SeesNext(f) /\ HearsNext(f)
      BY <2>2, <2>11 DEF Ahead, Lost
    <3>2. Waits(f)' <=> Waits(f)
      <4>1. CASE Media[h].opens
        BY <2>2, <2>5, <2>6, <4>1 DEF Waits
      <4>2. CASE ~Media[h].opens
        BY <2>2, <2>5, <2>6, <2>11, <4>2 DEF Waits
      <4> QED
        BY <4>1, <4>2
    <3>3. SeenFrom(f)' = SeenFrom(f) /\ HeardFrom(f)' = HeardFrom(f)
      <4>1. pc # "slot" /\ pc' # "slot"
        BY <2>4 DEF Seeing
      <4>2. HeardFrom(f)' = HeardFrom(f)
        BY <2>2, <2>4 DEF HeardFrom
      <4>3. SeenFrom(f) = IF Waits(f) THEN slot ELSE slot + 1
        BY <2>4, <4>1 DEF SeenFrom
      <4>4. SeenFrom(f)' = IF Waits(f)' THEN slot ELSE slot + 1
        BY <2>2, <2>4, <4>1 DEF SeenFrom
      <4> QED
        BY <3>2, <4>2, <4>3, <4>4
    <3>4. SeesNext(f)'
      BY <1>1, <2>2, <3>1, <3>3 DEF SeesNext, Continues
    <3>5. HearsNext(f)'
      BY <1>1, <3>1, <3>3 DEF HearsNext, SoundLen
    <3> QED
      BY <3>4, <3>5
  <2>12. pc' \notin {"land", "aland"}
    BY <2>1
  <2> QED
    BY <1>1, <2>10, <2>11, <2>12 DEF Ahead
<1>4. CASE PicturesDone
  <2>1. /\ pc = "picture" /\ pc' = "sound" /\ todo = {}
        /\ todo' = IF track = 0 THEN {} ELSE Sounding(timeline[track], On, Now)
        /\ UNCHANGED <<timeline, slot, track, shown, heard>>
    BY <1>4 DEF PicturesDone
  <2>2. /\ pc \in Seeing /\ pc \in Serving /\ pc \notin Busy /\ pc \notin Hearing
        /\ pc' \in Hearing /\ pc' \in Serving /\ pc' \notin Seeing /\ pc' \notin Busy
    BY <2>1 DEF Seeing, Serving, Busy, Hearing
  <2>3. Now' = Now /\ On' = On /\ Audible' = Audible /\ Pending = {} /\ Pending' = todo'
    BY <2>1, <2>2 DEF Now, On, Audible, Pending
  <2>4. todo' = Audible
    <3>1. track = 0 => On = {}
      BY DEF On, Playing
    <3>2. On = {} => Audible = {}
      BY DEF Audible, Sounding
    <3> QED
      BY <2>1, <3>1, <3>2 DEF Audible
  <2>5. /\ shown = Frames(timeline[track], On, Now) /\ heard = {} /\ Wins(timeline, track, Now)
    BY <2>2, <2>3 DEF Given
  <2>6. Given'
    BY <2>1, <2>2, <2>3, <2>4, <2>5 DEF Given
  <2>7. ASSUME NEW f \in File, Uses(timeline, f), Media[f].opens
        PROVE  SeesNext(f)' /\ HearsNext(f)'
    <3>1. SeesNext(f) /\ HearsNext(f)
      BY <2>1, <2>7 DEF Ahead, Lost
    <3>2. ~Waits(f)
      BY <2>3 DEF Waits
    <3>3. /\ SeenFrom(f)' = slot + 1 /\ SeenFrom(f) = slot + 1 /\ HeardFrom(f) = slot
          /\ HeardFrom(f)' = IF Waits(f)' THEN slot ELSE slot + 1
      BY <2>1, <2>2, <3>2 DEF SeenFrom, HeardFrom
    <3>4. SeesNext(f)'
      BY <1>1, <2>1, <3>1, <3>3 DEF SeesNext, Continues
    <3>5. aud[f].served \in Nat /\ slot < Slots
      BY <1>0, <2>1, <2>7 DEF TypeOK, AudioReader, Current
    <3>6. \A s \in AsksNext(timeline, f, slot + 1) : aud[f].served <= s[2]
      BY <1>0, <2>7, <3>1, <3>3, <3>5, HeardLater DEF HearsNext
    <3>7. HearsNext(f)'
      BY <1>1, <3>1, <3>3, <3>6 DEF HearsNext, SoundLen
    <3> QED
      BY <3>4, <3>7
  <2> QED
    BY <1>1, <2>1, <2>6, <2>7 DEF Ahead
<1>5. CASE SlotDone
  <2>1. /\ pc = "sound" /\ pc' = "sent" /\ todo = {} /\ todo' = {}
        /\ UNCHANGED <<timeline, slot, track, shown, heard>>
    BY <1>5 DEF SlotDone
  <2>2. /\ pc \in Hearing /\ pc \in Serving /\ pc \notin Busy /\ pc \notin Seeing
        /\ pc' \in Serving /\ pc' \notin Seeing /\ pc' \notin Busy /\ pc' \notin Hearing
    BY <2>1 DEF Seeing, Serving, Busy, Hearing
  <2>3. Now' = Now /\ On' = On /\ Audible' = Audible /\ Pending = {} /\ Pending' = {}
    BY <2>1, <2>2 DEF Now, On, Audible, Pending
  <2>4. Given'
    BY <2>1, <2>2, <2>3 DEF Given
  <2>5. ASSUME NEW f \in File, Uses(timeline, f), Media[f].opens
        PROVE  SeesNext(f)' /\ HearsNext(f)'
    <3>1. SeesNext(f) /\ HearsNext(f)
      BY <2>1, <2>5 DEF Ahead, Lost
    <3>2. ~Waits(f)
      BY <2>3 DEF Waits
    <3>3. SeenFrom(f)' = SeenFrom(f) /\ HeardFrom(f)' = HeardFrom(f)
      BY <2>1, <2>2, <3>2 DEF SeenFrom, HeardFrom
    <3> QED
      BY <1>1, <2>1, <3>1, <3>3 DEF SeesNext, HearsNext, Continues, SoundLen
  <2> QED
    BY <1>1, <2>1, <2>4, <2>5 DEF Ahead
<1>6. CASE NextSlot
  <2>1. /\ pc = "sent" /\ slot' = slot + 1 /\ pc' = IF slot' = Slots THEN "done" ELSE "slot"
        /\ UNCHANGED timeline
    BY <1>6 DEF NextSlot
  <2>2. Given'
    BY <2>1 DEF Given, Serving, Seeing, Hearing, Busy
  <2>3. ASSUME NEW f \in File, Uses(timeline, f), Media[f].opens
        PROVE  SeesNext(f)' /\ HearsNext(f)'
    <3>1. SeesNext(f) /\ HearsNext(f)
      BY <2>1, <2>3 DEF Ahead, Lost
    <3>2. SeenFrom(f) = slot + 1 /\ HeardFrom(f) = slot + 1
      BY <2>1 DEF SeenFrom, HeardFrom, Seeing, Hearing
    <3>3. CASE slot' = Slots
      <4>1. SeenFrom(f)' = Slots + 1 /\ HeardFrom(f)' = Slots + 1
        BY <2>1, <3>3 DEF SeenFrom, HeardFrom, Seeing, Hearing
      <4>2. Slots + 1..Slots - 1 = {}
        BY <1>0
      <4>3. AsksNext(timeline, f, Slots + 1) = {}
        BY <4>2 DEF AsksNext
      <4> QED
        BY <1>1, <3>1, <4>1, <4>3 DEF SeesNext, HearsNext, SoundLen
    <3>4. CASE slot' # Slots
      <4>1. SeenFrom(f)' = slot + 1 /\ HeardFrom(f)' = slot + 1
        BY <2>1, <3>4 DEF SeenFrom, HeardFrom
      <4> QED
        BY <1>1, <2>1, <3>1, <3>2, <4>1 DEF SeesNext, HearsNext, Continues, SoundLen
    <3> QED
      BY <3>3, <3>4
  <2>4. pc' \notin {"land", "aland"}
    BY <2>1
  <2> QED
    BY <1>1, <2>2, <2>3, <2>4 DEF Ahead
<1>7. CASE Cancel
  BY <1>7 DEF Cancel, Given, Ahead, Serving, Seeing, Hearing, Busy
<1>8. CASE SendFails
  BY <1>8 DEF SendFails, Given, Ahead, Serving, Seeing, Hearing, Busy
<1> QED
  BY <1>2, <1>3, <1>4, <1>5, <1>6, <1>7, <1>8

LEMMA PlacedInit == Init => Placed
<1> SUFFICES ASSUME Init, timeline \in Orderly PROVE Given /\ Ahead
  BY DEF Placed
<1>1. TypeOK
  BY InitHolds DEF IInv
<1>2. pc = "slot" /\ slot = 0
  BY DEF Init
<1>3. Given
  BY <1>2 DEF Given, Serving, Seeing, Hearing, Busy
<1>4. ASSUME NEW f \in File PROVE SeesNext(f) /\ HearsNext(f)
  <2>1. SeenFrom(f) = 0 /\ HeardFrom(f) = 0
    BY <1>2 DEF SeenFrom, HeardFrom
  <2>2. \A s \in AsksNext(timeline, f, 0) : s[2] \in Nat
    BY <1>1, <1>4, SlotTyped, NextTyped
  <2>3. vid[f] = Fresh /\ aud[f] = Silent
    BY <1>4 DEF Init
  <2>4. SoundLen(f) \in Nat
    BY <1>4, MediaTyped
  <2>5. \A s \in AsksNext(timeline, f, 0) : IndexAt(f, s[2]) \in Nat
    BY <1>4, <2>2, IndexTyped
  <2>6. HearsNext(f)
    BY <2>1, <2>2, <2>3, <2>4 DEF HearsNext, Silent
  <2>7. SeesNext(f)
    BY <2>1, <2>3, <2>5 DEF SeesNext, Continues, Fresh
  <2> QED
    BY <2>6, <2>7
<1> QED
  BY <1>2, <1>3, <1>4 DEF Ahead

LEMMA PlacedStep == IInv /\ IInv' /\ Placed /\ [Next]_vars => Placed'
<1> SUFFICES ASSUME IInv, IInv', Placed, [Next]_vars, (timeline \in Orderly)' PROVE Given' /\ Ahead'
  BY DEF Placed
<1>1. UNCHANGED timeline
  BY DEF Next, Render, Picture, Seek, Sound, vars, lineVars, BeginSlot, NextPicture, PicturesDone,
         SlotDone, NextSlot, Cancel, SendFails, Continue, Jump, Skip, NoFrame, Reposition, LandBare, LandWell,
         LandPast, GiveUp, NextSound, SoundReposition, SoundBare, SoundAnchor, SoundGivesUp, Samples
<1>2. timeline \in Orderly
  BY <1>1
<1>3. Given /\ Ahead
  BY <1>2 DEF Placed
<1>4. CASE BeginSlot \/ NextPicture \/ PicturesDone \/ SlotDone \/ NextSlot \/ Cancel \/ SendFails
  BY <1>2, <1>3, <1>4, RenderGiven
<1>5. CASE Continue \/ Jump \/ Skip \/ NoFrame
  BY <1>2, <1>3, <1>5, PictureGiven
<1>6. CASE Seek
  BY <1>2, <1>3, <1>6, SeekGiven
<1>7. CASE Sound
  BY <1>2, <1>3, <1>7, SoundGiven
<1>8. CASE UNCHANGED vars
  <2>1. UNCHANGED <<timeline, slot, pc, track, todo, req, slack, vid, aud, shown, heard>>
    BY <1>8 DEF vars, lineVars, todoVars
  <2>2. Now' = Now /\ On' = On /\ Pending' = Pending /\ Audible' = Audible /\ Source' = Source
    BY <2>1 DEF Now, On, Pending, Audible, Source, CurFile
  <2>3. Given'
    BY <1>3, <2>1, <2>2 DEF Given, Request
  <2>4. \A f \in File : Waits(f)' = Waits(f)
    BY <2>1, <2>2 DEF Waits
  <2>5. \A f \in File : SeenFrom(f)' = SeenFrom(f) /\ HeardFrom(f)' = HeardFrom(f)
    BY <2>1, <2>4 DEF SeenFrom, HeardFrom
  <2>6. ASSUME NEW f \in File PROVE SeesNext(f)' = SeesNext(f) /\ HearsNext(f)' = HearsNext(f)
    BY <2>1, <2>5 DEF SeesNext, HearsNext, Continues, CurFile, SoundLen
  <2>7. \A f, places : Lost(f, places)' = Lost(f, places)
    BY <2>1 DEF Lost
  <2>8. Target' = Target /\ reader' = reader /\ sounder' = sounder
    BY <2>1 DEF Target, reader, sounder, CurFile
  <2> QED
    BY <1>3, <2>1, <2>3, <2>6, <2>7, <2>8 DEF Ahead
<1> QED
  BY <1>4, <1>5, <1>6, <1>7, <1>8 DEF Next, Render, Picture

(* On an orderly timeline every slot is what the timeline places there,     *)
(* picture and sound, for any number of files, tracks, clips and slots and  *)
(* whatever the demuxer answers to a seek.                                  *)
THEOREM SlotsAsPlaced == Spec => []AsPlaced
<1>1. Spec => []Placed
  BY PlacedInit, PlacedStep, Invariance, PTL DEF Spec
<1>2. IInv /\ Placed => AsPlaced
  <2> SUFFICES ASSUME IInv, Placed, timeline \in Orderly, pc = "sent"
               PROVE  /\ shown = IF track = 0 THEN {} ELSE Frames(timeline[track], On, Now)
                      /\ heard = IF track = 0 THEN {}
                                 ELSE {SamplesOf(k, timeline[track][k], Now) :
                                          k \in Sounding(timeline[track], On, Now)}
    BY DEF AsPlaced, PictureAsked, SoundAsked
  <2>1. pc \in Serving /\ pc \notin Seeing /\ pc \notin Hearing /\ pc \notin Busy
    BY DEF Serving, Seeing, Hearing, Busy
  <2>2. /\ shown = Frames(timeline[track], On, Now)
        /\ heard = {SamplesOf(k, timeline[track][k], Now) : k \in Audible \ Pending}
    BY <2>1 DEF Placed, Given
  <2>3. track = 0 => On = {} /\ Audible = {}
    BY DEF On, Playing, Audible, Sounding
  <2>4. Pending = {}
    BY <2>1 DEF IInv, Current, Pending
  <2> QED
    BY <2>2, <2>3, <2>4, FramesOfNone DEF Audible
<1> QED
  BY <1>1, <1>2, Invariance, PTL
=============================================================================
