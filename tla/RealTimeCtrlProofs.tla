------------------------- MODULE RealTimeCtrlProofs -------------------------
(***************************************************************************)
(* Proofs about RealTimeCtrl, for any set of encoders and any readings: a  *)
(* restart costs no frame and the books agree after it, steps keep their    *)
(* distance, and what the codecs run with never exceeds the budget although *)
(* the controller decides on a snapshot and an encoder acts on it later.    *)
(***************************************************************************)
EXTENDS RealTimeCtrl, FiniteSetTheorems, TLAPS

(* What is open, what the tracker says, what the options would open again;  *)
(* a restart has changed the first of them and not yet the second.          *)
Recorded(n) == codec[n] = [threads |-> configured[n], preset |-> tracked[n]]
Reopens(n) == codec[n] = [threads |-> Threads(n, opts[n].threads), preset |-> opts[n].preset]
Tuned == \A n \in Enc :
    /\ place[n] \in {"recv", "load", "preset", "flush", "open", "send"} => Recorded(n) /\ Reopens(n)
    /\ place[n] \in {"register", "record"} =>
          /\ Reopens(n)
          /\ codec[n].preset = IF want[n].preset = NoPreset THEN tracked[n] ELSE want[n].preset
Drained == \A n \in Enc : ~lost[n] /\ (place[n] = "open" => held[n] = 0)

(* The cool-down counter of a node tells how old its last step is.          *)
Paced == \A n \in Enc :
    /\ sincePreset[n] = 0 => age[n] = PresetWindows
    /\ sincePreset[n] > 0 => sincePreset[n] <= age[n] + 1

(* The share of an encoder: never less than what it has or will reopen with,*)
(* and at most one step more than the tracker, or the snapshot, says.       *)
Share(n) ==
    /\ alloc[n] > 0 /\ configured[n] <= codec[n].threads /\ codec[n].threads <= alloc[n]
    /\ alloc[n] <= configured[n] + ThreadStep
    /\ place[n] \in {"flush", "open"} => /\ configured[n] <= Threads(n, want[n].threads)
                                         /\ Threads(n, want[n].threads) <= alloc[n]
    /\ n \in half \/ pending[n] \/ place[n] = "load" => wanted[n] = alloc[n]
    /\ pc = "nodes" /\ n \in todo => /\ shot[n].threads <= configured[n]
                                     /\ alloc[n] <= shot[n].threads + ThreadStep
Budgeted == /\ \A n \in Cpu : Share(n)
            /\ Total(alloc, Cpu) <= Cap \/ Total(alloc, Cpu) <= Total(Start, Cpu)

(***************************************************************************)
(* Sums as sizes of disjoint unions.                                       *)
(***************************************************************************)
LEMMA TotalType ==
  ASSUME NEW f \in [Enc -> Nat], NEW S \in SUBSET Enc
  PROVE  /\ IsFiniteSet(UNION {{n} \X (1..f[n]) : n \in S})
         /\ Total(f, S) \in Nat
<1> DEFINE Parts == {{n} \X (1..f[n]) : n \in S}
<1>1. IsFiniteSet(S)
  BY RealTimeAssumption, FS_Subset
<1>2. IsFiniteSet(Parts)
  <2> DEFINE part == [n \in S |-> {n} \X (1..f[n])]
  <2>1. part \in Surjection(S, Parts)
    BY DEF Surjection
  <2> QED BY <1>1, <2>1, FS_Surjection
<1>3. \A P \in Parts : IsFiniteSet(P)
  <2> SUFFICES ASSUME NEW n \in S PROVE IsFiniteSet({n} \X (1..f[n]))
    OBVIOUS
  <2>1. f[n] \in Int /\ 1 \in Int
    OBVIOUS
  <2>2. IsFiniteSet({n}) /\ IsFiniteSet(1..f[n])
    BY <2>1, FS_Singleton, FS_Interval
  <2> QED BY <2>2, FS_Product
<1>4. IsFiniteSet(UNION Parts)
  BY <1>2, <1>3, FS_UNION
<1> QED BY <1>4, FS_CardinalityType DEF Total

LEMMA TotalMono ==
  ASSUME NEW f \in [Enc -> Nat], NEW g \in [Enc -> Nat],
         NEW S \in SUBSET Enc, NEW T \in SUBSET Enc, S \subseteq T,
         \A n \in S : f[n] <= g[n]
  PROVE  Total(f, S) <= Total(g, T)
<1> DEFINE F == UNION {{n} \X (1..f[n]) : n \in S}
           G == UNION {{n} \X (1..g[n]) : n \in T}
<1>1. F \subseteq G
  <2> SUFFICES ASSUME NEW n \in S, NEW x \in {n} \X (1..f[n]) PROVE x \in G
    OBVIOUS
  <2>1. x \in {n} \X (1..g[n])
    BY SMT
  <2> QED BY <2>1
<1>2. IsFiniteSet(G)
  BY TotalType
<1> QED BY <1>1, <1>2, FS_Subset DEF Total

LEMMA TotalSplit ==
  ASSUME NEW f \in [Enc -> Nat], NEW S \in SUBSET Enc, NEW n \in S
  PROVE  Total(f, S) = Total(f, S \ {n}) + f[n]
<1> DEFINE F == UNION {{m} \X (1..f[m]) : m \in S}
           G == UNION {{m} \X (1..f[m]) : m \in S \ {n}}
           H == {n} \X (1..f[n])
<1>1. F = G \cup H
  OBVIOUS
<1>2. G \cap H = {}
  <2> SUFFICES ASSUME NEW x \in H, NEW m \in S \ {n}, x \in {m} \X (1..f[m]) PROVE FALSE
    OBVIOUS
  <2> QED BY SMT
<1>3. IsFiniteSet(G) /\ Cardinality(G) \in Nat
  BY TotalType DEF Total
<1>4. IsFiniteSet(H) /\ Cardinality(H) = f[n]
  <2>1. IsFiniteSet({n}) /\ Cardinality({n}) = 1
    BY FS_Singleton
  <2>2. f[n] \in Nat /\ IsFiniteSet(1..f[n]) /\ Cardinality(1..f[n]) = f[n]
    BY FS_Interval, SMT
  <2>3. IsFiniteSet(H) /\ Cardinality(H) = Cardinality({n}) * Cardinality(1..f[n])
    BY <2>1, <2>2, FS_Product
  <2> QED BY <2>1, <2>2, <2>3
<1>5. Cardinality(G \cup H) = Cardinality(G) + Cardinality(H) - Cardinality(G \cap H)
  BY <1>3, <1>4, FS_Union
<1>6. Cardinality(G \cap H) = 0
  BY <1>2, FS_EmptySet
<1>7. Total(f, S) = Cardinality(G \cup H) /\ Total(f, S \ {n}) = Cardinality(G)
  BY <1>1 DEF Total
<1>8. f[n] \in Nat
  OBVIOUS
<1> HIDE DEF F, G, H
<1> QED BY <1>3, <1>4, <1>5, <1>6, <1>7, <1>8

(***************************************************************************)
(* What the proofs need of the constants.                                  *)
(***************************************************************************)
LEMMA Constants ==
  /\ Hw \subseteq Enc /\ Hot \subseteq Enc /\ Start \in [Enc -> Nat] /\ \A n \in Enc : Start[n] > 0
  /\ Top \in Nat /\ Default \in Presets /\ Floor \in Presets /\ 0 \in Presets
  /\ Cap \in Nat /\ ThreadStep \in Nat /\ ThreadStep > 0 /\ Delay \in Nat /\ MaxOverrides \in Nat
  /\ AdjWindows \in Nat /\ AdjWindows > 0 /\ PresetWindows \in Nat /\ PresetWindows > 0
  /\ HeadWindows \in Nat /\ HeadWindows > 0
  /\ Asked \subseteq 1..Top
  BY RealTimeAssumption DEF Presets

(***************************************************************************)
(* The next preset is on the ladder, or none.                              *)
(***************************************************************************)
LEMMA NextPresetType ==
  ASSUME NEW cur \in Presets, NEW d \in {-1, 1}
  PROVE  NextPreset(cur, d) \in Presets
<1>1. Top \in Nat /\ Default \in Presets /\ Floor \in Presets
  BY Constants
<1>2. Ladder(cur, d) \in Presets
  BY <1>1 DEF Ladder, Presets
<1> QED BY <1>1, <1>2 DEF NextPreset

(***************************************************************************)
(* Types.                                                                  *)
(***************************************************************************)
(* TypeOK in parts that few actions change together.                       *)
Turn == /\ load \in Loads /\ pc \in {"wait", "nodes", "group"} /\ todo \subseteq Enc
        /\ half \subseteq Enc /\ Cardinality(half) <= 1 /\ stop \in BOOLEAN
Seen == \A n \in Enc : /\ [deficit |-> shot[n].deficit, active |-> shot[n].active,
                           busy |-> shot[n].busy] \in Reading
                       /\ shot[n].threads \in Nat /\ shot[n].preset \in Presets
                       /\ shot[n].locked \in BOOLEAN
Counters == /\ sinceAdj \in [Enc -> 0..AdjWindows] /\ sincePreset \in [Enc -> 0..PresetWindows]
            /\ overshoot \in [Enc -> 0..HeadWindows - 1] /\ age \in [Enc -> 0..PresetWindows]
Requests == /\ alloc \in [Enc -> Nat] /\ pending \in [Enc -> BOOLEAN] /\ wanted \in [Enc -> Nat]
            /\ request \in [Enc -> Presets \cup {NoPreset}] /\ dropping \in [Enc -> BOOLEAN]
Trackers == configured \in [Enc -> Nat] /\ tracked \in [Enc -> Presets]
Frames == /\ place \in [Enc -> {"recv", "load", "preset", "flush", "open", "register", "record",
                                "send", "done", "failed"}]
          /\ held \in [Enc -> 0..Delay] /\ lost \in [Enc -> BOOLEAN]
Codecs == /\ codec \in [Enc -> Codec] /\ opts \in [Enc -> Codec]
          /\ want \in [Enc -> [threads : Nat, preset : Presets \cup {NoPreset}]]
Users == /\ locked \in [Enc -> BOOLEAN] /\ chosen \in [Enc -> Presets \cup {NoPreset}]
         /\ overrides \in 0..MaxOverrides /\ (user = <<>> \/ user \in (Enc \ Hw) \X (1..Top))
Typed == Turn /\ Seen /\ Counters /\ Requests /\ Trackers /\ Frames /\ Codecs /\ Users

IInv == Typed /\ Tuned /\ Drained /\ Paced /\ Budgeted

LEMMA TypedIsTypeOK == Typed => TypeOK
  BY DEF Typed, TypeOK, Turn, Seen, Counters, Requests, Trackers, Frames, Codecs, Users

LEMMA NoShotSeen ==
  \A n \in Enc : /\ [deficit |-> NoShot[n].deficit, active |-> NoShot[n].active,
                     busy |-> NoShot[n].busy] \in Reading
                 /\ NoShot[n].threads \in Nat /\ NoShot[n].preset \in Presets
                 /\ NoShot[n].locked \in BOOLEAN
  BY Constants DEF NoShot, Reading

LEMMA InitTyped == Init => Typed
<1> SUFFICES ASSUME Init PROVE Typed
  OBVIOUS
<1> USE Constants
<1>1. Turn
  <2>1. Cardinality({}) = 0
    BY FS_EmptySet
  <2>2. half \subseteq Enc /\ Cardinality(half) <= 1
    BY <2>1 DEF Init
  <2> QED BY <2>2 DEF Init, Turn
<1>2. Seen
  BY NoShotSeen DEF Init, Seen
<1>3. Counters
  BY DEF Init, Counters
<1>4. Requests
  BY DEF Init, Requests
<1>5. Trackers
  BY RealTimeAssumption DEF Init, Trackers, Presets
<1>6. Frames
  BY DEF Init, Frames
<1>7. Codecs
  <2>1. \A n \in Enc : tracked[n] \in Presets /\ Start[n] \in Nat
    BY <1>5 DEF Trackers
  <2>2. codec \in [Enc -> Codec]
    BY <2>1 DEF Init, Codec
  <2>3. opts \in [Enc -> Codec]
    BY <2>1 DEF Init, Codec, AutoThreads
  <2>4. NoWant \in [threads : Nat, preset : Presets \cup {NoPreset}]
    BY DEF NoWant, AutoThreads
  <2> QED BY <2>2, <2>3, <2>4 DEF Codecs, Init
<1>8. Users
  BY DEF Init, Users
<1> QED BY <1>1, <1>2, <1>3, <1>4, <1>5, <1>6, <1>7, <1>8 DEF Typed

(* What a step of a preset does to the counters.                           *)
LEMMA StepType ==
  ASSUME Typed, NEW n \in Enc, NEW d \in {-1, 1}, StepPreset(n, d) \/ KeepPreset
  PROVE  /\ request' \in [Enc -> Presets \cup {NoPreset}]
         /\ sincePreset' \in [Enc -> 0..PresetWindows] /\ age' \in [Enc -> 0..PresetWindows]
<1>1. NextPreset(shot[n].preset, d) \in Presets
  BY NextPresetType DEF Typed, Seen
<1>2. /\ request \in [Enc -> Presets \cup {NoPreset}]
      /\ sincePreset \in [Enc -> 0..PresetWindows] /\ age \in [Enc -> 0..PresetWindows]
  BY DEF Typed, Counters, Requests
<1>3. PresetWindows \in Nat /\ PresetWindows > 0
  BY Constants
<1> QED BY <1>1, <1>2, <1>3 DEF StepPreset, KeepPreset

LEMMA TypeStep ==
  ASSUME Typed, Next
  PROVE  Typed'
<1> USE DEF ctrlVars, reqVars, trackVars, encVars, userVars
<1>1. ASSUME TakeSnapshot PROVE Typed'
  <2>1. Requests' /\ Trackers' /\ Frames' /\ Codecs' /\ Users'
    BY <1>1 DEF TakeSnapshot, Typed, Requests, Trackers, Frames, Codecs, Users
  <2>2. Turn'
    BY <1>1 DEF TakeSnapshot, Typed, Turn
  <2>3. Seen'
    <3>1. PICK r \in [Enc -> UNION {load[n] : n \in Enc}] :
            /\ \A n \in Enc : r[n] \in load[n]
            /\ shot' = [n \in Enc |->
               [deficit |-> r[n].deficit, active |-> r[n].active, busy |-> r[n].busy,
                threads |-> configured[n], preset |-> tracked[n], locked |-> locked[n]]]
      BY <1>1 DEF TakeSnapshot
    <3>2. \A n \in Enc : r[n] \in Reading
      BY <3>1, RealTimeAssumption DEF Typed, Turn
    <3> QED BY <3>1, <3>2 DEF Seen, Reading, Typed, Trackers, Users
  <2>4. Counters'
    BY <1>1, Constants DEF TakeSnapshot, Typed, Counters, Least
  <2> QED BY <2>1, <2>2, <2>3, <2>4 DEF Typed
<1>2. ASSUME NodesDone PROVE Typed'
  <2>1. Counters' /\ Requests' /\ Trackers' /\ Frames' /\ Codecs' /\ Users'
    BY <1>2 DEF NodesDone, Typed, Counters, Requests, Trackers, Frames, Codecs, Users
  <2>2. Turn'
    BY <1>2 DEF NodesDone, Typed, Turn, Eligible
  <2>3. Seen'
    BY <1>2, NoShotSeen DEF NodesDone, Typed, Seen
  <2> QED BY <2>1, <2>2, <2>3 DEF Typed
<1>3. ASSUME NEW n \in Enc, HasHeadroom(n) PROVE Typed'
  <2>1. Seen' /\ Trackers' /\ Frames' /\ Codecs' /\ Users'
    BY <1>3 DEF HasHeadroom, Visited, Typed, Seen, Trackers, Frames, Codecs, Users
  <2>2. Turn'
    BY <1>3 DEF HasHeadroom, Visited, Typed, Turn
  <2>3. Counters'
    BY <1>3, StepType, Constants DEF HasHeadroom, Visited, Typed, Counters
  <2>4. Requests'
    BY <1>3, StepType DEF HasHeadroom, Visited, Typed, Requests
  <2> QED BY <2>1, <2>2, <2>3, <2>4 DEF Typed
<1>4. ASSUME NEW n \in Enc, MeetsTarget(n) PROVE Typed'
  <2>1. Seen' /\ Requests' /\ Trackers' /\ Frames' /\ Codecs' /\ Users'
    BY <1>4 DEF MeetsTarget, Visited, KeepPreset, Typed, Seen, Requests, Trackers, Frames, Codecs, Users
  <2>2. Turn'
    BY <1>4 DEF MeetsTarget, Visited, KeepPreset, Typed, Turn
  <2>3. Counters'
    BY <1>4, Constants DEF MeetsTarget, Visited, KeepPreset, Typed, Counters
  <2> QED BY <2>1, <2>2, <2>3 DEF Typed
<1>5. ASSUME NEW n \in Enc, Waits(n) PROVE Typed'
  <2>1. Seen' /\ Requests' /\ Trackers' /\ Frames' /\ Codecs' /\ Users'
    BY <1>5 DEF Waits, MayDecide, Visited, KeepPreset, Typed, Seen, Requests, Trackers, Frames, Codecs, Users
  <2>2. Turn'
    BY <1>5 DEF Waits, MayDecide, Visited, KeepPreset, Typed, Turn
  <2>3. Counters'
    BY <1>5, Constants DEF Waits, MayDecide, Visited, KeepPreset, Typed, Counters, Least
  <2> QED BY <2>1, <2>2, <2>3 DEF Typed
<1>6. ASSUME NEW n \in Enc, AddThreads(n) PROVE Typed'
  <2>1. Seen' /\ Trackers' /\ Frames' /\ Codecs' /\ Users'
    BY <1>6 DEF AddThreads, MayDecide, Visited, KeepPreset, Typed, Seen, Trackers, Frames, Codecs, Users
  <2>2. Turn'
    <3>1. Cardinality({n}) = 1
      BY FS_Singleton
    <3> QED BY <1>6, <3>1 DEF AddThreads, MayDecide, Visited, Turn, Typed
  <2>3. Counters'
    BY <1>6, Constants DEF AddThreads, MayDecide, Visited, KeepPreset, Typed, Counters
  <2>4. Requests'
    <3>1. MoreThreads(n) \in Nat
      <4>1. shot[n].threads \in Nat
        BY DEF Typed, Seen
      <4> QED BY <4>1, Constants DEF MoreThreads
    <3>2. alloc' \in [Enc -> Nat]
      BY <1>6, <3>1 DEF AddThreads, Allocate, Requests, Typed
    <3>3. wanted' \in [Enc -> Nat]
      BY <1>6, <3>1 DEF AddThreads, Requests, Typed
    <3> QED BY <1>6, <3>2, <3>3 DEF AddThreads, KeepPreset, Requests, Typed
  <2> QED BY <2>1, <2>2, <2>3, <2>4 DEF Typed
<1>7. ASSUME NEW n \in Enc, RestartPending(n) PROVE Typed'
  <2>1. Seen' /\ Counters' /\ Trackers' /\ Frames' /\ Codecs' /\ Users'
    BY <1>7 DEF RestartPending, Typed, Seen, Counters, Trackers, Frames, Codecs, Users
  <2>2. Turn'
    BY <1>7, FS_EmptySet DEF RestartPending, Typed, Turn
  <2>3. Requests'
    BY <1>7 DEF RestartPending, Typed, Requests
  <2> QED BY <2>1, <2>2, <2>3 DEF Typed
<1>8. ASSUME NEW n \in Enc, StepFaster(n) PROVE Typed'
  <2>1. Seen' /\ Trackers' /\ Frames' /\ Codecs' /\ Users'
    BY <1>8 DEF StepFaster, MayDecide, Visited, Typed, Seen, Trackers, Frames, Codecs, Users
  <2>2. Turn'
    BY <1>8 DEF StepFaster, MayDecide, Visited, Typed, Turn
  <2>3. Counters'
    BY <1>8, StepType, Constants DEF StepFaster, MayDecide, Visited, Typed, Counters
  <2>4. Requests'
    BY <1>8, StepType DEF StepFaster, MayDecide, Visited, Typed, Requests
  <2> QED BY <2>1, <2>2, <2>3, <2>4 DEF Typed
<1>9. ASSUME NEW n \in Enc, GroupVisit(n) PROVE Typed'
  <2>1. Trackers' /\ Frames' /\ Codecs' /\ Users'
    BY <1>9 DEF GroupVisit, Typed, Trackers, Frames, Codecs, Users
  <2>2. Turn'
    BY <1>9 DEF GroupVisit, Typed, Turn
  <2>3. Seen'
    BY <1>9, NoShotSeen DEF GroupVisit, Typed, Seen
  <2>4. Counters'
    BY <1>9, StepType, Constants DEF GroupVisit, Typed, Counters
  <2>5. Requests'
    BY <1>9, StepType DEF GroupVisit, Typed, Requests
  <2> QED BY <2>1, <2>2, <2>3, <2>4, <2>5 DEF Typed
<1>10. ASSUME RequestOverride PROVE Typed'
  <2>1. Turn' /\ Seen' /\ Counters' /\ Trackers' /\ Frames' /\ Codecs'
    BY <1>10 DEF RequestOverride, Typed, Turn, Seen, Counters, Trackers, Frames, Codecs
  <2>2. Requests' /\ Users'
    <3>1. user \in (Enc \ Hw) \X (1..Top)
      BY <1>10 DEF RequestOverride, Typed, Users
    <3>2. user[1] \in Enc /\ user[2] \in Presets
      BY <3>1, Constants DEF Presets
    <3> QED BY <1>10, <3>2 DEF RequestOverride, Requests, Users, Typed
  <2> QED BY <2>1, <2>2 DEF Typed
<1>11. ASSUME Cancel PROVE Typed'
  <2>1. Seen' /\ Counters' /\ Requests' /\ Trackers' /\ Frames' /\ Codecs' /\ Users'
    BY <1>11 DEF Cancel, Typed, Seen, Counters, Requests, Trackers, Frames, Codecs, Users
  <2>2. Turn'
    BY <1>11 DEF Cancel, Typed, Turn
  <2> QED BY <2>1, <2>2 DEF Typed
<1>12. ASSUME NEW n \in Enc, PopRestart(n) PROVE Typed'
  <2>1. Turn' /\ Seen' /\ Counters' /\ Trackers' /\ Codecs' /\ Users'
    BY <1>12 DEF PopRestart, Typed, Turn, Seen, Counters, Trackers, Codecs, Users
  <2>2. Requests'
    BY <1>12 DEF PopRestart, Typed, Requests
  <2>3. Frames'
    BY <1>12, Constants DEF PopRestart, Typed, Frames, Goes
  <2> QED BY <2>1, <2>2, <2>3 DEF Typed
<1>13. ASSUME NEW n \in Enc, PopPreset(n) PROVE Typed'
  <2>1. Turn' /\ Seen' /\ Counters' /\ Users'
    BY <1>13 DEF PopPreset, Typed, Turn, Seen, Counters, Users
  <2>2. Requests'
    BY <1>13 DEF PopPreset, Typed, Requests
  <2>3. Trackers' /\ Codecs'
    <3>1. CASE request[n] = NoPreset
      BY <1>13, <3>1 DEF PopPreset, Trackers, Codecs, Typed
    <3>2. CASE request[n] # NoPreset /\ n \in Hot
      <4>1. request[n] \in Presets
        BY <3>2 DEF Typed, Requests
      <4>2. [codec[n] EXCEPT !.preset = request[n]] \in Codec
            /\ [opts[n] EXCEPT !.preset = request[n]] \in Codec
        BY <4>1 DEF Codec, Typed, Codecs
      <4> QED BY <1>13, <3>2, <4>1, <4>2 DEF PopPreset, Trackers, Codecs, Typed
    <3>3. CASE request[n] # NoPreset /\ n \notin Hot
      <4>1. [threads |-> opts[n].threads, preset |-> request[n]]
              \in [threads : Nat, preset : Presets \cup {NoPreset}]
        BY DEF Codec, Typed, Codecs, Requests
      <4> QED BY <1>13, <3>3, <4>1 DEF PopPreset, Trackers, Codecs, Typed
    <3> QED BY <3>1, <3>2, <3>3
  <2>4. Frames'
    BY <1>13, Constants DEF PopPreset, Typed, Frames, Goes
  <2> QED BY <2>1, <2>2, <2>3, <2>4 DEF Typed
<1>14. ASSUME NEW n \in Enc, Flush(n) PROVE Typed'
  <2>1. Turn' /\ Seen' /\ Counters' /\ Requests' /\ Trackers' /\ Codecs' /\ Users'
    BY <1>14 DEF Flush, Typed, Turn, Seen, Counters, Requests, Trackers, Codecs, Users
  <2>2. Frames'
    BY <1>14, Constants DEF Flush, Typed, Frames, Goes
  <2> QED BY <2>1, <2>2 DEF Typed
<1>15. ASSUME NEW n \in Enc, Reopen(n) PROVE Typed'
  <2>1. Seen' /\ Counters' /\ Requests' /\ Trackers' /\ Users'
    BY <1>15 DEF Reopen, Typed, Seen, Counters, Requests, Trackers, Users
  <2>2. Turn'
    BY <1>15 DEF Reopen, Typed, Turn
  <2>3. Frames'
    BY <1>15, Constants DEF Reopen, Typed, Frames, Goes
  <2>4. Codecs'
    <3>1. Wanted(n) \in Codec
      BY DEF Wanted, Codec, Typed, Codecs
    <3>2. Threads(n, want[n].threads) \in Nat
      BY Constants DEF Threads, Typed, Codecs
    <3>3. [threads |-> Threads(n, want[n].threads), preset |-> Wanted(n).preset] \in Codec
      BY <3>1, <3>2 DEF Codec
    <3> QED BY <1>15, <3>1, <3>3 DEF Reopen, NewOpts, Codecs, Typed
  <2> QED BY <2>1, <2>2, <2>3, <2>4 DEF Typed
<1>16. ASSUME NEW n \in Enc, Register(n) PROVE Typed'
  <2>1. Turn' /\ Seen' /\ Counters' /\ Requests' /\ Trackers' /\ Codecs' /\ Users'
    BY <1>16 DEF Register, Typed, Turn, Seen, Counters, Requests, Trackers, Codecs, Users
  <2>2. Frames'
    BY <1>16, Constants DEF Register, Typed, Frames, Goes
  <2> QED BY <2>1, <2>2 DEF Typed
<1>17. ASSUME NEW n \in Enc, RecordRestart(n) PROVE Typed'
  <2>1. Turn' /\ Seen' /\ Counters' /\ Requests' /\ Users'
    BY <1>17 DEF RecordRestart, Typed, Turn, Seen, Counters, Requests, Users
  <2>2. Trackers'
    BY <1>17 DEF RecordRestart, Trackers, Codecs, Codec, Typed
  <2>3. Frames'
    BY <1>17, Constants DEF RecordRestart, Typed, Frames, Goes
  <2>4. Codecs'
    <3>1. NoWant \in [threads : Nat, preset : Presets \cup {NoPreset}]
      BY DEF NoWant, AutoThreads
    <3> QED BY <1>17, <3>1 DEF RecordRestart, Codecs, Typed
  <2> QED BY <2>1, <2>2, <2>3, <2>4 DEF Typed
<1>18. ASSUME NEW n \in Enc, SendOne(n) PROVE Typed'
  <2>1. Turn' /\ Seen' /\ Counters' /\ Requests' /\ Trackers' /\ Codecs' /\ Users'
    BY <1>18 DEF SendOne, Typed, Turn, Seen, Counters, Requests, Trackers, Codecs, Users
  <2>2. Frames'
    BY <1>18, Constants DEF SendOne, Typed, Frames, Goes, Least
  <2> QED BY <2>1, <2>2 DEF Typed
<1>19. ASSUME NEW n \in Enc, EncoderEnds(n) PROVE Typed'
  <2>1. Turn' /\ Seen' /\ Counters' /\ Requests' /\ Trackers' /\ Codecs' /\ Users'
    BY <1>19 DEF EncoderEnds, Typed, Turn, Seen, Counters, Requests, Trackers, Codecs, Users
  <2>2. Frames'
    BY <1>19, Constants DEF EncoderEnds, Typed, Frames, Goes
  <2> QED BY <2>1, <2>2 DEF Typed
<1>20. ASSUME NEW n \in Enc, ClearPresetOverride(n) PROVE Typed'
  <2>1. Turn' /\ Seen' /\ Counters' /\ Requests' /\ Trackers' /\ Frames' /\ Codecs'
    BY <1>20 DEF ClearPresetOverride, Typed, Turn, Seen, Counters, Requests, Trackers, Frames, Codecs
  <2>2. Users'
    BY <1>20 DEF ClearPresetOverride, Typed, Users
  <2> QED BY <2>1, <2>2 DEF Typed
<1>21. ASSUME NEW n \in Enc, NEW p \in Asked, LockPreset(n, p) PROVE Typed'
  <2>1. Turn' /\ Seen' /\ Counters' /\ Requests' /\ Trackers' /\ Frames' /\ Codecs'
    BY <1>21 DEF LockPreset, Typed, Turn, Seen, Counters, Requests, Trackers, Frames, Codecs
  <2>2. Users'
    <3>1. user' \in (Enc \ Hw) \X (1..Top)
      BY <1>21, Constants DEF LockPreset
    <3> QED BY <1>21, <3>1, Constants DEF LockPreset, Users, Typed
  <2> QED BY <2>1, <2>2 DEF Typed
<1>22. ASSUME NEW n \in Enc, LoadThreads(n) PROVE Typed'
  <2>1. Turn' /\ Seen' /\ Counters' /\ Trackers' /\ Users'
    BY <1>22 DEF LoadThreads, Typed, Turn, Seen, Counters, Trackers, Users
  <2>2. Requests'
    BY <1>22 DEF LoadThreads, Typed, Requests
  <2>3. Frames'
    BY <1>22, Constants DEF LoadThreads, Typed, Frames, Goes
  <2>4. Codecs'
    <3>1. [threads |-> wanted[n], preset |-> NoPreset]
            \in [threads : Nat, preset : Presets \cup {NoPreset}]
      BY DEF Typed, Requests
    <3> QED BY <1>22, <3>1 DEF LoadThreads, Codecs, Typed
  <2> QED BY <2>1, <2>2, <2>3, <2>4 DEF Typed
<1> QED
  BY <1>1, <1>2, <1>3, <1>4, <1>5, <1>6, <1>7, <1>8, <1>9, <1>10, <1>11,
     <1>12, <1>13, <1>14, <1>15, <1>16, <1>17, <1>18, <1>19, <1>20, <1>21, <1>22 DEF Next, Observe, EncoderStep

(***************************************************************************)
(* What is open, the tracker and the options.                              *)
(***************************************************************************)
LEMMA TunedStep ==
  ASSUME IInv, Next
  PROVE  Tuned'
<1> USE DEF ctrlVars, reqVars, trackVars, encVars, userVars
<1>a. /\ \A n \in Enc : codec[n] \in Codec /\ opts[n] \in Codec
      /\ codec \in [Enc -> Codec] /\ opts \in [Enc -> Codec]
      /\ want \in [Enc -> [threads : Nat, preset : Presets \cup {NoPreset}]]
      /\ \A n \in Enc : place[n] \in {"recv", "load", "preset", "flush", "open", "register", "record",
                                      "send", "done", "failed"}
      /\ DOMAIN place = Enc
      /\ configured \in [Enc -> Nat] /\ tracked \in [Enc -> Presets]
  BY DEF IInv, Typed, Codecs, Frames, Trackers
<1>b. Tuned
  BY DEF IInv
<1>1. ASSUME TakeSnapshot PROVE Tuned'
  BY <1>1, <1>a, <1>b DEF TakeSnapshot, Tuned, Recorded, Reopens
<1>2. ASSUME NodesDone PROVE Tuned'
  BY <1>2, <1>a, <1>b DEF NodesDone, Tuned, Recorded, Reopens
<1>3. ASSUME NEW n \in Enc, HasHeadroom(n) PROVE Tuned'
  BY <1>3, <1>a, <1>b DEF HasHeadroom, Visited, Tuned, Recorded, Reopens
<1>4. ASSUME NEW n \in Enc, MeetsTarget(n) PROVE Tuned'
  BY <1>4, <1>a, <1>b DEF MeetsTarget, Visited, Tuned, Recorded, Reopens
<1>5. ASSUME NEW n \in Enc, Waits(n) PROVE Tuned'
  BY <1>5, <1>a, <1>b DEF Waits, MayDecide, Visited, Tuned, Recorded, Reopens
<1>6. ASSUME NEW n \in Enc, AddThreads(n) PROVE Tuned'
  BY <1>6, <1>a, <1>b DEF AddThreads, MayDecide, Visited, Tuned, Recorded, Reopens
<1>7. ASSUME NEW n \in Enc, RestartPending(n) PROVE Tuned'
  BY <1>7, <1>a, <1>b DEF RestartPending, Tuned, Recorded, Reopens
<1>8. ASSUME NEW n \in Enc, StepFaster(n) PROVE Tuned'
  BY <1>8, <1>a, <1>b DEF StepFaster, MayDecide, Visited, Tuned, Recorded, Reopens
<1>9. ASSUME NEW n \in Enc, GroupVisit(n) PROVE Tuned'
  BY <1>9, <1>a, <1>b DEF GroupVisit, Tuned, Recorded, Reopens
<1>10. ASSUME RequestOverride PROVE Tuned'
  BY <1>10, <1>a, <1>b DEF RequestOverride, Tuned, Recorded, Reopens
<1>11. ASSUME Cancel PROVE Tuned'
  BY <1>11, <1>a, <1>b DEF Cancel, Tuned, Recorded, Reopens
<1>12. ASSUME NEW n \in Enc, PopRestart(n) PROVE Tuned'
  BY <1>12, <1>a, <1>b DEF PopRestart, Tuned, Recorded, Reopens, Goes
<1>13. ASSUME NEW n \in Enc, PopPreset(n) PROVE Tuned'
  <2>1. CASE request[n] = NoPreset
    BY <1>13, <2>1, <1>a, <1>b DEF PopPreset, Goes, Tuned, Recorded, Reopens
  <2>2. CASE request[n] # NoPreset /\ n \in Hot
    <3>1. /\ place[n] = "preset" /\ place' = [place EXCEPT ![n] = "send"]
          /\ codec' = [codec EXCEPT ![n].preset = request[n]]
          /\ opts' = [opts EXCEPT ![n].preset = request[n]]
          /\ tracked' = [tracked EXCEPT ![n] = request[n]]
          /\ UNCHANGED <<configured, want>>
      BY <1>13, <2>2 DEF PopPreset, Goes
    <3>2. Recorded(n) /\ Reopens(n)
      BY <3>1, <1>b DEF Tuned
    <3>3. /\ codec'[n] = [codec[n] EXCEPT !.preset = request[n]]
          /\ opts'[n] = [opts[n] EXCEPT !.preset = request[n]]
          /\ tracked'[n] = request[n]
      BY <3>1, <1>a
    <3>4. Recorded(n)' /\ Reopens(n)'
      BY <3>1, <3>2, <3>3, <1>a DEF Recorded, Reopens, Codec
    <3>5. \A m \in Enc \ {n} : /\ place'[m] = place[m] /\ codec'[m] = codec[m] /\ opts'[m] = opts[m]
                               /\ tracked'[m] = tracked[m]
      BY <3>1, <1>a
    <3>6. place'[n] = "send"
      BY <3>1, <1>a
    <3> QED BY <3>1, <3>4, <3>5, <3>6, <1>b DEF Tuned, Recorded, Reopens
  <2>3. CASE request[n] # NoPreset /\ n \notin Hot
    BY <1>13, <2>3, <1>a, <1>b DEF PopPreset, Goes, Tuned, Recorded, Reopens
  <2> QED BY <2>1, <2>2, <2>3
<1>14. ASSUME NEW n \in Enc, Flush(n) PROVE Tuned'
  BY <1>14, <1>a, <1>b DEF Flush, Tuned, Recorded, Reopens, Goes
<1>15. ASSUME NEW n \in Enc, Reopen(n) PROVE Tuned'
  <2>1. CASE place' = [place EXCEPT ![n] = "failed"]
    BY <1>15, <2>1, <1>a, <1>b DEF Reopen, Goes, Tuned, Recorded, Reopens
  <2>2. CASE place' = [place EXCEPT ![n] = "register"]
    <3>1. /\ place[n] = "open" /\ UNCHANGED <<configured, tracked, want>>
          /\ opts' = [opts EXCEPT ![n] = Wanted(n)]
          /\ codec' = [codec EXCEPT ![n] = [threads |-> Threads(n, want[n].threads),
                                            preset |-> Wanted(n).preset]]
      BY <1>15, <2>2, <1>a DEF Reopen, NewOpts, Goes
    <3>2. Recorded(n) /\ Reopens(n)
      BY <3>1, <1>b DEF Tuned
    <3>3. /\ opts'[n] = Wanted(n)
          /\ codec'[n] = [threads |-> Threads(n, want[n].threads), preset |-> Wanted(n).preset]
          /\ place'[n] = "register"
      BY <2>2, <3>1, <1>a
    <3>4. /\ Wanted(n).threads = want[n].threads
          /\ Wanted(n).preset = IF want[n].preset = NoPreset THEN opts[n].preset ELSE want[n].preset
      BY DEF Wanted
    <3>5. opts[n].preset = tracked[n]
      <4>1. codec[n].preset = tracked[n] /\ codec[n].preset = opts[n].preset
        BY <3>2 DEF Recorded, Reopens
      <4> QED BY <4>1
    <3>6. /\ Reopens(n)'
          /\ codec'[n].preset = IF want[n].preset = NoPreset THEN tracked[n] ELSE want[n].preset
      BY <3>3, <3>4, <3>5 DEF Reopens
    <3>7. \A m \in Enc \ {n} : place'[m] = place[m] /\ codec'[m] = codec[m] /\ opts'[m] = opts[m]
      BY <2>2, <3>1, <1>a
    <3> QED BY <3>1, <3>3, <3>6, <3>7, <1>b DEF Tuned, Recorded, Reopens
  <2> QED BY <1>15, <2>1, <2>2 DEF Reopen, Goes
<1>16. ASSUME NEW n \in Enc, Register(n) PROVE Tuned'
  BY <1>16, <1>a, <1>b DEF Register, Tuned, Recorded, Reopens, Goes
<1>17. ASSUME NEW n \in Enc, RecordRestart(n) PROVE Tuned'
  <2>1. /\ place[n] = "record" /\ want' = [want EXCEPT ![n] = NoWant]
        /\ configured' = [configured EXCEPT ![n] = codec[n].threads]
        /\ UNCHANGED <<codec, opts>>
    BY <1>17 DEF RecordRestart
  <2>2. /\ Reopens(n)
        /\ codec[n].preset = IF want[n].preset = NoPreset THEN tracked[n] ELSE want[n].preset
    BY <2>1, <1>b DEF Tuned
  <2>3. /\ tracked' \in [Enc -> Presets] /\ tracked'[n] = codec[n].preset
        /\ configured'[n] = codec[n].threads /\ place'[n] \in {"preset", "send"}
    BY <1>17, <2>1, <2>2, <1>a, TypeStep DEF RecordRestart, Goes, IInv, Typed, Trackers
  <2>4. codec[n] = [threads |-> codec[n].threads, preset |-> codec[n].preset]
    BY <1>a DEF Codec
  <2>5. Recorded(n)' /\ Reopens(n)'
    BY <2>1, <2>2, <2>3, <2>4 DEF Recorded, Reopens
  <2>6. \A m \in Enc \ {n} : /\ place'[m] = place[m] /\ want'[m] = want[m]
                             /\ configured'[m] = configured[m] /\ tracked'[m] = tracked[m]
    BY <1>17, <2>1, <1>a DEF RecordRestart, Goes
  <2> QED BY <2>1, <2>3, <2>5, <2>6, <1>b DEF Tuned, Recorded, Reopens
<1>18. ASSUME NEW n \in Enc, SendOne(n) PROVE Tuned'
  BY <1>18, <1>a, <1>b DEF SendOne, Tuned, Recorded, Reopens, Goes
<1>19. ASSUME NEW n \in Enc, EncoderEnds(n) PROVE Tuned'
  BY <1>19, <1>a, <1>b DEF EncoderEnds, Tuned, Recorded, Reopens, Goes
<1>20. ASSUME NEW n \in Enc, ClearPresetOverride(n) PROVE Tuned'
  BY <1>20, <1>a, <1>b DEF ClearPresetOverride, Tuned, Recorded, Reopens
<1>21. ASSUME NEW n \in Enc, NEW p \in Asked, LockPreset(n, p) PROVE Tuned'
  BY <1>21, <1>a, <1>b DEF LockPreset, Tuned, Recorded, Reopens
<1>22. ASSUME NEW n \in Enc, LoadThreads(n) PROVE Tuned'
  BY <1>22, <1>a, <1>b DEF LoadThreads, Tuned, Recorded, Reopens, Goes
<1> QED
  BY <1>1, <1>2, <1>3, <1>4, <1>5, <1>6, <1>7, <1>8, <1>9, <1>10, <1>11,
     <1>12, <1>13, <1>14, <1>15, <1>16, <1>17, <1>18, <1>19, <1>20, <1>21, <1>22 DEF Next, Observe, EncoderStep

(***************************************************************************)
(* A codec that is closed has given all of its frames.                     *)
(***************************************************************************)
LEMMA DrainedStep ==
  ASSUME IInv, Next
  PROVE  Drained'
<1> USE DEF ctrlVars, reqVars, trackVars, encVars, userVars
<1>a. /\ DOMAIN place = Enc /\ held \in [Enc -> 0..Delay] /\ lost \in [Enc -> BOOLEAN]
  BY DEF IInv, Typed, Frames
<1>b. Drained
  BY DEF IInv
<1>1. ASSUME TakeSnapshot PROVE Drained'
  BY <1>1, <1>a, <1>b DEF TakeSnapshot, Drained
<1>2. ASSUME NodesDone PROVE Drained'
  BY <1>2, <1>a, <1>b DEF NodesDone, Drained
<1>3. ASSUME NEW n \in Enc, HasHeadroom(n) PROVE Drained'
  BY <1>3, <1>a, <1>b DEF HasHeadroom, Visited, Drained
<1>4. ASSUME NEW n \in Enc, MeetsTarget(n) PROVE Drained'
  BY <1>4, <1>a, <1>b DEF MeetsTarget, Visited, Drained
<1>5. ASSUME NEW n \in Enc, Waits(n) PROVE Drained'
  BY <1>5, <1>a, <1>b DEF Waits, MayDecide, Visited, Drained
<1>6. ASSUME NEW n \in Enc, AddThreads(n) PROVE Drained'
  BY <1>6, <1>a, <1>b DEF AddThreads, MayDecide, Visited, Drained
<1>7. ASSUME NEW n \in Enc, RestartPending(n) PROVE Drained'
  BY <1>7, <1>a, <1>b DEF RestartPending, Drained
<1>8. ASSUME NEW n \in Enc, StepFaster(n) PROVE Drained'
  BY <1>8, <1>a, <1>b DEF StepFaster, MayDecide, Visited, Drained
<1>9. ASSUME NEW n \in Enc, GroupVisit(n) PROVE Drained'
  BY <1>9, <1>a, <1>b DEF GroupVisit, Drained
<1>10. ASSUME RequestOverride PROVE Drained'
  BY <1>10, <1>a, <1>b DEF RequestOverride, Drained
<1>11. ASSUME Cancel PROVE Drained'
  BY <1>11, <1>a, <1>b DEF Cancel, Drained
<1>12. ASSUME NEW n \in Enc, PopRestart(n) PROVE Drained'
  BY <1>12, <1>a, <1>b DEF PopRestart, Drained, Goes
<1>13. ASSUME NEW n \in Enc, PopPreset(n) PROVE Drained'
  BY <1>13, <1>a, <1>b DEF PopPreset, Drained, Goes
<1>14. ASSUME NEW n \in Enc, Flush(n) PROVE Drained'
  BY <1>14, <1>a, <1>b DEF Flush, Drained, Goes
<1>15. ASSUME NEW n \in Enc, Reopen(n) PROVE Drained'
  BY <1>15, <1>a, <1>b DEF Reopen, Drained, Goes
<1>16. ASSUME NEW n \in Enc, Register(n) PROVE Drained'
  BY <1>16, <1>a, <1>b DEF Register, Drained, Goes
<1>17. ASSUME NEW n \in Enc, RecordRestart(n) PROVE Drained'
  BY <1>17, <1>a, <1>b DEF RecordRestart, Drained, Goes
<1>18. ASSUME NEW n \in Enc, SendOne(n) PROVE Drained'
  BY <1>18, <1>a, <1>b DEF SendOne, Drained, Goes
<1>19. ASSUME NEW n \in Enc, EncoderEnds(n) PROVE Drained'
  BY <1>19, <1>a, <1>b DEF EncoderEnds, Drained, Goes
<1>20. ASSUME NEW n \in Enc, ClearPresetOverride(n) PROVE Drained'
  BY <1>20, <1>a, <1>b DEF ClearPresetOverride, Drained
<1>21. ASSUME NEW n \in Enc, NEW p \in Asked, LockPreset(n, p) PROVE Drained'
  BY <1>21, <1>a, <1>b DEF LockPreset, Drained
<1>22. ASSUME NEW n \in Enc, LoadThreads(n) PROVE Drained'
  BY <1>22, <1>a, <1>b DEF LoadThreads, Drained, Goes
<1> QED
  BY <1>1, <1>2, <1>3, <1>4, <1>5, <1>6, <1>7, <1>8, <1>9, <1>10, <1>11,
     <1>12, <1>13, <1>14, <1>15, <1>16, <1>17, <1>18, <1>19, <1>20, <1>21, <1>22 DEF Next, Observe, EncoderStep

(***************************************************************************)
(* The cool-down of a preset.                                              *)
(***************************************************************************)
LEMMA PacedStep ==
  ASSUME IInv, Next
  PROVE  Paced'
<1> USE DEF ctrlVars, reqVars, trackVars, encVars, userVars
<1>a. /\ sincePreset \in [Enc -> 0..PresetWindows] /\ age \in [Enc -> 0..PresetWindows]
      /\ PresetWindows \in Nat /\ PresetWindows > 0
  BY Constants DEF IInv, Typed, Counters
<1>b. Paced
  BY DEF IInv
<1>c. ASSUME NEW n \in Enc, NEW d, StepPreset(n, d) PROVE Paced'
  BY <1>c, <1>a, <1>b DEF StepPreset, Paced
<1>d. ASSUME UNCHANGED <<sincePreset, age>> PROVE Paced'
  BY <1>d, <1>b DEF Paced
<1>1. ASSUME TakeSnapshot PROVE Paced'
  <2>1. /\ sincePreset' = [n \in Enc |-> IF sincePreset[n] = 0 THEN 0
                                        ELSE Least(sincePreset[n] + 1, PresetWindows)]
        /\ age' = [n \in Enc |-> Least(age[n] + 1, PresetWindows)]
    BY <1>1 DEF TakeSnapshot
  <2> QED BY <2>1, <1>a, <1>b DEF Paced, Least
<1>2. ASSUME NodesDone PROVE Paced'
  BY <1>2, <1>d DEF NodesDone
<1>3. ASSUME NEW n \in Enc, HasHeadroom(n) PROVE Paced'
  BY <1>3, <1>c, <1>d DEF HasHeadroom, KeepPreset
<1>4. ASSUME NEW n \in Enc, MeetsTarget(n) PROVE Paced'
  BY <1>4, <1>d DEF MeetsTarget, KeepPreset
<1>5. ASSUME NEW n \in Enc, Waits(n) PROVE Paced'
  BY <1>5, <1>d DEF Waits, KeepPreset
<1>6. ASSUME NEW n \in Enc, AddThreads(n) PROVE Paced'
  BY <1>6, <1>d DEF AddThreads, KeepPreset
<1>7. ASSUME NEW n \in Enc, RestartPending(n) PROVE Paced'
  BY <1>7, <1>d DEF RestartPending
<1>8. ASSUME NEW n \in Enc, StepFaster(n) PROVE Paced'
  BY <1>8, <1>c, <1>d DEF StepFaster, KeepPreset
<1>9. ASSUME NEW n \in Enc, GroupVisit(n) PROVE Paced'
  BY <1>9, <1>c, <1>d DEF GroupVisit, KeepPreset
<1>10. ASSUME RequestOverride PROVE Paced'
  BY <1>10, <1>d DEF RequestOverride
<1>11. ASSUME Cancel PROVE Paced'
  BY <1>11, <1>d DEF Cancel
<1>12. ASSUME NEW n \in Enc, PopRestart(n) PROVE Paced'
  BY <1>12, <1>d DEF PopRestart
<1>13. ASSUME NEW n \in Enc, PopPreset(n) PROVE Paced'
  BY <1>13, <1>d DEF PopPreset
<1>14. ASSUME NEW n \in Enc, Flush(n) PROVE Paced'
  BY <1>14, <1>d DEF Flush
<1>15. ASSUME NEW n \in Enc, Reopen(n) PROVE Paced'
  BY <1>15, <1>d DEF Reopen
<1>16. ASSUME NEW n \in Enc, Register(n) PROVE Paced'
  BY <1>16, <1>d DEF Register
<1>17. ASSUME NEW n \in Enc, RecordRestart(n) PROVE Paced'
  BY <1>17, <1>d DEF RecordRestart
<1>18. ASSUME NEW n \in Enc, SendOne(n) PROVE Paced'
  BY <1>18, <1>d DEF SendOne
<1>19. ASSUME NEW n \in Enc, EncoderEnds(n) PROVE Paced'
  BY <1>19, <1>d DEF EncoderEnds
<1>20. ASSUME NEW n \in Enc, ClearPresetOverride(n) PROVE Paced'
  BY <1>20, <1>d DEF ClearPresetOverride
<1>21. ASSUME NEW n \in Enc, NEW p \in Asked, LockPreset(n, p) PROVE Paced'
  BY <1>21, <1>d DEF LockPreset
<1>22. ASSUME NEW n \in Enc, LoadThreads(n) PROVE Paced'
  BY <1>22, <1>d DEF LoadThreads
<1> QED
  BY <1>1, <1>2, <1>3, <1>4, <1>5, <1>6, <1>7, <1>8, <1>9, <1>10, <1>11,
     <1>12, <1>13, <1>14, <1>15, <1>16, <1>17, <1>18, <1>19, <1>20, <1>21, <1>22 DEF Next, Observe, EncoderStep

(***************************************************************************)
(* The share of each encoder.                                              *)
(***************************************************************************)
LEMMA ShareStep ==
  ASSUME IInv, Next, NEW m \in Cpu
  PROVE  Share(m)'
<1> USE DEF ctrlVars, reqVars, trackVars, encVars, userVars
<1>a. /\ m \in Enc /\ m \notin Hw /\ Start[m] \in Nat /\ Start[m] > 0
      /\ ThreadStep \in Nat /\ ThreadStep > 0
  BY Constants DEF Cpu
<1>b. /\ DOMAIN place = Enc /\ DOMAIN configured = Enc /\ DOMAIN alloc = Enc /\ DOMAIN pending = Enc
      /\ DOMAIN wanted = Enc /\ DOMAIN codec = Enc /\ DOMAIN want = Enc
  BY DEF IInv, Typed, Frames, Trackers, Requests, Codecs
<1>c. /\ configured[m] \in Nat /\ alloc[m] \in Nat /\ codec[m].threads \in Nat
      /\ want[m].threads \in Nat /\ shot[m].threads \in Nat /\ opts[m].threads \in Nat
      /\ wanted[m] \in Nat
  BY <1>a DEF IInv, Typed, Trackers, Requests, Codecs, Codec, Seen
<1>d. Share(m)
  BY DEF IInv, Budgeted
<1>1. ASSUME TakeSnapshot PROVE Share(m)'
  <2>1. shot'[m].threads = configured[m]
    <3>1. PICK r \in [Enc -> UNION {load[n] : n \in Enc}] :
            shot' = [n \in Enc |->
               [deficit |-> r[n].deficit, active |-> r[n].active, busy |-> r[n].busy,
                threads |-> configured[n], preset |-> tracked[n], locked |-> locked[n]]]
      BY <1>1 DEF TakeSnapshot
    <3> QED BY <3>1, <1>a
  <2> QED BY <1>1, <2>1, <1>c, <1>d DEF TakeSnapshot, Share
<1>2. ASSUME NodesDone PROVE Share(m)'
  BY <1>2, <1>a, <1>b, <1>c, <1>d DEF NodesDone, Share, Threads
<1>3. ASSUME NEW n \in Enc, HasHeadroom(n) PROVE Share(m)'
  BY <1>3, <1>a, <1>b, <1>c, <1>d DEF HasHeadroom, Visited, Share, Threads
<1>4. ASSUME NEW n \in Enc, MeetsTarget(n) PROVE Share(m)'
  BY <1>4, <1>a, <1>b, <1>c, <1>d DEF MeetsTarget, Visited, Share, Threads
<1>5. ASSUME NEW n \in Enc, Waits(n) PROVE Share(m)'
  BY <1>5, <1>a, <1>b, <1>c, <1>d DEF Waits, MayDecide, Visited, Share, Threads
<1>6. ASSUME NEW n \in Enc, AddThreads(n) PROVE Share(m)'
  <2>1. /\ half = {} /\ n \in todo /\ todo' = todo \ {n} /\ pc = "nodes"
        /\ alloc' = [alloc EXCEPT ![n] = IF n \in Hw THEN alloc[n] ELSE MoreThreads(n)]
        /\ wanted' = [wanted EXCEPT ![n] = MoreThreads(n)] /\ half' = {n}
        /\ UNCHANGED <<shot, pending, place, configured, codec, want>> /\ pc' = "nodes"
    <3>1. /\ half = {} /\ n \in todo /\ todo' = todo \ {n} /\ pc = "nodes" /\ pc' = "nodes"
          /\ UNCHANGED <<shot, place, configured, codec, want>>
      BY <1>6 DEF AddThreads, MayDecide, Visited
    <3>2. /\ wanted' = [wanted EXCEPT ![n] = MoreThreads(n)] /\ half' = {n}
          /\ UNCHANGED pending /\ Allocate(n)
      BY <1>6 DEF AddThreads
    <3>3. alloc' = [alloc EXCEPT ![n] = IF n \in Hw THEN alloc[n] ELSE MoreThreads(n)]
      BY <3>2, <1>b DEF Allocate
    <3> QED BY <3>1, <3>2, <3>3
  <2>2. CASE m = n
    <3>1. /\ alloc'[m] = shot[m].threads + ThreadStep /\ wanted'[m] = alloc'[m] /\ m \notin todo'
      BY <2>1, <2>2, <1>a, <1>b DEF MoreThreads
    <3> QED BY <2>1, <2>2, <3>1, <1>a, <1>c, <1>d DEF Share, Threads
  <2>3. CASE m # n
    BY <2>1, <2>3, <1>a, <1>b, <1>d DEF Share
  <2> QED BY <2>2, <2>3
<1>7. ASSUME NEW n \in Enc, RestartPending(n) PROVE Share(m)'
  BY <1>7, <1>a, <1>b, <1>c, <1>d DEF RestartPending, Share, Threads
<1>8. ASSUME NEW n \in Enc, StepFaster(n) PROVE Share(m)'
  BY <1>8, <1>a, <1>b, <1>c, <1>d DEF StepFaster, MayDecide, Visited, Share, Threads
<1>9. ASSUME NEW n \in Enc, GroupVisit(n) PROVE Share(m)'
  BY <1>9, <1>a, <1>b, <1>c, <1>d DEF GroupVisit, Share, Threads
<1>10. ASSUME RequestOverride PROVE Share(m)'
  BY <1>10, <1>a, <1>b, <1>c, <1>d DEF RequestOverride, Share, Threads
<1>11. ASSUME Cancel PROVE Share(m)'
  BY <1>11, <1>a, <1>b, <1>c, <1>d DEF Cancel, Share, Threads
<1>12. ASSUME NEW n \in Enc, PopRestart(n) PROVE Share(m)'
  <2>1. /\ UNCHANGED <<configured, alloc, codec, pc, shot, todo, half, wanted, want>>
        /\ pending' = [pending EXCEPT ![n] = FALSE] /\ place[n] = "recv"
        /\ place' = [place EXCEPT ![n] = IF pending[n] THEN "load" ELSE "preset"]
    BY <1>12 DEF PopRestart, Goes
  <2>2. CASE m = n
    <3>1. /\ place'[m] \in {"load", "preset"} /\ pending'[m] = FALSE
          /\ place'[m] = "load" => pending[m]
      BY <2>1, <2>2, <1>a, <1>b
    <3> QED BY <2>1, <3>1, <1>d DEF Share
  <2>3. CASE m # n
    <3>1. place'[m] = place[m] /\ pending'[m] = pending[m]
      BY <2>1, <2>3, <1>a, <1>b
    <3> QED BY <2>1, <3>1, <1>d DEF Share
  <2> QED BY <2>2, <2>3
<1>13. ASSUME NEW n \in Enc, PopPreset(n) PROVE Share(m)'
  <2>1. codec'[m].threads = codec[m].threads /\ configured' = configured
    <3>1. \/ codec' = codec
          \/ codec' = [codec EXCEPT ![n].preset = request[n]]
      BY <1>13 DEF PopPreset
    <3>2. codec[n] \in Codec /\ [codec[n] EXCEPT !.preset = request[n]].threads = codec[n].threads
      BY DEF IInv, Typed, Codecs, Codec
    <3>3. configured' = configured
      BY <1>13 DEF PopPreset
    <3> QED BY <3>1, <3>2, <3>3, <1>a, <1>b
  <2>2. /\ UNCHANGED <<alloc, pc, shot, todo, half, pending, wanted>>
        /\ place[n] = "preset"
    BY <1>13 DEF PopPreset
  <2>3. CASE m = n
    <3>1. codec[m].threads = Threads(m, opts[m].threads)
      <4>1. Reopens(m)
        BY <2>2, <2>3 DEF IInv, Tuned
      <4> QED BY <4>1 DEF Reopens
    <3>2. \/ place'[m] = "send"
          \/ place'[m] = "flush" /\ want'[m].threads = opts[m].threads
      BY <1>13, <2>3, <1>a, <1>b DEF PopPreset, Goes
    <3> QED BY <2>1, <2>2, <3>1, <3>2, <1>c, <1>d DEF Share
  <2>4. CASE m # n
    <3>1. place'[m] = place[m] /\ want'[m] = want[m]
      BY <1>13, <2>4, <1>a, <1>b DEF PopPreset, Goes
    <3> QED BY <2>1, <2>2, <3>1, <1>d DEF Share
  <2> QED BY <2>3, <2>4
<1>14. ASSUME NEW n \in Enc, Flush(n) PROVE Share(m)'
  BY <1>14, <1>a, <1>b, <1>c, <1>d DEF Flush, Share, Threads, Goes
<1>15. ASSUME NEW n \in Enc, Reopen(n) PROVE Share(m)'
  BY <1>15, <1>a, <1>b, <1>c, <1>d DEF Reopen, Share, Threads, Goes
<1>16. ASSUME NEW n \in Enc, Register(n) PROVE Share(m)'
  BY <1>16, <1>a, <1>b, <1>c, <1>d DEF Register, Share, Threads, Goes
<1>17. ASSUME NEW n \in Enc, RecordRestart(n) PROVE Share(m)'
  BY <1>17, <1>a, <1>b, <1>c, <1>d DEF RecordRestart, Share, Threads, Goes
<1>18. ASSUME NEW n \in Enc, SendOne(n) PROVE Share(m)'
  BY <1>18, <1>a, <1>b, <1>c, <1>d DEF SendOne, Share, Threads, Goes
<1>19. ASSUME NEW n \in Enc, EncoderEnds(n) PROVE Share(m)'
  BY <1>19, <1>a, <1>b, <1>c, <1>d DEF EncoderEnds, Share, Threads, Goes
<1>20. ASSUME NEW n \in Enc, ClearPresetOverride(n) PROVE Share(m)'
  BY <1>20, <1>a, <1>b, <1>c, <1>d DEF ClearPresetOverride, Share, Threads
<1>21. ASSUME NEW n \in Enc, NEW p \in Asked, LockPreset(n, p) PROVE Share(m)'
  BY <1>21, <1>a, <1>b, <1>c, <1>d DEF LockPreset, Share, Threads
<1>22. ASSUME NEW n \in Enc, LoadThreads(n) PROVE Share(m)'
  <2>1. /\ UNCHANGED <<configured, alloc, codec, pc, shot, todo, half, wanted, pending>>
        /\ place[n] = "load" /\ place' = [place EXCEPT ![n] = "flush"]
    BY <1>22 DEF LoadThreads, Goes
  <2>2. CASE m = n
    <3>1. /\ place'[m] = "flush" /\ want'[m].threads = wanted[m] /\ wanted[m] = alloc[m]
      BY <1>22, <2>1, <2>2, <1>a, <1>b, <1>d DEF LoadThreads, Share
    <3>2. Threads(m, alloc[m]) = alloc[m]
      BY <1>c, <1>d DEF Threads, Share, AutoThreads
    <3> QED BY <2>1, <3>1, <3>2, <1>c, <1>d DEF Share
  <2>3. CASE m # n
    <3>1. place'[m] = place[m] /\ want'[m] = want[m]
      BY <1>22, <2>1, <2>3, <1>a, <1>b DEF LoadThreads
    <3> QED BY <2>1, <3>1, <1>d DEF Share
  <2> QED BY <2>2, <2>3
<1> QED
  BY <1>1, <1>2, <1>3, <1>4, <1>5, <1>6, <1>7, <1>8, <1>9, <1>10, <1>11,
     <1>12, <1>13, <1>14, <1>15, <1>16, <1>17, <1>18, <1>19, <1>20, <1>21, <1>22 DEF Next, Observe, EncoderStep

(***************************************************************************)
(* The sum of the shares: the controller adds up what the others have.     *)
(***************************************************************************)
LEMMA SumStep ==
  ASSUME IInv, Next
  PROVE  (Total(alloc, Cpu) <= Cap \/ Total(alloc, Cpu) <= Total(Start, Cpu))'
<1> USE DEF ctrlVars, reqVars, trackVars, encVars, userVars
<1>a. alloc \in [Enc -> Nat] /\ alloc' \in [Enc -> Nat] /\ Cpu \subseteq Enc
  BY TypeStep DEF IInv, Typed, Requests, Cpu
<1>b. Total(alloc, Cpu) <= Cap \/ Total(alloc, Cpu) <= Total(Start, Cpu)
  BY DEF IInv, Budgeted
<1>c. ASSUME alloc' = alloc PROVE (Total(alloc, Cpu) <= Cap \/ Total(alloc, Cpu) <= Total(Start, Cpu))'
  BY <1>c, <1>b
<1>1. ASSUME TakeSnapshot PROVE (Total(alloc, Cpu) <= Cap \/ Total(alloc, Cpu) <= Total(Start, Cpu))'
  BY <1>1, <1>c DEF TakeSnapshot
<1>2. ASSUME NodesDone PROVE (Total(alloc, Cpu) <= Cap \/ Total(alloc, Cpu) <= Total(Start, Cpu))'
  BY <1>2, <1>c DEF NodesDone
<1>3. ASSUME NEW n \in Enc, HasHeadroom(n) PROVE (Total(alloc, Cpu) <= Cap \/ Total(alloc, Cpu) <= Total(Start, Cpu))'
  BY <1>3, <1>c DEF HasHeadroom, Visited
<1>4. ASSUME NEW n \in Enc, MeetsTarget(n) PROVE (Total(alloc, Cpu) <= Cap \/ Total(alloc, Cpu) <= Total(Start, Cpu))'
  BY <1>4, <1>c DEF MeetsTarget, Visited
<1>5. ASSUME NEW n \in Enc, Waits(n) PROVE (Total(alloc, Cpu) <= Cap \/ Total(alloc, Cpu) <= Total(Start, Cpu))'
  BY <1>5, <1>c DEF Waits, MayDecide, Visited
<1>6. ASSUME NEW n \in Enc, AddThreads(n) PROVE (Total(alloc, Cpu) <= Cap \/ Total(alloc, Cpu) <= Total(Start, Cpu))'
  <2>1. CASE n \in Hw
    <3>1. alloc' = alloc
      BY <1>6, <2>1, <1>a DEF AddThreads, Allocate
    <3> QED BY <3>1, <1>c
  <2>2. CASE n \notin Hw
    <3>1. /\ Total(alloc, Enc \ {n}) + MoreThreads(n) <= Cap
          /\ alloc' = [alloc EXCEPT ![n] = MoreThreads(n)]
      BY <1>6, <2>2, <1>a DEF AddThreads, Allocate, CanAllocate
    <3>2. n \in Cpu /\ Cpu \ {n} \subseteq Enc \ {n}
      BY <2>2 DEF Cpu
    <3>3. \A m \in Cpu \ {n} : alloc'[m] <= alloc[m]
      BY <3>1, <1>a
    <3>4. Total(alloc', Cpu \ {n}) <= Total(alloc, Enc \ {n})
      BY <3>2, <3>3, <1>a, TotalMono
    <3>5. Total(alloc', Cpu) = Total(alloc', Cpu \ {n}) + alloc'[n]
      BY <3>2, <1>a, TotalSplit
    <3>6. alloc'[n] = MoreThreads(n) /\ alloc'[n] \in Nat
      BY <3>1, <1>a
    <3>7. Total(alloc, Enc \ {n}) \in Nat /\ Total(alloc', Cpu \ {n}) \in Nat
      BY <1>a, TotalType
    <3> QED BY <3>1, <3>4, <3>5, <3>6, <3>7, Constants
  <2> QED BY <2>1, <2>2
<1>7. ASSUME NEW n \in Enc, RestartPending(n) PROVE (Total(alloc, Cpu) <= Cap \/ Total(alloc, Cpu) <= Total(Start, Cpu))'
  BY <1>7, <1>c DEF RestartPending
<1>8. ASSUME NEW n \in Enc, StepFaster(n) PROVE (Total(alloc, Cpu) <= Cap \/ Total(alloc, Cpu) <= Total(Start, Cpu))'
  BY <1>8, <1>c DEF StepFaster, MayDecide, Visited
<1>9. ASSUME NEW n \in Enc, GroupVisit(n) PROVE (Total(alloc, Cpu) <= Cap \/ Total(alloc, Cpu) <= Total(Start, Cpu))'
  BY <1>9, <1>c DEF GroupVisit
<1>10. ASSUME RequestOverride PROVE (Total(alloc, Cpu) <= Cap \/ Total(alloc, Cpu) <= Total(Start, Cpu))'
  BY <1>10, <1>c DEF RequestOverride
<1>11. ASSUME Cancel PROVE (Total(alloc, Cpu) <= Cap \/ Total(alloc, Cpu) <= Total(Start, Cpu))'
  BY <1>11, <1>c DEF Cancel
<1>12. ASSUME NEW n \in Enc, PopRestart(n) PROVE (Total(alloc, Cpu) <= Cap \/ Total(alloc, Cpu) <= Total(Start, Cpu))'
  BY <1>12, <1>c DEF PopRestart
<1>13. ASSUME NEW n \in Enc, PopPreset(n) PROVE (Total(alloc, Cpu) <= Cap \/ Total(alloc, Cpu) <= Total(Start, Cpu))'
  BY <1>13, <1>c DEF PopPreset
<1>14. ASSUME NEW n \in Enc, Flush(n) PROVE (Total(alloc, Cpu) <= Cap \/ Total(alloc, Cpu) <= Total(Start, Cpu))'
  BY <1>14, <1>c DEF Flush
<1>15. ASSUME NEW n \in Enc, Reopen(n) PROVE (Total(alloc, Cpu) <= Cap \/ Total(alloc, Cpu) <= Total(Start, Cpu))'
  BY <1>15, <1>c DEF Reopen
<1>16. ASSUME NEW n \in Enc, Register(n) PROVE (Total(alloc, Cpu) <= Cap \/ Total(alloc, Cpu) <= Total(Start, Cpu))'
  BY <1>16, <1>c DEF Register
<1>17. ASSUME NEW n \in Enc, RecordRestart(n) PROVE (Total(alloc, Cpu) <= Cap \/ Total(alloc, Cpu) <= Total(Start, Cpu))'
  BY <1>17, <1>c DEF RecordRestart
<1>18. ASSUME NEW n \in Enc, SendOne(n) PROVE (Total(alloc, Cpu) <= Cap \/ Total(alloc, Cpu) <= Total(Start, Cpu))'
  BY <1>18, <1>c DEF SendOne
<1>19. ASSUME NEW n \in Enc, EncoderEnds(n) PROVE (Total(alloc, Cpu) <= Cap \/ Total(alloc, Cpu) <= Total(Start, Cpu))'
  BY <1>19, <1>c DEF EncoderEnds
<1>20. ASSUME NEW n \in Enc, ClearPresetOverride(n) PROVE (Total(alloc, Cpu) <= Cap \/ Total(alloc, Cpu) <= Total(Start, Cpu))'
  BY <1>20, <1>c DEF ClearPresetOverride
<1>21. ASSUME NEW n \in Enc, NEW p \in Asked, LockPreset(n, p) PROVE (Total(alloc, Cpu) <= Cap \/ Total(alloc, Cpu) <= Total(Start, Cpu))'
  BY <1>21, <1>c DEF LockPreset
<1>22. ASSUME NEW n \in Enc, LoadThreads(n) PROVE (Total(alloc, Cpu) <= Cap \/ Total(alloc, Cpu) <= Total(Start, Cpu))'
  BY <1>22, <1>c DEF LoadThreads
<1> QED
  BY <1>1, <1>2, <1>3, <1>4, <1>5, <1>6, <1>7, <1>8, <1>9, <1>10, <1>11,
     <1>12, <1>13, <1>14, <1>15, <1>16, <1>17, <1>18, <1>19, <1>20, <1>21, <1>22 DEF Next, Observe, EncoderStep

(***************************************************************************)
(* The theorems.                                                           *)
(***************************************************************************)
LEMMA InitIInv == Init => IInv
<1> SUFFICES ASSUME Init PROVE IInv
  OBVIOUS
<1>1. Typed
  BY InitTyped
<1>2. Tuned
  BY DEF Init, Tuned, Recorded, Reopens, Threads
<1>3. Drained
  BY DEF Init, Drained
<1>4. Paced
  BY Constants DEF Init, Paced
<1>5. Budgeted
  <2>1. \A n \in Cpu : Share(n)
    <3> SUFFICES ASSUME NEW n \in Cpu PROVE Share(n)
      OBVIOUS
    <3>1. n \in Enc /\ n \notin Hw /\ Start[n] \in Nat /\ Start[n] > 0 /\ ThreadStep \in Nat
      BY Constants DEF Cpu
    <3> QED BY <3>1 DEF Init, Share
  <2>2. Total(alloc, Cpu) <= Total(Start, Cpu)
    <3>1. alloc \in [Enc -> Nat] /\ Start \in [Enc -> Nat] /\ Cpu \in SUBSET Enc
      BY <1>1, Constants DEF Typed, Requests, Cpu
    <3>2. \A n \in Cpu : alloc[n] <= Start[n]
      BY Constants DEF Init, Cpu
    <3> QED BY <3>1, <3>2, TotalMono
  <2> QED BY <2>1, <2>2 DEF Budgeted
<1> QED BY <1>1, <1>2, <1>3, <1>4, <1>5 DEF IInv

LEMMA StepIInv == IInv /\ [Next]_vars => IInv'
<1> SUFFICES ASSUME IInv, [Next]_vars PROVE IInv'
  OBVIOUS
<1>1. CASE Next
  BY <1>1, TypeStep, TunedStep, DrainedStep, PacedStep, ShareStep, SumStep DEF IInv, Budgeted, Cpu
<1>2. CASE UNCHANGED vars
  <2> USE <1>2 DEF IInv, vars, ctrlVars, reqVars, trackVars, encVars, userVars
  <2>1. Typed'
    BY DEF Typed, Turn, Seen, Counters, Requests, Trackers, Frames, Codecs, Users
  <2>2. Tuned' /\ Drained' /\ Paced'
    BY DEF Tuned, Recorded, Reopens, Drained, Paced
  <2>3. Budgeted'
    BY DEF Budgeted, Share
  <2> QED BY <2>1, <2>2, <2>3
<1> QED BY <1>1, <1>2

(* The invariant holds in every state of every run.                        *)
THEOREM Invariant == Spec => []IInv
  BY InitIInv, StepIInv, PTL DEF Spec

(* Every variable keeps its type.                                          *)
THEOREM TypeCorrect == Spec => []TypeOK
<1>1. IInv => TypeOK
  BY TypedIsTypeOK DEF IInv
<1> QED BY <1>1, Invariant, PTL

(* No codec is closed while it holds a frame, whatever restarts it and     *)
(* whenever the run is cancelled.                                          *)
THEOREM NoFrameLost == Spec => []NothingLost
<1>1. IInv => NothingLost
  BY DEF IInv, Drained, NothingLost
<1> QED BY <1>1, Invariant, PTL

(* Between two frames the tracker says what is open, and the options would *)
(* open the same again.                                                    *)
THEOREM BooksAgree == Spec => []Agree
<1>1. IInv => Agree
  BY DEF IInv, Tuned, Recorded, Reopens, Agree
<1> QED BY <1>1, Invariant, PTL

(* What is open never takes more threads than the budget, or than the run  *)
(* began with: the shares the controller adds up are never less than what  *)
(* the encoders have, however late they act on a request.                  *)
THEOREM WithinBudget == Spec => []FitsBudget
<1>1. ASSUME IInv PROVE FitsBudget
  <2> DEFINE open == [n \in Enc |-> codec[n].threads]
  <2>1. /\ open \in [Enc -> Nat] /\ alloc \in [Enc -> Nat] /\ Start \in [Enc -> Nat]
        /\ Cpu \in SUBSET Enc
    BY <1>1, Constants DEF IInv, Typed, Codecs, Codec, Requests, Cpu
  <2>2. \A n \in Cpu : open[n] <= alloc[n]
    BY <1>1 DEF IInv, Budgeted, Share, Cpu
  <2>3. Total(open, Cpu) <= Total(alloc, Cpu)
    BY <2>1, <2>2, TotalMono
  <2>4. /\ Total(open, Cpu) \in Nat /\ Total(alloc, Cpu) \in Nat /\ Total(Start, Cpu) \in Nat
    BY <2>1, TotalType
  <2>5. Total(alloc, Cpu) <= Cap \/ Total(alloc, Cpu) <= Total(Start, Cpu)
    BY <1>1 DEF IInv, Budgeted
  <2>6. Total(open, Cpu) <= Cap \/ Total(open, Cpu) <= Total(Start, Cpu)
    BY <2>3, <2>4, <2>5, Constants
  <2> QED BY <2>6 DEF FitsBudget
<1> QED BY <1>1, Invariant, PTL

(* Two automatic steps of a preset keep their distance, whichever rule asks *)
(* for the second.                                                         *)
Distant == \A n \in Enc : age'[n] = 0 /\ (age[n] # 0 \/ request'[n] \notin {request[n], NoPreset})
              /\ user' = user => age[n] >= PresetWindows - 1
LEMMA StepDistant ==
  ASSUME IInv, Next, NEW m \in Enc, age'[m] = 0,
         age[m] # 0 \/ request'[m] \notin {request[m], NoPreset}, user' = user
  PROVE  age[m] >= PresetWindows - 1
<1> USE DEF ctrlVars, reqVars, trackVars, encVars, userVars
<1>a. /\ age \in [Enc -> 0..PresetWindows] /\ sincePreset \in [Enc -> 0..PresetWindows]
      /\ request \in [Enc -> Presets \cup {NoPreset}]
      /\ PresetWindows \in Nat /\ PresetWindows > 0
  BY Constants DEF IInv, Typed, Counters, Requests
<1>b. /\ sincePreset[m] = 0 => age[m] = PresetWindows
      /\ sincePreset[m] > 0 => sincePreset[m] <= age[m] + 1
  BY DEF IInv, Paced
<1>c. ASSUME NEW n \in Enc, NEW d, CanStep(n, d), StepPreset(n, d) PROVE age[m] >= PresetWindows - 1
  <2>1. CASE n = m
    BY <1>c, <2>1, <1>a, <1>b DEF CanStep
  <2>2. CASE n # m
    BY <1>c, <2>2, <1>a DEF StepPreset
  <2> QED BY <2>1, <2>2
<1>d. ~(request'[m] \in {request[m], NoPreset} /\ age' = age)
  OBVIOUS
<1>1. ASSUME TakeSnapshot PROVE age[m] >= PresetWindows - 1
  <2>1. age'[m] = Least(age[m] + 1, PresetWindows)
    BY <1>1 DEF TakeSnapshot
  <2> QED BY <2>1, <1>a DEF Least
<1>2. ASSUME NodesDone PROVE age[m] >= PresetWindows - 1
  BY <1>2, <1>d DEF NodesDone
<1>3. ASSUME NEW n \in Enc, HasHeadroom(n) PROVE age[m] >= PresetWindows - 1
  BY <1>3, <1>c, <1>d DEF HasHeadroom, KeepPreset
<1>4. ASSUME NEW n \in Enc, MeetsTarget(n) PROVE age[m] >= PresetWindows - 1
  BY <1>4, <1>d DEF MeetsTarget, KeepPreset
<1>5. ASSUME NEW n \in Enc, Waits(n) PROVE age[m] >= PresetWindows - 1
  BY <1>5, <1>d DEF Waits, KeepPreset
<1>6. ASSUME NEW n \in Enc, AddThreads(n) PROVE age[m] >= PresetWindows - 1
  BY <1>6, <1>d DEF AddThreads, KeepPreset
<1>7. ASSUME NEW n \in Enc, RestartPending(n) PROVE age[m] >= PresetWindows - 1
  BY <1>7, <1>d DEF RestartPending
<1>8. ASSUME NEW n \in Enc, StepFaster(n) PROVE age[m] >= PresetWindows - 1
  BY <1>8, <1>c, <1>d DEF StepFaster, KeepPreset
<1>9. ASSUME NEW n \in Enc, GroupVisit(n) PROVE age[m] >= PresetWindows - 1
  BY <1>9, <1>c, <1>d DEF GroupVisit, KeepPreset
<1>10. ASSUME RequestOverride PROVE age[m] >= PresetWindows - 1
  BY <1>10 DEF RequestOverride
<1>11. ASSUME Cancel PROVE age[m] >= PresetWindows - 1
  BY <1>11, <1>d DEF Cancel
<1>12. ASSUME NEW n \in Enc, PopRestart(n) PROVE age[m] >= PresetWindows - 1
  BY <1>12, <1>d DEF PopRestart
<1>13. ASSUME NEW n \in Enc, PopPreset(n) PROVE age[m] >= PresetWindows - 1
  BY <1>13, <1>a, <1>d DEF PopPreset
<1>14. ASSUME NEW n \in Enc, Flush(n) PROVE age[m] >= PresetWindows - 1
  BY <1>14, <1>d DEF Flush
<1>15. ASSUME NEW n \in Enc, Reopen(n) PROVE age[m] >= PresetWindows - 1
  BY <1>15, <1>d DEF Reopen
<1>16. ASSUME NEW n \in Enc, Register(n) PROVE age[m] >= PresetWindows - 1
  BY <1>16, <1>d DEF Register
<1>17. ASSUME NEW n \in Enc, RecordRestart(n) PROVE age[m] >= PresetWindows - 1
  BY <1>17, <1>d DEF RecordRestart
<1>18. ASSUME NEW n \in Enc, SendOne(n) PROVE age[m] >= PresetWindows - 1
  BY <1>18, <1>d DEF SendOne
<1>19. ASSUME NEW n \in Enc, EncoderEnds(n) PROVE age[m] >= PresetWindows - 1
  BY <1>19, <1>d DEF EncoderEnds
<1>20. ASSUME NEW n \in Enc, ClearPresetOverride(n) PROVE age[m] >= PresetWindows - 1
  BY <1>20, <1>d DEF ClearPresetOverride
<1>21. ASSUME NEW n \in Enc, NEW p \in Asked, LockPreset(n, p) PROVE age[m] >= PresetWindows - 1
  BY <1>21, <1>d DEF LockPreset
<1>22. ASSUME NEW n \in Enc, LoadThreads(n) PROVE age[m] >= PresetWindows - 1
  BY <1>22, <1>d DEF LoadThreads
<1> QED
  BY <1>1, <1>2, <1>3, <1>4, <1>5, <1>6, <1>7, <1>8, <1>9, <1>10, <1>11,
     <1>12, <1>13, <1>14, <1>15, <1>16, <1>17, <1>18, <1>19, <1>20, <1>21, <1>22 DEF Next, Observe, EncoderStep

(* Two automatic preset steps of an encoder keep the distance of the        *)
(* cooldown, whichever of the three rules asks for them.                    *)
THEOREM KeepsDistance == Spec => NoFlap
<1>1. Spec => [][IInv /\ [Next]_vars]_vars
  BY Invariant, PTL DEF Spec
<1>2. [IInv /\ [Next]_vars]_vars => [Distant]_<<age, request, user>>
  <2> SUFFICES ASSUME [IInv /\ [Next]_vars]_vars PROVE [Distant]_<<age, request, user>>
    OBVIOUS
  <2>1. CASE IInv /\ Next
    BY <2>1, StepDistant DEF Distant
  <2>2. CASE UNCHANGED vars
    BY <2>2 DEF vars, ctrlVars, reqVars, userVars
  <2> QED BY <2>1, <2>2
<1> HIDE DEF Distant
<1>3. Spec => [][Distant]_<<age, request, user>>
  BY <1>1, <1>2, PTL
<1> QED BY <1>3 DEF NoFlap, Distant

=============================================================================
