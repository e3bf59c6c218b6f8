------------------------------ MODULE RealTimeCtrl -------------------------
(***************************************************************************)
(* The adaptive control of a real-time run.  The controller                *)
(* (job/realtime_ctrl.go) takes a snapshot of all encoders every tick and   *)
(* decides on it, node after node; the encoders (job/handlers_encoder.go)  *)
(* look for its requests between two frames and close and reopen their     *)
(* codec; a user locks the preset of a node (job/realtime_api.go).         *)
(* Requests go through the atomics of a tracker (job/node_perf.go), so     *)
(* whatever the controller decides on may have changed by then.            *)
(*                                                                         *)
(* Only encoders have a frame-rate target, so no other node is ever        *)
(* looked at.  A preset is its place on the ladder of its codec, 0 one     *)
(* that is not on it.  Frame rates and times are abstracted to readings.   *)
(***************************************************************************)
EXTENDS Integers, FiniteSets

CONSTANTS
    Enc,            \* the video encoders
    Hw,             \* ... on a hardware device: no ladder, no share of the CPU budget
    Hot,            \* ... that take another preset while open (SVT-AV1)
    Start,          \* threads an encoder is opened with when it is told nothing
    Preset0,        \* presets they may be opened with
    Top, Default,   \* fastest preset, and the one for who is not on the ladder
    Floor,          \* highestQualityPreset: no automatic step goes slower; 0 for none
    Cap,            \* CPU threads of the budget less the reserved ones
    ThreadStep,     \* rtThreadStep (2)
    AdjWindows, PresetWindows, HeadWindows, \* 3, 6 and 6 in the code
    GroupStep,      \* preset_group_step
    Delay,          \* frames a codec holds
    Loads,          \* what a run may be like: the readings each encoder may give
    MaxThreads,     \* bound: a hardware encoder at it is not seen busy
    Asked,          \* bound: presets a user may ask for
    MaxOverrides    \* bound: overrides of the user

(* A reading: frames per second below target, share of time working, and   *)
(* threads of the codec that are busy.                                     *)
Reading == [deficit : {"head", "met", "behind", "far"},
            active : {"low", "half", "full"}, busy : {"few", "some", "all"}]
ASSUME RealTimeAssumption ==
    /\ IsFiniteSet(Enc) /\ Hw \subseteq Enc /\ Hot \subseteq Enc \ Hw /\ Start \in [Enc -> Nat \ {0}]
    /\ Top \in Nat \ {0} /\ Default \in 1..Top /\ Floor \in 0..Top /\ Preset0 \subseteq [Enc -> 0..Top]
    /\ Cap \in Nat /\ ThreadStep \in Nat \ {0} /\ GroupStep \in BOOLEAN
    /\ {AdjWindows, PresetWindows, HeadWindows} \subseteq Nat \ {0}
    /\ Asked \subseteq 1..Top /\ Delay \in Nat /\ MaxThreads \in Nat /\ MaxOverrides \in Nat
    /\ Loads \subseteq [Enc -> SUBSET Reading]

VARIABLES
    load,                               \* the readings this run gives
    pc, shot, todo, half,               \* controller: place, snapshot, nodes to visit, one half requested
    sinceAdj, sincePreset, overshoot,   \* its counters per node, no further than they matter
    alloc, age,                         \* thread budget; ticks since the last automatic step
    pending, wanted, request, locked, dropping, configured, tracked, \* the trackers
    place, held, codec, opts, want, lost, \* the encoders
    user, overrides, chosen,            \* the API; the preset an override asked for
    stop                                \* the context of the run is cancelled

ctrlVars == <<load, pc, shot, todo, half, sinceAdj, sincePreset, overshoot, alloc, age>>
reqVars  == <<pending, wanted, request>>
trackVars == <<configured, tracked>>
encVars  == <<place, held, codec, opts, want, lost>>
userVars == <<locked, user, overrides, chosen>>
vars == <<ctrlVars, reqVars, dropping, trackVars, encVars, userVars, stop>>

NoPreset == -1
Presets == 0..Top
AutoThreads == 0       \* threads left to the codec
Least(a, b) == IF a < b THEN a ELSE b
Threads(n, t) == IF t = AutoThreads THEN Start[n] ELSE t
(* The sum of f over S, as the size of a disjoint union.                   *)
Total(f, S) == Cardinality(UNION {{n} \X (1..f[n]) : n \in S})

NoShot == [n \in Enc |-> [deficit |-> "met", active |-> "low", busy |-> "few",
                          threads |-> 1, preset |-> 0, locked |-> FALSE]]

NoWant == [threads |-> AutoThreads, preset |-> NoPreset]

Init ==
    /\ load \in Loads /\ pc = "wait" /\ todo = {} /\ half = {} /\ stop = FALSE
    /\ shot = NoShot
    /\ sinceAdj = [n \in Enc |-> 0] /\ sincePreset = [n \in Enc |-> 0]
    /\ overshoot = [n \in Enc |-> 0] /\ age = [n \in Enc |-> PresetWindows]
    /\ alloc = [n \in Enc |-> IF n \in Hw THEN 0 ELSE Start[n]]
    /\ pending = [n \in Enc |-> FALSE] /\ wanted = [n \in Enc |-> 0]
    /\ request = [n \in Enc |-> NoPreset] /\ locked = [n \in Enc |-> FALSE]
    /\ dropping = [n \in Enc |-> FALSE]
    /\ configured = Start /\ tracked \in Preset0
    /\ place \in [Enc -> {"recv", "done"}]   \* some may have ended when we look
    /\ held = [n \in Enc |-> 0]
    /\ codec = [n \in Enc |-> [threads |-> Start[n], preset |-> tracked[n]]]
    /\ opts = [n \in Enc |-> [threads |-> AutoThreads, preset |-> tracked[n]]]
    /\ want = [n \in Enc |-> NoWant]
    /\ lost = [n \in Enc |-> FALSE]
    /\ user = <<>> /\ overrides \in 0..MaxOverrides /\ chosen = [n \in Enc |-> NoPreset]

(***************************************************************************)
(* The controller.                                                         *)
(***************************************************************************)
Behind(n) == shot[n].deficit \in {"behind", "far"}
Busy(n) == shot[n].active = "full"

(* observe begins: one snapshot for the whole tick.                        *)
TakeSnapshot ==
    /\ pc = "wait" /\ ~stop /\ pc' = "nodes" /\ todo' = Enc
    /\ \E r \in [Enc -> UNION {load[n] : n \in Enc}] :
        /\ \A n \in Enc : r[n] \in load[n]
        /\ \A n \in Hw : configured[n] + ThreadStep > MaxThreads => r[n].active # "full"
        /\ shot' = [n \in Enc |->
             [deficit |-> r[n].deficit, active |-> r[n].active, busy |-> r[n].busy,
              threads |-> configured[n], preset |-> tracked[n], locked |-> locked[n]]]
    /\ sincePreset' = [n \in Enc |-> IF sincePreset[n] = 0 THEN 0
                                     ELSE Least(sincePreset[n] + 1, PresetWindows)]
    /\ age' = [n \in Enc |-> Least(age[n] + 1, PresetWindows)]
    /\ UNCHANGED <<load, half, sinceAdj, overshoot, alloc, reqVars, dropping, trackVars, encVars,
                   userVars, stop>>

(* PresetLadder.Step and the clamp to the slowest preset allowed.          *)
Ladder(cur, d) ==
    CASE cur = 0 -> Default
      [] cur # 0 /\ cur + d \in 1..Top -> cur + d
      [] OTHER -> cur
NextPreset(cur, d) ==
    LET next == Ladder(cur, d) IN IF next # cur /\ next < Floor THEN Floor ELSE next

(* The first step, or one that the last has cooled down from.  Variant: the *)
(* first step only.                                                        *)
CanStepOnce(n, d) ==
    /\ n \notin Hw /\ ~shot[n].locked /\ sincePreset[n] = 0
    /\ NextPreset(shot[n].preset, d) # shot[n].preset
CanStep(n, d) ==
    /\ n \notin Hw /\ ~shot[n].locked
    /\ sincePreset[n] \in {0, PresetWindows}
    /\ NextPreset(shot[n].preset, d) # shot[n].preset

(* tryPresetStep: the request, and the cool-down of the node.  Variant: the *)
(* counter goes back to what stands for no step yet.                       *)
StepPresetUncounted(n, d) ==
    /\ request' = [request EXCEPT ![n] = NextPreset(shot[n].preset, d)]
    /\ sincePreset' = [sincePreset EXCEPT ![n] = 0] /\ age' = [age EXCEPT ![n] = 0]
StepPreset(n, d) ==
    /\ request' = [request EXCEPT ![n] = NextPreset(shot[n].preset, d)]
    /\ sincePreset' = [sincePreset EXCEPT ![n] = 1] /\ age' = [age EXCEPT ![n] = 0]
KeepPreset == UNCHANGED <<request, sincePreset, age>>

Visited(n) ==
    /\ pc = "nodes" /\ half = {} /\ n \in todo /\ todo' = todo \ {n} /\ pc' = "nodes"
    /\ UNCHANGED <<load, shot, trackVars, encVars, userVars, stop>>

(* More than its target for some time: one preset slower.                  *)
HasHeadroom(n) ==
    /\ Visited(n) /\ shot[n].deficit = "head" /\ sinceAdj' = [sinceAdj EXCEPT ![n] = 0]
    /\ IF overshoot[n] + 1 < HeadWindows
       THEN overshoot' = [overshoot EXCEPT ![n] = @ + 1] /\ KeepPreset
       ELSE /\ overshoot' = [overshoot EXCEPT ![n] = 0]
            /\ IF CanStep(n, -1) THEN StepPreset(n, -1) ELSE KeepPreset
    /\ UNCHANGED <<half, alloc, pending, wanted, dropping>>

MeetsTarget(n) ==
    /\ Visited(n) /\ shot[n].deficit = "met" /\ KeepPreset
    /\ overshoot' = [overshoot EXCEPT ![n] = 0] /\ sinceAdj' = [sinceAdj EXCEPT ![n] = 0]
    /\ UNCHANGED <<half, alloc, pending, wanted, dropping>>

(* decide: behind for long enough.                                         *)
MayDecide(n) == Visited(n) /\ Behind(n) /\ overshoot' = [overshoot EXCEPT ![n] = 0]
Due(n) == sinceAdj[n] + 1 >= AdjWindows
MoreThreads(n) == shot[n].threads + ThreadStep

(* ThreadBudget.CanAllocate: what the others have, and the new share.      *)
CanAllocate(n) ==
    n \in Hw \/ Total(alloc, Enc \ {n}) + MoreThreads(n) <= Cap
(* Variant: the request without the share.                                 *)
AllocateNothing(n) == alloc' = alloc
Allocate(n) == alloc' = [alloc EXCEPT ![n] = IF n \in Hw THEN @ ELSE MoreThreads(n)]

Waits(n) ==
    /\ MayDecide(n) /\ ~(Due(n) /\ Busy(n) /\ shot[n].busy # "some") /\ KeepPreset
    /\ sinceAdj' = [sinceAdj EXCEPT ![n] = Least(@ + 1, AdjWindows)]
    /\ UNCHANGED <<half, alloc, pending, wanted, dropping>>

(* RequestRestart is two stores; the second is RestartPending.             *)
AddThreads(n) ==
    /\ MayDecide(n) /\ Due(n) /\ Busy(n) /\ shot[n].busy = "all" /\ CanAllocate(n)
    /\ Allocate(n) /\ wanted' = [wanted EXCEPT ![n] = MoreThreads(n)]
    /\ half' = {n} /\ KeepPreset /\ sinceAdj' = [sinceAdj EXCEPT ![n] = 0]
    /\ UNCHANGED <<pending, dropping>>

RestartPending(n) ==
    /\ n \in half /\ half' = {} /\ pending' = [pending EXCEPT ![n] = TRUE]
    /\ UNCHANGED <<load, pc, shot, todo, sinceAdj, sincePreset, overshoot, alloc, age, wanted, request,
                   dropping, trackVars, encVars, userVars, stop>>

(* No threads left, or threads would not help: one preset faster, and when *)
(* there is none and it is far behind, frames are to be dropped.           *)
StepFaster(n) ==
    /\ MayDecide(n) /\ Due(n) /\ Busy(n) /\ sinceAdj' = [sinceAdj EXCEPT ![n] = 0]
    /\ \/ shot[n].busy = "all" /\ ~CanAllocate(n)
       \/ shot[n].busy = "few"
    /\ IF CanStep(n, 1) THEN StepPreset(n, 1) /\ UNCHANGED dropping
       ELSE /\ KeepPreset
            /\ dropping' = [dropping EXCEPT ![n] = @ \/ (shot[n].busy = "all" /\ shot[n].deficit = "far")]
    /\ UNCHANGED <<half, alloc, pending, wanted>>

(* maybeGroupStep: when half of them are behind and working, all of them.  *)
Eligible == {n \in Enc \ Hw : ~shot[n].locked}
Slow == {n \in Eligible : Behind(n) /\ shot[n].active # "low"}
Quorum == GroupStep /\ Slow # {} /\ 2 * Cardinality(Slow) >= Cardinality(Eligible)

NodesDone ==
    /\ pc = "nodes" /\ todo = {} /\ half = {}
    /\ IF Quorum THEN pc' = "group" /\ todo' = Eligible /\ UNCHANGED shot
       ELSE pc' = "wait" /\ todo' = {} /\ shot' = NoShot
    /\ UNCHANGED <<load, half, sinceAdj, sincePreset, overshoot, alloc, age, reqVars, dropping,
                   trackVars, encVars, userVars, stop>>

GroupVisit(n) ==
    /\ pc = "group" /\ n \in todo /\ todo' = todo \ {n}
    /\ IF todo = {n} THEN pc' = "wait" /\ shot' = NoShot ELSE UNCHANGED <<pc, shot>>
    /\ IF CanStep(n, 1) THEN StepPreset(n, 1) ELSE KeepPreset
    /\ UNCHANGED <<load, half, sinceAdj, overshoot, alloc, pending, wanted, dropping,
                   trackVars, encVars, userVars, stop>>

Observe ==
    \/ TakeSnapshot \/ NodesDone
    \/ \E n \in Enc : \/ HasHeadroom(n) \/ MeetsTarget(n) \/ Waits(n)
                      \/ AddThreads(n) \/ RestartPending(n) \/ StepFaster(n) \/ GroupVisit(n)

(***************************************************************************)
(* An encoder: between two frames it looks for a restart with other        *)
(* threads, then for another preset.                                       *)
(***************************************************************************)
Goes(n, p) == place' = [place EXCEPT ![n] = p]

(* With a frame in hand: its receipt is seen by nobody here.  The flag is  *)
(* taken first and the threads are read after it, another request or not.  *)
PopRestart(n) ==
    /\ place[n] = "recv" /\ ~stop /\ pending' = [pending EXCEPT ![n] = FALSE]
    /\ Goes(n, IF pending[n] THEN "load" ELSE "preset")
    /\ UNCHANGED <<ctrlVars, wanted, request, dropping, trackVars, held, codec, opts, want, lost,
                   userVars, stop>>

LoadThreads(n) ==
    /\ place[n] = "load" /\ Goes(n, "flush")
    /\ want' = [want EXCEPT ![n] = [threads |-> wanted[n], preset |-> NoPreset]]
    /\ UNCHANGED <<ctrlVars, reqVars, dropping, trackVars, held, codec, opts, lost, userVars, stop>>

(* A codec that cannot take it open is restarted, with the same threads.   *)
PopPreset(n) ==
    /\ place[n] = "preset" /\ request' = [request EXCEPT ![n] = NoPreset]
    /\ CASE request[n] = NoPreset -> Goes(n, "send") /\ UNCHANGED <<codec, opts, want, tracked>>
         [] request[n] # NoPreset /\ n \in Hot ->
              /\ Goes(n, "send") /\ codec' = [codec EXCEPT ![n].preset = request[n]]
              /\ opts' = [opts EXCEPT ![n].preset = request[n]]
              /\ tracked' = [tracked EXCEPT ![n] = request[n]] /\ UNCHANGED want
         [] OTHER ->
              /\ Goes(n, "flush") /\ UNCHANGED <<codec, opts, tracked>>
              /\ want' = [want EXCEPT ![n] = [threads |-> opts[n].threads, preset |-> request[n]]]
    /\ UNCHANGED <<ctrlVars, pending, wanted, dropping, configured, held, lost, userVars, stop>>

(* restartWithParams: flush and drain, unless the run is over; close; open  *)
(* another; tell the others.  Variants: no drain; the preset forgotten.    *)
FlushNothing(n) ==
    /\ place[n] = "flush" /\ Goes(n, "open") /\ UNCHANGED held
    /\ UNCHANGED <<ctrlVars, reqVars, dropping, trackVars, codec, opts, want, lost, userVars, stop>>
Flush(n) ==
    /\ place[n] = "flush"
    /\ \/ Goes(n, "open") /\ held' = [held EXCEPT ![n] = 0]
       \/ stop /\ Goes(n, "failed") /\ UNCHANGED held
    /\ UNCHANGED <<ctrlVars, reqVars, dropping, trackVars, codec, opts, want, lost, userVars, stop>>

Wanted(n) == [threads |-> want[n].threads,
              preset |-> IF want[n].preset = NoPreset THEN opts[n].preset ELSE want[n].preset]
KeptOpts(n) == opts' = [opts EXCEPT ![n].threads = want[n].threads]
NewOpts(n) == opts' = [opts EXCEPT ![n] = Wanted(n)]
Reopen(n) ==
    /\ place[n] = "open" /\ held' = [held EXCEPT ![n] = 0]
    /\ lost' = [lost EXCEPT ![n] = @ \/ held[n] > 0]
    /\ \/ /\ Goes(n, "register") /\ NewOpts(n) /\ UNCHANGED stop
          /\ codec' = [codec EXCEPT ![n] = [threads |-> Threads(n, want[n].threads),
                                             preset |-> Wanted(n).preset]]
       \/ Goes(n, "failed") /\ stop' = TRUE /\ UNCHANGED <<opts, codec>>
    /\ UNCHANGED <<ctrlVars, reqVars, dropping, trackVars, want, userVars>>

(* The maps of the runner, then the tracker.                               *)
Register(n) ==
    /\ place[n] = "register" /\ Goes(n, "record")
    /\ UNCHANGED <<ctrlVars, reqVars, dropping, trackVars, held, codec, opts, want, lost, userVars, stop>>

RecordRestart(n) ==
    /\ place[n] = "record" /\ want' = [want EXCEPT ![n] = NoWant]
    /\ configured' = [configured EXCEPT ![n] = codec[n].threads]
    /\ IF want[n].preset = NoPreset
       THEN Goes(n, "preset") /\ UNCHANGED tracked
       ELSE Goes(n, "send") /\ tracked' = [tracked EXCEPT ![n] = want[n].preset]
    /\ UNCHANGED <<ctrlVars, reqVars, dropping, held, codec, opts, lost, userVars, stop>>

(* sendOne: the codec takes the frame and gives what it is ready to give.  *)
SendOne(n) ==
    /\ place[n] = "send"
    /\ \/ Goes(n, "recv") /\ \E h \in 0..Least(held[n] + 1, Delay) : held' = [held EXCEPT ![n] = h]
       \/ stop /\ Goes(n, "failed") /\ UNCHANGED held
    /\ UNCHANGED <<ctrlVars, reqVars, dropping, trackVars, codec, opts, want, lost, userVars, stop>>

EncoderEnds(n) ==
    /\ place[n] = "recv"
    /\ \/ Goes(n, "done") /\ held' = [held EXCEPT ![n] = 0]    \* end of stream: flushed
       \/ stop /\ Goes(n, "failed") /\ UNCHANGED held
    /\ UNCHANGED <<ctrlVars, reqVars, dropping, trackVars, codec, opts, want, lost, userVars, stop>>

EncoderStep(n) ==
    \/ PopRestart(n) \/ LoadThreads(n) \/ PopPreset(n) \/ Flush(n) \/ Reopen(n)
    \/ Register(n) \/ RecordRestart(n) \/ SendOne(n)

(***************************************************************************)
(* The API: SetPresetOverride locks, then requests.                        *)
(***************************************************************************)
LockPreset(n, p) ==
    /\ user = <<>> /\ overrides < MaxOverrides /\ overrides' = overrides + 1 /\ n \notin Hw
    /\ user' = <<n, p>> /\ locked' = [locked EXCEPT ![n] = TRUE]
    /\ UNCHANGED <<ctrlVars, reqVars, dropping, trackVars, encVars, chosen, stop>>

RequestOverride ==
    /\ user # <<>> /\ user' = <<>>
    /\ request' = [request EXCEPT ![user[1]] = user[2]]
    /\ chosen' = [chosen EXCEPT ![user[1]] = user[2]]
    /\ UNCHANGED <<ctrlVars, pending, wanted, dropping, trackVars, encVars, locked, overrides, stop>>

ClearPresetOverride(n) ==
    /\ user = <<>> /\ locked[n] /\ locked' = [locked EXCEPT ![n] = FALSE]
    /\ chosen' = [chosen EXCEPT ![n] = NoPreset]
    /\ UNCHANGED <<ctrlVars, reqVars, dropping, trackVars, encVars, user, overrides, stop>>

(* Another node fails, or the caller cancels.                              *)
Cancel == ~stop /\ stop' = TRUE
          /\ UNCHANGED <<ctrlVars, reqVars, dropping, trackVars, encVars, userVars>>

Next ==
    \/ Observe \/ RequestOverride \/ Cancel
    \/ \E n \in Enc : \/ EncoderStep(n) \/ EncoderEnds(n) \/ ClearPresetOverride(n)
                      \/ \E p \in Asked : LockPreset(n, p)

(* The controller ticks, and frames keep coming.                           *)
Fair == WF_vars(Observe) /\ \A n \in Enc : WF_vars(EncoderStep(n))
Spec == Init /\ [][Next]_vars /\ Fair

-----------------------------------------------------------------------------
Codec == [threads : Nat, preset : Presets]
TypeOK ==
    /\ load \in Loads /\ pc \in {"wait", "nodes", "group"} /\ todo \subseteq Enc
    /\ half \subseteq Enc /\ Cardinality(half) <= 1
    /\ \A n \in Enc : /\ [deficit |-> shot[n].deficit, active |-> shot[n].active,
                          busy |-> shot[n].busy] \in Reading
                      /\ shot[n].threads \in Nat /\ shot[n].preset \in Presets
                      /\ shot[n].locked \in BOOLEAN
    /\ sinceAdj \in [Enc -> 0..AdjWindows] /\ sincePreset \in [Enc -> 0..PresetWindows]
    /\ overshoot \in [Enc -> 0..HeadWindows - 1] /\ age \in [Enc -> 0..PresetWindows]
    /\ alloc \in [Enc -> Nat] /\ pending \in [Enc -> BOOLEAN] /\ wanted \in [Enc -> Nat]
    /\ request \in [Enc -> Presets \cup {NoPreset}] /\ locked \in [Enc -> BOOLEAN]
    /\ dropping \in [Enc -> BOOLEAN] /\ configured \in [Enc -> Nat] /\ tracked \in [Enc -> Presets]
    /\ place \in [Enc -> {"recv", "load", "preset", "flush", "open", "register",
                          "record", "send", "done", "failed"}]
    /\ held \in [Enc -> 0..Delay] /\ codec \in [Enc -> Codec] /\ opts \in [Enc -> Codec]
    /\ want \in [Enc -> [threads : Nat, preset : Presets \cup {NoPreset}]]
    /\ lost \in [Enc -> BOOLEAN] /\ stop \in BOOLEAN /\ overrides \in 0..MaxOverrides
    /\ user = <<>> \/ user \in (Enc \ Hw) \X (1..Top)
    /\ chosen \in [Enc -> Presets \cup {NoPreset}]

(* Restarts never take more CPU threads than the budget has, or than the   *)
(* encoders were opened with when that was more already.                   *)
Cpu == Enc \ Hw
FitsBudget ==
    LET open == [n \in Enc |-> codec[n].threads] IN
    Total(open, Cpu) <= Cap \/ Total(open, Cpu) <= Total(Start, Cpu)

(* A codec is closed for a restart only when it holds no frame any more.   *)
NothingLost == \A n \in Enc : ~lost[n]

(* Between two frames the tracker says what is open, and the options would *)
(* open the same again: a restart for threads keeps the last preset.       *)
Agree ==
    \A n \in Enc : place[n] = "recv" =>
        /\ codec[n] = [threads |-> configured[n], preset |-> tracked[n]]
        /\ codec[n] = [threads |-> Threads(n, opts[n].threads), preset |-> opts[n].preset]

(* The controller leaves a preset alone for some ticks after its last step, *)
(* whichever of its rules (headroom, budget, group) asks for the next one. *)
NoFlap ==
    [][\A n \in Enc : age'[n] = 0 /\ (age[n] # 0 \/ request'[n] \notin {request[n], NoPreset})
            /\ user' = user => age[n] >= PresetWindows - 1]_<<age, request, user>>

(* A run that keeps all of its encoders behind has every preset at its     *)
(* fastest in the end, unless the user has locked it.                      *)
AlwaysBehind == \A n \in Enc : \A r \in load[n] : r.deficit \in {"behind", "far"} /\ r.active # "low"
Fastest(n) == tracked[n] = Top \/ locked[n] \/ place[n] \in {"done", "failed"}
CatchesUp == AlwaysBehind /\ GroupStep ~> stop \/ \A n \in Cpu : Fastest(n)

(* "The override also locks the node against automatic stepping until      *)
(* ClearPresetOverride is called" (job/realtime_api.go:16-17).             *)
OverrideSticks == \A n \in Enc : chosen[n] # NoPreset /\ user = <<>> => request[n] \in {NoPreset, chosen[n]}

(* "as a last resort, enables frame-drop on the upstream source"           *)
(* (job/realtime_ctrl.go:63): only a source looks at its drop period.      *)
DropsAtSource == \A n \in Enc : ~dropping[n]

(* "HW encoders consume GPU resources not CPU threads" and are not acted   *)
(* upon (job/realtime_ctrl.go:384-385).                                        *)
HwUntouched == \A n \in Hw : codec[n].threads = Start[n]

(* The map of encoders is written by one goroutine at a time.              *)
NoMapRace == \A m, n \in Enc : m # n => ~(place[m] = "register" /\ place[n] = "register")
=============================================================================
