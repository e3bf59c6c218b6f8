----------------------------- MODULE JobServer -----------------------------
(***************************************************************************)
(* One job of the job managers (internal/server/jobs.go, and its older     *)
(* relative internal/gui/jobs.go): the goroutine that runs the pipeline,   *)
(* the pump from its event bus, the metrics ticker, and the subscribers    *)
(* that replay the history and follow the events.  Everything the job      *)
(* keeps is under one mutex, so a critical section is a step.              *)
(***************************************************************************)
EXTENDS Pipeline

CONSTANTS
    Job,        \* the caller that is the goroutine of the job
    Sub,        \* subscribers
    HistCap,    \* historyCap (64); a subscriber's channel holds one more
    MaxTicks    \* bound: metrics events of the ticker

ASSUME JobAssumption == Job \in Caller /\ HistCap \in Nat \ {0} /\ MaxTicks \in Nat

VARIABLES
    status, hist,       \* runningJob.status, .historyBuf: the numbers of its events
    count, final, told, \* events so far, the number of the final one, the run's end is told
    pump, hand,         \* the pump, the event it took from the bus
    ticks,              \* events of the ticker so far
    sub, ch, last, lost \* per subscriber: state, channel, last one received, one was dropped

histVars == <<hist, count, told>>
subVars == <<sub, ch, last, lost>>
jobVars == <<status, histVars, final, pump, hand, ticks, subVars>>
vars == <<plVars, jobVars>>

Init ==
    /\ PlInit /\ status = "running" /\ hist = <<>> /\ count = 0 /\ final = 0 /\ told = FALSE
    /\ pump = "take" /\ hand = "META" /\ ticks \in 0..MaxTicks  \* a short run has fewer
    /\ sub \in [Sub -> {"none", "left"}] \* who never comes has left
    /\ ch = [s \in Sub |-> <<>>]
    /\ last = [s \in Sub |-> 0] /\ lost = [s \in Sub |-> FALSE]

Live == {s \in Sub : sub[s] = "live"}
Room(s) == Len(ch[s]) < HistCap + 1
(* The history is a ring of HistCap.                                       *)
Capped(h) == IF Len(h) > HistCap THEN Tail(h) ELSE h
SyntheticDone == 0   \* the final event as a finished job tells it to who comes late

(* Into the history, and to every subscriber that has room.                *)
Keep(e) ==
    /\ count' = count + 1 /\ hist' = Capped(Append(hist, count + 1))
    /\ told' = (told \/ e \in Terminal)
    /\ ch' = [s \in Sub |-> IF s \in Live /\ Room(s) THEN Append(ch[s], count + 1) ELSE ch[s]]
    /\ lost' = [s \in Sub |-> lost[s] \/ (s \in Live /\ ~Room(s))]

PumpTake ==
    /\ pump = "take" /\ bus # <<>> /\ pump' = "publish"
    /\ hand' = Head(bus) /\ bus' = Tail(bus)
    /\ UNCHANGED <<pipeVars, callVars, runVars, closing, closed, dropped, posts, panic,
                   status, histVars, final, ticks, subVars>>

PumpPublish ==
    /\ pump = "publish" /\ pump' = "take" /\ Keep(hand)
    /\ UNCHANGED <<plVars, status, final, hand, ticks, sub, last>>

(* The range over the bus ends when it is closed and empty.                *)
(* Variant: it ends as soon as the bus is being closed.                    *)
PumpEndsAtClose ==
    /\ pump = "take" /\ closing /\ pump' = "gone"
    /\ UNCHANGED <<plVars, status, histVars, final, hand, ticks, subVars>>
PumpEnds ==
    /\ pump = "take" /\ closed /\ bus = <<>> /\ pump' = "gone"
    /\ UNCHANGED <<plVars, status, histVars, final, hand, ticks, subVars>>

(* The ticker is cancelled with the run but not joined.                    *)
Tick ==
    /\ ticks < MaxTicks /\ ticks' = ticks + 1 /\ Keep("METRICS")
    /\ UNCHANGED <<plVars, status, final, pump, hand, sub, last>>

(* What Run's error makes of the job.                                      *)
StatusOf(err) == CASE err = "nil" -> "succeeded" [] err = "canceled" -> "canceled"
                   [] OTHER -> "failed"

(* The pipeline's Run has returned: the final event, and the end of all    *)
(* subscriptions.  Variant: it waits for room in every channel.            *)
JobEndsBlocking ==
    /\ status = "running" /\ Finished(Job) /\ \A s \in Live : Room(s)
    /\ status' = StatusOf(ret[Job]) /\ Keep("DONE") /\ final' = count + 1
    /\ sub' = [s \in Sub |-> IF s \in Live THEN "ended" ELSE sub[s]]
    /\ UNCHANGED <<plVars, pump, hand, ticks, last>>
JobEnds ==
    /\ status = "running" /\ Finished(Job)
    /\ status' = StatusOf(ret[Job]) /\ Keep("DONE") /\ final' = count + 1
    /\ sub' = [s \in Sub |-> IF s \in Live THEN "ended" ELSE sub[s]]
    /\ UNCHANGED <<plVars, pump, hand, ticks, last>>

(* subscribe: the history, and for a finished job the final event again.   *)
(* Variants: the channel has no room for more than the history; the replay  *)
(* stops one short of it.                                                  *)
Replay == IF status = "running" THEN hist ELSE Append(hist, SyntheticDone)
Joins(s, replayed) ==
    /\ sub[s] = "none" /\ sub' = [sub EXCEPT ![s] = IF status = "running" THEN "live" ELSE "ended"]
    /\ ch' = [ch EXCEPT ![s] = replayed]
    /\ last' = [last EXCEPT ![s] = count - Len(hist)]
    /\ UNCHANGED <<plVars, status, histVars, final, pump, hand, ticks, lost>>
SubscribeSmall(s) ==
    Joins(s, SubSeq(Replay, 1, IF Len(Replay) < HistCap THEN Len(Replay) ELSE HistCap))
SubscribeShort(s) == Joins(s, SubSeq(Replay, 1, Len(Replay) - 1))
Subscribe(s) == Joins(s, Replay)

Receive(s) ==
    /\ ch[s] # <<>>
    /\ last' = [last EXCEPT ![s] = Head(ch[s])] /\ ch' = [ch EXCEPT ![s] = Tail(@)]
    /\ UNCHANGED <<plVars, status, histVars, final, pump, hand, ticks, sub, lost>>

(* The deferred cancel of a request: a no-op when the job has closed it.   *)
Unsubscribe(s) ==
    /\ sub[s] = "live" /\ sub' = [sub EXCEPT ![s] = "left"] /\ ch' = [ch EXCEPT ![s] = <<>>]
    /\ last' = [last EXCEPT ![s] = 0] /\ lost' = [lost EXCEPT ![s] = FALSE]
    /\ UNCHANGED <<plVars, status, histVars, final, pump, hand, ticks>>

Subscriber == \E s \in Sub : Subscribe(s) \/ Receive(s) \/ Unsubscribe(s)
Pump == PumpTake \/ PumpPublish \/ PumpEnds
Next == (PlNext /\ UNCHANGED jobVars) \/ Pump \/ Tick \/ JobEnds \/ Subscriber

Spec == Init /\ [][Next]_vars
Fair == /\ WF_vars(Pump) /\ WF_vars(JobEnds)
        /\ \A c \in Caller : WF_vars(CallerStep(c) /\ UNCHANGED jobVars)
        /\ \A r \in RunId : WF_vars(RunStep(r) /\ UNCHANGED jobVars)
FairSpec == Spec /\ Fair

-----------------------------------------------------------------------------
TypeOK ==
    /\ PlTypeOK /\ status \in {"running", "succeeded", "failed", "canceled"}
    /\ count \in Nat /\ final \in 0..count /\ told \in BOOLEAN
    /\ hist \in Seq(1..count) /\ Len(hist) <= HistCap
    /\ pump \in {"take", "publish", "gone"} /\ hand \in Event /\ ticks \in 0..MaxTicks
    /\ sub \in [Sub -> {"none", "live", "ended", "left"}]
    /\ ch \in [Sub -> Seq(0..count)] /\ \A s \in Sub : Len(ch[s]) <= HistCap + 1
    /\ last \in [Sub -> 0..count] /\ lost \in [Sub -> BOOLEAN]

(* The status of a finished job is the result of its data flow: Wait reads *)
(* the error after the run stored it and before a teardown clears it.      *)
StatusTells ==
    status # "running" =>
        IF joined[Job] = NoRun THEN status = "failed"
        ELSE status = StatusOf(outcome[joined[Job]])

(* A subscriber whose stream ended has the final event last, however late  *)
(* it came (internal/gui/jobs.go:218), unless it was too slow for one.     *)
Seen(s) == <<last[s]>> \o ch[s]
DoneIsLast ==
    \A s \in Sub : sub[s] = "ended" /\ ~lost[s] => Last(Seen(s)) \in {final, SyntheticDone}

(* Between the history it replayed and the events it follows a subscriber  *)
(* misses nothing and sees nothing twice.                                  *)
NoGap ==
    \A s \in Sub : sub[s] = "live" /\ ~lost[s] =>
        Seen(s) = [i \in 1..Len(ch[s]) + 1 |-> count - Len(ch[s]) + i - 1]

(* The end of the run is in the log once the pump is gone, unless the bus  *)
(* was full at some time.                                                  *)
EndIsTold == pump = "gone" /\ ~dropped => told

(* Nobody follows a job for ever.                                          *)
Released == \A s \in Sub : sub[s] = "live" ~> sub[s] # "live"
=============================================================================
