------------------------------ MODULE Pipeline ------------------------------
(***************************************************************************)
(* The life of one pipeline (job/engine.go 68-455) and its event bus       *)
(* (job/event.go).  Callers use it as a library: a caller runs a sequence  *)
(* of calls, each a few critical sections of the pipeline's mutex with     *)
(* nothing held between them.  startDataFlow adds the goroutine of a run.  *)
(*                                                                         *)
(* Run(ctx) is the program "start", "wait", "close"; the command line, the *)
(* job servers and the worker use nothing else.  Pause, Resume and SeekTo  *)
(* change state that the data flow never reads, so a paused run goes on.   *)
(***************************************************************************)
EXTENDS Integers, Sequences, SequencesExt, FiniteSets

CONSTANTS
    Caller,     \* goroutines that call the pipeline
    Programs,   \* what a caller may do: sequences of calls
    Helper,     \* goroutines of a run that outlive it (realtime.run, graphReady.run)
    BusCap,     \* capacity of the bus channel (256)
    MaxRuns,    \* bound: data flows started
    MaxPosts    \* bound: events posted by data flows and helpers

Call == {"start", "pause", "resume", "seek", "wait", "close"}
ASSUME PipelineAssumption ==
    /\ Programs \subseteq Seq(Call)
    /\ BusCap \in Nat \ {0} /\ MaxRuns \in Nat /\ MaxPosts \in Nat
    /\ Caller \cap Helper = {} /\ (Caller \cup Helper) \cap (1..MaxRuns) = {}

(* The states of job/state.go, in their order.                             *)
Null == 0
Ready == 1
Paused == 2
Playing == 3
NoRun == 0

RunId == 1..MaxRuns
Actor == Caller \cup RunId \cup Helper
Outcome == {"nil", "error", "canceled"}
StateEvents == {"READY", "PAUSED", "PLAYING", "NULL", "SEEK"}
Terminal == {"EOS", "ERROR"}
Event == StateEvents \cup Terminal \cup {"META"}

VARIABLES
    state, pauseCh, seekPending,    \* Pipeline fields
    cancel, runDone, runErr,        \* ... the run they belong to, NoRun for nil
    program, ip, tgt, nxt,          \* per caller: its calls, the current one, target, step
    pc, ev,                         \* per actor: place in the code, event to post
    ret, joined,                    \* per caller: result of its last call, run it waited for
    outcome, over,                  \* per run: its result, its done channel closed
    ctx, parent,                    \* per run: cancelled; the caller's context cancelled
    bus, closing, closed, dropped,  \* the event bus
    posts, panic                    \* events so far; a send on a closed channel

pipeVars == <<state, pauseCh, seekPending, cancel, runDone, runErr>>
callVars == <<program, pc, ip, tgt, nxt, ev, ret, joined>>
runVars  == <<outcome, over, ctx, parent>>
busVars  == <<bus, closing, closed, dropped, posts, panic>>
plVars == <<pipeVars, callVars, runVars, busVars>>

PlInit ==
    /\ state = Null /\ pauseCh = "nil" /\ seekPending = FALSE
    /\ cancel = NoRun /\ runDone = NoRun /\ runErr = "nil"
    /\ \E h \in SUBSET Helper :     \* helpers this run has: none without real-time mode
        pc = [a \in Actor |-> IF a \in Caller THEN "idle"
                              ELSE IF a \in Helper \ h THEN "gone" ELSE "off"]
    /\ program \in [Caller -> Programs]
    /\ ip = [c \in Caller |-> 1] /\ tgt = [c \in Caller |-> Null] /\ nxt = [c \in Caller |-> Null]
    /\ ev = [a \in Actor |-> "META"] /\ ret = [c \in Caller |-> "none"]
    /\ joined = [c \in Caller |-> NoRun]
    /\ outcome = [r \in RunId |-> "none"] /\ over = [r \in RunId |-> FALSE]
    /\ ctx = [r \in RunId |-> FALSE] /\ parent = FALSE
    /\ bus = <<>> /\ closing = FALSE /\ closed = FALSE /\ dropped = FALSE
    /\ posts = 0 /\ panic = FALSE

At(c, op) == pc[c] = "idle" /\ ip[c] <= Len(program[c]) /\ program[c][ip[c]] = op
Finished(c) == pc[c] = "idle" /\ ip[c] > Len(program[c])
Cancelled(r) == ctx[r] \/ parent

(* The call ends; a caller whose start failed makes no further one.  What  *)
(* Run returns is what Start or Wait did: Close never fails.               *)
Returns(c, res) ==
    /\ pc' = [pc EXCEPT ![c] = "idle"]
    /\ ret' = [ret EXCEPT ![c] = IF program[c][ip[c]] = "close" THEN @ ELSE res]
    /\ ip' = [ip EXCEPT ![c] = IF res = "refused" /\ program[c][ip[c]] = "start"
                               THEN Len(program[c]) + 1 ELSE @ + 1]
Moves(c, place) == pc' = [pc EXCEPT ![c] = place] /\ UNCHANGED <<ip, ret>>

(***************************************************************************)
(* SetState: the state is read once, the walk comes after.                 *)
(***************************************************************************)
Target(op) == CASE op \in {"start", "resume"} -> Playing
                [] op \in {"pause", "seek"} -> Paused
                [] op = "close" -> Null

AfterState(c) ==
    LET op == program[c][ip[c]] IN
    IF op = "seek" THEN Moves(c, "seek")
    ELSE IF op = "close" THEN Moves(c, "busclose")
    ELSE Returns(c, "nil")

SetState(c) ==
    /\ \E op \in Call \ {"wait"} :
        /\ At(c, op) /\ tgt' = [tgt EXCEPT ![c] = Target(op)]
        /\ CASE op = "seek" /\ state \notin {Playing, Paused} ->
                    Returns(c, "refused") /\ UNCHANGED nxt
             [] state = Target(op) -> AfterState(c) /\ UNCHANGED nxt
             [] state # Target(op) /\ Target(op) = Null -> Moves(c, "null1") /\ UNCHANGED nxt
             [] op # "seek" /\ Target(op) > state ->
                    Moves(c, "step") /\ nxt' = [nxt EXCEPT ![c] = state + 1]
             [] state = Playing /\ Target(op) = Paused ->
                    Moves(c, "back") /\ nxt' = [nxt EXCEPT ![c] = Paused]
    /\ UNCHANGED <<program, pipeVars, ev, joined, runVars, busVars>>

(* stepForward: what the step does, then the state, then the event.        *)
StepReady(c) ==
    /\ pc[c] = "step" /\ nxt[c] = Ready
    /\ \/ Moves(c, "set")
       \/ Returns(c, "refused")    \* no inputs or no outputs
    /\ UNCHANGED <<program, pipeVars, tgt, nxt, ev, joined, runVars, busVars>>

StepPaused(c) ==
    /\ pc[c] = "step" /\ nxt[c] = Paused /\ Moves(c, "set") /\ pauseCh' = "open"
    /\ UNCHANGED <<program, state, seekPending, cancel, runDone, runErr, tgt, nxt, ev, joined,
                   runVars, busVars>>

Unpaused == IF pauseCh = "open" THEN "closed" ELSE pauseCh

StepPlaying(c) ==
    /\ pc[c] = "step" /\ nxt[c] = Playing /\ pauseCh' = Unpaused
    /\ Moves(c, IF runDone = NoRun THEN "flow" ELSE "set")
    /\ UNCHANGED <<program, state, seekPending, cancel, runDone, runErr, tgt, nxt, ev, joined,
                   runVars, busVars>>

StartDataFlow(c) ==
    /\ pc[c] = "flow"
    /\ \E r \in RunId :
        /\ pc[r] = "off" /\ \A q \in 1..r - 1 : pc[q] # "off"
        /\ cancel' = r /\ runDone' = r
        /\ pc' = [a \in Actor |-> IF a = c THEN "set" ELSE IF a = r \/ (a \in Helper /\ pc[a] = "off")
                                  THEN "run" ELSE pc[a]]
    /\ UNCHANGED <<state, pauseCh, seekPending, runErr, program, ip, tgt, nxt, ev, ret, joined,
                   runVars, busVars>>

Name(s) == CASE s = Null -> "NULL" [] s = Ready -> "READY"
             [] s = Paused -> "PAUSED" [] s = Playing -> "PLAYING"

SetReached(c) ==
    /\ pc[c] = "set" /\ Moves(c, "post") /\ state' = nxt[c]
    /\ ev' = [ev EXCEPT ![c] = Name(nxt[c])]
    /\ UNCHANGED <<program, pauseCh, seekPending, cancel, runDone, runErr, tgt, nxt, joined, runVars, busVars>>

StepBackward(c) ==
    /\ pc[c] = "back" /\ Moves(c, "post") /\ pauseCh' = "open" /\ state' = Paused
    /\ ev' = [ev EXCEPT ![c] = "PAUSED"]
    /\ UNCHANGED <<program, seekPending, cancel, runDone, runErr, tgt, nxt, joined, runVars, busVars>>

SeekTo(c) ==
    /\ pc[c] = "seek" /\ Moves(c, "post") /\ seekPending' = TRUE
    /\ ev' = [ev EXCEPT ![c] = "SEEK"]
    /\ UNCHANGED <<program, state, pauseCh, cancel, runDone, runErr, tgt, nxt, joined, runVars, busVars>>

(* transitionToNull: the run is cancelled, not waited for: no goroutine of  *)
(* a graph run belongs to the errgroup it waits on.                        *)
ToNull(c) ==
    /\ pc[c] = "null1" /\ Moves(c, "null2") /\ pauseCh' = Unpaused
    /\ ev' = [ev EXCEPT ![c] = IF state = Null THEN "META" ELSE "NULL"]
    /\ ctx' = [r \in RunId |-> ctx[r] \/ cancel = r]
    /\ UNCHANGED <<program, state, seekPending, cancel, runDone, runErr, tgt, nxt, joined,
                   outcome, over, parent, busVars>>

ClearAll(c) ==
    /\ pc[c] = "null2" /\ state' = Null /\ pauseCh' = "nil" /\ seekPending' = FALSE
    /\ cancel' = NoRun /\ runDone' = NoRun /\ runErr' = "nil"
    /\ IF ev[c] = "NULL" THEN Moves(c, "post") ELSE AfterState(c)
    /\ UNCHANGED <<program, tgt, nxt, ev, joined, runVars, busVars>>

(* Wait: the done channel is read, then awaited, then the error is read.   *)
Wait(c) ==
    /\ At(c, "wait") /\ joined' = [joined EXCEPT ![c] = runDone]
    /\ IF runDone = NoRun THEN Returns(c, "nil") ELSE Moves(c, "wait")
    /\ UNCHANGED <<program, pipeVars, tgt, nxt, ev, runVars, busVars>>
(* Variant: it does not await the channel.                                 *)
WaitedEarly(c) ==
    /\ pc[c] = "wait" /\ joined[c] # NoRun /\ Returns(c, runErr)
    /\ UNCHANGED <<program, pipeVars, tgt, nxt, ev, joined, runVars, busVars>>
Waited(c) ==
    /\ pc[c] = "wait" /\ joined[c] # NoRun /\ over[joined[c]] /\ Returns(c, runErr)
    /\ UNCHANGED <<program, pipeVars, tgt, nxt, ev, joined, runVars, busVars>>

(***************************************************************************)
(* The goroutine of a run.                                                 *)
(***************************************************************************)
(* Variant: done is closed before the error is stored.                     *)
RunEndsFirst(r) ==
    /\ r \in RunId /\ pc[r] = "run" /\ pc' = [pc EXCEPT ![r] = "store"]
    /\ over' = [over EXCEPT ![r] = TRUE]
    /\ \E o \in Outcome : /\ o = "canceled" => Cancelled(r)
                          /\ outcome' = [outcome EXCEPT ![r] = o]
    /\ UNCHANGED <<program, pipeVars, ip, tgt, nxt, ev, ret, joined, ctx, parent, busVars>>
RunEnds(r) ==
    /\ r \in RunId /\ pc[r] = "run" /\ pc' = [pc EXCEPT ![r] = "store"]
    /\ \E o \in Outcome : /\ o = "canceled" => Cancelled(r)
                          /\ outcome' = [outcome EXCEPT ![r] = o]
    /\ UNCHANGED <<program, pipeVars, ip, tgt, nxt, ev, ret, joined, over, ctx, parent, busVars>>

StoreErr(r) ==
    /\ r \in RunId /\ pc[r] = "store" /\ pc' = [pc EXCEPT ![r] = "post"] /\ runErr' = outcome[r]
    /\ ev' = [ev EXCEPT ![r] = IF outcome[r] = "nil" THEN "EOS" ELSE "ERROR"]
    /\ UNCHANGED <<program, state, pauseCh, seekPending, cancel, runDone, ip, tgt, nxt, ret, joined,
                   runVars, busVars>>

CloseDone(r) ==
    /\ r \in RunId /\ pc[r] = "done" /\ pc' = [pc EXCEPT ![r] = "gone"]
    /\ over' = [over EXCEPT ![r] = TRUE]
    /\ UNCHANGED <<program, pipeVars, ip, tgt, nxt, ev, ret, joined, outcome, ctx, parent, busVars>>

(* A handler of a run, or a goroutine beside it, has something to tell.    *)
HasNews(a) ==
    /\ a \in RunId \cup Helper /\ pc[a] = "run" /\ posts < MaxPosts /\ posts' = posts + 1
    /\ pc' = [pc EXCEPT ![a] = "post"] /\ ev' = [ev EXCEPT ![a] = "META"]
    /\ UNCHANGED <<program, pipeVars, ip, tgt, nxt, ret, joined, runVars, bus, closing, closed, dropped, panic>>

HelperStops(a) ==
    /\ a \in Helper /\ pc[a] = "run" /\ \E r \in RunId : pc[r] # "off" /\ Cancelled(r)
    /\ pc' = [pc EXCEPT ![a] = "gone"]
    /\ UNCHANGED <<program, pipeVars, ip, tgt, nxt, ev, ret, joined, runVars, busVars>>

(***************************************************************************)
(* The bus.  Post looks whether it is closed, then sends without blocking; *)
(* a send on a closed channel panics.  dropped is whether its counter moved.*)
(***************************************************************************)
AfterPost(a) ==
    IF a \notin Caller
    THEN /\ pc' = [pc EXCEPT ![a] = IF ev[a] \in Terminal THEN "done" ELSE "run"]
         /\ UNCHANGED <<ip, ret, nxt>>
    ELSE IF nxt[a] < tgt[a] /\ ev[a] # "SEEK"
    THEN Moves(a, "step") /\ nxt' = [nxt EXCEPT ![a] = @ + 1]
    ELSE /\ nxt' = [nxt EXCEPT ![a] = Null]
         /\ IF ev[a] = "SEEK" THEN Returns(a, "nil") ELSE AfterState(a)

(* In a walk nxt is the state just reached; elsewhere there is none left.  *)
Post(a) ==
    /\ pc[a] = "post"
    /\ IF closing THEN AfterPost(a) ELSE pc' = [pc EXCEPT ![a] = "send"] /\ UNCHANGED <<ip, ret, nxt>>
    /\ UNCHANGED <<program, pipeVars, tgt, ev, joined, runVars, busVars>>

Send(a) ==
    /\ pc[a] = "send" /\ AfterPost(a)
    /\ IF closed THEN panic' = TRUE /\ UNCHANGED <<bus, dropped>>
       ELSE IF Len(bus) < BusCap THEN bus' = Append(bus, ev[a]) /\ UNCHANGED <<dropped, panic>>
       ELSE dropped' = TRUE /\ UNCHANGED <<bus, panic>>
    /\ UNCHANGED <<program, pipeVars, tgt, ev, joined, runVars, closing, closed, posts>>

BusClose(c) ==
    /\ pc[c] = "busclose" /\ Moves(c, "closech") /\ closing' = TRUE
    /\ UNCHANGED <<program, pipeVars, tgt, nxt, ev, joined, runVars, bus, closed, dropped, posts, panic>>
CloseChannel(c) ==
    /\ pc[c] = "closech" /\ Returns(c, "nil") /\ closed' = TRUE
    /\ UNCHANGED <<program, pipeVars, tgt, nxt, ev, joined, runVars, bus, closing, dropped, posts, panic>>

(* The context the job gave to Start; a cancel before the run has begun is  *)
(* one that the run sees first of all.                                     *)
CancelParent ==
    /\ ~parent /\ parent' = TRUE /\ \E r \in RunId : pc[r] = "run"
    /\ UNCHANGED <<pipeVars, callVars, outcome, over, ctx, busVars>>

CallerStep(c) ==
    \/ SetState(c) \/ StepReady(c) \/ StepPaused(c) \/ StepPlaying(c) \/ StartDataFlow(c)
    \/ SetReached(c) \/ StepBackward(c) \/ SeekTo(c) \/ ToNull(c) \/ ClearAll(c)
    \/ Wait(c) \/ Waited(c) \/ BusClose(c) \/ CloseChannel(c) \/ Post(c) \/ Send(c)
RunStep(r) == RunEnds(r) \/ StoreErr(r) \/ Post(r) \/ Send(r) \/ CloseDone(r)
HelperStep(a) == HelperStops(a) \/ Post(a) \/ Send(a)
News == \E a \in RunId \cup Helper : HasNews(a)

PlNext == \/ \E c \in Caller : CallerStep(c)
          \/ \E r \in RunId : RunStep(r)
          \/ \E a \in Helper : HelperStep(a)
          \/ News \/ CancelParent
(* Goroutines are scheduled; a run ends (that is the scheduler's promise).  *)
PlFair == /\ \A c \in Caller : WF_plVars(CallerStep(c))
          /\ \A r \in RunId : WF_plVars(RunStep(r))
PlSpec == PlInit /\ [][PlNext]_plVars

PlTypeOK ==
    /\ state \in Null..Playing /\ pauseCh \in {"nil", "open", "closed"} /\ seekPending \in BOOLEAN
    /\ cancel \in 0..MaxRuns /\ runDone \in 0..MaxRuns /\ runErr \in Outcome
    /\ pc \in [Actor -> {"off", "idle", "step", "flow", "set", "post", "send", "back", "seek",
                         "null1", "null2", "busclose", "closech", "wait", "run", "store",
                         "done", "gone"}]
    /\ program \in [Caller -> Programs] /\ ip \in [Caller -> Nat]
    /\ tgt \in [Caller -> Null..Playing] /\ nxt \in [Caller -> Null..Playing]
    /\ ev \in [Actor -> Event] /\ ret \in [Caller -> Outcome \cup {"none", "refused"}]
    /\ joined \in [Caller -> 0..MaxRuns] /\ outcome \in [RunId -> Outcome \cup {"none"}]
    /\ over \in [RunId -> BOOLEAN] /\ ctx \in [RunId -> BOOLEAN] /\ parent \in BOOLEAN
    /\ bus \in Seq(Event) /\ Len(bus) <= BusCap /\ closing \in BOOLEAN /\ closed \in BOOLEAN
    /\ dropped \in BOOLEAN /\ posts \in 0..MaxPosts /\ panic \in BOOLEAN

(* NULL is "Initial/terminal state. No resources allocated."               *)
(* (docs/architecture/graph-state-machine.md:9): no data flow is running.  *)
NullIsIdle == state = Null => \A r \in RunId : pc[r] \in {"off", "gone"}

(* Post is "Safe to call after Close (becomes a no-op)" (job/event.go:318). *)
NoPanic == ~panic
=============================================================================
