------------------------------ MODULE Scheduler ------------------------------
(***************************************************************************)
(* runtime.Scheduler.Run and the node handlers of job/ that it runs.       *)
(*                                                                         *)
(* Every node of a media graph is a goroutine, every edge a bounded Go     *)
(* channel of libav frames and packets.  A value has exactly one owner at  *)
(* a time, the one that has to Close it: the channel it sits on, the       *)
(* handler that holds it, a forwarder goroutine of a multi-input filter,   *)
(* or that filter's message channel.  The first handler that returns an    *)
(* error cancels the context all the others select on; when every handler  *)
(* has returned, Run releases what is left on the edges.                   *)
(***************************************************************************)
EXTENDS Integers, Sequences

CONSTANTS
    Node, Edge,     \* the compiled graph: its nodes and its typed edges
    From, To,       \* the node that feeds an edge, the node that reads it
    Kind,           \* the handler of a node (graphRunner.handle)
    Streams,        \* per node, the edge lists one emitted value is sent to
    Cap,            \* channel capacity of an edge
    MsgCap,         \* capacity of a multi-input filter's message channel
    Unbounded,      \* sources that never reach end of file (lavfi, devices)
    Limited,        \* sinks with an output limit (-t, -frames, -fs)
    MaxRead,        \* bound: packets a bounded source has to read
    MaxPull,        \* bound: values one input makes a codec or filter emit
    Value,          \* identities of frames and packets, recycled after Close
    None            \* "no value"

Kinds == {"source", "filter", "multi", "encoder", "copy", "sink"}
In(n)  == {e \in Edge : To[e] = n}
Out(n) == {e \in Edge : From[e] = n}

ASSUME GraphAssumption ==
    /\ From \in [Edge -> Node] /\ To \in [Edge -> Node]
    /\ Kind \in [Node -> Kinds]
    /\ Streams \in [Node -> SUBSET Seq(Edge)]
    /\ \A n \in Node : \A s \in Streams[n] :
          s # <<>> /\ \A i \in DOMAIN s : From[s[i]] = n
(* Sinks and multi-input filters read several edges; the other handlers     *)
(* insist on one input, and a source reads a file.                          *)
ASSUME InputAssumption ==
    /\ \A n \in Node : Kind[n] = "source" => In(n) = {}
    /\ \A e, f \in Edge :
          To[e] = To[f] /\ Kind[To[e]] \in {"filter", "encoder", "copy"} => e = f
ASSUME BoundAssumption ==
    /\ Cap \in [Edge -> Nat \ {0}] /\ MsgCap \in Nat \ {0}
    /\ Unbounded \subseteq Node /\ Limited \subseteq Node
    /\ MaxRead \in Nat /\ MaxPull \in Nat
    /\ None \notin Value

VARIABLES
    chan, closed,   \* the edge channels
    pc,             \* where a handler is: "loop", "flush", "closing", "closed",
                    \* "exited"
    hold, dest,     \* the value a handler is sending and the edges still to go
    todo,           \* how many more values the codec or filter will give
    left,           \* packets a bounded source still has to read
    rd, fv, msg,    \* per-input goroutines of sinks and multi-input filters
    sres,           \* a sink's own errgroup result
    stopped,        \* sinks whose output limit is reached (stopAll)
    ret,            \* what a handler returned
    owner,          \* who has to Close a value
    cancelled, outside, err, run
                    \* the errgroup context, the caller's cancel, Run's result

handlerVars == <<pc, hold, dest, todo, left, ret>>
inputVars   == <<rd, fv, msg, sres, stopped>>
runVars     == <<cancelled, outside, err, run>>
vars == <<chan, closed, handlerVars, inputVars, owner, runVars>>

(* The owners of a value. *)
Free      == <<"free", 0>>
Lost      == <<"lost", 0>>
OnEdge(e) == <<"edge", e>>
HeldBy(n) == <<"node", n>>
FwdOf(e)  == <<"fwd", e>>
MsgOf(n)  == <<"msg", n>>
Owners == {Free, Lost} \cup {OnEdge(e) : e \in Edge} \cup {HeldBy(n) : n \in Node}
            \cup {FwdOf(e) : e \in Edge} \cup {MsgOf(n) : n \in Node}

live  == {v \in Value : owner[v] # Free}
Fresh == CHOOSE v \in Value : owner[v] = Free
CanAlloc == \E v \in Value : owner[v] = Free

Linear(n) == Kind[n] \in {"filter", "encoder"}
Readers == {e \in Edge : Kind[To[e]] \in {"sink", "multi"}}
Results == {"nil", "err", "ctx"}

-----------------------------------------------------------------------------
Init ==
    /\ chan = [e \in Edge |-> <<>>] /\ closed = [e \in Edge |-> FALSE]
    /\ pc = [n \in Node |-> "loop"]
    /\ hold = [n \in Node |-> None] /\ dest = [n \in Node |-> <<>>]
    /\ todo = [n \in Node |-> 0] /\ left = [n \in Node |-> MaxRead]
    /\ rd = [e \in Edge |-> "run"] /\ fv = [e \in Edge |-> None]
    /\ msg = [n \in Node |-> <<>>]
    /\ sres = [n \in Node |-> "nil"] /\ stopped = {}
    /\ ret = [n \in Node |-> "nil"]
    /\ owner = [v \in Value |-> Free]
    /\ cancelled = FALSE /\ outside = FALSE /\ err = "nil" /\ run = "waiting"

(* A handler is at the top of its loop, with nothing in hand. *)
Idle(n) == pc[n] = "loop" /\ todo[n] = 0 /\ dest[n] = <<>>

(* The handler returns; the goroutine around it still has to close its outputs. *)
Return(n, r) == pc' = [pc EXCEPT ![n] = "closing"] /\ ret' = [ret EXCEPT ![n] = r]

(* The codec or filter will give up to MaxPull values before it says EAGAIN. *)
Pull(n) == \E k \in 0..MaxPull : todo' = [todo EXCEPT ![n] = k]

Give(v, o) == owner' = [owner EXCEPT ![v] = o]
TakeFrom(e) == chan' = [chan EXCEPT ![e] = Tail(@)]

(* A receive sees the end of its input only when the channel is closed and  *)
(* empty.  Variant: an empty channel is taken for the end.                  *)
EmptyIsEnd(e) == chan[e] = <<>>
Ended(e) == chan[e] = <<>> /\ closed[e]

(* A bounded source stops at end of file. *)
MayRead(n) == n \in Unbounded \/ left[n] > 0

(*************************** sources ***************************************)
SourceRead(n) ==
    /\ Kind[n] = "source" /\ Idle(n) /\ ~cancelled
    /\ MayRead(n)
    /\ left' = IF n \in Unbounded THEN left ELSE [left EXCEPT ![n] = @ - 1]
    /\ Pull(n)
    /\ UNCHANGED <<chan, closed, pc, hold, dest, ret, inputVars, owner, runVars>>

SourceEof(n) ==
    /\ Kind[n] = "source" /\ Idle(n) /\ n \notin Unbounded /\ left[n] = 0
    /\ pc' = [pc EXCEPT ![n] = "flush"]
    /\ Pull(n)
    /\ UNCHANGED <<chan, closed, hold, dest, left, ret, inputVars, owner, runVars>>

(* ctx.Err() at the loop top, or ctx.Done() in a handler's receive. *)
LoopCancelled(n) ==
    /\ Kind[n] \in {"source", "filter", "encoder", "multi"} /\ Idle(n) /\ cancelled
    /\ Return(n, "ctx")
    /\ UNCHANGED <<chan, closed, hold, dest, todo, left, inputVars, owner, runVars>>

(************** filters and encoders: receive, pull, send ******************)
(* The frame is handed to libav and Closed on every path of the loop body. *)
Recv(n) ==
    /\ Linear(n) /\ Idle(n)
    /\ \E e \in In(n) : /\ chan[e] # <<>>
                        /\ TakeFrom(e) /\ Give(Head(chan[e]), Free)
    /\ Pull(n)
    /\ UNCHANGED <<closed, pc, hold, dest, left, ret, inputVars, runVars>>

(* A closed input ends the loop; a cancelled context wins over the flush. *)
Eos(n) ==
    /\ Linear(n) /\ Idle(n)
    /\ \E e \in In(n) : Ended(e)
    /\ \/ cancelled /\ Return(n, "ctx") /\ UNCHANGED todo
       \/ ~cancelled /\ pc' = [pc EXCEPT ![n] = "flush"] /\ Pull(n) /\ UNCHANGED ret
    /\ UNCHANGED <<chan, closed, hold, dest, left, inputVars, owner, runVars>>

Emit(n) ==
    /\ pc[n] \in {"loop", "flush"} /\ todo[n] > 0 /\ dest[n] = <<>> /\ CanAlloc
    /\ hold' = [hold EXCEPT ![n] = Fresh] /\ Give(Fresh, HeldBy(n))
    /\ \E s \in Streams[n] : dest' = [dest EXCEPT ![n] = s]
    /\ todo' = [todo EXCEPT ![n] = @ - 1]
    /\ UNCHANGED <<chan, closed, pc, left, ret, inputVars, runVars>>

FlushDone(n) ==
    /\ pc[n] = "flush" /\ todo[n] = 0 /\ dest[n] = <<>>
    /\ Return(n, "nil")
    /\ UNCHANGED <<chan, closed, hold, dest, todo, left, inputVars, owner, runVars>>

(* Variant: the same pointer goes to every recipient.                       *)
SendShared(n) ==
    /\ Len(dest[n]) > 1
    /\ LET e == Head(dest[n]) IN
          /\ Len(chan[e]) < Cap[e]
          /\ chan' = [chan EXCEPT ![e] = Append(@, hold[n])]
    /\ dest' = [dest EXCEPT ![n] = Tail(@)]
    /\ UNCHANGED <<closed, pc, hold, todo, left, ret, inputVars, owner, runVars>>

(* Every recipient but the last gets a clone, the last one the value itself. *)
SendClone(n) ==
    /\ Len(dest[n]) > 1 /\ CanAlloc
    /\ LET e == Head(dest[n]) IN
          /\ Len(chan[e]) < Cap[e]
          /\ chan' = [chan EXCEPT ![e] = Append(@, Fresh)] /\ Give(Fresh, OnEdge(e))
    /\ dest' = [dest EXCEPT ![n] = Tail(@)]
    /\ UNCHANGED <<closed, pc, hold, todo, left, ret, inputVars, runVars>>

(* Variant: the sender closes what it has just sent. *)
SendAndClose(n) ==
    /\ Len(dest[n]) = 1
    /\ LET e == Head(dest[n]) IN
          /\ Len(chan[e]) < Cap[e]
          /\ chan' = [chan EXCEPT ![e] = Append(@, hold[n])] /\ Give(hold[n], Free)
    /\ dest' = [dest EXCEPT ![n] = <<>>] /\ hold' = [hold EXCEPT ![n] = None]
    /\ UNCHANGED <<closed, pc, todo, left, ret, inputVars, runVars>>

SendLast(n) ==
    /\ Len(dest[n]) = 1
    /\ LET e == Head(dest[n]) IN
          /\ Len(chan[e]) < Cap[e]
          /\ chan' = [chan EXCEPT ![e] = Append(@, hold[n])] /\ Give(hold[n], OnEdge(e))
    /\ dest' = [dest EXCEPT ![n] = <<>>] /\ hold' = [hold EXCEPT ![n] = None]
    /\ UNCHANGED <<closed, pc, todo, left, ret, inputVars, runVars>>

(* On ctx.Done the value not sent is Closed: the original by a source and   *)
(* by every last send, but only the clone by an encoder or copy node, whose *)
(* caller does not know about the original any more.                        *)
SendCancelled(n) ==
    /\ dest[n] # <<>> /\ cancelled
    /\ Give(hold[n], IF Kind[n] \in {"encoder", "copy"} /\ Len(dest[n]) > 1
                     THEN Lost ELSE Free)
    /\ hold' = [hold EXCEPT ![n] = None] /\ dest' = [dest EXCEPT ![n] = <<>>]
    /\ todo' = [todo EXCEPT ![n] = 0]
    /\ Return(n, "ctx")
    /\ UNCHANGED <<chan, closed, left, inputVars, runVars>>

(* A read, a push, a pull, a flush or a clone fails; what is in hand is Closed. *)
Fail(n) ==
    /\ Kind[n] # "sink" /\ pc[n] \in {"loop", "flush"}
    /\ \/ Kind[n] = "source" \/ Len(dest[n]) > 1
       \/ Kind[n] # "copy" /\ (pc[n] = "flush" \/ todo[n] > 0) /\ dest[n] = <<>>
    /\ owner' = IF dest[n] = <<>> THEN owner ELSE [owner EXCEPT ![hold[n]] = Free]
    /\ hold' = [hold EXCEPT ![n] = None] /\ dest' = [dest EXCEPT ![n] = <<>>]
    /\ todo' = [todo EXCEPT ![n] = 0]
    /\ Return(n, "err")
    /\ UNCHANGED <<chan, closed, left, inputVars, runVars>>

(**************** copy nodes: the received packet is forwarded *************)
CopyRecv(n) ==
    /\ Kind[n] = "copy" /\ Idle(n)
    /\ \E e \in In(n) : /\ chan[e] # <<>> /\ TakeFrom(e)
                        /\ hold' = [hold EXCEPT ![n] = Head(chan[e])]
                        /\ Give(Head(chan[e]), HeldBy(n))
    /\ \E s \in Streams[n] : dest' = [dest EXCEPT ![n] = s]
    /\ UNCHANGED <<closed, pc, todo, left, ret, inputVars, runVars>>

(* The loop ranges over its channel: only the producer's close ends it. *)
CopyEos(n) ==
    /\ Kind[n] = "copy" /\ Idle(n)
    /\ \E e \in In(n) : Ended(e)
    /\ Return(n, "nil")
    /\ UNCHANGED <<chan, closed, hold, dest, todo, left, inputVars, owner, runVars>>

(********* multi-input filters: one forwarder per input, one message queue *)
(* The forwarders know no context and outlive the handler.                 *)
FwdTake(e) ==
    /\ Kind[To[e]] = "multi" /\ rd[e] = "run" /\ chan[e] # <<>>
    /\ TakeFrom(e) /\ fv' = [fv EXCEPT ![e] = Head(chan[e])]
    /\ Give(Head(chan[e]), FwdOf(e))
    /\ rd' = [rd EXCEPT ![e] = "push"]
    /\ UNCHANGED <<closed, handlerVars, msg, sres, stopped, runVars>>

FwdEos(e) ==
    /\ Kind[To[e]] = "multi" /\ rd[e] = "run" /\ Ended(e)
    /\ rd' = [rd EXCEPT ![e] = "push"]
    /\ UNCHANGED <<chan, closed, handlerVars, fv, msg, sres, stopped, owner, runVars>>

(* A message without a frame says that this input is exhausted. *)
FwdPush(e) ==
    /\ rd[e] = "push" /\ Len(msg[To[e]]) < MsgCap
    /\ msg' = [msg EXCEPT ![To[e]] = Append(@, fv[e])]
    /\ fv' = [fv EXCEPT ![e] = None]
    /\ IF fv[e] = None
       THEN rd' = [rd EXCEPT ![e] = "done"] /\ UNCHANGED owner
       ELSE rd' = [rd EXCEPT ![e] = "run"] /\ Give(fv[e], MsgOf(To[e]))
    /\ UNCHANGED <<chan, closed, handlerVars, sres, stopped, runVars>>

(* The context is looked at after the message is taken off the channel. *)
MultiRecv(n) ==
    /\ Kind[n] = "multi" /\ Idle(n) /\ msg[n] # <<>>
    /\ msg' = [msg EXCEPT ![n] = Tail(@)]
    /\ LET m == Head(msg[n]) IN
          owner' = IF m = None THEN owner
                   ELSE [owner EXCEPT ![m] = IF cancelled THEN Lost ELSE Free]
    /\ \/ cancelled /\ Return(n, "ctx") /\ UNCHANGED todo
       \/ ~cancelled /\ Pull(n) /\ UNCHANGED <<pc, ret>>
    /\ UNCHANGED <<chan, closed, hold, dest, left, rd, fv, sres, stopped, runVars>>

MultiEos(n) ==
    /\ Kind[n] = "multi" /\ Idle(n) /\ msg[n] = <<>>
    /\ \A e \in In(n) : rd[e] = "done"
    /\ pc' = [pc EXCEPT ![n] = "flush"] /\ Pull(n)
    /\ UNCHANGED <<chan, closed, hold, dest, left, ret, inputVars, owner, runVars>>

(**************** sinks: one consumer goroutine per input ******************)
(* A packet is written, or dropped once an output limit set stopAll; either *)
(* way it is Closed.  A muxer error ends this consumer with the error.      *)
SinkRecv(e) ==
    /\ Kind[To[e]] = "sink" /\ rd[e] = "run" /\ chan[e] # <<>>
    /\ TakeFrom(e) /\ Give(Head(chan[e]), Free)
    /\ \/ stopped' \in {stopped, stopped \cup ({To[e]} \cap Limited)} /\ UNCHANGED <<rd, sres>>
       \/ /\ To[e] \notin stopped
          /\ rd' = [rd EXCEPT ![e] = "done"]
          /\ sres' = [sres EXCEPT ![To[e]] = IF @ = "nil" THEN "err" ELSE @]
          /\ UNCHANGED stopped
    /\ UNCHANGED <<closed, handlerVars, fv, msg, runVars>>

SinkEos(e) ==
    /\ Kind[To[e]] = "sink" /\ rd[e] = "run" /\ Ended(e)
    /\ rd' = [rd EXCEPT ![e] = "done"]
    /\ UNCHANGED <<chan, closed, handlerVars, fv, msg, sres, stopped, owner, runVars>>

(* Variant: the consumers do not select on the derived context. *)
RunCtxOnly(n) == cancelled
EgctxDone(n) == cancelled \/ sres[n] # "nil"

(* egctx: the run's context, or the first error of a sibling consumer.  A   *)
(* single consumer just leaves its loop and goes on to the trailer.         *)
SinkCancelled(e) ==
    LET n == To[e] IN
    /\ Kind[n] = "sink" /\ rd[e] = "run" /\ EgctxDone(n)
    /\ rd' = [rd EXCEPT ![e] = "done"]
    /\ sres' = IF In(n) # {e} /\ sres[n] = "nil" THEN [sres EXCEPT ![n] = "ctx"] ELSE sres
    /\ UNCHANGED <<chan, closed, handlerVars, fv, msg, stopped, owner, runVars>>

(* eg.Wait, then the trailer, which may fail.  Variant: its result is lost. *)
WaitResultDropped(n, r) == r
SinkResult(n, r) == IF sres[n] = "nil" THEN r ELSE sres[n]
SinkReturn(n) ==
    /\ Kind[n] = "sink" /\ pc[n] = "loop"
    /\ \A e \in In(n) : rd[e] = "done"
    /\ \E r \in {"nil", "err"} : Return(n, SinkResult(n, r))
    /\ UNCHANGED <<chan, closed, hold, dest, todo, left, inputVars, owner, runVars>>

(**************** Scheduler.Run ********************************************)
(* Variant: the outputs are closed when the handler starts to flush. *)
CloseEarly(n) == pc[n] \in {"flush", "closing"}
MayClose(n) == pc[n] = "closing"
CloseOuts(n) ==
    /\ MayClose(n)
    /\ closed' = [e \in Edge |-> closed[e] \/ e \in Out(n)]
    /\ pc' = [pc EXCEPT ![n] = "closed"]
    /\ UNCHANGED <<chan, hold, dest, todo, left, ret, inputVars, owner, runVars>>

(* The errgroup sees the result only once the outputs are closed: the first *)
(* error is the one Run returns, and it cancels the context.                *)
(* Variant: the last error wins. *)
LastError(n) == ret[n] # "nil"
FirstError(n) == ret[n] # "nil" /\ err = "nil"
Exit(n) ==
    /\ pc[n] = "closed"
    /\ pc' = [pc EXCEPT ![n] = "exited"]
    /\ IF FirstError(n)
       THEN err' = ret[n] /\ cancelled' = TRUE
       ELSE UNCHANGED <<err, cancelled>>
    /\ UNCHANGED <<chan, closed, hold, dest, todo, left, ret, inputVars, owner, outside, run>>

(* The caller cancels the context it gave to Run. *)
OutsideCancel ==
    /\ run = "waiting" /\ ~outside
    /\ outside' = TRUE /\ cancelled' = TRUE
    /\ UNCHANGED <<chan, closed, handlerVars, inputVars, owner, err, run>>

Join ==
    /\ run = "waiting" /\ \A n \in Node : pc[n] = "exited"
    /\ run' = "draining"
    /\ UNCHANGED <<chan, closed, handlerVars, inputVars, owner, cancelled, outside, err>>

(* drainClose releases what the consumers left behind. *)
Drain(e) ==
    /\ run = "draining" /\ chan[e] # <<>>
    /\ TakeFrom(e) /\ Give(Head(chan[e]), Free)
    /\ UNCHANGED <<closed, handlerVars, inputVars, runVars>>

(* Variant: Run returns without draining the edges. *)
NotDrained == TRUE
Drained == \A e \in Edge : Ended(e)
RunReturns ==
    /\ run = "draining" /\ Drained
    /\ run' = "returned"
    /\ UNCHANGED <<chan, closed, handlerVars, inputVars, owner, cancelled, outside, err>>

HandlerStep(n) ==
    \/ SourceRead(n) \/ SourceEof(n) \/ LoopCancelled(n)
    \/ Recv(n) \/ Eos(n) \/ Emit(n) \/ FlushDone(n)
    \/ SendClone(n) \/ SendLast(n) \/ SendCancelled(n)
    \/ CopyRecv(n) \/ CopyEos(n) \/ MultiRecv(n) \/ MultiEos(n)
    \/ SinkReturn(n) \/ CloseOuts(n) \/ Exit(n)

InputStep(e) ==
    \/ FwdTake(e) \/ FwdEos(e) \/ FwdPush(e)
    \/ SinkRecv(e) \/ SinkEos(e) \/ SinkCancelled(e)

SchedulerStep == Join \/ RunReturns \/ \E e \in Edge : Drain(e)

Next ==
    \/ \E n \in Node : HandlerStep(n) \/ Fail(n)
    \/ \E e \in Edge : InputStep(e)
    \/ SchedulerStep \/ OutsideCancel

(* Goroutines are scheduled; nobody is obliged to fail or to cancel. *)
Fairness ==
    /\ \A n \in Node : WF_vars(HandlerStep(n))
    /\ \A e \in Edge : WF_vars(InputStep(e))
    /\ WF_vars(SchedulerStep)

Spec == Init /\ [][Next]_vars
FairSpec == Spec /\ Fairness

-----------------------------------------------------------------------------
TypeOK ==
    /\ chan \in [Edge -> Seq(Value)] /\ closed \in [Edge -> BOOLEAN]
    /\ pc \in [Node -> {"loop", "flush", "closing", "closed", "exited"}]
    /\ hold \in [Node -> Value \cup {None}] /\ dest \in [Node -> Seq(Edge)]
    /\ todo \in [Node -> 0..MaxPull] /\ left \in [Node -> 0..MaxRead]
    /\ rd \in [Edge -> {"run", "push", "done"}]
    /\ fv \in [Edge -> Value \cup {None}]
    /\ msg \in [Node -> Seq(Value \cup {None})]
    /\ sres \in [Node -> Results] /\ stopped \subseteq Node
    /\ ret \in [Node -> Results]
    /\ owner \in [Value -> Owners]
    /\ cancelled \in BOOLEAN /\ outside \in BOOLEAN
    /\ err \in Results /\ run \in {"waiting", "draining", "returned"}

(* Every frame or packet is where its owner says and nowhere else: no two   *)
(* parties may Close the same value (a double free in libav), and none can  *)
(* be handed on after it was Closed.                                        *)
EdgeOwnership ==
    \A e \in Edge :
        /\ \A i \in DOMAIN chan[e] : owner[chan[e][i]] = OnEdge(e)
        /\ \A i, j \in DOMAIN chan[e] : chan[e][i] = chan[e][j] => i = j
HandlerOwnership ==
    \A n \in Node : IF dest[n] = <<>> THEN hold[n] = None
                    ELSE hold[n] \in Value /\ owner[hold[n]] = HeldBy(n)
ForwarderOwnership ==
    /\ \A e \in Edge : fv[e] # None => owner[fv[e]] = FwdOf(e)
    /\ \A n \in Node :
        /\ \A i \in DOMAIN msg[n] : msg[n][i] # None => owner[msg[n][i]] = MsgOf(n)
        /\ \A i, j \in DOMAIN msg[n] : msg[n][i] # None /\ msg[n][i] = msg[n][j] => i = j
Ownership == EdgeOwnership /\ HandlerOwnership /\ ForwarderOwnership

(* Once Run has returned, nothing is left on an edge or in a handler's      *)
(* hands: the only values never Closed are those a cancelled clone-and-send *)
(* or a multi-input filter lost.  This is what drainClose is for.           *)
Stranded == {v \in Value : owner[v] \in {Lost} \cup {FwdOf(e) : e \in Edge}
                                               \cup {MsgOf(n) : n \in Node}}
ReturnReleases == run = "returned" => live \subseteq Stranded

(* A run that returns nil and that nobody cancelled delivered everything:   *)
(* when the last handler is back there is no value left to drain or lost.   *)
NilMeansDelivered == run # "waiting" /\ err = "nil" /\ ~outside => live = {}

(* Run reports the root cause: it returns the context's error only if its   *)
(* caller cancelled it, never because of the cancellation an error caused.  *)
CtxOnlyFromOutside == err = "ctx" => outside

(* A handler's error is never swallowed by the errgroup.                    *)
ErrorReported ==
    run # "waiting" /\ (\E n \in Node : ret[n] # "nil" \/ sres[n] # "nil") => err # "nil"

(* What Run returns is the cause: an error that somebody returned, and not  *)
(* the cancellation that follows from it.                                   *)
ErrorIsCause == CtxOnlyFromOutside /\ ErrorReported

(* Nothing is sent on a closed channel (the Go runtime would panic) and a   *)
(* channel is closed once: the scheduler closes it after the handler is     *)
(* back, and no helper goroutine of a handler sends on an edge.             *)
NoSendOnClosed ==
    [][\A e \in Edge : closed[e] => closed'[e] /\ Len(chan'[e]) <= Len(chan[e])]_vars

(* When every source reaches end of file, fails or is cancelled, Run        *)
(* returns: no cycle of full channels and waiting consumers keeps it.       *)
Termination == <>(run = "returned")

(* handlers_filter.go says of unbounded sources that the runtime cancels    *)
(* them when the downstream sinks have finished.                            *)
LimitEndsRun == (\A n \in Node : Kind[n] = "sink" => n \in stopped) ~> run = "returned"

(* "Those values ... must be released here or they leak." (scheduler.go)    *)
NothingStranded == run = "returned" => live = {}

(* The values Run accounts for: those on an edge or in a handler's hands.   *)
Held == {v \in Value : owner[v] \in {OnEdge(e) : e \in Edge} \cup {HeldBy(n) : n \in Node}}
Contract == INSTANCE RunContract WITH held <- Held, phase <- run

(* Run keeps its contract with its caller (see RunContract). *)
KeepsContract == Contract!Spec

(* What makes the above inductive.                                          *)
(* An owner tag is never stale: the value is where its tag says.            *)
Accounted ==
    \A v \in Value :
        /\ \A e \in Edge : owner[v] = OnEdge(e) => \E i \in DOMAIN chan[e] : chan[e][i] = v
        /\ \A n \in Node : owner[v] = HeldBy(n) => hold[n] = v

(* What the phase of a handler and of the run say about its hands.          *)
Phases ==
    /\ \A n \in Node :
        /\ pc[n] \notin {"loop", "flush"} => dest[n] = <<>>
        /\ Kind[n] = "sink" => pc[n] # "flush" /\ todo[n] = 0 /\ dest[n] = <<>>
        /\ \A i \in DOMAIN dest[n] : From[dest[n][i]] = n
    /\ \A e \in Edge : closed[e] => pc[From[e]] \in {"closed", "exited"}
    /\ run # "waiting" => \A n \in Node : pc[n] = "exited"
    /\ run = "returned" => \A e \in Edge : chan[e] = <<>>

(* Who is to blame for a cancellation and for an error.                     *)
Blame ==
    /\ cancelled => outside \/ err # "nil"
    /\ \A n \in Node : ret[n] = "ctx" \/ sres[n] = "ctx" => cancelled
    /\ \A n \in Node : pc[n] = "exited" /\ ret[n] # "nil" => err # "nil"
    /\ \A n \in Node : sres[n] # "nil" => Kind[n] = "sink"
    /\ \A n \in Node : Kind[n] = "sink" /\ pc[n] # "loop" =>
          /\ \A e \in In(n) : rd[e] = "done"
          /\ sres[n] # "nil" => ret[n] # "nil"

IInv == TypeOK /\ Ownership /\ Accounted /\ Phases /\ Blame /\ CtxOnlyFromOutside

(* What a reader, a forwarder and a handler say about the edges they read:  *)
(* none leaves anything behind unless it failed or was cancelled.           *)
DoneWith(n) ==
    /\ Kind[n] # "sink" => \A e \in In(n) : Ended(e)
    /\ Kind[n] = "multi" => msg[n] = <<>> /\ \A e \in In(n) : rd[e] = "done"
Readings(e) ==
    /\ rd[e] = "run" \/ Kind[To[e]] # "multi" => fv[e] = None
    /\ rd[e] = "push" => Kind[To[e]] = "multi" /\ (fv[e] = None => Ended(e))
    /\ rd[e] = "done" /\ Kind[To[e]] = "multi" => fv[e] = None /\ Ended(e)
    /\ rd[e] = "done" /\ Kind[To[e]] = "sink" => Ended(e) \/ sres[To[e]] # "nil" \/ cancelled
Ending(n) == pc[n] = "flush" \/ (pc[n] \in {"closing", "closed", "exited"} /\ ret[n] = "nil")
Tagged(v) ==
    /\ \A e \in Edge : owner[v] = FwdOf(e) => fv[e] = v
    /\ \A n \in Node : owner[v] = MsgOf(n) => Kind[n] = "multi" /\ \E i \in DOMAIN msg[n] : msg[n][i] = v
    /\ owner[v] = Lost => cancelled
Delivery ==
    /\ \A e \in Edge : Readings(e)
    /\ \A n \in Node : Ending(n) => DoneWith(n)
    /\ \A v \in Value : Tagged(v)
=============================================================================
