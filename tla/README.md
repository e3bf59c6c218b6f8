# MediaMolder in TLA+

MediaMolder runs media graphs over libav. This directory holds TLA+ modules of
the parts of it in which several goroutines, processes or machines interact, or
in which a long sequence of legal calls has to keep its bearings; the TLC
configurations that check them on small instances; and proofs checked by TLAPS.
`PROJECT.json` lists the runs, the mutants that show that each property can
fail, and, for every definition, the source lines it stands for.

    tlc -workers 2 -config MCScheduler.cfg MCScheduler.tla
    tlapm SchedulerProofs.tla

## 1. The system

### 1.1 The data plane: one process runs one job

A job document (`job/config.go`) is normalised, validated and compiled
(`graph/compile.go`) into nodes joined by typed edges. `Pipeline.runGraph`
(`job/engine.go`) opens the libav objects and gives the graph to
`runtime.Scheduler.Run`: a goroutine per node, a bounded Go channel per edge.

| Component | State | Operations | Talks to | What is hard | What makes it correct |
|---|---|---|---|---|---|
| Scheduler (`runtime/scheduler.go`) | edge channels, errgroup, context | start handlers, close a node's channels when it returns, wait, `drainClose` | handlers through channels and the context | first error cancels all; who closes what and when | every value closed once; the root cause is returned; Run returns |
| Node handlers (`job/handlers_*.go`) | codec or filter, frame in hand, per-input goroutines | receive, emit, clone and send, flush, fail, stop at a limit | channels, scheduler, muxer | helper goroutines (forwarders of a multi-input filter, readers of a sink), sends during cancel | no value is lost or used after Close; a nil result means everything was delivered |
| Output buffer and real-time sink (`job/output_buffer.go`, `job/handlers_sink.go`) | buffer, state, ready channel, wakeup slot, EOS count | AddOrPass, Drain, Enqueue, EnqueueEOS, TakePaced, Close | muxer, the other outputs through `graphReady` | common start, hand-over from fill goroutines to producers, eviction, wakeups | order per stream, no packet lost or in two places, nobody waits for ever |
| Segments (`job/handlers.go` cutGate, `job/handlers_sink.go`) | queue of cuts, progress, held-back audio, muxer of the segment | signal, advance, rotate, hold back, flush | Go processor, video and audio goroutines of a sink | audio runs ahead of video; the keyframe of a cut comes through an encoder that delays | a packet goes to the segment its time belongs to; a finished file is left alone |
| Pipeline lifecycle (`job/engine.go`) | state, cancel, runDone, runErr, pause channel | SetState, Pause, Resume, Seek, Wait, Close | caller's goroutines, the run's goroutine | transitions race with each other and with the end of the run | one run at a time, Wait returns that run's error |
| Event bus (`job/event.go`) | channel, closed, dropped | Post, Close | everyone | Post against Close, a full channel | no send on a closed channel, drops are counted |
| Job server (`internal/server/jobs.go`, older relative `internal/gui/jobs.go`) | status, history, subscribers | run, publish, subscribe, cancel | pipeline, event bus, HTTP handlers | pump, ticker and the end of a job; late and slow subscribers | replay and live events join without gap; whoever follows is told the end |
| Real-time controller (`job/realtime_ctrl.go`, `thread_budget.go`, `preset_ladder.go`, `node_perf.go`, `realtime_api.go`) | windows and cooldowns per node, thread budget, requests in a tracker | observe, decide, allocate, preset step, group step, override | encoders and sources through trackers | a feedback loop over a snapshot that is stale when it is used; encoders restart on request | the budget is respected, no flapping, restarts lose no frame |
| Graph compiler (`graph/graph.go`, `graph/compile.go`), topology checks (`job/validate_topology.go`, `job/engine.go`) | none | Build, topological sort, stages, dead branches, Validate | - | parallel edges, edges without frames, duplicates, cycles | order follows edges, a cycle is found, nothing accepted is unsound |
| Sequence editor (`processors/sequence_editor.go`, `sequence_audio.go`) | per source file two decoders, their counted positions, what was asked last | render a slot, continue, skip, seek, land, give up, take samples | demuxers and decoders, the two outputs of its node | a position that is counted, not read; seeks that land anywhere, files without timestamps, transitions over two decoders | a reader knows where it is; a slot shows what the timeline places there |
| Error policy, restart (`job/error_policy.go`, `restart.go`) | retries per node | HandleError, Wrap | - | little: sequential, and no production code constructs them | retries are bounded and reset |
| Configuration, normalisation, timing | none | pure functions | - | case analysis | agree with their documentation |

### 1.2 The control plane: many machines run the tasks of a job

| Component | State | Operations | Talks to | What is hard | What makes it correct |
|---|---|---|---|---|---|
| Orchestrator (`internal/distributed/orchestrator`) | none of its own | AcceptJob, OnTaskCompleted, CancelJob | store, queue | several instances at once, no transactions over store and queue | stages in order, retries bounded, the job is decided |
| Store (`internal/distributed/state`) | job_statuses, tasks, dead letters, events | upsert, set result, list | all | records overwritten by whoever is last | - |
| Queue (`internal/distributed/queue`) | messages, leases, delays | Publish, Receive, Heartbeat, Ack, Nack | orchestrator, workers | at-least-once delivery | an unfinished task is delivered |
| Worker (`internal/distributed/worker`) | the task at hand | receive, mark running, run, settle, report | queue, store, orchestrator | dies between any two calls | a task runs on one worker at a time |
| Reconciler (`internal/distributed/reconciler`) | none | list expired leases, enqueue again or dead-letter | store, queue | races with a late worker | gives up only after the last attempt |
| API servers, GUI (`apiserver`, `internal/gui`) | jobs | HTTP | orchestrator or pipeline | - | - |

The rest is listed in `PROJECT.json` with the reason why it is left out.

## 2. The modules

| Module | What it is | Lines of the code it stands for |
|---|---|---|
| `Scheduler` | `Scheduler.Run` and the handlers, for an arbitrary graph | `runtime/scheduler.go`, `job/handlers_*.go` |
| `RunContract` | the abstract specification: what Run promises its caller | - |
| `OutputBuffer` | the buffered sink, its fill, producer and consumer goroutines, and the common start of several outputs | `job/output_buffer.go`, `job/handlers_sink.go` |
| `Segments` | cut gate, Go processor, encoder, and a sink that rotates its muxer | `job/handlers.go`, `job/handlers_sink.go`, `job/handlers_go_processor.go` |
| `Pipeline` | the state machine of a pipeline, its callers, the goroutine of a run and its helpers, the event bus | `job/engine.go`, `job/event.go` |
| `JobServer` | extends `Pipeline`: the goroutine of a job, its pump and ticker, and its subscribers | `internal/server/jobs.go` |
| `RealTimeCtrl` | the controller, the encoders it steers, and a user who overrides it | `job/realtime_ctrl.go` and the files beside it, `job/handlers_encoder.go` |
| `GraphCompile` | Build, Compile, the engine's warnings and Validate, one configuration at a time | `graph/*.go`, `job/validate_topology.go`, `job/engine.go` |
| `SequenceEditor` | the renderer of a timeline and the picture and sound readers of its files | `processors/sequence_editor.go`, `sequence_audio.go` |
| `ControlPlane` | orchestrator, queue, store, workers, reconciler, around one job | `internal/distributed/**` |
| `SchedulerProofs`, `OutputBufferProofs`, `SegmentsProofs`, `JobServerProofs`, `RealTimeCtrlProofs`, `GraphCompileProofs`, `SequenceEditorProofs`, `ControlPlaneProofs` | theorems about the module they are named after | |
| `MC...` | the instances TLC checks | |

Composition: `JobServer` is `Pipeline` with a job manager around it, and the run
of a `Pipeline` is, from outside, what `RunContract` says of `Scheduler`.
`Segments` and `OutputBuffer` look into one handler of `Scheduler`, the sink;
`RealTimeCtrl` into another, the encoder.

### 2.1 Scheduler

Constants describe the compiled graph: nodes, edges, the handler of each node,
the streams of a node (a stream is the list of edges one emitted value is sent
to) and the channel capacities. A frame or packet is a value with an `owner`
tag, the party that has to Close it; freed identities are used again, which is
what makes a use after Close visible. `pc[n]` is where handler `n` is: its loop,
the flush after end of input, returned (`"closing"`), its channels closed
(`"closed"`), seen by the errgroup (`"exited"`). One action is one blocking step
of a goroutine: `SourceRead`, `Recv`, `Emit`, `SendClone` and `SendLast` (a value
is cloned for every edge of the stream but the last), `SendCancelled` (the
`ctx.Done()` case of a send), `FwdTake`/`FwdPush`/`MultiRecv` (forwarders and
loop of a multi-input filter), `SinkRecv`/`EgctxDone`/`SinkReturn` (readers and
errgroup of a sink), then `CloseOuts`, `Exit`, `Join`, `Drain`, `RunReturns`.
`Fail(n)` stands for any error libav returns. What a frame contains, how many
packets an encoder delays (`MaxPull` bounds it) and the muxer are abstracted.

`RunContract` knows neither nodes nor channels: values are acquired only while
handlers run, the first error stays, and Run returns only when nothing is held.
`Scheduler` implements it with `held <- Held, phase <- run`.

### 2.2 OutputBuffer

`Feed[c]` is the list of packets of a channel, with decoding and presentation
time (either may be missing). `gor[c]` is the goroutine of the channel, first
filling, then producing; `pc[o]` is the handler of output `o`: `"fill"` (wait
for the own buffer), `"graph"` (wait for the other outputs), `"flush"` (write
what `Drain` returned), `"join"` (wait for the fill goroutines and write their
leftovers), `"roll"` (`TakePaced`), `"write"`, `"idle"` (waiting for a wakeup).
Every critical section of the buffer's mutex is a step, and so is every channel
operation; `Enqueue` and the wakeup it sends are two. `fate[p]` follows a
packet to the muxer, to an eviction, to Close, or to `"lost"`. Pacing by the
wall clock is a free choice of when `TakePaced` gives a packet.

### 2.3 Segments

A source gives video and audio items in the order of the file. The Go processor
takes a frame, may report a cut (at most `LookbackFrames` back), advances the
progress of the gate (`GpTake`), signals the cut (`GpReport`) and passes the
frame on; the encoder holds `Delay` frames and makes a keyframe where one was
forced. The sink's video goroutine rotates at a keyframe that reaches the front
cut: `Rotate` takes the mutex, closes and announces the file, `OpenSegment`
opens the next one, `PopFront` removes the cut. The audio goroutine asks for its
boundary in two steps, the front cut and then the progress, as the code does,
and passes, holds back or flushes. Every use of the gate's mutex, of the sink's
mutex and of a channel is a step. At most `MaxFail` calls of the muxer fail, the last
WriteTrailer and Close of `SinkReturn` among them.

### 2.4 Pipeline and JobServer

A caller runs a program, a sequence of `start`, `pause`, `resume`, `seek`,
`wait`, `close`; each call is the critical sections of the pipeline's mutex it
consists of, with nothing held between them. `start` adds the goroutine of a
run, which posts, ends with an error or not, and sets `runErr` before it closes
`runDone`. Helpers (`realtimeController.run`, `graphReady.run`) may outlive the
run. `Post` is two steps, the look at `closed` and the send.

`JobServer` adds one job: `program[Job]` is what `Pipeline.Run` does, `pump`
reads the bus into the history, the ticker publishes metrics until it is
stopped, and `JobEnds` publishes the final event and closes the subscribers,
all under the manager's mutex. The channel of a subscriber has `HistCap + 1`
places, as in the code.

### 2.5 RealTimeCtrl

The controller takes a snapshot of all encoders (`Observe`), then decides on one
after the other by the branches of `step`: within budget or behind, threads
first, then a faster preset, the group step of the rest, the drop period, and
back when there is headroom. A request is an atomic in the tracker of a node;
the encoder takes it between two frames (`PopRestart` clears the flag, `LoadThreads`
reads the count: a request may come between them), gives back what the codec holds
(`Flush`) and opens it again, or hands a preset to a codec that takes it while
open. A user may lock a preset at any time. Rates are abstracted to a reading
(met, behind, far behind, headroom; threads busy or not), and `Loads` is what a
run may read: the readings depend on what the controller has done.

### 2.6 GraphCompile

One configuration, nodes and edges in the order it lists them. `Build` adds
nodes (duplicates are refused), adds edges (unknown ends are refused), counts
in-degrees, and takes nodes from a queue; `Compile` computes stages in that
order and marks what cannot reach an output; the engine then spares branches
that end in events or file edges; `Validate` judges the same configuration by
its own rules. The definitions of the properties use paths and are independent
of the algorithms. The ends of an events edge are looked up by nobody, so a chain
of events may pass through a name that is not declared (`Names`, `Chains`).

### 2.7 SequenceEditor

`Media[f]` is what libav makes of a file: its frame duration and length, the
keyframes a seek may land on, frames without a timestamp or that do not decode,
how many frames the decoder holds back, the timestamp of the first frame, the
answers of the demuxer to a seek, the packets of its sound and the one its decoder
refuses, if any: the reader takes that for the end until it is moved (`SoundStop`). The renderer
walks `slot` by slot: `BeginSlot` picks the winning track, `NextPicture` asks the
reader of each covering clip in turn, then `NextSound` that of its sound.
`vid[f]` and `aud[f]` are the readers: `next` and `at` are where the decoder
really is, which the code cannot see, `pos` and `served` what the code counts.
`Continue` is the hot path, `Skip` decodes and discards one frame, `Reposition`
seeks `slack` early (to the keyframe before or after: `av_seek_file` promises
neither), `LandBare`, `LandWell`, `LandPast` are what the first frames may say,
`GiveUp` starts the file over for good. An error of a lone clip ends the
rendering, one in a transition does not; `SendFails` ends it when a picture or a
stretch of sound cannot be handed on. Times are integers: the rounding of
floats is not modelled, `IndexAt` rounds like the code does. Scaling, blending,
mixing and resampling are left out; so is the delay line of the resampler.

### 2.8 ControlPlane

One distributed job. `rec`, `status`, `dlq` and `job` are the tables of the
store, `queue`, `delayed` and `leased` the broker's messages by task. A worker's
`phase` walks through `executeTask` and `OnTaskCompleted`, one store statement or
queue call a step; the exceptions are `completedStages` and `TasksByStage`,
whose reads are one step, and `GetTask`/`GetJob`, which are merged with the step
before because what they read does not change. `todo` and `pub` are the tasks an
actor has still to upsert and publish, so that enqueueing (`Upsert`, `Publish`)
is shared by `AcceptJob`, workers and reconciler as in the code. `HandleExpired`
dead-letters a task and `FailJob` then writes the job's status: two statements, two
steps. `Crash`, `ApiDies` and `ReconcilerDies` may come between any two of them; what
the dead one had recorded and not yet published is in `orphans` (`LeavesRecord`).
`CancelJob` overwrites whatever status the job has, as the code does.
The queue is what `queue.go` documents and NATS and SQS provide: a message whose
lease ran out is delivered again (`Redeliver`); the in-memory queue is the
special case in which that never happens. Time is abstract: a lease runs out
when no live worker renews it, and the 5 s of a Nack normally outlast the report
that follows it; a worker so late that this is false counts as a fault, like a
crash, and `MaxFaults` bounds them.

## 3. The runs

| Run | Shows | Properties |
|---|---|---|
| `sched` | a transcode and a stream copy into one two-input sink, errors and cancellations in any order | `ReturnReleases`, `NilMeansDelivered`, `ErrorIsCause`, `NoSendOnClosed`, `KeepsContract` |
| `sched_stall` | an encoder muxed twice by one sink: whoever fails while others are blocked on full channels, Run returns | `Termination` |
| `mix` | a source cloned to both inputs of a multi-input filter, whose forwarders outlive it | `Ownership` |
| `outbuf` | two outputs with a common start, one with reordered video and one that never fills | `GatedStart`, `OnePlace`, `NilMeansWritten`, `InOrder`, `Termination` |
| `segments` | source, Go processor, encoder and sink, two cuts and one failure | `VideoInSegment`, `NilMeansAllWritten`, `NoWriteAfterAnnounce`, `SinkReturns` |
| `jobs` | one job from its start to its end, and a library user beside it | `NullIsIdle`, `StatusTells`, `DoneIsLast`, `NoGap`, `EndIsTold`, `Released` |
| `realtime` | two encoders under five loads | `FitsBudget`, `NothingLost`, `Agree`, `NoFlap`, `CatchesUp` |
| `graph` | every graph of up to four edges over eight lists of nodes | `OrderFollowsEdges`, `CycleIffRefused`, `StageIsLongestPath`, `DeadIsWasted`, `AcceptedIsSound` |
| `sequence` | every cut and transition of five files and a set of timelines | `Positioned`, `AsPlaced`, `Renders` |
| `dist_fanout` | a fan-out and a stage after it on two workers, without crashes | `StagesInOrder`, `NoDoubleRun`, `Settles` |
| `dist_faults` | two stages, up to two faults: a worker, the API or the reconciler dies, or a worker is late | `FailedHasCause`, `NotForgotten` |
| `dist_partial` | violated: the gather stage starts before all siblings are recorded | `GatherSeesAll` |

### 3.1 What the properties say

Each one is stated in words above its definition. What needs saying beyond that:

- **Scheduler.** `ErrorIsCause` has two halves. Run returns the context's error
  only when its caller cancelled, and an error of a handler or of a sink's
  consumer is never swallowed. The first is not obvious: a handler may see its
  context cancelled before the handler whose failure cancelled it has returned.
  `ReturnReleases` excepts `Stranded`, what a cancelled clone-and-send or the
  forwarders of a multi-input filter hold and nobody closes (3.2). `Termination`
  is about the sink whose consumer fails while its sibling still reads and the
  encoder in front is blocked on the channel of the one that failed.
- **OutputBuffer.** `NilMeansWritten` and `InOrder` go through the hand-over:
  a fill goroutine that was taking a packet when the buffer became ready leaves
  it to the handler (leftovers), and the producer that follows it may already be
  at the next one. `Termination` covers lost wakeups, since the wakeup slot holds one.
- **Segments.** `VideoInSegment` depends on the order of three things, the gate,
  the delay buffer and the encoder. `NoWriteAfterAnnounce` is what remains of
  "nobody writes to a closed file" once a rotation may fail (3.2).
- **Jobs.** `NoGap` and `DoneIsLast` are about a subscriber that arrives while
  the pump publishes or the job ends. `NullIsIdle` holds for the programs a job
  and a library user run here; it does not for a caller that sets the state to
  NULL by itself (3.2).
- **RealTimeCtrl.** `CatchesUp` says that a controller whose encoders stay behind
  brings each to its fastest setting; `NoFlap` that the three rules that may ask
  for a preset share one cooldown.
- **GraphCompile.** The properties define paths, cycles and depth by themselves and
  compare; `AcceptedIsSound` relates two independent pieces of code, `Validate`
  and the warnings of a run.
- **SequenceEditor.** `Positioned` relates the counted position to the real one.
  `AsPlaced` is stated for `Orderly` timelines: their files are `Plain`, have a
  stamped first frame and packet, frames no longer than the continuation window and
  sound the decoder takes (`Steady`), and are walked through at their own rate or left for more than that
  window (`Forward`). These avoid the four causes of a wrong picture listed in 3.2 and the one
  of the same kind in section 6; 1003 of the timelines of the run are orderly. `Positioned` for every timeline, over
  files that are `Plain`: timestamps from zero, every frame decodes, and seeks are
  always honoured or always refused. With a file that is not, the position
  may be off for good (section 6).
- **ControlPlane.** `StagesInOrder` asks for a success in every earlier stage and not
  for the success of all its tasks: `dist_partial` refutes the latter. `Settles`
  holds because the message that `Nack` gives back is executed again; in the mutant,
  where it is dropped, the job hangs. It is stated for behaviours without faults:
  after a crash between Ack and the report that follows, nobody looks at the
  stage again and the job stays queued, in the model as in the code.

### 3.2 Side configurations

These configurations check what a doc, a comment or a test says against what the
code does, and TLC finds each one violated. They are not listed as runs in
`PROJECT.json`; the command is the same, `tlc -config X.cfg M`.

| Configuration | Module | Property | What happens |
|---|---|---|---|
| `MCFan.cfg` | `MCFanout` | `NothingStranded` | a clone-and-send that is cancelled does not close the original (`job/handlers_encoder.go:142`, `handlers_source.go:586-588`), which `runtime/scheduler.go:103-105` counts on |
| `MCEnd.cfg` | `MCFanout` | `LimitEndsRun` | `handlers_filter.go:232-235` expects the runtime to cancel unbounded sources when the sinks are done; a sink at its limit returns nil, which cancels nobody |
| `MCLost.cfg` | `MCOutputBuffer` | `NothingLost` | an error while the drained packets are flushed (`handlers_sink.go:515-520`, `531-533`) leaves the others open, against `output_buffer.go:180`, `243`, `263` |
| `MCPoison.cfg` | `MCControlPlane` | `DeadLetterFails` | `worker.go:141` gives a dead-lettered task back to the queue; when it is delivered again and succeeds, the job's "failed" is overwritten, against `docs/architecture/distributed_design.md:370-371` |
| `MCSegAudio.cfg` | `MCSegments` | `AudioInSegment` | the progress advances before the cut is signalled (`handlers_go_processor.go:276-288`, `332-334`), so audio of the next segment may pass into this one, against `handlers_sink.go:715`, `handlers.go:297-299` |
| `MCSegClosed.cfg` | `MCSegments` | `NoWriteToClosed` | a rotation whose reopening fails leaves the closed muxer in place (`handlers_sink.go:756-765`, `858`, `1092`) |
| `MCNull.cfg` | `MCJobServer` | `NullIsIdle` | the way to NULL waits on an errgroup a graph run has nothing in (`engine.go:394-395`); `graph-state-machine.md:9`, `28` promise an idle pipeline |
| `MCPanic.cfg` | `MCJobServer` | `NoPanic` | `Post` looks and then sends (`event.go:318-323`); the helpers started at `engine.go:1622` and `1629` are not joined before `Close` |
| `MCOverride.cfg` | `MCRealTimeCtrl` | `OverrideSticks` | a lock set after the snapshot is not seen by the step that follows (`realtime_ctrl.go:466`, `496`), against `realtime_api.go:16` |
| `MCDrops.cfg` | `MCRealTimeCtrl` | `DropsAtSource` | the drop period is set on the encoder's tracker (`realtime_ctrl.go:419`), a source asks its own (`handlers_source.go:140`); `docs/realtime-controller.md:194` |
| `MCHw.cfg` | `MCRealTimeCtrl` | `HwUntouched` | the budget never refuses a hardware encoder (`thread_budget.go:66`), so one that looks short of threads is restarted with more (`realtime_ctrl.go:396-402`), which the comment at line 384 excludes |
| `MCStages.cfg` | `MCGraphCompile` | `StagesSorted` | stages come in the order of the queue; `graph/plan.go:46` says sorted by ID |
| `MCRate.cfg` | `MCSequenceEditor` | `PictureAsked` | the hot path takes the very next frame of the file (`sequence_editor.go:1270`), as its comment (line 1258) says of a small advance, and a slot is a small advance: a 60 fps file in a 30 fps sequence plays at half its speed, where `docs/go-processor-nodes.md:715` and `756` have sources retimed to the sequence and a clip shown at its source time |
| `MCSeqAgain.cfg` | `MCSequenceEditor` | `PictureAsked` | a file used a second time from an earlier point, within the window, is shown from where it was |
| `MCSeqTail.cfg` | `MCSequenceEditor` | `PictureAsked` | frames the decoder still holds at the end of the file are not asked for |
| `MCSeqStamps.cfg` | `MCSequenceEditor` | `PictureAsked` | a file whose first timestamp is late is shown off by that much |

`dist_partial` is the one listed as a run: `materializeAndEnqueueStage` publishes
each task before it records the next (`orchestrator.go:181-190`) and `advanceStage`
takes a stage for complete when all the records it finds have succeeded, while
`docs/architecture/distributed_design.md:219` says "when all siblings done".

### 3.3 Bounds, and why they are enough

- **Scheduler**: channel capacity 1 and `MaxRead = 1` value per source
  (2 in `sched_stall`): with one place and one value every send can meet a full or an
  empty channel, a closed one and a cancelled context, and the second value of
  `sched_stall` is what blocks behind the first. `MaxPull = 1`: a codec gives none
  or one value. `Value` has one identity more than can be live at once.
- **OutputBuffer**: video with `P(0,0), P(2,4), P(3,3), P(6,6)` (decoding,
  presentation), so that presentation order is not arrival order, one packet fills, one
  overflows and one is left for the rolling phase; target one, cap two.
- **Segments**: seven items, two cuts one of which falls on a delayed frame,
  channels of one place, delay 1, lookback 1, one failing call.
- **JobServer**: a bus of 2 and a history of 2, fewer than the events, so both
  overflow; one subscriber, one helper, one post per run. The initial states are of two
  kinds, a job with a subscriber and a library user with a helper: the two do not meet.
- **RealTimeCtrl**: windows of 2, 3 and 2 ticks keep the order of the code's (an
  adjustment may come before a preset step), cooldowns are at most `Cap = 6`;
  two encoders are needed for the budget and the group step.
- **GraphCompile**: four edges over up to four nodes include every cycle length up to
  four, diamonds, parallel edges, duplicates and unknown ends; two events edges
  lead to and from a name no node has.
- **SequenceEditor**: 4 ticks a second and a slot of 2 ticks keep both thresholds of the reader
  (0.5 s ahead, and far ahead) on different sides of a frame;
  every cut and every transition of two of five files at source times on both sides of
  each threshold; `MaxLanding = 3` frames off the request covers landing before, on and past it.
- **ControlPlane**: two workers, `MaxAttempts = 2`, two tasks in the
  fanned-out stage, `MaxTasks` records. `MaxFails` executions fail; `MaxFaults = 2`, because
  a late worker and the death of the one that took over are two. Symmetry of the
  workers is used in `dist_faults` only, which has no temporal property.

Deadlock is not checked: every system here ends, and `Termination`,
`SinkReturns`, `Released`, `Renders`, `Settles` ask that it does.

### 3.4 Fairness

Weak fairness of each process for the steps it can take, since the Go scheduler runs
every goroutine that can run: per handler, per edge (forwarders and
readers) and for the scheduler's own goroutine in `Scheduler`; per channel and per
output in `OutputBuffer`; per goroutine in `Segments`; per caller, run, pump and job in
`JobServer`; of the ticker that observes and of each encoder in `RealTimeCtrl`;
of the renderer in `SequenceEditor`; per worker, per publisher, of the leases
and of the reconciler in `ControlPlane`. Failures, cancellations, crashes,
late reports, overrides and the ticks of the metrics are never fair. Nothing assumes
strong fairness; `CatchesUp` assumes in its premise that the load stays behind.

## 4. What is proved

Each theorem holds for every value of the constants that satisfies the module's named
assumptions, which TLC evaluates in the runs. Every invariant and every action property
of the runs is stated by a theorem. In each module the argument goes through an
inductive invariant, with one lemma per action or kind of action.

- **SchedulerProofs** (`GraphAssumption`, `InputAssumption`, `BoundAssumption`): type
  correctness, `Ownership`, `ReturnReleases`, `NilMeansDelivered`, `ErrorIsCause`,
  `NoSendOnClosed`, and that `Scheduler` implements `RunContract`. The invariant `IInv`
  is `TypeOK`, `Ownership`, `Accounted` (the place an owner tag names does hold the
  value), `Phases` (which control states go together), `Blame` (who may have returned an
  error, and why) and `CtxOnlyFromOutside`. `Ownership` alone is not inductive: that a
  handler that returned holds nothing, and that its channels are empty before Run
  returns, is in `Phases`. The steps of handlers are brought to a few kinds of move of a
  value (`HandlerMoves`, `OtherMoves`), and ownership is proved once for each kind.
  `NilMeansDelivered` needs `Delivery` besides: an input whose reader ended was read to
  its end (`Readings`), and a handler that ends with nil is done with all its inputs
  (`Ending`). `InputAssumption` says that a source has no input and a filter, an encoder
  or a stream copy at most one: these handlers read one channel and would leave the
  others alone.
- **OutputBufferProofs** (`FeedAssumption`, `CapAssumption`): type correctness,
  `GatedStart`, `OnePlace`, `NilMeansWritten`, `InOrder`. `FeedAssumption` says that a
  channel gives its packets in the order of the buffer's key, which is what encoders and
  demuxers do; `CapAssumption`, what `NewOutputBuffer` enforces. The idea is that the
  packets a channel has given stand in one line, oldest first: those the handler took
  out, those in the buffer, the leftover, the one in the goroutine's hand, those to
  come. `IInv` is `Typed`, `Order` (that line ascends), `Gate` (nobody writes before all
  are ready), `Phases` (where the handler and the goroutines of its channels may be at
  the same time) and `Ends` (how many ends the buffer has been told, and of whom).
- **SegmentsProofs** (`ItemsAssumption`, `BoundAssumption`): type correctness,
  `VideoInSegment`, `NilMeansAllWritten`, `NoWriteAfterAnnounce`. `ItemsAssumption`:
  times do not decrease, and those of the video increase, for two frames of one time
  could stand on both sides of a cut. A video frame moves along a line of nine places,
  from the file through processor, delay, encoder and channels to a segment; `Ordered`
  says that times increase along it, `Cuts` that the frame of a pending cut has not yet
  reached the muxer, that of any other cut has, and that the number of the latter is the
  segment's, `Shape` which control states go together. `VideoKept` and `AudioKept` say
  that what the source gave is somewhere on the line, held back or written, `Announced`
  that segments are announced once and in order.
- **JobServerProofs** (`JobAssumption`, `PipelineAssumption`): type correctness of
  `Pipeline` and `JobServer`, `NoGap` and `DoneIsLast`, whatever the pipeline does, from
  `JobTyped`, `Latest` (the history is the newest events), `Streams` (what a subscriber
  has is consecutive), `Following` and `Ending`. Three theorems are about the programs
  of the callers: `NullIsIdle` under `OneCaller` (one caller, who waits for a run before
  each close, whatever else it calls and however often it starts), `StatusTells` and
  `EndIsTold` under `OneRun` (start, any pauses, resumes and seeks, wait, close). They
  are the programs there are: `Pipeline.Run` (`job/engine.go`) is start, wait, close,
  job manager and CLI call nothing else to run a job, and the calls in between are those
  of a library user. Without the wait `NullIsIdle` is false (3.2). The invariants are
  `Life` and `Bounded` (where the caller and the goroutine of its run may be at the same
  time), `Course` and `Settled` (how far the program has come, and what of the run's
  result is stored by then), `Told` (where the final event is: not yet posted, on the
  bus, in the pump's hand or in the log).
- **RealTimeCtrlProofs** (`RealTimeAssumption`): type correctness, `NothingLost`,
  `Agree`, `FitsBudget`, `NoFlap`. `IInv` is `Typed`, `Tuned` (codec, tracker and
  options agree but during a restart), `Drained` (a codec is closed only when it is
  empty), `Paced` and `Budgeted`. The last is the one that matters: the controller adds
  up the shares it has allocated, while an encoder takes its request later or never; so
  each share is never less than what the codec has or will reopen with, and at most one
  step more than the tracker or the snapshot says, and the sum of the shares never
  exceeds the budget, or what the run began with. The sum is written as the cardinality
  of a disjoint union (`Total`), to which the library's theorems on finite sets apply.
- **GraphCompileProofs** (`GraphAssumption`): type correctness, `OrderFollowsEdges`,
  `CycleIffRefused`, `StageIsLongestPath`, `DeadIsWasted`, `AcceptedIsSound`. `Kahn`
  says that the in-degree of a node is the number of its edges from nodes not listed
  yet, and that the queue holds the nodes with none; `Depths` that a depth is attained
  by a path and exceeded by none. What the sort leaves over waits for itself and so has
  a cycle; that a complete order leaves none is argued by the node of the set that is
  listed first. `Walks` says that what the walk from the outputs and the pass over
  events edges have marked is reached by a path or chain, and that when they stop
  nothing unmarked is next to something marked. The attempt corrected two properties:
  chains of events also run through names no node has, and a node may be excused by a
  processor that gives its ID for an input (`Excused`), whatever that node is.
- **SequenceEditorProofs** (`MediaAssumption`, `TimelineAssumption`, `BoundAssumption`):
  type correctness, `Positioned` and `AsPlaced`. `Positioned` follows from `TypeOK`,
  `Current` (requests are for the track that wins) and `Exact` (outside a seek that is
  under way the count of each reader is exact, and only a file that honours seeks is
  ever in the middle of one). `AsPlaced` needs `Placed`, which is two things: `Given`,
  the clips of the slot that are served have been given what they ask for, and `Ahead`,
  no reader is past what will be asked of it next, so that the hot path meets exactly
  the next request or a seek starts early enough. The attempt showed that `Forward` and
  `Plain` were not enough: `Steady` was added.
- **ControlPlaneProofs** (`StageAssumption`, `BoundAssumption`): `StagesInOrder`,
  `FailedHasCause`, `NotForgotten`, `NoDoubleRun`, type correctness, from `Typed`,
  `Ordered`, `Blamed`, `Started`, `Fresh`, `OneMessage`: without a fault a task has at
  most one message, or is with one worker.

Only model-checked: what needs fairness, which the prover cannot reason about:
`Termination` (of `Scheduler` and of `OutputBuffer`), `SinkReturns`, `Released`,
`CatchesUp`, `Renders`, `Settles`. And `GatherSeesAll` and the properties of 3.2, which
are false.

## 5. Not modelled

- **In a run's data flow**: subtitle sends (one object to several channels,
  `handlers_source.go:434`), attached pictures, the reopening of an encoder on its first
  frame, processors that drop or multiply frames or have several inputs and outputs
  (one frame pointer goes to every output, `handlers_go_processor.go:240`), the
  `read_rate` pacer, the rewriting that smart copy does inside one handler.
- **Around it**: `FanOut`, `Merge` and `ForwardAll` of the runtime, the error policy and the
  restart wrapper, runtime changes to a pipeline (`job/dynamic.go`): nothing in a run calls them.
- **Control plane**: capability filters of `Receive`, a store or a broker that fails,
  a job without a distribution, how tasks are cut out of a manifest, the SQL and
  wire formats of the adapters, HTTP, authentication, storage.
- **Pure code without steps**: configuration parsing and its normal form, the arithmetic
  of timing, FFmpeg command import, H.264, H.265 and AV1 syntax, cgo bindings, analysis of single
  frames, generated help and the browser front end. They make up most of the
  repository's lines: tables, field copies and parsers, in which there are no
  states to explore. What they compute is a case analysis or signal
  processing that unit tests reach.

## 6. What reading the code turned up besides

Divergences from docs or expectations that no configuration here checks, kept for whoever
changes the code next.

- *Segments*: audio that ends before the video flushes all it held back into the segment
  that is open then; `rotateSegment` (`handlers_sink.go:888`) reads `r.encoders`, which an
  encoder reopened on its first frame (`handlers_encoder.go:242`) is not in; any Go
  processor advances the progress of every gate.
- *Jobs*: a live subscriber may get "done" before events still on the bus; Run returns
  without Close when Start fails, and the pump stays; `pauseCh` and `seekState` are set and
  never read by the data flow; a caller that subscribes to a finished job sees "done" in the replay
  and again as the end.
- *Real-time controller*: the preset cooldown is 5 intervals, the doc says 6; headroom is −3.0 for 6
  ticks, the doc says −0.5 for 3; the drop period is never reset; only encoders
  get a target rate, so the branch for filters is dead; `r.encoders` is a map
  written by handlers that may run at once (`handlers_encoder.go:366`).
- *Output buffer*: with a cap equal to the target, the packet that makes the buffer long
  enough may evict the one that did, and the buffer stays filling.
- *Graph*: the error for a cycle also lists the nodes behind it; `classifyBuildError` labels errors
  of media types as cycles; an input that feeds only events edges passes Validate and is
  reported as disconnected by the run; Validate has no rule for a filter without inputs; nobody checks that
  the ends of an events edge are declared; a processor may give the ID of any node for its input, also of a
  filter, which is then spared the warning of a dead branch.
- *Sequence editor*: a slot no clip covers emits no frame, where `docs/go-processor-nodes.md:702` and
  `using-mediamolder.md:1529` promise black and a total count; the logged action "hold" holds
  nothing; with more than two clips on top of each other the frames after the second are not closed; a
  refused second seek, or a decode error inside a transition, leaves the position one
  off; the sound decoder is not flushed at the end of its file; a seek to the start of a file takes the
  first timestamp it finds for zero, so a file whose first frames have none is placed off.
