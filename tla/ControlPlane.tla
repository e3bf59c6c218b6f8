---------------------------- MODULE ControlPlane ----------------------------
(***************************************************************************)
(* The distributed control plane (internal/distributed): one distributed   *)
(* job, the orchestrator that materialises its stages into tasks, the task *)
(* queue, the workers, the state store and the reconciler.                 *)
(*                                                                         *)
(* Every store statement and every queue call is one step, so that two     *)
(* workers that report at the same time, and a worker that dies between    *)
(* two calls, interleave as they do in the code.  The queue is a broker    *)
(* that delivers a message again when its lease runs out; a live worker    *)
(* renews its lease while the pipeline runs, not while it reports.         *)
(***************************************************************************)
EXTENDS Integers, Sequences, FiniteSets

CONSTANTS
    Stage, DependsOn,   \* the job's stages and their depends_on
    Width,              \* tasks a stage is materialised into
    MaxAttempts,        \* Policy.MaxAttempts
    Worker,             \* worker goroutines
    Api, Rec,           \* the other actors: AcceptJob and the reconciler
    MaxTasks,           \* bound: task records
    MaxFails,           \* bound: pipeline executions that fail
    MaxFaults,          \* bound: crashes and late steps
    None                \* "no task"

ASSUME StageAssumption ==
    /\ IsFiniteSet(Stage)
    /\ DependsOn \in [Stage -> SUBSET Stage] /\ Width \in [Stage -> Nat \ {0}]
    /\ MaxAttempts \in Nat \ {0}
ASSUME BoundAssumption ==
    /\ MaxTasks \in Nat /\ MaxFails \in Nat /\ MaxFaults \in Nat
    /\ Api \notin Worker /\ Rec \notin Worker /\ Api # Rec
    /\ None \notin 1..MaxTasks

VARIABLES
    job,            \* job_statuses
    rec, status,    \* tasks: document, status
    dlq,            \* dead_letter_tasks
    queue, delayed, leased, \* the broker's messages
    phase, task, ok,        \* a worker: where it is, its task, the result
    todo, pub,      \* tasks an actor has still to upsert, and to publish
    expired,        \* the reconciler's list of expired leases
    failing,        \* it has dead-lettered a task and is to fail the job
    made, fails, faults,    \* counters for the bounds
    done, orphans   \* history: shards that succeeded, records whose
                    \* publisher died

storeVars  == <<job, rec, status, dlq, made>>
queueVars  == <<queue, delayed, leased>>
workerVars == <<phase, task, ok>>
actorVars  == <<todo, pub, expired, failing>>
histVars   == <<fails, faults, done, orphans>>
vars == <<storeVars, queueVars, workerVars, actorVars, histVars>>

Id == 1..MaxTasks
Actor == Worker \cup {Api, Rec}
Created == 1..made
Shard(id) == <<rec[id].stage, rec[id].index>>
Shards == UNION {{<<s, i>> : i \in 1..Width[s]} : s \in Stage}
Attempts == 0..MaxAttempts - 1

Task == {t \in [stage : Stage, index : Nat \ {0}, attempt : Attempts] : t.index <= Width[t.stage]}

(* The tasks of stages that are materialised now: a stage after the other,  *)
(* its tasks by their index.                                                *)
TasksOf(S) ==
    LET tasks == UNION {{[stage |-> s, index |-> i, attempt |-> 0] : i \in 1..Width[s]} : s \in S}
    IN {q \in [1..Cardinality(tasks) -> tasks] :
            \A i, j \in DOMAIN q : i < j =>
                /\ q[i] # q[j]
                /\ q[i].stage = q[j].stage =>
                      q[i].index < q[j].index /\ \A k \in i..j : q[k].stage = q[i].stage}

Roots == {s \in Stage : DependsOn[s] = {}}

Init ==
    /\ job = "queued"
    /\ rec = [id \in Id |-> None] /\ status = [id \in Id |-> "none"]
    /\ dlq = {}
    /\ queue = {} /\ delayed = {} /\ leased = {}
    /\ phase = [w \in Worker |-> "idle"] /\ task = [w \in Worker |-> None]
    /\ ok = [w \in Worker |-> FALSE]
    /\ \E q \in TasksOf(Roots) : todo = [a \in Actor |-> IF a = Api THEN q ELSE <<>>]
    /\ pub = [a \in Actor |-> None] /\ expired = {} /\ failing = FALSE
    /\ made = 0 /\ fails = 0 /\ faults = 0
    /\ done = {} /\ orphans = {}

Goto(w, p) == phase' = [phase EXCEPT ![w] = p]
Fault == faults < MaxFaults /\ faults' = faults + 1

(*************** enqueueing: UpsertTask(pending), then Publish *************)
Upsert(a) ==
    /\ todo[a] # <<>> /\ pub[a] = None /\ made < MaxTasks
    /\ made' = made + 1
    /\ rec' = [rec EXCEPT ![made + 1] = Head(todo[a])]
    /\ status' = [status EXCEPT ![made + 1] = "pending"]
    /\ todo' = [todo EXCEPT ![a] = Tail(@)]
    /\ pub' = [pub EXCEPT ![a] = made + 1]
    /\ UNCHANGED <<job, dlq, queueVars, workerVars, expired, failing, histVars>>

Publish(a) ==
    /\ pub[a] # None
    /\ queue' = queue \cup {pub[a]}
    /\ pub' = [pub EXCEPT ![a] = None]
    /\ UNCHANGED <<storeVars, delayed, leased, workerVars, todo, expired, failing, histVars>>

Enqueued(a) == todo[a] = <<>> /\ pub[a] = None

(*************** the queue *************************************************)
(* Variants: the message is delivered and kept; it is acknowledged at once. *)
Kept(id) == /\ queue' = queue /\ leased' = leased \cup {id}
AckOnReceive(id) == /\ queue' = queue \ {id} /\ leased' = leased
Deliver(id) == /\ queue' = queue \ {id} /\ leased' = leased \cup {id}

Receive(w) ==
    /\ phase[w] = "idle"
    /\ \E id \in queue : Deliver(id) /\ task' = [task EXCEPT ![w] = id]
    /\ Goto(w, "received")
    /\ UNCHANGED <<storeVars, delayed, ok, actorVars, histVars>>

Runs(id)  == \E w \in Worker : task[w] = id /\ phase[w] \in {"received", "running"}
Holds(id) == \E w \in Worker : task[w] = id

(* The lease of a message ran out: its worker is dead, or late to report.   *)
Redeliver(id) ==
    /\ id \in leased /\ ~Runs(id)
    /\ IF Holds(id) THEN Fault ELSE UNCHANGED faults
    /\ leased' = leased \ {id} /\ queue' = queue \cup {id}
    /\ UNCHANGED <<storeVars, delayed, workerVars, actorVars, fails, done, orphans>>

(* The 5 s of a Nack are over, normally after its worker has reported.      *)
DelayOver(id) ==
    /\ id \in delayed
    /\ IF Holds(id) THEN Fault ELSE UNCHANGED faults
    /\ delayed' = delayed \ {id} /\ queue' = queue \cup {id}
    /\ UNCHANGED <<storeVars, leased, workerVars, actorVars, fails, done, orphans>>

(*************** worker.executeTask ****************************************)
MarkRunning(w) ==
    /\ phase[w] = "received"
    /\ status' = [status EXCEPT ![task[w]] = "running"]
    /\ Goto(w, "running")
    /\ UNCHANGED <<job, rec, dlq, made, queueVars, task, ok, actorVars, histVars>>

RunTask(w) ==
    /\ phase[w] = "running"
    /\ \/ ok' = [ok EXCEPT ![w] = TRUE] /\ UNCHANGED fails
       \/ fails < MaxFails /\ fails' = fails + 1 /\ ok' = [ok EXCEPT ![w] = FALSE]
    /\ Goto(w, "settle")
    /\ UNCHANGED <<storeVars, queueVars, task, actorVars, faults, done, orphans>>

(* Variant: the message of a failed execution is not given back. *)
DropFailed(w) == {}
GiveBack(w) == IF ~ok[w] /\ task[w] \in leased THEN {task[w]} ELSE {}

(* Ack or Nack, before the result is reported. *)
Settle(w) ==
    /\ phase[w] = "settle"
    /\ leased' = leased \ {task[w]}
    /\ queue' = IF ok[w] THEN queue \ {task[w]} ELSE queue
    /\ delayed' = delayed \cup GiveBack(w)
    /\ Goto(w, "report")
    /\ UNCHANGED <<storeVars, task, ok, actorVars, histVars>>

(*************** Orchestrator.OnTaskCompleted ******************************)
SetTaskResult(w) ==
    /\ phase[w] = "report"
    /\ status' = [status EXCEPT ![task[w]] = IF ok[w] THEN "succeeded" ELSE "failed"]
    /\ done' = IF ok[w] THEN done \cup {Shard(task[w])} ELSE done
    /\ Goto(w, IF ok[w] THEN "verify" ELSE "failure")
    /\ UNCHANGED <<job, rec, dlq, made, queueVars, task, ok, actorVars,
                   fails, faults, orphans>>

(* The worker is back in its loop. *)
Release(w) ==
    /\ Goto(w, "idle") /\ task' = [task EXCEPT ![w] = None]
    /\ ok' = [ok EXCEPT ![w] = FALSE]
Continue(w, p) == Goto(w, p) /\ UNCHANGED <<task, ok>>

(* Variant: an attempt more than the policy allows. *)
OneMore(a) == a < MaxAttempts
MayRetry(a) == a + 1 < MaxAttempts

Retry(id) == [rec[id] EXCEPT !.attempt = @ + 1]

DeadLetter(id) == dlq' = dlq \cup {id} /\ status' = [status EXCEPT ![id] = "failed"]

HandleTaskFailure(w) ==
    LET id == task[w] IN
    /\ phase[w] = "failure"
    /\ \/ /\ MayRetry(rec[id].attempt)
          /\ todo' = [todo EXCEPT ![w] = <<Retry(id)>>]
          /\ Goto(w, "retry")
          /\ UNCHANGED <<status, dlq>>
       \/ /\ ~MayRetry(rec[id].attempt)
          /\ DeadLetter(id)
          /\ Goto(w, "jobfailed")
          /\ UNCHANGED todo
    /\ UNCHANGED <<job, rec, made, queueVars, task, ok, pub, expired, failing, histVars>>

RetryEnqueued(w) ==
    /\ phase[w] = "retry" /\ Enqueued(w)
    /\ Release(w)
    /\ UNCHANGED <<storeVars, queueVars, actorVars, histVars>>

(* TasksByStage: every record of the stage, of every attempt.  Variant: a   *)
(* stage without a record is complete.                                      *)
NoneMissing(s) == \A id \in Created : rec[id].stage = s => status[id] = "succeeded"
StageComplete(s) ==
    /\ \E id \in Created : rec[id].stage = s
    /\ \A id \in Created : rec[id].stage = s => status[id] = "succeeded"

VerifyStage(w) ==
    /\ phase[w] = "verify"
    /\ IF StageComplete(rec[task[w]].stage) THEN Continue(w, "advance") ELSE Release(w)
    /\ UNCHANGED <<storeVars, queueVars, actorVars, histVars>>

(* Every stage that is not complete and depends on complete ones only is    *)
(* materialised, whether or not it was before.                              *)
AdvanceStage(w) ==
    LET complete == {s \in Stage : StageComplete(s)} IN
    /\ phase[w] = "advance"
    /\ \E q \in TasksOf({s \in Stage \ complete : DependsOn[s] \subseteq complete}) :
          todo' = [todo EXCEPT ![w] = q]
    /\ Goto(w, "enqueue")
    /\ UNCHANGED <<storeVars, queueVars, task, ok, pub, expired, failing, histVars>>

CheckAllDone(w) ==
    /\ phase[w] = "enqueue" /\ Enqueued(w)
    /\ IF \A s \in Stage : StageComplete(s) THEN Continue(w, "jobdone") ELSE Release(w)
    /\ UNCHANGED <<storeVars, queueVars, actorVars, histVars>>

(* UpdateJobStatus overwrites whatever the status was. *)
MarkJobDone(w) ==
    /\ phase[w] \in {"jobfailed", "jobdone"}
    /\ job' = IF phase[w] = "jobfailed" THEN "failed" ELSE "succeeded"
    /\ Release(w)
    /\ UNCHANGED <<rec, status, dlq, made, queueVars, actorVars, histVars>>

(* So does CancelJob, whatever has become of the job meanwhile. *)
CancelJob ==
    /\ job' = "cancelled"
    /\ UNCHANGED <<rec, status, dlq, made, queueVars, workerVars, actorVars, histVars>>

(*************** the reconciler ********************************************)
(* ListExpiredLeases: the records of running tasks whose lease ran out, their *)
(* worker dead, or late to report.                                          *)
Late(id) == Holds(id) /\ ~Runs(id)
Lapsed == {id \in Created : status[id] = "running" /\ ~Runs(id)}

Reconcile ==
    /\ expired = {} /\ ~failing /\ Enqueued(Rec)
    /\ expired' \in SUBSET Lapsed \ {{}}
    /\ IF \E id \in expired' : Late(id) THEN Fault ELSE UNCHANGED faults
    /\ UNCHANGED <<storeVars, queueVars, workerVars, todo, pub, failing, fails, done, orphans>>

(* The record keeps its status and its lease when it is enqueued again; the *)
(* dead-letter path fails the job after that.                               *)
HandleExpired(id) ==
    /\ id \in expired /\ ~failing /\ Enqueued(Rec)
    /\ expired' = expired \ {id}
    /\ \/ /\ MayRetry(rec[id].attempt)
          /\ todo' = [todo EXCEPT ![Rec] = <<Retry(id)>>]
          /\ UNCHANGED <<status, dlq, failing>>
       \/ /\ ~MayRetry(rec[id].attempt)
          /\ DeadLetter(id) /\ failing' = TRUE
          /\ UNCHANGED todo
    /\ UNCHANGED <<job, rec, made, queueVars, workerVars, pub, histVars>>

FailJob ==
    /\ failing /\ failing' = FALSE
    /\ job' = "failed"
    /\ UNCHANGED <<rec, status, dlq, made, queueVars, workerVars, todo, pub, expired, histVars>>

(* Who dies between UpsertTask and Publish leaves a record behind.          *)
LeavesRecord(a) ==
    /\ todo' = [todo EXCEPT ![a] = <<>>] /\ pub' = [pub EXCEPT ![a] = None]
    /\ orphans' = IF pub[a] = None THEN orphans ELSE orphans \cup {pub[a]}

(* A worker's process dies, and another takes its place.                    *)
Crash(w) ==
    /\ phase[w] # "idle" /\ Fault
    /\ Release(w) /\ LeavesRecord(w)
    /\ UNCHANGED <<storeVars, queueVars, expired, failing, fails, done>>

(* The process of AcceptJob, or of the reconciler, dies.                    *)
ApiDies ==
    /\ ~Enqueued(Api) /\ Fault
    /\ LeavesRecord(Api)
    /\ UNCHANGED <<storeVars, queueVars, workerVars, expired, failing, fails, done>>

ReconcilerDies ==
    /\ expired # {} \/ failing \/ ~Enqueued(Rec)
    /\ Fault
    /\ LeavesRecord(Rec)
    /\ expired' = {} /\ failing' = FALSE
    /\ UNCHANGED <<storeVars, queueVars, workerVars, fails, done>>

WorkerStep(w) ==
    \/ Receive(w) \/ MarkRunning(w) \/ RunTask(w) \/ Settle(w) \/ SetTaskResult(w)
    \/ HandleTaskFailure(w) \/ RetryEnqueued(w) \/ VerifyStage(w) \/ AdvanceStage(w)
    \/ CheckAllDone(w) \/ MarkJobDone(w)
EnqueueStep(a) == Upsert(a) \/ Publish(a)
LeaseStep(id) == Redeliver(id) \/ DelayOver(id)
ReconcilerStep == Reconcile \/ FailJob \/ \E id \in Created : HandleExpired(id)

Next ==
    \/ \E w \in Worker : WorkerStep(w) \/ Crash(w)
    \/ \E a \in Actor : EnqueueStep(a)
    \/ \E id \in Created : LeaseStep(id)
    \/ ReconcilerStep \/ CancelJob \/ ApiDies \/ ReconcilerDies

(* Processes are scheduled, delays and leases of the dead end, pipelines    *)
(* finish.  Nobody is obliged to cancel the job.                            *)
Fairness ==
    /\ \A w \in Worker : WF_vars(WorkerStep(w))
    /\ \A a \in Actor : WF_vars(EnqueueStep(a))
    /\ \A id \in Id : WF_vars(LeaseStep(id))
    /\ WF_vars(ReconcilerStep)

Spec == Init /\ [][Next]_vars
FairSpec == Spec /\ Fairness

-----------------------------------------------------------------------------
TypeOK ==
    /\ job \in {"queued", "succeeded", "failed", "cancelled"}
    /\ made \in 0..MaxTasks
    /\ rec \in [Id -> Task \cup {None}]
    /\ status \in [Id -> {"none", "pending", "running", "succeeded", "failed"}]
    /\ dlq \subseteq Created
    /\ queue \subseteq Created /\ delayed \subseteq Created /\ leased \subseteq Created
    /\ phase \in [Worker -> {"idle", "received", "running", "settle", "report",
                             "verify", "failure", "retry", "jobfailed", "advance",
                             "enqueue", "jobdone"}]
    /\ task \in [Worker -> Created \cup {None}] /\ ok \in [Worker -> BOOLEAN]
    /\ todo \in [Actor -> Seq(Task)] /\ pub \in [Actor -> Created \cup {None}]
    /\ expired \subseteq Created /\ failing \in BOOLEAN /\ orphans \subseteq Created
    /\ fails \in 0..MaxFails /\ faults \in 0..MaxFaults
    /\ done \subseteq Shards

(* No task of a stage exists before a stage it depends on has had a         *)
(* success, and a job that is reported succeeded has had one in every stage.*)
StagesInOrder ==
    /\ \A id \in Created : \A d \in DependsOn[rec[id].stage] : \E x \in done : x[1] = d
    /\ job = "succeeded" => \A s \in Stage : \E x \in done : x[1] = s

(* A job fails only when a task has used up its attempts, and only then is  *)
(* a task dead-lettered, whichever of worker and reconciler gives up on it. *)
FailedHasCause ==
    /\ job = "failed" => dlq # {}
    /\ \A id \in dlq : rec[id].attempt = MaxAttempts - 1

(* A task that nobody has started is not forgotten: the broker will deliver *)
(* it or its publisher is about to hand it over.  The exception is a        *)
(* publisher that died after UpsertTask.                                    *)
NotForgotten ==
    \A id \in Created : status[id] = "pending" =>
        \/ id \in queue \cup delayed \cup leased \/ \E a \in Actor : pub[a] = id
        \/ id \in orphans

(* Without a crash or a late report no two workers run the same task.       *)
NoDoubleRun ==
    faults = 0 => \A v, w \in Worker :
        v # w /\ phase[v] = "running" /\ phase[w] = "running" => task[v] # task[w]

(* Without a crash or a late report the job is decided in the end, however  *)
(* the workers interleave and whichever executions fail (the behaviours     *)
(* that reach the bound on records are not judged).                         *)
Settles == [](faults = 0 /\ made < MaxTasks) => <>(job # "queued")

(* "Gather: when all siblings done, enqueue assembly task."                 *)
GatherSeesAll ==
    \A id \in Created : \A d \in DependsOn[rec[id].stage] :
        \A i \in 1..Width[d] : <<d, i>> \in done

(* "After MaxAttempts, task goes to a dead-letter queue; job marked failed": *)
(* a job with a dead-lettered task is not reported succeeded.               *)
DeadLetterFails == dlq # {} => job # "succeeded"
=============================================================================
