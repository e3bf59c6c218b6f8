------------------------- MODULE ControlPlaneProofs -------------------------
(***************************************************************************)
(* Proofs about ControlPlane, for any stages, widths, workers and any      *)
(* bounds: whatever crashes, comes late, fails or is delivered twice.      *)
(***************************************************************************)
EXTENDS ControlPlane, FiniteSetTheorems, SequenceTheorems, TLAPS

(***************************************************************************)
(* The invariant, in the parts the theorems need.                          *)
(***************************************************************************)
Typed ==
    /\ TypeOK
    /\ \A id \in Created : rec[id] \in Task
    /\ \A w \in Worker : phase[w] # "idle" => task[w] \in Created

(* What came before: a stage has had a success when a shard of it is done, *)
(* and a task has its turn when every stage it depends on has.             *)
Had  == {s \in Stage : \E x \in done : x[1] = s}
Turn == {s \in Stage : DependsOn[s] \subseteq Had}
Ordered ==
    /\ \A id \in Created : status[id] = "succeeded" => rec[id].stage \in Had
    /\ \A id \in Created : rec[id].stage \in Turn
    /\ \A a \in Actor : \A i \in DOMAIN todo[a] : todo[a][i].stage \in Turn
    /\ \A w \in Worker : phase[w] = "jobdone" => Had = Stage
    /\ job = "succeeded" => Had = Stage

(* Who is about to fail the job has dead-lettered a task before.           *)
Blamed ==
    /\ job = "failed" => dlq # {}
    /\ failing => dlq # {}
    /\ \A w \in Worker : phase[w] = "jobfailed" => dlq # {}
    /\ \A id \in dlq : rec[id].attempt = MaxAttempts - 1

(* A worker that settles a message has marked its task as running before.  *)
Started ==
    /\ NotForgotten
    /\ \A w \in Worker : phase[w] \notin {"idle", "received"} => status[task[w]] # "pending"

(* A task about to be published is known to its publisher alone.           *)
Fresh ==
    \A a \in Actor : pub[a] # None =>
        /\ pub[a] \notin queue \cup delayed \cup leased
        /\ \A b \in Actor : pub[b] = pub[a] => b = a

(* Without a fault a message is in one place, and a worker that has not    *)
(* settled it leases it alone.                                             *)
Active(w) == phase[w] \in {"received", "running", "settle"}
OneMessage ==
    faults = 0 =>
        /\ queue \cap delayed = {} /\ queue \cap leased = {} /\ delayed \cap leased = {}
        /\ \A w \in Worker : Active(w) => task[w] \in leased
        /\ \A v, w \in Worker : v # w /\ Active(v) /\ Active(w) => task[v] # task[w]

IInv == Typed /\ Ordered /\ Blamed /\ Started /\ Fresh /\ OneMessage

(***************************************************************************)
(* Sequences of tasks.                                                     *)
(***************************************************************************)
LEMMA TakeTask ==
  ASSUME NEW q \in Seq(Task), q # <<>>
  PROVE  /\ Head(q) \in Task /\ Tail(q) \in Seq(Task)
         /\ 1 \in DOMAIN q /\ Head(q) = q[1]
         /\ \A i \in DOMAIN Tail(q) : i + 1 \in DOMAIN q /\ Tail(q)[i] = q[i + 1]
<1>1. Len(q) \in Nat \ {0} /\ DOMAIN q = 1..Len(q)
  BY EmptySeq, LenProperties
<1>2. /\ Tail(q) \in Seq(Task) /\ Head(q) \in Task /\ Len(Tail(q)) = Len(q) - 1
      /\ \A i \in 1..Len(Tail(q)) : Tail(q)[i] = q[i + 1]
  BY HeadTailProperties
<1>3. DOMAIN Tail(q) = 1..(Len(q) - 1)
  BY <1>2, LenProperties
<1>4. Head(q) = q[1]
  BY <1>1
<1> QED BY <1>1, <1>2, <1>3, <1>4

LEMMA OneTask ==
  ASSUME NEW t \in Task
  PROVE  <<t>> \in Seq(Task) /\ \A i \in DOMAIN <<t>> : <<t>>[i] = t
OBVIOUS

LEMMA NoTask == <<>> \in Seq(Task) /\ DOMAIN <<>> = {}
<1>1. <<>> \in Seq(Task) /\ Len(<<>>) = 0
  BY EmptySeq
<1> QED BY <1>1, LenProperties

(* The tasks of some stages are tasks of those stages. *)
LEMMA TaskLists ==
  ASSUME NEW S \in SUBSET Stage, NEW q \in TasksOf(S)
  PROVE  q \in Seq(Task) /\ \A i \in DOMAIN q : q[i] \in Task /\ q[i].stage \in S
<1> DEFINE Tasks(s) == {[stage |-> s, index |-> i, attempt |-> 0] : i \in 1..Width[s]}
           family == {Tasks(s) : s \in S}
           tasks == UNION family
<1>1. \A t \in tasks : t \in Task /\ t.stage \in S
  BY StageAssumption DEF Task, Attempts
<1>2. ASSUME NEW s \in S PROVE IsFiniteSet(Tasks(s))
  <2> DEFINE f == [i \in 1..Width[s] |-> [stage |-> s, index |-> i, attempt |-> 0]]
  <2>1. f \in Surjection(1..Width[s], Tasks(s))
    BY DEF Surjection
  <2>2. IsFiniteSet(1..Width[s])
    BY StageAssumption, FS_Interval
  <2> HIDE DEF f, Tasks
  <2> QED BY <2>1, <2>2, FS_Surjection
<1>3. IsFiniteSet(family)
  <2> DEFINE g == [s \in S |-> Tasks(s)]
  <2> HIDE DEF Tasks
  <2>1. g \in Surjection(S, family)
    BY DEF Surjection
  <2>2. IsFiniteSet(S)
    BY StageAssumption, FS_Subset
  <2> HIDE DEF g, family
  <2> QED BY <2>1, <2>2, FS_Surjection
<1>4. Cardinality(tasks) \in Nat
  <2> HIDE DEF Tasks
  <2> USE <1>2
  <2>1. \A T \in family : IsFiniteSet(T)
    OBVIOUS
  <2> HIDE DEF family
  <2> QED BY <1>3, <2>1, FS_UNION, FS_CardinalityType
<1>5. q \in [1..Cardinality(tasks) -> tasks]
  BY DEF TasksOf
<1> HIDE DEF tasks
<1>6. q \in [1..Cardinality(tasks) -> Task] /\ DOMAIN q = 1..Cardinality(tasks)
  BY <1>1, <1>5
<1>7. q \in Seq(Task)
  BY <1>4, <1>6, SeqDef
<1> QED BY <1>1, <1>5, <1>7

LEMMA RetryIsTask ==
  ASSUME NEW id \in Created, rec[id] \in Task, MayRetry(rec[id].attempt)
  PROVE  Retry(id) \in Task /\ Retry(id).stage = rec[id].stage
<1>1. rec[id].attempt + 1 \in Attempts
  BY StageAssumption DEF Task, Attempts, MayRetry
<1> QED BY <1>1 DEF Retry, Task

LEMMA LastAttempt ==
  ASSUME NEW a \in Attempts, ~MayRetry(a)
  PROVE  a = MaxAttempts - 1
BY StageAssumption DEF Attempts, MayRetry

(* Types: a record, once created, keeps a task. *)
LEMMA TypedStep == Typed /\ [Next]_vars => Typed'
<1> SUFFICES ASSUME Typed, [Next]_vars PROVE Typed'
  OBVIOUS
<1>1. ASSUME NEW w \in Worker, Receive(w) PROVE Typed'
  BY <1>1, BoundAssumption DEF Typed, TypeOK, Created, Actor, Receive, Deliver, Goto, storeVars, actorVars, histVars
<1>2. ASSUME NEW w \in Worker, MarkRunning(w) PROVE Typed'
  BY <1>2, BoundAssumption DEF Typed, TypeOK, Created, Actor, MarkRunning, Goto, queueVars, actorVars, histVars
<1>3. ASSUME NEW w \in Worker, RunTask(w) PROVE Typed'
  <2>0. fails \in 0..MaxFails /\ ok \in [Worker -> BOOLEAN]
    BY DEF Typed, TypeOK
  <2>1. fails' \in 0..MaxFails /\ ok' \in [Worker -> BOOLEAN]
    <3>1. CASE ok' = [ok EXCEPT ![w] = TRUE] /\ UNCHANGED fails
      BY <2>0, <3>1
    <3>2. CASE fails < MaxFails /\ fails' = fails + 1 /\ ok' = [ok EXCEPT ![w] = FALSE]
      <4>1. fails' \in 0..MaxFails
        BY <2>0, <3>2, BoundAssumption
      <4> QED BY <2>0, <3>2, <4>1
    <3> QED BY <1>3, <3>1, <3>2 DEF RunTask
  <2>2. /\ phase[w] = "running" /\ phase' = [phase EXCEPT ![w] = "settle"]
        /\ UNCHANGED <<storeVars, queueVars, task, actorVars, faults, done, orphans>>
    BY <1>3 DEF RunTask, Goto
  <2> QED BY <1>3, <2>1, <2>2 DEF Typed, TypeOK, Created, storeVars, queueVars, actorVars
<1>4. ASSUME NEW w \in Worker, Settle(w) PROVE Typed'
  BY <1>4, BoundAssumption DEF Typed, TypeOK, Created, Actor, Settle, GiveBack, Goto, storeVars, actorVars, histVars
<1>5. ASSUME NEW w \in Worker, SetTaskResult(w) PROVE Typed'
  <2>1. task[w] \in Created /\ rec[task[w]] \in Task
    BY <1>5 DEF Typed, SetTaskResult
  <2>2. Shard(task[w]) \in Shards
    BY <2>1, StageAssumption DEF Shard, Shards, Task
  <2> QED BY <1>5, <2>1, <2>2 DEF Typed, TypeOK, Created, Actor, SetTaskResult, Goto, queueVars, actorVars
<1>6. ASSUME NEW w \in Worker, HandleTaskFailure(w) PROVE Typed'
  <2>1. task[w] \in Created /\ rec[task[w]] \in Task
    BY <1>6 DEF Typed, HandleTaskFailure
  <2>2. MayRetry(rec[task[w]].attempt) =>
           Retry(task[w]) \in Task /\ <<Retry(task[w])>> \in Seq(Task)
    BY <2>1, RetryIsTask, OneTask
  <2> QED BY <1>6, <2>1, <2>2 DEF Typed, TypeOK, Created, Actor, HandleTaskFailure, DeadLetter, Goto, queueVars, histVars
<1>7. ASSUME NEW w \in Worker, RetryEnqueued(w) PROVE Typed'
  BY <1>7, BoundAssumption DEF Typed, TypeOK, Created, Actor, RetryEnqueued, Release, Goto, storeVars, queueVars, actorVars, histVars
<1>8. ASSUME NEW w \in Worker, VerifyStage(w) PROVE Typed'
  BY <1>8, BoundAssumption DEF Typed, TypeOK, Created, Actor, VerifyStage, Continue, Release, Goto, storeVars, queueVars, actorVars, histVars
<1>9. ASSUME NEW w \in Worker, AdvanceStage(w) PROVE Typed'
  <2>1. todo'[w] \in Seq(Task)
    <3>1. PICK q \in TasksOf({s \in Stage \ {r \in Stage : StageComplete(r)} :
                                 DependsOn[s] \subseteq {r \in Stage : StageComplete(r)}}) :
              todo' = [todo EXCEPT ![w] = q]
      BY <1>9 DEF AdvanceStage
    <3>2. q \in Seq(Task)
      BY <3>1, TaskLists
    <3> QED BY <1>9, <3>1, <3>2 DEF Typed, TypeOK, Actor
  <2> QED BY <1>9, <2>1 DEF Typed, TypeOK, Created, Actor, AdvanceStage, Goto, storeVars, queueVars, histVars
<1>10. ASSUME NEW w \in Worker, CheckAllDone(w) PROVE Typed'
  BY <1>10, BoundAssumption DEF Typed, TypeOK, Created, Actor, CheckAllDone, Continue, Release, Goto, storeVars, queueVars, actorVars, histVars
<1>11. ASSUME NEW w \in Worker, MarkJobDone(w) PROVE Typed'
  BY <1>11, BoundAssumption DEF Typed, TypeOK, Created, Actor, MarkJobDone, Release, Goto, queueVars, actorVars, histVars
<1>12. ASSUME NEW w \in Worker, Crash(w) PROVE Typed'
  <2>1. faults + 1 \in 0..MaxFaults /\ faults' = faults + 1
    BY <1>12, BoundAssumption DEF Typed, TypeOK, Crash, Fault
  <2>2. orphans' \subseteq Created
    BY <1>12 DEF Typed, TypeOK, Crash, LeavesRecord, Actor
  <2>3. todo' \in [Actor -> Seq(Task)] /\ pub' \in [Actor -> Created \cup {None}]
    BY <1>12, NoTask DEF Typed, TypeOK, Crash, LeavesRecord, Actor
  <2>4. /\ phase' = [phase EXCEPT ![w] = "idle"] /\ task' = [task EXCEPT ![w] = None]
        /\ ok' = [ok EXCEPT ![w] = FALSE]
        /\ UNCHANGED <<job, rec, status, dlq, made, queue, delayed, leased, expired, failing, fails, done>>
    BY <1>12 DEF Crash, LeavesRecord, Release, Goto, Fault, storeVars, queueVars
  <2> QED BY <1>12, <2>1, <2>2, <2>3, <2>4 DEF Typed, TypeOK, Created
<1>13. ASSUME NEW a \in Actor, Upsert(a) PROVE Typed'
  <2>1. todo[a] \in Seq(Task) /\ todo[a] # <<>>
    BY <1>13 DEF Typed, TypeOK, Upsert
  <2>2. Head(todo[a]) \in Task /\ Tail(todo[a]) \in Seq(Task)
    BY <2>1, TakeTask
  <2>3. made \in Nat /\ made' = made + 1 /\ made + 1 \in Id
    BY <1>13, BoundAssumption DEF Typed, TypeOK, Upsert, Id
  <2> QED BY <1>13, <2>2, <2>3, BoundAssumption DEF Typed, TypeOK, Created, Actor, Upsert, queueVars, workerVars, histVars
<1>14. ASSUME NEW a \in Actor, Publish(a) PROVE Typed'
  BY <1>14, BoundAssumption DEF Typed, TypeOK, Created, Actor, Publish, storeVars, workerVars, histVars
<1>15. ASSUME NEW id \in Created, Redeliver(id) PROVE Typed'
  BY <1>15, BoundAssumption DEF Typed, TypeOK, Created, Actor, Redeliver, Fault, storeVars, workerVars, actorVars
<1>16. ASSUME NEW id \in Created, DelayOver(id) PROVE Typed'
  BY <1>16, BoundAssumption DEF Typed, TypeOK, Created, Actor, DelayOver, Fault, storeVars, workerVars, actorVars
<1>17. ASSUME NEW id \in Created, HandleExpired(id) PROVE Typed'
  <2>1. rec[id] \in Task
    BY <1>17 DEF Typed
  <2>2. MayRetry(rec[id].attempt) => Retry(id) \in Task /\ <<Retry(id)>> \in Seq(Task)
    BY <2>1, RetryIsTask, OneTask
  <2> QED BY <1>17, <2>1, <2>2 DEF Typed, TypeOK, Created, Actor, HandleExpired, DeadLetter, queueVars, workerVars, histVars
<1>18. CASE Reconcile
  BY <1>18, BoundAssumption DEF Typed, TypeOK, Created, Actor, Reconcile, Fault, Lapsed, storeVars, queueVars, workerVars
<1>19. CASE CancelJob
  BY <1>19, BoundAssumption DEF Typed, TypeOK, Created, Actor, CancelJob, queueVars, workerVars, actorVars, histVars
<1>20. CASE UNCHANGED vars
  BY <1>20 DEF Typed, TypeOK, Created, Actor, vars, storeVars, queueVars, workerVars, actorVars, histVars
<1>21. CASE FailJob
  BY <1>21, BoundAssumption DEF Typed, TypeOK, Created, Actor, FailJob, queueVars, workerVars, actorVars, histVars
<1>22. CASE ApiDies
  <2>1. faults + 1 \in 0..MaxFaults /\ faults' = faults + 1
    BY <1>22, BoundAssumption DEF Typed, TypeOK, ApiDies, Fault
  <2>2. orphans' \subseteq Created
    BY <1>22 DEF Typed, TypeOK, ApiDies, LeavesRecord, Actor
  <2>3. todo' \in [Actor -> Seq(Task)] /\ pub' \in [Actor -> Created \cup {None}]
    BY <1>22, NoTask DEF Typed, TypeOK, ApiDies, LeavesRecord, Actor
  <2>4. /\ UNCHANGED <<job, rec, status, dlq, made, queue, delayed, leased, fails, done>>
        /\ UNCHANGED <<phase, task, ok>>
        /\ expired' \in {expired, {}} /\ failing' \in {failing, FALSE}
    BY <1>22 DEF ApiDies, LeavesRecord, Fault, storeVars, queueVars, workerVars
  <2> QED BY <1>22, <2>1, <2>2, <2>3, <2>4 DEF Typed, TypeOK, Created
<1>23. CASE ReconcilerDies
  <2>1. faults + 1 \in 0..MaxFaults /\ faults' = faults + 1
    BY <1>23, BoundAssumption DEF Typed, TypeOK, ReconcilerDies, Fault
  <2>2. orphans' \subseteq Created
    BY <1>23 DEF Typed, TypeOK, ReconcilerDies, LeavesRecord, Actor
  <2>3. todo' \in [Actor -> Seq(Task)] /\ pub' \in [Actor -> Created \cup {None}]
    BY <1>23, NoTask DEF Typed, TypeOK, ReconcilerDies, LeavesRecord, Actor
  <2>4. /\ UNCHANGED <<job, rec, status, dlq, made, queue, delayed, leased, fails, done>>
        /\ UNCHANGED <<phase, task, ok>>
        /\ expired' \in {expired, {}} /\ failing' \in {failing, FALSE}
    BY <1>23 DEF ReconcilerDies, LeavesRecord, Fault, storeVars, queueVars, workerVars
  <2> QED BY <1>23, <2>1, <2>2, <2>3, <2>4 DEF Typed, TypeOK, Created
<1> QED
  BY <1>1, <1>2, <1>3, <1>4, <1>5, <1>6, <1>7, <1>8, <1>9, <1>10, <1>11, <1>12, <1>13, <1>14, <1>15, <1>16, <1>17, <1>18, <1>19, <1>20, <1>21, <1>22, <1>23
     DEF Next, WorkerStep, EnqueueStep, LeaseStep, ReconcilerStep

(* Who fails the job has dead-lettered a task in its last attempt. *)
LEMMA BlamedStep == Typed /\ Blamed /\ [Next]_vars => Blamed'
<1> SUFFICES ASSUME Typed /\ Blamed, [Next]_vars PROVE Blamed'
  OBVIOUS
<1>1. ASSUME NEW w \in Worker, Receive(w) PROVE Blamed'
  BY <1>1 DEF Typed, TypeOK, Created, Actor, Blamed, Receive, Deliver, Goto, storeVars, actorVars, histVars
<1>2. ASSUME NEW w \in Worker, MarkRunning(w) PROVE Blamed'
  BY <1>2 DEF Typed, TypeOK, Created, Actor, Blamed, MarkRunning, Goto, queueVars, actorVars, histVars
<1>3. ASSUME NEW w \in Worker, RunTask(w) PROVE Blamed'
  BY <1>3 DEF Typed, TypeOK, Created, Actor, Blamed, RunTask, Goto, storeVars, queueVars, actorVars
<1>4. ASSUME NEW w \in Worker, Settle(w) PROVE Blamed'
  BY <1>4 DEF Typed, TypeOK, Created, Actor, Blamed, Settle, GiveBack, Goto, storeVars, actorVars, histVars
<1>5. ASSUME NEW w \in Worker, SetTaskResult(w) PROVE Blamed'
  BY <1>5 DEF Typed, TypeOK, Created, Actor, Blamed, SetTaskResult, Goto, queueVars, actorVars
<1>6. ASSUME NEW w \in Worker, HandleTaskFailure(w) PROVE Blamed'
  <2>1. task[w] \in Created /\ rec[task[w]].attempt \in Attempts
    BY <1>6 DEF Typed, HandleTaskFailure, Task
  <2>2. ~MayRetry(rec[task[w]].attempt) => rec[task[w]].attempt = MaxAttempts - 1
    BY <2>1, LastAttempt
  <2> QED BY <1>6, <2>1, <2>2 DEF Typed, TypeOK, Blamed, HandleTaskFailure, DeadLetter, Goto, queueVars, histVars
<1>7. ASSUME NEW w \in Worker, RetryEnqueued(w) PROVE Blamed'
  BY <1>7 DEF Typed, TypeOK, Created, Actor, Blamed, RetryEnqueued, Release, Goto, storeVars, queueVars, actorVars, histVars
<1>8. ASSUME NEW w \in Worker, VerifyStage(w) PROVE Blamed'
  BY <1>8 DEF Typed, TypeOK, Created, Actor, Blamed, VerifyStage, Continue, Release, Goto, storeVars, queueVars, actorVars, histVars
<1>9. ASSUME NEW w \in Worker, AdvanceStage(w) PROVE Blamed'
  BY <1>9 DEF Typed, TypeOK, Created, Actor, Blamed, AdvanceStage, Goto, storeVars, queueVars, histVars
<1>10. ASSUME NEW w \in Worker, CheckAllDone(w) PROVE Blamed'
  BY <1>10 DEF Typed, TypeOK, Created, Actor, Blamed, CheckAllDone, Continue, Release, Goto, storeVars, queueVars, actorVars, histVars
<1>11. ASSUME NEW w \in Worker, MarkJobDone(w) PROVE Blamed'
  BY <1>11 DEF Typed, TypeOK, Created, Actor, Blamed, MarkJobDone, Release, Goto, queueVars, actorVars, histVars
<1>12. ASSUME NEW w \in Worker, Crash(w) PROVE Blamed'
  BY <1>12 DEF Typed, TypeOK, Created, Actor, Blamed, Crash, LeavesRecord, Release, Goto, Fault, storeVars, queueVars
<1>13. ASSUME NEW a \in Actor, Upsert(a) PROVE Blamed'
  <2>1. made + 1 \notin Created /\ \A i \in Created : rec'[i] = rec[i]
    BY <1>13 DEF Typed, TypeOK, Created, Upsert
  <2> QED BY <1>13, <2>1 DEF Typed, TypeOK, Blamed, Upsert, queueVars, workerVars, histVars
<1>14. ASSUME NEW a \in Actor, Publish(a) PROVE Blamed'
  BY <1>14 DEF Typed, TypeOK, Created, Actor, Blamed, Publish, storeVars, workerVars, histVars
<1>15. ASSUME NEW id \in Created, Redeliver(id) PROVE Blamed'
  BY <1>15 DEF Typed, TypeOK, Created, Actor, Blamed, Redeliver, Fault, storeVars, workerVars, actorVars
<1>16. ASSUME NEW id \in Created, DelayOver(id) PROVE Blamed'
  BY <1>16 DEF Typed, TypeOK, Created, Actor, Blamed, DelayOver, Fault, storeVars, workerVars, actorVars
<1>17. ASSUME NEW id \in Created, HandleExpired(id) PROVE Blamed'
  <2>1. rec[id].attempt \in Attempts
    BY <1>17 DEF Typed, Task
  <2>2. ~MayRetry(rec[id].attempt) => rec[id].attempt = MaxAttempts - 1
    BY <2>1, LastAttempt
  <2> QED BY <1>17, <2>1, <2>2 DEF Typed, TypeOK, Blamed, HandleExpired, DeadLetter, queueVars, workerVars, histVars
<1>18. CASE Reconcile
  BY <1>18 DEF Typed, TypeOK, Created, Actor, Blamed, Reconcile, Fault, Lapsed, storeVars, queueVars, workerVars
<1>19. CASE CancelJob
  BY <1>19 DEF Typed, TypeOK, Created, Actor, Blamed, CancelJob, queueVars, workerVars, actorVars, histVars
<1>20. CASE UNCHANGED vars
  BY <1>20 DEF Typed, TypeOK, Created, Actor, Blamed, vars, storeVars, queueVars, workerVars, actorVars, histVars
<1>21. CASE FailJob
  BY <1>21 DEF Typed, TypeOK, Created, Actor, Blamed, FailJob, queueVars, workerVars, actorVars, histVars
<1>22. CASE ApiDies
  BY <1>22 DEF Typed, TypeOK, Created, Actor, Blamed, ApiDies, LeavesRecord, Fault, storeVars, queueVars, workerVars
<1>23. CASE ReconcilerDies
  BY <1>23 DEF Typed, TypeOK, Created, Actor, Blamed, ReconcilerDies, LeavesRecord, Fault, storeVars, queueVars, workerVars
<1> QED
  BY <1>1, <1>2, <1>3, <1>4, <1>5, <1>6, <1>7, <1>8, <1>9, <1>10, <1>11, <1>12, <1>13, <1>14, <1>15, <1>16, <1>17, <1>18, <1>19, <1>20, <1>21, <1>22, <1>23
     DEF Next, WorkerStep, EnqueueStep, LeaseStep, ReconcilerStep

(* A task that is not pending any more needs no message. *)
LEMMA Marked ==
  ASSUME Typed, Started, UNCHANGED <<made, queueVars, pub, orphans, task>>,
         \A i \in Created : status'[i] = "pending" => status[i] = "pending",
         \A v \in Worker : phase'[v] \notin {"idle", "received"} =>
            phase[v] \notin {"idle", "received"} \/ status'[task[v]] # "pending"
  PROVE  Started'
<1>1. NotForgotten'
  BY DEF Started, NotForgotten, Created, queueVars
<1>2. ASSUME NEW v \in Worker, phase'[v] \notin {"idle", "received"} PROVE status'[task'[v]] # "pending"
  <2>1. CASE phase[v] \notin {"idle", "received"}
    BY <2>1 DEF Typed, Started
  <2>2. CASE phase[v] \in {"idle", "received"}
    BY <1>2, <2>2
  <2> QED BY <2>1, <2>2
<1> QED BY <1>1, <1>2 DEF Started

(* A task nobody has started is with the broker or its publisher. *)
LEMMA StartedStep == Typed /\ Started /\ [Next]_vars => Started'
<1> SUFFICES ASSUME Typed /\ Started, [Next]_vars PROVE Started'
  OBVIOUS
<1>1. ASSUME NEW w \in Worker, Receive(w) PROVE Started'
  BY <1>1, BoundAssumption DEF Typed, TypeOK, Created, Actor, Started, NotForgotten, Receive, Deliver, Goto, storeVars, actorVars, histVars
<1>2. ASSUME NEW w \in Worker, MarkRunning(w) PROVE Started'
  <2> DEFINE at == task[w]
  <2>0. Created \subseteq Id /\ at \in Id
    BY <1>2, BoundAssumption DEF Typed, TypeOK, Created, Id, MarkRunning, Goto, queueVars, actorVars, histVars
  <2> HIDE DEF at
  <2>4. status' = status \/ \E v \in {"running", "failed", "succeeded"} : status' = [status EXCEPT ![at] = v]
    BY <1>2 DEF at, MarkRunning, Goto, queueVars, actorVars, histVars
  <2>1. \A i \in Created : status'[i] = "pending" => status[i] = "pending"
    BY <2>0, <2>4 DEF Typed, TypeOK
  <2>2. UNCHANGED <<made, queueVars, pub, orphans, task>>
    BY <1>2 DEF MarkRunning, Goto, queueVars, actorVars, histVars
  <2>3. \A v \in Worker : phase'[v] \notin {"idle", "received"} =>
           phase[v] \notin {"idle", "received"} \/ status'[task[v]] # "pending"
    <3> SUFFICES ASSUME NEW v \in Worker, phase'[v] \notin {"idle", "received"}, phase[v] \in {"idle", "received"}
                 PROVE  status'[task[v]] # "pending"
      OBVIOUS
    <3> QED BY <1>2, <2>0 DEF at, Typed, TypeOK, MarkRunning, Goto, queueVars, actorVars, histVars
  <2> QED BY <2>1, <2>2, <2>3, Marked
<1>3. ASSUME NEW w \in Worker, RunTask(w) PROVE Started'
  BY <1>3, BoundAssumption DEF Typed, TypeOK, Created, Actor, Started, NotForgotten, RunTask, Goto, storeVars, queueVars, actorVars
<1>4. ASSUME NEW w \in Worker, Settle(w) PROVE Started'
  BY <1>4, BoundAssumption DEF Typed, TypeOK, Created, Actor, Started, NotForgotten, Settle, GiveBack, Goto, storeVars, actorVars, histVars
<1>5. ASSUME NEW w \in Worker, SetTaskResult(w) PROVE Started'
  <2> DEFINE at == task[w]
  <2>0. Created \subseteq Id /\ at \in Id
    BY <1>5, BoundAssumption DEF Typed, TypeOK, Created, Id, SetTaskResult, Goto, queueVars, actorVars
  <2> HIDE DEF at
  <2>4. status' = status \/ \E v \in {"running", "failed", "succeeded"} : status' = [status EXCEPT ![at] = v]
    BY <1>5 DEF at, SetTaskResult, Goto, queueVars, actorVars
  <2>1. \A i \in Created : status'[i] = "pending" => status[i] = "pending"
    BY <2>0, <2>4 DEF Typed, TypeOK
  <2>2. UNCHANGED <<made, queueVars, pub, orphans, task>>
    BY <1>5 DEF SetTaskResult, Goto, queueVars, actorVars
  <2>3. \A v \in Worker : phase'[v] \notin {"idle", "received"} =>
           phase[v] \notin {"idle", "received"} \/ status'[task[v]] # "pending"
    <3> SUFFICES ASSUME NEW v \in Worker, phase'[v] \notin {"idle", "received"}, phase[v] \in {"idle", "received"}
                 PROVE  status'[task[v]] # "pending"
      OBVIOUS
    <3> QED BY <1>5, <2>0 DEF at, Typed, TypeOK, SetTaskResult, Goto, queueVars, actorVars
  <2> QED BY <2>1, <2>2, <2>3, Marked
<1>6. ASSUME NEW w \in Worker, HandleTaskFailure(w) PROVE Started'
  <2> DEFINE at == task[w]
  <2>0. Created \subseteq Id /\ at \in Id
    BY <1>6, BoundAssumption DEF Typed, TypeOK, Created, Id, HandleTaskFailure, DeadLetter, Goto, queueVars, histVars
  <2> HIDE DEF at
  <2>4. status' = status \/ \E v \in {"running", "failed", "succeeded"} : status' = [status EXCEPT ![at] = v]
    BY <1>6 DEF at, HandleTaskFailure, DeadLetter, Goto, queueVars, histVars
  <2>1. \A i \in Created : status'[i] = "pending" => status[i] = "pending"
    BY <2>0, <2>4 DEF Typed, TypeOK
  <2>2. UNCHANGED <<made, queueVars, pub, orphans, task>>
    BY <1>6 DEF HandleTaskFailure, DeadLetter, Goto, queueVars, histVars
  <2>3. \A v \in Worker : phase'[v] \notin {"idle", "received"} =>
           phase[v] \notin {"idle", "received"} \/ status'[task[v]] # "pending"
    <3> SUFFICES ASSUME NEW v \in Worker, phase'[v] \notin {"idle", "received"}, phase[v] \in {"idle", "received"}
                 PROVE  status'[task[v]] # "pending"
      OBVIOUS
    <3> QED BY <1>6, <2>0 DEF at, Typed, TypeOK, HandleTaskFailure, DeadLetter, Goto, queueVars, histVars
  <2> QED BY <2>1, <2>2, <2>3, Marked
<1>7. ASSUME NEW w \in Worker, RetryEnqueued(w) PROVE Started'
  BY <1>7, BoundAssumption DEF Typed, TypeOK, Created, Actor, Started, NotForgotten, RetryEnqueued, Release, Goto, storeVars, queueVars, actorVars, histVars
<1>8. ASSUME NEW w \in Worker, VerifyStage(w) PROVE Started'
  BY <1>8, BoundAssumption DEF Typed, TypeOK, Created, Actor, Started, NotForgotten, VerifyStage, Continue, Release, Goto, storeVars, queueVars, actorVars, histVars
<1>9. ASSUME NEW w \in Worker, AdvanceStage(w) PROVE Started'
  BY <1>9, BoundAssumption DEF Typed, TypeOK, Created, Actor, Started, NotForgotten, AdvanceStage, Goto, storeVars, queueVars, histVars
<1>10. ASSUME NEW w \in Worker, CheckAllDone(w) PROVE Started'
  BY <1>10, BoundAssumption DEF Typed, TypeOK, Created, Actor, Started, NotForgotten, CheckAllDone, Continue, Release, Goto, storeVars, queueVars, actorVars, histVars
<1>11. ASSUME NEW w \in Worker, MarkJobDone(w) PROVE Started'
  BY <1>11, BoundAssumption DEF Typed, TypeOK, Created, Actor, Started, NotForgotten, MarkJobDone, Release, Goto, queueVars, actorVars, histVars
<1>12. ASSUME NEW w \in Worker, Crash(w) PROVE Started'
  BY <1>12, BoundAssumption DEF Typed, TypeOK, Created, Actor, Started, NotForgotten, Crash, LeavesRecord, Release, Goto, Fault, storeVars, queueVars
<1>13. ASSUME NEW a \in Actor, Upsert(a) PROVE Started'
  BY <1>13, BoundAssumption DEF Typed, TypeOK, Created, Actor, Started, NotForgotten, Upsert, queueVars, workerVars, histVars
<1>14. ASSUME NEW a \in Actor, Publish(a) PROVE Started'
  BY <1>14, BoundAssumption DEF Typed, TypeOK, Created, Actor, Started, NotForgotten, Publish, storeVars, workerVars, histVars
<1>15. ASSUME NEW id \in Created, Redeliver(id) PROVE Started'
  BY <1>15, BoundAssumption DEF Typed, TypeOK, Created, Actor, Started, NotForgotten, Redeliver, Fault, storeVars, workerVars, actorVars
<1>16. ASSUME NEW id \in Created, DelayOver(id) PROVE Started'
  BY <1>16, BoundAssumption DEF Typed, TypeOK, Created, Actor, Started, NotForgotten, DelayOver, Fault, storeVars, workerVars, actorVars
<1>17. ASSUME NEW id \in Created, HandleExpired(id) PROVE Started'
  <2> DEFINE at == id
  <2>0. Created \subseteq Id /\ at \in Id
    BY <1>17, BoundAssumption DEF Typed, TypeOK, Created, Id, HandleExpired, DeadLetter, queueVars, workerVars, histVars
  <2> HIDE DEF at
  <2>4. status' = status \/ \E v \in {"running", "failed", "succeeded"} : status' = [status EXCEPT ![at] = v]
    BY <1>17 DEF at, HandleExpired, DeadLetter, queueVars, workerVars, histVars
  <2>1. \A i \in Created : status'[i] = "pending" => status[i] = "pending"
    BY <2>0, <2>4 DEF Typed, TypeOK
  <2>2. UNCHANGED <<made, queueVars, pub, orphans, task>>
    BY <1>17 DEF HandleExpired, DeadLetter, queueVars, workerVars, histVars
  <2>3. \A v \in Worker : phase'[v] \notin {"idle", "received"} =>
           phase[v] \notin {"idle", "received"} \/ status'[task[v]] # "pending"
    <3> SUFFICES ASSUME NEW v \in Worker, phase'[v] \notin {"idle", "received"}, phase[v] \in {"idle", "received"}
                 PROVE  status'[task[v]] # "pending"
      OBVIOUS
    <3> QED BY <1>17, <2>0 DEF at, Typed, TypeOK, HandleExpired, DeadLetter, queueVars, workerVars, histVars
  <2> QED BY <2>1, <2>2, <2>3, Marked
<1>18. CASE Reconcile
  BY <1>18, BoundAssumption DEF Typed, TypeOK, Created, Actor, Started, NotForgotten, Reconcile, Fault, Lapsed, storeVars, queueVars, workerVars
<1>19. CASE CancelJob
  BY <1>19, BoundAssumption DEF Typed, TypeOK, Created, Actor, Started, NotForgotten, CancelJob, queueVars, workerVars, actorVars, histVars
<1>20. CASE UNCHANGED vars
  BY <1>20 DEF Typed, TypeOK, Created, Actor, Started, NotForgotten, vars, storeVars, queueVars, workerVars, actorVars, histVars
<1>21. CASE FailJob
  BY <1>21, BoundAssumption DEF Typed, TypeOK, Created, Actor, Started, NotForgotten, FailJob, queueVars, workerVars, actorVars, histVars
<1>22. CASE ApiDies
  BY <1>22, BoundAssumption DEF Typed, TypeOK, Created, Actor, Started, NotForgotten, ApiDies, LeavesRecord, Fault, storeVars, queueVars, workerVars
<1>23. CASE ReconcilerDies
  BY <1>23, BoundAssumption DEF Typed, TypeOK, Created, Actor, Started, NotForgotten, ReconcilerDies, LeavesRecord, Fault, storeVars, queueVars, workerVars
<1> QED
  BY <1>1, <1>2, <1>3, <1>4, <1>5, <1>6, <1>7, <1>8, <1>9, <1>10, <1>11, <1>12, <1>13, <1>14, <1>15, <1>16, <1>17, <1>18, <1>19, <1>20, <1>21, <1>22, <1>23
     DEF Next, WorkerStep, EnqueueStep, LeaseStep, ReconcilerStep

(* A task is published once. *)
LEMMA FreshStep == Typed /\ Fresh /\ [Next]_vars => Fresh'
<1> SUFFICES ASSUME Typed /\ Fresh, [Next]_vars PROVE Fresh'
  OBVIOUS
<1>1. ASSUME NEW w \in Worker, Receive(w) PROVE Fresh'
  BY <1>1, BoundAssumption DEF Typed, TypeOK, Created, Actor, Fresh, Receive, Deliver, Goto, storeVars, actorVars, histVars
<1>2. ASSUME NEW w \in Worker, MarkRunning(w) PROVE Fresh'
  BY <1>2, BoundAssumption DEF Typed, TypeOK, Created, Actor, Fresh, MarkRunning, Goto, queueVars, actorVars, histVars
<1>3. ASSUME NEW w \in Worker, RunTask(w) PROVE Fresh'
  BY <1>3, BoundAssumption DEF Typed, TypeOK, Created, Actor, Fresh, RunTask, Goto, storeVars, queueVars, actorVars
<1>4. ASSUME NEW w \in Worker, Settle(w) PROVE Fresh'
  BY <1>4, BoundAssumption DEF Typed, TypeOK, Created, Actor, Fresh, Settle, GiveBack, Goto, storeVars, actorVars, histVars
<1>5. ASSUME NEW w \in Worker, SetTaskResult(w) PROVE Fresh'
  BY <1>5, BoundAssumption DEF Typed, TypeOK, Created, Actor, Fresh, SetTaskResult, Goto, queueVars, actorVars
<1>6. ASSUME NEW w \in Worker, HandleTaskFailure(w) PROVE Fresh'
  BY <1>6, BoundAssumption DEF Typed, TypeOK, Created, Actor, Fresh, HandleTaskFailure, DeadLetter, Goto, queueVars, histVars
<1>7. ASSUME NEW w \in Worker, RetryEnqueued(w) PROVE Fresh'
  BY <1>7, BoundAssumption DEF Typed, TypeOK, Created, Actor, Fresh, RetryEnqueued, Release, Goto, storeVars, queueVars, actorVars, histVars
<1>8. ASSUME NEW w \in Worker, VerifyStage(w) PROVE Fresh'
  BY <1>8, BoundAssumption DEF Typed, TypeOK, Created, Actor, Fresh, VerifyStage, Continue, Release, Goto, storeVars, queueVars, actorVars, histVars
<1>9. ASSUME NEW w \in Worker, AdvanceStage(w) PROVE Fresh'
  BY <1>9, BoundAssumption DEF Typed, TypeOK, Created, Actor, Fresh, AdvanceStage, Goto, storeVars, queueVars, histVars
<1>10. ASSUME NEW w \in Worker, CheckAllDone(w) PROVE Fresh'
  BY <1>10, BoundAssumption DEF Typed, TypeOK, Created, Actor, Fresh, CheckAllDone, Continue, Release, Goto, storeVars, queueVars, actorVars, histVars
<1>11. ASSUME NEW w \in Worker, MarkJobDone(w) PROVE Fresh'
  BY <1>11, BoundAssumption DEF Typed, TypeOK, Created, Actor, Fresh, MarkJobDone, Release, Goto, queueVars, actorVars, histVars
<1>12. ASSUME NEW w \in Worker, Crash(w) PROVE Fresh'
  BY <1>12, BoundAssumption DEF Typed, TypeOK, Created, Actor, Fresh, Crash, LeavesRecord, Release, Goto, Fault, storeVars, queueVars
<1>13. ASSUME NEW a \in Actor, Upsert(a) PROVE Fresh'
  BY <1>13, BoundAssumption DEF Typed, TypeOK, Created, Actor, Fresh, Upsert, queueVars, workerVars, histVars
<1>14. ASSUME NEW a \in Actor, Publish(a) PROVE Fresh'
  BY <1>14, BoundAssumption DEF Typed, TypeOK, Created, Actor, Fresh, Publish, storeVars, workerVars, histVars
<1>15. ASSUME NEW id \in Created, Redeliver(id) PROVE Fresh'
  BY <1>15, BoundAssumption DEF Typed, TypeOK, Created, Actor, Fresh, Redeliver, Fault, storeVars, workerVars, actorVars
<1>16. ASSUME NEW id \in Created, DelayOver(id) PROVE Fresh'
  BY <1>16, BoundAssumption DEF Typed, TypeOK, Created, Actor, Fresh, DelayOver, Fault, storeVars, workerVars, actorVars
<1>17. ASSUME NEW id \in Created, HandleExpired(id) PROVE Fresh'
  BY <1>17, BoundAssumption DEF Typed, TypeOK, Created, Actor, Fresh, HandleExpired, DeadLetter, queueVars, workerVars, histVars
<1>18. CASE Reconcile
  BY <1>18, BoundAssumption DEF Typed, TypeOK, Created, Actor, Fresh, Reconcile, Fault, Lapsed, storeVars, queueVars, workerVars
<1>19. CASE CancelJob
  BY <1>19, BoundAssumption DEF Typed, TypeOK, Created, Actor, Fresh, CancelJob, queueVars, workerVars, actorVars, histVars
<1>20. CASE UNCHANGED vars
  BY <1>20 DEF Typed, TypeOK, Created, Actor, Fresh, vars, storeVars, queueVars, workerVars, actorVars, histVars
<1>21. CASE FailJob
  BY <1>21, BoundAssumption DEF Typed, TypeOK, Created, Actor, Fresh, FailJob, queueVars, workerVars, actorVars, histVars
<1>22. CASE ApiDies
  BY <1>22, BoundAssumption DEF Typed, TypeOK, Created, Actor, Fresh, ApiDies, LeavesRecord, Fault, storeVars, queueVars, workerVars
<1>23. CASE ReconcilerDies
  BY <1>23, BoundAssumption DEF Typed, TypeOK, Created, Actor, Fresh, ReconcilerDies, LeavesRecord, Fault, storeVars, queueVars, workerVars
<1> QED
  BY <1>1, <1>2, <1>3, <1>4, <1>5, <1>6, <1>7, <1>8, <1>9, <1>10, <1>11, <1>12, <1>13, <1>14, <1>15, <1>16, <1>17, <1>18, <1>19, <1>20, <1>21, <1>22, <1>23
     DEF Next, WorkerStep, EnqueueStep, LeaseStep, ReconcilerStep

LEMMA MessagesStay ==
  ASSUME OneMessage, UNCHANGED <<queueVars, faults>>,
         \A v \in Worker : Active(v)' => Active(v) /\ task'[v] = task[v]
  PROVE  OneMessage'
BY DEF OneMessage, queueVars

(* Messages move between queue, leases and delays. *)
LEMMA OneMessageStep == Typed /\ Fresh /\ OneMessage /\ [Next]_vars => OneMessage'
<1> SUFFICES ASSUME Typed /\ Fresh /\ OneMessage, [Next]_vars PROVE OneMessage'
  OBVIOUS
<1>1. ASSUME NEW w \in Worker, Receive(w) PROVE OneMessage'
  BY <1>1, BoundAssumption DEF Typed, TypeOK, Created, Actor, OneMessage, Active, Receive, Deliver, Goto, storeVars, actorVars, histVars
<1>2. ASSUME NEW w \in Worker, MarkRunning(w) PROVE OneMessage'
  <2>1. UNCHANGED <<queueVars, faults>>
    BY <1>2 DEF MarkRunning, Goto, queueVars, actorVars, histVars
  <2>2. \A v \in Worker : Active(v)' => Active(v) /\ task'[v] = task[v]
    BY <1>2 DEF Typed, TypeOK, Active, MarkRunning, Goto, queueVars, actorVars, histVars
  <2> QED BY <2>1, <2>2, MessagesStay
<1>3. ASSUME NEW w \in Worker, RunTask(w) PROVE OneMessage'
  <2>1. UNCHANGED <<queueVars, faults>>
    BY <1>3 DEF RunTask, Goto, storeVars, queueVars, actorVars
  <2>2. \A v \in Worker : Active(v)' => Active(v) /\ task'[v] = task[v]
    BY <1>3 DEF Typed, TypeOK, Active, RunTask, Goto, storeVars, queueVars, actorVars
  <2> QED BY <2>1, <2>2, MessagesStay
<1>4. ASSUME NEW w \in Worker, Settle(w) PROVE OneMessage'
  BY <1>4, BoundAssumption DEF Typed, TypeOK, Created, Actor, OneMessage, Active, Settle, GiveBack, Goto, storeVars, actorVars, histVars
<1>5. ASSUME NEW w \in Worker, SetTaskResult(w) PROVE OneMessage'
  <2>1. UNCHANGED <<queueVars, faults>>
    BY <1>5 DEF SetTaskResult, Goto, queueVars, actorVars
  <2>2. \A v \in Worker : Active(v)' => Active(v) /\ task'[v] = task[v]
    BY <1>5 DEF Typed, TypeOK, Active, SetTaskResult, Goto, queueVars, actorVars
  <2> QED BY <2>1, <2>2, MessagesStay
<1>6. ASSUME NEW w \in Worker, HandleTaskFailure(w) PROVE OneMessage'
  <2>1. UNCHANGED <<queueVars, faults>>
    BY <1>6 DEF HandleTaskFailure, DeadLetter, Goto, queueVars, histVars
  <2>2. \A v \in Worker : Active(v)' => Active(v) /\ task'[v] = task[v]
    BY <1>6 DEF Typed, TypeOK, Active, HandleTaskFailure, DeadLetter, Goto, queueVars, histVars
  <2> QED BY <2>1, <2>2, MessagesStay
<1>7. ASSUME NEW w \in Worker, RetryEnqueued(w) PROVE OneMessage'
  <2>1. UNCHANGED <<queueVars, faults>>
    BY <1>7 DEF RetryEnqueued, Release, Goto, storeVars, queueVars, actorVars, histVars
  <2>2. \A v \in Worker : Active(v)' => Active(v) /\ task'[v] = task[v]
    BY <1>7 DEF Typed, TypeOK, Active, RetryEnqueued, Release, Goto, storeVars, queueVars, actorVars, histVars
  <2> QED BY <2>1, <2>2, MessagesStay
<1>8. ASSUME NEW w \in Worker, VerifyStage(w) PROVE OneMessage'
  <2>1. UNCHANGED <<queueVars, faults>>
    BY <1>8 DEF VerifyStage, Continue, Release, Goto, storeVars, queueVars, actorVars, histVars
  <2>2. \A v \in Worker : Active(v)' => Active(v) /\ task'[v] = task[v]
    BY <1>8 DEF Typed, TypeOK, Active, VerifyStage, Continue, Release, Goto, storeVars, queueVars, actorVars, histVars
  <2> QED BY <2>1, <2>2, MessagesStay
<1>9. ASSUME NEW w \in Worker, AdvanceStage(w) PROVE OneMessage'
  <2>1. UNCHANGED <<queueVars, faults>>
    BY <1>9 DEF AdvanceStage, Goto, storeVars, queueVars, histVars
  <2>2. \A v \in Worker : Active(v)' => Active(v) /\ task'[v] = task[v]
    BY <1>9 DEF Typed, TypeOK, Active, AdvanceStage, Goto, storeVars, queueVars, histVars
  <2> QED BY <2>1, <2>2, MessagesStay
<1>10. ASSUME NEW w \in Worker, CheckAllDone(w) PROVE OneMessage'
  <2>1. UNCHANGED <<queueVars, faults>>
    BY <1>10 DEF CheckAllDone, Continue, Release, Goto, storeVars, queueVars, actorVars, histVars
  <2>2. \A v \in Worker : Active(v)' => Active(v) /\ task'[v] = task[v]
    BY <1>10 DEF Typed, TypeOK, Active, CheckAllDone, Continue, Release, Goto, storeVars, queueVars, actorVars, histVars
  <2> QED BY <2>1, <2>2, MessagesStay
<1>11. ASSUME NEW w \in Worker, MarkJobDone(w) PROVE OneMessage'
  <2>1. UNCHANGED <<queueVars, faults>>
    BY <1>11 DEF MarkJobDone, Release, Goto, queueVars, actorVars, histVars
  <2>2. \A v \in Worker : Active(v)' => Active(v) /\ task'[v] = task[v]
    BY <1>11 DEF Typed, TypeOK, Active, MarkJobDone, Release, Goto, queueVars, actorVars, histVars
  <2> QED BY <2>1, <2>2, MessagesStay
<1>12. ASSUME NEW w \in Worker, Crash(w) PROVE OneMessage'
  BY <1>12, BoundAssumption DEF Typed, TypeOK, Created, Actor, OneMessage, Active, Crash, LeavesRecord, Release, Goto, Fault, storeVars, queueVars
<1>13. ASSUME NEW a \in Actor, Upsert(a) PROVE OneMessage'
  <2>1. UNCHANGED <<queueVars, faults>>
    BY <1>13 DEF Upsert, queueVars, workerVars, histVars
  <2>2. \A v \in Worker : Active(v)' => Active(v) /\ task'[v] = task[v]
    BY <1>13 DEF Typed, TypeOK, Active, Upsert, queueVars, workerVars, histVars
  <2> QED BY <2>1, <2>2, MessagesStay
<1>14. ASSUME NEW a \in Actor, Publish(a) PROVE OneMessage'
  <2>1. queue' = queue \cup {pub[a]} /\ pub[a] \notin delayed \cup leased
    BY <1>14 DEF Fresh, Publish
  <2>2. UNCHANGED <<delayed, leased, phase, task, faults>>
    BY <1>14 DEF Publish, workerVars, histVars
  <2> QED BY <2>1, <2>2 DEF OneMessage, Active
<1>15. ASSUME NEW id \in Created, Redeliver(id) PROVE OneMessage'
  <2>1. /\ faults' = 0 => faults = 0 /\ ~Holds(id)
        /\ id \in leased /\ leased' = leased \ {id} /\ queue' = queue \cup {id}
    BY <1>15 DEF Typed, TypeOK, Redeliver, Fault
  <2>2. UNCHANGED <<delayed, phase, task>>
    BY <1>15 DEF Redeliver, workerVars
  <2> QED BY <2>1, <2>2 DEF OneMessage, Active, Holds
<1>16. ASSUME NEW id \in Created, DelayOver(id) PROVE OneMessage'
  BY <1>16, BoundAssumption DEF Typed, TypeOK, Created, Actor, OneMessage, Active, DelayOver, Fault, storeVars, workerVars, actorVars
<1>17. ASSUME NEW id \in Created, HandleExpired(id) PROVE OneMessage'
  <2>1. UNCHANGED <<queueVars, faults>>
    BY <1>17 DEF HandleExpired, DeadLetter, queueVars, workerVars, histVars
  <2>2. \A v \in Worker : Active(v)' => Active(v) /\ task'[v] = task[v]
    BY <1>17 DEF Typed, TypeOK, Active, HandleExpired, DeadLetter, queueVars, workerVars, histVars
  <2> QED BY <2>1, <2>2, MessagesStay
<1>18. CASE Reconcile
  BY <1>18, BoundAssumption DEF Typed, TypeOK, Created, Actor, OneMessage, Active, Reconcile, Fault, Lapsed, storeVars, queueVars, workerVars
<1>19. CASE CancelJob
  BY <1>19, BoundAssumption DEF Typed, TypeOK, Created, Actor, OneMessage, Active, CancelJob, queueVars, workerVars, actorVars, histVars
<1>20. CASE UNCHANGED vars
  BY <1>20 DEF Typed, TypeOK, Created, Actor, OneMessage, Active, vars, storeVars, queueVars, workerVars, actorVars, histVars
<1>21. CASE FailJob
  BY <1>21, BoundAssumption DEF Typed, TypeOK, Created, Actor, OneMessage, Active, FailJob, queueVars, workerVars, actorVars, histVars
<1>22. CASE ApiDies
  BY <1>22, BoundAssumption DEF Typed, TypeOK, Created, Actor, OneMessage, Active, ApiDies, LeavesRecord, Fault, storeVars, queueVars, workerVars
<1>23. CASE ReconcilerDies
  BY <1>23, BoundAssumption DEF Typed, TypeOK, Created, Actor, OneMessage, Active, ReconcilerDies, LeavesRecord, Fault, storeVars, queueVars, workerVars
<1> QED
  BY <1>1, <1>2, <1>3, <1>4, <1>5, <1>6, <1>7, <1>8, <1>9, <1>10, <1>11, <1>12, <1>13, <1>14, <1>15, <1>16, <1>17, <1>18, <1>19, <1>20, <1>21, <1>22, <1>23
     DEF Next, WorkerStep, EnqueueStep, LeaseStep, ReconcilerStep

LEMMA HadStays ==
  ASSUME done \subseteq done'
  PROVE  Had \subseteq Had' /\ Turn \subseteq Turn' /\ Had' \subseteq Stage
BY DEF Had, Turn

(* A stage that is complete has had a success. *)
LEMMA CompleteHad ==
  ASSUME Typed, Ordered, NEW s \in Stage, StageComplete(s)
  PROVE  s \in Had
BY DEF Typed, Ordered, StageComplete

(* A stage has its turn after a success of those it depends on. *)
LEMMA OrderedStep == Typed /\ Ordered /\ [Next]_vars => Ordered'
<1> SUFFICES ASSUME Typed /\ Ordered, [Next]_vars PROVE Ordered'
  OBVIOUS
<1>1. ASSUME NEW w \in Worker, Receive(w) PROVE Ordered'
  <2>1. done \subseteq done'
    BY <1>1 DEF Receive, Deliver, Goto, storeVars, actorVars, histVars
  <2>2. Had \subseteq Had' /\ Turn \subseteq Turn' /\ Had' \subseteq Stage
    BY <2>1, HadStays
  <2> QED BY <1>1, <2>2 DEF Typed, TypeOK, Created, Actor, Ordered, Task, Receive, Deliver, Goto, storeVars, actorVars, histVars
<1>2. ASSUME NEW w \in Worker, MarkRunning(w) PROVE Ordered'
  <2>1. done \subseteq done'
    BY <1>2 DEF MarkRunning, Goto, queueVars, actorVars, histVars
  <2>2. Had \subseteq Had' /\ Turn \subseteq Turn' /\ Had' \subseteq Stage
    BY <2>1, HadStays
  <2>3. /\ \A i \in Created' : status'[i] = "succeeded" => rec'[i].stage \in Had'
        /\ \A i \in Created' : rec'[i].stage \in Turn'
    <3>1. Created \subseteq Id
      BY BoundAssumption DEF Typed, TypeOK, Created, Id
    <3>2. UNCHANGED <<rec, made>> /\ status' = [status EXCEPT ![task[w]] = "running"]
      BY <1>2 DEF MarkRunning
    <3> QED BY <2>2, <3>1, <3>2 DEF Typed, TypeOK, Ordered, Created
  <2>4. \A c \in Actor : \A i \in DOMAIN todo'[c] : todo'[c][i].stage \in Turn'
    BY <1>2, <2>2 DEF Typed, TypeOK, Ordered, Created, Actor, MarkRunning, Goto, queueVars, actorVars, histVars
  <2>5. /\ \A v \in Worker : phase'[v] = "jobdone" => Had' = Stage
        /\ job' = "succeeded" => Had' = Stage
    BY <1>2, <2>2 DEF Typed, TypeOK, Ordered, Created, Actor, MarkRunning, Goto, queueVars, actorVars, histVars
  <2> QED BY <2>3, <2>4, <2>5 DEF Ordered
<1>3. ASSUME NEW w \in Worker, RunTask(w) PROVE Ordered'
  <2>1. done \subseteq done'
    BY <1>3 DEF RunTask, Goto, storeVars, queueVars, actorVars
  <2>2. Had \subseteq Had' /\ Turn \subseteq Turn' /\ Had' \subseteq Stage
    BY <2>1, HadStays
  <2> QED BY <1>3, <2>2 DEF Typed, TypeOK, Created, Actor, Ordered, Task, RunTask, Goto, storeVars, queueVars, actorVars
<1>4. ASSUME NEW w \in Worker, Settle(w) PROVE Ordered'
  <2>1. done \subseteq done'
    BY <1>4 DEF Settle, GiveBack, Goto, storeVars, actorVars, histVars
  <2>2. Had \subseteq Had' /\ Turn \subseteq Turn' /\ Had' \subseteq Stage
    BY <2>1, HadStays
  <2> QED BY <1>4, <2>2 DEF Typed, TypeOK, Created, Actor, Ordered, Task, Settle, GiveBack, Goto, storeVars, actorVars, histVars
<1>5. ASSUME NEW w \in Worker, SetTaskResult(w) PROVE Ordered'
  <2>1. done \subseteq done'
    BY <1>5 DEF SetTaskResult, Goto, queueVars, actorVars
  <2>2. Had \subseteq Had' /\ Turn \subseteq Turn' /\ Had' \subseteq Stage
    BY <2>1, HadStays
  <2>3. /\ \A i \in Created' : status'[i] = "succeeded" => rec'[i].stage \in Had'
        /\ \A i \in Created' : rec'[i].stage \in Turn'
    <3>1. task[w] \in Created /\ Created \subseteq Id /\ rec[task[w]] \in Task
      BY <1>5, BoundAssumption DEF Typed, TypeOK, SetTaskResult, Created, Id
    <3>2. ok[w] => rec[task[w]].stage \in Had'
      BY <1>5, <3>1 DEF Had, Shard, Task, SetTaskResult
    <3>3. /\ UNCHANGED <<rec, made>>
          /\ status' = [status EXCEPT ![task[w]] = IF ok[w] THEN "succeeded" ELSE "failed"]
      BY <1>5 DEF SetTaskResult
    <3> QED BY <2>2, <3>1, <3>2, <3>3 DEF Typed, TypeOK, Ordered, Created
  <2>4. \A c \in Actor : \A i \in DOMAIN todo'[c] : todo'[c][i].stage \in Turn'
    BY <1>5, <2>2 DEF Typed, TypeOK, Ordered, Created, Actor, SetTaskResult, Goto, queueVars, actorVars
  <2>5. /\ \A v \in Worker : phase'[v] = "jobdone" => Had' = Stage
        /\ job' = "succeeded" => Had' = Stage
    BY <1>5, <2>2 DEF Typed, TypeOK, Ordered, Created, Actor, SetTaskResult, Goto, queueVars, actorVars
  <2> QED BY <2>3, <2>4, <2>5 DEF Ordered
<1>6. ASSUME NEW w \in Worker, HandleTaskFailure(w) PROVE Ordered'
  <2>0. task[w] \in Created /\ rec[task[w]] \in Task /\ rec[task[w]].stage \in Turn
    BY <1>6 DEF Typed, Ordered, HandleTaskFailure, DeadLetter, Goto, queueVars, histVars
  <2>1. done \subseteq done'
    BY <1>6 DEF HandleTaskFailure, DeadLetter, Goto, queueVars, histVars
  <2>2. Had \subseteq Had' /\ Turn \subseteq Turn' /\ Had' \subseteq Stage
    BY <2>1, HadStays
  <2>3. /\ \A i \in Created' : status'[i] = "succeeded" => rec'[i].stage \in Had'
        /\ \A i \in Created' : rec'[i].stage \in Turn'
    <3>1. Created \subseteq Id /\ task[w] \in Id
      BY <2>0, BoundAssumption DEF Typed, TypeOK, Created, Id
    <3>2. UNCHANGED <<rec, made>> /\ (status' = status \/ status' = [status EXCEPT ![task[w]] = "failed"])
      BY <1>6 DEF HandleTaskFailure, DeadLetter, Goto, queueVars, histVars
    <3> QED BY <2>2, <3>1, <3>2 DEF Typed, TypeOK, Ordered, Created
  <2>4. \A c \in Actor : \A i \in DOMAIN todo'[c] : todo'[c][i].stage \in Turn'
    <3> SUFFICES ASSUME NEW b \in Actor, NEW i \in DOMAIN todo'[b] PROVE todo'[b][i].stage \in Turn'
      OBVIOUS
    <3>1. CASE b # w
      BY <1>6, <2>2, <3>1 DEF Typed, TypeOK, Ordered, Actor, HandleTaskFailure, DeadLetter, Goto, queueVars, histVars
    <3>2. CASE b = w
      <4>1. CASE todo' = todo
        BY <2>2, <4>1, <3>2 DEF Ordered
      <4>2. CASE MayRetry(rec[task[w]].attempt) /\ todo' = [todo EXCEPT ![w] = <<Retry(task[w])>>]
        <5>1. todo'[b] = <<Retry(task[w])>>
          BY <3>2, <4>2 DEF Typed, TypeOK
        <5>2. Retry(task[w]) \in Task /\ Retry(task[w]).stage = rec[task[w]].stage
          BY <2>0, <4>2, RetryIsTask
        <5>3. todo'[b][i] = Retry(task[w])
          BY <5>1, <5>2, OneTask
        <5> QED BY <2>0, <2>2, <5>2, <5>3
      <4> QED BY <1>6, <4>1, <4>2 DEF HandleTaskFailure, DeadLetter, Goto, queueVars, histVars
    <3> QED BY <3>1, <3>2
  <2>5. /\ \A v \in Worker : phase'[v] = "jobdone" => Had' = Stage
        /\ job' = "succeeded" => Had' = Stage
    BY <1>6, <2>2 DEF Typed, TypeOK, Ordered, Created, Actor, HandleTaskFailure, DeadLetter, Goto, queueVars, histVars
  <2> QED BY <2>3, <2>4, <2>5 DEF Ordered
<1>7. ASSUME NEW w \in Worker, RetryEnqueued(w) PROVE Ordered'
  <2>1. done \subseteq done'
    BY <1>7 DEF RetryEnqueued, Release, Goto, storeVars, queueVars, actorVars, histVars
  <2>2. Had \subseteq Had' /\ Turn \subseteq Turn' /\ Had' \subseteq Stage
    BY <2>1, HadStays
  <2> QED BY <1>7, <2>2 DEF Typed, TypeOK, Created, Actor, Ordered, Task, RetryEnqueued, Release, Goto, storeVars, queueVars, actorVars, histVars
<1>8. ASSUME NEW w \in Worker, VerifyStage(w) PROVE Ordered'
  <2>1. done \subseteq done'
    BY <1>8 DEF VerifyStage, Continue, Release, Goto, storeVars, queueVars, actorVars, histVars
  <2>2. Had \subseteq Had' /\ Turn \subseteq Turn' /\ Had' \subseteq Stage
    BY <2>1, HadStays
  <2> QED BY <1>8, <2>2 DEF Typed, TypeOK, Created, Actor, Ordered, Task, VerifyStage, Continue, Release, Goto, storeVars, queueVars, actorVars, histVars
<1>9. ASSUME NEW w \in Worker, AdvanceStage(w) PROVE Ordered'
  <2>1. done \subseteq done'
    BY <1>9 DEF AdvanceStage, Goto, storeVars, queueVars, histVars
  <2>2. Had \subseteq Had' /\ Turn \subseteq Turn' /\ Had' \subseteq Stage
    BY <2>1, HadStays
  <2>3. /\ \A i \in Created' : status'[i] = "succeeded" => rec'[i].stage \in Had'
        /\ \A i \in Created' : rec'[i].stage \in Turn'
    BY <1>9, <2>2 DEF Typed, TypeOK, Ordered, Created, Actor, AdvanceStage, Goto, storeVars, queueVars, histVars
  <2>4. \A c \in Actor : \A i \in DOMAIN todo'[c] : todo'[c][i].stage \in Turn'
    <3> DEFINE complete == {s \in Stage : StageComplete(s)}
               ready == {s \in Stage \ complete : DependsOn[s] \subseteq complete}
    <3>3. PICK q \in TasksOf(ready) : todo' = [todo EXCEPT ![w] = q]
      BY <1>9 DEF AdvanceStage
    <3>4. complete \subseteq Had
      BY CompleteHad
    <3>5. ready \subseteq Turn
      BY <3>4 DEF Turn
    <3>6. \A i \in DOMAIN q : q[i].stage \in Turn
      BY <3>3, <3>5, TaskLists
    <3> HIDE DEF ready
    <3> SUFFICES ASSUME NEW b \in Actor, NEW i \in DOMAIN todo'[b] PROVE todo'[b][i].stage \in Turn'
      OBVIOUS
    <3>1. CASE b # w
      BY <3>3, <2>2, <3>1 DEF Typed, TypeOK, Ordered
    <3>2. CASE b = w
      BY <1>9, <3>3, <2>2, <3>2, <3>6 DEF Typed, TypeOK, Actor
    <3> QED BY <3>1, <3>2
  <2>5. /\ \A v \in Worker : phase'[v] = "jobdone" => Had' = Stage
        /\ job' = "succeeded" => Had' = Stage
    BY <1>9, <2>2 DEF Typed, TypeOK, Ordered, Created, Actor, AdvanceStage, Goto, storeVars, queueVars, histVars
  <2> QED BY <2>3, <2>4, <2>5 DEF Ordered
<1>10. ASSUME NEW w \in Worker, CheckAllDone(w) PROVE Ordered'
  <2>1. done \subseteq done'
    BY <1>10 DEF CheckAllDone, Continue, Release, Goto, storeVars, queueVars, actorVars, histVars
  <2>2. Had \subseteq Had' /\ Turn \subseteq Turn' /\ Had' \subseteq Stage
    BY <2>1, HadStays
  <2>3. /\ \A i \in Created' : status'[i] = "succeeded" => rec'[i].stage \in Had'
        /\ \A i \in Created' : rec'[i].stage \in Turn'
    BY <1>10, <2>2 DEF Typed, TypeOK, Ordered, Created, Actor, CheckAllDone, Continue, Release, Goto, storeVars, queueVars, actorVars, histVars
  <2>4. \A c \in Actor : \A i \in DOMAIN todo'[c] : todo'[c][i].stage \in Turn'
    BY <1>10, <2>2 DEF Typed, TypeOK, Ordered, Created, Actor, CheckAllDone, Continue, Release, Goto, storeVars, queueVars, actorVars, histVars
  <2>5. /\ \A v \in Worker : phase'[v] = "jobdone" => Had' = Stage
        /\ job' = "succeeded" => Had' = Stage
    <3>1. (\A s \in Stage : StageComplete(s)) => Had = Stage
      BY CompleteHad DEF Had
    <3> QED BY <1>10, <2>2, <3>1 DEF Typed, TypeOK, Ordered, CheckAllDone, Continue, Release, Goto, storeVars, queueVars, actorVars, histVars
  <2> QED BY <2>3, <2>4, <2>5 DEF Ordered
<1>11. ASSUME NEW w \in Worker, MarkJobDone(w) PROVE Ordered'
  <2>1. done \subseteq done'
    BY <1>11 DEF MarkJobDone, Release, Goto, queueVars, actorVars, histVars
  <2>2. Had \subseteq Had' /\ Turn \subseteq Turn' /\ Had' \subseteq Stage
    BY <2>1, HadStays
  <2> QED BY <1>11, <2>2 DEF Typed, TypeOK, Created, Actor, Ordered, Task, MarkJobDone, Release, Goto, queueVars, actorVars, histVars
<1>12. ASSUME NEW w \in Worker, Crash(w) PROVE Ordered'
  <2>1. done \subseteq done'
    BY <1>12 DEF Crash, LeavesRecord, Release, Goto, Fault, storeVars, queueVars
  <2>2. Had \subseteq Had' /\ Turn \subseteq Turn' /\ Had' \subseteq Stage
    BY <2>1, HadStays
  <2>3. /\ \A i \in Created' : status'[i] = "succeeded" => rec'[i].stage \in Had'
        /\ \A i \in Created' : rec'[i].stage \in Turn'
    BY <1>12, <2>2 DEF Typed, TypeOK, Ordered, Created, Actor, Crash, LeavesRecord, Release, Goto, Fault, storeVars, queueVars
  <2>4. \A c \in Actor : \A i \in DOMAIN todo'[c] : todo'[c][i].stage \in Turn'
    <3> SUFFICES ASSUME NEW b \in Actor, NEW i \in DOMAIN todo'[b] PROVE todo'[b][i].stage \in Turn'
      OBVIOUS
    <3>1. CASE b # w
      BY <1>12, <2>2, <3>1 DEF Typed, TypeOK, Ordered, Actor, Crash, LeavesRecord, Release, Goto, Fault, storeVars, queueVars
    <3>2. CASE b = w
      BY <1>12, <3>2, NoTask DEF Typed, TypeOK, Actor, Crash, LeavesRecord, Release, Goto, Fault, storeVars, queueVars
    <3> QED BY <3>1, <3>2
  <2>5. /\ \A v \in Worker : phase'[v] = "jobdone" => Had' = Stage
        /\ job' = "succeeded" => Had' = Stage
    BY <1>12, <2>2 DEF Typed, TypeOK, Ordered, Created, Actor, Crash, LeavesRecord, Release, Goto, Fault, storeVars, queueVars
  <2> QED BY <2>3, <2>4, <2>5 DEF Ordered
<1>13. ASSUME NEW a \in Actor, Upsert(a) PROVE Ordered'
  <2>1. done \subseteq done'
    BY <1>13 DEF Upsert, queueVars, workerVars, histVars
  <2>2. Had \subseteq Had' /\ Turn \subseteq Turn' /\ Had' \subseteq Stage
    BY <2>1, HadStays
  <2>0. /\ todo[a] \in Seq(Task) /\ todo[a] # <<>>
        /\ rec' = [rec EXCEPT ![made + 1] = Head(todo[a])] /\ made' = made + 1
        /\ status' = [status EXCEPT ![made + 1] = "pending"]
        /\ todo' = [todo EXCEPT ![a] = Tail(todo[a])]
    BY <1>13 DEF Typed, TypeOK, Upsert
  <2>6. /\ 1 \in DOMAIN todo[a] /\ Head(todo[a]) = todo[a][1]
        /\ \A i \in DOMAIN Tail(todo[a]) : i + 1 \in DOMAIN todo[a] /\ Tail(todo[a])[i] = todo[a][i + 1]
    BY <2>0, TakeTask
  <2>3. /\ \A i \in Created' : status'[i] = "succeeded" => rec'[i].stage \in Had'
        /\ \A i \in Created' : rec'[i].stage \in Turn'
    <3>1. made + 1 \in Id /\ Created \subseteq Id /\ Created' = Created \cup {made + 1} /\ made + 1 \notin Created
      BY <1>13, <2>0, BoundAssumption DEF Typed, TypeOK, Upsert, Created, Id
    <3>2. Head(todo[a]).stage \in Turn'
      BY <2>2, <2>6 DEF Ordered
    <3>3. status'[made + 1] = "pending" /\ rec'[made + 1] = Head(todo[a])
      BY <2>0, <3>1 DEF Typed, TypeOK
    <3>4. \A i \in Created : status'[i] = status[i] /\ rec'[i] = rec[i]
      BY <2>0, <3>1 DEF Typed, TypeOK
    <3> QED BY <2>2, <3>1, <3>2, <3>3, <3>4 DEF Ordered
  <2>4. \A c \in Actor : \A i \in DOMAIN todo'[c] : todo'[c][i].stage \in Turn'
    <3> SUFFICES ASSUME NEW b \in Actor, NEW i \in DOMAIN todo'[b] PROVE todo'[b][i].stage \in Turn'
      OBVIOUS
    <3>1. CASE b # a
      BY <2>0, <2>2, <3>1 DEF Typed, TypeOK, Ordered
    <3>2. CASE b = a
      <4>1. todo'[b] = Tail(todo[a])
        BY <2>0, <3>2 DEF Typed, TypeOK
      <4>2. i + 1 \in DOMAIN todo[a] /\ todo'[b][i] = todo[a][i + 1]
        BY <2>6, <4>1
      <4> QED BY <2>2, <4>2 DEF Ordered
    <3> QED BY <3>1, <3>2
  <2>5. /\ \A v \in Worker : phase'[v] = "jobdone" => Had' = Stage
        /\ job' = "succeeded" => Had' = Stage
    BY <1>13, <2>2 DEF Typed, TypeOK, Ordered, Created, Actor, Upsert, queueVars, workerVars, histVars
  <2> QED BY <2>3, <2>4, <2>5 DEF Ordered
<1>14. ASSUME NEW a \in Actor, Publish(a) PROVE Ordered'
  <2>1. done \subseteq done'
    BY <1>14 DEF Publish, storeVars, workerVars, histVars
  <2>2. Had \subseteq Had' /\ Turn \subseteq Turn' /\ Had' \subseteq Stage
    BY <2>1, HadStays
  <2> QED BY <1>14, <2>2 DEF Typed, TypeOK, Created, Actor, Ordered, Task, Publish, storeVars, workerVars, histVars
<1>15. ASSUME NEW id \in Created, Redeliver(id) PROVE Ordered'
  <2>1. done \subseteq done'
    BY <1>15 DEF Redeliver, Fault, storeVars, workerVars, actorVars
  <2>2. Had \subseteq Had' /\ Turn \subseteq Turn' /\ Had' \subseteq Stage
    BY <2>1, HadStays
  <2> QED BY <1>15, <2>2 DEF Typed, TypeOK, Created, Actor, Ordered, Task, Redeliver, Fault, storeVars, workerVars, actorVars
<1>16. ASSUME NEW id \in Created, DelayOver(id) PROVE Ordered'
  <2>1. done \subseteq done'
    BY <1>16 DEF DelayOver, Fault, storeVars, workerVars, actorVars
  <2>2. Had \subseteq Had' /\ Turn \subseteq Turn' /\ Had' \subseteq Stage
    BY <2>1, HadStays
  <2> QED BY <1>16, <2>2 DEF Typed, TypeOK, Created, Actor, Ordered, Task, DelayOver, Fault, storeVars, workerVars, actorVars
<1>17. ASSUME NEW id \in Created, HandleExpired(id) PROVE Ordered'
  <2>0. id \in Created /\ rec[id] \in Task /\ rec[id].stage \in Turn
    BY <1>17 DEF Typed, Ordered, HandleExpired, DeadLetter, queueVars, workerVars, histVars
  <2>1. done \subseteq done'
    BY <1>17 DEF HandleExpired, DeadLetter, queueVars, workerVars, histVars
  <2>2. Had \subseteq Had' /\ Turn \subseteq Turn' /\ Had' \subseteq Stage
    BY <2>1, HadStays
  <2>3. /\ \A i \in Created' : status'[i] = "succeeded" => rec'[i].stage \in Had'
        /\ \A i \in Created' : rec'[i].stage \in Turn'
    <3>1. Created \subseteq Id /\ id \in Id
      BY <2>0, BoundAssumption DEF Typed, TypeOK, Created, Id
    <3>2. UNCHANGED <<rec, made>> /\ (status' = status \/ status' = [status EXCEPT ![id] = "failed"])
      BY <1>17 DEF HandleExpired, DeadLetter, queueVars, workerVars, histVars
    <3> QED BY <2>2, <3>1, <3>2 DEF Typed, TypeOK, Ordered, Created
  <2>4. \A c \in Actor : \A i \in DOMAIN todo'[c] : todo'[c][i].stage \in Turn'
    <3> SUFFICES ASSUME NEW b \in Actor, NEW i \in DOMAIN todo'[b] PROVE todo'[b][i].stage \in Turn'
      OBVIOUS
    <3>1. CASE b # Rec
      BY <1>17, <2>2, <3>1 DEF Typed, TypeOK, Ordered, Actor, HandleExpired, DeadLetter, queueVars, workerVars, histVars
    <3>2. CASE b = Rec
      <4>1. CASE todo' = todo
        BY <2>2, <4>1, <3>2 DEF Ordered
      <4>2. CASE MayRetry(rec[id].attempt) /\ todo' = [todo EXCEPT ![Rec] = <<Retry(id)>>]
        <5>1. todo'[b] = <<Retry(id)>>
          BY <3>2, <4>2 DEF Typed, TypeOK
        <5>2. Retry(id) \in Task /\ Retry(id).stage = rec[id].stage
          BY <2>0, <4>2, RetryIsTask
        <5>3. todo'[b][i] = Retry(id)
          BY <5>1, <5>2, OneTask
        <5> QED BY <2>0, <2>2, <5>2, <5>3
      <4> QED BY <1>17, <4>1, <4>2 DEF HandleExpired, DeadLetter, queueVars, workerVars, histVars
    <3> QED BY <3>1, <3>2
  <2>5. /\ \A v \in Worker : phase'[v] = "jobdone" => Had' = Stage
        /\ job' = "succeeded" => Had' = Stage
    BY <1>17, <2>2 DEF Typed, TypeOK, Ordered, Created, Actor, HandleExpired, DeadLetter, queueVars, workerVars, histVars
  <2> QED BY <2>3, <2>4, <2>5 DEF Ordered
<1>18. CASE Reconcile
  <2>1. done \subseteq done'
    BY <1>18 DEF Reconcile, Fault, Lapsed, storeVars, queueVars, workerVars
  <2>2. Had \subseteq Had' /\ Turn \subseteq Turn' /\ Had' \subseteq Stage
    BY <2>1, HadStays
  <2> QED BY <1>18, <2>2 DEF Typed, TypeOK, Created, Actor, Ordered, Task, Reconcile, Fault, Lapsed, storeVars, queueVars, workerVars
<1>19. CASE CancelJob
  <2>1. done \subseteq done'
    BY <1>19 DEF CancelJob, queueVars, workerVars, actorVars, histVars
  <2>2. Had \subseteq Had' /\ Turn \subseteq Turn' /\ Had' \subseteq Stage
    BY <2>1, HadStays
  <2> QED BY <1>19, <2>2 DEF Typed, TypeOK, Created, Actor, Ordered, Task, CancelJob, queueVars, workerVars, actorVars, histVars
<1>20. CASE UNCHANGED vars
  BY <1>20 DEF Ordered, Had, Turn, Created, vars, storeVars, queueVars, workerVars, actorVars, histVars
<1>21. CASE FailJob
  <2>1. done \subseteq done'
    BY <1>21 DEF FailJob, queueVars, workerVars, actorVars, histVars
  <2>2. Had \subseteq Had' /\ Turn \subseteq Turn' /\ Had' \subseteq Stage
    BY <2>1, HadStays
  <2> QED BY <1>21, <2>2 DEF Typed, TypeOK, Created, Actor, Ordered, Task, FailJob, queueVars, workerVars, actorVars, histVars
<1>22. CASE ApiDies
  <2>1. done \subseteq done'
    BY <1>22 DEF ApiDies, LeavesRecord, Fault, storeVars, queueVars, workerVars
  <2>2. Had \subseteq Had' /\ Turn \subseteq Turn' /\ Had' \subseteq Stage
    BY <2>1, HadStays
  <2>3. /\ \A i \in Created' : status'[i] = "succeeded" => rec'[i].stage \in Had'
        /\ \A i \in Created' : rec'[i].stage \in Turn'
    BY <1>22, <2>2 DEF Typed, TypeOK, Ordered, Created, Actor, ApiDies, LeavesRecord, Fault, storeVars, queueVars, workerVars
  <2>4. \A c \in Actor : \A i \in DOMAIN todo'[c] : todo'[c][i].stage \in Turn'
    <3> SUFFICES ASSUME NEW b \in Actor, NEW i \in DOMAIN todo'[b] PROVE todo'[b][i].stage \in Turn'
      OBVIOUS
    <3>1. CASE b # Api
      BY <1>22, <2>2, <3>1 DEF Typed, TypeOK, Ordered, Actor, ApiDies, LeavesRecord, Fault, storeVars, queueVars, workerVars
    <3>2. CASE b = Api
      BY <1>22, <3>2, NoTask DEF Typed, TypeOK, Actor, ApiDies, LeavesRecord, Fault, storeVars, queueVars, workerVars
    <3> QED BY <3>1, <3>2
  <2>5. /\ \A v \in Worker : phase'[v] = "jobdone" => Had' = Stage
        /\ job' = "succeeded" => Had' = Stage
    BY <1>22, <2>2 DEF Typed, TypeOK, Ordered, Created, Actor, ApiDies, LeavesRecord, Fault, storeVars, queueVars, workerVars
  <2> QED BY <2>3, <2>4, <2>5 DEF Ordered
<1>23. CASE ReconcilerDies
  <2>1. done \subseteq done'
    BY <1>23 DEF ReconcilerDies, LeavesRecord, Fault, storeVars, queueVars, workerVars
  <2>2. Had \subseteq Had' /\ Turn \subseteq Turn' /\ Had' \subseteq Stage
    BY <2>1, HadStays
  <2>3. /\ \A i \in Created' : status'[i] = "succeeded" => rec'[i].stage \in Had'
        /\ \A i \in Created' : rec'[i].stage \in Turn'
    BY <1>23, <2>2 DEF Typed, TypeOK, Ordered, Created, Actor, ReconcilerDies, LeavesRecord, Fault, storeVars, queueVars, workerVars
  <2>4. \A c \in Actor : \A i \in DOMAIN todo'[c] : todo'[c][i].stage \in Turn'
    <3> SUFFICES ASSUME NEW b \in Actor, NEW i \in DOMAIN todo'[b] PROVE todo'[b][i].stage \in Turn'
      OBVIOUS
    <3>1. CASE b # Rec
      BY <1>23, <2>2, <3>1 DEF Typed, TypeOK, Ordered, Actor, ReconcilerDies, LeavesRecord, Fault, storeVars, queueVars, workerVars
    <3>2. CASE b = Rec
      BY <1>23, <3>2, NoTask DEF Typed, TypeOK, Actor, ReconcilerDies, LeavesRecord, Fault, storeVars, queueVars, workerVars
    <3> QED BY <3>1, <3>2
  <2>5. /\ \A v \in Worker : phase'[v] = "jobdone" => Had' = Stage
        /\ job' = "succeeded" => Had' = Stage
    BY <1>23, <2>2 DEF Typed, TypeOK, Ordered, Created, Actor, ReconcilerDies, LeavesRecord, Fault, storeVars, queueVars, workerVars
  <2> QED BY <2>3, <2>4, <2>5 DEF Ordered
<1> QED
  BY <1>1, <1>2, <1>3, <1>4, <1>5, <1>6, <1>7, <1>8, <1>9, <1>10, <1>11, <1>12, <1>13, <1>14, <1>15, <1>16, <1>17, <1>18, <1>19, <1>20, <1>21, <1>22, <1>23
     DEF Next, WorkerStep, EnqueueStep, LeaseStep, ReconcilerStep

LEMMA InitHolds == Init => IInv
<1> SUFFICES ASSUME Init PROVE IInv
  OBVIOUS
<1> USE DEF Init
<1>1. Created = {}
  BY DEF Created
<1>2. PICK q \in TasksOf(Roots) : todo = [a \in Actor |-> IF a = Api THEN q ELSE <<>>]
  OBVIOUS
<1>3. q \in Seq(Task) /\ \A i \in DOMAIN q : q[i].stage \in Roots
  BY <1>2, TaskLists DEF Roots
<1>4. Roots \subseteq Turn
  BY DEF Roots, Turn
<1>5. todo \in [Actor -> Seq(Task)]
  BY <1>2, <1>3, NoTask
<1>6. made \in 0..MaxTasks /\ fails \in 0..MaxFails /\ faults \in 0..MaxFaults
  BY BoundAssumption
<1>7. Typed
  BY <1>1, <1>5, <1>6 DEF Typed, TypeOK
<1>8. Ordered
  <2>1. \A a \in Actor : \A i \in DOMAIN todo[a] : todo[a][i].stage \in Turn
    BY <1>2, <1>3, <1>4, NoTask
  <2> QED BY <1>1, <2>1 DEF Ordered
<1>9. Blamed /\ Started
  BY <1>1 DEF Blamed, Started, NotForgotten
<1>10. Fresh /\ OneMessage
  BY DEF Fresh, OneMessage, Active
<1> QED BY <1>7, <1>8, <1>9, <1>10 DEF IInv

(* IInv holds in every state of every run, faults and crashes included.     *)
THEOREM Invariance == Spec => []IInv
<1>1. IInv /\ [Next]_vars => IInv'
  BY TypedStep, OrderedStep, BlamedStep, StartedStep, FreshStep, OneMessageStep DEF IInv
<1> QED BY InitHolds, <1>1, PTL DEF Spec

(* Every record, message, worker and list of the control plane keeps its    *)
(* type (the store, the queue and the workers of internal/distributed).     *)
THEOREM TypeCorrect == Spec => []TypeOK
<1>1. IInv => TypeOK
  BY DEF IInv, Typed
<1> QED BY <1>1, Invariance, PTL

(* Stages run in the order of depends_on, and a job is reported succeeded   *)
(* only after a success in every stage: whatever crashes, is late or is     *)
(* delivered twice (Orchestrator.advanceStage, allStagesComplete).          *)
THEOREM InOrder == Spec => []StagesInOrder
<1>1. IInv => StagesInOrder
  BY DEF IInv, Ordered, StagesInOrder, Had, Turn, Typed, Task
<1> QED BY <1>1, Invariance, PTL

(* A job fails only when a task has used up its attempts, be it the worker  *)
(* or the reconciler that gives up (handleTaskFailure, reconcileOnce).      *)
THEOREM HasCause == Spec => []FailedHasCause
<1>1. IInv => FailedHasCause
  BY DEF IInv, Blamed, FailedHasCause
<1> QED BY <1>1, Invariance, PTL

(* A pending task is with the broker or with its publisher, unless that     *)
(* publisher died after UpsertTask (enqueueTask, the queue's leases).       *)
THEOREM Remembered == Spec => []NotForgotten
<1>1. IInv => NotForgotten
  BY DEF IInv, Started
<1> QED BY <1>1, Invariance, PTL

(* Without a crash or a late report no two workers execute the same task,   *)
(* however many there are (the lease of Queue.Receive, Ack and Nack).       *)
THEOREM OneWorker == Spec => []NoDoubleRun
<1>1. IInv => NoDoubleRun
  BY DEF IInv, OneMessage, Active, NoDoubleRun
<1> QED BY <1>1, Invariance, PTL

=============================================================================
