--------------------------- MODULE PipelineProofs ---------------------------
(***************************************************************************)
(* Proofs about Pipeline, for any pipelines, any step lists, either order  *)
(* of ties and any bound on the number of runs.                            *)
(***************************************************************************)
EXTENDS Pipeline, TLAPS

-----------------------------------------------------------------------------
(* Types.                                                                  *)

LEMMA IdleExecType == IdleExec \in Exec /\ IdleExec.pc = "idle"
  BY PipelineAssumption DEF IdleExec, Exec, StepNames

LEMMA NoStepsType == NoSteps \in [StepNames -> StepStatus]
  BY DEF NoSteps, StepStatus

LEMMA InitType == Init => TypeOK
  BY IdleExecType, NoStepsType, PipelineAssumption DEF Init, TypeOK, RunStatus, JobState, NoTimes

\* The ways the record of the worker changes.
LEMMA MovePc ==
  ASSUME TypeOK, NEW q \in {"begin", "next", "work", "rest", "fail", "done"},
         exec' = [exec EXCEPT !.pc = q]
  PROVE  /\ exec' \in Exec
         /\ exec'.pc = q /\ exec'.run = exec.run /\ exec'.step = exec.step
         /\ exec'.todo = exec.todo /\ exec'.pending = exec.pending
<1>1. exec \in Exec
  BY DEF TypeOK
<1> QED
  BY <1>1 DEF Exec

LEMMA MoveStep ==
  ASSUME TypeOK, NEW k \in StepNames,
         exec' = [exec EXCEPT !.pc = "work", !.step = k, !.todo = @ \ {k}]
  PROVE  /\ exec' \in Exec
         /\ exec'.pc = "work" /\ exec'.run = exec.run /\ exec'.step = k
         /\ exec'.todo = exec.todo \ {k} /\ exec'.pending = exec.pending
<1>1. exec \in Exec
  BY DEF TypeOK
<1> QED
  BY <1>1 DEF Exec

LEMMA MoveTake ==
  ASSUME NEW r \in Runs, NEW q \in {"begin", "done"},
         NEW T \in SUBSET StepNames, NEW P \in SUBSET StepNames,
         exec' = [IdleExec EXCEPT !.pc = q, !.run = r, !.todo = T, !.pending = P]
  PROVE  /\ exec' \in Exec
         /\ exec'.pc = q /\ exec'.run = r /\ exec'.run # 0
         /\ exec'.todo = T /\ exec'.pending = P
<1>1. r \in 0..MaxRuns /\ r # 0
  BY PipelineAssumption DEF Runs
<1> QED
  BY <1>1, IdleExecType DEF Exec

LEMMA TakeEffect ==
  ASSUME NEW r \in Runs, TakeJob(r)
  PROVE  /\ exec' \in Exec /\ exec'.run = r /\ exec'.run # 0
         /\ exec'.pc = (IF status[r] = "ABSENT" THEN "done" ELSE "begin")
         /\ exec'.todo = {k \in StepNames : step[r][k] # "NONE"}
<1> DEFINE q == IF status[r] = "ABSENT" THEN "done" ELSE "begin"
           T == {k \in StepNames : step[r][k] # "NONE"}
           P == {k \in StepNames : step[r][k] = "PENDING"}
<1>1. exec' = [IdleExec EXCEPT !.pc = q, !.run = r, !.todo = T, !.pending = P]
  BY DEF TakeJob
<1>2. q \in {"begin", "done"} /\ T \in SUBSET StepNames /\ P \in SUBSET StepNames
  OBVIOUS
<1> HIDE DEF q, T, P
<1>3. exec' \in Exec /\ exec'.pc = q /\ exec'.run = r /\ exec'.run # 0 /\ exec'.todo = T
  BY <1>1, <1>2, MoveTake
<1> QED
  BY <1>3 DEF q, T

\* The rows of the run being executed.
LEMMA ExecRun ==
  ASSUME TypeOK, exec.pc # "idle"
  PROVE  /\ exec.run \in Runs /\ exec.run # 0
         /\ exec.step \in StepNames /\ exec.todo \subseteq StepNames
  BY PipelineAssumption DEF TypeOK, Exec, Runs

LEMMA NewRunType ==
  ASSUME TypeOK, NEW p \in Pipelines \cup {NoPipeline}, NEW names, NewRun(p, names)
  PROVE  /\ created + 1 \in Runs /\ created' \in 0..MaxRuns
         /\ owner' \in [Runs -> Pipelines \cup {NoPipeline}]
         /\ status' \in [Runs -> RunStatus]
         /\ step' \in [Runs -> [StepNames -> StepStatus]]
<1>1. created + 1 \in Runs /\ created' \in 0..MaxRuns
  BY PipelineAssumption DEF NewRun, TypeOK, Runs
<1>2. [k \in StepNames |-> IF k \in names THEN "PENDING" ELSE "NONE"] \in [StepNames -> StepStatus]
  BY DEF StepStatus
<1> QED
  BY <1>1, <1>2 DEF NewRun, TypeOK, RunStatus

LEMMA NextType == TypeOK /\ [Next]_vars => TypeOK'
<1> SUFFICES ASSUME TypeOK, [Next]_vars PROVE TypeOK'
  OBVIOUS
<1>1. ASSUME NEW p \in Pipelines, CreatePipeline(p) PROVE TypeOK'
  BY <1>1 DEF CreatePipeline, TypeOK
<1>2. ASSUME NEW p \in Pipelines, DeletePipeline(p) PROVE TypeOK'
  BY <1>2, NoStepsType DEF DeletePipeline, TypeOK, RunStatus, NoTimes
<1>3. ASSUME NEW p \in Pipelines, TriggerRun(p) PROVE TypeOK'
  BY <1>3, NewRunType DEF TriggerRun, TypeOK, JobState
<1>4. ASSUME NEW r \in Runs, RollbackRun(r) PROVE TypeOK'
  <2>1. owner[r] \in Pipelines \cup {NoPipeline}
    BY DEF TypeOK
  <2> QED
    BY <1>4, <2>1, NewRunType DEF RollbackRun, TypeOK, JobState
<1>5. ASSUME NEW r \in Runs, Enqueue(r) \/ EnqueueFails(r) PROVE TypeOK'
  BY <1>5 DEF Enqueue, EnqueueFails, TypeOK, JobState
<1>6. ASSUME NEW r \in Runs, StalledCheck(r) PROVE TypeOK'
  BY <1>6 DEF StalledCheck, TypeOK, JobState
<1>7. ASSUME NEW r \in Runs, TakeJob(r) PROVE TypeOK'
  <2>1. exec' \in Exec /\ exec'.run # 0
    BY <1>7, TakeEffect
  <2> QED
    BY <1>7, <2>1 DEF TakeJob, TypeOK, JobState
<1>9. ASSUME NEW r \in Runs, ThrowIfGone(r), UNCHANGED <<pipelines, owner, created, stalls>>
      PROVE  TypeOK'
  BY <1>9, IdleExecType DEF ThrowIfGone, TypeOK, JobState
<1>10. ASSUME BeginRun \/ FailRun \/ FinishRun PROVE TypeOK'
  <2>1. exec.run \in Runs /\ exec.run # 0 /\ UNCHANGED <<pipelines, owner, created, stalls>>
    BY <1>10, ExecRun DEF BeginRun, FailRun, FinishRun
  <2>2. CASE ThrowIfGone(exec.run)
    BY <1>9, <2>1, <2>2
  <2>3. CASE ~ThrowIfGone(exec.run)
    <3>1. /\ UNCHANGED <<step, at, clock, job>>
          /\ \E s \in RunStatus : status' = [status EXCEPT ![exec.run] = s]
          /\ \E q \in {"next", "done"} : exec' = [exec EXCEPT !.pc = q]
      BY <1>10, <2>3 DEF BeginRun, FailRun, FinishRun, RunStatus
    <3>2. exec' \in Exec /\ exec'.run # 0
      BY <2>1, <3>1, MovePc
    <3> QED
      BY <2>1, <3>1, <3>2 DEF TypeOK
  <2> QED
    BY <2>2, <2>3
<1>11. ASSUME NEW k \in StepNames, StartStep(k) PROVE TypeOK'
  <2>1. exec.run \in Runs /\ exec.run # 0
    BY <1>11, ExecRun DEF StartStep
  <2>2. CASE ThrowIfGone(exec.run)
    BY <1>9, <1>11, <2>1, <2>2 DEF StartStep
  <2>3. CASE ~ThrowIfGone(exec.run)
    <3>1. /\ exec' = [exec EXCEPT !.pc = "work", !.step = k, !.todo = @ \ {k}]
          /\ step' = [step EXCEPT ![exec.run][k] = "RUNNING"]
          /\ at' = [at EXCEPT ![exec.run][k] = clock[exec.run] + 1]
          /\ clock' = [clock EXCEPT ![exec.run] = @ + 1]
          /\ UNCHANGED <<pipelines, owner, status, created, job, stalls>>
      BY <1>11, <2>3 DEF StartStep
    <3>2. exec' \in Exec /\ exec'.run # 0
      BY <2>1, <3>1, MoveStep
    <3>3. step' \in [Runs -> [StepNames -> StepStatus]]
      BY <2>1, <3>1 DEF TypeOK, StepStatus
    <3>4. at' \in [Runs -> [StepNames -> Nat]] /\ clock' \in [Runs -> Nat]
      BY <2>1, <3>1 DEF TypeOK
    <3> QED
      BY <3>1, <3>2, <3>3, <3>4 DEF TypeOK
  <2> QED
    BY <2>2, <2>3
<1>12. ASSUME StepEnds PROVE TypeOK'
  <2>1. exec.run \in Runs /\ exec.run # 0 /\ exec.step \in StepNames
    BY <1>12, ExecRun DEF StepEnds
  <2>2. CASE ThrowIfGone(exec.run)
    BY <1>9, <1>12, <2>1, <2>2 DEF StepEnds
  <2>3. CASE ~ThrowIfGone(exec.run)
    <3>1. PICK s \in {"SUCCESS", "FAILED"} :
             /\ step' = [step EXCEPT ![exec.run][exec.step] = s]
             /\ exec' = [exec EXCEPT !.pc = IF s = "SUCCESS" THEN "next" ELSE "rest"]
      BY <1>12, <2>3 DEF StepEnds
    <3>2. exec' \in Exec /\ exec'.run # 0
      BY <2>1, <3>1, MovePc
    <3>3. step' \in [Runs -> [StepNames -> StepStatus]]
      BY <2>1, <3>1 DEF TypeOK, StepStatus
    <3> QED
      BY <1>12, <2>3, <3>2, <3>3 DEF StepEnds, TypeOK
  <2> QED
    BY <2>2, <2>3
<1>13. ASSUME FailRest PROVE TypeOK'
  <2>1. exec.run \in Runs /\ exec.run # 0
    BY <1>13, ExecRun DEF FailRest
  <2>2. exec' \in Exec /\ exec'.run # 0
    BY <1>13, <2>1, MovePc DEF FailRest
  <2>3. step' \in [Runs -> [StepNames -> StepStatus]]
    <3>1. step[exec.run] \in [StepNames -> StepStatus]
      BY <2>1 DEF TypeOK
    <3>2. [k \in StepNames |->
             IF k \in exec.pending \ {exec.step} /\ step[exec.run][k] # "NONE"
               THEN "FAILED" ELSE step[exec.run][k]] \in [StepNames -> StepStatus]
      BY <3>1 DEF StepStatus
    <3> QED
      BY <1>13, <2>1, <3>2 DEF FailRest, TypeOK
  <2> QED
    BY <1>13, <2>2, <2>3 DEF FailRest, TypeOK
<1>14. ASSUME CompleteJob PROVE TypeOK'
  BY <1>14, IdleExecType DEF CompleteJob, TypeOK, JobState
<1>15. ASSUME CrashRestart PROVE TypeOK'
  BY <1>15, IdleExecType DEF CrashRestart, TypeOK, JobState
<1>16. CASE UNCHANGED vars
  BY <1>16 DEF vars, TypeOK
<1> QED
  BY <1>1, <1>2, <1>3, <1>4, <1>5, <1>6, <1>7, <1>10, <1>11, <1>12, <1>13, <1>14, <1>15, <1>16
  DEF Next, Worker

\* Type correctness of runs, steps, jobs and of the worker's state.
THEOREM PipelineTypeCorrect == Spec => []TypeOK
  BY InitType, NextType, PTL DEF Spec

-----------------------------------------------------------------------------
(* The inductive invariant.                                                *)

LEMMA InitInv == Init => RunInv
  BY IdleExecType
  DEF Init, RunInv, RowInv, WorkerInv, ProgressInv, OnceInv, SuccessIsComplete, UnfinishedHasJob,
      NoSteps

LEMMA NumberTypes ==
  ASSUME TypeOK
  PROVE  /\ created \in Nat /\ MaxRuns \in Nat /\ Runs = 1..MaxRuns
         /\ DOMAIN status = Runs /\ DOMAIN step = Runs /\ DOMAIN job = Runs
         /\ \A r \in Runs : DOMAIN step[r] = StepNames
  BY PipelineAssumption DEF TypeOK, Runs

\* Steps that leave the worker, its jobs and its rows alone.
LEMMA DeleteInv ==
  ASSUME TypeOK, RunInv, NEW p \in Pipelines, DeletePipeline(p)
  PROVE  RunInv'
<1>1. /\ UNCHANGED <<created, job, stalls, exec>>
      /\ \A r \in Runs : \/ status'[r] = "ABSENT" /\ step'[r] = NoSteps
                         \/ status'[r] = status[r] /\ step'[r] = step[r]
  BY DEF DeletePipeline
<1>2. \A k \in StepNames : NoSteps[k] = "NONE"
  BY DEF NoSteps
<1>3. exec.pc # "idle" => exec.run \in Runs /\ exec.step \in StepNames /\ exec.todo \subseteq StepNames
  BY ExecRun
<1>4. RowInv' /\ UnfinishedHasJob'
  BY <1>1 DEF RunInv, RowInv, UnfinishedHasJob
<1>5. WorkerInv'
  BY <1>1, <1>3 DEF RunInv, WorkerInv
<1>6. SuccessIsComplete'
  BY <1>1 DEF RunInv, SuccessIsComplete
<1>7. ProgressInv'
  BY <1>1, <1>3 DEF RunInv, ProgressInv
<1>8. OnceInv'
  BY <1>1, <1>2, <1>3 DEF RunInv, OnceInv
<1> QED
  BY <1>4, <1>5, <1>6, <1>7, <1>8 DEF RunInv

\* A new run touches only rows and jobs nobody has used.
LEMMA NewRunInv ==
  ASSUME TypeOK, RunInv, NEW p \in Pipelines \cup {NoPipeline}, NEW names, NewRun(p, names),
         job' = [job EXCEPT ![created + 1] = "adding"], UNCHANGED <<stalls, exec>>
  PROVE  RunInv'
<1> DEFINE n == created + 1
<1>1. /\ n \in Runs /\ created' = n
      /\ status'[n] = "PENDING" /\ job'[n] = "adding"
      /\ \A k \in StepNames : step'[n][k] \in {"NONE", "PENDING"}
      /\ \A r \in Runs \ {n} : status'[r] = status[r] /\ job'[r] = job[r] /\ step'[r] = step[r]
  BY NewRunType, NumberTypes DEF NewRun
<1>2. exec.pc # "idle" => /\ exec.run \in Runs /\ exec.run # n /\ exec.step \in StepNames
                          /\ exec.todo \subseteq StepNames
  BY ExecRun, NumberTypes DEF RunInv, WorkerInv
<1>3. RowInv' /\ UnfinishedHasJob'
  BY <1>1, NumberTypes DEF RunInv, RowInv, UnfinishedHasJob
<1>4. WorkerInv' /\ SuccessIsComplete'
  BY <1>1, <1>2, NumberTypes DEF RunInv, WorkerInv, SuccessIsComplete
<1>5. ProgressInv' /\ OnceInv'
  BY <1>1, <1>2 DEF RunInv, ProgressInv, OnceInv
<1> QED
  BY <1>3, <1>4, <1>5 DEF RunInv

\* A job that the worker does not hold changes its state.
LEMMA JobInv ==
  ASSUME TypeOK, RunInv, NEW r \in Runs, NEW j \in {"waiting", "lost"},
         job' = [job EXCEPT ![r] = j],
         UNCHANGED <<pipelines, owner, status, step, at, clock, created, exec>>,
         job[r] \in {"adding", "active"},
         exec.pc # "idle" => exec.run # r,
         stalls' \in {stalls, stalls \cup {r}},
         job[r] = "active" => r \in stalls'
  PROVE  RunInv'
<1>1. job'[r] = j /\ \A s \in Runs \ {r} : job'[s] = job[s]
  BY NumberTypes
<1>2. RowInv' /\ WorkerInv' /\ ProgressInv'
  BY <1>1, ExecRun DEF RunInv, RowInv, WorkerInv, ProgressInv
<1>3. OnceInv'
  BY <1>1 DEF RunInv, OnceInv
<1>4. SuccessIsComplete' /\ UnfinishedHasJob'
  BY <1>1 DEF RunInv, SuccessIsComplete, UnfinishedHasJob
<1> QED
  BY <1>2, <1>3, <1>4 DEF RunInv

LEMMA QueueInv ==
  ASSUME TypeOK, RunInv, NEW r \in Runs, Enqueue(r) \/ EnqueueFails(r) \/ StalledCheck(r)
  PROVE  RunInv'
<1>1. exec.pc # "idle" => exec.run # r
  BY DEF Enqueue, EnqueueFails, StalledCheck, Orphaned, RunInv, WorkerInv
<1> QED
  BY <1>1, JobInv DEF Enqueue, EnqueueFails, StalledCheck, Orphaned

LEMMA CrashInv ==
  ASSUME TypeOK, RunInv, CrashRestart
  PROVE  RunInv'
<1>1. /\ exec'.pc = "idle" /\ UNCHANGED <<status, step, created, stalls>>
      /\ \A r \in Runs : job'[r] = (IF job[r] = "adding" THEN "lost" ELSE job[r])
  BY IdleExecType DEF CrashRestart
<1> QED
  BY <1>1
  DEF RunInv, RowInv, WorkerInv, ProgressInv, OnceInv, SuccessIsComplete, UnfinishedHasJob

LEMMA TakeInv ==
  ASSUME TypeOK, RunInv, NEW r \in Runs, TakeJob(r)
  PROVE  RunInv'
<1>1. /\ exec.pc = "idle" /\ job[r] = "waiting" /\ job'[r] = "active"
      /\ \A s \in Runs \ {r} : job'[s] = job[s]
      /\ UNCHANGED <<status, step, created, stalls>>
      /\ exec'.run = r /\ exec'.todo = {k \in StepNames : step[r][k] # "NONE"}
      /\ exec'.pc = (IF status[r] = "ABSENT" THEN "done" ELSE "begin")
  BY TakeEffect, NumberTypes DEF TakeJob
<1>2. r <= created
  BY <1>1, NumberTypes DEF RunInv, RowInv
<1>3. RowInv' /\ WorkerInv' /\ UnfinishedHasJob'
  BY <1>1, <1>2 DEF RunInv, RowInv, WorkerInv, UnfinishedHasJob
<1>4. ProgressInv' /\ SuccessIsComplete'
  BY <1>1 DEF RunInv, ProgressInv, SuccessIsComplete
<1>5. OnceInv'
  BY <1>1 DEF RunInv, OnceInv
<1> QED
  BY <1>3, <1>4, <1>5 DEF RunInv

\* The worker ends a job whose run cannot be unfinished.
LEMMA EndJobInv ==
  ASSUME TypeOK, RunInv, exec.pc # "idle", status[exec.run] \notin {"PENDING", "RUNNING"},
         NEW j \in {"completed", "failed"}, job' = [job EXCEPT ![exec.run] = j],
         exec' = IdleExec, UNCHANGED <<status, step, created, stalls>>
  PROVE  RunInv'
<1>1. exec.run \in Runs
  BY ExecRun
<1>2. exec'.pc = "idle" /\ job'[exec.run] = j /\ \A s \in Runs \ {exec.run} : job'[s] = job[s]
  BY <1>1, IdleExecType, NumberTypes
<1>3. exec.run <= created
  BY DEF RunInv, WorkerInv
<1>4. RowInv' /\ WorkerInv' /\ ProgressInv' /\ SuccessIsComplete'
  BY <1>1, <1>2, <1>3, NumberTypes DEF RunInv, RowInv, WorkerInv, ProgressInv, SuccessIsComplete
<1>5. OnceInv' /\ UnfinishedHasJob'
  BY <1>1, <1>2 DEF RunInv, OnceInv, UnfinishedHasJob
<1> QED
  BY <1>4, <1>5 DEF RunInv

LEMMA ThrowInv ==
  ASSUME TypeOK, RunInv, exec.pc # "idle", ThrowIfGone(exec.run), UNCHANGED <<created, stalls>>
  PROVE  RunInv'
  BY EndJobInv DEF ThrowIfGone

\* The worker writes the run it executes, and only its status.
LEMMA StatusInv ==
  ASSUME TypeOK, RunInv, exec.pc # "idle", status[exec.run] # "ABSENT",
         NEW s \in {"RUNNING", "SUCCESS", "FAILED"}, NEW q \in {"next", "done"},
         status' = [status EXCEPT ![exec.run] = s], exec' = [exec EXCEPT !.pc = q],
         UNCHANGED <<step, created, job, stalls>>,
         q = "next" => s = "RUNNING" /\ exec.pc = "begin",
         q = "done" => s # "RUNNING",
         s = "SUCCESS" => exec.pc = "next" /\ exec.todo = {}
  PROVE  RunInv'
<1>1. /\ exec.run \in Runs /\ exec.run <= created /\ exec.todo \subseteq StepNames
      /\ job[exec.run] = "active"
  BY ExecRun DEF RunInv, WorkerInv
<1>2. /\ exec'.pc = q /\ exec'.run = exec.run /\ exec'.step = exec.step /\ exec'.todo = exec.todo
  BY MovePc
<1>3. status'[exec.run] = s /\ \A r \in Runs \ {exec.run} : status'[r] = status[r]
  BY <1>1, NumberTypes
<1>4. RowInv' /\ UnfinishedHasJob'
  BY <1>1, <1>3, NumberTypes DEF RunInv, RowInv, UnfinishedHasJob
<1>5. WorkerInv'
  BY <1>1, <1>2, <1>3 DEF RunInv, WorkerInv
<1>6. ProgressInv' /\ OnceInv'
  BY <1>1, <1>2, <1>3 DEF RunInv, ProgressInv, OnceInv
<1>7. SuccessIsComplete'
  BY <1>1, <1>3 DEF RunInv, ProgressInv, SuccessIsComplete
<1> QED
  BY <1>4, <1>5, <1>6, <1>7 DEF RunInv

\* The worker writes the steps of the run it executes.
LEMMA StepsInv ==
  ASSUME TypeOK, RunInv, exec.pc \in {"next", "work", "rest"}, exec'.run = exec.run,
         exec'.pc \in {"next", "work", "rest", "fail"},
         \A r \in Runs \ {exec.run} : step'[r] = step[r],
         status[exec.run] = "ABSENT" => step'[exec.run] = NoSteps,
         UNCHANGED <<status, created, job, stalls>>, ProgressInv',
         exec.run \notin stalls /\ exec'.pc \in {"next", "work"} =>
            \A k \in exec'.todo : step'[exec.run][k] \in {"NONE", "PENDING"}
  PROVE  RunInv'
<1>1. /\ exec.run \in Runs /\ exec.run <= created /\ job[exec.run] = "active"
      /\ status[exec.run] \in {"RUNNING", "ABSENT"}
  BY ExecRun DEF RunInv, WorkerInv
<1>2. RowInv' /\ WorkerInv' /\ UnfinishedHasJob'
  BY <1>1 DEF RunInv, RowInv, WorkerInv, UnfinishedHasJob
<1>3. OnceInv'
  BY <1>1 DEF RunInv, OnceInv
<1>4. SuccessIsComplete'
  BY <1>1 DEF RunInv, SuccessIsComplete
<1> QED
  BY <1>2, <1>3, <1>4 DEF RunInv

LEMMA StartInv ==
  ASSUME TypeOK, RunInv, NEW k \in StepNames, StartStep(k), ~ThrowIfGone(exec.run)
  PROVE  RunInv'
<1>1. /\ exec.pc = "next" /\ k \in exec.todo /\ status[exec.run] # "ABSENT"
      /\ step' = [step EXCEPT ![exec.run][k] = "RUNNING"]
      /\ exec' = [exec EXCEPT !.pc = "work", !.step = k, !.todo = @ \ {k}]
      /\ UNCHANGED <<status, created, job, stalls>>
  BY DEF StartStep
<1>2. exec.run \in Runs /\ exec.todo \subseteq StepNames
  BY <1>1, ExecRun
<1>3. /\ exec'.pc = "work" /\ exec'.run = exec.run /\ exec'.step = k /\ exec'.todo = exec.todo \ {k}
  BY <1>1, MoveStep
<1>4. /\ step'[exec.run][k] = "RUNNING"
      /\ \A l \in StepNames \ {k} : step'[exec.run][l] = step[exec.run][l]
      /\ \A r \in Runs \ {exec.run} : step'[r] = step[r]
  BY <1>1, <1>2, NumberTypes
<1>5. ProgressInv'
  BY <1>1, <1>2, <1>3, <1>4 DEF RunInv, ProgressInv
<1>6. exec.run \notin stalls => \A l \in exec'.todo : step'[exec.run][l] \in {"NONE", "PENDING"}
  BY <1>1, <1>2, <1>3, <1>4 DEF RunInv, OnceInv
<1> QED
  BY <1>1, <1>3, <1>4, <1>5, <1>6, StepsInv

LEMMA EndsInv ==
  ASSUME TypeOK, RunInv, StepEnds, ~ThrowIfGone(exec.run)
  PROVE  RunInv'
<1> PICK s \in {"SUCCESS", "FAILED"} :
       /\ step' = [step EXCEPT ![exec.run][exec.step] = s]
       /\ exec' = [exec EXCEPT !.pc = IF s = "SUCCESS" THEN "next" ELSE "rest"]
  BY DEF StepEnds
<1>1. exec.pc = "work" /\ status[exec.run] # "ABSENT" /\ UNCHANGED <<status, created, job, stalls>>
  BY DEF StepEnds
<1>2. exec.run \in Runs /\ exec.step \in StepNames /\ exec.todo \subseteq StepNames
  BY <1>1, ExecRun
<1>3. /\ exec'.pc = (IF s = "SUCCESS" THEN "next" ELSE "rest")
      /\ exec'.run = exec.run /\ exec'.step = exec.step /\ exec'.todo = exec.todo
  BY MovePc
<1>4. /\ step'[exec.run][exec.step] = s
      /\ \A l \in StepNames \ {exec.step} : step'[exec.run][l] = step[exec.run][l]
      /\ \A r \in Runs \ {exec.run} : step'[r] = step[r]
  BY <1>2, NumberTypes
<1>5. ProgressInv'
  BY <1>1, <1>2, <1>3, <1>4 DEF RunInv, ProgressInv
<1>6. \A l \in exec.todo : l # exec.step
  BY <1>1 DEF RunInv, ProgressInv
<1>7. exec.run \notin stalls => \A l \in exec'.todo : step'[exec.run][l] \in {"NONE", "PENDING"}
  BY <1>1, <1>2, <1>3, <1>4, <1>6 DEF RunInv, OnceInv
<1> QED
  BY <1>1, <1>3, <1>4, <1>5, <1>7, StepsInv

LEMMA RestInv ==
  ASSUME TypeOK, RunInv, FailRest
  PROVE  RunInv'
<1>1. exec.pc = "rest" /\ UNCHANGED <<status, created, job, stalls>>
  BY DEF FailRest
<1>2. exec.run \in Runs /\ exec.step \in StepNames
  BY <1>1, ExecRun
<1>3. exec'.pc = "fail" /\ exec'.run = exec.run /\ exec'.step = exec.step /\ exec'.todo = exec.todo
  BY MovePc DEF FailRest
<1>4. /\ \A k \in StepNames : step'[exec.run][k] = (IF k \in exec.pending \ {exec.step} /\ step[exec.run][k] # "NONE"
                                                    THEN "FAILED" ELSE step[exec.run][k])
      /\ \A r \in Runs \ {exec.run} : step'[r] = step[r]
      /\ DOMAIN step'[exec.run] = StepNames
  BY <1>2, NumberTypes DEF FailRest
<1>5. status[exec.run] = "ABSENT" => step'[exec.run] = NoSteps
  <2> SUFFICES ASSUME status[exec.run] = "ABSENT" PROVE step'[exec.run] = NoSteps
    OBVIOUS
  <2>1. step[exec.run] = NoSteps
    BY <1>2 DEF RunInv, RowInv
  <2>2. \A k \in StepNames : step'[exec.run][k] = NoSteps[k]
    BY <1>4, <2>1 DEF NoSteps
  <2>3. step'[exec.run] \in [StepNames -> StepStatus]
    BY <1>2, NextType DEF Next, Worker, TypeOK
  <2> QED
    BY <2>2, <2>3, NoStepsType
<1>6. ProgressInv'
  <2> SUFFICES ASSUME status[exec.run] # "ABSENT"
               PROVE  /\ \A k \in exec.todo : step'[exec.run][k] # "NONE"
                      /\ step'[exec.run][exec.step] = "FAILED"
    BY <1>1, <1>3 DEF ProgressInv
  <2>1. /\ \A k \in exec.todo : step[exec.run][k] # "NONE"
        /\ step[exec.run][exec.step] = "FAILED"
    BY <1>1 DEF RunInv, ProgressInv
  <2>2. exec.todo \subseteq StepNames
    BY <1>1, ExecRun
  <2> QED
    BY <1>2, <1>4, <2>1, <2>2
<1> QED
  BY <1>1, <1>3, <1>4, <1>5, <1>6, StepsInv

LEMMA NextInv == TypeOK /\ RunInv /\ [Next]_vars => RunInv'
<1> SUFFICES ASSUME TypeOK, RunInv, [Next]_vars PROVE RunInv'
  OBVIOUS
<1>1. ASSUME UNCHANGED <<status, step, created, job, stalls, exec>> PROVE RunInv'
  BY <1>1
  DEF RunInv, RowInv, WorkerInv, ProgressInv, OnceInv, SuccessIsComplete, UnfinishedHasJob
<1>2. ASSUME NEW p \in Pipelines, CreatePipeline(p) PROVE RunInv'
  BY <1>1, <1>2 DEF CreatePipeline
<1>3. ASSUME NEW p \in Pipelines, TriggerRun(p) PROVE RunInv'
  BY <1>3, NewRunInv DEF TriggerRun
<1>4. ASSUME NEW r \in Runs, RollbackRun(r) PROVE RunInv'
  <2>1. owner[r] \in Pipelines \cup {NoPipeline}
    BY DEF TypeOK
  <2> QED
    BY <1>4, <2>1, NewRunInv DEF RollbackRun
<1>5. ASSUME BeginRun PROVE RunInv'
  BY <1>5, ThrowInv, StatusInv DEF BeginRun
<1>6. ASSUME FailRun PROVE RunInv'
  BY <1>6, ThrowInv, StatusInv DEF FailRun
<1>7. ASSUME FinishRun PROVE RunInv'
  BY <1>7, ThrowInv, StatusInv DEF FinishRun
<1>8. ASSUME NEW k \in StepNames, StartStep(k) PROVE RunInv'
  BY <1>8, ThrowInv, StartInv DEF StartStep
<1>9. ASSUME StepEnds PROVE RunInv'
  BY <1>9, ThrowInv, EndsInv DEF StepEnds
<1>10. ASSUME CompleteJob PROVE RunInv'
  <2>1. status[exec.run] \notin {"PENDING", "RUNNING"}
    BY <1>10 DEF CompleteJob, RunInv, WorkerInv
  <2> QED
    BY <1>10, <2>1, EndJobInv DEF CompleteJob
<1>11. CASE UNCHANGED vars
  BY <1>1, <1>11 DEF vars
<1> QED
  BY <1>2, <1>3, <1>4, <1>5, <1>6, <1>7, <1>8, <1>9, <1>10, <1>11,
     DeleteInv, QueueInv, CrashInv, TakeInv, RestInv DEF Next, Worker

\* The invariant every theorem below rests on.
THEOREM PipelineInvariant == Spec => [](TypeOK /\ RunInv)
<1>1. Init => TypeOK /\ RunInv
  BY InitType, InitInv
<1>2. TypeOK /\ RunInv /\ [Next]_vars => (TypeOK /\ RunInv)'
  BY NextType, NextInv
<1> QED
  BY <1>1, <1>2, PTL DEF Spec

-----------------------------------------------------------------------------
(* Properties.                                                             *)

\* A run shown as SUCCESS has only successful steps (SuccessIsComplete).
THEOREM PipelineSuccessComplete == Spec => []SuccessIsComplete
<1>1. TypeOK /\ RunInv => SuccessIsComplete
  BY DEF RunInv
<1> QED
  BY <1>1, PipelineInvariant, PTL

\* Nothing is executed after a failed step (StopsAtFailure).
THEOREM PipelineStopsAtFailure == Spec => []StopsAtFailure
<1>1. TypeOK /\ RunInv => StopsAtFailure
  BY DEF RunInv, ProgressInv, StopsAtFailure
<1> QED
  BY <1>1, PipelineInvariant, PTL

\* An unfinished run has a request or a job, or its job was lost
\* (UnfinishedHasJob).
THEOREM PipelineUnfinishedHasJob == Spec => []UnfinishedHasJob
<1>1. TypeOK /\ RunInv => UnfinishedHasJob
  BY DEF RunInv
<1> QED
  BY <1>1, PipelineInvariant, PTL

\* How one step of Pipeline changes the rows: by creating or deleting them, or
\* by a write of the worker to the run it executes.
LEMMA NewRunRows ==
  ASSUME TypeOK, RunInv, NEW p \in Pipelines \cup {NoPipeline},
         NEW names \in (SUBSET StepNames) \ {{}}, NewRun(p, names)
  PROVE  /\ \E r \in Runs : Ledger!Create(r)
         /\ \A r \in Runs, k \in StepNames : step'[r][k] = "RUNNING" => step[r][k] = "RUNNING"
<1>1. created + 1 \in Runs /\ created + 1 > created
  BY NewRunType, NumberTypes
<1>2. status[created + 1] = "ABSENT"
  BY <1>1 DEF RunInv, RowInv
<1> QED
  BY <1>1, <1>2, NumberTypes DEF NewRun, Ledger!Create

\* A command is executed again only after the worker died (RerunOnlyAfterCrash).
LEMMA RerunStep ==
  ASSUME TypeOK, RunInv, [Next]_vars
  PROVE  \A r \in Runs, k \in StepNames :
            step'[r][k] = "RUNNING" /\ step[r][k] # "RUNNING" /\ step[r][k] # "PENDING" => r \in stalls
<1> SUFFICES ASSUME NEW r \in Runs, NEW k \in StepNames,
                    step'[r][k] = "RUNNING", step[r][k] # "RUNNING", step[r][k] # "PENDING"
             PROVE  r \in stalls
  OBVIOUS
<1>1. step' # step
  OBVIOUS
<1>2. ASSUME NEW p \in Pipelines, DeletePipeline(p) PROVE FALSE
  BY <1>2 DEF DeletePipeline, NoSteps
<1>3. ASSUME NEW p \in Pipelines, TriggerRun(p) PROVE FALSE
  BY <1>3, NewRunRows, PipelineAssumption DEF TriggerRun
<1>4. ASSUME NEW s \in Runs, RollbackRun(s) PROVE FALSE
  <2>1. owner[s] \in Pipelines \cup {NoPipeline} /\ {"rollback"} \in (SUBSET StepNames) \ {{}}
    BY DEF TypeOK, StepNames
  <2> QED
    BY <1>4, <2>1, NewRunRows DEF RollbackRun
<1>5. ASSUME NEW l \in StepNames, StartStep(l) PROVE r \in stalls
  <2>1. /\ exec.pc = "next" /\ l \in exec.todo /\ exec.run \in Runs /\ status[exec.run] # "ABSENT"
        /\ step' = [step EXCEPT ![exec.run][l] = "RUNNING"]
    BY <1>1, <1>5, ExecRun DEF StartStep, ThrowIfGone
  <2>2. r = exec.run /\ k = l
    BY <2>1, NumberTypes
  <2>3. step[r][k] # "NONE"
    BY <2>1, <2>2 DEF RunInv, ProgressInv
  <2> QED
    BY <2>1, <2>2, <2>3 DEF RunInv, OnceInv
<1>6. ASSUME StepEnds PROVE FALSE
  BY <1>1, <1>6, ExecRun, NumberTypes DEF StepEnds, ThrowIfGone
<1>7. ASSUME FailRest PROVE FALSE
  BY <1>7, ExecRun, NumberTypes DEF FailRest
<1> QED
  BY <1>1, <1>2, <1>3, <1>4, <1>5, <1>6, <1>7
  DEF Next, Worker, CreatePipeline, Enqueue, EnqueueFails, StalledCheck, TakeJob, BeginRun,
      FailRun, FinishRun, CompleteJob, CrashRestart, ThrowIfGone, vars

THEOREM PipelineRerunOnlyAfterCrash == Spec => RerunOnlyAfterCrash
<1>1. TypeOK /\ RunInv /\ [Next]_vars =>
        [\A r \in Runs, k \in StepNames :
            step'[r][k] = "RUNNING" /\ step[r][k] # "RUNNING" /\ step[r][k] # "PENDING"
               => r \in stalls]_vars
  BY RerunStep
<1> QED
  BY <1>1, PipelineInvariant, PTL DEF Spec, RerunOnlyAfterCrash

-----------------------------------------------------------------------------
(* Pipeline implements RunLedger.                                          *)

LEMMA LedgerInit == Init => Ledger!Init
  BY DEF Init, Ledger!Init, NoSteps, Ledger!NoSteps

LEMMA LedgerStep ==
  ASSUME TypeOK, RunInv, [Next]_vars
  PROVE  Ledger!Next \/ UNCHANGED <<status, step>>
<1>1. ASSUME NEW p \in Pipelines, DeletePipeline(p) PROVE Ledger!Delete
  <2> DEFINE R == {r \in Runs : owner[r] = p}
  <2>1. /\ R \in SUBSET Runs
        /\ status' = [r \in Runs |-> IF r \in R THEN "ABSENT" ELSE status[r]]
        /\ step' = [r \in Runs |-> IF r \in R THEN Ledger!NoSteps ELSE step[r]]
    BY <1>1 DEF DeletePipeline, NoSteps, Ledger!NoSteps
  <2> QED
    BY <2>1 DEF Ledger!Delete
<1>2. ASSUME NEW p \in Pipelines, TriggerRun(p) PROVE Ledger!Next
  BY <1>2, NewRunRows, PipelineAssumption DEF TriggerRun, Ledger!Next
<1>3. ASSUME NEW s \in Runs, RollbackRun(s) PROVE Ledger!Next
  <2>1. owner[s] \in Pipelines \cup {NoPipeline} /\ {"rollback"} \in (SUBSET StepNames) \ {{}}
    BY DEF TypeOK, StepNames
  <2> QED
    BY <1>3, <2>1, NewRunRows DEF RollbackRun, Ledger!Next
<1> DEFINE r == exec.run
<1>4. exec.pc # "idle" => r \in Runs /\ exec.step \in StepNames /\ exec.todo \subseteq StepNames
  BY ExecRun
<1>5. ASSUME ThrowIfGone(r) PROVE UNCHANGED <<status, step>>
  BY <1>5 DEF ThrowIfGone
<1>6. ASSUME BeginRun, ~ThrowIfGone(r) PROVE Ledger!Begin(r)
  BY <1>6 DEF BeginRun, Ledger!Begin
<1>7. ASSUME NEW k \in StepNames, StartStep(k), ~ThrowIfGone(r) PROVE Ledger!Execute(r, k)
  BY <1>7 DEF StartStep, Ledger!Execute, RunInv, WorkerInv, ProgressInv
<1>8. ASSUME StepEnds, ~ThrowIfGone(r) PROVE Ledger!Execute(r, exec.step)
  BY <1>8 DEF StepEnds, Ledger!Execute, RunInv, WorkerInv, ProgressInv
<1>9. ASSUME FailRest, status[r] # "ABSENT" PROVE Ledger!GiveUp(r)
  <2> DEFINE K == {k \in exec.pending \ {exec.step} : k \in StepNames /\ step[r][k] # "NONE"}
  <2>1. status[r] = "RUNNING" /\ step[r][exec.step] = "FAILED" /\ UNCHANGED status
    BY <1>9 DEF FailRest, RunInv, WorkerInv, ProgressInv
  <2>2. step' = [step EXCEPT ![r] = [k \in StepNames |-> IF k \in K THEN "FAILED" ELSE step[r][k]]]
    BY <1>9 DEF FailRest
  <2>3. K \in SUBSET {k \in StepNames : step[r][k] # "NONE"}
    OBVIOUS
  <2>4. exec.step \in StepNames
    BY <1>4, <1>9 DEF FailRest
  <2> HIDE DEF K, r
  <2> QED
    BY <2>1, <2>2, <2>3, <2>4 DEF Ledger!GiveUp, Ledger!Has
<1>10. ASSUME FailRest, status[r] = "ABSENT" PROVE UNCHANGED <<status, step>>
  <2>1. r \in Runs /\ step[r] = NoSteps /\ step \in [Runs -> [StepNames -> StepStatus]]
    BY <1>4, <1>10 DEF FailRest, RunInv, RowInv, TypeOK
  <2>2. [k \in StepNames |-> IF k \in exec.pending \ {exec.step} /\ step[r][k] # "NONE"
                               THEN "FAILED" ELSE step[r][k]] = step[r]
    BY <2>1 DEF NoSteps
  <2>3. step' = [step EXCEPT ![r] = step[r]]
    BY <1>10, <2>2 DEF FailRest
  <2> QED
    BY <1>10, <2>1, <2>3 DEF FailRest
<1>11. ASSUME FailRun, ~ThrowIfGone(r) PROVE Ledger!Fail(r)
  BY <1>4, <1>11 DEF FailRun, Ledger!Fail, Ledger!Has, RunInv, WorkerInv, ProgressInv
<1>12. ASSUME FinishRun, ~ThrowIfGone(r) PROVE Ledger!Succeed(r)
  BY <1>4, <1>12 DEF FinishRun, Ledger!Succeed, Ledger!Only, RunInv, WorkerInv, ProgressInv
<1>13. ASSUME NEW a \in Runs, Ledger!Begin(a) \/ Ledger!Succeed(a) \/ Ledger!Fail(a) \/ Ledger!GiveUp(a)
       PROVE  Ledger!Next
  BY <1>13 DEF Ledger!Next
<1>14. ASSUME NEW a \in Runs, NEW k \in StepNames, Ledger!Execute(a, k) PROVE Ledger!Next
  BY <1>14 DEF Ledger!Next
<1>15. ASSUME Worker PROVE Ledger!Next \/ UNCHANGED <<status, step>>
  <2>1. ASSUME BeginRun \/ StepEnds \/ FailRest \/ FailRun \/ FinishRun
        PROVE  Ledger!Next \/ UNCHANGED <<status, step>>
    <3>1. r \in Runs /\ exec.step \in StepNames
      BY <1>4, <2>1 DEF BeginRun, StepEnds, FailRest, FailRun, FinishRun
    <3> HIDE DEF r
    <3> QED
      BY <1>5, <1>6, <1>8, <1>9, <1>10, <1>11, <1>12, <1>13, <1>14, <2>1, <3>1
  <2>2. ASSUME NEW k \in StepNames, StartStep(k)
        PROVE  Ledger!Next \/ UNCHANGED <<status, step>>
    <3>1. r \in Runs
      BY <1>4, <2>2 DEF StartStep
    <3> HIDE DEF r
    <3> QED
      BY <1>5, <1>7, <1>14, <2>2, <3>1
  <2> QED
    BY <1>15, <2>1, <2>2 DEF Worker, TakeJob, CompleteJob
<1> QED
  BY <1>1, <1>2, <1>3, <1>15
  DEF Next, CreatePipeline, Enqueue, EnqueueFails, StalledCheck, CrashRestart, vars, Ledger!Next

\* Whatever crashes, is redelivered or deleted, the run history keeps the
\* promises of RunLedger (LedgerSpec).
THEOREM PipelineKeepsLedger == Spec => LedgerSpec
<1>1. TypeOK /\ RunInv /\ [Next]_vars => [Ledger!Next]_(Ledger!vars)
  BY LedgerStep DEF Ledger!vars
<1> QED
  BY <1>1, LedgerInit, PipelineInvariant, PTL DEF Spec, LedgerSpec, Ledger!Spec

=============================================================================
