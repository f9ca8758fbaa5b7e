------------------------------ MODULE Pipeline ------------------------------
(***************************************************************************)
(* Pipeline runs: PipelineService (triggerRun, rollbackRun, executeRun,    *)
(* deletePipeline) and PipelineProcessor, over the BullMQ queue.           *)
(*                                                                         *)
(* Runs and steps are rows of PostgreSQL, jobs live in Redis, and the loop *)
(* over the steps lives in the memory of the process: a crash loses the    *)
(* loop, keeps both stores and later delivers the job again.  One action   *)
(* is the code between two awaits.  What a step executes is a command that *)
(* succeeds or fails.                                                      *)
(*                                                                         *)
(* The queue is external: any waiting job may be taken next, one job at a  *)
(* time (the Worker's default concurrency), never retried after an error   *)
(* (default attempts: 1), and put back once when its worker dies (default  *)
(* maxStalledCount: 1).                                                    *)
(***************************************************************************)
EXTENDS Naturals, FiniteSets

CONSTANTS
    Pipelines,  \* pipeline ids
    NoPipeline, \* owner of a run that was never created
    StepLists,  \* the step sets toStepNames can return
    StableTies, \* whether steps created together are read in creation order
    MaxRuns     \* bound: runs ever created

Runs == 1..MaxRuns
StepNames == {"build", "push", "deploy", "verify", "rollback"}

ASSUME PipelineAssumption ==
    /\ NoPipeline \notin Pipelines
    /\ MaxRuns \in Nat
    /\ StepLists \subseteq SUBSET StepNames
    /\ {} \notin StepLists
    /\ StableTies \in BOOLEAN

VARIABLES
    pipelines, \* Pipeline rows
    owner,     \* pipeline of a run, constant once created
    status,    \* PipelineRun.status; ABSENT: not created or deleted
    step,      \* PipelineStep.status per run and step; NONE: no such row
    at,        \* PipelineStep.startedAt: 0 at creation, then the clock
    clock,     \* time, counted in step starts of the run
    created,   \* runs created so far
    job,       \* the job of a run
    stalls,    \* runs whose job was put back once
    exec       \* the worker: the executeRun call in progress

vars == <<pipelines, owner, status, step, at, clock, created, job, stalls, exec>>

RunStatus == {"ABSENT", "PENDING", "RUNNING", "SUCCESS", "FAILED"}
StepStatus == {"NONE", "PENDING", "RUNNING", "SUCCESS", "FAILED"}

\* adding: the row is written, queue.add is not.  lost: the job was never
\* added, or its worker died twice.
JobState == {"none", "adding", "waiting", "active", "completed", "failed", "lost"}

NoSteps == [k \in StepNames |-> "NONE"]
NoTimes == [k \in StepNames |-> 0]

\* todo: steps this call has not executed.  pending: the steps that were
\* PENDING in the rows read at its start.
Exec == [pc: {"idle", "begin", "next", "work", "rest", "fail", "done"},
         run: 0..MaxRuns, step: StepNames, todo: SUBSET StepNames,
         pending: SUBSET StepNames]
IdleExec == [pc |-> "idle", run |-> 0, step |-> "build", todo |-> {}, pending |-> {}]

TypeOK ==
    /\ pipelines \subseteq Pipelines
    /\ created \in 0..MaxRuns
    /\ owner \in [Runs -> Pipelines \cup {NoPipeline}]
    /\ status \in [Runs -> RunStatus]
    /\ step \in [Runs -> [StepNames -> StepStatus]]
    /\ at \in [Runs -> [StepNames -> Nat]]
    /\ clock \in [Runs -> Nat]
    /\ job \in [Runs -> JobState]
    /\ stalls \subseteq Runs
    /\ exec \in Exec
    /\ exec.pc # "idle" => exec.run # 0

Init ==
    /\ pipelines = {}
    /\ created = 0
    /\ owner = [r \in Runs |-> NoPipeline]
    /\ status = [r \in Runs |-> "ABSENT"]
    /\ step = [r \in Runs |-> NoSteps]
    /\ at = [r \in Runs |-> NoTimes]
    /\ clock = [r \in Runs |-> 0]
    /\ job = [r \in Runs |-> "none"]
    /\ stalls = {}
    /\ exec = IdleExec

-----------------------------------------------------------------------------
(* Requests.                                                               *)

CreatePipeline(p) ==
    /\ p \notin pipelines
    /\ pipelines' = pipelines \cup {p}
    /\ UNCHANGED <<owner, status, step, at, clock, created, job, stalls, exec>>

\* The delete cascades to runs and steps; jobs and the worker are not told.
DeletePipeline(p) ==
    /\ p \in pipelines
    /\ pipelines' = pipelines \ {p}
    /\ status' = [r \in Runs |-> IF owner[r] = p THEN "ABSENT" ELSE status[r]]
    /\ step' = [r \in Runs |-> IF owner[r] = p THEN NoSteps ELSE step[r]]
    /\ at' = [r \in Runs |-> IF owner[r] = p THEN NoTimes ELSE at[r]]
    /\ clock' = [r \in Runs |-> IF owner[r] = p THEN 0 ELSE clock[r]]
    /\ UNCHANGED <<owner, created, job, stalls, exec>>

\* The run and its steps, written in one nested create.
NewRun(p, names) ==
    /\ created < MaxRuns
    /\ created' = created + 1
    /\ owner' = [owner EXCEPT ![created + 1] = p]
    /\ status' = [status EXCEPT ![created + 1] = "PENDING"]
    /\ step' = [step EXCEPT ![created + 1] =
                   [k \in StepNames |-> IF k \in names THEN "PENDING" ELSE "NONE"]]

\* From a user, a webhook or a scheduled job; buildMode, which can be edited
\* at any time, decides the steps.
TriggerRun(p) ==
    /\ p \in pipelines
    /\ \E names \in StepLists : NewRun(p, names)
    /\ job' = [job EXCEPT ![created + 1] = "adding"]
    /\ UNCHANGED <<pipelines, at, clock, stalls, exec>>

\* Any run can be rolled back; what was successful before is only copied.
RollbackRun(r) ==
    /\ status[r] # "ABSENT"
    /\ NewRun(owner[r], {"rollback"})
    /\ job' = [job EXCEPT ![created + 1] = "adding"]
    /\ UNCHANGED <<pipelines, at, clock, stalls, exec>>

Enqueue(r) ==
    /\ job[r] = "adding"
    /\ job' = [job EXCEPT ![r] = "waiting"]
    /\ UNCHANGED <<pipelines, owner, status, step, at, clock, created, stalls, exec>>

\* queue.add throws: the request fails, its rows stay.
EnqueueFails(r) ==
    /\ job[r] = "adding"
    /\ job' = [job EXCEPT ![r] = "lost"]
    /\ UNCHANGED <<pipelines, owner, status, step, at, clock, created, stalls, exec>>

-----------------------------------------------------------------------------
(* The worker.                                                             *)

\* process, and the read that executeRun starts with.  A run that is gone
\* completes its job; its status is not looked at.
TakeJob(r) ==
    /\ exec.pc = "idle"
    /\ job[r] = "waiting"
    /\ job' = [job EXCEPT ![r] = "active"]
    /\ exec' = [IdleExec EXCEPT
                  !.pc = IF status[r] = "ABSENT" THEN "done" ELSE "begin",
                  !.run = r,
                  !.todo = {k \in StepNames : step[r][k] # "NONE"},
                  !.pending = {k \in StepNames : step[r][k] = "PENDING"}]
    /\ UNCHANGED <<pipelines, owner, status, step, at, clock, created, stalls>>

\* An update by id of a deleted row throws: the job fails, nothing else moves.
ThrowIfGone(r) ==
    /\ status[r] = "ABSENT"
    /\ job' = [job EXCEPT ![r] = "failed"]
    /\ exec' = IdleExec
    /\ UNCHANGED <<status, step, at, clock>>

BeginRun ==
    /\ exec.pc = "begin"
    /\ \/ ThrowIfGone(exec.run)
       \/ /\ status[exec.run] # "ABSENT"
          /\ status' = [status EXCEPT ![exec.run] = "RUNNING"]
          /\ exec' = [exec EXCEPT !.pc = "next"]
          /\ UNCHANGED <<step, at, clock, job>>
    /\ UNCHANGED <<pipelines, owner, created, stalls>>

Position(k) == CASE k = "build" -> 1 [] k = "push" -> 2 [] k = "deploy" -> 3
                 [] k = "verify" -> 4 [] OTHER -> 5

\* The order of "orderBy: { startedAt: 'asc' }".
Before(r, k, l) ==
    \/ at[r][k] < at[r][l]
    \/ at[r][k] = at[r][l] /\ (StableTies => Position(k) <= Position(l))

\* The next step of the loop.  Steps still to do have the startedAt they had
\* when the rows were read, so comparing them now is the order read then.
StartStep(k) ==
    /\ exec.pc = "next"
    /\ k \in exec.todo
    /\ \A l \in exec.todo : Before(exec.run, k, l)
    /\ \/ ThrowIfGone(exec.run)
       \/ /\ status[exec.run] # "ABSENT"
          /\ step' = [step EXCEPT ![exec.run][k] = "RUNNING"]
          /\ at' = [at EXCEPT ![exec.run][k] = clock[exec.run] + 1]
          /\ clock' = [clock EXCEPT ![exec.run] = @ + 1]
          /\ exec' = [exec EXCEPT !.pc = "work", !.step = k, !.todo = @ \ {k}]
          /\ UNCHANGED <<status, job>>
    /\ UNCHANGED <<pipelines, owner, created, stalls>>

\* executeStep returns or throws, and the step is updated.
StepEnds ==
    /\ exec.pc = "work"
    /\ \/ ThrowIfGone(exec.run)
       \/ /\ status[exec.run] # "ABSENT"
          /\ \E s \in {"SUCCESS", "FAILED"} :
                /\ step' = [step EXCEPT ![exec.run][exec.step] = s]
                /\ exec' = [exec EXCEPT !.pc = IF s = "SUCCESS" THEN "next" ELSE "rest"]
          /\ UNCHANGED <<status, at, clock, job>>
    /\ UNCHANGED <<pipelines, owner, created, stalls>>

\* Mutant: the steps executed before the failure are reset to PENDING.
FailRestResets ==
    /\ exec.pc = "rest"
    /\ step' = [step EXCEPT ![exec.run] = [k \in StepNames |->
                   IF step[exec.run][k] # "NONE" THEN "PENDING" ELSE "NONE"]]
    /\ exec' = [exec EXCEPT !.pc = "fail"]
    /\ UNCHANGED <<pipelines, owner, status, at, clock, created, job, stalls>>

\* "Mark remaining steps FAILED": every other step that was PENDING when the
\* rows were read, the ones this call has executed included.
FailRest ==
    /\ exec.pc = "rest"
    /\ step' = [step EXCEPT ![exec.run] = [k \in StepNames |->
                   IF k \in exec.pending \ {exec.step} /\ step[exec.run][k] # "NONE"
                     THEN "FAILED" ELSE step[exec.run][k]]]
    /\ exec' = [exec EXCEPT !.pc = "fail"]
    /\ UNCHANGED <<pipelines, owner, status, at, clock, created, job, stalls>>

FailRun ==
    /\ exec.pc = "fail"
    /\ \/ ThrowIfGone(exec.run)
       \/ /\ status[exec.run] # "ABSENT"
          /\ status' = [status EXCEPT ![exec.run] = "FAILED"]
          /\ exec' = [exec EXCEPT !.pc = "done"]
          /\ UNCHANGED <<step, at, clock, job>>
    /\ UNCHANGED <<pipelines, owner, created, stalls>>

FinishRun ==
    /\ exec.pc = "next"
    /\ exec.todo = {}
    /\ \/ ThrowIfGone(exec.run)
       \/ /\ status[exec.run] # "ABSENT"
          /\ status' = [status EXCEPT ![exec.run] = "SUCCESS"]
          /\ exec' = [exec EXCEPT !.pc = "done"]
          /\ UNCHANGED <<step, at, clock, job>>
    /\ UNCHANGED <<pipelines, owner, created, stalls>>

CompleteJob ==
    /\ exec.pc = "done"
    /\ job' = [job EXCEPT ![exec.run] = "completed"]
    /\ exec' = IdleExec
    /\ UNCHANGED <<pipelines, owner, status, step, at, clock, created, stalls>>

-----------------------------------------------------------------------------
(* Crash and redelivery.                                                   *)

\* Requests and the worker's loop are lost; the active job keeps its place in
\* Redis until its lock expires.
CrashRestart ==
    /\ exec' = IdleExec
    /\ job' = [r \in Runs |-> IF job[r] = "adding" THEN "lost" ELSE job[r]]
    /\ UNCHANGED <<pipelines, owner, status, step, at, clock, created, stalls>>

Orphaned(r) == job[r] = "active" /\ (exec.pc = "idle" \/ exec.run # r)

\* Mutant: a job whose worker died is dropped.
StalledCheckDrops(r) ==
    /\ Orphaned(r)
    /\ stalls' = stalls \cup {r}
    /\ job' = [job EXCEPT ![r] = "failed"]
    /\ UNCHANGED <<pipelines, owner, status, step, at, clock, created, exec>>

\* BullMQ's stalled check: put back once, then given up.
StalledCheck(r) ==
    /\ Orphaned(r)
    /\ stalls' = stalls \cup {r}
    /\ job' = [job EXCEPT ![r] = IF r \in stalls THEN "lost" ELSE "waiting"]
    /\ UNCHANGED <<pipelines, owner, status, step, at, clock, created, exec>>

-----------------------------------------------------------------------------
Worker ==
    \/ \E r \in Runs : TakeJob(r)
    \/ BeginRun
    \/ \E k \in StepNames : StartStep(k)
    \/ StepEnds
    \/ FailRest
    \/ FailRun
    \/ FinishRun
    \/ CompleteJob

Next ==
    \/ \E p \in Pipelines : CreatePipeline(p)
    \/ \E p \in Pipelines : DeletePipeline(p)
    \/ \E p \in Pipelines : TriggerRun(p)
    \/ \E r \in Runs : RollbackRun(r)
    \/ \E r \in Runs : Enqueue(r)
    \/ \E r \in Runs : EnqueueFails(r)
    \/ \E r \in Runs : StalledCheck(r)
    \/ Worker
    \/ CrashRestart

\* The worker polls its queue, a step's command ends, queue.add answers, and
\* BullMQ repeats its stalled check; requests and crashes owe nothing.
Fairness ==
    /\ WF_vars(Worker)
    /\ \A r \in Runs : WF_vars(Enqueue(r) \/ EnqueueFails(r))
    /\ \A r \in Runs : WF_vars(StalledCheck(r))

Spec == Init /\ [][Next]_vars /\ Fairness

-----------------------------------------------------------------------------
(* Properties.                                                             *)

\* A run shown as SUCCESS has no step that is not SUCCESS, although a crash
\* may have it executed again, in another order, from any point of the loop.
SuccessIsComplete ==
    \A r \in Runs : status[r] = "SUCCESS" =>
        \A k \in StepNames : step[r][k] \in {"NONE", "SUCCESS"}

\* Nothing is executed after a step of the same call failed: when a command
\* runs, every other step this call has executed succeeded (executeRun's return
\* on failure), whatever an earlier, interrupted call left in the rows.
StopsAtFailure ==
    exec.pc = "work" /\ status[exec.run] # "ABSENT" =>
        \A k \in StepNames \ (exec.todo \cup {exec.step}) :
            step[exec.run][k] \in {"NONE", "SUCCESS"}

\* A command is executed a second time only when the worker died during the
\* first execution of the run: neither rollbacks nor several requests make a
\* run execute twice.
RerunOnlyAfterCrash ==
    [][\A r \in Runs, k \in StepNames :
          step'[r][k] = "RUNNING" /\ step[r][k] # "RUNNING" /\ step[r][k] # "PENDING"
              => r \in stalls]_vars

\* An unfinished run has a request or a job that will finish it, unless the
\* request died before queue.add or the worker died twice on it.
UnfinishedHasJob ==
    \A r \in Runs : status[r] \in {"PENDING", "RUNNING"} =>
        job[r] \in {"adding", "waiting", "active", "lost"}

\* Every run ends, even when the worker dies once in the middle of it.
EveryRunEnds ==
    \A r \in Runs : status[r] \in {"PENDING", "RUNNING"} ~>
        (status[r] \in {"SUCCESS", "FAILED", "ABSENT"} \/ job[r] = "lost")

\* The run history keeps its promises.
Ledger == INSTANCE RunLedger
            WITH Runs <- Runs, StepNames <- StepNames, status <- status, step <- step
LedgerSpec == Ledger!Spec

\* "Mark remaining steps FAILED" (pipeline.service.ts): a step that succeeded is
\* not a remaining one.
SuccessfulStepsKept ==
    [][\A r \in Runs, k \in StepNames :
          step[r][k] = "SUCCESS" => step'[r][k] # "FAILED"]_vars

\* build, push, deploy, verify (docs/ARCHITECTURE.md): a step runs when the
\* steps before it have succeeded.
StepsInOrder ==
    \A r \in Runs, k, l \in StepNames :
        step[r][l] = "RUNNING" /\ Position(k) < Position(l) => step[r][k] \in {"NONE", "SUCCESS"}

-----------------------------------------------------------------------------
(* The inductive invariant behind these properties.                        *)

\* Ids above created are unused, and a row that is gone has no steps.
RowInv ==
    \A r \in Runs :
        /\ r > created => status[r] = "ABSENT" /\ job[r] = "none"
        /\ status[r] = "ABSENT" => step[r] = NoSteps

\* The worker holds the job of the run it executes, and the place of executeRun
\* determines the status of the run, unless it was deleted.
WorkerInv ==
    exec.pc # "idle" =>
        /\ exec.run <= created
        /\ job[exec.run] = "active"
        /\ exec.pc \in {"next", "work", "rest", "fail"} => status[exec.run] \in {"RUNNING", "ABSENT"}
        /\ exec.pc = "done" => status[exec.run] \in {"SUCCESS", "FAILED", "ABSENT"}

\* What this call has executed and what it still has to execute.
ProgressInv ==
    exec.pc \in {"begin", "next", "work", "rest", "fail"} /\ status[exec.run] # "ABSENT" =>
        /\ \A k \in exec.todo : step[exec.run][k] # "NONE"
        /\ exec.pc \in {"begin", "next"} =>
              \A k \in StepNames \ exec.todo : step[exec.run][k] \in {"NONE", "SUCCESS"}
        /\ exec.pc = "work" =>
              /\ exec.step \notin exec.todo
              /\ step[exec.run][exec.step] # "NONE"
              /\ \A k \in StepNames \ (exec.todo \cup {exec.step}) :
                    step[exec.run][k] \in {"NONE", "SUCCESS"}
        /\ exec.pc \in {"rest", "fail"} => step[exec.run][exec.step] = "FAILED"

\* A run whose worker never died has executed a step at most once.
OnceInv ==
    /\ \A r \in Runs \ stalls : job[r] \in {"adding", "waiting"} =>
          \A k \in StepNames : step[r][k] \in {"NONE", "PENDING"}
    /\ exec.pc \in {"begin", "next", "work"} /\ exec.run \notin stalls =>
          \A k \in exec.todo : step[exec.run][k] \in {"NONE", "PENDING"}

RunInv == RowInv /\ WorkerInv /\ ProgressInv /\ OnceInv /\ SuccessIsComplete /\ UnfinishedHasJob

=============================================================================
