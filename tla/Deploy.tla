------------------------------- MODULE Deploy -------------------------------
(***************************************************************************)
(* Application deployments: ApplicationsService (applications.service.ts)  *)
(* and DeployService.runDeploy (deploy.service.ts).                        *)
(*                                                                         *)
(* AppVersion rows live in PostgreSQL; everything that finishes a version  *)
(* (the promise of runDeploy, its continuation that rolls back, a rollback *)
(* request between two awaits) lives only in the memory of the API         *)
(* process.  One action is the code between two awaits of a handler, so    *)
(* handlers interleave exactly where the event loop may interleave them.   *)
(*                                                                         *)
(* A row's id is its creation order: startedAt is set by the database on   *)
(* creation, and "latest" means the largest id.  Event emission, logs and  *)
(* the SSH key file are left out: no property here reads them.             *)
(***************************************************************************)
EXTENDS Naturals, FiniteSets

CONSTANTS
    Apps,           \* pm2Names an application can have
    DefaultApps,    \* the ones seedDefaultApps upserts at every start
    NoApp,          \* application of a row that was never created
    Users,          \* concurrent manual rollback requests
    Commits,        \* commit hashes a CI system records
    NoCommit,       \* commitHash = null
    RecordStatuses, \* statuses a CI record may carry
    MaxVersions     \* bound: AppVersion rows ever created

Ids == 1..MaxVersions
Callers == Ids \cup Users

ASSUME DeployAssumption ==
    /\ DefaultApps \subseteq Apps
    /\ NoApp \notin Apps
    /\ NoCommit \notin Commits
    /\ MaxVersions \in Nat
    /\ Users \cap Ids = {}
    /\ RecordStatuses \subseteq {"PENDING", "IN_PROGRESS", "SUCCESS", "FAILED", "ROLLED_BACK"}

VARIABLES
    cfg,      \* AppConfig rows: absent, without or with a deployCmd
    status,   \* AppVersion.status per id; ABSENT: not created or deleted
    meta,     \* the other columns of a version, constant once created
    created,  \* versions created so far
    task,     \* where the runDeploy promise of a version stands
    call,     \* rollback calls: auto-rollback of version c, or user c
    stranded  \* history: rows whose handler was lost before the end

vars == <<cfg, status, meta, created, task, call, stranded>>

DeployStatus == {"PENDING", "IN_PROGRESS", "SUCCESS", "FAILED", "ROLLED_BACK"}
RowStatus == DeployStatus \cup {"ABSENT"}
Outcomes == {"SUCCESS", "FAILED", "ROLLED_BACK"}
Origins == {"none", "deploy", "manual", "auto", "record"}
Rollbacks == {"manual", "auto"}
TaskState == {"none", "starting", "spawning", "running", "erred"}

\* target: the version a rollback returns to (its tag "rollback-to-...").
\* cause: the failed deploy an automatic rollback answers.
\* sane: the command text starts with the configured deployCmd.
Meta == [app: Apps \cup {NoApp}, by: Origins, commit: Commits \cup {NoCommit},
         target: 0..MaxVersions, cause: 0..MaxVersions, sane: BOOLEAN]
NoMeta == [app |-> NoApp, by |-> "none", commit |-> NoCommit,
           target |-> 0, cause |-> 0, sane |-> FALSE]

\* A triggerRollback call with what it captured before its current await.
Call == [pc: {"idle", "find", "check", "create", "mark"}, app: Apps \cup {NoApp},
         target: 0..MaxVersions, commit: Commits \cup {NoCommit},
         sane: BOOLEAN, new: 0..MaxVersions]
IdleCall == [pc |-> "idle", app |-> NoApp, target |-> 0, commit |-> NoCommit,
             sane |-> FALSE, new |-> 0]

TypeOK ==
    /\ cfg \in [Apps -> {"absent", "nocmd", "cmd"}]
    /\ status \in [Ids -> RowStatus]
    /\ meta \in [Ids -> Meta]
    /\ created \in 0..MaxVersions
    /\ task \in [Ids -> TaskState]
    /\ call \in [Callers -> Call]
    /\ \A c \in Callers :
          /\ call[c].pc \in {"check", "create", "mark"} => call[c].target # 0
          /\ call[c].pc = "mark" => call[c].new # 0
    /\ stranded \subseteq Ids

\* The state after the first seedDefaultApps: default apps have no deployCmd.
Init ==
    /\ cfg = [a \in Apps |-> IF a \in DefaultApps THEN "nocmd" ELSE "absent"]
    /\ status = [v \in Ids |-> "ABSENT"]
    /\ meta = [v \in Ids |-> NoMeta]
    /\ created = 0
    /\ task = [v \in Ids |-> "none"]
    /\ call = [c \in Callers |-> IdleCall]
    /\ stranded = {}

-----------------------------------------------------------------------------
(* Application records.                                                    *)

CreateApp(a) ==
    /\ cfg[a] = "absent"
    /\ \E c \in {"nocmd", "cmd"} : cfg' = [cfg EXCEPT ![a] = c]
    /\ UNCHANGED <<status, meta, created, task, call, stranded>>

UpdateApp(a) ==
    /\ cfg[a] # "absent"
    /\ \E c \in {"nocmd", "cmd"} : cfg' = [cfg EXCEPT ![a] = c]
    /\ UNCHANGED <<status, meta, created, task, call, stranded>>

\* Deleting an AppConfig cascades to its versions; handlers in flight stay.
RemoveApp(a) ==
    /\ cfg[a] # "absent"
    /\ cfg' = [cfg EXCEPT ![a] = "absent"]
    /\ status' = [v \in Ids |-> IF meta[v].app = a THEN "ABSENT" ELSE status[v]]
    /\ stranded' = {v \in stranded : meta[v].app # a}
    /\ UNCHANGED <<meta, created, task, call>>

-----------------------------------------------------------------------------
(* Process death and restart.                                              *)

Unsettled == {v \in Ids : /\ status[v] \in {"PENDING", "IN_PROGRESS"}
                          /\ meta[v].by # "record"}

\* The process ends and PM2 starts it again: every promise is gone, no code
\* looks at unfinished versions, and onModuleInit seeds the default apps.
ProcessDies ==
    /\ task' = [v \in Ids |-> "none"]
    /\ call' = [c \in Callers |-> IdleCall]
    /\ stranded' = stranded \cup Unsettled
    /\ cfg' = [a \in Apps |-> IF a \in DefaultApps /\ cfg[a] = "absent"
                                THEN "nocmd" ELSE cfg[a]]
    /\ UNCHANGED <<status, meta, created>>

CrashRestart == ProcessDies

-----------------------------------------------------------------------------
(* Creating versions.                                                      *)

NewVersion(m, s) ==
    /\ created < MaxVersions
    /\ created' = created + 1
    /\ status' = [status EXCEPT ![created + 1] = s]
    /\ meta' = [meta EXCEPT ![created + 1] = m]

\* triggerDeploy up to the first await of runDeploy.
TriggerDeploy(a) ==
    /\ cfg[a] = "cmd"
    /\ NewVersion([NoMeta EXCEPT !.app = a, !.by = "deploy", !.sane = TRUE], "PENDING")
    /\ task' = [task EXCEPT ![created + 1] = "starting"]
    /\ UNCHANGED <<cfg, call, stranded>>

\* handleWebhook and recordCIDeploy insert a finished version.
RecordDeploy(a) ==
    /\ cfg[a] # "absent"
    /\ \E s \in RecordStatuses, c \in Commits \cup {NoCommit} :
          NewVersion([NoMeta EXCEPT !.app = a, !.by = "record", !.commit = c], s)
    /\ UNCHANGED <<cfg, task, call, stranded>>

-----------------------------------------------------------------------------
(* runDeploy.                                                              *)

\* The first update.  On a deleted row it rejects; ".catch(() => {})" drops
\* the error and with it the continuation.
StartDeploy(v) ==
    /\ task[v] = "starting"
    /\ IF status[v] = "ABSENT"
         THEN /\ task' = [task EXCEPT ![v] = "none"]
              /\ UNCHANGED status
         ELSE /\ task' = [task EXCEPT ![v] = "spawning"]
              /\ status' = [status EXCEPT ![v] = "IN_PROGRESS"]
    /\ UNCHANGED <<cfg, meta, created, call, stranded>>

Spawn(v) ==
    /\ task[v] = "spawning"
    /\ task' = [task EXCEPT ![v] = "running"]
    /\ UNCHANGED <<cfg, status, meta, created, call, stranded>>

\* Mutant: runDeploy itself rolls back, whoever started it.
AfterResolveAny(v, outcome) ==
    IF outcome = "FAILED"
      THEN [call EXCEPT ![v] = [IdleCall EXCEPT !.pc = "find", !.app = meta[v].app]]
      ELSE call

\* The promise resolves: only triggerDeploy attached a ".then" to it.
AfterResolve(v, outcome) ==
    IF outcome = "FAILED" /\ meta[v].by = "deploy"
      THEN [call EXCEPT ![v] = [IdleCall EXCEPT !.pc = "find", !.app = meta[v].app]]
      ELSE call

\* An awaited update inside an event handler or an async promise executor:
\* if the row is gone the rejection has no handler and ends the process.
Finish(v, outcome, next) ==
    IF status[v] = "ABSENT"
      THEN ProcessDies
      ELSE /\ status' = [status EXCEPT ![v] = outcome]
           /\ task' = [task EXCEPT ![v] = next]
           /\ call' = AfterResolve(v, outcome)
           /\ UNCHANGED <<cfg, meta, created, stranded>>

\* Mutant: the error ends the promise without writing the row.
SpawnFailsSilently(v) ==
    /\ task[v] = "spawning"
    /\ task' = [task EXCEPT ![v] = "none"]
    /\ UNCHANGED <<cfg, status, meta, created, call, stranded>>

\* The server or its key cannot be read, or spawn throws.
SpawnFails(v) ==
    /\ task[v] = "spawning"
    /\ Finish(v, "FAILED", "none")

\* 'close': the exit code decides.
Close(v) ==
    /\ task[v] = "running"
    /\ \E outcome \in {"SUCCESS", "FAILED"} :
          /\ outcome = "SUCCESS" => meta[v].sane
          /\ Finish(v, outcome, "none")

\* 'error' when the shell cannot be started; Node emits 'close' after it.
ChildError(v) ==
    /\ task[v] = "running"
    /\ Finish(v, "FAILED", "erred")

\* The 'close' that follows: the row is written again, the promise is settled.
CloseAfterError(v) ==
    /\ task[v] = "erred"
    /\ IF status[v] = "ABSENT"
         THEN ProcessDies
         ELSE /\ status' = [status EXCEPT ![v] = "FAILED"]
              /\ task' = [task EXCEPT ![v] = "none"]
              /\ UNCHANGED <<cfg, meta, created, call, stranded>>

-----------------------------------------------------------------------------
(* Rollbacks.                                                              *)

Succeeded(a) == {w \in Ids : meta[w].app = a /\ status[w] = "SUCCESS"}

\* The continuation of a failed deploy looks for the latest SUCCESS version.
FindLastSuccess(v) ==
    /\ call[v].pc = "find"
    /\ LET S == Succeeded(meta[v].app)
       IN \/ /\ S = {}
             /\ call' = [call EXCEPT ![v] = IdleCall]
          \/ \E w \in S :
                /\ \A x \in S : x <= w
                /\ call' = [call EXCEPT ![v].pc = "check", ![v].target = w]
    /\ UNCHANGED <<cfg, status, meta, created, task, stranded>>

\* Mutant: any version of the application can be rolled back to.
RollbackAllowedAny(a, t) ==
    /\ cfg[a] # "absent"
    /\ meta[t].app = a
    /\ status[t] # "ABSENT"
    /\ meta[t].commit # NoCommit \/ cfg[a] = "cmd"

\* "null --ref=<hash>" is a non-empty string: the "no deploy command" check
\* refuses only a target without a commit.
RollbackAllowed(a, t) ==
    /\ cfg[a] # "absent"
    /\ meta[t].app = a
    /\ status[t] = "SUCCESS"
    /\ meta[t].commit # NoCommit \/ cfg[a] = "cmd"

Captured(a, t) ==
    [IdleCall EXCEPT !.pc = "create", !.app = a, !.target = t,
                     !.commit = meta[t].commit, !.sane = cfg[a] = "cmd"]

\* A user's request: the reads of the application and of the target are taken
\* as one, and a refused request changes nothing.
RequestRollback(u, a, t) ==
    /\ call[u].pc = "idle"
    /\ RollbackAllowed(a, t)
    /\ call' = [call EXCEPT ![u] = Captured(a, t)]
    /\ UNCHANGED <<cfg, status, meta, created, task, stranded>>

\* The automatic rollback reads its target again; NotFound is only logged.
CheckTarget(v) ==
    /\ call[v].pc = "check"
    /\ LET a == call[v].app
           t == call[v].target
       IN call' = [call EXCEPT ![v] =
                     IF RollbackAllowed(a, t) THEN Captured(a, t) ELSE IdleCall]
    /\ UNCHANGED <<cfg, status, meta, created, task, stranded>>

RollbackMeta(c) ==
    [app |-> call[c].app, by |-> IF c \in Ids THEN "auto" ELSE "manual",
     commit |-> call[c].commit, target |-> call[c].target,
     cause |-> IF c \in Ids THEN c ELSE 0, sane |-> call[c].sane]

\* The new row references the AppConfig: without it the insert is refused.
CreateRollback(c) ==
    /\ call[c].pc = "create"
    /\ IF cfg[call[c].app] = "absent"
         THEN /\ call' = [call EXCEPT ![c] = IdleCall]
              /\ UNCHANGED <<status, meta, created>>
         ELSE /\ NewVersion(RollbackMeta(c), "PENDING")
              /\ call' = [call EXCEPT ![c].pc = "mark", ![c].new = created + 1]
    /\ UNCHANGED <<cfg, task, stranded>>

\* Mutant: the target is only marked once the rollback has succeeded.
MarkTargetLater(c) ==
    /\ call[c].pc = "mark"
    /\ task' = [task EXCEPT ![call[c].new] = "starting"]
    /\ call' = [call EXCEPT ![c] = IdleCall]
    /\ UNCHANGED <<cfg, status, meta, created, stranded>>

\* Mutant: a target that is no longer SUCCESS ends the call.
MarkTargetOnce(c) ==
    /\ call[c].pc = "mark"
    /\ LET t == call[c].target
           n == call[c].new
       IN IF status[t] # "SUCCESS"
            THEN UNCHANGED <<status, task>>
            ELSE /\ status' = [status EXCEPT ![t] = "ROLLED_BACK"]
                 /\ task' = [task EXCEPT ![n] = "starting"]
    /\ call' = [call EXCEPT ![c] = IdleCall]
    /\ UNCHANGED <<cfg, meta, created, stranded>>

\* The target is marked, then runDeploy starts.  If the target was deleted
\* the update throws and the row just created is never run.
MarkTarget(c) ==
    /\ call[c].pc = "mark"
    /\ LET t == call[c].target
           n == call[c].new
       IN IF status[t] = "ABSENT"
            THEN /\ stranded' = stranded \cup {n}
                 /\ UNCHANGED <<status, task>>
            ELSE /\ status' = [status EXCEPT ![t] = "ROLLED_BACK"]
                 /\ task' = [task EXCEPT ![n] = "starting"]
                 /\ UNCHANGED stranded
    /\ call' = [call EXCEPT ![c] = IdleCall]
    /\ UNCHANGED <<cfg, meta, created>>

-----------------------------------------------------------------------------
TaskStep(v) ==
    \/ StartDeploy(v)
    \/ Spawn(v)
    \/ SpawnFails(v)
    \/ Close(v)
    \/ ChildError(v)
    \/ CloseAfterError(v)

AutoStep(v) ==
    \/ FindLastSuccess(v)
    \/ CheckTarget(v)

CallStep(c) ==
    \/ CreateRollback(c)
    \/ MarkTarget(c)

Next ==
    \/ \E a \in Apps : CreateApp(a)
    \/ \E a \in Apps : UpdateApp(a)
    \/ \E a \in Apps : RemoveApp(a)
    \/ \E a \in Apps : TriggerDeploy(a)
    \/ \E a \in Apps : RecordDeploy(a)
    \/ \E v \in Ids : TaskStep(v)
    \/ \E v \in Ids : AutoStep(v)
    \/ \E u \in Users, a \in Apps, t \in Ids : RequestRollback(u, a, t)
    \/ \E c \in Callers : CallStep(c)
    \/ CrashRestart

\* The event loop runs every pending continuation, and every deploy command
\* is assumed to end; requests and crashes owe nothing.
Fairness ==
    /\ \A v \in Ids : WF_vars(TaskStep(v))
    /\ \A v \in Ids : WF_vars(AutoStep(v))
    /\ \A c \in Callers : WF_vars(CallStep(c))

Spec == Init /\ [][Next]_vars /\ Fairness

-----------------------------------------------------------------------------
(* Properties.                                                             *)

\* A version's outcome is never rewritten, although four handlers update rows
\* by id without looking at their status: a failed or rolled back version
\* keeps its status, a successful one can only become ROLLED_BACK, and a row
\* that was deleted never comes back (runDeploy's late writes, triggerRollback).
LegalStatusChange(v) ==
    LET s == status[v]
        t == status'[v]
    IN \/ t = s
       \/ t = "ABSENT"
       \/ s = "ABSENT" /\ v = created + 1
       \/ s = "PENDING" /\ t = "IN_PROGRESS"
       \/ s = "IN_PROGRESS" /\ t \in {"SUCCESS", "FAILED"}
       \/ s = "SUCCESS" /\ t = "ROLLED_BACK"

OutcomeFinal == [][\A v \in Ids : LegalStatusChange(v)]_vars

\* Once a rollback has started to run, the version it returns to can no longer
\* be chosen as a target: concurrent rollbacks, whoever asked for them, leave
\* no running rollback whose target still counts as the current version.
RollbackConsumesTarget ==
    \A v \in Ids :
        meta[v].by \in Rollbacks /\ status[v] \in {"IN_PROGRESS", "SUCCESS", "FAILED", "ROLLED_BACK"}
            => status[meta[v].target] \in {"ROLLED_BACK", "ABSENT"}

\* A failure is answered at most once, and only the failure of a deploy a user
\* triggered: a rollback that fails never asks for another one (no rollback
\* loop), and 'error' followed by 'close' does not roll back twice.
OneRollbackPerFailure ==
    \A v \in Ids :
        /\ call[v].pc # "idle" => meta[v].by = "deploy"
        /\ meta[v].by = "auto" =>
              /\ meta[meta[v].cause].by = "deploy"
              /\ status[meta[v].cause] \in {"FAILED", "ABSENT"}
              /\ \A w \in Ids : meta[w].by = "auto" /\ meta[w].cause = meta[v].cause => w = v

\* Short of a crash, or of a rollback whose target was deleted under it, every
\* unfinished version has a handler in memory that will finish it.
UnfinishedIsOwned ==
    \A v \in Unsettled \ stranded :
        \/ task[v] # "none"
        \/ \E c \in Callers : call[c].pc = "mark" /\ call[c].new = v

-----------------------------------------------------------------------------
(* The inductive invariant behind these properties.                        *)

\* Ids above created have never been used by anyone.
FreshInv ==
    \A v \in Ids : v > created =>
        status[v] = "ABSENT" /\ meta[v] = NoMeta /\ task[v] = "none" /\ call[v] = IdleCall

\* A version has one writer at a time, and the place of runDeploy determines
\* the status its row has, unless the row was deleted.
TaskInv ==
    \A v \in Ids :
        /\ task[v] = "starting" => status[v] \in {"PENDING", "ABSENT"}
        /\ task[v] \in {"spawning", "running"} => status[v] \in {"IN_PROGRESS", "ABSENT"}
        /\ task[v] = "erred" => status[v] \in {"FAILED", "ABSENT"}

\* A rollback call past its check has a target that was successful and can
\* since only have been rolled back or deleted.
TargetInv ==
    \A c \in Callers :
        call[c].pc \in {"create", "mark"} =>
            /\ call[c].target <= created
            /\ status[call[c].target] \in {"SUCCESS", "ROLLED_BACK", "ABSENT"}

\* The row a rollback call has just created waits for that call alone.
NewInv ==
    \A c \in Callers :
        call[c].pc = "mark" =>
            LET n == call[c].new
            IN /\ n <= created
               /\ status[n] \in {"PENDING", "ABSENT"}
               /\ task[n] = "none"
               /\ meta[n].by \in Rollbacks
               /\ meta[n].target = call[c].target
               /\ \A d \in Callers : call[d].pc = "mark" /\ call[d].new = n => d = c

\* A rollback version whose handler runs or has run had its target marked.
MarkedInv ==
    \A v \in Ids :
        meta[v].by \in Rollbacks =>
            /\ meta[v].target \in 1..created
            /\ task[v] # "none" \/ status[v] \notin {"PENDING", "ABSENT"}
                  => status[meta[v].target] \in {"ROLLED_BACK", "ABSENT"}

\* The automatic rollback call of version v belongs to a failed deploy whose
\* promise has resolved.
AutoInv ==
    \A v \in Ids : call[v].pc # "idle" =>
        /\ meta[v].by = "deploy"
        /\ status[v] \in {"FAILED", "ABSENT"}
        /\ task[v] \in {"none", "erred"}

\* A failure that was answered is not answered again.
CauseInv ==
    \A v \in Ids : meta[v].by = "auto" =>
        LET c == meta[v].cause
        IN /\ c \in 1..created
           /\ meta[c].by = "deploy"
           /\ status[c] \in {"FAILED", "ABSENT"}
           /\ task[c] \in {"none", "erred"}
           /\ call[c].pc \in {"idle", "mark"}
           /\ \A w \in Ids : meta[w].by = "auto" /\ meta[w].cause = c => w = v

HandlerInv == FreshInv /\ TaskInv /\ TargetInv /\ NewInv /\ MarkedInv /\ AutoInv /\ CauseInv

\* Every version triggerDeploy or triggerRollback created ends with an outcome,
\* unless its row is deleted or its handler is lost.
EveryDeploySettles ==
    \A v \in Ids : v \in Unsettled ~> (v \notin Unsettled \/ v \in stranded)

\* "Auto-rollback to the latest successful version" (applications.service.ts):
\* when nothing else is in progress, the automatic rollback gives up only if no
\* version of the application has been successful since it was registered.
QuietExcept(v) ==
    /\ \A w \in Ids : task[w] = "none"
    /\ \A c \in Callers \ {v} : call[c].pc = "idle"
    /\ stranded = {}

RollbackWhenEverSucceeded ==
    [][\A v \in Ids : FindLastSuccess(v) /\ QuietExcept(v) /\ call'[v].pc = "idle"
          => \A w \in Ids : meta[w].app = meta[v].app => status[w] # "ROLLED_BACK"]_vars

=============================================================================
