# Hamyar Ops in TLA+

Hamyar Ops is a control panel for servers: a NestJS API (`apps/ops-api`), a Next.js
front end (`apps/ops-ui`) and shared types (`packages/shared`).  The API keeps rows in
PostgreSQL through Prisma, jobs in Redis through BullMQ, and a good deal of state only in
the memory of its one process: promises of deployments, ssh sessions, docker streams.
None of it has tests.  This directory models the parts where those three kinds of state
have to agree, checks the models with TLC and proves their main properties with TLAPS.

Paths below are relative to `apps/ops-api/src/modules/` unless they say otherwise.

## 1. The system

One Node process serves requests, runs the BullMQ workers and spawns commands.  PM2
restarts it when it ends.  Concurrency is that of the event loop: a handler is
interrupted exactly at its `await`s, so the code between two awaits is atomic and
everything else interleaves.  Database rows and Redis jobs survive a crash; promises,
child process handles, maps and timers do not.  There are no transactions across the
two stores, and hardly any within PostgreSQL.

| Component | State | Operations | Talks to |
|---|---|---|---|
| Application deployments (`applications/`) | `AppConfig`, `AppVersion` rows; promises of `runDeploy` and of rollback calls | create, update, remove an application; deploy, roll back, record a CI deploy | child processes, event bus |
| Pipelines (`pipeline/`) | `Pipeline`, `PipelineRun`, `PipelineStep` rows; queue `pipeline`; the worker's loop | create, delete, enable; trigger, roll back, execute a run | docker, pm2, nginx, remote servers |
| Application schedules (`scheduler/`) | `AppSchedule` rows; repeatable jobs of `app-scheduler` | create, update, delete; registration at start | pm2, docker |
| Backup strategies (`backups/backup-strategy.*`) | `BackupStrategy` rows; repeatable jobs | create, update, delete; registration at start | backups |
| Backups (`backups/backups.service.ts`) | `BackupRecord` rows, local files, S3 objects | ad hoc, strategy and full backup, restore, delete, retention, expiry | pg_dump, tar, S3 |
| Health and incidents (`app-health/`) | counters in Redis with expiry, `Incident` rows | probe | repeatable job every few seconds |
| Alerts (`monitoring/`) | `AlertRule`, `AlertEvent` rows | evaluate | repeatable job |
| Terminal (`terminal/`) | map of ssh sessions, map of owners | open, write, resize, disconnect | ssh2 |
| Event subscriptions (`gateways/`, `docker/`) | map of unsubscribers, map of shared docker streams | subscribe, unsubscribe, disconnect | dockerode |
| Cron jobs (`cron-jobs/`) | `CronJob` rows, repeatable jobs, remote crontabs | create, update, toggle, delete, run | ssh |
| Terraform, Ansible (`terraform/`, `ansible/`) | run rows, queue jobs, working directories | create, run, delete | binaries |
| Registry (`registry/`) | build records in a map, registry rows | build, push, tag | docker |
| Supervisor (`supervisor/`) | rules with last status | check one, check all | ssh, systemctl |
| Multi-server (`multi-server/`) | servers, keys, temporary key files | execute | ssh |
| Authentication (`auth/`, `users/`) | users, refresh tokens, backup codes | login, refresh, 2FA | |
| Error logs, analytics | deduplicated rows, hourly aggregates | ingest, aggregate | log files |
| nginx, firewall, ssh access, server configuration | files of the operating system | edit and reload | commands |
| views (network, server, status, logs, observability, databases), files, secrets, GitHub | none, or a single row | | |

How they interact: pipelines, schedules and supervisor call the pm2 and docker services;
removing an application cascades in the schema to its versions and schedules;
`BackupStrategyService` owns the timing and `BackupsService` the work; everything that
happens is announced on an in-process event bus which only the gateway listens to.

### What is hard, and what makes each component correct

* **Two stores, no transaction.**  Pipelines, Terraform, Ansible write a row and then add
  a job; schedules, strategies and cron jobs keep a row and a repeatable job equal by
  hand.  Correct means: no unfinished row without a job, no enabled row that does not
  fire, nothing that fires without its row.
* **Handlers that outlive what they read.**  A deploy ends minutes after it started and
  writes its row by id; rollbacks, deletions and other deploys have happened since.
  Correct means: an outcome is never rewritten, a target is consumed once.
* **Crash and redelivery.**  BullMQ gives a job of a dead worker back, and no processor
  looks at how far the first execution came.  Correct means: a redelivered run ends with
  a history that is true.
* **Resources.**  Files and S3 objects against records; ssh sessions and docker streams
  against the sockets that asked for them.  Correct means: each has an owner that will
  release it.
* **Counters with expiry.**  Incidents and alerts fire on exact counts and on the absence
  of an unresolved event.  Correct means: an outage becomes an incident, once.

`PROJECT.json` lists the single hazards with their lines.

## 2. Modules

| Module | What it is |
|---|---|
| `Deploy` | deployments and rollbacks |
| `DeployProofs` | its theorems |
| `MCDeploy` | its instance for TLC |
| `RunLedger` | what a history of runs and steps promises (abstract) |
| `Pipeline` | runs over the queue and the worker; implements `RunLedger` |
| `PipelineProofs` | its theorems, the refinement among them |
| `MCPipeline` | its instance for TLC |
| `Schedules` | application schedules and backup strategies against the queue |
| `SchedulesProofs` | its theorems, and those of `CronJobs` |
| `MCSchedules` | its instance for TLC |
| `Backups` | records, local archives and S3 objects of backups |
| `BackupsProofs` | its theorems |
| `MCBackups` | its instance for TLC |
| `Host` | processes that are well, hung or stopped, and the budget of outages, crashes and edits |
| `HealthIncidents`, `Alerts`, `Supervisor` | the jobs of three queues over `Host`: probes and incidents, alert rules, restarts |
| `Monitoring` | the three of them composed in one process |
| `MonitoringProofs`, `MCMonitoring` | theorems; instance |
| `Terminal` | interactive shells: browser tabs, sockets, gateway, ssh |
| `TerminalProofs`, `MCTerminal` | theorems, also those of `Subscriptions`; instance |
| `JobLedger` | what the lists of terraform runs, ansible jobs and builds promise (abstract) |
| `Jobs` | the three over their queues; implements `JobLedger` |
| `JobsProofs`, `MCJobs` | theorems, the refinement among them; instance |
| `CronJobs`, `MCCronJobs` | rows, repeatable jobs and crontabs; instance |
| `Subscriptions`, `MCSubscriptions` | docker streams and log callbacks of sockets; instance |
| `RemoteKeys` | key files of commands on managed servers |
| `RemoteKeysProofs`, `MCRemoteKeys` | theorems; instance |

In all of them one action is the code between two awaits, a "call" or "exec" record is the
stack frame that waits (its `pc` names the next await's continuation, its other fields
are the local variables that the continuation uses), and a history variable, marked so
where it is declared, records what a property has to know of the past.  Where an update by
id meets a row that was deleted, Prisma rejects, and the model follows the rejection to
the handler that catches it, or to the end of the process where there is none.

### Deploy

`cfg` is the `AppConfig` row (with or without `deployCmd`), `status` and `meta` are
`AppVersion`, `task[v]` is where the promise of `runDeploy` for version `v` stands, and
`call[c]` is a call of `triggerRollback`: of a user, or of the continuation that
`triggerDeploy` hangs on a failed deploy (`call[v]`, for version `v`).  `TriggerDeploy`,
`StartDeploy`, `Spawn`, `SpawnFails`, `Close`, `ChildError`, `CloseAfterError` follow
`runDeploy`; `FindLastSuccess`, `CheckTarget`, `CreateRollback`, `MarkTarget` follow the
rollback with an await between each two.  `Finish` is the update that ends a version: if
the row is gone the rejection has no handler and the process ends (`ProcessDies`).
The mapping of `startedAt` to the order of creation is exact, since the database sets it.

Properties: `RollbackConsumesTarget`, `OneRollbackPerFailure`, `UnfinishedIsOwned`,
`OutcomeFinal`, `EveryDeploySettles`; and `RollbackWhenEverSucceeded`, which the comment
"Auto-rollback to the latest successful version" suggests and the code violates.
The last one is about a deploy that fails while nothing else happens (`QuietExcept`): the
automatic rollback may then give up only if nothing was ever successful.

CI may record any status of the enum (`RecordStatuses`).  The run uses
SUCCESS, what the webhook writes, and IN_PROGRESS,
which nobody ever changes: `Unsettled` therefore leaves CI records out.

### Pipeline and RunLedger

`owner`, `status`, `step`, `at` are the rows, `job[r]` is the BullMQ job of a run, `exec` is
the call of `executeRun` in the worker.  `todo` and `pending` in `exec` are what the call
knows from the rows it read at its start, and drive the loop (`StartStep`) and "Mark
remaining steps FAILED" (`FailRest`).  The queue is external: one job at a time, `attempts`
1, and a job of a dead worker is put back once (`StalledCheck`).  `at` counts step starts:
all that matters of `startedAt` is its order.  Steps written in one nested create have
equal times; `StableTies` says whether the database then returns them in creation order.
The runs take TRUE, which is what PostgreSQL does on a fresh table and the best case; the
theorems hold for both.

`RunLedger` knows nothing of jobs, workers or orders.  It has a status per run and per
step, and says which changes the history shown to users may make: steps change only
while the run is RUNNING, SUCCESS needs every step SUCCESS, FAILED needs a failed one.
`Pipeline` implements it with the identity mapping (`LedgerSpec`): redelivery is a `Begin`
of the same run, and a worker that meets a deleted run changes nothing.

### Schedules

`state` and `cron` are the rows, `repeat` the repeatable jobs, `call[c]` a request.  Both
services have the same shape: create writes and registers; update looks for the old job,
writes the row, registers it if enabled; delete looks for the job and deletes the row.  The
search compares `j.id` with the `jobId` that was given to `add`; `getRepeatableJobs` of
bullmq 5.79.2, which the lock file fixes, lists no such id, so it finds nothing and is no
step of the model.  The services differ in that `updateSchedule` first looks at the row
(guard of `RequestUpdate`).
`Restart` is `onModuleInit` of both services; it runs before requests are served and its
calls to the queue are idempotent, so it is one action.  `BootFails` is a start that meets
a pattern that cannot be parsed.

Properties: `EnabledIsScheduled` and `EventuallyScheduled`, that what should fire does.  The
opposite, that what should not fire does not (`DeletedIsUnscheduled`), is what the user
interface promises and the code does not keep; section 6 tells more.

### Backups

`rec` are the `BackupRecord` rows, `file` the archives in `BACKUPS_DIR`, `obj` the objects in
S3 with the configuration they were stored under, `strat` the one strategy (its row,
storage, configuration and limit) and `configs` the `S3Config` rows.  `exec[b]` is the call of
`executeBackup` or `executeFullBackup` for backup `b`: dump, read the strategy, upload,
retention, write.  Both functions have the same steps, so they share the actions; `kind`
says which are skipped.  `del[d]` is a call of `deleteRecord`, by a user or (`Worker`) by
`enforceRetention`.  `work` is the job in the worker of queue `backup-strategy`: the loop over
the targets of a strategy, or `cleanupExpiredLocal`.  BullMQ runs one job at a time, ad hoc
and full backups run beside it without limit.

S3 is external and may fail at any call, or fail after it took effect; the disk and
`fs` calls between two awaits are one action with the code around them.  Age is a set:
`old` are the backups past the TTL, and a backup is assumed to be over before the TTL
(`GrowOld`), which is 24 hours.  `past` is a history variable: who deleted the row, or
whether a crash interrupted the backup or the deletion.

Properties: `SuccessHasArchive`, `RetentionKeepsNewest`, `RetentionCatchesUp`,
`EveryBackupEnds`, `LocalFilesExpire`, and three that the documentation states and the code
does not keep: `SuccessIsRestorable`, `KeepsLastN` and `RecordsExpire` (stated for the
reader, not in a run: section 6 tells why they fail).

### Monitoring

`Host` has what probes, alert rules and the supervisor share: `proc`, and `faults`, the budget
of misfortunes.  A process may be stopped, or hang: the probes see whether it answers its
URL (`Answers`), the supervisor whether it runs (`Runs`).  `HealthIncidents` follows `HealthProbeProcessor` application by application:
store the counter (`ProbeApp`), push the sample, `trackIncident` with its `findFirst`, then
`create` or `resolve` and the event, each behind an await.  The counter is counted to 4
since the code compares with 0 and 3 only.  `Alerts` is the evaluation of rules over the
latest sample, `Supervisor` the check and the restart, by the minute (`Timer`) or on request.
`Monitoring` composes them by interleaving; they meet in `proc`, in the samples and in the
crash, which takes all three workers at once.

`IncidentNeedsThree` compares the incident with `streak`, a history of the failures since the
last success, which unlike the counter in Redis knows nothing of expiry.  The counter
outlives the process and the row, so a crash, a pause or a new application of the same name
may lie between the three; the property does not say otherwise.  `RestartIsNeeded` excuses
the checks in `shared`, which met another check of the application or somebody who started
it.  `SupervisedSettles` excuses a process that hangs, and `AlertFires` is about a first
event: the promises of the documentation that go further are `OutageGetsIncident` and
`EveryOutageAlerts`, and both fail.

### Terminal

A socket and the session it asks for share a number.  `tab` is the React component, `inbox`
the messages on the way to a client, `pty` the shell, and `sessions`, `children`, `owned` the
maps of the gateway.  An acknowledgement is a message like the others, so output can be
there before it.  `late` records the shells that opened after `handleDisconnect`.  A refused
container (`Connect`) leaves nothing but the id in `owned`, since `handleCreate` throws outside
its try block; `ApiDies` is any end of the API, that of a docker child which cannot be
started among them.

### Jobs and JobLedger

Terraform runs, ansible jobs and builds have one shape: an entry, a job in the queue of the
kind, an execution.  They differ in where the entry lives (a row, or a `Map` that a crash
empties), what is read first, and what is removed with the owner; `kind` selects.  Each
queue works as in `Pipeline`.  `work` records how the command of the last execution really
ended, `files` the ansible jobs with a private key in the temporary directory and `listed` the
executions that have noted theirs (`tempFiles`) and will remove it; `dirs` are the directories
of workspaces.  A directory is known by the name of its workspace, so a new workspace can
meet the removal of an old one; and its own creation may fail or die between row and
directory (`MakeDirFails`).  `upset` has the workspaces of both kinds.  `JobLedger` knows statuses and the
jobs that were given back; `Jobs` implements it with `row` and `stalls`.

### CronJobs

`request[u]` is a request: the list of operations it has still to do, as `update` puts it
together (`Plan`): change queue or crontab, then `save`.  A crontab `tab[s]` has the lines of all
jobs of its server.  `append` and `clear` take two steps, as the pipeline of shell commands
does: `ReadTab` reads all of it, `WriteTab` writes back what was read with the lines of one job
changed, whatever happened to the others meanwhile.  `SkipClear` is the early return for a
server that is gone.  `removeQueueJob` finds nothing, as in `Schedules`, and logs its errors:
it is no step.  `Throw` ends a request at any operation, and a command that ssh has started
may go on without it (`Abandon`).  `overlap` has the jobs with two requests at a time,
`crowded` the servers on which two commands met, `failed` the jobs with a request that ended early.

### Subscriptions

`subscribeToStats` looks at the map of streams, opens one with an await and stores it.
`sub` numbers the subscriptions; `unsub` is what the gateway keeps under client and topic;
`slipped` and `overlapped` name the callbacks and containers for which the code gives no
guarantee (a failed open, a second subscription, two opens at once).

### RemoteKeys

`exec[i]` is a call of `getRemoteMetrics` or `executeRemoteCommand`; `file` are the files of
the temporary directory, named by the millisecond `now`.  `StartAll` is `getAllRemoteMetrics`.
Rows change under the executions; `dropping` are the calls of `deleteSshKey` between
their look and their delete.  `MetricsArrive` ends in the catch block, always: the script that
asks for metrics loses its quotes on the way, and its answer is no JSON (section 6).

## 3. Runs

Every run is in `PROJECT.json`; each ends within three minutes with two workers.

| Run | Bounds | Properties | What it shows |
|---|---|---|---|
| `deploy` | 1 application, 3 versions, 2 users, CI records | `RollbackConsumesTarget`, `OneRollbackPerFailure`, `UnfinishedIsOwned`, `OutcomeFinal`, `EveryDeploySettles` | outcomes are final, rollbacks do not loop, what starts settles |
| `pipeline` | 1 pipeline, 2 runs, both step lists | `UnfinishedHasJob`, `LedgerSpec`, `EveryRunEnds` | the history refines `RunLedger`, and ends |
| `schedules` | 1 application schedule, 1 strategy, 2 good patterns and a bad one, 2 requests | `EnabledIsScheduled`, `EventuallyScheduled` | what is enabled is in the queue when nobody is at work, and after a restart |
| `backups` | 3 backups of a strategy with 2 targets, limits 0 and 1, 1 user | `RetentionKeepsNewest`, `RetentionCatchesUp` | retention takes the oldest, and enough |
| `backups_live` | 1 backup of any kind, 1 configuration, 1 user, 1 crash | `SuccessHasArchive`, `EveryBackupEnds`, `LocalFilesExpire` | records and archives, with S3 and a crash |
| `monitoring` | 1 application, 1 request, 2 misfortunes | `OneOpenIncident`, `RestartIsNeeded`, `IncidentNeedsThree`, `RecoveryShown`, `AlertFires`, `SupervisedSettles` | probes, alerts and supervisor together |
| `outage_without_incident` | as `monitoring`, no request | `OutageGetsIncident` | violated, see section 6 |
| `terminal` | 1 tab, 3 connections | `StrayNeedsRace`, `LeftShellsEnd`, `ClientLearnsSession` | shells end with their browsers |
| `jobs` | 2 entries of any kind, 1 workspace, 1 playbook | `ResultIsTrue`, `KeyFilesGo`, `WorkspaceHasDir`, `LedgerSpec`, `EveryJobEnds` | the lists tell what happened, and implement `JobLedger` |
| `cron` | 2 cron jobs, 2 patterns, 1 server, 2 requests at a time and 5 in all | `CronTypeOK`, `LocalSynced`, `RemoteSynced`, `TwiceNeedsOverlap` | what is installed is what the row says |
| `subscriptions` | 2 sockets, 4 subscriptions, 1 container, 2 log topics | `SubTypeOK`, `SubscriberIsFed`, `StreamHasReader`, `SilentAfterUnsubscribe` | who subscribed is fed, who left is not |
| `remote_keys` | 2 servers, 2 keys, 2 executions, 2 milliseconds | `OwnKey`, `KeyFilesGo`, `KeyLossNeedsRace` | a command uses its own server's key, and the key file goes |

Type invariants are proved for every module (section 5); only the runs of `CronJobs` and
`Subscriptions`, whose types restrict what a half-done request may leave behind, check
theirs too.  For the same reason the runs leave out invariants that are proved and that a
property of the run implies or resembles: `SuccessIsComplete`, `StopsAtFailure`,
`RerunOnlyAfterCrash` (`Pipeline`), `OneOpenAlert`, `OpenIsReachable` (`Terminal`),
`OneStream` (`Subscriptions`).  The inductive invariants
(`ScheduleInv`, `ArchiveInv`, `RetentionInv`, `CronInv`, `SubInv`, `Inv`...) were checked on the
instances of the runs before they were proved.

Why the bounds are enough to be interesting.  Three versions are a success, a failing
deploy and its rollback, or a success and two rollbacks of it that race; two users make
the second race possible.  Two runs make the queue, the worker and a rollback of another run
meet.  Two requests are the smallest race, and two good patterns let one of them register
what the other has replaced.  One application is enough because handlers of two never look at each other's versions.  Three backups are
needed for a surplus of two (the limit lowered, or two targets).  `CleanupTake` is 1, so
that the clean-up has to leave records for the next one.  Limit 0 is legal (no DTO forbids
it) and stands for the smallest surplus.  Two misfortunes are an outage and a crash, an
expiry or an edit in the middle of it.  An application that was removed may be created again
without a further one, so the two also give a re-creation inside an outage.  Two cron jobs
share a crontab, and five requests (`MaxRequests`) are one to create each and three to
interleave; a pattern that is refused ends its request like any other error (`Throw`).
Three connections are a reconnect after a reconnect.  Two entries share a queue or an owner, or meet a crash side by side.  Four
subscriptions are two clients that each come twice.  Two executions in two milliseconds
share a file name or just miss it, and two keys tell whose key was read.  Symmetry is
used only where no liveness is checked.

Fairness.  `Deploy`: the event loop runs every pending continuation, and a deploy command
ends (the code has no timeout: a command that hangs leaves its version IN_PROGRESS, and
nothing here claims otherwise).  `Pipeline`: the worker polls, the command of a step ends,
`queue.add` answers, and BullMQ repeats its stalled check.  `Schedules`: Redis and PostgreSQL
answer, and PM2 restarts the process.  `Backups`: dumps, S3 and PostgreSQL answer, and time
passes.  `Monitoring`: the three repeatable jobs fire, a sample is recent enough at some
evaluation again and again, and the commands of a check do not fail for ever.
`Terminal`: messages arrive, ssh answers or fails, the server notices a lost socket.
`Jobs`: as `Pipeline`, for each queue; the place `login` never ends (section 6) and
`EveryJobEnds` says so.  Requests, crashes, outages and errors are never fair.

It is weak fairness, since none of these steps is disabled over and over while it waits,
with three exceptions.  The clean-up of backups waits for a worker that the runs of the
strategy occupy and leave again and again; the queue is first come, first served, which
strong fairness of `StartCleanup` expresses.  `Evaluate` competes with `WindowEmpty`, and
`Look` and `Restart` with `CommandFails`: each is taken if it is possible again and again,
which says that samples are fresh and commands work once in a while.

Deadlock is checked in every run but `terminal` and `subscriptions`, whose connections and
subscriptions are used up: the system stops there because the instance does.

More configurations, for the reader, each of a property that a document or a comment
suggests and that the code does not keep: `MCDeployLostRollback.cfg`,
`MCPipelineStepStatus.cfg`, `MCPipelineOrder.cfg`, `MCSchedulesDeleted.cfg`, `MCBackupsRestore.cfg`,
`MCMonitoringAlerts.cfg`, `MCTerminalError.cfg`, `MCCronJobsDisabled.cfg`, `MCCronJobsOld.cfg`, `MCSubscriptionsGone.cfg`, `MCSubscriptionsAll.cfg`,
`MCRemoteKeysReachable.cfg`.  TLC finds a counterexample for each; section 6 says what it shows.

## 4. Mutants

Each property of a passing run has a mutant in the module it is about: the definition with
the suffix in its name, placed before the one it would replace, is what a plausible slip
in the code would give (a missing status check, a continuation attached in the wrong
place, an early return that was forgotten), and the property fails under it.

## 5. Proofs

Every theorem is proved for all values of the constants, from the named assumptions of the
modules (`DeployAssumption`, `PipelineAssumption`, `ScheduleAssumption`, `BackupAssumption`,
`HostAssumption`, `SupervisorAssumption`, `TerminalAssumption`, `JobsAssumption`,
`RemoteAssumption`, `CronAssumption`, `SubscriptionAssumption`), which say only that sets are
disjoint or not empty, bounds are natural numbers and default values are not members.
`SchedulesProofs` and `TerminalProofs` extend two components each, whose state and actions are
unrelated; `CronSpec`, `CronTypeOK`, `SubSpec`, `SubTypeOK`... have their prefix for that.

**Deploy.**  `OutcomeFinal` and the three invariants are not inductive: that a late write
does not destroy an outcome follows only from what its handler knows.  `HandlerInv` says it:
a version has one writer and the place of `runDeploy` determines its status (`TaskInv`); a
rollback call past its check has a target that can since only have been rolled back or
deleted (`TargetInv`); the row it creates waits for that call alone (`NewInv`); a rollback
that ran had its target marked (`MarkedInv`); automatic rollbacks belong to failed deploys
and answer each once (`AutoInv`, `CauseInv`).  `DeployHandlers` proves it together with the
types, then each property follows from it.  `UnfinishedIsOwned` is inductive next to it.

**Pipeline.**  `RunInv` ties the worker to the rows: the worker holds the job of its run and
the place of `executeRun` determines the status of the run (`WorkerInv`); steps outside
`todo` have succeeded while the loop goes on (`ProgressInv`); a run whose worker never died
has executed no step twice (`OnceInv`).  `SuccessIsComplete` needs `ProgressInv` because
redelivery starts from rows in any state.  `PipelineKeepsLedger` proves the refinement step
by step: each action is a step of `RunLedger` or leaves `status` and `step` alone; the
invariant supplies the guards (a FAILED step in `FailRest` and `FailRun`, all SUCCESS in
`FinishRun`).

**Schedules.**  `EnabledIsScheduled` says nothing while a request is busy with the row, so the
induction needs to know what the busy ones will do: `MissingInv` says that a missing job is
on its way, with a request that has still to write the row or that will register the very
pattern the row has.  Since nothing takes a job out of the queue, a job that is there stays.

**Backups.**  `SuccessHasArchive` looks at two stores that are changed one after the other.  It is
inductive with five facts (`ArchiveInv`): the place of a backup tells where its archive is
(`ExecInv`); while a backup runs its record names no archive (`OverInv`); so what a deletion or
the clean-up has read, and removes later, belongs to a backup that is over (`DeleteInv`,
`CleanInv`); only the worker's one backup reads the strategy and enforces retention
(`RunInv`); an id that was never used has no traces (`FreshInv`).  The proof first states what
each kind of step leaves alone (the Effect lemmas), then takes the conjuncts one by one.

The two retention properties count, and count sets that users change between the query of
`enforceRetention` and its last deletion.  `RetentionInv` is what holds in between.  `Doomed`
are the records in its queue and the one being deleted.  Each of them has retentionMax later
successes that are not doomed, or were taken by users (`KeepInv`), and no more than
retentionMax successes are not doomed (`CatchInv`); the worker deletes only while a backup is at
its retention (`OwnInv`), and only backups of the strategy carry its link (`LinkInv`).  The
query establishes both counts: `SurplusBounds` is a statement about any set of ids, from the
greatest surplus record and the least kept one.  After it, `StillSpared` shows that it is
enough for a step to keep what is spared and to add nothing to what is kept; each
action is then a short check, and the only one that adds to the kept, `WriteSuccess`, ends the
retention.  `BackupsKeepsNewest` and `BackupsCatchesUp` read the action properties off it.

**Monitoring.**  What a probe remembers between its awaits is true of the rows or the rows are
gone (`HealthData`): the counter it has stored is at most the streak, before `create` there
is no open incident and the streak is three, before `resolve` there is one.  An
evaluation that will fire has seen no unresolved event (`AlertData`).  A check that is about to
restart has seen the process stopped, and only another check or somebody else could have
started it since (`SupData`).  Each module keeps its
own part, and the composition only has to say who leaves whose variables alone.

**Terminal.**  The shell that opens after its socket was handled is `late`; every other one is
owned while its socket lasts, because no client knows the session before it is open and
so nobody but `handleDisconnect` can take it out of the set.

**Jobs.**  The place of an execution determines its row and its job (`JobInv`), one execution
is active in a queue (`Alone`), and what `row` will say is already decided by `work`.
`JobsKeepLedger` proves the refinement action by action.

**RemoteKeys.**  `OwnKey` needs `SoundInv`, what an undisturbed execution has read and what its
file holds, and `SharedInv`: executions with one file name know it, because the later one
to take the name marks the other.  Every execution changes one `exec[i]`, so one lemma
(`OneExec`) says what the invariant needs of the new value, and each action supplies it.
`KeyLossNeedsRace` follows from `RushedInv`.

**CronJobs.**  The three properties speak of jobs that nobody is busy with, so the induction
has to say what the busy request will still do.  `CronInv` has two parts.  `Reads` is about
commands: what one has read is what its crontab still holds, unless commands met on its server.
So a command that is alone writes back what it found, but for its own job.  `Job(i)` is about
one job.  The list of operations of a request is always one of a few (`FarTodos`, `NearTodos`),
and while one request is on the job, the list and the row tell what crontab (`Far`) and queue
(`Near`) hold: a crontab is cleared before it is appended to and before the row goes, so
`append` and `delete` always meet an empty one, even after errors; before `save` both hold what
the row is going to say (`Wish`), and when nobody is left they hold what it says (`Done`).  All
three properties follow from it.  Each action changes one job, or the crontab of one server;
the lemmas first say what it leaves alone for the other jobs, then take its own.

**Subscriptions.**  A callback in the list belongs to a subscription that is opening, or that
its client can take back, or it has slipped (`HeldInv`); a stream in the map runs, for its own
container (`MapInv`); where no two openings overlapped, an opening is alone and the
map empty, and a running stream is the one in the map and has callbacks (`AloneInv`).  Each
handler moves one subscription or one stream, and the four parts say for the others that they
are not concerned.  `StreamHasReader` and `OneStream` follow from them without induction.

Only model-checked: all liveness properties, which need fairness and ENABLED, out of reach of
the prover.  Every safety property that a passing run checks is also proved.

## 6. What the models showed

`PROJECT.json` lists all of it with lines.  The main points:

* `outage_without_incident`: the probe stores its counter, then looks whether it is exactly
  3.  A crash between the two loses the incident of the whole outage.
* Deployments: a rollback marks its target ROLLED_BACK before it runs; if it fails, no SUCCESS
  version is left and the next failed deploy is not answered
  (`RollbackWhenEverSucceeded`).  An application removed during its deploy ends the API
  process; a rollback without a deploy command runs `null --ref=...`.
* Pipelines: when a step fails, the steps that succeeded are shown FAILED
  (`SuccessfulStepsKept`); a redelivered run executes the steps that had started last
  (`StepsInOrder`); one disabled scheduled pipeline unschedules all.
* Schedules: a pattern that cannot be parsed keeps the process from starting.  No request ever
  removes a repeatable job (`DeletedIsUnscheduled`): deleted schedules of applications go on
  restarting or stopping them, strategies with a new pattern also run at the old times.
* Monitoring: a rule that has fired once never fires again (`EveryOutageAlerts`); an
  application that hangs is RUNNING to the supervisor.
* Backups: a full backup in S3 can be neither restored nor downloaded (`SuccessIsRestorable`);
  retention keeps N + 1 (`KeepsLastN`); the clean-up reads 500 records in no order and reads
  expired ones again (`RecordsExpire`); a changed S3 configuration orphans earlier objects.
* Terminal: the text of an ssh error arrives before the session is named and is dropped
  (`ErrorIsShown`); a shell whose browser left while it opened is never closed; a refused
  container gives a blank tab, a missing docker binary ends the API.
* Jobs: the login to a registry waits on a standard input that nobody writes and holds the
  queue; a failed push on a server is recorded as SUCCESS; a new workspace can lose its
  directory to the removal of its namesake.
* Cron: an edit enters a disabled remote job again (`DisabledHasNoEntry`); a local job with a new
  expression fires at its old times as well (`OldJobIsRemoved`).
* Subscriptions: `handleDisconnect` finds nothing to close (`StreamOfTheGoneCloses`); a
  subscriber of all processes goes deaf for one that somebody else followed
  (`AllHearEveryLine`); pipeline events are delivered twice.
* Multi-server: the answer of a server to the question for metrics cannot be parsed, so every
  server that answered is shown as unreachable (`ReachableAlways`); the key file of an unreachable
  server stays.

## 7. Not modelled

The components with status `not_modelled` in `PROJECT.json`: views, file editors and
command wrappers keep no state over which steps could interleave; refresh tokens and backup
codes are one row each, read and then written by id; error logs and analytics are
parsing and counting; the user interface renders what the API returns, but for the terminal,
whose client is part of `Terminal`.

In the modelled components: the text of commands and logs, event emission, labels, what
a backup archive contains and how it is unpacked again, what a fired schedule or cron job does,
the repeatable jobs of scheduled pipelines, edited S3 configurations, rooms and broadcasts
of the gateway, the temporary key file of remote deploys, `pingServer`, inventories and
templates of the infrastructure jobs.  A manual rollback reads the application and the
version in two queries, which the model takes as one: what changes between them changes
only whether the request is refused.  A request that is refused is not an action.

## 8. What is left

1. `PipelineSchedules`: the repeatable jobs of pipelines, which carry no id of their own, so
   that two pipelines with one pattern share a job.
2. S3 configurations that are edited while their client is cached, in `Backups`.
3. The execution of cron jobs, and the import of crontabs.
4. Abstract specifications for the components that have none, as `JobLedger` is for `Jobs`:
   what a schedule or a subscription promises to its user.
5. Authentication: sessions and backup codes as a small module.

