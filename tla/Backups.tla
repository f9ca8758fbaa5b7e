------------------------------ MODULE Backups ------------------------------
(***************************************************************************)
(* Backups: BackupsService (backups.service.ts) for one strategy, ad hoc   *)
(* and full backups, next to users who delete records and edit the         *)
(* strategy and the S3 configurations (backup-strategy.service.ts).        *)
(*                                                                         *)
(* A backup is a record in PostgreSQL, an archive on the local disk and an *)
(* object in S3, changed one after the other with an await in between.     *)
(* The worker of queue backup-strategy runs one job at a time: a run of    *)
(* the strategy or the clean-up.  Ids follow createdAt.  What an archive   *)
(* contains, its restoration into a target and the log events are left     *)
(* out; archive names are unique (their stamp has milliseconds).           *)
(*                                                                         *)
(* S3 calls may fail at any time, also by a configuration that is gone, or *)
(* answer with an error after they took effect.  Time: an archive and its  *)
(* record grow older than the TTL; no backup is assumed to take so long.   *)
(***************************************************************************)
EXTENDS Naturals, FiniteSets

CONSTANTS
    Kinds,        \* the kinds of backups that are requested
    Configs,      \* S3Config rows
    NoConfig,     \* s3ConfigId = null
    Users,        \* concurrent requests that delete a record
    Worker,       \* the deletions of enforceRetention
    Targets,      \* targets of the strategy
    Limits,       \* values of retentionMax
    CleanupTake,  \* records a clean-up looks at (500)
    MaxBackups,   \* bound: BackupRecord rows ever created
    MaxCrashes    \* bound: ends of the process

Ids == 1..MaxBackups
Deleters == Users \cup {Worker}

ASSUME BackupAssumption ==
    /\ Kinds \subseteq {"adhoc", "strategy", "full"}
    /\ NoConfig \notin Configs
    /\ Worker \notin Users
    /\ Targets \in Nat \ {0}
    /\ Limits \subseteq Nat
    /\ CleanupTake \in Nat \ {0}
    /\ MaxBackups \in Nat
    /\ MaxCrashes \in Nat

VARIABLES
    configs, \* S3Config rows that exist
    strat,   \* the strategy: its row, storage = 's3', s3ConfigId, retentionMax
    kind,    \* who asked for a backup; "none": id not used yet
    rec,     \* BackupRecord rows
    file,    \* archives in BACKUPS_DIR
    old,     \* backups whose archive and record are older than the TTL
    obj,     \* objects in S3, by the configuration they were stored with
    exec,    \* executeBackup and executeFullBackup calls
    del,     \* deleteRecord calls
    work,    \* the job in the worker
    past,    \* history: a crash or a user took the record, or its handler
    crashes  \* ends of the process so far

vars == <<configs, strat, kind, rec, file, old, obj, exec, del, work, past, crashes>>

OptConfig == Configs \cup {NoConfig}
Status == {"ABSENT", "RUNNING", "SUCCESS", "FAILED", "EXPIRED"}

\* s3: storage = 's3'.  key, local, expires: the column is set.
\* link: strategyId is set.
Rec == [status: Status, s3: BOOLEAN, key: BOOLEAN, local: BOOLEAN,
        expires: BOOLEAN, link: BOOLEAN]
NoRec == [status |-> "ABSENT", s3 |-> FALSE, key |-> FALSE, local |-> FALSE,
          expires |-> FALSE, link |-> FALSE]
Running(s3, link) == [NoRec EXCEPT !.status = "RUNNING", !.s3 = s3, !.link = link]

\* to: the configuration to upload to.
Exec == [pc: {"idle", "dump", "read", "upload", "retain", "delete", "write", "fail"},
         to: OptConfig]
IdleExec == [pc |-> "idle", to |-> NoConfig]
At(pc, to) == [pc |-> pc, to |-> to]

\* What a deleteRecord call read: the configuration, and whether localPath is set.
Del == [pc: {"idle", "object", "unlink", "row"}, id: 0..MaxBackups,
        from: OptConfig, local: BOOLEAN]
IdleDel == [pc |-> "idle", id |-> 0, from |-> NoConfig, local |-> FALSE]

\* left: targets still to back up.  max: retentionMax when executeBackup read
\* the strategy.  cur: the record at hand.  todo: records to delete or expire.
Work == [pc: {"idle", "run", "clean", "mark"}, left: 0..Targets, max: Nat,
         cur: 0..MaxBackups, todo: SUBSET Ids]
IdleWork == [pc |-> "idle", left |-> 0, max |-> 0, cur |-> 0, todo |-> {}]

TypeOK ==
    /\ configs \subseteq Configs
    /\ strat \in [row: BOOLEAN, s3: BOOLEAN, cfg: OptConfig, max: Limits]
    /\ kind \in [Ids -> {"none", "adhoc", "strategy", "full"}]
    /\ rec \in [Ids -> Rec]
    /\ file \in [Ids -> {"none", "partial", "complete"}]
    /\ old \subseteq Ids
    /\ obj \subseteq Configs \X Ids
    /\ exec \in [Ids -> Exec]
    /\ \A b \in Ids : exec[b].pc = "upload" => exec[b].to # NoConfig
    /\ del \in [Deleters -> Del]
    /\ \A d \in Deleters : del[d].pc # "idle" => del[d].id # 0
    /\ work \in Work
    /\ work.pc = "mark" => work.cur # 0
    /\ past \in [Ids -> {"none", "lost", "torn", "user"}]
    /\ crashes \in 0..MaxCrashes

\* The strategy and the configurations exist; nothing was backed up yet.
Init ==
    /\ configs = Configs
    /\ strat \in [row: {TRUE}, s3: BOOLEAN, cfg: OptConfig, max: Limits]
    /\ kind = [b \in Ids |-> "none"]
    /\ rec = [b \in Ids |-> NoRec]
    /\ file = [b \in Ids |-> "none"]
    /\ old = {}
    /\ obj = {}
    /\ exec = [b \in Ids |-> IdleExec]
    /\ del = [d \in Deleters |-> IdleDel]
    /\ work = IdleWork
    /\ past = [b \in Ids |-> "none"]
    /\ crashes = 0

-----------------------------------------------------------------------------
(* The strategy and the S3 configurations.                                 *)

UpdateStrategy ==
    /\ strat.row
    /\ \E s \in BOOLEAN, c \in configs \cup {NoConfig}, n \in Limits :
          strat' = [strat EXCEPT !.s3 = s, !.cfg = c, !.max = n]
    /\ UNCHANGED <<configs, kind, rec, file, old, obj, exec, del, work, past, crashes>>

\* Its records stay, with strategyId set to null.
DeleteStrategy ==
    /\ strat.row
    /\ strat' = [strat EXCEPT !.row = FALSE]
    /\ rec' = [b \in Ids |-> [rec[b] EXCEPT !.link = FALSE]]
    /\ UNCHANGED <<configs, kind, file, old, obj, exec, del, work, past, crashes>>

\* The strategy stays, with s3ConfigId set to null.
DeleteS3Config(c) ==
    /\ c \in configs
    /\ configs' = configs \ {c}
    /\ strat' = [strat EXCEPT !.cfg = IF @ = c THEN NoConfig ELSE @]
    /\ UNCHANGED <<kind, rec, file, old, obj, exec, del, work, past, crashes>>

-----------------------------------------------------------------------------
(* Starting a backup.                                                      *)

NewRecord(b, k, s3, to) ==
    /\ k \in Kinds
    /\ kind[b] = "none"
    /\ \A x \in Ids : x < b => kind[x] # "none"
    /\ kind' = [kind EXCEPT ![b] = k]
    /\ rec' = [rec EXCEPT ![b] = Running(s3, k = "strategy")]
    /\ exec' = [exec EXCEPT ![b] = At("dump", to)]

RunAdHoc(b) ==
    /\ NewRecord(b, "adhoc", FALSE, NoConfig)
    /\ UNCHANGED <<configs, strat, file, old, obj, del, work, past, crashes>>

\* Storage 's3' without a configuration is accepted, and stays local.
RunFullBackup(b) ==
    /\ \E s3 \in BOOLEAN, c \in configs \cup {NoConfig} :
          /\ c # NoConfig => s3
          /\ NewRecord(b, "full", s3, c)
    /\ UNCHANGED <<configs, strat, file, old, obj, del, work, past, crashes>>

RunStrategyBackup ==
    /\ "strategy" \in Kinds
    /\ work.pc = "idle"
    /\ strat.row
    /\ work' = [IdleWork EXCEPT !.pc = "run", !.left = Targets]
    /\ UNCHANGED <<configs, strat, kind, rec, file, old, obj, exec, del, past, crashes>>

AtLoopHead == work.pc = "run" /\ (work.cur # 0 => exec[work.cur].pc = "idle")

\* The next target.  Without the strategy the record is refused.  Nobody reads
\* the storage a record starts with: WriteSuccess sets it.
NextTarget(b) ==
    /\ AtLoopHead
    /\ work.left > 0
    /\ strat.row
    /\ NewRecord(b, "strategy", FALSE, NoConfig)
    /\ work' = [work EXCEPT !.left = @ - 1, !.cur = b]
    /\ UNCHANGED <<configs, strat, file, old, obj, del, past, crashes>>

\* The last target is done, or the record of the next one is refused: the
\* strategy is gone (or the bound on the model's ids is reached).
EndRun ==
    /\ AtLoopHead
    /\ work.left = 0 \/ ~strat.row \/ \A b \in Ids : kind[b] # "none"
    /\ work' = IdleWork
    /\ UNCHANGED <<configs, strat, kind, rec, file, old, obj, exec, del, past, crashes>>

-----------------------------------------------------------------------------
(* executeBackup and executeFullBackup, from await to await.               *)

Goto(b, pc, to) == exec' = [exec EXCEPT ![b] = At(pc, to)]

\* tar has written the archive, or stopped somewhere before its end.
Dump(b) ==
    /\ exec[b].pc = "dump"
    /\ \/ /\ file' = [file EXCEPT ![b] = "complete"]
          /\ Goto(b, IF kind[b] = "strategy" THEN "read"
                     ELSE IF exec[b].to # NoConfig THEN "upload" ELSE "write", exec[b].to)
       \/ /\ \E f \in {"none", "partial"} : file' = [file EXCEPT ![b] = f]
          /\ Goto(b, "fail", NoConfig)
    /\ UNCHANGED <<configs, strat, kind, rec, old, obj, del, work, past, crashes>>

\* The strategy as it is now decides on the upload.  If it is gone,
\* enforceRetention(null) only logs, and the write meets the foreign key.
ReadStrategy(b) ==
    /\ exec[b].pc = "read"
    /\ IF ~strat.row THEN Goto(b, "write", NoConfig)
       ELSE IF strat.s3 /\ strat.cfg # NoConfig THEN Goto(b, "upload", strat.cfg)
       ELSE Goto(b, "retain", NoConfig)
    /\ work' = [work EXCEPT !.max = strat.max]
    /\ UNCHANGED <<configs, strat, kind, rec, file, old, obj, del, past, crashes>>

AfterUpload(b) == IF kind[b] = "strategy" THEN "retain" ELSE "write"

\* Mutant: a failed upload is treated like a finished one.
UploadCatches(b) ==
    /\ exec[b].pc = "upload"
    /\ obj' \in {obj, obj \cup {<<exec[b].to, b>>}}
    /\ file' = [file EXCEPT ![b] = "none"]
    /\ Goto(b, AfterUpload(b), exec[b].to)
    /\ UNCHANGED <<configs, strat, kind, rec, old, del, work, past, crashes>>

\* The local copy goes once the object is stored.  An upload that throws may
\* have stored the object.
Upload(b) ==
    /\ exec[b].pc = "upload"
    /\ \/ /\ obj' = obj \cup {<<exec[b].to, b>>}
          /\ file' = [file EXCEPT ![b] = "none"]
          /\ Goto(b, AfterUpload(b), exec[b].to)
       \/ /\ obj' \in {obj, obj \cup {<<exec[b].to, b>>}}
          /\ Goto(b, "fail", NoConfig)
          /\ UNCHANGED file
    /\ UNCHANGED <<configs, strat, kind, rec, old, del, work, past, crashes>>

Kept == {x \in Ids : rec[x].link /\ rec[x].status = "SUCCESS"}

\* Mutant: the query has no descending order.
SurplusAscending == {x \in Kept : Cardinality({y \in Kept : y < x}) >= work.max}

\* Mutant: each run deletes the oldest record only.
SurplusOldest == {x \in Kept : /\ Cardinality(Kept) > work.max
                               /\ \A y \in Kept : x <= y}

\* What slice(retentionMax) leaves of the successes, latest first.
Surplus == {x \in Kept : Cardinality({y \in Kept : y > x}) >= work.max}

\* enforceRetention, its query.
Retain(b) ==
    /\ exec[b].pc = "retain"
    /\ work' = [work EXCEPT !.todo = Surplus]
    /\ Goto(b, "delete", exec[b].to)
    /\ UNCHANGED <<configs, strat, kind, rec, file, old, obj, del, past, crashes>>

\* The end of the loop over the surplus.
RetentionDone(b) ==
    /\ exec[b].pc = "delete"
    /\ del[Worker].pc = "idle"
    /\ work.todo = {}
    /\ Goto(b, "write", exec[b].to)
    /\ UNCHANGED <<configs, strat, kind, rec, file, old, obj, del, work, past, crashes>>

\* The update throws when the row was deleted, or names a strategy that was.
CanWrite(b) == rec[b].status # "ABSENT" /\ (kind[b] = "strategy" => strat.row)

Succeeded(b) ==
    LET uploaded == exec[b].to # NoConfig
    IN [status |-> "SUCCESS", key |-> uploaded, local |-> ~uploaded, expires |-> ~uploaded,
        s3 |-> IF kind[b] = "full" THEN rec[b].s3 ELSE uploaded,
        link |-> kind[b] = "strategy"]

WriteSuccess(b) ==
    /\ exec[b].pc = "write"
    /\ \/ /\ CanWrite(b)
          /\ rec' = [rec EXCEPT ![b] = Succeeded(b)]
          /\ Goto(b, "idle", NoConfig)
       \/ /\ ~CanWrite(b)
          /\ Goto(b, "fail", NoConfig)
          /\ UNCHANGED rec
    /\ UNCHANGED <<configs, strat, kind, file, old, obj, del, work, past, crashes>>

\* Mutant: the error is logged, the record is left as it is.
WriteFailedLogs(b) ==
    /\ exec[b].pc = "fail"
    /\ Goto(b, "idle", NoConfig)
    /\ UNCHANGED <<configs, strat, kind, rec, file, old, obj, del, work, past, crashes>>

\* The catch clause; a row that is gone is ignored.
WriteFailed(b) ==
    /\ exec[b].pc = "fail"
    /\ rec' = IF rec[b].status = "ABSENT" THEN rec
              ELSE [rec EXCEPT ![b].status = "FAILED"]
    /\ Goto(b, "idle", NoConfig)
    /\ UNCHANGED <<configs, strat, kind, file, old, obj, del, work, past, crashes>>

-----------------------------------------------------------------------------
(* deleteRecord, called by a user or for a record of the surplus.          *)

\* The configuration it finds the object with: that of the strategy today.
\* The two reads are one step: the columns it uses change only with the row.
Source(x) == IF rec[x].link /\ strat.row THEN strat.cfg ELSE NoConfig

BeginDelete(d, x) ==
    del' = [del EXCEPT ![d] =
        [pc |-> IF rec[x].s3 /\ rec[x].key /\ Source(x) # NoConfig THEN "object" ELSE "unlink",
         id |-> x, from |-> Source(x), local |-> rec[x].local]]

RequestDelete(u, x) ==
    /\ del[u].pc = "idle"
    /\ rec[x].status # "ABSENT"
    /\ BeginDelete(u, x)
    /\ UNCHANGED <<configs, strat, kind, rec, file, old, obj, exec, work, past, crashes>>

\* The next record of the surplus, latest first; one that is gone is skipped.
DeleteSurplus(b, x) ==
    /\ exec[b].pc = "delete"
    /\ del[Worker].pc = "idle"
    /\ x \in work.todo
    /\ \A y \in work.todo : y <= x
    /\ work' = [work EXCEPT !.todo = @ \ {x}]
    /\ IF rec[x].status = "ABSENT" THEN UNCHANGED del ELSE BeginDelete(Worker, x)
    /\ UNCHANGED <<configs, strat, kind, rec, file, old, obj, exec, past, crashes>>

\* An error of S3 is ignored.
DeleteObject(d) ==
    /\ del[d].pc = "object"
    /\ obj' \in {obj, obj \ {<<del[d].from, del[d].id>>}}
    /\ del' = [del EXCEPT ![d].pc = "unlink"]
    /\ UNCHANGED <<configs, strat, kind, rec, file, old, exec, work, past, crashes>>

Unlink(d) ==
    /\ del[d].pc = "unlink"
    /\ file' = IF del[d].local THEN [file EXCEPT ![del[d].id] = "none"] ELSE file
    /\ del' = [del EXCEPT ![d].pc = "row"]
    /\ UNCHANGED <<configs, strat, kind, rec, old, obj, exec, work, past, crashes>>

\* If another call has deleted the row the error ends enforceRetention, with
\* the rest of the surplus not deleted; a user gets it as the answer.
DeleteRow(d) ==
    /\ del[d].pc = "row"
    /\ del' = [del EXCEPT ![d] = IdleDel]
    /\ LET x == del[d].id
       IN \/ /\ rec[x].status # "ABSENT"
             /\ rec' = [rec EXCEPT ![x] = NoRec]
             /\ past' = [past EXCEPT ![x] = IF d \in Users THEN "user" ELSE "none"]
             /\ UNCHANGED exec
          \/ /\ rec[x].status = "ABSENT"
             /\ exec' = [b \in Ids |-> IF d = Worker /\ exec[b].pc = "delete"
                                         THEN At("write", exec[b].to) ELSE exec[b]]
             /\ UNCHANGED <<rec, past>>
    /\ UNCHANGED <<configs, strat, kind, file, old, obj, work, crashes>>

-----------------------------------------------------------------------------
(* The clean-up job.                                                       *)

Expired == {x \in Ids : /\ rec[x].status # "ABSENT"
                        /\ ~rec[x].s3 /\ rec[x].expires /\ x \in old}

\* The query has no order, and does not exclude what is EXPIRED already.
StartCleanup ==
    /\ work.pc = "idle"
    /\ \E S \in SUBSET Expired :
          /\ Cardinality(S) <= CleanupTake
          /\ S # Expired => Cardinality(S) = CleanupTake
          /\ work' = [IdleWork EXCEPT !.pc = "clean", !.todo = S]
    /\ UNCHANGED <<configs, strat, kind, rec, file, old, obj, exec, del, past, crashes>>

\* The archive of an EXPIRED record has gone before.
ExpireFile(x) ==
    /\ work.pc = "clean"
    /\ x \in work.todo
    /\ file' = [file EXCEPT ![x] = "none"]
    /\ work' = [work EXCEPT !.pc = "mark", !.cur = x, !.todo = @ \ {x}]
    /\ UNCHANGED <<configs, strat, kind, rec, old, obj, exec, del, past, crashes>>

\* A row that is gone is ignored.
ExpireRecord ==
    /\ work.pc = "mark"
    /\ rec' = IF rec[work.cur].status = "ABSENT" THEN rec
              ELSE [rec EXCEPT ![work.cur] = [@ EXCEPT !.status = "EXPIRED", !.local = FALSE]]
    /\ work' = [work EXCEPT !.pc = "clean", !.cur = 0]
    /\ UNCHANGED <<configs, strat, kind, file, old, obj, exec, del, past, crashes>>

\* Mutant: only the archives of known records are swept.
SweepTracked ==
    /\ work.pc = "clean"
    /\ work.todo = {}
    /\ file' = [b \in Ids |-> IF b \in old /\ rec[b].local THEN "none" ELSE file[b]]
    /\ work' = IdleWork
    /\ UNCHANGED <<configs, strat, kind, rec, old, obj, exec, del, past, crashes>>

\* Whatever the records say, old archives are removed.
Sweep ==
    /\ work.pc = "clean"
    /\ work.todo = {}
    /\ file' = [b \in Ids |-> IF b \in old THEN "none" ELSE file[b]]
    /\ work' = IdleWork
    /\ UNCHANGED <<configs, strat, kind, rec, old, obj, exec, del, past, crashes>>

-----------------------------------------------------------------------------
(* Time and crashes.                                                       *)

GrowOld(b) ==
    /\ exec[b].pc = "idle"
    /\ b \notin old
    /\ file[b] # "none" \/ rec[b].expires
    /\ old' = old \cup {b}
    /\ UNCHANGED <<configs, strat, kind, rec, file, obj, exec, del, work, past, crashes>>

Active == {b \in Ids : exec[b].pc # "idle"}
BeingDeleted == {x \in Ids : \E d \in Deleters : del[d].pc # "idle" /\ del[d].id = x}

\* The process ends and starts again.  Nothing looks at records left RUNNING;
\* an interrupted dump may leave a part of the archive; a job of the worker is
\* started again by the queue or by its next cron time.
CrashRestart ==
    /\ crashes < MaxCrashes
    /\ crashes' = crashes + 1
    /\ \E f \in {"none", "partial"} :
          file' = [b \in Ids |-> IF exec[b].pc = "dump" THEN f ELSE file[b]]
    /\ past' = [b \in Ids |-> IF b \in Active THEN "lost"
                             ELSE IF b \in BeingDeleted THEN "torn" ELSE past[b]]
    /\ exec' = [b \in Ids |-> IdleExec]
    /\ del' = [d \in Deleters |-> IdleDel]
    /\ work' = IdleWork
    /\ UNCHANGED <<configs, strat, kind, rec, old, obj>>

-----------------------------------------------------------------------------
ExecStep(b) ==
    \/ Dump(b)
    \/ ReadStrategy(b)
    \/ Upload(b)
    \/ Retain(b)
    \/ \E x \in Ids : DeleteSurplus(b, x)
    \/ RetentionDone(b)
    \/ WriteSuccess(b)
    \/ WriteFailed(b)

DeleteStep(d) ==
    \/ DeleteObject(d)
    \/ Unlink(d)
    \/ DeleteRow(d)

WorkStep ==
    \/ \E b \in Ids : NextTarget(b)
    \/ EndRun
    \/ \E x \in Ids : ExpireFile(x)
    \/ ExpireRecord
    \/ Sweep

Next ==
    \/ UpdateStrategy
    \/ DeleteStrategy
    \/ \E c \in Configs : DeleteS3Config(c)
    \/ \E b \in Ids : RunAdHoc(b)
    \/ \E b \in Ids : RunFullBackup(b)
    \/ RunStrategyBackup
    \/ StartCleanup
    \/ WorkStep
    \/ \E b \in Ids : ExecStep(b)
    \/ \E u \in Users, x \in Ids : RequestDelete(u, x)
    \/ \E d \in Deleters : DeleteStep(d)
    \/ \E b \in Ids : GrowOld(b)
    \/ CrashRestart

\* The event loop, the disk, PostgreSQL and S3 answer, and time passes.  The
\* queue is first come, first served: runs of the strategy that come again and
\* again do not keep the worker from the clean-up (strong fairness).
Fairness ==
    /\ \A b \in Ids : WF_vars(ExecStep(b)) /\ WF_vars(GrowOld(b))
    /\ \A d \in Deleters : WF_vars(DeleteStep(d))
    /\ WF_vars(WorkStep)
    /\ SF_vars(StartCleanup)

Spec == Init /\ [][Next]_vars /\ Fairness

-----------------------------------------------------------------------------
(* Properties.                                                             *)

\* A record that says SUCCESS has its archive: in S3, or on the disk until the
\* TTL, even though retention, users, clean-up, failing uploads and crashes
\* all change one of them before the other.  Except for a deletion at work,
\* or cut off by a crash, which takes the archive before the record.
SuccessHasArchive ==
    \A b \in Ids :
        rec[b].status = "SUCCESS" /\ b \notin BeingDeleted /\ past[b] # "torn" =>
            IF rec[b].key THEN \E c \in Configs : <<c, b>> \in obj
            ELSE rec[b].local /\ (b \notin old => file[b] = "complete")

\* What makes SuccessHasArchive inductive.  An id nobody used has no traces.
FreshInv ==
    \A b \in Ids : kind[b] = "none" =>
        /\ rec[b].status = "ABSENT" /\ ~rec[b].expires /\ exec[b].pc = "idle"
        /\ file[b] = "none" /\ b \notin old
        /\ \A d \in Deleters : del[d].id # b

\* A record tells of an archive, or of an outcome, when its backup is over.
OverInv ==
    \A b \in Ids : exec[b].pc # "idle" =>
        /\ rec[b].status \in {"ABSENT", "RUNNING"}
        /\ ~rec[b].key /\ ~rec[b].local /\ ~rec[b].expires
        /\ b \notin old

\* What deleteRecord or the clean-up remove belongs to a backup that is over.
DeleteInv ==
    \A d \in Deleters :
        del[d].pc = "object" \/ (del[d].pc = "unlink" /\ del[d].local) =>
            exec[del[d].id].pc = "idle"

\* The worker works on one backup of the strategy at a time, and nobody else
\* reads the strategy or enforces its retention.
RunInv ==
    \A b \in Ids :
        /\ exec[b].pc \in {"read", "retain", "delete"} => kind[b] = "strategy"
        /\ exec[b].pc # "idle" /\ kind[b] = "strategy" => work.pc = "run" /\ work.cur = b

CleanInv ==
    /\ work.pc \in {"clean", "mark"} => work.todo \subseteq old
    /\ work.pc = "mark" => work.cur \in old

\* Where a backup stands tells where its archive is.
ExecInv ==
    \A b \in Ids :
        /\ exec[b].pc \in {"read", "upload"} => file[b] = "complete"
        /\ exec[b].pc \in {"retain", "delete", "write"} =>
              IF exec[b].to = NoConfig THEN file[b] = "complete" ELSE <<exec[b].to, b>> \in obj

ArchiveInv ==
    /\ FreshInv /\ OverInv /\ DeleteInv /\ RunInv /\ CleanInv /\ ExecInv
    /\ SuccessHasArchive

\* enforceRetention never takes one of the latest retentionMax successes of
\* the strategy, whatever users delete between its query and its deletions:
\* at least that many later ones exist, or were deleted by users.
NewerSuccesses(x) ==
    {y \in Ids : /\ y > x /\ kind[y] = "strategy"
                 /\ \/ rec[y].status = "SUCCESS"
                    \/ rec[y].status = "ABSENT" /\ past[y] = "user"}

RetentionKeepsNewest ==
    [][\A x \in Ids :
          /\ del[Worker].pc = "row" /\ del[Worker].id = x
          /\ rec[x].status # "ABSENT" /\ rec'[x].status = "ABSENT" /\ past'[x] # "user"
          => Cardinality(NewerSuccesses(x)) >= work.max]_vars

\* However many successes piled up (aborted retention, crashes, a lowered
\* retentionMax), one run whose retention reaches its end brings them down to
\* retentionMax and the new one.
RetentionCatchesUp ==
    [][\A b \in Ids :
          WriteSuccess(b) /\ kind[b] = "strategy" /\ strat.row /\ work.todo = {}
          => Cardinality(Kept') <= work.max + 1]_vars

\* What makes them hold at every step of a run.  Worker deletes while a backup
\* enforces retention, and only then.
OwnInv == del[Worker].pc # "idle" => \E b \in Ids : exec[b].pc = "delete"

\* What retention is about to take, or takes: the queue and the call at work.
Doomed == {x \in Ids : x \in work.todo \/ (del[Worker].pc # "idle" /\ del[Worker].id = x)}

\* The later successes retention leaves alone, or that users took.
Spared(x) == NewerSuccesses(x) \ {y \in Doomed : rec[y].status # "ABSENT"}

\* Each record to be deleted has its retentionMax later ones.
KeepInv ==
    (\E b \in Ids : exec[b].pc = "delete") =>
        \A x \in Doomed : Cardinality(Spared(x)) >= work.max

\* Between the query and the write no more than retentionMax stay.
CatchInv ==
    \A b \in Ids :
        exec[b].pc \in {"delete", "write"} /\ kind[b] = "strategy" /\ strat.row =>
            Cardinality(Kept \ Doomed) <= work.max

\* Only a backup of the strategy names it.
LinkInv == \A b \in Ids : rec[b].link => kind[b] = "strategy"

RetentionInv == OwnInv /\ LinkInv /\ KeepInv /\ CatchInv

\* Every backup ends with an outcome, unless a crash took its handler.
EveryBackupEnds ==
    \A b \in Ids : rec[b].status = "RUNNING" ~> (rec[b].status # "RUNNING" \/ past[b] = "lost")

\* No archive stays on the disk for ever, those of failed, deleted and
\* interrupted backups included.
LocalFilesExpire ==
    \A b \in Ids : (file[b] # "none" /\ exec[b].pc = "idle") ~> file[b] = "none"

\* BACKUP_RESTORE.md: "Retention Max: Keep last N backups", with the first
\* deleted by run N + 1.  Between two runs no more than retentionMax remain.
KeepsLastN ==
    work.pc = "idle" => Cardinality(Kept) <= strat.max

\* BACKUP_RESTORE.md: to restore, choose a record; the restore "downloads
\* backup from S3 (or reads local file)".  getArchiveBuffer finds an archive.
Restorable(b) ==
    IF rec[b].s3 /\ rec[b].key /\ rec[b].link
      THEN strat.row /\ <<strat.cfg, b>> \in obj
      ELSE rec[b].local /\ file[b] # "none"

\* A young SUCCESS that no strategy is needed for, and nobody deletes, can be
\* restored.
SuccessIsRestorable ==
    \A b \in Ids :
        /\ rec[b].status = "SUCCESS" /\ kind[b] \in {"adhoc", "full"} /\ b \notin old
        /\ b \notin BeingDeleted /\ past[b] # "torn"
        => Restorable(b)

\* BACKUP_RESTORE.md: "Local backups ... expire after 24 hours by default":
\* a record that stays past its expiry becomes EXPIRED.
RecordsExpire ==
    \A b \in Ids :
        (rec[b].status = "SUCCESS" /\ rec[b].expires /\ b \in old) ~> rec[b].status # "SUCCESS"

=============================================================================
