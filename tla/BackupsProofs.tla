--------------------------- MODULE BackupsProofs ---------------------------
(***************************************************************************)
(* Proofs about Backups, for any configurations, users, targets, limits    *)
(* and number of backups.                                                  *)
(***************************************************************************)
EXTENDS Backups, TLAPS, FiniteSetTheorems, WellFoundedInduction

-----------------------------------------------------------------------------
(* The records the actions write.                                          *)

LEMMA NoRecType == NoRec \in Rec
  BY DEF NoRec, Rec, Status

LEMMA RunningType ==
  ASSUME NEW s \in BOOLEAN, NEW l \in BOOLEAN
  PROVE  /\ Running(s, l) \in Rec
         /\ Running(s, l).status = "RUNNING"
         /\ ~Running(s, l).key /\ ~Running(s, l).local /\ ~Running(s, l).expires
         /\ Running(s, l).link = l
  BY DEF Running, NoRec, Rec, Status

LEMMA SucceededType ==
  ASSUME TypeOK, NEW b \in Ids
  PROVE  /\ Succeeded(b) \in Rec
         /\ Succeeded(b).key = (exec[b].to # NoConfig)
         /\ Succeeded(b).local = (exec[b].to = NoConfig)
         /\ Succeeded(b).link = (kind[b] = "strategy")
<1>1. rec[b].s3 \in BOOLEAN
  BY DEF TypeOK, Rec
<1>2. ASSUME NEW u \in BOOLEAN, NEW s \in BOOLEAN, NEW l \in BOOLEAN
      PROVE  [status |-> "SUCCESS", key |-> u, local |-> ~u, expires |-> ~u,
              s3 |-> s, link |-> l] \in Rec
  BY DEF Rec, Status
<1>3. Succeeded(b) \in Rec
  BY <1>1, <1>2 DEF Succeeded
<1> QED
  BY <1>3 DEF Succeeded

LEMMA RecUpdateType ==
  ASSUME NEW r \in Rec
  PROVE  /\ [r EXCEPT !.link = FALSE] \in Rec
         /\ [r EXCEPT !.status = "FAILED"] \in Rec
         /\ [r EXCEPT !.status = "EXPIRED", !.local = FALSE] \in Rec
  BY DEF Rec, Status

LEMMA AtType ==
  ASSUME NEW pc \in {"idle", "dump", "read", "upload", "retain", "delete", "write", "fail"},
         NEW to \in OptConfig
  PROVE  At(pc, to) \in Exec /\ At(pc, to).pc = pc /\ At(pc, to).to = to
  BY DEF At, Exec

LEMMA IdleTypes ==
  /\ IdleExec \in Exec /\ IdleExec.pc = "idle"
  /\ IdleDel \in Del /\ IdleDel.pc = "idle" /\ ~IdleDel.local /\ IdleDel.id = 0
  /\ IdleWork \in Work /\ IdleWork.pc = "idle"
  BY BackupAssumption DEF IdleExec, Exec, OptConfig, IdleDel, Del, IdleWork, Work, Ids

\* The worker takes up a job.
LEMMA WorkUpdateType ==
  ASSUME NEW w \in Work
  PROVE  /\ [w EXCEPT !.pc = "run", !.left = Targets] \in Work
         /\ \A S \in SUBSET Ids : [w EXCEPT !.pc = "clean", !.todo = S] \in Work
         /\ [w EXCEPT !.pc = "clean", !.cur = 0] \in Work
<1>1. Targets \in 0..Targets /\ 0 \in 0..MaxBackups
  BY BackupAssumption
<1> QED
  BY <1>1 DEF Work

\* A backup that goes on keeps the calls typed.
LEMMA GotoType ==
  ASSUME TypeOK, NEW b \in Ids, NEW to \in OptConfig,
         NEW pc \in {"idle", "dump", "read", "upload", "retain", "delete", "write", "fail"},
         pc = "upload" => to # NoConfig,
         exec' = [exec EXCEPT ![b] = At(pc, to)]
  PROVE  /\ exec' \in [Ids -> Exec]
         /\ \A x \in Ids : exec'[x].pc = "upload" => exec'[x].to # NoConfig
         /\ exec'[b].pc = pc /\ exec'[b].to = to
         /\ \A x \in Ids \ {b} : exec'[x] = exec[x]
  BY AtType DEF TypeOK

\* What deleteRecord reads.
LEMMA BeginDeleteType ==
  ASSUME TypeOK, NEW d \in Deleters, NEW x \in Ids, BeginDelete(d, x)
  PROVE  /\ del' \in [Deleters -> Del]
         /\ \A e \in Deleters \ {d} : del'[e] = del[e]
         /\ del'[d].id = x /\ x # 0
         /\ del'[d].pc = "object" => rec[x].key
         /\ del'[d].pc \in {"object", "unlink"}
         /\ del'[d].local = rec[x].local
<1> DEFINE n == [pc |-> IF rec[x].s3 /\ rec[x].key /\ Source(x) # NoConfig THEN "object" ELSE "unlink",
                 id |-> x, from |-> Source(x), local |-> rec[x].local]
<1>1. Source(x) \in OptConfig /\ rec[x].local \in BOOLEAN /\ x \in 0..MaxBackups /\ x # 0
  BY BackupAssumption DEF TypeOK, Rec, Source, OptConfig, Ids
<1>2. n \in Del
  BY <1>1 DEF Del
<1>3. del' = [del EXCEPT ![d] = n] /\ del \in [Deleters -> Del]
  BY DEF BeginDelete, TypeOK
<1> QED
  BY <1>1, <1>2, <1>3

-----------------------------------------------------------------------------
(* Types.                                                                  *)

LEMMA TypeInit == Init => TypeOK
<1> SUFFICES ASSUME Init PROVE TypeOK
  OBVIOUS
<1>1. /\ kind \in [Ids -> {"none", "adhoc", "strategy", "full"}]
      /\ rec \in [Ids -> Rec]
      /\ file \in [Ids -> {"none", "partial", "complete"}]
      /\ past \in [Ids -> {"none", "lost", "torn", "user"}]
  BY NoRecType DEF Init
<1>2. /\ exec \in [Ids -> Exec] /\ del \in [Deleters -> Del] /\ work \in Work
      /\ \A b \in Ids : exec[b].pc = "idle"
      /\ \A d \in Deleters : del[d].pc = "idle"
      /\ work.pc = "idle"
  BY IdleTypes DEF Init
<1>3. crashes \in 0..MaxCrashes
  BY BackupAssumption DEF Init
<1> QED
  BY <1>1, <1>2, <1>3 DEF Init, TypeOK, OptConfig

LEMMA NewRecordType ==
  ASSUME TypeOK, NEW b \in Ids, NEW k, NEW s \in BOOLEAN, NEW to \in OptConfig,
         NewRecord(b, k, s, to)
  PROVE  /\ kind' \in [Ids -> {"none", "adhoc", "strategy", "full"}]
         /\ rec' \in [Ids -> Rec]
         /\ exec' \in [Ids -> Exec]
         /\ \A x \in Ids : exec'[x].pc = "upload" => exec'[x].to # NoConfig
<1>1. k \in {"adhoc", "strategy", "full"}
  BY BackupAssumption DEF NewRecord
<1>2. Running(s, k = "strategy") \in Rec
  BY RunningType
<1>3. exec' = [exec EXCEPT ![b] = At("dump", to)]
  BY DEF NewRecord
<1>4. rec' = [rec EXCEPT ![b] = Running(s, k = "strategy")] /\ kind' = [kind EXCEPT ![b] = k]
  BY DEF NewRecord
<1> QED
  BY <1>1, <1>2, <1>3, <1>4, GotoType DEF TypeOK

\* New backups.
LEMMA RequestType ==
  ASSUME TypeOK, NEW b \in Ids,
         RunAdHoc(b) \/ RunFullBackup(b) \/ NextTarget(b)
  PROVE  TypeOK'
<1>1. CASE RunAdHoc(b)
  <2>1. NoConfig \in OptConfig
    BY DEF OptConfig
  <2> QED
    BY <1>1, <2>1, NewRecordType DEF RunAdHoc, TypeOK
<1>2. CASE RunFullBackup(b)
  <2>1. PICK s \in BOOLEAN, c \in configs \cup {NoConfig} : NewRecord(b, "full", s, c)
    BY <1>2 DEF RunFullBackup
  <2>2. c \in OptConfig
    BY DEF TypeOK, OptConfig
  <2>3. UNCHANGED <<configs, strat, file, old, obj, del, work, past, crashes>>
    BY <1>2 DEF RunFullBackup
  <2> QED
    BY <2>1, <2>2, <2>3, NewRecordType DEF TypeOK
<1>3. CASE NextTarget(b)
  <2>1. work' \in Work /\ work'.pc = "run"
    <3>1. /\ work \in Work /\ work.pc = "run" /\ work.left > 0
          /\ work' = [work EXCEPT !.left = @ - 1, !.cur = b]
      BY <1>3 DEF NextTarget, AtLoopHead, TypeOK
    <3>2. work.left \in 0..Targets /\ work.left - 1 \in 0..Targets /\ b \in 0..MaxBackups
      BY <3>1, BackupAssumption DEF Work, Ids
    <3> QED
      BY <3>1, <3>2 DEF Work
  <2>2. NoConfig \in OptConfig
    BY DEF OptConfig
  <2>3. NewRecord(b, "strategy", FALSE, NoConfig)
    BY <1>3 DEF NextTarget
  <2>4. UNCHANGED <<configs, strat, file, old, obj, del, past, crashes>>
    BY <1>3 DEF NextTarget
  <2> QED
    BY <2>1, <2>2, <2>3, <2>4, NewRecordType DEF TypeOK
<1> QED
  BY <1>1, <1>2, <1>3

\* The steps of a backup.
LEMMA ExecType ==
  ASSUME TypeOK, NEW b \in Ids, ExecStep(b)
  PROVE  TypeOK'
<1>0. NoConfig \in OptConfig /\ exec[b].to \in OptConfig
  BY DEF TypeOK, Exec, OptConfig
<1>1. CASE Dump(b)
  <2>1. file' \in [Ids -> {"none", "partial", "complete"}]
    BY <1>1 DEF Dump, TypeOK
  <2>2. /\ exec' \in [Ids -> Exec]
        /\ \A x \in Ids : exec'[x].pc = "upload" => exec'[x].to # NoConfig
    <3>1. PICK pc \in {"read", "upload", "write", "fail"}, to \in {exec[b].to, NoConfig} :
             /\ pc = "upload" => to # NoConfig
             /\ exec' = [exec EXCEPT ![b] = At(pc, to)]
      BY <1>1, Zenon DEF Dump, Goto
    <3> QED
      BY <1>0, <3>1, GotoType
  <2> QED
    BY <1>1, <2>1, <2>2 DEF Dump, TypeOK
<1>2. CASE ReadStrategy(b)
  <2>1. /\ exec' \in [Ids -> Exec]
        /\ \A x \in Ids : exec'[x].pc = "upload" => exec'[x].to # NoConfig
    <3>1. strat.cfg \in OptConfig
      BY DEF TypeOK
    <3>2. PICK pc \in {"write", "upload", "retain"}, to \in {strat.cfg, NoConfig} :
             /\ pc = "upload" => to # NoConfig
             /\ exec' = [exec EXCEPT ![b] = At(pc, to)]
      BY <1>2 DEF ReadStrategy, Goto
    <3> QED
      BY <1>0, <3>1, <3>2, GotoType
  <2>2. work' \in Work /\ work'.pc = work.pc /\ work'.cur = work.cur
    BY <1>2, BackupAssumption DEF ReadStrategy, TypeOK, Work
  <2> QED
    BY <1>2, <2>1, <2>2 DEF ReadStrategy, TypeOK
<1>3. CASE Upload(b)
  <2>1. exec[b].to \in Configs
    BY <1>0, <1>3 DEF Upload, TypeOK, OptConfig
  <2>2. obj' \subseteq Configs \X Ids
    BY <1>3, <2>1 DEF Upload, TypeOK
  <2>3. file' \in [Ids -> {"none", "partial", "complete"}]
    BY <1>3 DEF Upload, TypeOK
  <2>4. /\ exec' \in [Ids -> Exec]
        /\ \A x \in Ids : exec'[x].pc = "upload" => exec'[x].to # NoConfig
    <3>1. PICK pc \in {"write", "retain", "fail"}, to \in {exec[b].to, NoConfig} :
             exec' = [exec EXCEPT ![b] = At(pc, to)]
      BY <1>3 DEF Upload, AfterUpload, Goto
    <3> QED
      BY <1>0, <3>1, GotoType
  <2> QED
    BY <1>3, <2>2, <2>3, <2>4 DEF Upload, TypeOK
<1>4. CASE Retain(b)
  <2>1. work' \in Work /\ work'.pc = work.pc /\ work'.cur = work.cur
    BY <1>4 DEF Retain, Surplus, Kept, TypeOK, Work
  <2>2. exec' = [exec EXCEPT ![b] = At("delete", exec[b].to)]
    BY <1>4 DEF Retain, Goto
  <2> QED
    BY <1>0, <1>4, <2>1, <2>2, GotoType DEF Retain, TypeOK
<1>5. ASSUME NEW x \in Ids, DeleteSurplus(b, x) PROVE TypeOK'
  <2>1. work' \in Work /\ work'.pc = work.pc /\ work'.cur = work.cur
    BY <1>5 DEF DeleteSurplus, TypeOK, Work
  <2>2. /\ del' \in [Deleters -> Del]
        /\ \A d \in Deleters : del'[d].pc # "idle" => del'[d].id # 0
    <3>1. CASE rec[x].status = "ABSENT"
      BY <1>5, <3>1 DEF DeleteSurplus, TypeOK
    <3>2. CASE rec[x].status # "ABSENT"
      <4>1. BeginDelete(Worker, x) /\ Worker \in Deleters
        BY <1>5, <3>2 DEF DeleteSurplus, Deleters
      <4> QED
        BY <4>1, BeginDeleteType DEF TypeOK
    <3> QED
      BY <3>1, <3>2
  <2> QED
    BY <1>5, <2>1, <2>2 DEF DeleteSurplus, TypeOK
<1>6. CASE RetentionDone(b)
  <2>1. exec' = [exec EXCEPT ![b] = At("write", exec[b].to)]
    BY <1>6 DEF RetentionDone, Goto
  <2> QED
    BY <1>0, <1>6, <2>1, GotoType DEF RetentionDone, TypeOK
<1>7. CASE WriteSuccess(b)
  <2>1. PICK pc \in {"idle", "fail"} : exec' = [exec EXCEPT ![b] = At(pc, NoConfig)]
    BY <1>7 DEF WriteSuccess, Goto
  <2>2. rec' \in [Ids -> Rec]
    BY <1>7, SucceededType DEF WriteSuccess, TypeOK
  <2> QED
    BY <1>0, <1>7, <2>1, <2>2, GotoType DEF WriteSuccess, TypeOK
<1>8. CASE WriteFailed(b)
  <2>1. exec' = [exec EXCEPT ![b] = At("idle", NoConfig)]
    BY <1>8 DEF WriteFailed, Goto
  <2>2. rec' \in [Ids -> Rec]
    BY <1>8 DEF WriteFailed, TypeOK, Rec, Status
  <2> QED
    BY <1>0, <1>8, <2>1, <2>2, GotoType DEF WriteFailed, TypeOK
<1> QED
  BY <1>1, <1>2, <1>3, <1>4, <1>5, <1>6, <1>7, <1>8 DEF ExecStep

\* The steps of a deletion.
LEMMA DeleteType ==
  ASSUME TypeOK, NEW d \in Deleters, DeleteStep(d)
  PROVE  TypeOK'
<1>0. del[d] \in Del /\ (del[d].pc # "idle" => del[d].id \in Ids)
  BY BackupAssumption DEF TypeOK, Del, Ids
<1>1. CASE DeleteObject(d)
  <2>1. [del[d] EXCEPT !.pc = "unlink"] \in Del
    BY <1>0 DEF Del
  <2>2. del' \in [Deleters -> Del] /\ \A e \in Deleters : del'[e].pc # "idle" => del'[e].id # 0
    BY <1>0, <1>1, <2>1 DEF DeleteObject, TypeOK, Del
  <2> QED
    BY <1>1, <2>2 DEF DeleteObject, TypeOK
<1>2. CASE Unlink(d)
  <2>1. [del[d] EXCEPT !.pc = "row"] \in Del
    BY <1>0 DEF Del
  <2>2. del' \in [Deleters -> Del] /\ \A e \in Deleters : del'[e].pc # "idle" => del'[e].id # 0
    BY <1>0, <1>2, <2>1 DEF Unlink, TypeOK, Del
  <2>3. file' \in [Ids -> {"none", "partial", "complete"}]
    BY <1>2 DEF Unlink, TypeOK
  <2> QED
    BY <1>2, <2>2, <2>3 DEF Unlink, TypeOK
<1>3. CASE DeleteRow(d)
  <2>1. del' \in [Deleters -> Del] /\ \A e \in Deleters : del'[e].pc # "idle" => del'[e].id # 0
    BY <1>3, IdleTypes DEF DeleteRow, TypeOK
  <2>2. rec' \in [Ids -> Rec]
    BY <1>3, NoRecType DEF DeleteRow, TypeOK
  <2>3. past' \in [Ids -> {"none", "lost", "torn", "user"}]
    BY <1>3 DEF DeleteRow, TypeOK
  <2>4. /\ exec' \in [Ids -> Exec]
        /\ \A x \in Ids : exec'[x].pc = "upload" => exec'[x].to # NoConfig
    <3>1. CASE UNCHANGED exec
      BY <3>1 DEF TypeOK
    <3>2. CASE exec' = [b \in Ids |-> IF d = Worker /\ exec[b].pc = "delete"
                                         THEN At("write", exec[b].to) ELSE exec[b]]
      <4> SUFFICES ASSUME NEW x \in Ids
                   PROVE  exec'[x] \in Exec /\ (exec'[x].pc = "upload" => exec'[x].to # NoConfig)
        BY <3>2
      <4>1. exec[x] \in Exec /\ exec[x].to \in OptConfig
        BY DEF TypeOK, Exec
      <4>2. At("write", exec[x].to) \in Exec /\ At("write", exec[x].to).pc = "write"
        BY <4>1, AtType
      <4> QED
        BY <3>2, <4>1, <4>2 DEF TypeOK
    <3> QED
      BY <1>3, <3>1, <3>2 DEF DeleteRow
  <2> QED
    BY <1>3, <2>1, <2>2, <2>3, <2>4 DEF DeleteRow, TypeOK
<1> QED
  BY <1>1, <1>2, <1>3 DEF DeleteStep

\* The worker outside executeBackup, and the steps of nobody.
LEMMA WorkType ==
  ASSUME TypeOK, RunStrategyBackup \/ EndRun \/ StartCleanup \/ ExpireRecord \/ Sweep \/ CrashRestart
  PROVE  TypeOK'
<1>0. work \in Work
  BY DEF TypeOK
<1>1. CASE RunStrategyBackup
  <2>1. [IdleWork EXCEPT !.pc = "run", !.left = Targets] \in Work
    BY IdleTypes, WorkUpdateType
  <2>2. work' \in Work /\ work'.pc = "run"
    BY <1>1, <2>1, IdleTypes DEF RunStrategyBackup, IdleWork
  <2> QED
    BY <1>1, <2>2 DEF RunStrategyBackup, TypeOK
<1>2. CASE EndRun
  BY <1>2, IdleTypes DEF EndRun, TypeOK
<1>3. CASE StartCleanup
  <2>1. PICK S \in SUBSET Expired : work' = [IdleWork EXCEPT !.pc = "clean", !.todo = S]
    BY <1>3 DEF StartCleanup
  <2>2. S \in SUBSET Ids
    BY DEF Expired
  <2>3. [IdleWork EXCEPT !.pc = "clean", !.todo = S] \in Work
    BY <2>2, IdleTypes, WorkUpdateType
  <2>4. work' \in Work /\ work'.pc = "clean"
    BY <2>1, <2>3, IdleTypes DEF IdleWork
  <2> QED
    BY <1>3, <2>4 DEF StartCleanup, TypeOK
<1>4. CASE ExpireRecord
  <2>1. work.pc = "mark" /\ work.cur \in Ids
    <3>1. work.pc = "mark" /\ work.cur # 0
      BY <1>4 DEF ExpireRecord, TypeOK
    <3>2. work.cur \in 0..MaxBackups
      BY <1>0 DEF Work
    <3> QED
      BY <3>1, <3>2, BackupAssumption DEF Ids
  <2>2. work' \in Work /\ work'.pc = "clean"
    <3>1. work' = [work EXCEPT !.pc = "clean", !.cur = 0]
      BY <1>4 DEF ExpireRecord
    <3>2. work'.pc = "clean"
      BY <1>0, <3>1 DEF Work
    <3> QED
      BY <1>0, <3>1, <3>2, WorkUpdateType
  <2>3. rec' \in [Ids -> Rec]
    <3>1. rec \in [Ids -> Rec] /\ rec[work.cur] \in Rec
      BY <2>1 DEF TypeOK
    <3>2. [rec[work.cur] EXCEPT !.status = "EXPIRED", !.local = FALSE] \in Rec
      BY <3>1, RecUpdateType
    <3>3. \/ rec' = rec
          \/ rec' = [rec EXCEPT ![work.cur] =
                        [rec[work.cur] EXCEPT !.status = "EXPIRED", !.local = FALSE]]
      BY <1>4, Zenon DEF ExpireRecord
    <3> QED
      BY <3>1, <3>2, <3>3
  <2> QED
    BY <1>4, <2>2, <2>3 DEF ExpireRecord, TypeOK
<1>5. CASE Sweep
  <2>1. file' \in [Ids -> {"none", "partial", "complete"}]
    BY <1>5 DEF Sweep, TypeOK
  <2> QED
    BY <1>5, <2>1, IdleTypes DEF Sweep, TypeOK
<1>6. CASE CrashRestart
  <2>1. file' \in [Ids -> {"none", "partial", "complete"}]
    BY <1>6 DEF CrashRestart, TypeOK
  <2>2. past' \in [Ids -> {"none", "lost", "torn", "user"}]
    BY <1>6 DEF CrashRestart, TypeOK
  <2>3. crashes' \in 0..MaxCrashes
    BY <1>6, BackupAssumption DEF CrashRestart, TypeOK
  <2>4. /\ exec' \in [Ids -> Exec] /\ del' \in [Deleters -> Del] /\ work' \in Work
        /\ \A x \in Ids : exec'[x].pc = "idle"
        /\ \A d \in Deleters : del'[d].pc = "idle"
        /\ work'.pc = "idle"
    BY <1>6, IdleTypes DEF CrashRestart
  <2> QED
    BY <1>6, <2>1, <2>2, <2>3, <2>4 DEF CrashRestart, TypeOK
<1> QED
  BY <1>1, <1>2, <1>3, <1>4, <1>5, <1>6

LEMMA TypeStep == TypeOK /\ [Next]_vars => TypeOK'
<1> SUFFICES ASSUME TypeOK, [Next]_vars PROVE TypeOK'
  OBVIOUS
<1>1. ASSUME NEW x \in Ids, ExpireFile(x) PROVE TypeOK'
  <2>1. work' \in Work /\ work'.pc = "mark" /\ work'.cur = x /\ x # 0
    <3>1. work' = [work EXCEPT !.pc = "mark", !.cur = x, !.todo = @ \ {x}] /\ work \in Work
      BY <1>1 DEF ExpireFile, TypeOK
    <3>2. x \in 0..MaxBackups /\ x # 0
      BY BackupAssumption DEF Ids
    <3>3. work.todo \ {x} \in SUBSET Ids
      BY <3>1 DEF Work
    <3> QED
      BY <3>1, <3>2, <3>3 DEF Work
  <2>2. file' \in [Ids -> {"none", "partial", "complete"}]
    BY <1>1 DEF ExpireFile, TypeOK
  <2> QED
    BY <1>1, <2>1, <2>2 DEF ExpireFile, TypeOK
<1>2. ASSUME NEW u \in Users, NEW x \in Ids, RequestDelete(u, x) PROVE TypeOK'
  <2>1. BeginDelete(u, x) /\ u \in Deleters
    BY <1>2 DEF RequestDelete, Deleters
  <2>2. /\ del' \in [Deleters -> Del]
        /\ \A d \in Deleters : del'[d].pc # "idle" => del'[d].id # 0
    BY <2>1, BeginDeleteType DEF TypeOK
  <2> QED
    BY <1>2, <2>2 DEF RequestDelete, TypeOK
<1>3. ASSUME NEW b \in Ids, GrowOld(b) PROVE TypeOK'
  BY <1>3 DEF GrowOld, TypeOK
<1>4. CASE UNCHANGED vars
  BY <1>4 DEF vars, TypeOK
<1>5. ASSUME UpdateStrategy \/ DeleteStrategy \/ \E c \in Configs : DeleteS3Config(c)
      PROVE  TypeOK'
  <2>1. CASE UpdateStrategy
    BY <2>1 DEF UpdateStrategy, TypeOK, OptConfig
  <2>2. CASE DeleteStrategy
    <3>1. rec' \in [Ids -> Rec]
      <4> SUFFICES ASSUME NEW x \in Ids PROVE [rec[x] EXCEPT !.link = FALSE] \in Rec
        BY <2>2 DEF DeleteStrategy
      <4> QED
        BY RecUpdateType DEF TypeOK
    <3> QED
      BY <2>2, <3>1 DEF DeleteStrategy, TypeOK
  <2>3. CASE \E c \in Configs : DeleteS3Config(c)
    BY <2>3 DEF DeleteS3Config, TypeOK, OptConfig
  <2> QED
    BY <1>5, <2>1, <2>2, <2>3
<1>6. CASE WorkStep
  <2>1. CASE \E b \in Ids : NextTarget(b)
    BY <2>1, RequestType
  <2>2. CASE \E x \in Ids : ExpireFile(x)
    BY <1>1, <2>2
  <2>3. CASE EndRun \/ ExpireRecord \/ Sweep
    BY <2>3, WorkType
  <2> QED
    BY <1>6, <2>1, <2>2, <2>3 DEF WorkStep
<1>7. CASE \E b \in Ids : RunAdHoc(b) \/ RunFullBackup(b) \/ ExecStep(b)
  BY <1>7, RequestType, ExecType
<1>8. CASE \E d \in Deleters : DeleteStep(d)
  BY <1>8, DeleteType
<1>9. CASE RunStrategyBackup \/ StartCleanup \/ CrashRestart
  BY <1>9, WorkType
<1> QED
  BY <1>2, <1>3, <1>4, <1>5, <1>6, <1>7, <1>8, <1>9 DEF Next

\* Every record, call and column has its type, for any number of backups.
THEOREM BackupsTypeCorrect == Spec => []TypeOK
  BY TypeInit, TypeStep, PTL DEF Spec

-----------------------------------------------------------------------------
(* What the actions leave alone.                                           *)

\* A request for a backup, or the next target, touches a fresh id only.
LEMMA NewEffect ==
  ASSUME TypeOK, NEW b \in Ids, RunAdHoc(b) \/ RunFullBackup(b) \/ NextTarget(b)
  PROVE  /\ kind[b] = "none" /\ kind'[b] # "none" /\ exec'[b].pc = "dump"
         /\ rec'[b].status = "RUNNING"
         /\ ~rec'[b].key /\ ~rec'[b].local /\ ~rec'[b].expires
         /\ rec'[b].link = (kind'[b] = "strategy")
         /\ \A x \in Ids \ {b} : rec'[x] = rec[x] /\ exec'[x] = exec[x] /\ kind'[x] = kind[x]
         /\ UNCHANGED <<configs, strat, file, old, obj, del, past>>
         /\ kind'[b] = "strategy" => NextTarget(b)
         /\ work' = work \/ NextTarget(b)
<1>1. PICK k \in {"adhoc", "full", "strategy"} :
         \E s \in BOOLEAN, to \in OptConfig :
             /\ NewRecord(b, k, s, to)
             /\ k = "strategy" => NextTarget(b)
             /\ work' = work \/ NextTarget(b)
             /\ UNCHANGED <<configs, strat, file, old, obj, del, past>>
  <2>1. NoConfig \in OptConfig /\ configs \cup {NoConfig} \subseteq OptConfig
    BY DEF TypeOK, OptConfig
  <2>2. CASE RunAdHoc(b)
    BY <2>1, <2>2 DEF RunAdHoc
  <2>3. CASE RunFullBackup(b)
    BY <2>1, <2>3 DEF RunFullBackup
  <2>4. CASE NextTarget(b)
    <3>1. NewRecord(b, "strategy", FALSE, NoConfig)
      BY <2>4 DEF NextTarget
    <3>2. UNCHANGED <<configs, strat, file, old, obj, del, past>>
      BY <2>4 DEF NextTarget
    <3> QED
      BY <2>1, <2>4, <3>1, <3>2
  <2> QED
    BY <2>2, <2>3, <2>4
<1>2. PICK s \in BOOLEAN, to \in OptConfig : NewRecord(b, k, s, to)
  BY <1>1
<1>3. /\ kind[b] = "none"
      /\ kind' = [kind EXCEPT ![b] = k]
      /\ rec' = [rec EXCEPT ![b] = Running(s, k = "strategy")]
      /\ exec' = [exec EXCEPT ![b] = At("dump", to)]
  BY <1>2 DEF NewRecord
<1>4. At("dump", to).pc = "dump"
  BY AtType
<1> QED
  BY <1>1, <1>3, <1>4, RunningType DEF TypeOK

\* A step of a backup touches its own record and archive only, and its record
\* at its end only.
LEMMA ExecEffect ==
  ASSUME TypeOK, NEW b \in Ids, ExecStep(b)
  PROVE  /\ exec[b].pc # "idle"
         /\ \A x \in Ids \ {b} : rec'[x] = rec[x] /\ exec'[x] = exec[x] /\ file'[x] = file[x]
         /\ rec'[b] = rec[b] \/ exec'[b].pc = "idle"
         /\ UNCHANGED <<configs, strat, kind, old, past>>
         /\ obj \subseteq obj'
<1>0. NoConfig \in OptConfig /\ exec[b].to \in OptConfig /\ strat.cfg \in OptConfig
  BY DEF TypeOK, Exec, OptConfig
<1>1. CASE Dump(b)
  BY <1>1 DEF Dump, Goto, TypeOK
<1>2. CASE ReadStrategy(b)
  BY <1>2 DEF ReadStrategy, Goto, TypeOK
<1>3. CASE Upload(b)
  BY <1>3 DEF Upload, Goto, TypeOK
<1>4. CASE Retain(b)
  BY <1>4 DEF Retain, Goto, TypeOK
<1>5. CASE \E x \in Ids : DeleteSurplus(b, x)
  BY <1>5 DEF DeleteSurplus
<1>6. CASE RetentionDone(b)
  BY <1>6 DEF RetentionDone, Goto, TypeOK
<1>7. CASE WriteSuccess(b)
  BY <1>0, <1>7, AtType DEF WriteSuccess, Goto, TypeOK
<1>8. CASE WriteFailed(b)
  BY <1>0, <1>8, AtType DEF WriteFailed, Goto, TypeOK
<1> QED
  BY <1>1, <1>2, <1>3, <1>4, <1>5, <1>6, <1>7, <1>8 DEF ExecStep

\* A step of a deletion touches one record and its archives, and the backup
\* that enforces retention when the row is gone.
LEMMA DeleteEffect ==
  ASSUME TypeOK, NEW d \in Deleters, DeleteStep(d)
  PROVE  /\ del[d].id \in Ids
         /\ del[d].pc # "idle"
         /\ \A e \in Deleters \ {d} : del'[e] = del[e]
         /\ \/ del'[d].pc # "idle" /\ del'[d].id = del[d].id /\ del'[d].local = del[d].local
               /\ del'[d].pc \in {"unlink", "row"} /\ rec' = rec /\ past' = past
            \/ del'[d].pc = "idle" /\ del'[d].id = 0 /\ ~del'[d].local
               /\ rec'[del[d].id].status = "ABSENT" /\ file' = file /\ obj' = obj
         /\ rec' # rec => rec' = [rec EXCEPT ![del[d].id] = NoRec]
         /\ \A x \in Ids \ {del[d].id} : past'[x] = past[x] /\ file'[x] = file[x]
         /\ file' # file => del[d].pc = "unlink" /\ del[d].local
         /\ \A x \in Ids, c \in Configs :
               <<c, x>> \in obj /\ x # del[d].id => <<c, x>> \in obj'
         /\ obj' # obj => del[d].pc = "object"
         /\ \A b \in Ids : \/ exec'[b] = exec[b]
                           \/ exec[b].pc = "delete" /\ exec'[b] = At("write", exec[b].to)
         /\ UNCHANGED <<configs, strat, kind, old, work>>
<1>0. /\ del[d] \in Del /\ del[d].pc # "idle" /\ del[d].id # 0
  BY DEF TypeOK, DeleteStep, DeleteObject, Unlink, DeleteRow
<1>1. del[d].id \in Ids
  BY <1>0, BackupAssumption DEF Del, Ids
<1>2. CASE DeleteObject(d)
  BY <1>0, <1>1, <1>2 DEF DeleteObject, TypeOK, Del
<1>3. CASE Unlink(d)
  BY <1>0, <1>1, <1>3 DEF Unlink, TypeOK, Del
<1>4. CASE DeleteRow(d)
  <2>1. NoRec.status = "ABSENT"
    BY DEF NoRec
  <2>2. \A b \in Ids : \/ exec'[b] = exec[b]
                       \/ exec[b].pc = "delete" /\ exec'[b] = At("write", exec[b].to)
    BY <1>4 DEF DeleteRow
  <2>3. del' = [del EXCEPT ![d] = IdleDel]
    BY <1>4 DEF DeleteRow
  <2>4. \/ rec' = [rec EXCEPT ![del[d].id] = NoRec]
        \/ rec' = rec /\ rec[del[d].id].status = "ABSENT"
    BY <1>4 DEF DeleteRow
  <2>5. \A x \in Ids \ {del[d].id} : past'[x] = past[x]
    BY <1>4 DEF DeleteRow, TypeOK
  <2>6. UNCHANGED <<configs, strat, kind, file, old, obj, work>>
    BY <1>4 DEF DeleteRow
  <2> QED
    BY <1>0, <1>1, <2>1, <2>2, <2>3, <2>4, <2>5, <2>6, IdleTypes DEF TypeOK
<1> QED
  BY <1>2, <1>3, <1>4 DEF DeleteStep

\* A deletion begins with a record that is there.
LEMMA BeginEffect ==
  ASSUME TypeOK,
         \/ \E b \in Ids : ExecStep(b)
         \/ \E u \in Users, x \in Ids : RequestDelete(u, x)
  PROVE  \/ del' = del
         \/ \E d \in Deleters, x \in Ids :
               /\ BeginDelete(d, x) /\ del[d].pc = "idle" /\ rec[x].status # "ABSENT"
               /\ UNCHANGED <<kind, rec, file, old, obj, exec, past>>
<1>1. CASE \E u \in Users, x \in Ids : RequestDelete(u, x)
  BY <1>1 DEF RequestDelete, Deleters
<1>2. ASSUME NEW b \in Ids, ExecStep(b), ~(\E x \in Ids : DeleteSurplus(b, x))
      PROVE  del' = del
  BY <1>2 DEF ExecStep, Dump, ReadStrategy, Upload, Retain, RetentionDone, WriteSuccess, WriteFailed
<1>3. ASSUME NEW b \in Ids, NEW x \in Ids, DeleteSurplus(b, x)
      PROVE  \/ del' = del
             \/ /\ BeginDelete(Worker, x) /\ del[Worker].pc = "idle" /\ rec[x].status # "ABSENT"
                /\ UNCHANGED <<kind, rec, file, old, obj, exec, past>>
  BY <1>3 DEF DeleteSurplus
<1> QED
  BY <1>1, <1>2, <1>3 DEF Deleters

\* The clean-up touches old archives and their records only.
CleanStep == (\E x \in Ids : ExpireFile(x)) \/ ExpireRecord \/ Sweep

LEMMA CleanEffect ==
  ASSUME TypeOK, CleanInv, CleanStep
  PROVE  /\ UNCHANGED <<configs, strat, kind, old, obj, exec, del, past>>
         /\ \A x \in Ids : file'[x] = file[x] \/ (x \in old /\ file'[x] = "none")
         /\ \A x \in Ids : \/ rec'[x] = rec[x]
                           \/ /\ x \in old /\ rec[x].status # "ABSENT"
                              /\ rec'[x].status = "EXPIRED" /\ rec'[x].link = rec[x].link
         /\ work.pc \in {"clean", "mark"} /\ work'.pc # "run"
<1>0. work \in Work
  BY DEF TypeOK
<1>1. ASSUME NEW x \in Ids, ExpireFile(x)
      PROVE  /\ work.pc = "clean" /\ work'.pc = "mark" /\ x \in old
             /\ file' = [file EXCEPT ![x] = "none"]
             /\ UNCHANGED <<configs, strat, kind, rec, old, obj, exec, del, past>>
  BY <1>0, <1>1 DEF ExpireFile, CleanInv, Work
<1>2. CASE ExpireRecord
  <2>1. work.pc = "mark" /\ work'.pc = "clean" /\ work.cur \in old
    BY <1>0, <1>2 DEF ExpireRecord, CleanInv, Work
  <2>2. UNCHANGED <<configs, strat, kind, file, old, obj, exec, del, past>>
    BY <1>2 DEF ExpireRecord
  <2>3. \/ rec' = rec
        \/ /\ rec[work.cur].status # "ABSENT"
           /\ rec' = [rec EXCEPT ![work.cur] =
                        [rec[work.cur] EXCEPT !.status = "EXPIRED", !.local = FALSE]]
    BY <1>2, Zenon DEF ExpireRecord
  <2>4. work.cur \in Ids
    BY <2>1 DEF TypeOK
  <2>5. LET r == [rec[work.cur] EXCEPT !.status = "EXPIRED", !.local = FALSE]
        IN  r.status = "EXPIRED" /\ r.link = rec[work.cur].link
    BY <2>4 DEF TypeOK, Rec
  <2> QED
    BY <2>1, <2>2, <2>3, <2>4, <2>5 DEF TypeOK
<1>3. CASE Sweep
  BY <1>3, IdleTypes DEF Sweep
<1>4. CASE \E x \in Ids : ExpireFile(x)
  BY <1>1, <1>4 DEF TypeOK
<1> QED
  BY <1>2, <1>3, <1>4 DEF CleanStep

\* Without its strategy a record is otherwise as it was.
LEMMA UnlinkEffect ==
  ASSUME TypeOK, DeleteStrategy
  PROVE  /\ \A x \in Ids : /\ rec'[x].status = rec[x].status /\ rec'[x].key = rec[x].key
                           /\ rec'[x].local = rec[x].local /\ rec'[x].expires = rec[x].expires
         /\ UNCHANGED <<configs, kind, file, old, obj, exec, del, work, past>>
<1> SUFFICES ASSUME NEW x \in Ids
             PROVE  /\ rec'[x].status = rec[x].status /\ rec'[x].key = rec[x].key
                    /\ rec'[x].local = rec[x].local /\ rec'[x].expires = rec[x].expires
  BY DEF DeleteStrategy
<1>1. rec'[x] = [rec[x] EXCEPT !.link = FALSE] /\ rec[x] \in Rec
  BY DEF DeleteStrategy, TypeOK
<1> QED
  BY <1>1 DEF Rec

\* The other steps touch neither records nor archives nor calls.
QuietStep ==
    \/ UpdateStrategy
    \/ \E c \in Configs : DeleteS3Config(c)
    \/ RunStrategyBackup
    \/ StartCleanup
    \/ EndRun
    \/ UNCHANGED vars

LEMMA QuietEffect ==
  ASSUME QuietStep
  PROVE  UNCHANGED <<kind, rec, file, old, obj, exec, del, past>>
  BY DEF QuietStep, UpdateStrategy, DeleteS3Config, RunStrategyBackup, StartCleanup, EndRun, vars

\* The kinds of steps the lemmas below go through.
LEMMA NextCases ==
  ASSUME [Next]_vars
  PROVE  \/ QuietStep
         \/ DeleteStrategy
         \/ \E b \in Ids : RunAdHoc(b) \/ RunFullBackup(b) \/ NextTarget(b)
         \/ \E b \in Ids : ExecStep(b)
         \/ \E u \in Users, x \in Ids : RequestDelete(u, x)
         \/ \E d \in Deleters : DeleteStep(d)
         \/ CleanStep
         \/ \E b \in Ids : GrowOld(b)
         \/ CrashRestart
<1>1. CASE WorkStep
  BY <1>1, Zenon DEF WorkStep, QuietStep, CleanStep
<1>2. CASE UpdateStrategy \/ (\E c \in Configs : DeleteS3Config(c)) \/ RunStrategyBackup
           \/ StartCleanup \/ UNCHANGED vars
  BY <1>2 DEF QuietStep
<1>3. CASE (\E b \in Ids : RunAdHoc(b)) \/ (\E b \in Ids : RunFullBackup(b))
  BY <1>3
<1> QED
  BY <1>1, <1>2, <1>3, Zenon DEF Next

-----------------------------------------------------------------------------
(* SuccessHasArchive, conjunct by conjunct of ArchiveInv.                  *)

LEMMA ArchiveInit == Init => TypeOK /\ ArchiveInv
<1> SUFFICES ASSUME Init PROVE ArchiveInv
  BY TypeInit
<1>1. \A b \in Ids : rec[b] = NoRec /\ file[b] = "none" /\ exec[b].pc = "idle" /\ b \notin old
  BY IdleTypes DEF Init
<1>2. \A d \in Deleters : del[d].pc = "idle" /\ del[d].id = 0
  BY IdleTypes DEF Init
<1>3. work.pc = "idle" /\ 0 \notin Ids
  BY IdleTypes, BackupAssumption DEF Init, Ids
<1>4. NoRec.status = "ABSENT" /\ ~NoRec.expires
  BY DEF NoRec
<1>5. FreshInv /\ OverInv /\ RunInv /\ ExecInv
  BY <1>1, <1>2, <1>3, <1>4 DEF FreshInv, OverInv, RunInv, ExecInv
<1>6. DeleteInv /\ CleanInv
  BY <1>2, <1>3 DEF DeleteInv, CleanInv
<1>7. SuccessHasArchive
  BY <1>1, <1>4 DEF SuccessHasArchive
<1> QED
  BY <1>5, <1>6, <1>7 DEF ArchiveInv

LEMMA FreshStep == TypeOK /\ FreshInv /\ CleanInv /\ [Next]_vars => FreshInv'
<1> SUFFICES ASSUME TypeOK, FreshInv, CleanInv, [Next]_vars PROVE FreshInv'
  OBVIOUS
<1>1. CASE QuietStep
  BY <1>1, QuietEffect DEF FreshInv
<1>2. CASE DeleteStrategy
  BY <1>2, UnlinkEffect DEF FreshInv
<1>3. ASSUME NEW b \in Ids, RunAdHoc(b) \/ RunFullBackup(b) \/ NextTarget(b) PROVE FreshInv'
  BY <1>3, NewEffect DEF FreshInv
<1>4. CASE (\E b \in Ids : ExecStep(b)) \/ \E u \in Users, x \in Ids : RequestDelete(u, x)
  <2>1. CASE \E d \in Deleters, x \in Ids :
               /\ BeginDelete(d, x) /\ del[d].pc = "idle" /\ rec[x].status # "ABSENT"
               /\ UNCHANGED <<kind, rec, file, old, obj, exec, past>>
    <3>1. PICK d \in Deleters, x \in Ids :
               /\ BeginDelete(d, x) /\ rec[x].status # "ABSENT"
               /\ UNCHANGED <<kind, rec, file, old, obj, exec, past>>
      BY <2>1
    <3>2. del'[d].id = x /\ \A e \in Deleters \ {d} : del'[e] = del[e]
      BY <3>1, BeginDeleteType
    <3> QED
      BY <3>1, <3>2 DEF FreshInv
  <2>2. ASSUME del' = del, NEW b \in Ids, ExecStep(b) PROVE FreshInv'
    BY <2>2, ExecEffect DEF FreshInv
  <2>3. ASSUME del' = del, NEW u \in Users, NEW x \in Ids, RequestDelete(u, x) PROVE FreshInv'
    BY <2>3 DEF FreshInv, RequestDelete
  <2> QED
    BY <1>4, <2>1, <2>2, <2>3, BeginEffect
<1>5. ASSUME NEW d \in Deleters, DeleteStep(d) PROVE FreshInv'
  <2>1. \A b \in Ids : rec'[b] = rec[b] \/ rec'[b] = NoRec
    BY <1>5, DeleteEffect DEF TypeOK
  <2>2. \A b \in Ids : exec[b].pc = "idle" => exec'[b].pc = "idle"
    BY <1>5, DeleteEffect
  <2>3. \A e \in Deleters : del'[e].id = del[e].id \/ del'[e].id \notin Ids
    BY <1>5, DeleteEffect, BackupAssumption DEF Ids
  <2>4. \A b \in Ids : file'[b] = file[b] \/ \E e \in Deleters : del[e].id = b
    BY <1>5, DeleteEffect
  <2>5. UNCHANGED <<kind, old>>
    BY <1>5, DeleteEffect
  <2> QED
    BY <2>1, <2>2, <2>3, <2>4, <2>5 DEF FreshInv, NoRec
<1>6. CASE CleanStep
  BY <1>6, CleanEffect DEF FreshInv
<1>7. ASSUME NEW b \in Ids, GrowOld(b) PROVE FreshInv'
  BY <1>7 DEF GrowOld, FreshInv
<1>8. CASE CrashRestart
  <2>1. \A b \in Ids : exec[b].pc # "dump" => file'[b] = file[b]
    BY <1>8 DEF CrashRestart
  <2>2. /\ \A b \in Ids : exec'[b].pc = "idle"
        /\ \A d \in Deleters : del'[d].id \notin Ids
        /\ UNCHANGED <<kind, rec, old>>
    BY <1>8, IdleTypes, BackupAssumption DEF CrashRestart, Ids
  <2> QED
    BY <2>1, <2>2 DEF FreshInv
<1> QED
  BY <1>1, <1>2, <1>3, <1>4, <1>5, <1>6, <1>7, <1>8, NextCases

LEMMA OverStep == TypeOK /\ FreshInv /\ OverInv /\ CleanInv /\ [Next]_vars => OverInv'
<1> SUFFICES ASSUME TypeOK, FreshInv, OverInv, CleanInv, [Next]_vars PROVE OverInv'
  OBVIOUS
<1>1. CASE QuietStep
  BY <1>1, QuietEffect DEF OverInv
<1>2. CASE DeleteStrategy
  BY <1>2, UnlinkEffect DEF OverInv
<1>3. ASSUME NEW b \in Ids, RunAdHoc(b) \/ RunFullBackup(b) \/ NextTarget(b) PROVE OverInv'
  BY <1>3, NewEffect DEF FreshInv, OverInv
<1>4. ASSUME NEW b \in Ids, ExecStep(b) PROVE OverInv'
  BY <1>4, ExecEffect DEF OverInv
<1>5. CASE \E u \in Users, x \in Ids : RequestDelete(u, x)
  BY <1>5 DEF RequestDelete, OverInv
<1>6. ASSUME NEW d \in Deleters, DeleteStep(d) PROVE OverInv'
  <2>1. \A b \in Ids : rec'[b] = rec[b] \/ rec'[b] = NoRec
    BY <1>6, DeleteEffect DEF TypeOK
  <2>2. \A b \in Ids : exec[b].pc = "idle" => exec'[b].pc = "idle"
    BY <1>6, DeleteEffect
  <2>3. UNCHANGED old
    BY <1>6, DeleteEffect
  <2> QED
    BY <2>1, <2>2, <2>3 DEF OverInv, NoRec
<1>7. CASE CleanStep
  BY <1>7, CleanEffect DEF OverInv
<1>8. ASSUME NEW b \in Ids, GrowOld(b) PROVE OverInv'
  BY <1>8 DEF GrowOld, OverInv
<1>9. CASE CrashRestart
  BY <1>9, IdleTypes DEF CrashRestart, OverInv
<1> QED
  BY <1>1, <1>2, <1>3, <1>4, <1>5, <1>6, <1>7, <1>8, <1>9, NextCases

LEMMA DeleteInvStep ==
  TypeOK /\ FreshInv /\ OverInv /\ DeleteInv /\ CleanInv /\ [Next]_vars => DeleteInv'
<1> SUFFICES ASSUME TypeOK, FreshInv, OverInv, DeleteInv, CleanInv, [Next]_vars PROVE DeleteInv'
  OBVIOUS
<1>0. \A d \in Deleters : del[d].pc # "idle" => del[d].id \in Ids
  BY BackupAssumption DEF TypeOK, Del, Ids
<1>1. CASE QuietStep
  BY <1>1, QuietEffect DEF DeleteInv
<1>2. CASE DeleteStrategy
  BY <1>2, UnlinkEffect DEF DeleteInv
<1>3. ASSUME NEW b \in Ids, RunAdHoc(b) \/ RunFullBackup(b) \/ NextTarget(b) PROVE DeleteInv'
  <2>1. \A d \in Deleters : del'[d] = del[d] /\ del[d].id # b
    BY <1>3, NewEffect DEF FreshInv
  <2>2. \A x \in Ids \ {b} : exec'[x] = exec[x]
    BY <1>3, NewEffect
  <2> QED
    BY <1>0, <2>1, <2>2 DEF DeleteInv
<1>4. ASSUME NEW b \in Ids, ExecStep(b), del' = del PROVE DeleteInv'
  <2>1. exec[b].pc # "idle" /\ \A x \in Ids \ {b} : exec'[x] = exec[x]
    BY <1>4, ExecEffect
  <2> QED
    BY <1>0, <1>4, <2>1 DEF DeleteInv
<1>5. ASSUME NEW u \in Users, NEW x \in Ids, RequestDelete(u, x), del' = del PROVE DeleteInv'
  BY <1>5 DEF RequestDelete, DeleteInv
<1>6. ASSUME NEW d \in Deleters, NEW x \in Ids, BeginDelete(d, x), exec' = exec PROVE DeleteInv'
  <2>1. /\ \A e \in Deleters \ {d} : del'[e] = del[e]
        /\ del'[d].id = x
        /\ del'[d].pc = "object" => rec[x].key
        /\ del'[d].local = rec[x].local
    BY <1>6, BeginDeleteType
  <2>2. rec[x].key \/ rec[x].local => exec[x].pc = "idle"
    BY DEF OverInv
  <2> QED
    BY <1>6, <2>1, <2>2 DEF DeleteInv
<1>7. ASSUME NEW d \in Deleters, DeleteStep(d) PROVE DeleteInv'
  <2>1. \A b \in Ids : exec[b].pc = "idle" => exec'[b].pc = "idle"
    BY <1>7, DeleteEffect
  <2>2. \A e \in Deleters \ {d} : del'[e] = del[e]
    BY <1>7, DeleteEffect
  <2>3. \/ del'[d].pc = "unlink" /\ del[d].pc = "object" /\ del'[d].id = del[d].id
        \/ del'[d].pc \in {"row", "idle"}
    BY <1>7, IdleTypes DEF TypeOK, DeleteStep, DeleteObject, Unlink, DeleteRow, Del
  <2> QED
    BY <1>0, <2>1, <2>2, <2>3 DEF DeleteInv
<1>8. CASE CleanStep
  BY <1>8, CleanEffect DEF DeleteInv
<1>9. ASSUME NEW b \in Ids, GrowOld(b) PROVE DeleteInv'
  BY <1>9 DEF GrowOld, DeleteInv
<1>10. CASE CrashRestart
  BY <1>10, IdleTypes DEF CrashRestart, DeleteInv
<1>11. CASE (\E b \in Ids : ExecStep(b)) \/ \E u \in Users, x \in Ids : RequestDelete(u, x)
  BY <1>4, <1>5, <1>6, <1>11, BeginEffect
<1> QED
  BY <1>1, <1>2, <1>3, <1>7, <1>8, <1>9, <1>10, <1>11, NextCases

\* Where the steps of the worker's backup leave the worker.
LEMMA RunEffect ==
  ASSUME TypeOK, RunInv, NEW b \in Ids, ExecStep(b)
  PROVE  /\ work'.pc = work.pc /\ work'.cur = work.cur
         /\ exec'[b].pc \in {"read", "retain", "delete"} => kind[b] = "strategy"
         /\ work' # work => work.pc = "run"
<1>0. work \in Work /\ exec[b].to \in OptConfig /\ NoConfig \in OptConfig /\ strat.cfg \in OptConfig
  BY DEF TypeOK, Exec, OptConfig
<1>1. CASE Dump(b)
  BY <1>0, <1>1, AtType DEF Dump, Goto, TypeOK
<1>2. CASE ReadStrategy(b)
  <2>1. kind[b] = "strategy" /\ work.pc = "run"
    BY <1>2 DEF ReadStrategy, RunInv
  <2> QED
    BY <1>0, <1>2, <2>1 DEF ReadStrategy, Work
<1>3. CASE Upload(b)
  BY <1>0, <1>3, AtType DEF Upload, AfterUpload, Goto, TypeOK
<1>4. CASE Retain(b)
  <2>1. kind[b] = "strategy" /\ work.pc = "run"
    BY <1>4 DEF Retain, RunInv
  <2> QED
    BY <1>0, <1>4, <2>1 DEF Retain, Work
<1>5. CASE \E x \in Ids : DeleteSurplus(b, x)
  <2>1. kind[b] = "strategy" /\ work.pc = "run"
    BY <1>5 DEF DeleteSurplus, RunInv
  <2> QED
    BY <1>0, <1>5, <2>1 DEF DeleteSurplus, Work
<1>6. CASE RetentionDone(b)
  BY <1>0, <1>6, AtType DEF RetentionDone, Goto, TypeOK
<1>7. CASE WriteSuccess(b)
  BY <1>0, <1>7, AtType DEF WriteSuccess, Goto, TypeOK
<1>8. CASE WriteFailed(b)
  BY <1>0, <1>8, AtType DEF WriteFailed, Goto, TypeOK
<1> QED
  BY <1>1, <1>2, <1>3, <1>4, <1>5, <1>6, <1>7, <1>8 DEF ExecStep

LEMMA RunStep == TypeOK /\ FreshInv /\ RunInv /\ CleanInv /\ [Next]_vars => RunInv'
<1> SUFFICES ASSUME TypeOK, FreshInv, RunInv, CleanInv, [Next]_vars PROVE RunInv'
  OBVIOUS
<1>0. work \in Work /\ 0 \notin Ids
  BY BackupAssumption DEF TypeOK, Ids
<1>1. CASE QuietStep
  <2>1. \/ work' = work
        \/ work.pc = "idle"
        \/ AtLoopHead
    BY <1>1 DEF QuietStep, UpdateStrategy, DeleteS3Config, RunStrategyBackup, StartCleanup, EndRun, vars
  <2> QED
    BY <1>0, <1>1, <2>1, QuietEffect DEF RunInv, AtLoopHead
<1>2. CASE DeleteStrategy
  BY <1>2, UnlinkEffect DEF RunInv
<1>3. ASSUME NEW b \in Ids, RunAdHoc(b) \/ RunFullBackup(b) \/ NextTarget(b) PROVE RunInv'
  <2>1. CASE NextTarget(b)
    <3>1. AtLoopHead /\ work' = [work EXCEPT !.left = @ - 1, !.cur = b]
      BY <2>1 DEF NextTarget
    <3>2. work'.pc = "run" /\ work'.cur = b
      BY <1>0, <3>1 DEF AtLoopHead, Work
    <3>3. \A x \in Ids : exec[x].pc = "idle" \/ kind[x] # "strategy"
      BY <1>0, <3>1 DEF AtLoopHead, RunInv
    <3> QED
      BY <1>3, <3>2, <3>3, NewEffect DEF RunInv
  <2>2. CASE ~NextTarget(b)
    BY <1>3, <2>2, NewEffect DEF RunInv
  <2> QED
    BY <2>1, <2>2
<1>4. ASSUME NEW b \in Ids, ExecStep(b) PROVE RunInv'
  BY <1>4, ExecEffect, RunEffect DEF RunInv
<1>5. CASE \E u \in Users, x \in Ids : RequestDelete(u, x)
  BY <1>5 DEF RequestDelete, RunInv
<1>6. ASSUME NEW d \in Deleters, DeleteStep(d) PROVE RunInv'
  <2>1. /\ UNCHANGED <<kind, work>>
        /\ \A b \in Ids : \/ exec'[b] = exec[b]
                          \/ exec[b].pc = "delete" /\ exec'[b] = At("write", exec[b].to)
    BY <1>6, DeleteEffect
  <2>2. \A b \in Ids : At("write", exec[b].to).pc = "write"
    BY AtType DEF TypeOK, Exec
  <2> QED
    BY <2>1, <2>2 DEF RunInv
<1>7. CASE CleanStep
  BY <1>7, CleanEffect DEF RunInv
<1>8. ASSUME NEW b \in Ids, GrowOld(b) PROVE RunInv'
  BY <1>8 DEF GrowOld, RunInv
<1>9. CASE CrashRestart
  BY <1>9, IdleTypes DEF CrashRestart, RunInv
<1> QED
  BY <1>1, <1>2, <1>3, <1>4, <1>5, <1>6, <1>7, <1>8, <1>9, NextCases

LEMMA CleanInvStep ==
  TypeOK /\ RunInv /\ CleanInv /\ [Next]_vars => CleanInv'
<1> SUFFICES ASSUME TypeOK, RunInv, CleanInv, [Next]_vars PROVE CleanInv'
  OBVIOUS
<1>0. work \in Work
  BY DEF TypeOK
<1>1. CASE work' = work /\ old \subseteq old'
  BY <1>1 DEF CleanInv
<1>2. CASE work'.pc \notin {"clean", "mark"}
  BY <1>2 DEF CleanInv
<1>3. CASE StartCleanup
  <2>1. PICK S \in SUBSET Expired : work' = [IdleWork EXCEPT !.pc = "clean", !.todo = S]
    BY <1>3 DEF StartCleanup
  <2>2. work'.pc = "clean" /\ work'.todo = S
    BY <2>1, IdleTypes DEF Work
  <2>3. S \subseteq old /\ old' = old
    BY <1>3 DEF StartCleanup, Expired
  <2> QED
    BY <2>2, <2>3 DEF CleanInv
<1>4. ASSUME NEW x \in Ids, ExpireFile(x) PROVE CleanInv'
  <2>1. /\ work.pc = "clean" /\ x \in work.todo /\ old' = old
        /\ work' = [work EXCEPT !.pc = "mark", !.cur = x, !.todo = @ \ {x}]
    BY <1>4 DEF ExpireFile
  <2>2. work'.cur = x /\ work'.todo \subseteq work.todo
    BY <1>0, <2>1 DEF Work
  <2> QED
    BY <2>1, <2>2 DEF CleanInv
<1>5. CASE ExpireRecord
  <2>1. work.pc = "mark" /\ old' = old /\ work' = [work EXCEPT !.pc = "clean", !.cur = 0]
    BY <1>5 DEF ExpireRecord
  <2>2. work'.pc = "clean" /\ work'.todo = work.todo
    BY <1>0, <2>1 DEF Work
  <2> QED
    BY <2>1, <2>2 DEF CleanInv
<1>6. CASE Sweep \/ EndRun \/ CrashRestart
  BY <1>2, <1>6, IdleTypes DEF Sweep, EndRun, CrashRestart
<1>7. CASE RunStrategyBackup
  <2>1. [IdleWork EXCEPT !.pc = "run", !.left = Targets].pc = "run"
    BY IdleTypes DEF Work
  <2> QED
    BY <1>2, <1>7, <2>1 DEF RunStrategyBackup
<1>8. ASSUME NEW b \in Ids, RunAdHoc(b) \/ RunFullBackup(b) \/ NextTarget(b) PROVE CleanInv'
  <2>1. CASE NextTarget(b)
    <3>1. work.pc = "run" /\ work' = [work EXCEPT !.left = @ - 1, !.cur = b]
      BY <2>1 DEF NextTarget, AtLoopHead
    <3>2. work'.pc = "run"
      BY <1>0, <3>1 DEF Work
    <3> QED
      BY <1>2, <3>2
  <2>2. CASE ~NextTarget(b)
    BY <1>1, <1>8, <2>2, NewEffect
  <2> QED
    BY <2>1, <2>2
<1>9. ASSUME NEW b \in Ids, ExecStep(b) PROVE CleanInv'
  BY <1>1, <1>2, <1>9, ExecEffect, RunEffect
<1>10. CASE \E d \in Deleters : DeleteStep(d)
  BY <1>1, <1>10, DeleteEffect
<1>11. CASE UpdateStrategy \/ (\E c \in Configs : DeleteS3Config(c)) \/ DeleteStrategy \/ UNCHANGED vars
  BY <1>1, <1>11 DEF UpdateStrategy, DeleteS3Config, DeleteStrategy, vars
<1>12. CASE \E u \in Users, x \in Ids : RequestDelete(u, x)
  BY <1>1, <1>12 DEF RequestDelete
<1>13. ASSUME NEW b \in Ids, GrowOld(b) PROVE CleanInv'
  BY <1>1, <1>13 DEF GrowOld
<1>14. CASE QuietStep
  BY <1>3, <1>6, <1>7, <1>11, <1>14 DEF QuietStep
<1>15. CASE CleanStep
  BY <1>4, <1>5, <1>6, <1>15 DEF CleanStep
<1> QED
  BY <1>6, <1>8, <1>9, <1>10, <1>11, <1>12, <1>13, <1>14, <1>15, NextCases

LEMMA ExecInvStep ==
  TypeOK /\ FreshInv /\ OverInv /\ DeleteInv /\ CleanInv /\ ExecInv /\ [Next]_vars => ExecInv'
<1> SUFFICES ASSUME TypeOK, FreshInv, OverInv, DeleteInv, CleanInv, ExecInv, [Next]_vars
             PROVE  ExecInv'
  OBVIOUS
<1>0. NoConfig \in OptConfig /\ strat.cfg \in OptConfig /\ \A b \in Ids : exec[b].to \in OptConfig
  BY DEF TypeOK, Exec, OptConfig
<1>1. CASE QuietStep
  BY <1>1, QuietEffect DEF ExecInv
<1>2. CASE DeleteStrategy
  BY <1>2, UnlinkEffect DEF ExecInv
<1>3. ASSUME NEW b \in Ids, RunAdHoc(b) \/ RunFullBackup(b) \/ NextTarget(b) PROVE ExecInv'
  BY <1>3, NewEffect DEF ExecInv
<1>4. ASSUME NEW b \in Ids, ExecStep(b) PROVE ExecInv'
  <2>1. /\ \A x \in Ids \ {b} : exec'[x] = exec[x] /\ file'[x] = file[x]
        /\ obj \subseteq obj'
    BY <1>4, ExecEffect
  <2>2. SUFFICES /\ exec'[b].pc \in {"read", "upload"} => file'[b] = "complete"
                 /\ exec'[b].pc \in {"retain", "delete", "write"} =>
                       IF exec'[b].to = NoConfig THEN file'[b] = "complete"
                       ELSE <<exec'[b].to, b>> \in obj'
    BY <2>1 DEF ExecInv
  <2>3. CASE Dump(b)
    BY <1>0, <2>3, AtType DEF Dump, Goto, TypeOK
  <2>4. CASE ReadStrategy(b)
    <3>1. exec[b].pc = "read" /\ file[b] = "complete" /\ file' = file
      BY <2>4 DEF ReadStrategy, ExecInv
    <3>2. PICK pc \in {"write", "upload", "retain"}, to \in {strat.cfg, NoConfig} :
             /\ pc = "upload" \/ to = NoConfig
             /\ exec' = [exec EXCEPT ![b] = At(pc, to)]
      BY <2>4 DEF ReadStrategy, Goto
    <3>3. exec'[b].pc = pc /\ exec'[b].to = to
      BY <1>0, <3>2, AtType DEF TypeOK
    <3> QED
      BY <3>1, <3>2, <3>3
  <2>5. CASE Upload(b)
    BY <1>0, <2>5, AtType DEF Upload, AfterUpload, Goto, TypeOK
  <2>6. CASE Retain(b)
    BY <1>0, <2>6, AtType DEF Retain, Goto, TypeOK, ExecInv
  <2>7. CASE \E x \in Ids : DeleteSurplus(b, x)
    BY <2>7 DEF DeleteSurplus, ExecInv
  <2>8. CASE RetentionDone(b)
    BY <1>0, <2>8, AtType DEF RetentionDone, Goto, TypeOK, ExecInv
  <2>9. CASE WriteSuccess(b) \/ WriteFailed(b)
    BY <1>0, <2>9, AtType DEF WriteSuccess, WriteFailed, Goto, TypeOK
  <2> QED
    BY <1>4, <2>3, <2>4, <2>5, <2>6, <2>7, <2>8, <2>9 DEF ExecStep
<1>5. CASE \E u \in Users, x \in Ids : RequestDelete(u, x)
  BY <1>5 DEF RequestDelete, ExecInv
<1>6. ASSUME NEW d \in Deleters, DeleteStep(d) PROVE ExecInv'
  <2>1. \A b \in Ids : exec[b].pc # "idle" =>
           file'[b] = file[b] /\ \A c \in Configs : <<c, b>> \in obj => <<c, b>> \in obj'
    BY <1>6, DeleteEffect DEF DeleteInv
  <2>2. \A b \in Ids : \/ exec'[b] = exec[b]
                       \/ /\ exec[b].pc = "delete"
                          /\ exec'[b].pc = "write" /\ exec'[b].to = exec[b].to
    BY <1>0, <1>6, DeleteEffect, AtType
  <2>3. \A b \in Ids : exec[b].to = NoConfig \/ exec[b].to \in Configs
    BY <1>0 DEF OptConfig
  <2> QED
    BY <2>1, <2>2, <2>3 DEF ExecInv
<1>7. CASE CleanStep
  BY <1>7, CleanEffect DEF OverInv, ExecInv
<1>8. ASSUME NEW b \in Ids, GrowOld(b) PROVE ExecInv'
  BY <1>8 DEF GrowOld, ExecInv
<1>9. CASE CrashRestart
  BY <1>9, IdleTypes DEF CrashRestart, ExecInv
<1> QED
  BY <1>1, <1>2, <1>3, <1>4, <1>5, <1>6, <1>7, <1>8, <1>9, NextCases

LEMMA SuccessStep == TypeOK /\ ArchiveInv /\ [Next]_vars => SuccessHasArchive'
<1> SUFFICES ASSUME TypeOK, ArchiveInv, [Next]_vars PROVE SuccessHasArchive'
  OBVIOUS
<1>0. FreshInv /\ OverInv /\ DeleteInv /\ CleanInv /\ ExecInv /\ SuccessHasArchive
  BY DEF ArchiveInv
<1>1. CASE QuietStep
  <2>1. UNCHANGED <<rec, file, old, obj, del, past>>
    BY <1>1, QuietEffect
  <2>2. BeingDeleted' = BeingDeleted
    BY <2>1 DEF BeingDeleted
  <2> QED
    BY <1>0, <2>1, <2>2 DEF SuccessHasArchive
<1>2. CASE DeleteStrategy
  BY <1>0, <1>2, UnlinkEffect DEF SuccessHasArchive, BeingDeleted
<1>3. ASSUME NEW b \in Ids, RunAdHoc(b) \/ RunFullBackup(b) \/ NextTarget(b)
      PROVE  SuccessHasArchive'
  <2>1. UNCHANGED <<file, old, obj, del, past>>
    BY <1>3, NewEffect
  <2>2. rec'[b].status # "SUCCESS" /\ \A x \in Ids \ {b} : rec'[x] = rec[x]
    BY <1>3, NewEffect
  <2>3. BeingDeleted' = BeingDeleted
    BY <2>1 DEF BeingDeleted
  <2> QED
    BY <1>0, <2>1, <2>2, <2>3 DEF SuccessHasArchive
<1>4. ASSUME NEW b \in Ids, ExecStep(b), del' = del PROVE SuccessHasArchive'
  <2>1. /\ exec[b].pc # "idle"
        /\ \A x \in Ids \ {b} : rec'[x] = rec[x] /\ file'[x] = file[x]
        /\ rec'[b] = rec[b] \/ exec'[b].pc = "idle"
        /\ obj \subseteq obj' /\ old' = old /\ past' = past
    BY <1>4, ExecEffect
  <2>2. BeingDeleted' = BeingDeleted
    BY <1>4 DEF BeingDeleted
  <2>3. CASE rec'[b].status # "SUCCESS"
    BY <1>0, <2>1, <2>2, <2>3 DEF SuccessHasArchive
  <2>4. CASE rec'[b].status = "SUCCESS"
    <3>1. rec'[b] # rec[b]
      BY <1>0, <2>1, <2>4 DEF OverInv
    <3>2. WriteSuccess(b)
      <4>1. CASE WriteFailed(b)
        BY <1>0, <2>4, <4>1 DEF WriteFailed, OverInv, TypeOK, Rec
      <4> QED
        BY <1>4, <3>1, <4>1 DEF ExecStep, Dump, ReadStrategy, Upload, Retain, DeleteSurplus, RetentionDone
    <3>3. /\ rec' = [rec EXCEPT ![b] = Succeeded(b)] /\ exec[b].pc = "write"
          /\ file' = file /\ obj' = obj
      BY <3>1, <3>2 DEF WriteSuccess
    <3>4. /\ rec'[b].key = (exec[b].to # NoConfig)
          /\ rec'[b].local = (exec[b].to = NoConfig)
      BY <3>3, SucceededType DEF TypeOK
    <3>5. IF exec[b].to = NoConfig THEN file'[b] = "complete"
          ELSE exec[b].to \in Configs /\ <<exec[b].to, b>> \in obj'
      BY <1>0, <3>3 DEF ExecInv, TypeOK, Exec, OptConfig
    <3> QED
      BY <1>0, <2>1, <2>2, <3>4, <3>5 DEF SuccessHasArchive
  <2> QED
    BY <2>3, <2>4
<1>5. ASSUME NEW d \in Deleters, NEW x \in Ids, BeginDelete(d, x), del[d].pc = "idle",
             UNCHANGED <<rec, file, old, obj, past>>
      PROVE  SuccessHasArchive'
  <2>1. \A e \in Deleters \ {d} : del'[e] = del[e]
    BY <1>5, BeginDeleteType
  <2>2. BeingDeleted \subseteq BeingDeleted'
    BY <1>5, <2>1 DEF BeingDeleted
  <2> QED
    BY <1>0, <1>5, <2>2 DEF SuccessHasArchive
<1>6. CASE (\E b \in Ids : ExecStep(b)) \/ \E u \in Users, x \in Ids : RequestDelete(u, x)
  <2>1. ASSUME NEW u \in Users, NEW x \in Ids, RequestDelete(u, x), del' = del
        PROVE  SuccessHasArchive'
    BY <1>0, <2>1 DEF RequestDelete, SuccessHasArchive, BeingDeleted
  <2> QED
    BY <1>4, <1>5, <1>6, <2>1, BeginEffect
<1>7. ASSUME NEW d \in Deleters, DeleteStep(d) PROVE SuccessHasArchive'
  <2> SUFFICES ASSUME NEW b \in Ids, rec'[b].status = "SUCCESS", b \notin BeingDeleted',
                      past'[b] # "torn"
               PROVE  IF rec'[b].key THEN \E c \in Configs : <<c, b>> \in obj'
                      ELSE rec'[b].local /\ (b \notin old' => file'[b] = "complete")
    BY DEF SuccessHasArchive
  <2>1. b # del[d].id
    BY <1>7, DeleteEffect DEF BeingDeleted
  <2>2. \A e \in Deleters \ {d} : del'[e] = del[e]
    BY <1>7, DeleteEffect
  <2>3. b \notin BeingDeleted
    BY <2>1, <2>2 DEF BeingDeleted
  <2>4. rec'[b] = rec[b]
    BY <1>7, <2>1, DeleteEffect DEF TypeOK
  <2>5. past'[b] = past[b] /\ file'[b] = file[b] /\ old' = old
    BY <1>7, <2>1, DeleteEffect
  <2>6. \A c \in Configs : <<c, b>> \in obj => <<c, b>> \in obj'
    BY <1>7, <2>1, DeleteEffect
  <2> QED
    BY <1>0, <2>3, <2>4, <2>5, <2>6 DEF SuccessHasArchive
<1>8. CASE CleanStep
  BY <1>0, <1>8, CleanEffect DEF SuccessHasArchive, BeingDeleted
<1>9. ASSUME NEW b \in Ids, GrowOld(b) PROVE SuccessHasArchive'
  BY <1>0, <1>9 DEF GrowOld, SuccessHasArchive, BeingDeleted
<1>10. CASE CrashRestart
  <2> SUFFICES ASSUME NEW b \in Ids, rec'[b].status = "SUCCESS", past'[b] # "torn"
               PROVE  IF rec'[b].key THEN \E c \in Configs : <<c, b>> \in obj'
                      ELSE rec'[b].local /\ (b \notin old' => file'[b] = "complete")
    BY DEF SuccessHasArchive
  <2>1. UNCHANGED <<rec, old, obj>>
    BY <1>10 DEF CrashRestart
  <2>2. exec[b].pc = "idle"
    BY <1>0, <2>1 DEF OverInv
  <2>3. file'[b] = file[b]
    BY <1>10, <2>2 DEF CrashRestart, TypeOK
  <2>4. b \notin BeingDeleted /\ past[b] # "torn"
    BY <1>10, <2>2 DEF CrashRestart, Active, TypeOK
  <2> QED
    BY <1>0, <2>1, <2>3, <2>4 DEF SuccessHasArchive
<1> QED
  BY <1>1, <1>2, <1>3, <1>6, <1>7, <1>8, <1>9, <1>10, NextCases

LEMMA ArchiveStep == TypeOK /\ ArchiveInv /\ [Next]_vars => ArchiveInv'
  BY FreshStep, OverStep, DeleteInvStep, RunStep, CleanInvStep, ExecInvStep, SuccessStep
     DEF ArchiveInv

\* A record that says SUCCESS has its archive, for any number of backups,
\* users, targets, configurations and crashes.
THEOREM BackupsSuccessHasArchive == Spec => []SuccessHasArchive
<1>1. TypeOK /\ ArchiveInv /\ [Next]_vars => (TypeOK /\ ArchiveInv)'
  BY TypeStep, ArchiveStep
<1>2. TypeOK /\ ArchiveInv => SuccessHasArchive
  BY DEF ArchiveInv
<1> QED
  BY ArchiveInit, <1>1, <1>2, PTL DEF Spec

-----------------------------------------------------------------------------
(* Ids are finite.                                                         *)

LEMMA IdsFinite ==
  ASSUME NEW S \in SUBSET Ids
  PROVE  IsFiniteSet(S) /\ Cardinality(S) \in Nat
<1>1. IsFiniteSet(Ids)
  BY BackupAssumption, FS_Interval DEF Ids
<1>2. IsFiniteSet(S)
  BY <1>1, FS_Subset
<1> QED
  BY <1>2, FS_CardinalityType

LEMMA SubsetCard ==
  ASSUME NEW T \in SUBSET Ids, NEW S \in SUBSET T
  PROVE  Cardinality(S) <= Cardinality(T)
<1>1. IsFiniteSet(T)
  BY IdsFinite
<1> QED
  BY <1>1, FS_Subset

\* Sets of ids have a least one in any family of theirs, by inclusion.
LEMMA LeastSet ==
  ASSUME NEW F \in SUBSET (SUBSET Ids), F # {}
  PROVE  \E X \in F : \A Y \in F : Y \subseteq X => Y = X
<1>1. IsWellFoundedOn(StrictSubsetOrdering(Ids), FiniteSubsetsOf(Ids))
  BY FS_StrictSubsetOrderingWellFounded
<1>2. F \subseteq FiniteSubsetsOf(Ids)
  BY IdsFinite DEF FiniteSubsetsOf
<1>3. PICK X \in F : \A Y \in F : <<Y, X>> \notin StrictSubsetOrdering(Ids)
  BY <1>1, <1>2, WFMin
<1> QED
  BY <1>3 DEF StrictSubsetOrdering

LEMMA Greatest ==
  ASSUME NEW T \in SUBSET Ids, T # {}
  PROVE  \E x \in T : \A y \in T : y <= x
<1> DEFINE Up(x) == {y \in T : y > x}
           F == {Up(z) : z \in T}
<1>1. PICK X \in F : \A Y \in F : Y \subseteq X => Y = X
  <2>1. F \in SUBSET (SUBSET Ids) /\ F # {}
    OBVIOUS
  <2> HIDE DEF F
  <2> QED
    BY <2>1, LeastSet
<1>2. PICK x \in T : X = Up(x)
  BY <1>1
<1>3. \A z \in T : z \in Int
  BY DEF Ids
<1>4. ASSUME NEW y \in T, y > x PROVE FALSE
  <2>1. \A z \in T : z > y => z > x
    BY <1>3, <1>4
  <2>2. Up(y) \subseteq Up(x)
    BY <2>1
  <2>3. Up(y) \in F
    OBVIOUS
  <2>4. Up(y) = Up(x)
    <3> HIDE DEF F, Up
    <3> QED
      BY <1>1, <1>2, <2>2, <2>3
  <2>5. y \in Up(x)
    BY <1>4
  <2>6. y \in Up(y)
    BY <2>4, <2>5
  <2>7. ~(y > y)
    BY <1>3
  <2> QED
    BY <2>6, <2>7
<1>5. \A y \in T : y <= x
  BY <1>3, <1>4
<1> QED
  BY <1>5

\* The least id of a set is the greatest of its lower bounds.
LEMMA Least ==
  ASSUME NEW T \in SUBSET Ids, T # {}
  PROVE  \E x \in T : \A y \in T : x <= y
<1> DEFINE L == {i \in Ids : \A y \in T : i <= y}
<1>1. \A z \in T : z \in Int /\ 1 <= z /\ z <= MaxBackups
  BY DEF Ids
<1>2. PICK a \in L : \A i \in L : i <= a
  <2>1. 1 \in L
    <3>1. 1 \in Ids
      <4>1. PICK y \in T : TRUE
        OBVIOUS
      <4> QED
        BY <1>1, <4>1, BackupAssumption DEF Ids
    <3> QED
      BY <1>1, <3>1
  <2>2. L \in SUBSET Ids /\ L # {}
    BY <2>1
  <2> HIDE DEF L
  <2> QED
    BY <2>2, Greatest
<1>3. a \in Int /\ a \in Ids /\ 1 <= a
  BY DEF Ids
<1>4. CASE a \in T
  BY <1>4
<1>5. CASE a \notin T
  <2>1. \A y \in T : a <= y /\ a # y
    BY <1>5
  <2>2. \A y \in T : a + 1 <= y
    BY <1>1, <1>3, <2>1
  <2>3. PICK y \in T : TRUE
    OBVIOUS
  <2>4. a + 1 \in Ids
    BY <1>1, <1>3, <2>2, <2>3, BackupAssumption DEF Ids
  <2>5. a + 1 \in L
    BY <2>2, <2>4
  <2>6. a + 1 <= a
    BY <1>2, <2>5
  <2> QED
    BY <1>3, <2>6
<1> QED
  BY <1>4, <1>5

\* enforceRetention's query: each record of the surplus has retentionMax later
\* successes that are not in the surplus, and no more than that are not.
LEMMA SurplusBounds ==
  ASSUME NEW K \in SUBSET Ids, NEW m \in Nat, NEW S,
         S = {x \in K : Cardinality({y \in K : y > x}) >= m}
  PROVE  /\ Cardinality(K \ S) <= m
         /\ \A x \in S : Cardinality({y \in K \ S : y > x}) >= m
<1> DEFINE Later(x) == {y \in K : y > x}
<1>0. \A x \in K : Later(x) \in SUBSET Ids /\ Cardinality(Later(x)) \in Nat
  BY IdsFinite
<1>i. \A z \in K : z \in Int
  BY DEF Ids
<1>1. Cardinality(K \ S) <= m
  <2>1. CASE K \ S = {}
    <3>1. Cardinality(K \ S) = 0
      BY <2>1, FS_EmptySet
    <3> QED
      BY <3>1
  <2>2. CASE K \ S # {}
    <3>1. PICK a \in K \ S : \A y \in K \ S : a <= y
      BY <2>2, Least
    <3>2. K \ S \in SUBSET (Later(a) \cup {a})
      <4>1. \A y \in K \ S : y > a \/ y = a
        BY <1>i, <3>1
      <4> QED
        BY <4>1
    <3>3. Cardinality(K \ S) <= Cardinality(Later(a) \cup {a})
      BY <3>2, SubsetCard
    <3>4. Cardinality(Later(a) \cup {a}) = Cardinality(Later(a)) + 1
      <4>1. IsFiniteSet(Later(a)) /\ a \notin Later(a)
        BY <1>i, IdsFinite
      <4> QED
        BY <4>1, FS_AddElement
    <3>5. Cardinality(Later(a)) < m
      <4>1. a \in K /\ ~(Cardinality(Later(a)) >= m)
        OBVIOUS
      <4> QED
        BY <1>0, <4>1
    <3>6. Cardinality(K \ S) \in Nat
      BY IdsFinite
    <3> QED
      BY <1>0, <3>3, <3>4, <3>5, <3>6
  <2> QED
    BY <2>1, <2>2
<1>2. ASSUME NEW x \in S PROVE Cardinality({y \in K \ S : y > x}) >= m
  <2>1. PICK a \in S : \A y \in S : y <= a
    <3>1. S \in SUBSET Ids /\ S # {}
      OBVIOUS
    <3> QED
      BY <3>1, Greatest
  <2>2. Later(a) \in SUBSET {y \in K \ S : y > x}
    <3>1. \A y \in K : y > a => y > x /\ y \notin S
      BY <1>i, <2>1
    <3> QED
      BY <3>1
  <2>3. Cardinality(Later(a)) <= Cardinality({y \in K \ S : y > x})
    BY <2>2, SubsetCard
  <2>4. Cardinality({y \in K \ S : y > x}) \in Nat
    BY IdsFinite
  <2>5. a \in K /\ Cardinality(Later(a)) >= m
    OBVIOUS
  <2> QED
    BY <1>0, <2>3, <2>4, <2>5
<1> QED
  BY <1>1, <1>2

-----------------------------------------------------------------------------
(* Retention.                                                              *)

LEMMA RetentionInit == Init => RetentionInv
<1> SUFFICES ASSUME Init PROVE RetentionInv
  OBVIOUS
<1>1. \A b \in Ids : rec[b] = NoRec /\ exec[b].pc = "idle"
  BY IdleTypes DEF Init
<1>2. del[Worker].pc = "idle"
  BY IdleTypes DEF Init, Deleters
<1>3. ~NoRec.link
  BY DEF NoRec
<1> QED
  BY <1>1, <1>2, <1>3 DEF RetentionInv, OwnInv, LinkInv, KeepInv, CatchInv

\* The backup of the strategy at work is the only one, and the worker's.
LEMMA OneRun ==
  ASSUME TypeOK, RunInv, NEW b \in Ids, exec[b].pc # "idle", kind[b] = "strategy"
  PROVE  /\ work.pc = "run" /\ work.cur = b
         /\ \A x \in Ids \ {b} : exec[x].pc = "idle" \/ kind[x] # "strategy"
         /\ \A x \in Ids \ {b} : exec[x].pc # "delete"
  BY DEF RunInv

\* Nobody enforces retention while no backup of the strategy is at work.
LEMMA NoRun ==
  ASSUME RunInv, OwnInv, \A b \in Ids : exec[b].pc = "idle" \/ kind[b] # "strategy"
  PROVE  (\A b \in Ids : exec[b].pc # "delete") /\ del[Worker].pc = "idle"
  BY DEF RunInv, OwnInv

\* Retention stays as it is as long as what is spared stays spared, and what is
\* kept is not more.
LEMMA StillSpared ==
  ASSUME TypeOK, KeepInv, CatchInv,
         \A b \in Ids : exec'[b].pc = "delete" => exec[b].pc = "delete",
         \A b \in Ids : exec'[b].pc \in {"delete", "write"} /\ kind'[b] = "strategy" =>
                           exec[b].pc \in {"delete", "write"} /\ kind[b] = "strategy",
         strat'.row => strat.row,
         work'.max = work.max,
         \A y \in Ids : y \in Doomed' => y \in Doomed,
         \A y \in Ids : y \in Kept' /\ y \notin Doomed' => y \in Kept /\ y \notin Doomed,
         \A y \in Ids : kind[y] = "strategy" => kind'[y] = "strategy",
         \A y \in Ids : kind[y] = "strategy" /\ rec[y].status = "SUCCESS" /\ y \notin Doomed =>
                           \/ rec'[y].status = "SUCCESS"
                           \/ rec'[y].status = "ABSENT" /\ past'[y] = "user",
         \A y \in Ids : kind[y] = "strategy" /\ rec[y].status = "ABSENT" /\ past[y] = "user" =>
                           rec'[y].status = "ABSENT" /\ past'[y] = "user"
  PROVE  KeepInv' /\ CatchInv'
<1>0. work.max \in Nat
  BY DEF TypeOK, Work
<1>1. ASSUME NEW b \in Ids, exec'[b].pc = "delete", NEW x \in Doomed'
      PROVE  Cardinality(Spared(x)') >= work'.max
  <2>1. x \in Ids /\ x \in Doomed
    BY <1>1 DEF Doomed
  <2>2. Cardinality(Spared(x)) >= work.max
    BY <1>1, <2>1 DEF KeepInv
  <2>3. ASSUME NEW y \in Spared(x) PROVE y \in Spared(x)'
    <3>1. y \in Ids /\ y > x /\ kind[y] = "strategy"
      BY <2>3 DEF Spared, NewerSuccesses
    <3>2. \/ rec[y].status = "SUCCESS" /\ y \notin Doomed
          \/ rec[y].status = "ABSENT" /\ past[y] = "user"
      BY <2>3 DEF Spared, NewerSuccesses
    <3>3. kind'[y] = "strategy" /\ (\/ rec'[y].status = "SUCCESS"
                                    \/ rec'[y].status = "ABSENT" /\ past'[y] = "user")
      BY <3>1, <3>2
    <3>4. y \in Doomed' => rec'[y].status = "ABSENT"
      BY <3>1, <3>2
    <3> QED
      BY <3>1, <3>3, <3>4 DEF Spared, NewerSuccesses
  <2>4. Spared(x)' \in SUBSET Ids /\ Spared(x) \in SUBSET Spared(x)'
    BY <2>3 DEF Spared, NewerSuccesses
  <2>5. /\ Cardinality(Spared(x)) <= Cardinality(Spared(x)')
        /\ Cardinality(Spared(x)) \in Nat /\ Cardinality(Spared(x)') \in Nat
    BY <2>4, SubsetCard, IdsFinite
  <2> QED
    BY <1>0, <2>2, <2>5
<1>2. KeepInv'
  BY <1>1 DEF KeepInv
<1>3. ASSUME NEW b \in Ids, exec'[b].pc \in {"delete", "write"}, kind'[b] = "strategy", strat'.row
      PROVE  Cardinality(Kept' \ Doomed') <= work'.max
  <2>1. Cardinality(Kept \ Doomed) <= work.max
    BY <1>3 DEF CatchInv
  <2>2. Kept \ Doomed \in SUBSET Ids /\ Kept' \ Doomed' \in SUBSET (Kept \ Doomed)
    BY DEF Kept
  <2>3. /\ Cardinality(Kept' \ Doomed') <= Cardinality(Kept \ Doomed)
        /\ Cardinality(Kept \ Doomed) \in Nat /\ Cardinality(Kept' \ Doomed') \in Nat
    BY <2>2, SubsetCard, IdsFinite
  <2> QED
    BY <1>0, <2>1, <2>3
<1>4. CatchInv'
  BY <1>3 DEF CatchInv
<1> QED
  BY <1>2, <1>4

\* Only a WriteSuccess of the strategy sets a link.
LEMMA LinkStep == TypeOK /\ ArchiveInv /\ LinkInv /\ [Next]_vars => LinkInv'
<1> SUFFICES ASSUME TypeOK, ArchiveInv, LinkInv, [Next]_vars PROVE LinkInv'
  OBVIOUS
<1>1. CASE QuietStep
  BY <1>1, QuietEffect DEF LinkInv
<1>2. CASE DeleteStrategy
  <2>1. \A x \in Ids : rec'[x] = [rec[x] EXCEPT !.link = FALSE] /\ rec[x] \in Rec
    BY <1>2 DEF DeleteStrategy, TypeOK
  <2> QED
    BY <2>1 DEF LinkInv, Rec
<1>3. ASSUME NEW b \in Ids, RunAdHoc(b) \/ RunFullBackup(b) \/ NextTarget(b) PROVE LinkInv'
  BY <1>3, NewEffect DEF LinkInv
<1>4. ASSUME NEW b \in Ids, ExecStep(b) PROVE LinkInv'
  <2>1. CASE WriteSuccess(b)
    <3>1. kind' = kind /\ (rec' = rec \/ rec' = [rec EXCEPT ![b] = Succeeded(b)])
      BY <2>1 DEF WriteSuccess
    <3>2. Succeeded(b).link => kind[b] = "strategy"
      BY SucceededType
    <3>3. \A x \in Ids : rec'[x] = rec[x] \/ (x = b /\ rec'[x] = Succeeded(b))
      BY <3>1 DEF TypeOK
    <3> QED
      BY <3>1, <3>2, <3>3 DEF LinkInv
  <2>2. CASE WriteFailed(b)
    BY <2>2 DEF WriteFailed, LinkInv, TypeOK, Rec
  <2>3. CASE rec' = rec
    BY <1>4, <2>3, ExecEffect DEF LinkInv
  <2> QED
    BY <1>4, <2>1, <2>2, <2>3 DEF ExecStep, Dump, ReadStrategy, Upload, Retain, DeleteSurplus, RetentionDone
<1>5. CASE \E u \in Users, x \in Ids : RequestDelete(u, x)
  BY <1>5 DEF RequestDelete, LinkInv
<1>6. ASSUME NEW d \in Deleters, DeleteStep(d) PROVE LinkInv'
  <2>1. ~NoRec.link
    BY DEF NoRec
  <2>2. \A b \in Ids : rec'[b] = rec[b] \/ rec'[b] = NoRec
    BY <1>6, DeleteEffect DEF TypeOK
  <2>3. kind' = kind
    BY <1>6, DeleteEffect
  <2> QED
    BY <2>1, <2>2, <2>3 DEF LinkInv
<1>7. CASE CleanStep
  <2>1. CleanInv
    BY DEF ArchiveInv
  <2> QED
    BY <1>7, <2>1, CleanEffect DEF LinkInv
<1>8. ASSUME NEW b \in Ids, GrowOld(b) PROVE LinkInv'
  BY <1>8 DEF GrowOld, LinkInv
<1>9. CASE CrashRestart
  BY <1>9 DEF CrashRestart, LinkInv
<1> QED
  BY <1>1, <1>2, <1>3, <1>4, <1>5, <1>6, <1>7, <1>8, <1>9, NextCases

\* The query of enforceRetention.
LEMMA RetainStep ==
  ASSUME TypeOK, ArchiveInv, RetentionInv, NEW b \in Ids, Retain(b)
  PROVE  OwnInv' /\ KeepInv' /\ CatchInv'
<1>0. work \in Work /\ exec[b].to \in OptConfig
  BY DEF TypeOK, Exec
<1>1. /\ work' = [work EXCEPT !.todo = Surplus]
      /\ exec' = [exec EXCEPT ![b] = At("delete", exec[b].to)]
      /\ UNCHANGED <<strat, kind, rec, del, past>>
      /\ exec[b].pc = "retain"
  BY DEF Retain, Goto
<1>2. work'.todo = Surplus /\ work'.max = work.max /\ work.max \in Nat
  BY <1>0, <1>1 DEF Work
<1>3. exec'[b].pc = "delete" /\ \A x \in Ids \ {b} : exec'[x] = exec[x]
  BY <1>0, <1>1, AtType DEF TypeOK
<1>4. kind[b] = "strategy" /\ \A x \in Ids : exec[x].pc # "delete"
  BY <1>1, OneRun DEF ArchiveInv, RunInv
<1>5. del[Worker].pc = "idle"
  BY <1>4 DEF RetentionInv, OwnInv
<1>6. Doomed' = Surplus
  BY <1>1, <1>2, <1>5 DEF Doomed, Surplus, Kept
<1>7. Kept \in SUBSET Ids /\ Kept' = Kept
  BY <1>1 DEF Kept
<1>8. /\ Cardinality(Kept \ Surplus) <= work.max
      /\ \A x \in Surplus : Cardinality({y \in Kept \ Surplus : y > x}) >= work.max
  BY <1>2, <1>7, SurplusBounds DEF Surplus
<1>9. OwnInv'
  BY <1>3 DEF OwnInv
<1>10. ASSUME NEW x \in Doomed' PROVE Cardinality(Spared(x)') >= work'.max
  <2>1. x \in Surplus
    BY <1>6
  <2>2. {y \in Kept \ Surplus : y > x} \in SUBSET Spared(x)'
    BY <1>1, <1>6 DEF Kept, Spared, NewerSuccesses, RetentionInv, LinkInv
  <2>3. Spared(x)' \in SUBSET Ids
    BY DEF Spared, NewerSuccesses
  <2>4. {y \in Kept \ Surplus : y > x} \in SUBSET Ids
    BY <1>7
  <2>5. /\ Cardinality({y \in Kept \ Surplus : y > x}) <= Cardinality(Spared(x)')
        /\ Cardinality({y \in Kept \ Surplus : y > x}) \in Nat /\ Cardinality(Spared(x)') \in Nat
    BY <2>2, <2>3, <2>4, SubsetCard, IdsFinite
  <2> QED
    BY <1>2, <1>8, <2>1, <2>5
<1>11. KeepInv'
  BY <1>10 DEF KeepInv
<1>12. ASSUME NEW y \in Ids, exec'[y].pc \in {"delete", "write"}, kind'[y] = "strategy", strat'.row
       PROVE  Cardinality(Kept' \ Doomed') <= work'.max
  BY <1>2, <1>6, <1>7, <1>8
<1>13. CatchInv'
  BY <1>12 DEF CatchInv
<1> QED
  BY <1>9, <1>11, <1>13

\* The deletion of the next record begins, or the record is gone.
LEMMA SurplusStep ==
  ASSUME TypeOK, ArchiveInv, RetentionInv, NEW b \in Ids, NEW x \in Ids, DeleteSurplus(b, x)
  PROVE  OwnInv' /\ KeepInv' /\ CatchInv'
<1>0. work \in Work
  BY DEF TypeOK
<1>1. /\ exec[b].pc = "delete" /\ del[Worker].pc = "idle" /\ x \in work.todo
      /\ work' = [work EXCEPT !.todo = work.todo \ {x}]
      /\ UNCHANGED <<strat, kind, rec, exec, past>>
  BY DEF DeleteSurplus
<1>2. work'.todo = work.todo \ {x} /\ work'.max = work.max
  BY <1>0, <1>1 DEF Work
<1>3. x \in Doomed
  BY <1>1 DEF Doomed
<1>4. OwnInv'
  BY <1>1 DEF OwnInv
<1>5. CASE rec[x].status = "ABSENT"
  <2>1. del' = del
    BY <1>5 DEF DeleteSurplus
  <2>2. Doomed' = Doomed \ {x}
    BY <1>1, <1>2, <2>1 DEF Doomed
  <2>3. Kept' = Kept /\ x \notin Kept
    BY <1>1, <1>5 DEF Kept
  <2>4. KeepInv' /\ CatchInv'
    BY <1>1, <1>2, <2>2, <2>3, StillSpared DEF RetentionInv
  <2> QED
    BY <1>4, <2>4
<1>6. CASE rec[x].status # "ABSENT"
  <2>1. del'[Worker].id = x /\ del'[Worker].pc \in {"object", "unlink"}
    <3>1. BeginDelete(Worker, x) /\ Worker \in Deleters
      BY <1>6 DEF DeleteSurplus, Deleters
    <3> QED
      BY <3>1, BeginDeleteType
  <2>2. Doomed' = Doomed
    BY <1>1, <1>2, <2>1 DEF Doomed
  <2>3. Kept' = Kept
    BY <1>1 DEF Kept
  <2>4. KeepInv' /\ CatchInv'
    BY <1>1, <1>2, <2>2, <2>3, StillSpared DEF RetentionInv
  <2> QED
    BY <1>4, <2>4
<1> QED
  BY <1>5, <1>6

\* The other steps of a backup.
LEMMA BackupStep ==
  ASSUME TypeOK, ArchiveInv, RetentionInv, NEW b \in Ids, ExecStep(b),
         ~Retain(b), ~(\E x \in Ids : DeleteSurplus(b, x))
  PROVE  OwnInv' /\ KeepInv' /\ CatchInv'
<1>0. /\ work \in Work /\ exec[b].to \in OptConfig /\ NoConfig \in OptConfig
      /\ strat.cfg \in OptConfig /\ rec[b] \in Rec
  BY DEF TypeOK, Exec, OptConfig
<1>1. /\ \A x \in Ids \ {b} : exec'[x] = exec[x] /\ rec'[x] = rec[x]
      /\ UNCHANGED <<strat, kind, past>> /\ exec[b].pc # "idle"
  BY ExecEffect
<1>2. del' = del
  BY DEF ExecStep, Dump, ReadStrategy, Upload, RetentionDone, WriteSuccess, WriteFailed
<1>3. CASE RetentionDone(b)
  <2>1. /\ del[Worker].pc = "idle" /\ work.todo = {} /\ work' = work /\ rec' = rec
        /\ exec[b].pc = "delete" /\ exec'[b].pc = "write"
    BY <1>0, <1>3, AtType DEF RetentionDone, Goto, TypeOK
  <2>2. Doomed' = Doomed /\ Kept' = Kept
    BY <1>2, <2>1 DEF Doomed, Kept
  <2>3. KeepInv' /\ CatchInv'
    BY <1>1, <2>1, <2>2, StillSpared DEF RetentionInv
  <2> QED
    BY <1>2, <2>1, <2>3 DEF OwnInv
<1>4. CASE ~RetentionDone(b)
  <2>1. exec[b].pc # "delete" /\ exec'[b].pc # "delete"
    BY <1>0, <1>4, AtType DEF ExecStep, Dump, ReadStrategy, Upload, AfterUpload, WriteSuccess, WriteFailed, Goto, TypeOK
  <2>2. OwnInv'
    BY <1>1, <1>2, <2>1 DEF RetentionInv, OwnInv
  <2>3. CASE kind[b] = "strategy"
    <3>1. exec'[b].pc = "write" => ~strat.row
      BY <1>0, <1>4, <2>3, AtType DEF ExecStep, Dump, ReadStrategy, Upload, AfterUpload, WriteSuccess, WriteFailed, Goto, TypeOK
    <3>2. \A x \in Ids \ {b} : exec[x].pc = "idle" \/ kind[x] # "strategy"
      BY <1>1, <2>3, OneRun DEF ArchiveInv
    <3>3. \A x \in Ids : exec'[x].pc # "delete"
      BY <1>1, <2>1, <3>2 DEF ArchiveInv, RunInv
    <3>4. \A x \in Ids : exec'[x].pc \in {"delete", "write"} /\ kind'[x] = "strategy" => ~strat'.row
      BY <1>1, <3>1, <3>2, <2>1
    <3> QED
      BY <2>2, <3>3, <3>4 DEF KeepInv, CatchInv
  <2>4. CASE kind[b] # "strategy"
    <3>1. work' = work
      BY <1>4, <2>4 DEF ExecStep, Dump, ReadStrategy, Upload, WriteSuccess, WriteFailed, ArchiveInv, RunInv
    <3>2. Doomed' = Doomed
      BY <1>2, <3>1 DEF Doomed
    <3>3. LinkInv'
      BY LinkStep DEF RetentionInv, Next
    <3>4. \A y \in Ids : y \in Kept' => y \in Kept
      BY <1>1, <2>4, <3>3 DEF Kept, LinkInv
    <3>5. KeepInv' /\ CatchInv'
      BY <1>1, <2>1, <2>4, <3>1, <3>2, <3>4, StillSpared DEF RetentionInv
    <3> QED
      BY <2>2, <3>5
  <2> QED
    BY <2>3, <2>4
<1> QED
  BY <1>3, <1>4

\* The steps of deleteRecord.
LEMMA RecordStep ==
  ASSUME TypeOK, ArchiveInv, RetentionInv, NEW d \in Deleters, DeleteStep(d)
  PROVE  OwnInv' /\ KeepInv' /\ CatchInv'
<1> DEFINE z == del[d].id
<1>1. /\ z \in Ids /\ del[d].pc # "idle"
      /\ \A e \in Deleters \ {d} : del'[e] = del[e]
      /\ \A b \in Ids : \/ exec'[b] = exec[b]
                        \/ exec[b].pc = "delete" /\ exec'[b] = At("write", exec[b].to)
      /\ UNCHANGED <<strat, kind, work>>
  BY DeleteEffect
<1>2. Worker \in Deleters /\ \A e \in Deleters : e = Worker \/ e \in Users
  BY DEF Deleters
<1>3. \A b \in Ids : At("write", exec[b].to).pc = "write"
  BY AtType DEF TypeOK, Exec
<1>4. NoRec.status = "ABSENT"
  BY DEF NoRec
<1>5. ASSUME UNCHANGED <<rec, past, exec>>, del'[d].pc # "idle", del'[d].id = z
      PROVE  OwnInv' /\ KeepInv' /\ CatchInv'
  <2>1. Doomed' = Doomed
    BY <1>1, <1>2, <1>5 DEF Doomed
  <2>2. Kept' = Kept
    BY <1>5 DEF Kept
  <2>3. KeepInv' /\ CatchInv'
    BY <1>1, <1>5, <2>1, <2>2, StillSpared DEF RetentionInv
  <2>4. OwnInv'
    BY <1>1, <1>2, <1>5 DEF RetentionInv, OwnInv
  <2> QED
    BY <2>3, <2>4
<1>6. CASE DeleteObject(d) \/ Unlink(d)
  <2>1. del'[d].pc # "idle" /\ del'[d].id = z
    BY <1>6 DEF DeleteObject, Unlink, TypeOK, Del
  <2> QED
    BY <1>5, <1>6, <2>1 DEF DeleteObject, Unlink
<1>7. ASSUME DeleteRow(d), d \in Users, d # Worker PROVE OwnInv' /\ KeepInv' /\ CatchInv'
  <2>1. del'[Worker] = del[Worker] /\ \A b \in Ids : exec'[b] = exec[b]
    BY <1>1, <1>2, <1>7 DEF DeleteRow
  <2>2. \/ rec' = rec /\ past' = past
        \/ rec' = [rec EXCEPT ![z] = NoRec] /\ past' = [past EXCEPT ![z] = "user"]
    BY <1>7 DEF DeleteRow
  <2>3. Doomed' = Doomed
    BY <1>1, <2>1 DEF Doomed
  <2>4. \A y \in Ids : \/ rec'[y] = rec[y] /\ past'[y] = past[y]
                       \/ rec'[y].status = "ABSENT" /\ past'[y] = "user"
    BY <1>4, <2>2 DEF TypeOK
  <2>5. \A y \in Ids : y \in Kept' => y \in Kept
    BY <2>4 DEF Kept
  <2>6. KeepInv' /\ CatchInv'
    BY <1>1, <2>1, <2>3, <2>4, <2>5, StillSpared DEF RetentionInv
  <2>7. OwnInv'
    BY <2>1 DEF RetentionInv, OwnInv
  <2> QED
    BY <2>6, <2>7
<1>8. ASSUME DeleteRow(d), d = Worker PROVE OwnInv' /\ KeepInv' /\ CatchInv'
  <2>1. del'[Worker].pc = "idle"
    BY <1>2, <1>8, IdleTypes DEF DeleteRow, TypeOK
  <2>2. z \in Doomed
    BY <1>1, <1>8 DEF Doomed
  <2>3. \A y \in Ids : y \in Doomed' => y \in Doomed
    BY <1>1, <2>1 DEF Doomed
  <2>4. \A y \in Ids : y \in Doomed /\ y \notin Doomed' => y = z
    BY <1>1, <1>8, <2>1 DEF Doomed
  <2>5. /\ rec'[z].status = "ABSENT"
        /\ rec[z].status = "ABSENT" => past' = past
        /\ \A y \in Ids \ {z} : rec'[y] = rec[y] /\ past'[y] = past[y]
    BY <1>1, <1>4, <1>8 DEF DeleteRow, TypeOK
  <2>6. \A y \in Ids : y \in Kept' /\ y \notin Doomed' => y \in Kept /\ y \notin Doomed
    BY <2>4, <2>5 DEF Kept
  <2>7. KeepInv' /\ CatchInv'
    BY <1>1, <1>3, <2>2, <2>3, <2>5, <2>6, StillSpared DEF RetentionInv
  <2> QED
    BY <2>1, <2>7 DEF OwnInv
<1> QED
  BY <1>2, <1>6, <1>7, <1>8, BackupAssumption DEF DeleteStep

\* A new backup is not at its retention, and no record to keep yet.
LEMMA NewStep ==
  ASSUME TypeOK, ArchiveInv, RetentionInv, NEW b \in Ids,
         RunAdHoc(b) \/ RunFullBackup(b) \/ NextTarget(b)
  PROVE  OwnInv' /\ KeepInv' /\ CatchInv'
<1>1. /\ kind[b] = "none" /\ exec'[b].pc = "dump" /\ rec'[b].status = "RUNNING"
      /\ \A x \in Ids \ {b} : rec'[x] = rec[x] /\ exec'[x] = exec[x] /\ kind'[x] = kind[x]
      /\ UNCHANGED <<strat, del, past>>
      /\ kind'[b] = "strategy" => NextTarget(b)
      /\ work' = work \/ NextTarget(b)
  BY NewEffect
<1>2. exec[b].pc = "idle" /\ rec[b].status = "ABSENT"
  BY <1>1 DEF ArchiveInv, FreshInv
<1>3. OwnInv'
  BY <1>1, <1>2 DEF RetentionInv, OwnInv
<1>4. CASE NextTarget(b)
  <2>1. \A x \in Ids : exec[x].pc = "idle" \/ kind[x] # "strategy"
    <3>1. AtLoopHead /\ 0 \notin Ids
      BY <1>4, BackupAssumption DEF NextTarget, Ids
    <3> QED
      BY <3>1 DEF AtLoopHead, ArchiveInv, RunInv
  <2>2. \A x \in Ids : exec[x].pc # "delete"
    BY <2>1 DEF ArchiveInv, RunInv
  <2> QED
    BY <1>1, <1>3, <2>1, <2>2 DEF KeepInv, CatchInv
<1>5. CASE ~NextTarget(b)
  <2>1. work' = work /\ kind'[b] # "strategy"
    BY <1>1, <1>5
  <2>2. Doomed' = Doomed
    BY <1>1, <2>1 DEF Doomed
  <2>3. \A y \in Ids : y \in Kept' => y \in Kept
    BY <1>1 DEF Kept
  <2>4. KeepInv' /\ CatchInv'
    BY <1>1, <1>2, <2>1, <2>2, <2>3, StillSpared DEF RetentionInv
  <2> QED
    BY <1>3, <2>4
<1> QED
  BY <1>4, <1>5

LEMMA RetentionStep == TypeOK /\ ArchiveInv /\ RetentionInv /\ [Next]_vars => RetentionInv'
<1> SUFFICES ASSUME TypeOK, ArchiveInv, RetentionInv, [Next]_vars
             PROVE  OwnInv' /\ KeepInv' /\ CatchInv'
  BY LinkStep DEF RetentionInv
<1>0. RunInv /\ CleanInv /\ 0 \notin Ids
  BY BackupAssumption DEF ArchiveInv, Ids
\* Without a backup of the strategy at work there is nothing to keep.
<1>1. ASSUME \A b \in Ids : exec[b].pc = "idle" \/ kind[b] # "strategy",
             UNCHANGED <<kind, exec, del>>
      PROVE  OwnInv' /\ KeepInv' /\ CatchInv'
  <2>1. (\A b \in Ids : exec[b].pc # "delete") /\ del[Worker].pc = "idle"
    BY <1>0, <1>1, NoRun DEF RetentionInv
  <2> QED
    BY <1>1, <2>1 DEF OwnInv, KeepInv, CatchInv
\* The strategy changes, or time passes.
<1>2. ASSUME UNCHANGED <<kind, exec, work, past>>, del'[Worker] = del[Worker],
             strat'.row => strat.row,
             \A x \in Ids : rec'[x].status = rec[x].status /\ (rec'[x].link => rec[x].link)
      PROVE  OwnInv' /\ KeepInv' /\ CatchInv'
  <2>1. Doomed' = Doomed
    BY <1>2 DEF Doomed
  <2>2. \A y \in Ids : y \in Kept' => y \in Kept
    BY <1>2 DEF Kept
  <2>3. KeepInv' /\ CatchInv'
    BY <1>2, <2>1, <2>2, StillSpared DEF RetentionInv
  <2> QED
    BY <1>2, <2>3 DEF RetentionInv, OwnInv
<1>3. CASE QuietStep
  <2>1. UNCHANGED <<kind, rec, exec, del, past>>
    BY <1>3, QuietEffect
  <2>2. \/ work' = work /\ (strat'.row => strat.row)
        \/ work.pc = "idle"
        \/ AtLoopHead
    <3>1. CASE UpdateStrategy
      BY <3>1 DEF UpdateStrategy
    <3>2. CASE \E c \in Configs : DeleteS3Config(c)
      BY <3>2 DEF DeleteS3Config, TypeOK
    <3> QED
      BY <1>3, <3>1, <3>2 DEF QuietStep, RunStrategyBackup, StartCleanup, EndRun, vars
  <2>3. CASE work.pc = "idle" \/ AtLoopHead
    <3>1. \A b \in Ids : exec[b].pc = "idle" \/ kind[b] # "strategy"
      BY <1>0, <2>3 DEF AtLoopHead, RunInv
    <3> QED
      BY <1>1, <2>1, <3>1
  <2> QED
    BY <1>2, <2>1, <2>2, <2>3
<1>4. CASE DeleteStrategy
  <2>1. ~strat'.row /\ \A x \in Ids : ~rec'[x].link
    BY <1>4 DEF DeleteStrategy, TypeOK, Rec
  <2> QED
    BY <1>2, <1>4, <2>1, UnlinkEffect
<1>5. CASE \E b \in Ids : RunAdHoc(b) \/ RunFullBackup(b) \/ NextTarget(b)
  BY <1>5, NewStep
<1>6. CASE \E b \in Ids : ExecStep(b)
  BY <1>6, RetainStep, SurplusStep, BackupStep
<1>7. CASE \E u \in Users, x \in Ids : RequestDelete(u, x)
  <2>1. PICK u \in Users, x \in Ids : RequestDelete(u, x)
    BY <1>7
  <2>2. del'[Worker] = del[Worker]
    <3>1. u \in Deleters /\ Worker \in Deleters /\ u # Worker
      BY BackupAssumption DEF Deleters
    <3> QED
      BY <2>1, <3>1, BeginDeleteType DEF RequestDelete
  <2> QED
    BY <1>2, <2>1, <2>2 DEF RequestDelete
<1>8. CASE \E d \in Deleters : DeleteStep(d)
  BY <1>8, RecordStep
<1>9. CASE CleanStep
  <2>1. \A b \in Ids : exec[b].pc = "idle" \/ kind[b] # "strategy"
    BY <1>0, <1>9, CleanEffect DEF RunInv
  <2> QED
    BY <1>0, <1>1, <1>9, <2>1, CleanEffect
<1>10. CASE \E b \in Ids : GrowOld(b)
  BY <1>2, <1>10 DEF GrowOld
<1>11. CASE CrashRestart
  <2>1. (\A b \in Ids : exec'[b].pc = "idle") /\ del'[Worker].pc = "idle"
    BY <1>11, IdleTypes DEF CrashRestart, Deleters
  <2> QED
    BY <2>1 DEF OwnInv, KeepInv, CatchInv
<1> QED
  BY <1>3, <1>4, <1>5, <1>6, <1>7, <1>8, <1>9, <1>10, <1>11, NextCases

\* Retention deletes records while a backup enforces it, and only then, and
\* what it is about to delete has retentionMax later successes.
THEOREM BackupsRetention == Spec => []RetentionInv
<1>1. Init => TypeOK /\ ArchiveInv /\ RetentionInv
  BY ArchiveInit, RetentionInit
<1>2. TypeOK /\ ArchiveInv /\ RetentionInv /\ [Next]_vars => (TypeOK /\ ArchiveInv /\ RetentionInv)'
  BY TypeStep, ArchiveStep, RetentionStep
<1> QED
  BY <1>1, <1>2, PTL DEF Spec

\* enforceRetention never takes one of the latest retentionMax successes of the
\* strategy, whatever users delete meanwhile.
THEOREM BackupsKeepsNewest == Spec => RetentionKeepsNewest
<1> DEFINE Kept1 ==
      \A x \in Ids :
          /\ del[Worker].pc = "row" /\ del[Worker].id = x
          /\ rec[x].status # "ABSENT" /\ rec'[x].status = "ABSENT" /\ past'[x] # "user"
          => Cardinality(NewerSuccesses(x)) >= work.max
<1>1. TypeOK /\ RetentionInv => Kept1
  <2> SUFFICES ASSUME TypeOK, RetentionInv, NEW x \in Ids,
                      del[Worker].pc = "row", del[Worker].id = x
               PROVE  Cardinality(NewerSuccesses(x)) >= work.max
    OBVIOUS
  <2>1. x \in Doomed /\ \E b \in Ids : exec[b].pc = "delete"
    BY DEF Doomed, RetentionInv, OwnInv
  <2>2. Cardinality(Spared(x)) >= work.max
    BY <2>1 DEF RetentionInv, KeepInv
  <2>3. NewerSuccesses(x) \in SUBSET Ids /\ Spared(x) \in SUBSET NewerSuccesses(x)
    BY DEF NewerSuccesses, Spared
  <2>4. /\ Cardinality(Spared(x)) <= Cardinality(NewerSuccesses(x))
        /\ Cardinality(Spared(x)) \in Nat /\ Cardinality(NewerSuccesses(x)) \in Nat
    BY <2>3, SubsetCard, IdsFinite
  <2> QED
    BY <2>2, <2>4 DEF TypeOK, Work
<1>2. Spec => [](TypeOK /\ RetentionInv)
  BY BackupsTypeCorrect, BackupsRetention, PTL
<1>3. TypeOK /\ RetentionInv => [Kept1]_vars
  BY <1>1
<1> QED
  BY <1>2, <1>3, PTL DEF RetentionKeepsNewest

\* One run whose retention reaches its end leaves retentionMax successes and
\* the new one, however many there were.
THEOREM BackupsCatchesUp == Spec => RetentionCatchesUp
<1> DEFINE Few == \A b \in Ids :
      WriteSuccess(b) /\ kind[b] = "strategy" /\ strat.row /\ work.todo = {}
      => Cardinality(Kept') <= work.max + 1
<1>1. TypeOK /\ ArchiveInv /\ RetentionInv => Few
  <2> SUFFICES ASSUME TypeOK, ArchiveInv, RetentionInv, NEW b \in Ids, WriteSuccess(b),
                      kind[b] = "strategy", strat.row, work.todo = {}
               PROVE  Cardinality(Kept') <= work.max + 1
    OBVIOUS
  <2>1. exec[b].pc = "write" /\ \A x \in Ids : exec[x].pc # "delete"
    BY OneRun DEF WriteSuccess, ArchiveInv
  <2>2. Doomed = {}
    BY <2>1 DEF Doomed, RetentionInv, OwnInv
  <2>3. Cardinality(Kept \ Doomed) <= work.max
    BY <2>1 DEF RetentionInv, CatchInv
  <2>4. Kept \ Doomed = Kept /\ Kept \in SUBSET Ids
    BY <2>2 DEF Kept
  <2>5. Kept' \in SUBSET (Kept \cup {b}) /\ Kept \cup {b} \in SUBSET Ids
    BY <2>4 DEF WriteSuccess, Kept, TypeOK
  <2>6. Cardinality(Kept') <= Cardinality(Kept \cup {b})
    BY <2>5, SubsetCard
  <2>7. Cardinality(Kept \cup {b}) <= Cardinality(Kept) + 1
    BY <2>4, IdsFinite, FS_AddElement
  <2>8. /\ Cardinality(Kept) \in Nat /\ Cardinality(Kept \cup {b}) \in Nat /\ Cardinality(Kept') \in Nat
        /\ work.max \in Nat
    BY <2>4, <2>5, IdsFinite DEF TypeOK, Work
  <2> QED
    BY <2>3, <2>4, <2>6, <2>7, <2>8
<1>2. Spec => [](TypeOK /\ ArchiveInv /\ RetentionInv)
  <2>1. TypeOK /\ ArchiveInv /\ [Next]_vars => (TypeOK /\ ArchiveInv)'
    BY TypeStep, ArchiveStep
  <2> QED
    BY ArchiveInit, <2>1, BackupsRetention, PTL DEF Spec
<1>3. TypeOK /\ ArchiveInv /\ RetentionInv => [Few]_vars
  BY <1>1
<1> QED
  BY <1>2, <1>3, PTL DEF RetentionCatchesUp

=============================================================================
