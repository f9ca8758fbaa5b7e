---------------------------- MODULE DeployProofs ----------------------------
(***************************************************************************)
(* Proofs about Deploy, for any set of applications, users and commits and *)
(* any bound on the number of versions.                                    *)
(***************************************************************************)
EXTENDS Deploy, TLAPS

-----------------------------------------------------------------------------
(* Types.                                                                  *)

\* The per-call part of TypeOK, as a predicate on one call record.
CallOK(r) ==
    /\ r \in Call
    /\ r.pc \in {"check", "create", "mark"} => r.target # 0
    /\ r.pc = "mark" => r.new # 0

LEMMA TypeOKCall == TypeOK => \A c \in Callers : CallOK(call[c])
  BY DEF TypeOK, CallOK

\* What is left to show of TypeOK' when the six other variables are typed.
LEMMA CallType ==
  ASSUME call' \in [Callers -> Call], \A c \in Callers : CallOK(call'[c])
  PROVE  \A c \in Callers :
            /\ call'[c].pc \in {"check", "create", "mark"} => call'[c].target # 0
            /\ call'[c].pc = "mark" => call'[c].new # 0
  BY DEF CallOK

LEMMA IdleCallOK == CallOK(IdleCall)
  BY DeployAssumption DEF CallOK, Call, IdleCall

LEMMA FindCallOK ==
  ASSUME NEW a \in Apps \cup {NoApp}
  PROVE  CallOK([IdleCall EXCEPT !.pc = "find", !.app = a])
  BY IdleCallOK, DeployAssumption DEF CallOK, Call

LEMMA CapturedOK ==
  ASSUME TypeOK, NEW a \in Apps \cup {NoApp}, NEW t \in Ids
  PROVE  CallOK(Captured(a, t))
<1>1. meta[t].commit \in Commits \cup {NoCommit}
  BY DEF TypeOK, Meta
<1>2. ASSUME NEW b \in BOOLEAN, NEW m \in Commits \cup {NoCommit}, NEW w \in 0..MaxVersions, w # 0
      PROVE  CallOK([IdleCall EXCEPT !.pc = "create", !.app = a, !.target = w,
                                     !.commit = m, !.sane = b])
  BY <1>2, IdleCallOK DEF CallOK, Call
<1>3. t \in 0..MaxVersions /\ t # 0
  BY DeployAssumption DEF Ids
<1> QED
  BY <1>1, <1>2, <1>3 DEF Captured

\* Replacing one call by a well-formed one keeps the calls well formed.
LEMMA OneCall ==
  ASSUME TypeOK, NEW c \in Callers, NEW r, CallOK(r), call' = [call EXCEPT ![c] = r]
  PROVE  /\ call' \in [Callers -> Call]
         /\ \A d \in Callers : CallOK(call'[d])
<1>1. call \in [Callers -> Call] /\ r \in Call
  BY DEF TypeOK, CallOK
<1>2. \A d \in Callers : CallOK(call[d])
  BY TypeOKCall
<1> QED
  BY <1>1, <1>2

LEMMA NewVersionType ==
  ASSUME TypeOK, NEW m \in Meta, NEW s \in RowStatus, NewVersion(m, s)
  PROVE  /\ status' \in [Ids -> RowStatus]
         /\ meta' \in [Ids -> Meta]
         /\ created' \in 0..MaxVersions
         /\ created + 1 \in Ids
  BY DeployAssumption DEF TypeOK, NewVersion, Ids

LEMMA NoMetaType == NoMeta \in Meta
  BY DeployAssumption DEF NoMeta, Meta, Origins

LEMMA InitType == Init => TypeOK
  BY NoMetaType, IdleCallOK, DeployAssumption
  DEF Init, TypeOK, Ids, RowStatus, DeployStatus, TaskState, CallOK, IdleCall

LEMMA ProcessDiesType == TypeOK /\ ProcessDies => TypeOK'
  BY IdleCallOK DEF ProcessDies, Unsettled, TypeOK, TaskState, CallOK, IdleCall

LEMMA FinishType ==
  ASSUME TypeOK, NEW v \in Ids, NEW o \in Outcomes, NEW n \in TaskState, Finish(v, o, n)
  PROVE  TypeOK'
<1>1. CASE status[v] = "ABSENT"
  BY <1>1, ProcessDiesType DEF Finish
<1>2. CASE status[v] # "ABSENT"
  <2>1. /\ status' \in [Ids -> RowStatus]
        /\ task' \in [Ids -> TaskState]
        /\ UNCHANGED <<cfg, meta, created, stranded>>
    BY <1>2 DEF Finish, TypeOK, RowStatus, DeployStatus, Outcomes
  <2>2. v \in Callers /\ meta[v].app \in Apps \cup {NoApp}
    BY DEF TypeOK, Meta, Callers
  <2>3. /\ call' \in [Callers -> Call]
        /\ \A d \in Callers : CallOK(call'[d])
    <3>1. CASE o = "FAILED" /\ meta[v].by = "deploy"
      <4>1. call' = [call EXCEPT ![v] = [IdleCall EXCEPT !.pc = "find", !.app = meta[v].app]]
        BY <1>2, <3>1 DEF Finish, AfterResolve
      <4> QED
        BY <4>1, <2>2, FindCallOK, OneCall
    <3>2. CASE ~(o = "FAILED" /\ meta[v].by = "deploy")
      <4>1. call' = call
        BY <1>2, <3>2 DEF Finish, AfterResolve
      <4> QED
        BY <4>1, TypeOKCall DEF TypeOK
    <3> QED
      BY <3>1, <3>2
  <2> QED
    BY <2>1, <2>3, CallType DEF TypeOK
<1> QED
  BY <1>1, <1>2

LEMMA NextType == TypeOK /\ [Next]_vars => TypeOK'
<1> SUFFICES ASSUME TypeOK, [Next]_vars PROVE TypeOK'
  OBVIOUS
<1>1. ASSUME NEW a \in Apps, CreateApp(a) \/ UpdateApp(a) PROVE TypeOK'
  BY <1>1 DEF CreateApp, UpdateApp, TypeOK
<1>2. ASSUME NEW a \in Apps, RemoveApp(a) PROVE TypeOK'
  BY <1>2 DEF RemoveApp, TypeOK, RowStatus
<1>3. ASSUME NEW a \in Apps, TriggerDeploy(a) PROVE TypeOK'
  <2>1. [NoMeta EXCEPT !.app = a, !.by = "deploy", !.sane = TRUE] \in Meta
    BY NoMetaType, DeployAssumption DEF Meta, Origins
  <2>2. "PENDING" \in RowStatus
    BY DEF RowStatus, DeployStatus
  <2> QED
    BY <1>3, <2>1, <2>2, NewVersionType DEF TriggerDeploy, TypeOK, TaskState
<1>4. ASSUME NEW a \in Apps, RecordDeploy(a) PROVE TypeOK'
  <2>1. PICK s \in RecordStatuses, c \in Commits \cup {NoCommit} :
           NewVersion([NoMeta EXCEPT !.app = a, !.by = "record", !.commit = c], s)
    BY <1>4 DEF RecordDeploy
  <2>2. [NoMeta EXCEPT !.app = a, !.by = "record", !.commit = c] \in Meta
    BY NoMetaType, DeployAssumption DEF Meta, Origins
  <2>3. s \in RowStatus
    BY DeployAssumption DEF RowStatus, DeployStatus
  <2> QED
    BY <1>4, <2>1, <2>2, <2>3, NewVersionType DEF RecordDeploy, TypeOK
<1>5. ASSUME NEW v \in Ids, StartDeploy(v) \/ Spawn(v) PROVE TypeOK'
  BY <1>5 DEF StartDeploy, Spawn, TypeOK, TaskState, RowStatus, DeployStatus
<1>6. ASSUME NEW v \in Ids, SpawnFails(v) \/ Close(v) \/ ChildError(v) PROVE TypeOK'
  <2>1. PICK o \in Outcomes, n \in TaskState : Finish(v, o, n)
    BY <1>6 DEF SpawnFails, Close, ChildError, Outcomes, TaskState
  <2> QED
    BY <2>1, FinishType
<1>7. ASSUME NEW v \in Ids, CloseAfterError(v) PROVE TypeOK'
  BY <1>7, ProcessDiesType DEF CloseAfterError, TypeOK, TaskState, RowStatus, DeployStatus
<1>8. ASSUME NEW v \in Ids, FindLastSuccess(v) PROVE TypeOK'
  <2>1. v \in Callers /\ call[v] \in Call /\ UNCHANGED <<cfg, status, meta, created, task, stranded>>
    BY <1>8 DEF Callers, TypeOK, FindLastSuccess
  <2>2. PICK r : CallOK(r) /\ call' = [call EXCEPT ![v] = r]
    <3>1. CASE call' = [call EXCEPT ![v] = IdleCall]
      BY <3>1, IdleCallOK
    <3>2. ASSUME NEW w \in Ids, call' = [call EXCEPT ![v].pc = "check", ![v].target = w]
          PROVE  \E r : CallOK(r) /\ call' = [call EXCEPT ![v] = r]
      <4> DEFINE r == [call[v] EXCEPT !.pc = "check", !.target = w]
      <4>0. w \in 0..MaxVersions /\ w # 0
        BY DeployAssumption DEF Ids
      <4>1. CallOK(r)
        BY <2>1, <4>0 DEF CallOK, Call
      <4>2. call' = [call EXCEPT ![v] = r]
        BY <2>1, <3>2 DEF TypeOK
      <4> QED
        BY <4>1, <4>2
    <3> QED
      BY <1>8, <3>1, <3>2 DEF FindLastSuccess, Succeeded
  <2>3. /\ call' \in [Callers -> Call]
        /\ \A d \in Callers : CallOK(call'[d])
    BY <2>1, <2>2, OneCall
  <2> QED
    BY <2>1, <2>3, CallType DEF TypeOK
<1>9. ASSUME NEW v \in Ids, CheckTarget(v) PROVE TypeOK'
  <2>1. v \in Callers /\ CallOK(call[v]) /\ UNCHANGED <<cfg, status, meta, created, task, stranded>>
    BY <1>9, TypeOKCall DEF Callers, CheckTarget
  <2>2. call[v].app \in Apps \cup {NoApp} /\ call[v].target \in Ids
    BY <1>9, <2>1, DeployAssumption DEF CheckTarget, CallOK, Call, Ids
  <2>3. CallOK(Captured(call[v].app, call[v].target))
    BY <2>2, CapturedOK
  <2>4. /\ call' \in [Callers -> Call]
        /\ \A d \in Callers : CallOK(call'[d])
    BY <1>9, <2>1, <2>3, IdleCallOK, OneCall DEF CheckTarget
  <2> QED
    BY <2>1, <2>4, CallType DEF TypeOK
<1>10. ASSUME NEW u \in Users, NEW a \in Apps, NEW t \in Ids, RequestRollback(u, a, t)
       PROVE TypeOK'
  <2>1. u \in Callers /\ CallOK(Captured(a, t))
    BY CapturedOK DEF Callers
  <2>2. /\ call' \in [Callers -> Call]
        /\ \A d \in Callers : CallOK(call'[d])
    BY <1>10, <2>1, OneCall DEF RequestRollback
  <2> QED
    BY <1>10, <2>2, CallType DEF RequestRollback, TypeOK
<1>11. ASSUME NEW c \in Callers, CreateRollback(c) PROVE TypeOK'
  <2>1. CallOK(call[c])
    BY TypeOKCall
  <2>2. CASE cfg[call[c].app] = "absent"
    <3>1. /\ call' \in [Callers -> Call]
          /\ \A d \in Callers : CallOK(call'[d])
      BY <1>11, <2>2, IdleCallOK, OneCall DEF CreateRollback
    <3> QED
      BY <1>11, <2>2, <3>1, CallType DEF CreateRollback, TypeOK
  <2>3. CASE cfg[call[c].app] # "absent"
    <3>1. RollbackMeta(c) \in Meta
      <4>1. (IF c \in Ids THEN c ELSE 0) \in 0..MaxVersions
        BY DeployAssumption DEF Ids
      <4>2. (IF c \in Ids THEN "auto" ELSE "manual") \in Origins
        BY DEF Origins
      <4> QED
        BY <2>1, <4>1, <4>2 DEF RollbackMeta, Meta, CallOK, Call
    <3>2. "PENDING" \in RowStatus
      BY DEF RowStatus, DeployStatus
    <3>3. /\ status' \in [Ids -> RowStatus]
          /\ meta' \in [Ids -> Meta]
          /\ created' \in 0..MaxVersions
          /\ created + 1 \in Ids
      BY <1>11, <2>3, <3>1, <3>2, NewVersionType DEF CreateRollback
    <3> DEFINE r == [call[c] EXCEPT !.pc = "mark", !.new = created + 1]
    <3>a. created + 1 \in 0..MaxVersions /\ created + 1 # 0 /\ call[c].target # 0
      BY <1>11, <2>1, <3>3, DeployAssumption DEF CallOK, Ids, CreateRollback, TypeOK
    <3>4. CallOK(r)
      BY <2>1, <3>a DEF CallOK, Call
    <3>5. call' = [call EXCEPT ![c] = r]
      BY <1>11, <2>1, <2>3 DEF CreateRollback, TypeOK
    <3>6. /\ call' \in [Callers -> Call]
          /\ \A d \in Callers : CallOK(call'[d])
      BY <3>4, <3>5, OneCall
    <3> QED
      BY <1>11, <2>3, <3>3, <3>6, CallType DEF CreateRollback, TypeOK
  <2> QED
    BY <2>2, <2>3
<1>12. ASSUME NEW c \in Callers, MarkTarget(c) PROVE TypeOK'
  <2>1. CallOK(call[c]) /\ call[c].new \in Ids
    BY <1>12, TypeOKCall, DeployAssumption DEF MarkTarget, CallOK, Call, Ids
  <2>2. /\ call' \in [Callers -> Call]
        /\ \A d \in Callers : CallOK(call'[d])
    BY <1>12, IdleCallOK, OneCall DEF MarkTarget
  <2> QED
    BY <1>12, <2>1, <2>2, CallType DEF MarkTarget, TypeOK, RowStatus, DeployStatus, TaskState
<1>13. CASE UNCHANGED vars
  BY <1>13 DEF vars, TypeOK
<1> QED
  BY <1>1, <1>2, <1>3, <1>4, <1>5, <1>6, <1>7, <1>8, <1>9, <1>10, <1>11, <1>12, <1>13,
     ProcessDiesType DEF Next, TaskStep, AutoStep, CallStep, CrashRestart

\* Type correctness: every column and every handler state stays within its
\* type, whatever is requested, deleted or lost in whatever order.
THEOREM DeployTypeCorrect == Spec => []TypeOK
  BY InitType, NextType, PTL DEF Spec

-----------------------------------------------------------------------------
(* The inductive invariant.                                                *)

LEMMA InitHandler == Init => HandlerInv
  BY DeployAssumption DEF Init, HandlerInv, FreshInv, TaskInv, TargetInv, NewInv, MarkedInv,
     AutoInv, CauseInv, IdleCall, NoMeta, Rollbacks, Ids, Callers

\* What the proofs below use of the types.
LEMMA Shapes ==
  ASSUME TypeOK
  PROVE  /\ created \in Nat /\ MaxVersions \in Nat /\ Ids \subseteq Callers /\ Ids = 1..MaxVersions
         /\ DOMAIN status = Ids /\ DOMAIN task = Ids /\ DOMAIN meta = Ids /\ DOMAIN call = Callers
         /\ \A v \in Ids : /\ meta[v].target \in 0..MaxVersions
                           /\ meta[v].cause \in 0..MaxVersions
         /\ \A c \in Callers : /\ call[c].target \in 0..MaxVersions
                               /\ call[c].new \in 0..MaxVersions
                               /\ call[c].pc \in {"check", "create", "mark"} => call[c].target \in Ids
                               /\ call[c].pc = "mark" => call[c].new \in Ids
<1>1. /\ created \in Nat /\ MaxVersions \in Nat /\ Ids \subseteq Callers /\ Ids = 1..MaxVersions
      /\ DOMAIN status = Ids /\ DOMAIN task = Ids /\ DOMAIN meta = Ids /\ DOMAIN call = Callers
  BY DeployAssumption DEF TypeOK, Ids, Callers
<1>2. \A v \in Ids : meta[v] \in Meta
  BY DEF TypeOK
<1>3. \A c \in Callers : CallOK(call[c])
  BY TypeOKCall
<1>4. \A v \in Ids : meta[v].target \in 0..MaxVersions /\ meta[v].cause \in 0..MaxVersions
  BY <1>2 DEF Meta
<1>5. \A c \in Callers : call[c].target \in 0..MaxVersions /\ call[c].new \in 0..MaxVersions
  BY <1>3 DEF CallOK, Call
<1>6. \A c \in Callers : /\ call[c].pc \in {"check", "create", "mark"} => call[c].target \in Ids
                         /\ call[c].pc = "mark" => call[c].new \in Ids
  BY <1>1, <1>3, <1>5 DEF CallOK
<1> QED
  BY <1>1, <1>4, <1>5, <1>6

LEMMA RemoveHandler ==
  ASSUME TypeOK, HandlerInv, NEW a \in Apps, RemoveApp(a)
  PROVE  HandlerInv'
<1>1. /\ UNCHANGED <<meta, created, task, call>>
      /\ \A v \in Ids : status'[v] \in {status[v], "ABSENT"}
  BY DEF RemoveApp
<1>2. FreshInv'
  BY <1>1, Shapes DEF HandlerInv, FreshInv
<1>3. TaskInv'
  BY <1>1, Shapes DEF HandlerInv, TaskInv
<1>4. TargetInv'
  BY <1>1, Shapes DEF HandlerInv, TargetInv
<1>5. NewInv'
  BY <1>1, Shapes DEF HandlerInv, NewInv
<1>6. MarkedInv'
  BY <1>1, Shapes DEF HandlerInv, MarkedInv
<1>7. AutoInv'
  BY <1>1, Shapes DEF HandlerInv, AutoInv
<1>8. CauseInv'
  BY <1>1, Shapes DEF HandlerInv, CauseInv
<1> QED
  BY <1>2, <1>3, <1>4, <1>5, <1>6, <1>7, <1>8 DEF HandlerInv

LEMMA DiesHandler ==
  ASSUME TypeOK, HandlerInv, ProcessDies
  PROVE  HandlerInv'
<1>1. /\ UNCHANGED <<status, meta, created>>
      /\ \A v \in Ids : task'[v] = "none"
      /\ \A c \in Callers : call'[c] = IdleCall /\ call'[c].pc = "idle"
  BY DEF ProcessDies, IdleCall
<1>2. FreshInv'
  BY <1>1, Shapes DEF HandlerInv, FreshInv
<1>3. TaskInv'
  BY <1>1, Shapes DEF HandlerInv, TaskInv
<1>4. TargetInv'
  BY <1>1, Shapes DEF HandlerInv, TargetInv
<1>5. NewInv'
  BY <1>1, Shapes DEF HandlerInv, NewInv
<1>6. MarkedInv'
  BY <1>1, Shapes DEF HandlerInv, MarkedInv
<1>7. AutoInv'
  BY <1>1, Shapes DEF HandlerInv, AutoInv
<1>8. CauseInv'
  BY <1>1, Shapes DEF HandlerInv, CauseInv
<1> QED
  BY <1>2, <1>3, <1>4, <1>5, <1>6, <1>7, <1>8 DEF HandlerInv

\* The answered state of a failed deploy: no step may leave it.
Answered(c) ==
    /\ c <= created
    /\ meta[c].by = "deploy"
    /\ status[c] \in {"FAILED", "ABSENT"}
    /\ task[c] \in {"none", "erred"}
    /\ call[c].pc \in {"idle", "mark"}

\* CauseInv' follows when no version turns into an automatic rollback and no
\* failed deploy leaves the answered state.
LEMMA CauseStep ==
  ASSUME TypeOK, HandlerInv, created' \in Nat,
         \A v \in Ids : meta'[v].by = "auto" => meta'[v] = meta[v],
         \A c \in Ids : Answered(c) => Answered(c)'
  PROVE  CauseInv'
<1> SUFFICES ASSUME NEW v \in Ids, meta'[v].by = "auto"
             PROVE  LET c == meta'[v].cause
                    IN /\ c \in 1..created'
                       /\ meta'[c].by = "deploy"
                       /\ status'[c] \in {"FAILED", "ABSENT"}
                       /\ task'[c] \in {"none", "erred"}
                       /\ call'[c].pc \in {"idle", "mark"}
                       /\ \A w \in Ids : meta'[w].by = "auto" /\ meta'[w].cause = c => w = v
  BY DEF CauseInv
<1>1. meta'[v] = meta[v] /\ meta[v].by = "auto"
  OBVIOUS
<1> DEFINE c == meta[v].cause
<1>2. /\ c \in 1..created /\ c \in Ids /\ Answered(c)
      /\ \A w \in Ids : meta[w].by = "auto" /\ meta[w].cause = c => w = v
  BY <1>1, Shapes DEF HandlerInv, CauseInv, Answered
<1>3. Answered(c)'
  BY <1>2
<1>4. c \in 1..created'
  BY <1>2, <1>3, Shapes DEF Answered
<1> QED
  BY <1>1, <1>2, <1>3, <1>4 DEF Answered

\* A new version starts from an id nobody has used.
LEMMA NewVersionEffect ==
  ASSUME TypeOK, HandlerInv, NEW m, NEW s, NewVersion(m, s)
  PROVE  LET n == created + 1
         IN /\ n \in Ids /\ created' = n
            /\ status'[n] = s /\ meta'[n] = m
            /\ \A v \in Ids \ {n} : status'[v] = status[v] /\ meta'[v] = meta[v]
            /\ status[n] = "ABSENT" /\ meta[n] = NoMeta /\ task[n] = "none" /\ call[n] = IdleCall
            /\ \A c \in Callers : call[c].pc = "mark" => call[c].new # n
            /\ \A c \in Callers : call[c].pc \in {"create", "mark"} => call[c].target # n
            /\ \A v \in Ids : meta[v].by \in Rollbacks => meta[v].target # n
            /\ \A v \in Ids : meta[v].by = "auto" => meta[v].cause # n
<1>1. created + 1 \in Ids /\ created < MaxVersions
  BY DeployAssumption DEF NewVersion, TypeOK, Ids
<1> QED
  BY <1>1, Shapes DEF NewVersion, HandlerInv, FreshInv, TargetInv, NewInv, MarkedInv, CauseInv

LEMMA TriggerHandler ==
  ASSUME TypeOK, HandlerInv, NEW a \in Apps, TriggerDeploy(a)
  PROVE  HandlerInv'
<1> DEFINE m == [NoMeta EXCEPT !.app = a, !.by = "deploy", !.sane = TRUE]
           n == created + 1
<1>1. m.by = "deploy"
  BY DEF NoMeta
<1>2. /\ NewVersion(m, "PENDING")
      /\ call' = call
      /\ task' = [task EXCEPT ![n] = "starting"]
  BY DEF TriggerDeploy
<1> HIDE DEF m
<1>3. /\ n \in Ids /\ created' = n
      /\ status'[n] = "PENDING" /\ meta'[n] = m
      /\ \A v \in Ids \ {n} : status'[v] = status[v] /\ meta'[v] = meta[v]
      /\ status[n] = "ABSENT" /\ meta[n] = NoMeta /\ task[n] = "none" /\ call[n] = IdleCall
      /\ \A c \in Callers : call[c].pc = "mark" => call[c].new # n
      /\ \A c \in Callers : call[c].pc \in {"create", "mark"} => call[c].target # n
      /\ \A v \in Ids : meta[v].by \in Rollbacks => meta[v].target # n
      /\ \A v \in Ids : meta[v].by = "auto" => meta[v].cause # n
  BY <1>2, NewVersionEffect
<1>4. task'[n] = "starting" /\ \A v \in Ids \ {n} : task'[v] = task[v]
  BY <1>2, <1>3, Shapes
<1>5. IdleCall.pc = "idle"
  BY DEF IdleCall
<1>6. FreshInv' /\ TaskInv'
  BY <1>2, <1>3, <1>4, Shapes DEF HandlerInv, FreshInv, TaskInv
<1>7. TargetInv' /\ NewInv'
  BY <1>1, <1>2, <1>3, <1>4, Shapes DEF HandlerInv, TargetInv, NewInv
<1>8. MarkedInv' /\ AutoInv'
  <2>1. AutoInv'
    BY <1>2, <1>3, <1>4, <1>5, Shapes DEF HandlerInv, AutoInv
  <2>2. MarkedInv'
    BY <1>1, <1>2, <1>3, <1>4, Shapes DEF HandlerInv, MarkedInv, Rollbacks
  <2> QED
    BY <2>1, <2>2
<1>9. CauseInv'
  <2>1. created' \in Nat /\ \A v \in Ids : meta'[v].by = "auto" => meta'[v] = meta[v]
    BY <1>1, <1>3, Shapes
  <2>2. \A c \in Ids : Answered(c) => Answered(c)'
    BY <1>2, <1>3, <1>4, Shapes DEF Answered
  <2> QED
    BY <2>1, <2>2, CauseStep
<1> QED
  BY <1>6, <1>7, <1>8, <1>9 DEF HandlerInv

LEMMA RecordHandler ==
  ASSUME TypeOK, HandlerInv, NEW a \in Apps, RecordDeploy(a)
  PROVE  HandlerInv'
<1> PICK s \in RecordStatuses, k \in Commits \cup {NoCommit} :
       NewVersion([NoMeta EXCEPT !.app = a, !.by = "record", !.commit = k], s)
  BY DEF RecordDeploy
<1> DEFINE m == [NoMeta EXCEPT !.app = a, !.by = "record", !.commit = k]
           n == created + 1
<1>1. m.by = "record"
  BY DEF NoMeta
<1>2. /\ NewVersion(m, s)
      /\ UNCHANGED <<task, call>>
  BY DEF RecordDeploy
<1> HIDE DEF m
<1>3. /\ n \in Ids /\ created' = n
      /\ status'[n] = s /\ meta'[n] = m
      /\ \A v \in Ids \ {n} : status'[v] = status[v] /\ meta'[v] = meta[v]
      /\ status[n] = "ABSENT" /\ meta[n] = NoMeta /\ task[n] = "none" /\ call[n] = IdleCall
      /\ \A c \in Callers : call[c].pc = "mark" => call[c].new # n
      /\ \A c \in Callers : call[c].pc \in {"create", "mark"} => call[c].target # n
      /\ \A v \in Ids : meta[v].by \in Rollbacks => meta[v].target # n
      /\ \A v \in Ids : meta[v].by = "auto" => meta[v].cause # n
  BY <1>2, NewVersionEffect
<1>4. IdleCall.pc = "idle"
  BY DEF IdleCall
<1>5. FreshInv' /\ TaskInv'
  BY <1>2, <1>3, Shapes DEF HandlerInv, FreshInv, TaskInv
<1>6. TargetInv' /\ NewInv'
  BY <1>1, <1>2, <1>3, Shapes DEF HandlerInv, TargetInv, NewInv
<1>7. MarkedInv' /\ AutoInv'
  BY <1>1, <1>2, <1>3, <1>4, Shapes DEF HandlerInv, MarkedInv, AutoInv, Rollbacks
<1>8. CauseInv'
  <2>1. created' \in Nat /\ \A v \in Ids : meta'[v].by = "auto" => meta'[v] = meta[v]
    BY <1>1, <1>3, Shapes
  <2>2. \A c \in Ids : Answered(c) => Answered(c)'
    BY <1>2, <1>3, Shapes DEF Answered
  <2> QED
    BY <2>1, <2>2, CauseStep
<1> QED
  BY <1>5, <1>6, <1>7, <1>8 DEF HandlerInv

LEMMA StartHandler ==
  ASSUME TypeOK, HandlerInv, NEW v \in Ids, StartDeploy(v) \/ Spawn(v)
  PROVE  HandlerInv'
<1>1. /\ UNCHANGED <<meta, created, call>>
      /\ \A w \in Ids \ {v} : status'[w] = status[w] /\ task'[w] = task[w]
      /\ task[v] \in {"starting", "spawning"}
      /\ \/ task'[v] = "none" /\ status'[v] = "ABSENT" /\ status[v] = "ABSENT"
         \/ task'[v] = "spawning" /\ status'[v] = "IN_PROGRESS" /\ status[v] = "PENDING"
         \/ task'[v] = "running" /\ status'[v] = status[v] /\ status[v] \in {"IN_PROGRESS", "ABSENT"}
  BY Shapes DEF StartDeploy, Spawn, HandlerInv, TaskInv
<1>2. FreshInv' /\ TaskInv'
  BY <1>1, Shapes DEF HandlerInv, FreshInv, TaskInv
<1>3. TargetInv' /\ NewInv'
  BY <1>1, Shapes DEF HandlerInv, TargetInv, NewInv
<1>4. MarkedInv'
  <2> SUFFICES ASSUME NEW w \in Ids, meta[w].by \in Rollbacks
               PROVE  task'[w] # "none" \/ status'[w] \notin {"PENDING", "ABSENT"}
                         => status'[meta[w].target] \in {"ROLLED_BACK", "ABSENT"}
    BY <1>1 DEF HandlerInv, MarkedInv
  <2>1. /\ meta[w].target \in Ids
        /\ task[w] # "none" \/ status[w] \notin {"PENDING", "ABSENT"}
              => status[meta[w].target] \in {"ROLLED_BACK", "ABSENT"}
    BY Shapes DEF HandlerInv, MarkedInv
  <2> QED
    BY <1>1, <2>1
<1>5. AutoInv'
  BY <1>1, Shapes DEF HandlerInv, AutoInv
<1>6. CauseInv'
  <2>1. \A c \in Ids : Answered(c) => Answered(c)'
    BY <1>1 DEF Answered
  <2> QED
    BY <1>1, <2>1, Shapes, CauseStep
<1> QED
  BY <1>2, <1>3, <1>4, <1>5, <1>6 DEF HandlerInv

\* The first write of an outcome, from 'close', 'error' or a failed spawn.
LEMMA FinishHandler ==
  ASSUME TypeOK, HandlerInv, NEW v \in Ids, NEW o \in {"SUCCESS", "FAILED"},
         NEW k \in {"none", "erred"}, task[v] \in {"spawning", "running"},
         k = "erred" => o = "FAILED", Finish(v, o, k)
  PROVE  HandlerInv'
<1>1. CASE status[v] = "ABSENT"
  BY <1>1, DiesHandler DEF Finish
<1>2. CASE status[v] # "ABSENT"
  <2> DEFINE f == [IdleCall EXCEPT !.pc = "find", !.app = meta[v].app]
  <2>1. f.pc = "find"
    BY DEF IdleCall
  <2>2. /\ UNCHANGED <<meta, created>>
        /\ status[v] = "IN_PROGRESS" /\ status'[v] = o /\ task'[v] = k
        /\ \A w \in Ids \ {v} : status'[w] = status[w] /\ task'[w] = task[w]
        /\ call' = AfterResolve(v, o)
    BY <1>2, Shapes DEF Finish, HandlerInv, TaskInv
  <2>3. /\ \A c \in Callers \ {v} : call'[c] = call[c]
        /\ \/ call'[v] = call[v]
           \/ o = "FAILED" /\ meta[v].by = "deploy" /\ call'[v] = f
    BY <2>2, Shapes DEF AfterResolve
  <2>4. call[v].pc = "idle" /\ v \in Callers /\ v <= created
    BY <1>2, Shapes DEF HandlerInv, AutoInv, FreshInv
  <2> HIDE DEF f
  <2>5. FreshInv' /\ TaskInv'
    <3>1. FreshInv'
      BY <2>2, <2>3, <2>4, Shapes DEF HandlerInv, FreshInv
    <3>2. TaskInv'
      BY <2>2 DEF HandlerInv, TaskInv
    <3> QED
      BY <3>1, <3>2
  <2>6. TargetInv' /\ NewInv'
    <3>1. TargetInv'
      BY <2>1, <2>2, <2>3, Shapes DEF HandlerInv, TargetInv
    <3>2. \A c \in Callers : call'[c].pc = "mark" => call'[c] = call[c] /\ call[c].new # v
      BY <2>1, <2>2, <2>3, Shapes DEF HandlerInv, NewInv
    <3>3. NewInv'
      BY <2>2, <3>2, Shapes DEF HandlerInv, NewInv
    <3> QED
      BY <3>1, <3>3
  <2>7. MarkedInv' /\ AutoInv'
    <3>1. MarkedInv'
      <4> SUFFICES ASSUME NEW w \in Ids, meta[w].by \in Rollbacks
                   PROVE  /\ meta[w].target \in 1..created
                          /\ task'[w] # "none" \/ status'[w] \notin {"PENDING", "ABSENT"}
                                => status'[meta[w].target] \in {"ROLLED_BACK", "ABSENT"}
        BY <2>2 DEF MarkedInv
      <4>1. /\ meta[w].target \in 1..created
            /\ meta[w].target \in Ids
            /\ task[w] # "none" \/ status[w] \notin {"PENDING", "ABSENT"}
                  => status[meta[w].target] \in {"ROLLED_BACK", "ABSENT"}
        BY Shapes DEF HandlerInv, MarkedInv
      <4>2. meta[w].target # v \/ ~(task[w] # "none" \/ status[w] \notin {"PENDING", "ABSENT"})
        BY <2>2, <4>1
      <4>3. task[w] # "none" \/ status[w] \notin {"PENDING", "ABSENT"}
              \/ (task'[w] = task[w] /\ status'[w] = status[w])
        BY <2>2
      <4> QED
        BY <2>2, <4>1, <4>2, <4>3
    <3>2. AutoInv'
      <4> SUFFICES ASSUME NEW w \in Ids, call'[w].pc # "idle"
                   PROVE  /\ meta[w].by = "deploy"
                          /\ status'[w] \in {"FAILED", "ABSENT"}
                          /\ task'[w] \in {"none", "erred"}
        BY <2>2 DEF AutoInv
      <4>1. CASE w = v
        BY <2>2, <2>3, <2>4, <4>1
      <4>2. CASE w # v
        <5>1. call'[w] = call[w]
          BY <2>3, <4>2, Shapes DEF Callers
        <5> QED
          BY <2>2, <4>2, <5>1 DEF HandlerInv, AutoInv
      <4> QED
        BY <4>1, <4>2
    <3> QED
      BY <3>1, <3>2
  <2>8. CauseInv'
    <3>1. \A c \in Ids : Answered(c) => Answered(c)'
      BY <2>2, <2>3, Shapes DEF Answered
    <3> QED
      BY <2>2, <3>1, Shapes, CauseStep
  <2> QED
    BY <2>5, <2>6, <2>7, <2>8 DEF HandlerInv
<1> QED
  BY <1>1, <1>2

LEMMA CloseAfterErrorHandler ==
  ASSUME TypeOK, HandlerInv, NEW v \in Ids, CloseAfterError(v)
  PROVE  HandlerInv'
<1>1. CASE status[v] = "ABSENT"
  BY <1>1, DiesHandler DEF CloseAfterError
<1>2. CASE status[v] # "ABSENT"
  <2>1. /\ UNCHANGED <<meta, created, call>>
        /\ task[v] = "erred" /\ task'[v] = "none"
        /\ \A w \in Ids : status'[w] = status[w]
        /\ \A w \in Ids \ {v} : task'[w] = task[w]
    BY <1>2, Shapes DEF CloseAfterError, HandlerInv, TaskInv
  <2>2. FreshInv'
    BY <2>1, Shapes DEF HandlerInv, FreshInv
  <2>3. TaskInv'
    BY <2>1, Shapes DEF HandlerInv, TaskInv
  <2>4. TargetInv'
    BY <2>1, Shapes DEF HandlerInv, TargetInv
  <2>5. NewInv'
    BY <2>1, Shapes DEF HandlerInv, NewInv
  <2>6. MarkedInv'
    BY <2>1, Shapes DEF HandlerInv, MarkedInv
  <2>7. AutoInv'
    BY <2>1, Shapes DEF HandlerInv, AutoInv
  <2>8. CauseInv'
    BY <2>1, Shapes DEF HandlerInv, CauseInv
  <2> QED
    BY <2>2, <2>3, <2>4, <2>5, <2>6, <2>7, <2>8 DEF HandlerInv
<1> QED
  BY <1>1, <1>2

\* A call that is neither created nor marked next to others that do not change.
LEMMA SearchHandler ==
  ASSUME TypeOK, HandlerInv, NEW c \in Callers, NEW r,
         UNCHANGED <<status, meta, created, task>>, call' = [call EXCEPT ![c] = r],
         r.pc \in {"idle", "check", "create"},
         r.pc = "create" => /\ r.target \in Ids
                            /\ status[r.target] = "SUCCESS",
         c \in Ids => call[c].pc \in {"find", "check", "create"},
         call[c].pc # "mark"
  PROVE  HandlerInv'
<1>1. call'[c] = r /\ \A d \in Callers \ {c} : call'[d] = call[d]
  BY Shapes
<1>2. r.pc = "create" => r.target <= created
  BY Shapes DEF HandlerInv, FreshInv
<1>3. FreshInv' /\ TaskInv'
  <2>1. c \in Ids => c <= created
    BY Shapes DEF HandlerInv, FreshInv, IdleCall
  <2> QED
    BY <1>1, <2>1, Shapes DEF HandlerInv, FreshInv, TaskInv
<1>4. TargetInv'
  BY <1>1, <1>2, Shapes DEF HandlerInv, TargetInv
<1>5. NewInv'
  BY <1>1, Shapes DEF HandlerInv, NewInv
<1>6. MarkedInv' /\ AutoInv'
  BY <1>1, Shapes DEF HandlerInv, MarkedInv, AutoInv
<1>7. CauseInv'
  <2>1. \A d \in Ids : Answered(d) => Answered(d)'
    BY <1>1, Shapes DEF Answered
  <2> QED
    BY <2>1, Shapes, CauseStep
<1> QED
  BY <1>3, <1>4, <1>5, <1>6, <1>7 DEF HandlerInv

LEMMA AutoHandler ==
  ASSUME TypeOK, HandlerInv, NEW v \in Ids, FindLastSuccess(v) \/ CheckTarget(v)
  PROVE  HandlerInv'
<1>1. UNCHANGED <<status, meta, created, task>> /\ v \in Callers /\ call[v].pc \in {"find", "check"}
  BY Shapes DEF FindLastSuccess, CheckTarget
<1>2. CASE call' = [call EXCEPT ![v] = IdleCall]
  BY <1>1, <1>2, SearchHandler DEF IdleCall
<1>3. ASSUME NEW w \in Ids, call' = [call EXCEPT ![v].pc = "check", ![v].target = w]
      PROVE  HandlerInv'
  <2> DEFINE r == [call[v] EXCEPT !.pc = "check", !.target = w]
  <2>1. call' = [call EXCEPT ![v] = r]
    BY <1>1, <1>3 DEF TypeOK
  <2>2. r.pc = "check"
    BY <1>1 DEF TypeOK, Call
  <2> HIDE DEF r
  <2> QED
    BY <1>1, <2>1, <2>2, SearchHandler
<1>4. ASSUME CheckTarget(v), RollbackAllowed(call[v].app, call[v].target)
      PROVE  HandlerInv'
  <2> DEFINE r == Captured(call[v].app, call[v].target)
  <2>1. call' = [call EXCEPT ![v] = r]
    BY <1>4 DEF CheckTarget
  <2>2. r.pc = "create" /\ r.target = call[v].target
    BY DEF Captured, IdleCall
  <2>3. r.target \in Ids /\ status[r.target] = "SUCCESS"
    BY <1>1, <1>4, <2>2, Shapes DEF RollbackAllowed, CheckTarget
  <2> HIDE DEF r
  <2> QED
    BY <1>1, <2>1, <2>2, <2>3, SearchHandler
<1> QED
  BY <1>2, <1>3, <1>4 DEF FindLastSuccess, CheckTarget, Succeeded

LEMMA RequestHandler ==
  ASSUME TypeOK, HandlerInv, NEW u \in Users, NEW a \in Apps, NEW t \in Ids,
         RequestRollback(u, a, t)
  PROVE  HandlerInv'
<1> DEFINE r == Captured(a, t)
<1>1. u \in Callers /\ u \notin Ids
  BY DeployAssumption DEF Callers
<1>2. /\ call' = [call EXCEPT ![u] = r] /\ call[u].pc = "idle"
      /\ UNCHANGED <<status, meta, created, task>>
  BY DEF RequestRollback
<1>3. r.pc = "create" /\ r.target = t
  BY DEF Captured, IdleCall
<1>4. status[t] = "SUCCESS"
  BY DEF RequestRollback, RollbackAllowed
<1> HIDE DEF r
<1> QED
  BY <1>1, <1>2, <1>3, <1>4, SearchHandler

\* The new row waits for its call; a failed deploy is now answered.
LEMMA CreateHandler ==
  ASSUME TypeOK, HandlerInv, NEW c \in Callers, CreateRollback(c)
  PROVE  HandlerInv'
<1>1. CASE cfg[call[c].app] = "absent"
  BY <1>1, SearchHandler DEF CreateRollback, IdleCall
<1>2. CASE cfg[call[c].app] # "absent"
  <2> DEFINE n == created + 1
             m == RollbackMeta(c)
  <2>1. /\ NewVersion(m, "PENDING")
        /\ task' = task
        /\ call[c].pc = "create"
    BY <1>2 DEF CreateRollback
  <2>2. /\ m.by = (IF c \in Ids THEN "auto" ELSE "manual")
        /\ m.target = call[c].target
        /\ m.cause = (IF c \in Ids THEN c ELSE 0)
    BY DEF RollbackMeta
  <2> HIDE DEF m
  <2>3. /\ n \in Ids /\ created' = n
        /\ status'[n] = "PENDING" /\ meta'[n] = m
        /\ \A v \in Ids \ {n} : status'[v] = status[v] /\ meta'[v] = meta[v]
        /\ status[n] = "ABSENT" /\ meta[n] = NoMeta /\ task[n] = "none" /\ call[n] = IdleCall
        /\ \A d \in Callers : call[d].pc = "mark" => call[d].new # n
        /\ \A d \in Callers : call[d].pc \in {"create", "mark"} => call[d].target # n
        /\ \A v \in Ids : meta[v].by \in Rollbacks => meta[v].target # n
        /\ \A v \in Ids : meta[v].by = "auto" => meta[v].cause # n
    BY <2>1, NewVersionEffect
  <2>4. IdleCall.pc = "idle" /\ NoMeta.by = "none"
    BY DEF IdleCall, NoMeta
  <2>5. /\ call'[c].pc = "mark" /\ call'[c].new = n /\ call'[c].target = call[c].target
        /\ \A d \in Callers \ {c} : call'[d] = call[d]
        /\ c # n
    <3>1. call' = [call EXCEPT ![c].pc = "mark", ![c].new = n]
      BY <1>2 DEF CreateRollback
    <3>2. call[c] \in Call
      BY DEF TypeOK
    <3> QED
      BY <2>1, <2>3, <2>4, <3>1, <3>2, Shapes DEF Call
  <2>6. FreshInv' /\ TaskInv'
    <3>1. c \in Ids => c <= created
      BY <2>1, <2>4, Shapes DEF HandlerInv, FreshInv
    <3> QED
      BY <2>1, <2>3, <2>5, <3>1, Shapes DEF HandlerInv, FreshInv, TaskInv
  <2>7. TargetInv'
    <3> SUFFICES ASSUME NEW d \in Callers, call'[d].pc \in {"create", "mark"}
                 PROVE  /\ call'[d].target <= created'
                        /\ status'[call'[d].target] \in {"SUCCESS", "ROLLED_BACK", "ABSENT"}
      BY DEF TargetInv
    <3>1. call[d].pc \in {"create", "mark"} /\ call'[d].target = call[d].target
      BY <2>1, <2>5
    <3>2. /\ call[d].target \in Ids /\ call[d].target <= created /\ call[d].target # n
          /\ status[call[d].target] \in {"SUCCESS", "ROLLED_BACK", "ABSENT"}
      BY <2>3, <3>1, Shapes DEF HandlerInv, TargetInv
    <3> QED
      BY <2>3, <3>1, <3>2, Shapes
  <2>8. NewInv'
    <3>1. ASSUME NEW d \in Callers, d # c, call'[d].pc = "mark"
          PROVE  LET k == call'[d].new
                 IN /\ k <= created'
                    /\ status'[k] \in {"PENDING", "ABSENT"}
                    /\ task'[k] = "none"
                    /\ meta'[k].by \in Rollbacks
                    /\ meta'[k].target = call'[d].target
                    /\ \A e \in Callers : call'[e].pc = "mark" /\ call'[e].new = k => e = d
      <4> DEFINE k == call[d].new
      <4>1. call'[d] = call[d] /\ call[d].pc = "mark"
        BY <2>5, <3>1
      <4>2. /\ k \in Ids /\ k # n /\ k <= created
            /\ status[k] \in {"PENDING", "ABSENT"}
            /\ task[k] = "none"
            /\ meta[k].by \in Rollbacks
            /\ meta[k].target = call[d].target
            /\ \A e \in Callers : call[e].pc = "mark" /\ call[e].new = k => e = d
        BY <2>3, <4>1, Shapes DEF HandlerInv, NewInv
      <4>3. status'[k] = status[k] /\ task'[k] = task[k] /\ meta'[k] = meta[k]
        BY <2>1, <2>3, <4>2
      <4>4. \A e \in Callers : call'[e].pc = "mark" /\ call'[e].new = k => e = d
        BY <2>5, <4>2
      <4>5. k <= created'
        BY <2>3, <4>2, Shapes
      <4> QED
        BY <4>1, <4>2, <4>3, <4>4, <4>5
    <3>2. m.by \in Rollbacks
      BY <2>2 DEF Rollbacks
    <3> QED
      BY <2>1, <2>2, <2>3, <2>5, <3>1, <3>2, Shapes DEF NewInv
  <2>9. MarkedInv'
    <3>1. call[c].target \in 1..created
      BY <2>1, Shapes DEF HandlerInv, TargetInv
    <3> QED
      BY <2>1, <2>2, <2>3, <3>1, Shapes DEF HandlerInv, MarkedInv
  <2>10. AutoInv'
    BY <2>1, <2>3, <2>4, <2>5, Shapes DEF HandlerInv, AutoInv
  <2>11. CauseInv'
    <3>1. \A v \in Ids : meta[v].by = "auto" =>
             LET d == meta[v].cause
             IN /\ d \in 1..created /\ d \in Ids /\ d # n /\ d # c
                /\ Answered(d)
                /\ \A w \in Ids : meta[w].by = "auto" /\ meta[w].cause = d => w = v
      BY <2>1, <2>3, Shapes DEF HandlerInv, CauseInv, Answered
    <3>2. ASSUME c \in Ids
          PROVE  /\ c \in 1..created
                 /\ meta[c].by = "deploy"
                 /\ status[c] \in {"FAILED", "ABSENT"}
                 /\ task[c] \in {"none", "erred"}
      BY <2>1, <2>4, <3>2, Shapes DEF HandlerInv, AutoInv, FreshInv
    <3>3. ASSUME NEW v \in Ids, meta'[v].by = "auto", v # n
          PROVE  LET d == meta'[v].cause
                 IN /\ d \in 1..created'
                    /\ meta'[d].by = "deploy"
                    /\ status'[d] \in {"FAILED", "ABSENT"}
                    /\ task'[d] \in {"none", "erred"}
                    /\ call'[d].pc \in {"idle", "mark"}
                    /\ \A w \in Ids : meta'[w].by = "auto" /\ meta'[w].cause = d => w = v
      <4>1. meta'[v] = meta[v] /\ meta[v].by = "auto"
        BY <2>3, <3>3
      <4> PICK d \in Ids : d = meta[v].cause
        BY <3>1, <4>1
      <4>2. /\ d \in 1..created /\ d # n /\ d # c
            /\ Answered(d)
            /\ \A w \in Ids : meta[w].by = "auto" /\ meta[w].cause = d => w = v
        BY <3>1, <4>1
      <4>3. Answered(d)'
        <5>1. d \in Callers \ {c} /\ d \in Ids \ {n}
          BY <4>2, Shapes
        <5>2. /\ status'[d] = status[d] /\ meta'[d] = meta[d]
              /\ task'[d] = task[d] /\ call'[d] = call[d]
          BY <2>1, <2>3, <2>5, <5>1
        <5>3. d <= created'
          BY <2>3, <4>2, Shapes
        <5> QED
          BY <4>2, <5>2, <5>3 DEF Answered
      <4>4. \A w \in Ids : meta'[w].by = "auto" /\ meta'[w].cause = d => w = v
        <5>1. m.by = "auto" => m.cause = c
          BY <2>2
        <5> QED
          BY <2>3, <4>2, <5>1
      <4>5. d \in 1..created'
        BY <2>3, <4>2, Shapes
      <4> QED
        BY <4>1, <4>3, <4>4, <4>5 DEF Answered
    <3>4. ASSUME m.by = "auto"
          PROVE  LET d == meta'[n].cause
                 IN /\ d \in 1..created'
                    /\ meta'[d].by = "deploy"
                    /\ status'[d] \in {"FAILED", "ABSENT"}
                    /\ task'[d] \in {"none", "erred"}
                    /\ call'[d].pc \in {"idle", "mark"}
                    /\ \A w \in Ids : meta'[w].by = "auto" /\ meta'[w].cause = d => w = n
      <4>1. c \in Ids /\ meta'[n].cause = c
        BY <2>2, <2>3, <3>4
      <4>2. \A w \in Ids : meta'[w].by = "auto" /\ meta'[w].cause = c => w = n
        BY <2>3, <3>1
      <4> QED
        BY <2>1, <2>3, <2>5, <3>2, <4>1, <4>2, Shapes
    <3> QED
      BY <2>3, <3>3, <3>4 DEF CauseInv
  <2> QED
    BY <2>6, <2>7, <2>8, <2>9, <2>10, <2>11 DEF HandlerInv
<1> QED
  BY <1>1, <1>2

LEMMA MarkHandler ==
  ASSUME TypeOK, HandlerInv, NEW c \in Callers, MarkTarget(c)
  PROVE  HandlerInv'
<1> DEFINE t == call[c].target
           n == call[c].new
<1>1. /\ t \in Ids /\ n \in Ids /\ t <= created /\ n <= created
      /\ status[t] \in {"SUCCESS", "ROLLED_BACK", "ABSENT"}
      /\ status[n] \in {"PENDING", "ABSENT"}
      /\ task[n] = "none" /\ meta[n].by \in Rollbacks /\ meta[n].target = t
      /\ \A d \in Callers : call[d].pc = "mark" /\ call[d].new = n => d = c
  BY Shapes DEF MarkTarget, HandlerInv, TargetInv, NewInv
<1>2. /\ UNCHANGED <<meta, created>>
      /\ call'[c] = IdleCall /\ call'[c].pc = "idle"
      /\ \A d \in Callers \ {c} : call'[d] = call[d]
  BY Shapes DEF MarkTarget, IdleCall
<1>3. CASE status[t] = "ABSENT"
  <2>1. UNCHANGED <<status, task>>
    BY <1>3 DEF MarkTarget
  <2>2. FreshInv' /\ TaskInv' /\ TargetInv' /\ MarkedInv' /\ AutoInv'
    BY <1>2, <2>1, Shapes DEF HandlerInv, FreshInv, TaskInv, TargetInv, MarkedInv, AutoInv
  <2>3. NewInv'
    <3>1. \A d \in Callers : call'[d].pc = "mark" => call'[d] = call[d] /\ call[d].pc = "mark"
      BY <1>2
    <3> QED
      BY <1>2, <2>1, <3>1 DEF HandlerInv, NewInv
  <2>4. CauseInv'
    BY <1>2, <2>1, Shapes DEF HandlerInv, CauseInv
  <2> QED
    BY <2>2, <2>3, <2>4 DEF HandlerInv
<1>4. CASE status[t] # "ABSENT"
  <2>1. /\ t # n
        /\ status'[t] = "ROLLED_BACK" /\ task'[t] = task[t]
        /\ status'[n] = status[n] /\ task'[n] = "starting"
        /\ \A v \in Ids \ {t} : status'[v] = status[v]
        /\ \A v \in Ids \ {n} : task'[v] = task[v]
    BY <1>1, <1>4, Shapes DEF MarkTarget
  <2>2. FreshInv' /\ TaskInv'
    BY <1>1, <1>2, <1>4, <2>1, Shapes DEF HandlerInv, FreshInv, TaskInv
  <2>3. TargetInv'
    BY <1>1, <1>2, <2>1, Shapes DEF HandlerInv, TargetInv
  <2>4. NewInv'
    <3>1. \A d \in Callers : call'[d].pc = "mark" =>
             /\ d # c /\ call[d].pc = "mark" /\ call'[d] = call[d]
             /\ call[d].new \in Ids \ {t, n}
      BY <1>1, <1>2, <1>4, Shapes DEF HandlerInv, NewInv
    <3> QED
      BY <1>2, <2>1, <3>1, Shapes DEF HandlerInv, NewInv
  <2>5. MarkedInv'
    <3> SUFFICES ASSUME NEW v \in Ids, meta[v].by \in Rollbacks
                 PROVE  task'[v] # "none" \/ status'[v] \notin {"PENDING", "ABSENT"}
                           => status'[meta[v].target] \in {"ROLLED_BACK", "ABSENT"}
      BY <1>2 DEF HandlerInv, MarkedInv
    <3>1. /\ meta[v].target \in Ids
          /\ task[v] # "none" \/ status[v] \notin {"PENDING", "ABSENT"}
                => status[meta[v].target] \in {"ROLLED_BACK", "ABSENT"}
      BY Shapes DEF HandlerInv, MarkedInv
    <3> QED
      BY <1>1, <1>4, <2>1, <3>1
  <2>6. AutoInv'
    BY <1>1, <1>2, <1>4, <2>1, Shapes DEF HandlerInv, AutoInv, Rollbacks
  <2>7. CauseInv'
    <3>1. \A d \in Ids : Answered(d) => Answered(d)'
      BY <1>1, <1>2, <1>4, <2>1, Shapes DEF Answered, Rollbacks
    <3> QED
      BY <1>2, <3>1, Shapes, CauseStep
  <2> QED
    BY <2>2, <2>3, <2>4, <2>5, <2>6, <2>7 DEF HandlerInv
<1> QED
  BY <1>3, <1>4

LEMMA FinishStep ==
  ASSUME NEW v \in Ids, SpawnFails(v) \/ Close(v) \/ ChildError(v)
  PROVE  \E o \in {"SUCCESS", "FAILED"}, k \in {"none", "erred"} :
            /\ task[v] \in {"spawning", "running"}
            /\ k = "erred" => o = "FAILED"
            /\ Finish(v, o, k)
  BY DEF SpawnFails, Close, ChildError

LEMMA NextHandler == TypeOK /\ HandlerInv /\ [Next]_vars => HandlerInv'
<1> SUFFICES ASSUME TypeOK, HandlerInv, [Next]_vars PROVE HandlerInv'
  OBVIOUS
<1>1. ASSUME UNCHANGED <<status, meta, created, task, call>> PROVE HandlerInv'
  BY <1>1 DEF HandlerInv, FreshInv, TaskInv, TargetInv, NewInv, MarkedInv, AutoInv, CauseInv
<1>2. ASSUME NEW a \in Apps, CreateApp(a) \/ UpdateApp(a) PROVE HandlerInv'
  BY <1>1, <1>2 DEF CreateApp, UpdateApp
<1>3. ASSUME NEW v \in Ids, SpawnFails(v) \/ Close(v) \/ ChildError(v) PROVE HandlerInv'
  BY <1>3, FinishStep, FinishHandler
<1>4. CASE UNCHANGED vars
  BY <1>1, <1>4 DEF vars
<1> QED
  BY <1>2, <1>3, <1>4, RemoveHandler, DiesHandler, TriggerHandler, RecordHandler, StartHandler,
     CloseAfterErrorHandler, AutoHandler, RequestHandler, CreateHandler, MarkHandler
  DEF Next, TaskStep, AutoStep, CallStep, CrashRestart

\* One writer per version, targets marked before they are left, failures
\* answered once: the invariant every theorem below rests on.
THEOREM DeployHandlers == Spec => [](TypeOK /\ HandlerInv)
<1>1. Init => TypeOK /\ HandlerInv
  BY InitType, InitHandler
<1>2. TypeOK /\ HandlerInv /\ [Next]_vars => (TypeOK /\ HandlerInv)'
  BY NextType, NextHandler
<1> QED
  BY <1>1, <1>2, PTL DEF Spec

\* Concurrent rollbacks leave no running rollback whose target still counts as
\* the current version (RollbackConsumesTarget).
THEOREM DeployConsumesTarget == Spec => []RollbackConsumesTarget
<1>1. TypeOK /\ HandlerInv => RollbackConsumesTarget
  BY DEF HandlerInv, MarkedInv, RollbackConsumesTarget
<1> QED
  BY <1>1, DeployHandlers, PTL

\* A failed deploy is rolled back at most once and a failed rollback never
\* (OneRollbackPerFailure).
THEOREM DeployOneRollback == Spec => []OneRollbackPerFailure
<1>1. TypeOK /\ HandlerInv => OneRollbackPerFailure
  BY DEF HandlerInv, AutoInv, CauseInv, OneRollbackPerFailure
<1> QED
  BY <1>1, DeployHandlers, PTL

\* One step changes no status against the life cycle of a version.
LEMMA LegalStep ==
  ASSUME TypeOK, HandlerInv, [Next]_vars
  PROVE  \A v \in Ids : LegalStatusChange(v)
<1>1. ASSUME UNCHANGED status PROVE \A v \in Ids : LegalStatusChange(v)
  BY <1>1 DEF LegalStatusChange
<1>2. ASSUME ProcessDies PROVE \A v \in Ids : LegalStatusChange(v)
  BY <1>1, <1>2 DEF ProcessDies
<1>3. ASSUME NEW a \in Apps, RemoveApp(a) PROVE \A v \in Ids : LegalStatusChange(v)
  BY <1>3 DEF RemoveApp, LegalStatusChange
<1>4. ASSUME NEW m, NEW s, NewVersion(m, s) PROVE \A v \in Ids : LegalStatusChange(v)
  BY <1>4, NewVersionEffect DEF LegalStatusChange
<1>5. ASSUME NEW v \in Ids, StartDeploy(v) PROVE \A w \in Ids : LegalStatusChange(w)
  BY <1>5, Shapes DEF StartDeploy, HandlerInv, TaskInv, LegalStatusChange
<1>6. ASSUME NEW v \in Ids, SpawnFails(v) \/ Close(v) \/ ChildError(v)
      PROVE  \A w \in Ids : LegalStatusChange(w)
  BY <1>2, <1>6, FinishStep, Shapes DEF Finish, HandlerInv, TaskInv, LegalStatusChange
<1>7. ASSUME NEW v \in Ids, CloseAfterError(v) PROVE \A w \in Ids : LegalStatusChange(w)
  BY <1>2, <1>7, Shapes DEF CloseAfterError, HandlerInv, TaskInv, LegalStatusChange
<1>8. ASSUME NEW c \in Callers, MarkTarget(c) PROVE \A w \in Ids : LegalStatusChange(w)
  BY <1>8, Shapes DEF MarkTarget, HandlerInv, TargetInv, LegalStatusChange
<1>9. ASSUME NEW c \in Callers, CreateRollback(c) PROVE \A w \in Ids : LegalStatusChange(w)
  BY <1>1, <1>4, <1>9 DEF CreateRollback
<1>10. ASSUME NEW a \in Apps, TriggerDeploy(a) \/ RecordDeploy(a)
       PROVE  \A w \in Ids : LegalStatusChange(w)
  BY <1>4, <1>10 DEF TriggerDeploy, RecordDeploy
<1> QED
  BY <1>1, <1>2, <1>3, <1>5, <1>6, <1>7, <1>8, <1>9, <1>10
  DEF Next, TaskStep, AutoStep, CallStep, CrashRestart, CreateApp, UpdateApp, Spawn,
      FindLastSuccess, CheckTarget, RequestRollback, vars

\* The outcome of a version is never rewritten (OutcomeFinal).
THEOREM DeployOutcomeFinal == Spec => OutcomeFinal
<1>1. TypeOK /\ HandlerInv /\ [Next]_vars => [\A v \in Ids : LegalStatusChange(v)]_vars
  BY LegalStep
<1> QED
  BY <1>1, DeployHandlers, PTL DEF Spec, OutcomeFinal

\* Ownership is kept by a step that disturbs it at no version.
LEMMA OwnedBy ==
  ASSUME UnfinishedIsOwned,
         \A v \in Ids : v \in Unsettled' \ stranded' =>
            \/ task'[v] # "none"
            \/ \E c \in Callers : call'[c].pc = "mark" /\ call'[c].new = v
            \/ /\ v \in Unsettled \ stranded
               /\ task'[v] = task[v]
               /\ \A c \in Callers : call[c].pc = "mark" /\ call[c].new = v => call'[c] = call[c]
  PROVE  UnfinishedIsOwned'
  BY DEF UnfinishedIsOwned, Unsettled

LEMMA NextOwned == TypeOK /\ HandlerInv /\ UnfinishedIsOwned /\ [Next]_vars => UnfinishedIsOwned'
<1> SUFFICES ASSUME TypeOK, HandlerInv, UnfinishedIsOwned, [Next]_vars PROVE UnfinishedIsOwned'
  OBVIOUS
<1>1. ASSUME UNCHANGED <<status, meta, created, task, call, stranded>> PROVE UnfinishedIsOwned'
  BY <1>1 DEF UnfinishedIsOwned, Unsettled
<1>2. ASSUME ProcessDies PROVE UnfinishedIsOwned'
  BY <1>2 DEF ProcessDies, UnfinishedIsOwned, Unsettled
<1>3. ASSUME NEW a \in Apps, RemoveApp(a) PROVE UnfinishedIsOwned'
  BY <1>3, OwnedBy, Shapes DEF RemoveApp, Unsettled
<1>4. ASSUME NEW a \in Apps, TriggerDeploy(a) PROVE UnfinishedIsOwned'
  BY <1>4, OwnedBy, NewVersionEffect, Shapes DEF TriggerDeploy, Unsettled
<1>5. ASSUME NEW a \in Apps, RecordDeploy(a) PROVE UnfinishedIsOwned'
  <2> PICK s \in RecordStatuses, k \in Commits \cup {NoCommit} :
         NewVersion([NoMeta EXCEPT !.app = a, !.by = "record", !.commit = k], s)
    BY <1>5 DEF RecordDeploy
  <2> DEFINE m == [NoMeta EXCEPT !.app = a, !.by = "record", !.commit = k]
  <2>1. m.by = "record"
    BY DEF NoMeta
  <2>2. NewVersion(m, s)
    OBVIOUS
  <2> HIDE DEF m
  <2>3. UNCHANGED <<task, call, stranded>>
    BY <1>5 DEF RecordDeploy
  <2> QED
    BY <2>1, <2>2, <2>3, OwnedBy, NewVersionEffect DEF Unsettled
<1>6. ASSUME NEW v \in Ids, StartDeploy(v) \/ Spawn(v) PROVE UnfinishedIsOwned'
  BY <1>6, OwnedBy, Shapes DEF StartDeploy, Spawn, Unsettled
<1>7. ASSUME NEW v \in Ids, SpawnFails(v) \/ Close(v) \/ ChildError(v) PROVE UnfinishedIsOwned'
  <2>1. PICK o \in {"SUCCESS", "FAILED"}, k \in {"none", "erred"} :
           task[v] \in {"spawning", "running"} /\ Finish(v, o, k)
    BY <1>7, FinishStep
  <2>2. CASE status[v] = "ABSENT"
    BY <1>2, <2>1, <2>2 DEF Finish
  <2>3. CASE status[v] # "ABSENT"
    <3>1. /\ v \notin Unsettled' /\ UNCHANGED <<meta, stranded>>
          /\ \A w \in Ids \ {v} : status'[w] = status[w] /\ task'[w] = task[w]
          /\ call[v].pc = "idle"
      BY <2>1, <2>3, Shapes DEF Finish, Unsettled, HandlerInv, AutoInv
    <3>2. \A c \in Callers \ {v} : call'[c] = call[c]
      BY <2>1, <2>3, Shapes DEF Finish, AfterResolve
    <3> QED
      BY <3>1, <3>2, OwnedBy DEF Unsettled
  <2> QED
    BY <2>2, <2>3
<1>8. ASSUME NEW v \in Ids, CloseAfterError(v) PROVE UnfinishedIsOwned'
  BY <1>2, <1>8, OwnedBy, Shapes DEF CloseAfterError, Unsettled
<1>9. ASSUME NEW c \in Callers, NEW r, call' = [call EXCEPT ![c] = r], call[c].pc # "mark",
             UNCHANGED <<status, meta, task, stranded>>
      PROVE  UnfinishedIsOwned'
  BY <1>9, OwnedBy, Shapes DEF Unsettled
<1>10. ASSUME NEW v \in Ids, FindLastSuccess(v) \/ CheckTarget(v) PROVE UnfinishedIsOwned'
  <2>1. v \in Callers /\ call[v].pc # "mark" /\ UNCHANGED <<status, meta, task, stranded>>
    BY <1>10, Shapes DEF FindLastSuccess, CheckTarget
  <2>2. \E r : call' = [call EXCEPT ![v] = r]
    <3>1. ASSUME NEW w \in Ids, call' = [call EXCEPT ![v].pc = "check", ![v].target = w]
          PROVE  call' = [call EXCEPT ![v] = [call[v] EXCEPT !.pc = "check", !.target = w]]
      BY <2>1, <3>1 DEF TypeOK
    <3> QED
      BY <1>10, <3>1 DEF FindLastSuccess, CheckTarget, Succeeded
  <2> QED
    BY <1>9, <2>1, <2>2
<1>11. ASSUME NEW u \in Users, NEW a \in Apps, NEW t \in Ids, RequestRollback(u, a, t)
       PROVE  UnfinishedIsOwned'
  BY <1>9, <1>11 DEF RequestRollback, Callers
<1>12. ASSUME NEW c \in Callers, CreateRollback(c) PROVE UnfinishedIsOwned'
  <2>1. CASE cfg[call[c].app] = "absent"
    BY <1>9, <1>12, <2>1 DEF CreateRollback
  <2>2. CASE cfg[call[c].app] # "absent"
    <3>1. /\ NewVersion(RollbackMeta(c), "PENDING") /\ UNCHANGED <<task, stranded>>
          /\ call[c].pc = "create"
          /\ call' = [call EXCEPT ![c].pc = "mark", ![c].new = created + 1]
      BY <1>12, <2>2 DEF CreateRollback
    <3>2. call'[c].pc = "mark" /\ call'[c].new = created + 1
      BY <3>1, Shapes DEF TypeOK, Call
    <3>3. \A d \in Callers \ {c} : call'[d] = call[d]
      BY <3>1, Shapes
    <3> QED
      BY <3>1, <3>2, <3>3, OwnedBy, NewVersionEffect DEF Unsettled
  <2> QED
    BY <2>1, <2>2
<1>13. ASSUME NEW c \in Callers, MarkTarget(c) PROVE UnfinishedIsOwned'
  <2> DEFINE n == call[c].new
  <2>1. /\ n \in Ids
        /\ n \notin Unsettled' \ stranded' \/ task'[n] # "none"
        /\ \A v \in Unsettled' \ stranded' : v \in Unsettled \ stranded
        /\ \A v \in Ids \ {n} : task'[v] = task[v]
        /\ UNCHANGED meta
    BY <1>13, Shapes DEF MarkTarget, Unsettled
  <2>2. \A d \in Callers \ {c} : call'[d] = call[d]
    BY <1>13, Shapes DEF MarkTarget
  <2> QED
    BY <2>1, <2>2, OwnedBy DEF Unsettled
<1>14. CASE UNCHANGED vars
  BY <1>1, <1>14 DEF vars
<1>15. ASSUME NEW a \in Apps, CreateApp(a) \/ UpdateApp(a) PROVE UnfinishedIsOwned'
  BY <1>1, <1>15 DEF CreateApp, UpdateApp
<1> QED
  BY <1>2, <1>3, <1>4, <1>5, <1>6, <1>7, <1>8, <1>10, <1>11, <1>12, <1>13, <1>14, <1>15
  DEF Next, TaskStep, AutoStep, CallStep, CrashRestart

\* Short of a crash, or of a rollback whose target was deleted under it, every
\* unfinished version has a handler that will finish it (UnfinishedIsOwned).
THEOREM DeployOwned == Spec => []UnfinishedIsOwned
<1>1. Init => UnfinishedIsOwned
  BY DEF Init, UnfinishedIsOwned, Unsettled
<1> QED
  BY <1>1, NextOwned, DeployHandlers, PTL DEF Spec

=============================================================================
