----------------------------- MODULE JobsProofs -----------------------------
(***************************************************************************)
(* Theorems about Jobs, for any workspaces, playbooks and number of        *)
(* entries: its safety properties, and that it implements JobLedger.       *)
(***************************************************************************)
EXTENDS Jobs, TLAPS

RowState == {"ABSENT", "PENDING", "RUNNING", "SUCCESS", "FAILED", "GONE"}
JobState == {"none", "adding", "waiting", "active", "completed", "failed", "lost"}
WorkState == {"none", "ok", "failed"}

-----------------------------------------------------------------------------
(* The inductive invariant: what the place of a worker says of the entry,  *)
(* and that a job nobody put back has not been started before.             *)

Types ==
    /\ kind \in [Jobs -> AllKinds]
    /\ owner \in [Jobs -> Owners \cup {NoOwner}]
    /\ row \in [Jobs -> RowState]
    /\ job \in [Jobs -> JobState]
    /\ stalls \in SUBSET Jobs
    /\ pc \in [Jobs -> Places]
    /\ work \in [Jobs -> WorkState]
    /\ files \in SUBSET Jobs
    /\ listed \in SUBSET Jobs

OwnerInv ==
    /\ owners \in SUBSET Owners
    /\ dirs \in SUBSET Workspaces
    /\ creating \in SUBSET Workspaces
    /\ removing \in SUBSET Workspaces
    /\ upset \in SUBSET Workspaces
    /\ WorkspaceHasDir
    /\ \A w \in removing \cap owners : w \in upset

Alone == \A i, j \in Jobs : pc[i] # "idle" /\ pc[j] # "idle" /\ Queue(i) = Queue(j) => i = j

Told(j) ==
    /\ row[j] = "SUCCESS" => work[j] = "ok" \/ kind[j] = "remote build"
    /\ row[j] = "FAILED" => work[j] \in {"none", "failed"}

Keys(j) ==
    j \in files => \/ j \in listed /\ pc[j] \in {"run", "well", "badly", "return", "throw"}
                   \/ Orphaned(j)
                   \/ j \in stalls

JobInv(j) ==
    /\ pc[j] # "idle" => job[j] = "active"
    /\ (row[j] = "ABSENT") = (job[j] = "none")
    /\ row[j] = "ABSENT" => kind[j] = "ansible" /\ owner[j] = NoOwner /\ j \notin files
    /\ pc[j] = "load" => kind[j] = "ansible"
    /\ j \in files => kind[j] = "ansible"
    /\ pc[j] \in {"begin", "load"} => kind[j] \notin Builds
    /\ pc[j] \in {"load", "run", "login", "well", "badly"} => row[j] \in {"RUNNING", "GONE"}
    /\ pc[j] = "load" => work[j] = "none"
    /\ pc[j] = "well" => work[j] = "ok" \/ kind[j] = "remote build"
    /\ pc[j] = "badly" => work[j] \in {"none", "failed"}
    /\ (job[j] \in {"adding", "waiting"} \/ pc[j] = "begin") /\ j \notin stalls =>
          row[j] \in {"PENDING", "GONE"}
    /\ Told(j)
    /\ Keys(j)

Inv == Types /\ OwnerInv /\ Alone /\ \A j \in Jobs : JobInv(j)

LEMMA InvImplies == Inv => TypeOK /\ ResultIsTrue /\ KeyFilesGo /\ WorkspaceHasDir
<1>1. Inv => TypeOK
  BY DEF Inv, Types, OwnerInv, Alone, JobInv, TypeOK, RowState, JobState, WorkState
<1>2. Inv => ResultIsTrue
  BY DEF Inv, JobInv, Told, ResultIsTrue
<1>3. Inv => KeyFilesGo
  BY DEF Inv, Types, JobInv, Keys, KeyFilesGo
<1>q. QED
  BY <1>1, <1>2, <1>3 DEF Inv, OwnerInv

LEMMA InitInv == Init => Inv
<1> SUFFICES ASSUME Init PROVE Inv
  OBVIOUS
<1>1. Types
  BY DEF Init, Types, AllKinds, RowState, JobState, WorkState, Places
<1>2. OwnerInv
  BY DEF Init, OwnerInv, WorkspaceHasDir
<1>3. Alone
  BY DEF Init, Alone
<1>4. \A j \in Jobs : JobInv(j)
  BY DEF Init, JobInv, Told, Keys
<1>q. QED
  BY <1>1, <1>2, <1>3, <1>4 DEF Inv

-----------------------------------------------------------------------------
(* Frames.                                                                 *)

\* A step on the job j alone.
Only(j) ==
    /\ UNCHANGED <<ownership, kind, owner>>
    /\ \A i \in Jobs : i # j => /\ row'[i] = row[i] /\ job'[i] = job[i]
                                /\ pc'[i] = pc[i] /\ work'[i] = work[i]
                                /\ (i \in stalls') = (i \in stalls)
                                /\ (i \in files') = (i \in files)
                                /\ (i \in listed') = (i \in listed)

LEMMA OneJob ==
    ASSUME Inv, NEW j \in Jobs, Only(j), Types', JobInv(j)',
           pc'[j] = "idle" \/ pc[j] # "idle"
    PROVE  Inv'
<1>1. OwnerInv'
  BY DEF Only, ownership, Inv, OwnerInv, WorkspaceHasDir
<1>2. \A i \in Jobs : Queue(i)' = Queue(i)
  BY DEF Only, Queue
<1>3. Alone'
  BY <1>2 DEF Only, Inv, Alone
<1>4. ASSUME NEW i \in Jobs, i # j PROVE JobInv(i)'
  <2>1. JobInv(i)
    BY DEF Inv
  <2>q. QED
    BY <1>4, <2>1 DEF Only, JobInv, Told, Keys, Orphaned
<1>q. QED
  BY <1>1, <1>3, <1>4 DEF Inv

\* A step that only touches the owners.
LEMMA NoJob ==
    ASSUME Inv, OwnerInv', UNCHANGED <<kind, owner, row, job, stalls, pc, work, files, listed>>
    PROVE  Inv'
<1>1. Types' /\ Alone'
  BY DEF Inv, Types, Alone, Queue
<1>2. \A j \in Jobs : JobInv(j)'
  BY DEF Inv, JobInv, Told, Keys, Orphaned
<1>q. QED
  BY <1>1, <1>2 DEF Inv

-----------------------------------------------------------------------------
(* Workspaces and playbooks.                                               *)

LEMMA OwnersKeep ==
    ASSUME Inv,
           \/ \E p \in Playbooks : CreatePlaybook(p)
           \/ \E w \in Workspaces : CreateWorkspace(w) \/ MakeDir(w) \/ MakeDirFails(w) \/ RemoveDir(w)
    PROVE  Inv'
<1>0. OwnerInv
  BY DEF Inv
<1>1. ASSUME NEW p \in Playbooks, CreatePlaybook(p) PROVE Inv'
  <2>1. OwnerInv'
    BY <1>0, <1>1, JobsAssumption DEF CreatePlaybook, OwnerInv, Owners, WorkspaceHasDir
  <2>q. QED
    BY <1>1, <2>1, NoJob DEF CreatePlaybook
<1>2. ASSUME NEW w \in Workspaces, CreateWorkspace(w) PROVE Inv'
  <2>1. OwnerInv'
    BY <1>0, <1>2 DEF CreateWorkspace, OwnerInv, Owners, WorkspaceHasDir
  <2>q. QED
    BY <1>2, <2>1, NoJob DEF CreateWorkspace
<1>3. ASSUME NEW w \in Workspaces, MakeDir(w) PROVE Inv'
  <2>1. OwnerInv'
    BY <1>0, <1>3 DEF MakeDir, OwnerInv, WorkspaceHasDir
  <2>q. QED
    BY <1>3, <2>1, NoJob DEF MakeDir
<1>4. ASSUME NEW w \in Workspaces, RemoveDir(w) PROVE Inv'
  <2>1. OwnerInv'
    BY <1>0, <1>4 DEF RemoveDir, OwnerInv, WorkspaceHasDir
  <2>q. QED
    BY <1>4, <2>1, NoJob DEF RemoveDir
<1>5. ASSUME NEW w \in Workspaces, MakeDirFails(w) PROVE Inv'
  <2>1. OwnerInv'
    BY <1>0, <1>5 DEF MakeDirFails, OwnerInv, WorkspaceHasDir
  <2>q. QED
    BY <1>5, <2>1, NoJob DEF MakeDirFails
<1>q. QED
  BY <1>1, <1>2, <1>3, <1>4, <1>5

LEMMA DeleteOwnerKeeps == ASSUME Inv, NEW o \in Owners, DeleteOwner(o) PROVE Inv'
<1>1. OwnerInv'
  BY DEF DeleteOwner, Inv, OwnerInv, WorkspaceHasDir
<1>2. Types' /\ Alone'
  BY DEF DeleteOwner, Inv, Types, RowState, Alone, Queue
<1>3. ASSUME NEW j \in Jobs PROVE JobInv(j)'
  <2>1. JobInv(j) /\ o # NoOwner
    BY JobsAssumption DEF Inv
  <2>2. row'[j] = row[j] \/ (row'[j] = "GONE" /\ row[j] # "ABSENT")
    BY <2>1 DEF DeleteOwner, JobInv
  <2>q. QED
    BY <2>1, <2>2 DEF DeleteOwner, JobInv, Told, Keys, Orphaned
<1>q. QED
  BY <1>1, <1>2, <1>3 DEF Inv

-----------------------------------------------------------------------------
(* Requests.                                                               *)

LEMMA RequestKeeps ==
    ASSUME Inv, NEW j \in Jobs, NEW k \in AllKinds, NEW o \in Owners \cup {NoOwner},
           Request(j, k, o)
    PROVE  Inv'
<1>1. /\ kind' = [kind EXCEPT ![j] = k] /\ owner' = [owner EXCEPT ![j] = o]
      /\ row' = [row EXCEPT ![j] = "PENDING"] /\ job' = [job EXCEPT ![j] = "adding"]
      /\ UNCHANGED <<ownership, stalls, pc, work, files, listed>>
      /\ row[j] = "ABSENT"
  BY DEF Request
<1>2. Types /\ JobInv(j)
  BY DEF Inv
<1>3. pc[j] = "idle"
  BY <1>1, <1>2 DEF Types, JobInv
<1>4. Types'
  BY <1>1, <1>2 DEF Types, RowState, JobState
<1>5. OwnerInv'
  BY <1>1 DEF Inv, OwnerInv, WorkspaceHasDir, ownership
<1>6. Alone'
  <2>1. \A i \in Jobs : i # j => Queue(i)' = Queue(i)
    BY <1>1, <1>2 DEF Queue, Types
  <2>q. QED
    BY <1>1, <1>3, <2>1 DEF Inv, Alone
<1>7. JobInv(j)'
  BY <1>1, <1>2, <1>3 DEF Types, JobInv, Told, Keys, Orphaned
<1>8. ASSUME NEW i \in Jobs, i # j PROVE JobInv(i)'
  <2>1. JobInv(i)
    BY DEF Inv
  <2>q. QED
    BY <1>1, <1>2, <1>8, <2>1 DEF Types, JobInv, Told, Keys, Orphaned
<1>q. QED
  BY <1>4, <1>5, <1>6, <1>7, <1>8 DEF Inv

\* Enqueue, EnqueueFails and StalledCheck change the job of an idle worker.
LEMMA QueueKeeps ==
    ASSUME Inv, NEW j \in Jobs, Enqueue(j) \/ EnqueueFails(j) \/ StalledCheck(j)
    PROVE  Inv'
<1>1. /\ Types /\ JobInv(j) /\ pc[j] = "idle" /\ row[j] # "ABSENT"
  BY DEF Inv, JobInv, Types, Enqueue, EnqueueFails, StalledCheck, Orphaned
<1>2. Only(j) /\ Types' /\ pc'[j] = "idle"
  BY <1>1 DEF Types, JobState, Only, Enqueue, EnqueueFails, StalledCheck
<1>3. JobInv(j)'
  BY <1>1 DEF Types, JobInv, Told, Keys, Enqueue, EnqueueFails, StalledCheck, Orphaned
<1>q. QED
  BY <1>2, <1>3, OneJob

-----------------------------------------------------------------------------
(* The workers.                                                            *)

LEMMA TakeKeeps == ASSUME Inv, NEW j \in Jobs, Take(j) PROVE Inv'
<1>1. Types /\ JobInv(j) /\ pc[j] = "idle"
  BY DEF Inv, Take
<1>2. Only(j) /\ Types'
  BY <1>1 DEF Take, Types, RowState, JobState, WorkState, Places, Only
<1>3. JobInv(j)'
  BY <1>1 DEF Take, Types, JobInv, Told, Keys, Orphaned
<1>4. OwnerInv'
  BY <1>2 DEF Only, ownership, Inv, OwnerInv, WorkspaceHasDir
<1>5. Alone'
  <2>1. \A i \in Jobs : Queue(i)' = Queue(i)
    BY <1>2 DEF Only, Queue
  <2>2. \A i \in Jobs : i # j /\ Queue(i) = Queue(j) => pc'[i] = "idle"
    BY <1>2 DEF Take, Only
  <2>q. QED
    BY <1>2, <2>1, <2>2 DEF Only, Inv, Alone
<1>6. ASSUME NEW i \in Jobs, i # j PROVE JobInv(i)'
  <2>1. JobInv(i)
    BY DEF Inv
  <2>q. QED
    BY <1>2, <1>6, <2>1 DEF Only, JobInv, Told, Keys, Orphaned
<1>q. QED
  BY <1>2, <1>3, <1>4, <1>5, <1>6 DEF Inv

LEMMA BeginKeeps == ASSUME Inv, NEW j \in Jobs, Begin(j) PROVE Inv'
<1>1. Types /\ JobInv(j) /\ pc[j] = "begin" /\ row[j] # "ABSENT"
  BY DEF Inv, Begin, JobInv
<1>2. Only(j) /\ Types'
  BY <1>1 DEF Begin, Gone, Types, RowState, WorkState, Places, Only
<1>3. JobInv(j)'
  BY <1>1 DEF Begin, Gone, Types, AllKinds, JobInv, Told, Keys, Orphaned
<1>q. QED
  BY <1>1, <1>2, <1>3, OneJob

LEMMA LoadKeeps == ASSUME Inv, NEW j \in Jobs, Load(j) PROVE Inv'
<1>1. Types /\ JobInv(j) /\ pc[j] = "load"
  BY DEF Inv, Load
<1>2. Only(j) /\ Types'
  BY <1>1 DEF Load, Gone, Types, Places, Only
<1>3. JobInv(j)'
  BY <1>1 DEF Load, Gone, Types, JobInv, Told, Keys, Orphaned
<1>q. QED
  BY <1>1, <1>2, <1>3, OneJob

LEMMA CommandKeeps ==
    ASSUME Inv, NEW j \in Jobs, CommandFails(j) \/ RemotePushFails(j) \/ CommandSucceeds(j)
    PROVE  Inv'
<1>1. Types /\ JobInv(j) /\ pc[j] = "run"
  BY DEF Inv, CommandFails, RemotePushFails, CommandSucceeds
<1>2. Only(j) /\ Types'
  BY <1>1 DEF CommandFails, RemotePushFails, CommandSucceeds, Types, WorkState, Places, Only
<1>3. JobInv(j)'
  <2>1. /\ UNCHANGED <<kind, owner, row, job, stalls, files, listed>>
        /\ \/ pc'[j] = "badly" /\ work'[j] = "failed"
           \/ pc'[j] = "login" /\ work'[j] = work[j] /\ kind[j] = "login build"
           \/ pc'[j] = "well" /\ work'[j] = "ok"
           \/ pc'[j] = "well" /\ work'[j] = "failed" /\ kind[j] = "remote build"
    BY <1>1 DEF CommandFails, RemotePushFails, CommandSucceeds, Types
  <2>2. JobInv(j) /\ row[j] \in {"RUNNING", "GONE"} /\ job[j] = "active"
    BY <1>1 DEF JobInv
  <2>3. Told(j)'
    BY <2>1, <2>2 DEF Told
  <2>4. CASE pc'[j] = "login"
    BY <1>1, <2>1, <2>2, <2>3, <2>4 DEF JobInv, Keys, Orphaned
  <2>5. CASE pc'[j] \in {"well", "badly"}
    BY <1>1, <2>1, <2>2, <2>3, <2>5 DEF JobInv, Keys, Orphaned
  <2>q. QED
    BY <2>1, <2>4, <2>5
<1>q. QED
  BY <1>1, <1>2, <1>3, OneJob

LEMMA SaveKeeps == ASSUME Inv, NEW j \in Jobs, Save(j) PROVE Inv'
<1>1. Types /\ JobInv(j) /\ pc[j] \in {"well", "badly"}
  BY DEF Inv, Save
<1>2. Only(j) /\ Types'
  BY <1>1 DEF Save, Gone, Types, RowState, Places, Only
<1>3. JobInv(j)'
  BY <1>1 DEF Save, Gone, Types, JobInv, Told, Keys, Orphaned
<1>q. QED
  BY <1>1, <1>2, <1>3, OneJob

LEMMA FinishKeeps == ASSUME Inv, NEW j \in Jobs, Finish(j) PROVE Inv'
<1>1. Types /\ JobInv(j) /\ pc[j] \in {"return", "throw"}
  BY DEF Inv, Finish
<1>2. Only(j) /\ Types'
  BY <1>1 DEF Finish, Types, JobState, Places, Only
<1>3. JobInv(j)'
  BY <1>1 DEF Finish, Types, JobInv, Told, Keys, Orphaned
<1>q. QED
  BY <1>1, <1>2, <1>3, OneJob

LEMMA CrashKeeps == ASSUME Inv, Crash PROVE Inv'
<1>1. Types /\ OwnerInv /\ \A j \in Jobs : JobInv(j)
  BY DEF Inv
<1>2. Types' /\ Alone'
  BY <1>1 DEF Crash, Types, RowState, JobState, Places, Alone
<1>3. OwnerInv'
  BY <1>1 DEF Crash, OwnerInv, WorkspaceHasDir
<1>4. ASSUME NEW j \in Jobs PROVE JobInv(j)'
  <2>1. JobInv(j)
    BY <1>1
  <2>2. row[j] = "ABSENT" => kind[j] \notin Builds
    BY <2>1 DEF JobInv, Builds
  <2>3. /\ row'[j] = (IF kind[j] \in Builds THEN "GONE" ELSE row[j])
        /\ job'[j] = (IF job[j] = "adding" THEN "lost" ELSE job[j])
        /\ pc'[j] = "idle"
        /\ UNCHANGED <<kind, owner, stalls, work, files>>
    BY DEF Crash
  <2>q. QED
    BY <2>1, <2>2, <2>3 DEF JobInv, Told, Keys, Orphaned
<1>q. QED
  BY <1>2, <1>3, <1>4 DEF Inv

LEMMA NextInv == Inv /\ [Next]_vars => Inv'
<1> SUFFICES ASSUME Inv, [Next]_vars PROVE Inv'
  OBVIOUS
<1>1. CASE UNCHANGED vars
  BY <1>1, NoJob DEF vars, Inv, OwnerInv, WorkspaceHasDir
<1>2. ASSUME NEW j \in Jobs, Work(j) PROVE Inv'
  BY <1>2, TakeKeeps, BeginKeeps, LoadKeeps, CommandKeeps, SaveKeeps, FinishKeeps DEF Work
<1>q. QED
  BY <1>1, <1>2, OwnersKeep, DeleteOwnerKeeps, RequestKeeps, QueueKeeps, CrashKeeps DEF Next

\* What the place of a worker in executeRun, executeJob and executeBuild says of
\* the entry it executes.
THEOREM JobsInvariant == Spec => []Inv
  BY InitInv, NextInv, PTL DEF Spec

\* Types, and at most one execution per queue.
THEOREM JobsTypeCorrect == Spec => []TypeOK
  BY JobsInvariant, InvImplies, PTL

\* A settled entry tells how its last execution ended, a push on a server aside.
THEOREM JobsTrue == Spec => []ResultIsTrue
  BY JobsInvariant, InvImplies, PTL

\* A key that executeJob wrote goes with the execution, or its worker died.
THEOREM JobsKeysGo == Spec => []KeyFilesGo
  BY JobsInvariant, InvImplies, PTL

\* A workspace whose creation ended well, with no removal of its name under way,
\* has its directory.
THEOREM JobsWorkspaceHasDir == Spec => []WorkspaceHasDir
  BY JobsInvariant, InvImplies, PTL

-----------------------------------------------------------------------------
(* Jobs implements JobLedger.                                              *)

LEMMA LedgerInit == Init => Ledger!Init
  BY DEF Init, Ledger!Init

\* What starts a job is the first start, or the job was put back.
LEMMA StartStep ==
    ASSUME Inv, NEW j \in Jobs, Take(j) \/ Begin(j)
    PROVE  Ledger!Start(j) \/ Ledger!StartAgain(j) \/ UNCHANGED <<row, stalls>>
<1>1. /\ Types /\ JobInv(j) /\ row[j] # "ABSENT"
      /\ job[j] = "waiting" \/ pc[j] = "begin"
  BY DEF Inv, JobInv, Take, Begin
<1>2. UNCHANGED stalls /\ (row' = row \/ (row[j] # "GONE" /\ row' = [row EXCEPT ![j] = "RUNNING"]))
  BY <1>1 DEF Types, Take, Begin, Gone
<1>3. row[j] # "GONE" => \/ row[j] = "PENDING"
                          \/ (j \in stalls /\ row[j] \in {"RUNNING", "SUCCESS", "FAILED"})
  BY <1>1 DEF Types, RowState, JobInv
<1>q. QED
  BY <1>2, <1>3 DEF Ledger!Start, Ledger!StartAgain

LEMMA SaveStep ==
    ASSUME Inv, NEW j \in Jobs, Save(j)
    PROVE  Ledger!Settle(j) \/ UNCHANGED <<row, stalls>>
<1>1. Types /\ row[j] \in {"RUNNING", "GONE"}
  BY DEF Inv, JobInv, Save
<1>2. CASE row[j] = "GONE"
  <2>1. row' = row
    BY <1>1, <1>2 DEF Types, Save, Gone
  <2>q. QED
    BY <2>1 DEF Save
<1>3. CASE row[j] = "RUNNING"
  <2>1. PICK s \in {"SUCCESS", "FAILED"} : row' = [row EXCEPT ![j] = s]
    <3>1. row' = [row EXCEPT ![j] =
             IF row[j] = "GONE" THEN "GONE" ELSE IF pc[j] = "well" THEN "SUCCESS" ELSE "FAILED"]
      BY <1>3 DEF Save, Gone
    <3>2. CASE pc[j] = "well"
      BY <1>3, <3>1, <3>2
    <3>3. CASE pc[j] # "well"
      BY <1>3, <3>1, <3>3
    <3>q. QED
      BY <3>2, <3>3
  <2>q. QED
    BY <1>3, <2>1 DEF Save, Ledger!Settle
<1>q. QED
  BY <1>1, <1>2, <1>3

LEMMA ForgetStep ==
    ASSUME Inv, Crash \/ \E o \in Owners : DeleteOwner(o)
    PROVE  Ledger!Forget
<1>1. CASE Crash
  <2>1. \A j \in Jobs : kind[j] \in Builds => row[j] # "ABSENT"
    BY DEF Inv, JobInv, Builds
  <2>2. PICK J \in SUBSET Jobs : J = {j \in Jobs : kind[j] \in Builds}
    OBVIOUS
  <2>3. J \in SUBSET {j \in Jobs : row[j] # "ABSENT"}
    BY <2>1, <2>2
  <2>4. row' = [j \in Jobs |-> IF j \in J THEN "GONE" ELSE row[j]]
    BY <1>1, <2>2 DEF Crash
  <2>q. QED
    BY <1>1, <2>3, <2>4 DEF Crash, Ledger!Forget
<1>2. ASSUME NEW o \in Owners, DeleteOwner(o) PROVE Ledger!Forget
  <2>1. \A j \in Jobs : owner[j] = o => row[j] # "ABSENT"
    BY JobsAssumption DEF Inv, JobInv
  <2>2. PICK J \in SUBSET Jobs : J = {j \in Jobs : owner[j] = o}
    OBVIOUS
  <2>3. J \in SUBSET {j \in Jobs : row[j] # "ABSENT"}
    BY <2>1, <2>2
  <2>4. row' = [j \in Jobs |-> IF j \in J THEN "GONE" ELSE row[j]]
    BY <1>2, <2>2 DEF DeleteOwner
  <2>q. QED
    BY <1>2, <2>3, <2>4 DEF DeleteOwner, Ledger!Forget
<1>q. QED
  BY <1>1, <1>2

LEMMA LedgerStep == Inv /\ [Next]_vars => [Ledger!Next]_(Ledger!vars)
<1> SUFFICES ASSUME Inv, [Next]_vars PROVE Ledger!Next \/ UNCHANGED <<row, stalls>>
  BY DEF Ledger!vars
<1>1. CASE UNCHANGED vars
  BY <1>1 DEF vars
<1>2. ASSUME NEW p \in Playbooks, CreatePlaybook(p) PROVE UNCHANGED <<row, stalls>>
  BY <1>2 DEF CreatePlaybook
<1>3. ASSUME NEW w \in Workspaces, CreateWorkspace(w) \/ MakeDir(w) \/ MakeDirFails(w) \/ RemoveDir(w)
      PROVE  UNCHANGED <<row, stalls>>
  BY <1>3 DEF CreateWorkspace, MakeDir, MakeDirFails, RemoveDir
<1>4. ASSUME NEW j \in Jobs, NEW k \in AllKinds, NEW o \in Owners \cup {NoOwner}, Request(j, k, o)
      PROVE  Ledger!Accept(j)
  BY <1>4 DEF Request, Ledger!Accept
<1>5. ASSUME NEW j \in Jobs, Enqueue(j) \/ EnqueueFails(j) PROVE UNCHANGED <<row, stalls>>
  BY <1>5 DEF Enqueue, EnqueueFails
<1>6. ASSUME NEW j \in Jobs, StalledCheck(j) PROVE Ledger!GiveBack(j)
  BY <1>6 DEF StalledCheck, Ledger!GiveBack
<1>7. ASSUME NEW j \in Jobs, Work(j)
      PROVE  \/ Ledger!Start(j) \/ Ledger!StartAgain(j) \/ Ledger!Settle(j)
             \/ UNCHANGED <<row, stalls>>
  <2>1. CASE Take(j) \/ Begin(j)
    BY <2>1, StartStep
  <2>2. CASE Save(j)
    BY <2>2, SaveStep
  <2>3. CASE Load(j) \/ CommandFails(j) \/ RemotePushFails(j) \/ CommandSucceeds(j) \/ Finish(j)
    BY <2>3 DEF Load, Gone, CommandFails, RemotePushFails, CommandSucceeds, Finish
  <2>q. QED
    BY <1>7, <2>1, <2>2, <2>3 DEF Work
<1>q. QED
  BY <1>1, <1>2, <1>3, <1>4, <1>5, <1>6, <1>7, ForgetStep DEF Next, Ledger!Next

\* Runs, jobs and builds keep the promises of JobLedger: accepted, started and
\* settled once, and again only when the job was given back.
THEOREM JobsKeepLedger == Spec => LedgerSpec
<1>1. Inv /\ [Next]_vars => [Ledger!Next]_(Ledger!vars)
  BY LedgerStep
<1>q. QED
  BY <1>1, LedgerInit, JobsInvariant, PTL DEF Spec, LedgerSpec, Ledger!Spec

=============================================================================
