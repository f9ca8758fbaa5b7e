-------------------------------- MODULE Jobs --------------------------------
(***************************************************************************)
(* Terraform runs (TerraformService), ansible jobs (AnsibleService) and    *)
(* image builds (RegistryService), each requested by a user, queued in     *)
(* BullMQ and executed by the worker of its queue.                         *)
(*                                                                         *)
(* Terraform and ansible entries are rows of PostgreSQL that are deleted   *)
(* with their workspace or playbook; builds are entries of a Map in memory.*)
(* Jobs live in Redis, the workers in the API process: a crash loses the   *)
(* worker's place and the Map.  One action is the code between two awaits; *)
(* what a command does is that it succeeds or fails.                       *)
(*                                                                         *)
(* The queues are external and behave as in Pipeline: one job at a time,   *)
(* no retry after an error, one redelivery when the worker died.           *)
(***************************************************************************)
EXTENDS Naturals, FiniteSets

CONSTANTS
    Workspaces, \* names of terraform workspaces, and of their directories
    Playbooks,  \* names of playbooks
    Kinds,      \* what can be requested as each entry
    NoOwner,    \* owner of a build
    MaxJobs     \* bound: entries ever requested

Jobs == 1..MaxJobs
Owners == Workspaces \cup Playbooks

\* local: the image is built here, or was by the CI; remote: on a managed
\* server; login: the registry has a password.
Builds == {"local build", "remote build", "login build"}
AllKinds == {"terraform", "ansible"} \cup Builds

ASSUME JobsAssumption ==
    /\ MaxJobs \in Nat
    /\ Kinds \in [Jobs -> SUBSET AllKinds]
    /\ NoOwner \notin Owners
    /\ Workspaces \cap Playbooks = {}

VARIABLES
    owners,   \* rows of workspaces and playbooks
    dirs,     \* workspace directories on disk
    creating, \* createWorkspace calls before mkdir
    removing, \* deleteWorkspace calls before rm -rf
    upset,    \* history: workspaces whose creation failed or met a removal
    kind,     \* what an entry executes
    owner,    \* the workspace or playbook of an entry
    row,      \* status of an entry
    job,      \* its job in Redis, as in Pipeline
    stalls,   \* jobs that were put back once
    pc,       \* place of the worker that executes the job
    work,     \* history: how the command of the last execution ended
    files,    \* ansible jobs with a private key in tmp
    listed    \* executions that will remove it (tempFiles)

ownership == <<owners, dirs, creating, removing, upset>>
vars == <<owners, dirs, creating, removing, upset, kind, owner, row, job, stalls, pc, work, files, listed>>

Places == {"idle", "begin", "load", "run", "login", "well", "badly", "return", "throw"}

QueueOf(k) == IF k \in Builds THEN "registry" ELSE k
Queue(j) == QueueOf(kind[j])
OwnersOf(k) == CASE k = "terraform" -> Workspaces [] k = "ansible" -> Playbooks [] OTHER -> {NoOwner}

TypeOK ==
    /\ owners \subseteq Owners
    /\ dirs \subseteq Workspaces
    /\ creating \subseteq Workspaces
    /\ removing \subseteq Workspaces
    /\ upset \subseteq Workspaces
    /\ kind \in [Jobs -> AllKinds]
    /\ owner \in [Jobs -> Owners \cup {NoOwner}]
    /\ row \in [Jobs -> {"ABSENT", "PENDING", "RUNNING", "SUCCESS", "FAILED", "GONE"}]
    /\ job \in [Jobs -> {"none", "adding", "waiting", "active", "completed", "failed", "lost"}]
    /\ stalls \subseteq Jobs
    /\ pc \in [Jobs -> Places]
    /\ work \in [Jobs -> {"none", "ok", "failed"}]
    /\ files \subseteq Jobs
    /\ listed \subseteq Jobs
    /\ \A j \in Jobs : pc[j] # "idle" => job[j] = "active"
    /\ \A j, k \in Jobs : pc[j] # "idle" /\ pc[k] # "idle" /\ Queue(j) = Queue(k) => j = k

Init ==
    /\ owners = {}
    /\ dirs = {}
    /\ creating = {}
    /\ removing = {}
    /\ upset = {}
    /\ kind = [j \in Jobs |-> "ansible"]
    /\ owner = [j \in Jobs |-> NoOwner]
    /\ row = [j \in Jobs |-> "ABSENT"]
    /\ job = [j \in Jobs |-> "none"]
    /\ stalls = {}
    /\ pc = [j \in Jobs |-> "idle"]
    /\ work = [j \in Jobs |-> "none"]
    /\ files = {}
    /\ listed = {}

-----------------------------------------------------------------------------
(* Workspaces and playbooks.                                               *)

CreatePlaybook(p) ==
    /\ p \notin owners
    /\ owners' = owners \cup {p}
    /\ UNCHANGED <<dirs, creating, removing, upset, kind, owner, row, job, stalls, pc, work, files, listed>>

\* The row of createWorkspace; its name is unique.
CreateWorkspace(w) ==
    /\ w \notin owners
    /\ owners' = owners \cup {w}
    /\ creating' = creating \cup {w}
    /\ upset' = IF w \in removing THEN upset \cup {w} ELSE upset
    /\ UNCHANGED <<dirs, removing, kind, owner, row, job, stalls, pc, work, files, listed>>

\* Mutant: the directory is only made for a template.
MakeDirForTemplate(w) ==
    /\ w \in creating
    /\ creating' = creating \ {w}
    /\ \E template \in BOOLEAN : dirs' = IF template THEN dirs \cup {w} ELSE dirs
    /\ UNCHANGED <<owners, removing, upset, kind, owner, row, job, stalls, pc, work, files, listed>>

MakeDir(w) ==
    /\ w \in creating
    /\ creating' = creating \ {w}
    /\ dirs' = dirs \cup {w}
    /\ UNCHANGED <<owners, removing, upset, kind, owner, row, job, stalls, pc, work, files, listed>>

\* mkdirSync throws: the request fails, and its row stays.
MakeDirFails(w) ==
    /\ w \in creating
    /\ creating' = creating \ {w}
    /\ upset' = upset \cup ({w} \cap owners)
    /\ UNCHANGED <<owners, dirs, removing, kind, owner, row, job, stalls, pc, work, files, listed>>

\* deletePlaybook, and the row of deleteWorkspace: the entries go by cascade.
\* Jobs and workers are not told.
DeleteOwner(o) ==
    /\ o \in owners
    /\ owners' = owners \ {o}
    /\ removing' = removing \cup ({o} \cap Workspaces)
    /\ upset' = upset \ {o}
    /\ row' = [j \in Jobs |-> IF owner[j] = o THEN "GONE" ELSE row[j]]
    /\ UNCHANGED <<dirs, creating, kind, owner, job, stalls, pc, work, files, listed>>

\* rm -rf, whose failure is only logged.
RemoveDir(w) ==
    /\ w \in removing
    /\ removing' = removing \ {w}
    /\ dirs' \in {dirs, dirs \ {w}}
    /\ UNCHANGED <<owners, creating, upset, kind, owner, row, job, stalls, pc, work, files, listed>>

-----------------------------------------------------------------------------
(* runCommand, runPlaybook, triggerBuild.                                  *)

Request(j, k, o) ==
    /\ row[j] = "ABSENT"
    /\ \A i \in Jobs : i < j => row[i] # "ABSENT"
    /\ k \in Kinds[j]
    /\ o \in OwnersOf(k)
    /\ o \in owners \cup {NoOwner}
    /\ kind' = [kind EXCEPT ![j] = k]
    /\ owner' = [owner EXCEPT ![j] = o]
    /\ row' = [row EXCEPT ![j] = "PENDING"]
    /\ job' = [job EXCEPT ![j] = "adding"]
    /\ UNCHANGED <<ownership, stalls, pc, work, files, listed>>

Enqueue(j) ==
    /\ job[j] = "adding"
    /\ job' = [job EXCEPT ![j] = "waiting"]
    /\ UNCHANGED <<ownership, kind, owner, row, stalls, pc, work, files, listed>>

\* queue.add throws: the request fails, the entry stays.
EnqueueFails(j) ==
    /\ job[j] = "adding"
    /\ job' = [job EXCEPT ![j] = "lost"]
    /\ UNCHANGED <<ownership, kind, owner, row, stalls, pc, work, files, listed>>

-----------------------------------------------------------------------------
(* The workers.                                                            *)

\* Mutant: a build that is not in the Map is entered again.
TakeEnters(j) ==
    /\ job[j] = "waiting"
    /\ \A i \in Jobs : Queue(i) = Queue(j) => pc[i] = "idle"
    /\ job' = [job EXCEPT ![j] = "active"]
    /\ IF kind[j] \in Builds
         THEN /\ row' = [row EXCEPT ![j] = "RUNNING"]
              /\ work' = [work EXCEPT ![j] = "none"]
              /\ pc' = [pc EXCEPT ![j] = "run"]
         ELSE /\ pc' = [pc EXCEPT ![j] =
                    IF kind[j] = "terraform" /\ row[j] = "GONE" THEN "return" ELSE "begin"]
              /\ UNCHANGED <<row, work>>
    /\ UNCHANGED <<ownership, kind, owner, stalls, files, listed>>

\* process: executeRun looks for its row first, executeJob does not, and
\* executeBuild marks its record, if it is still there, and goes to work.
\* None of them looks at the status.
Take(j) ==
    /\ job[j] = "waiting"
    /\ \A i \in Jobs : Queue(i) = Queue(j) => pc[i] = "idle"
    /\ job' = [job EXCEPT ![j] = "active"]
    /\ IF kind[j] \in Builds
         THEN /\ row' = [row EXCEPT ![j] = IF @ = "GONE" THEN "GONE" ELSE "RUNNING"]
              /\ work' = [work EXCEPT ![j] = "none"]
              /\ pc' = [pc EXCEPT ![j] = "run"]
         ELSE /\ pc' = [pc EXCEPT ![j] =
                    IF kind[j] = "terraform" /\ row[j] = "GONE" THEN "return" ELSE "begin"]
              /\ UNCHANGED <<row, work>>
    /\ UNCHANGED <<ownership, kind, owner, stalls, files, listed>>

\* An update by id of a deleted row throws.
Gone(j) ==
    /\ row[j] = "GONE"
    /\ pc' = [pc EXCEPT ![j] = "throw"]
    /\ UNCHANGED <<row, work, files, listed>>

\* The update to RUNNING.
Begin(j) ==
    /\ pc[j] = "begin"
    /\ \/ Gone(j)
       \/ /\ row[j] # "GONE"
          /\ row' = [row EXCEPT ![j] = "RUNNING"]
          /\ work' = [work EXCEPT ![j] = "none"]
          /\ pc' = [pc EXCEPT ![j] = IF kind[j] = "terraform" THEN "run" ELSE "load"]
          /\ UNCHANGED <<files, listed>>
    /\ UNCHANGED <<ownership, kind, owner, job, stalls>>

\* executeJob reads the job with its playbook and the servers, which may all be
\* gone; it writes the key of each server that has one to a file, and notes the
\* file.  Then come the inventory and the playbook, which may throw.
Load(j) ==
    /\ pc[j] = "load"
    /\ \/ Gone(j)
       \/ /\ row[j] # "GONE"
          /\ \E keyed \in BOOLEAN :
                /\ files' = IF keyed THEN files \cup {j} ELSE files
                /\ listed' = IF keyed THEN listed \cup {j} ELSE listed
          /\ \E place \in {"run", "badly"} : pc' = [pc EXCEPT ![j] = place]
          /\ UNCHANGED <<row, work>>
    /\ UNCHANGED <<ownership, kind, owner, job, stalls>>

\* Mutant: a build on a server is not looked at, as its push is not.
CommandFailsUnseen(j) ==
    /\ pc[j] = "run"
    /\ work' = [work EXCEPT ![j] = "failed"]
    /\ pc' = [pc EXCEPT ![j] = IF kind[j] \in Builds THEN "well" ELSE "badly"]
    /\ UNCHANGED <<ownership, kind, owner, row, job, stalls, files, listed>>

\* terraform, ansible-playbook, docker build or docker push fail, or what
\* prepares them throws.
CommandFails(j) ==
    /\ pc[j] = "run"
    /\ work' = [work EXCEPT ![j] = "failed"]
    /\ pc' = [pc EXCEPT ![j] = "badly"]
    /\ UNCHANGED <<ownership, kind, owner, row, job, stalls, files, listed>>

\* docker push on a server fails: executeRemoteCommand says so in its result,
\* of which only the output is used.
RemotePushFails(j) ==
    /\ pc[j] = "run"
    /\ kind[j] = "remote build"
    /\ work' = [work EXCEPT ![j] = "failed"]
    /\ pc' = [pc EXCEPT ![j] = "well"]
    /\ UNCHANGED <<ownership, kind, owner, row, job, stalls, files, listed>>

\* terraform -chdir needs the directory.
CommandSucceeds(j) ==
    /\ pc[j] = "run"
    /\ kind[j] = "terraform" => owner[j] \in dirs
    /\ IF kind[j] = "login build"
         THEN /\ pc' = [pc EXCEPT ![j] = "login"]
              /\ UNCHANGED work
         ELSE /\ pc' = [pc EXCEPT ![j] = "well"]
              /\ work' = [work EXCEPT ![j] = "ok"]
    /\ UNCHANGED <<ownership, kind, owner, row, job, stalls, files, listed>>

\* The last update.  A row that is gone sends terraform and ansible to their
\* catch blocks, whose own update throws; a build has no row.
Save(j) ==
    /\ pc[j] \in {"well", "badly"}
    /\ \/ /\ kind[j] \notin Builds
          /\ Gone(j)
       \/ /\ row[j] = "GONE" => kind[j] \in Builds
          /\ row' = [row EXCEPT ![j] =
                IF @ = "GONE" THEN "GONE" ELSE IF pc[j] = "well" THEN "SUCCESS" ELSE "FAILED"]
          /\ pc' = [pc EXCEPT ![j] =
                IF kind[j] = "ansible" /\ pc[j] = "badly" THEN "throw" ELSE "return"]
          /\ UNCHANGED <<work, files, listed>>
    /\ UNCHANGED <<ownership, kind, owner, job, stalls>>

\* Mutant: only an execution that ended well cleans up.
FinishCleansSuccess(j) ==
    /\ pc[j] \in {"return", "throw"}
    /\ pc' = [pc EXCEPT ![j] = "idle"]
    /\ job' = [job EXCEPT ![j] = IF pc[j] = "return" THEN "completed" ELSE "failed"]
    /\ files' = IF j \in listed /\ pc[j] = "return" THEN files \ {j} ELSE files
    /\ listed' = listed \ {j}
    /\ UNCHANGED <<ownership, kind, owner, row, stalls, work>>

\* executeJob's finally block removes the files that this execution noted; the
\* queue gets the outcome.
Finish(j) ==
    /\ pc[j] \in {"return", "throw"}
    /\ pc' = [pc EXCEPT ![j] = "idle"]
    /\ job' = [job EXCEPT ![j] = IF pc[j] = "return" THEN "completed" ELSE "failed"]
    /\ files' = IF j \in listed THEN files \ {j} ELSE files
    /\ listed' = listed \ {j}
    /\ UNCHANGED <<ownership, kind, owner, row, stalls, work>>

-----------------------------------------------------------------------------
(* Crash and redelivery.                                                   *)

Crash ==
    /\ pc' = [j \in Jobs |-> "idle"]
    /\ job' = [j \in Jobs |-> IF job[j] = "adding" THEN "lost" ELSE job[j]]
    /\ row' = [j \in Jobs |-> IF kind[j] \in Builds THEN "GONE" ELSE row[j]]
    /\ creating' = {}
    /\ removing' = {}
    /\ upset' = upset \cup (creating \cap owners)
    /\ listed' = {}
    /\ UNCHANGED <<owners, dirs, kind, owner, stalls, work, files>>

Orphaned(j) == job[j] = "active" /\ pc[j] = "idle"

\* Mutant: a job whose worker died is dropped.
StalledCheckDrops(j) ==
    /\ Orphaned(j)
    /\ stalls' = stalls \cup {j}
    /\ job' = [job EXCEPT ![j] = "failed"]
    /\ UNCHANGED <<ownership, kind, owner, row, pc, work, files, listed>>

\* BullMQ puts the job back once, then it is given up.
StalledCheck(j) ==
    /\ Orphaned(j)
    /\ stalls' = stalls \cup {j}
    /\ job' = [job EXCEPT ![j] = IF j \in stalls THEN "lost" ELSE "waiting"]
    /\ UNCHANGED <<ownership, kind, owner, row, pc, work, files, listed>>

-----------------------------------------------------------------------------

\* docker login --password-stdin has no action: execFile leaves its standard
\* input open, so the command waits for its end for ever.
Work(j) ==
    \/ Take(j)
    \/ Begin(j)
    \/ Load(j)
    \/ CommandFails(j)
    \/ RemotePushFails(j)
    \/ CommandSucceeds(j)
    \/ Save(j)
    \/ Finish(j)

Next ==
    \/ \E p \in Playbooks : CreatePlaybook(p)
    \/ \E w \in Workspaces : CreateWorkspace(w) \/ MakeDir(w) \/ MakeDirFails(w) \/ RemoveDir(w)
    \/ \E o \in Owners : DeleteOwner(o)
    \/ \E j \in Jobs, k \in AllKinds, o \in Owners \cup {NoOwner} : Request(j, k, o)
    \/ \E j \in Jobs : Enqueue(j) \/ EnqueueFails(j) \/ StalledCheck(j)
    \/ \E j \in Jobs : Work(j)
    \/ Crash

\* queue.add answers, each worker polls its queue, a command ends, and BullMQ
\* repeats its stalled check; users and crashes owe nothing.
Fairness ==
    /\ \A q \in {"terraform", "ansible", "registry"} :
          WF_vars(\E j \in Jobs : Queue(j) = q /\ Work(j))
    /\ \A j \in Jobs : WF_vars(Enqueue(j) \/ EnqueueFails(j)) /\ WF_vars(StalledCheck(j))

Spec == Init /\ [][Next]_vars /\ Fairness

-----------------------------------------------------------------------------
(* Properties.                                                             *)

\* An entry that is settled tells how its last execution ended, through crashes,
\* executions from the start and deletions, but for a push on a server.
ResultIsTrue ==
    \A j \in Jobs : /\ row[j] = "SUCCESS" => work[j] = "ok" \/ kind[j] = "remote build"
                    /\ row[j] = "FAILED" => work[j] \in {"none", "failed"}

\* A private key that executeJob wrote to tmp goes with its execution, however
\* that ends; it stays only when the worker died while it had it.  (Then it may
\* stay for good: the execution that follows does not know of it.)
KeyFilesGo ==
    \A j \in files :
        \/ j \in listed /\ pc[j] \in {"run", "well", "badly", "return", "throw"}
        \/ Orphaned(j)
        \/ j \in stalls

\* A workspace has the directory that all its commands run in, however creations
\* and removals of one name interleave, unless its own creation failed or died
\* between row and directory, or began while an earlier one was being removed.
WorkspaceHasDir ==
    \A w \in Workspaces \cap owners : w \in dirs \cup creating \cup upset

\* The lists of entries keep the promises of JobLedger.
Ledger == INSTANCE JobLedger WITH Jobs <- Jobs, status <- row, again <- stalls
LedgerSpec == Ledger!Spec

\* An entry is settled unless its request or its worker died, or a login of its
\* queue hangs.
EveryJobEnds ==
    \A j \in Jobs : row[j] \in {"PENDING", "RUNNING"} ~>
        \/ row[j] \in {"SUCCESS", "FAILED", "GONE"}
        \/ job[j] = "lost"
        \/ \E i \in Jobs : Queue(i) = Queue(j) /\ pc[i] = "login"

=============================================================================
