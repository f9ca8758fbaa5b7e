----------------------------- MODULE RunLedger -----------------------------
(***************************************************************************)
(* What the run history shown to users promises, whatever happens to the   *)
(* queue and to the process: steps only change while their run is RUNNING, *)
(* a run is SUCCESS only when each of its steps succeeded, and FAILED only *)
(* when one of them failed.  A run may be executed again, and deleted.     *)
(***************************************************************************)
CONSTANTS Runs, StepNames

VARIABLES
    status,  \* PipelineRun.status per run; ABSENT: no such row
    step     \* PipelineStep.status per run and step name; NONE: no such row

vars == <<status, step>>

RunStatus == {"ABSENT", "PENDING", "RUNNING", "SUCCESS", "FAILED"}
StepStatus == {"NONE", "PENDING", "RUNNING", "SUCCESS", "FAILED"}

NoSteps == [k \in StepNames |-> "NONE"]
Has(r, s) == \E k \in StepNames : step[r][k] = s
Only(r, S) == \A k \in StepNames : step[r][k] \in S \cup {"NONE"}

Init ==
    /\ status = [r \in Runs |-> "ABSENT"]
    /\ step = [r \in Runs |-> NoSteps]

Create(r) ==
    /\ status[r] = "ABSENT"
    /\ status' = [status EXCEPT ![r] = "PENDING"]
    /\ \E names \in SUBSET StepNames :
          /\ names # {}
          /\ step' = [step EXCEPT ![r] = [k \in StepNames |->
                         IF k \in names THEN "PENDING" ELSE "NONE"]]

Delete ==
    \E R \in SUBSET Runs :
        /\ status' = [r \in Runs |-> IF r \in R THEN "ABSENT" ELSE status[r]]
        /\ step' = [r \in Runs |-> IF r \in R THEN NoSteps ELSE step[r]]

Begin(r) ==
    /\ status[r] # "ABSENT"
    /\ status' = [status EXCEPT ![r] = "RUNNING"]
    /\ UNCHANGED step

Execute(r, k) ==
    /\ status[r] = "RUNNING"
    /\ step[r][k] # "NONE"
    /\ \E s \in {"RUNNING", "SUCCESS", "FAILED"} : step' = [step EXCEPT ![r][k] = s]
    /\ UNCHANGED status

GiveUp(r) ==
    /\ status[r] = "RUNNING"
    /\ Has(r, "FAILED")
    /\ \E K \in SUBSET {k \in StepNames : step[r][k] # "NONE"} :
          step' = [step EXCEPT ![r] = [k \in StepNames |->
                      IF k \in K THEN "FAILED" ELSE step[r][k]]]
    /\ UNCHANGED status

Succeed(r) ==
    /\ status[r] = "RUNNING"
    /\ Only(r, {"SUCCESS"})
    /\ status' = [status EXCEPT ![r] = "SUCCESS"]
    /\ UNCHANGED step

Fail(r) ==
    /\ status[r] = "RUNNING"
    /\ Has(r, "FAILED")
    /\ status' = [status EXCEPT ![r] = "FAILED"]
    /\ UNCHANGED step

Next ==
    \/ \E r \in Runs : Create(r)
    \/ Delete
    \/ \E r \in Runs : Begin(r)
    \/ \E r \in Runs, k \in StepNames : Execute(r, k)
    \/ \E r \in Runs : GiveUp(r)
    \/ \E r \in Runs : Succeed(r)
    \/ \E r \in Runs : Fail(r)

Spec == Init /\ [][Next]_vars

=============================================================================
