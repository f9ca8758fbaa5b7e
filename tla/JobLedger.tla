----------------------------- MODULE JobLedger -----------------------------
(***************************************************************************)
(* What the lists of terraform runs, ansible jobs and builds promise: an   *)
(* entry is accepted, started and settled, in this order and once, however *)
(* often its worker dies.  Only an entry whose job was given back after a  *)
(* death of its worker may start again, even from a settled state.         *)
(***************************************************************************)
CONSTANT Jobs

VARIABLES
    status, \* per entry; ABSENT: not yet there, GONE: deleted or forgotten
    again   \* entries whose job was given back

vars == <<status, again>>

Init ==
    /\ status = [j \in Jobs |-> "ABSENT"]
    /\ again = {}

Accept(j) ==
    /\ status[j] = "ABSENT"
    /\ status' = [status EXCEPT ![j] = "PENDING"]
    /\ UNCHANGED again

Start(j) ==
    /\ status[j] = "PENDING"
    /\ status' = [status EXCEPT ![j] = "RUNNING"]
    /\ UNCHANGED again

StartAgain(j) ==
    /\ j \in again
    /\ status[j] \in {"RUNNING", "SUCCESS", "FAILED"}
    /\ status' = [status EXCEPT ![j] = "RUNNING"]
    /\ UNCHANGED again

Settle(j) ==
    /\ status[j] = "RUNNING"
    /\ \E s \in {"SUCCESS", "FAILED"} : status' = [status EXCEPT ![j] = s]
    /\ UNCHANGED again

GiveBack(j) ==
    /\ again' = again \cup {j}
    /\ UNCHANGED status

\* A deletion takes every entry of its owner, a crash every entry in memory.
Forget ==
    /\ \E J \in SUBSET {j \in Jobs : status[j] # "ABSENT"} :
          status' = [j \in Jobs |-> IF j \in J THEN "GONE" ELSE status[j]]
    /\ UNCHANGED again

Next ==
    \/ \E j \in Jobs : Accept(j) \/ Start(j) \/ StartAgain(j) \/ Settle(j) \/ GiveBack(j)
    \/ Forget

Spec == Init /\ [][Next]_vars

=============================================================================
