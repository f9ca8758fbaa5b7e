-------------------------------- MODULE Host --------------------------------
(***************************************************************************)
(* What the health probes, the alert rules and the supervisor have in      *)
(* common: the processes of the applications, and what happens to them     *)
(* from outside.  A process that runs need not answer its health URL.      *)
(* External to the repository except for the fault budget, which is only a *)
(* bound: outages, crashes of the API, expiries and edits by users (but    *)
(* not the return of an application that was removed) together happen at   *)
(* most MaxFaults times.                                                   *)
(***************************************************************************)
EXTENDS Naturals

CONSTANTS
    Apps,      \* pm2 names
    NoApp,
    MaxFaults

ASSUME HostAssumption ==
    /\ NoApp \notin Apps
    /\ MaxFaults \in Nat

VARIABLES
    proc,   \* process of an application: well, running but hung, or stopped
    faults  \* how much of the budget is spent

hostVars == <<proc, faults>>

HostTypeOK ==
    /\ proc \in [Apps -> {"well", "hung", "stopped"}]
    /\ faults \in 0..MaxFaults

HostInit ==
    /\ proc = [a \in Apps |-> "well"]
    /\ faults = 0

Runs(a) == proc[a] # "stopped"
Answers(a) == proc[a] = "well"

Misfortune ==
    /\ faults < MaxFaults
    /\ faults' = faults + 1

Outage(a) ==
    /\ Runs(a)
    /\ Misfortune
    /\ \E s \in {"hung", "stopped"} \ {proc[a]} : proc' = [proc EXCEPT ![a] = s]

\* Somebody other than the supervisor starts it again.
Repaired(a) ==
    /\ ~Answers(a)
    /\ proc' = [proc EXCEPT ![a] = "well"]
    /\ UNCHANGED faults

=============================================================================
