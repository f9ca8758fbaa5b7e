----------------------------- MODULE Supervisor -----------------------------
(***************************************************************************)
(* SupervisorService: rules that watch a PM2, Docker or systemd service    *)
(* and restart it.  checkAll runs every minute in the supervisor queue's   *)
(* worker, checkRule also on request; one rule per application.  What a    *)
(* check only writes (lastStatus, restartCount, events) is left out, and   *)
(* so is the health URL: a check asks PM2, Docker or systemd whether the   *)
(* process runs.                                                           *)
(***************************************************************************)
EXTENDS Host

CONSTANTS
    Timer,     \* the worker of the supervisor queue
    Requests,  \* concurrent POST .../check
    Kind       \* the appType of an application's rule

Checkers == {Timer} \cup Requests

ASSUME SupervisorAssumption ==
    /\ Timer \notin Requests
    /\ Kind \in [Apps -> {"PM2", "DOCKER", "SYSTEMD"}]

VARIABLES
    sup,    \* the SupervisorRule row
    check,  \* checkRule calls in progress
    round,  \* rules checkAll has read and not yet checked
    shared  \* history: checks during which another check of the application
            \* ran or somebody else started it

supVars == <<sup, check, round, shared>>

Rule == [row: BOOLEAN, enabled: BOOLEAN, auto: BOOLEAN]
NoRule == [row |-> FALSE, enabled |-> FALSE, auto |-> FALSE]

\* auto: autoRestart as checkRule read it.
Check == [pc: {"idle", "look", "restart"}, app: Apps \cup {NoApp}, auto: BOOLEAN]
IdleCheck == [pc |-> "idle", app |-> NoApp, auto |-> FALSE]
Looking(a) == [pc |-> "look", app |-> a, auto |-> sup[a].auto]
Restarting(x) == [x EXCEPT !.pc = "restart"]

SupTypeOK ==
    /\ sup \in [Apps -> Rule]
    /\ check \in [Checkers -> Check]
    /\ \A c \in Checkers : check[c].pc # "idle" => check[c].app \in Apps
    /\ round \subseteq Apps
    /\ shared \subseteq Checkers

\* Checks of an application in progress.
On(a) == {c \in Checkers : check[c].app = a}

SupInit ==
    /\ sup \in [Apps -> {x \in Rule : x.row \/ x = NoRule}]
    /\ check = [c \in Checkers |-> IdleCheck]
    /\ round = {}
    /\ shared = {}

\* create, update and toggle.
SetSupervision(a) ==
    /\ \E e \in BOOLEAN, x \in BOOLEAN :
          sup' = [sup EXCEPT ![a] = [row |-> TRUE, enabled |-> e, auto |-> x]]
    /\ UNCHANGED <<check, round, shared>>

DeleteSupervision(a) ==
    /\ sup[a].row
    /\ sup' = [sup EXCEPT ![a] = NoRule]
    /\ UNCHANGED <<check, round, shared>>

StartRound ==
    /\ check[Timer].pc = "idle"
    /\ round = {}
    /\ round' = {a \in Apps : sup[a].enabled}
    /\ UNCHANGED <<sup, check, shared>>

\* checkRule reads its rule.  One that is gone throws; checkAll goes on.
CheckRule(c, a) ==
    /\ check[c].pc = "idle"
    /\ c = Timer => a \in round
    /\ check' = [check EXCEPT ![c] = IF sup[a].row THEN Looking(a) ELSE IdleCheck]
    /\ round' = IF c = Timer THEN round \ {a} ELSE round
    /\ shared' = IF sup[a].row /\ On(a) # {} THEN shared \cup On(a) \cup {c} ELSE shared
    /\ UNCHANGED sup

\* Mutant: no command reports a stopped service with a zero exit status.
ObservedUnknown(a) == IF Runs(a) THEN "RUNNING" ELSE "UNKNOWN"

\* Mutant: the health URL decides.
ObservedByProbe(a) == IF Answers(a) THEN "RUNNING" ELSE "DOWN"

\* The command's exit status decides whether its output is looked at at all:
\* "systemctl is-active" exits with a non-zero status for a stopped unit.
Observed(a) ==
    IF Runs(a) THEN "RUNNING" ELSE IF Kind[a] = "SYSTEMD" THEN "UNKNOWN" ELSE "DOWN"

Look(c) ==
    /\ check[c].pc = "look"
    /\ check' = [check EXCEPT ![c] =
           IF Observed(@.app) = "DOWN" /\ @.auto THEN Restarting(@) ELSE IdleCheck]
    /\ shared' = IF check'[c].pc = "idle" THEN shared \ {c} ELSE shared
    /\ UNCHANGED <<sup, round>>

Finish(c) ==
    /\ check' = [check EXCEPT ![c] = IdleCheck]
    /\ shared' = shared \ {c}
    /\ UNCHANGED <<sup, round>>

\* SSH or the command itself fails without effect: the status is UNKNOWN until
\* the next check.
CommandFails(c) ==
    /\ check[c].pc \in {"look", "restart"}
    /\ Finish(c)

\* "pm2 restart" also restarts what runs; "docker start" and "systemctl start"
\* do not.
Started(a) == IF Kind[a] = "PM2" \/ ~Runs(a) THEN "well" ELSE proc[a]

\* Also when the connection is lost before the command's answer.
Restart(c) ==
    /\ check[c].pc = "restart"
    /\ proc' = [proc EXCEPT ![check[c].app] = Started(check[c].app)]
    /\ Finish(c)

\* Somebody else starts the application.
StartedElsewhere(a) ==
    /\ shared' = shared \cup On(a)
    /\ UNCHANGED <<sup, check, round>>

\* Restarts that were under way may still happen.
CrashChecks ==
    /\ \E done \in SUBSET {c \in Checkers : check[c].pc = "restart"} :
          proc' = [a \in Apps |-> IF On(a) \cap done # {} THEN Started(a) ELSE proc[a]]
    /\ check' = [c \in Checkers |-> IdleCheck]
    /\ round' = {}
    /\ shared' = {}
    /\ UNCHANGED sup

=============================================================================
