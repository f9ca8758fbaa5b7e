-------------------------- MODULE HealthIncidents --------------------------
(***************************************************************************)
(* HealthProbeProcessor: every minute one job of the app-health queue      *)
(* walks through the applications that have a health URL, keeps the number *)
(* of consecutive failures of each in Redis, and opens or resolves its     *)
(* incident in PostgreSQL.  One action is the code between two awaits at   *)
(* which another process can act.                                          *)
(*                                                                         *)
(* The code compares the counter with 0 and with 3 only, so it is counted  *)
(* up to 4.  A key that is absent or expired reads as no failure and as    *)
(* healthy, exactly like a counter of zero.  Response times, the uptime    *)
(* history, the snapshot row and the text of events are left out.          *)
(***************************************************************************)
EXTENDS Host

VARIABLES
    app,     \* the AppConfig row of an application
    health,  \* consecutiveFailures in Redis, 0 when the key is absent
    metric,  \* the latest sample of metrics:app:<name>
    open,    \* number of unresolved incidents
    probe,   \* the job of the queue's only worker
    streak   \* history: failures the probes saw since the last success

healthVars == <<app, health, metric, open, probe, streak>>

DownAfter == 3
Cap == DownAfter + 1
Bump(n) == IF n < Cap THEN n + 1 ELSE n

Status(n) == IF n = 0 THEN "UP" ELSE IF n >= DownAfter THEN "DOWN" ELSE "DEGRADED"

\* todo: the rows findMany gave that are still to be probed; n: the counter
\* just stored; gone: the incident in hand was deleted with its application.
Probe == [pc: {"idle", "next", "push", "track", "resolve", "create", "event"},
          todo: SUBSET Apps, app: Apps \cup {NoApp}, n: 0..Cap, gone: BOOLEAN]
IdleProbe == [pc |-> "idle", todo |-> {}, app |-> NoApp, n |-> 0, gone |-> FALSE]
Between(todo) == IF todo = {} THEN IdleProbe
                              ELSE [IdleProbe EXCEPT !.pc = "next", !.todo = todo]
Probing(a, n) == [pc |-> "push", todo |-> probe.todo \ {a}, app |-> a, n |-> n, gone |-> FALSE]
At(pc) == [probe EXCEPT !.pc = pc]

HealthTypeOK ==
    /\ app \in [Apps -> {"absent", "unwatched", "watched"}]
    /\ health \in [Apps -> 0..Cap]
    /\ metric \in [Apps -> {"none", "up", "down"}]
    /\ open \in [Apps -> Nat]
    /\ probe \in Probe
    /\ probe.pc \notin {"idle", "next"} => probe.app \in Apps
    /\ streak \in [Apps -> 0..Cap]

HealthInit ==
    /\ app = [a \in Apps |-> "watched"]
    /\ health = [a \in Apps |-> 0]
    /\ metric = [a \in Apps |-> "none"]
    /\ open = [a \in Apps |-> 0]
    /\ probe = IdleProbe
    /\ streak = [a \in Apps |-> 0]

-----------------------------------------------------------------------------
(* The job.                                                                *)

StartProbe ==
    /\ probe.pc = "idle"
    /\ probe' = Between({a \in Apps : app[a] = "watched"})
    /\ UNCHANGED <<app, health, metric, open, streak>>

\* Mutant: a success does not reset the counter.
ProbeAppKeeps(a) ==
    /\ probe.pc = "next"
    /\ a \in probe.todo
    /\ LET n == IF Answers(a) THEN health[a] ELSE Bump(health[a])
       IN /\ health' = [health EXCEPT ![a] = n]
          /\ probe' = Probing(a, n)
    /\ streak' = [streak EXCEPT ![a] = IF Answers(a) THEN 0 ELSE Bump(@)]
    /\ UNCHANGED <<app, metric, open>>

\* Read the last result, fetch the URL, store the new one for 300 seconds.
ProbeApp(a) ==
    /\ probe.pc = "next"
    /\ a \in probe.todo
    /\ LET n == IF Answers(a) THEN 0 ELSE Bump(health[a])
       IN /\ health' = [health EXCEPT ![a] = n]
          /\ probe' = Probing(a, n)
    /\ streak' = [streak EXCEPT ![a] = IF Answers(a) THEN 0 ELSE Bump(@)]
    /\ UNCHANGED <<app, metric, open>>

\* Mutant: only a healthy application gets a sample.
PushMetricHealthy ==
    /\ probe.pc = "push"
    /\ metric' = IF probe.n = 0 THEN [metric EXCEPT ![probe.app] = "up"] ELSE metric
    /\ probe' = At("track")
    /\ UNCHANGED <<app, health, open, streak>>

PushMetric ==
    /\ probe.pc = "push"
    /\ metric' = [metric EXCEPT ![probe.app] =
                     IF Status(probe.n) = "DOWN" THEN "down" ELSE "up"]
    /\ probe' = At("track")
    /\ UNCHANGED <<app, health, open, streak>>

\* Mutant: incidents are opened without looking for the active one.
DecisionBlind ==
    LET active == open[probe.app] > 0
        status == Status(probe.n)
    IN IF status = "UP" /\ active THEN At("resolve")
       ELSE IF status = "DOWN" /\ probe.n = DownAfter THEN At("create")
       ELSE Between(probe.todo)

\* trackIncident with the incident findFirst gave.  The third failure is the
\* only one that opens an incident; wasHealthy is false there in any case.
Decision ==
    LET active == open[probe.app] > 0
        status == Status(probe.n)
    IN IF status = "UP" /\ active THEN At("resolve")
       ELSE IF status = "DOWN" /\ ~active /\ probe.n = DownAfter THEN At("create")
       ELSE IF status = "DEGRADED" /\ active THEN At("event")
       ELSE Between(probe.todo)

Track ==
    /\ probe.pc = "track"
    /\ probe' = Decision
    /\ UNCHANGED <<app, health, metric, open, streak>>

\* A row that is gone makes the write throw: the job fails, the applications
\* left in todo wait for the next one, and the queue makes no second attempt.
Abort == probe' = IdleProbe

\* Mutant: the resolved event is written, the incident is not.
ResolveIncidentEvent ==
    /\ probe.pc = "resolve"
    /\ probe' = At("event")
    /\ UNCHANGED <<app, health, metric, open, streak>>

ResolveIncident ==
    /\ probe.pc = "resolve"
    /\ IF probe.gone
         THEN /\ Abort
              /\ UNCHANGED open
         ELSE /\ open' = [open EXCEPT ![probe.app] = @ - 1]
              /\ probe' = At("event")
    /\ UNCHANGED <<app, health, metric, streak>>

CreateIncident ==
    /\ probe.pc = "create"
    /\ IF app[probe.app] = "absent"
         THEN /\ Abort
              /\ UNCHANGED open
         ELSE /\ open' = [open EXCEPT ![probe.app] = @ + 1]
              /\ probe' = At("event")
    /\ UNCHANGED <<app, health, metric, streak>>

WriteEvent ==
    /\ probe.pc = "event"
    /\ IF probe.gone THEN Abort ELSE probe' = Between(probe.todo)
    /\ UNCHANGED <<app, health, metric, open, streak>>

-----------------------------------------------------------------------------
(* What happens around it.                                                 *)

\* Incidents and their events are deleted with the row, the Redis key is not.
RemoveApp(a) ==
    /\ app[a] # "absent"
    /\ app' = [app EXCEPT ![a] = "absent"]
    /\ open' = [open EXCEPT ![a] = 0]
    /\ probe' = IF probe.app = a /\ probe.pc \in {"resolve", "event"}
                  THEN [probe EXCEPT !.gone = TRUE] ELSE probe
    /\ UNCHANGED <<health, metric, streak>>

\* A row is created with or without a health URL.
CreateApp(a) ==
    /\ app[a] = "absent"
    /\ \E s \in {"unwatched", "watched"} : app' = [app EXCEPT ![a] = s]
    /\ UNCHANGED <<health, metric, open, probe, streak>>

\* Its health URL is set or removed.
EditUrl(a) ==
    /\ app[a] # "absent"
    /\ \E s \in {"unwatched", "watched"} \ {app[a]} : app' = [app EXCEPT ![a] = s]
    /\ UNCHANGED <<health, metric, open, probe, streak>>

\* "EX 300": five minutes without a probe, or the loop took that long.
Expire(a) ==
    /\ health[a] > 0
    /\ health' = [health EXCEPT ![a] = 0]
    /\ UNCHANGED <<app, metric, open, probe, streak>>

\* The process dies; the queue hands the job out again, from the start.
CrashProbe ==
    /\ probe' = IdleProbe
    /\ UNCHANGED <<app, health, metric, open, streak>>

ProbeStep ==
    \/ \E a \in Apps : ProbeApp(a)
    \/ PushMetric
    \/ Track
    \/ ResolveIncident
    \/ CreateIncident
    \/ WriteEvent

\* What GET /status shows: an incident counts more than the last probe.
ShownStatus(a) == IF open[a] > 0 \/ health[a] > 0 THEN "DOWN" ELSE "UP"

=============================================================================
