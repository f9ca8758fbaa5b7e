-------------------------- MODULE MonitoringProofs --------------------------
(***************************************************************************)
(* Theorems about Monitoring, for any applications, requests and fault     *)
(* budget.  Each of the three components has its own inductive invariant   *)
(* over its own variables (the supervisor's also speaks of the processes); *)
(* a step of the others leaves them alone, and Parts says which steps are  *)
(* whose.                                                                  *)
(***************************************************************************)
EXTENDS Monitoring, TLAPS

-----------------------------------------------------------------------------
(* Steps by component.                                                     *)

HealthStep ==
    \/ StartProbe
    \/ ProbeStep
    \/ \E a \in Apps : RemoveApp(a) \/ CreateApp(a) \/ EditUrl(a) \/ Expire(a)
    \/ CrashProbe
    \/ UNCHANGED healthVars

AlertStep ==
    \/ Evaluations
    \/ \E r \in Apps : CreateRule(r) \/ UpdateRule(r) \/ DeleteRule(r)
    \/ CrashEval
    \/ UNCHANGED alertVars

SupStep ==
    \/ Checks /\ UNCHANGED proc
    \/ \E c \in Checkers : Restart(c)
    \/ \E a \in Apps :
          \/ (SetSupervision(a) \/ DeleteSupervision(a)) /\ UNCHANGED proc
          \/ Outage(a) /\ UNCHANGED supVars
          \/ Repaired(a) /\ StartedElsewhere(a)
    \/ CrashChecks
    \/ UNCHANGED <<supVars, proc>>

FaultStep == Misfortune \/ UNCHANGED faults

LEMMA Parts ==
    ASSUME [Next]_vars
    PROVE  HealthStep /\ AlertStep /\ SupStep /\ FaultStep
<1> USE DEF HealthStep, AlertStep, SupStep, FaultStep, hostVars
<1>1. CASE Work
  BY <1>1, Zenon DEF Work, Probes
<1>2. CASE Edit
  BY <1>2, Zenon DEF Edit
<1>3. CASE Crash
  BY <1>3, Zenon DEF Crash
<1>4. CASE Weather
  BY <1>4, Zenon DEF Weather, Outage, Repaired
<1>5. CASE Recreate
  BY <1>5, Zenon DEF Recreate
<1>6. CASE UNCHANGED vars
  BY <1>6 DEF vars
<1>q. QED
  BY <1>1, <1>2, <1>3, <1>4, <1>5, <1>6 DEF Next

-----------------------------------------------------------------------------
(* Health probes.  A success and the counter that leads to an incident are *)
(* remembered in probe between the awaits; HealthData says what is true of *)
(* the rows while it does.                                                 *)

HealthData ==
    /\ \A a \in Apps : open[a] <= 1
    /\ \A a \in Apps : health[a] <= streak[a]
    /\ probe.pc \in {"push", "track"} => probe.n <= streak[probe.app]
    /\ probe.pc = "create" => open[probe.app] = 0 /\ streak[probe.app] >= DownAfter
    /\ probe.pc = "resolve" /\ ~probe.gone => open[probe.app] = 1

HealthInv == HealthTypeOK /\ HealthData

Opened == \A a \in Apps : open'[a] > open[a] => streak[a] >= DownAfter

LEMMA IdleProbeType == IdleProbe \in Probe /\ IdleProbe.pc = "idle"
BY DEF Probe, IdleProbe, Cap, DownAfter

LEMMA BetweenType ==
    ASSUME NEW todo \in SUBSET Apps
    PROVE  Between(todo) \in Probe /\ Between(todo).pc \in {"idle", "next"}
<1>1. [IdleProbe EXCEPT !.pc = "next", !.todo = todo] \in Probe
  <2>1. \A p \in Probe : [p EXCEPT !.pc = "next", !.todo = todo] \in Probe
    BY DEF Probe
  <2>q. QED
    BY <2>1, IdleProbeType
<1>2. [IdleProbe EXCEPT !.pc = "next", !.todo = todo].pc = "next"
  BY DEF IdleProbe
<1>q. QED
  BY <1>1, <1>2, IdleProbeType DEF Between

LEMMA AtType ==
    ASSUME probe \in Probe,
           NEW pc \in {"idle", "next", "push", "track", "resolve", "create", "event"}
    PROVE  /\ At(pc) \in Probe
           /\ At(pc).pc = pc
           /\ At(pc).app = probe.app
           /\ At(pc).n = probe.n
BY DEF Probe, At

LEMMA GoneType ==
    ASSUME NEW p \in Probe
    PROVE  /\ [p EXCEPT !.gone = TRUE] \in Probe
           /\ [p EXCEPT !.gone = TRUE].pc = p.pc
           /\ [p EXCEPT !.gone = TRUE].app = p.app
           /\ [p EXCEPT !.gone = TRUE].n = p.n
           /\ [p EXCEPT !.gone = TRUE].gone
BY DEF Probe

LEMMA BumpBounds ==
    ASSUME NEW n \in 0..Cap
    PROVE  Bump(n) \in 0..Cap
BY DEF Bump, Cap, DownAfter

LEMMA HealthKept ==
    ASSUME HealthInv, HealthStep
    PROVE  HealthInv' /\ Opened
<1> USE DEF HealthInv
<1>0. /\ app \in [Apps -> {"absent", "unwatched", "watched"}]
      /\ health \in [Apps -> 0..Cap]
      /\ metric \in [Apps -> {"none", "up", "down"}]
      /\ open \in [Apps -> Nat]
      /\ probe \in Probe
      /\ probe.pc \notin {"idle", "next"} => probe.app \in Apps
      /\ streak \in [Apps -> 0..Cap]
  BY DEF HealthTypeOK
<1>p. probe.todo \in SUBSET Apps /\ probe.n \in 0..Cap /\ probe.app \in Apps \cup {NoApp}
  BY <1>0 DEF Probe
<1>1. CASE StartProbe
  <2>1. probe' \in Probe /\ probe'.pc \in {"idle", "next"}
    BY <1>1, BetweenType DEF StartProbe
  <2>q. QED
    BY <1>1, <1>0, <2>1 DEF StartProbe, HealthTypeOK, HealthData, Opened
<1>2. ASSUME NEW a \in Apps, ProbeApp(a) PROVE HealthInv' /\ Opened
  <2>1. PICK n \in 0..Cap :
           /\ n = IF Answers(a) THEN 0 ELSE Bump(health[a])
           /\ health' = [health EXCEPT ![a] = n]
           /\ probe' = Probing(a, n)
    <3>1. health[a] \in 0..Cap /\ Bump(health[a]) \in 0..Cap /\ 0 \in 0..Cap
      BY <1>0, BumpBounds DEF Cap, DownAfter
    <3>q. QED
      BY <1>2, <3>1 DEF ProbeApp
  <2>2. /\ probe' \in Probe
        /\ probe'.pc = "push" /\ probe'.app = a /\ probe'.n = n
    BY <2>1, <1>p DEF Probing, Probe
  <2>3. /\ streak' = [streak EXCEPT ![a] = IF Answers(a) THEN 0 ELSE Bump(streak[a])]
        /\ UNCHANGED <<app, metric, open>>
    BY <1>2 DEF ProbeApp
  <2>4. streak[a] \in 0..Cap /\ health[a] \in 0..Cap /\ health[a] <= streak[a]
    BY <1>0 DEF HealthData
  <2>5. streak'[a] \in 0..Cap /\ n <= streak'[a] /\ streak'[a] = IF Answers(a) THEN 0 ELSE Bump(streak[a])
    <3>1. streak'[a] = IF Answers(a) THEN 0 ELSE Bump(streak[a])
      BY <2>3, <1>0
    <3>q. QED
      BY <3>1, <2>1, <2>4 DEF Bump, Cap, DownAfter
  <2>6. streak' \in [Apps -> 0..Cap] /\ health' \in [Apps -> 0..Cap]
    BY <2>1, <2>3, <2>5, <1>0
  <2>7. \A b \in Apps : health'[b] <= streak'[b]
    BY <2>1, <2>3, <2>5, <1>0 DEF HealthData
  <2>q. QED
    BY <2>2, <2>3, <2>5, <2>6, <2>7, <1>0 DEF HealthTypeOK, HealthData, Opened
<1>3. CASE PushMetric
  <2>1. /\ probe' \in Probe /\ probe'.pc = "track"
        /\ probe'.app = probe.app /\ probe'.n = probe.n
    BY <1>3, <1>0, AtType DEF PushMetric
  <2>2. metric' \in [Apps -> {"none", "up", "down"}]
    BY <1>3, <1>0 DEF PushMetric
  <2>q. QED
    BY <1>3, <1>0, <2>1, <2>2 DEF PushMetric, HealthTypeOK, HealthData, Opened
<1>4. CASE Track
  <2>1. probe.pc = "track" /\ probe' = Decision /\ UNCHANGED <<app, health, metric, open, streak>>
    BY <1>4 DEF Track
  <2>2. /\ probe' \in Probe
        /\ probe'.pc \in {"idle", "next", "resolve", "create", "event"}
        /\ probe'.pc \notin {"idle", "next"} => probe'.app = probe.app
        /\ probe'.pc = "resolve" => open[probe.app] > 0
        /\ probe'.pc = "create" => open[probe.app] = 0 /\ probe.n = DownAfter
    <3>1. open[probe.app] \in Nat
      BY <1>0, <2>1
    <3>2. \/ probe' = At("resolve") /\ open[probe.app] > 0
          \/ probe' = At("create") /\ open[probe.app] = 0 /\ probe.n = DownAfter
          \/ probe' = At("event")
          \/ probe' = Between(probe.todo)
      BY <2>1, <3>1 DEF Decision
    <3>3. CASE probe' = At("resolve") /\ open[probe.app] > 0
      BY <3>3, <1>0, AtType
    <3>4. CASE probe' = At("create") /\ open[probe.app] = 0 /\ probe.n = DownAfter
      BY <3>4, <1>0, AtType
    <3>5. CASE probe' = At("event")
      BY <3>5, <1>0, AtType
    <3>6. CASE probe' = Between(probe.todo)
      BY <3>6, <1>p, BetweenType
    <3>q. QED
      BY <3>2, <3>3, <3>4, <3>5, <3>6
  <2>q. QED
    BY <2>1, <2>2, <1>0 DEF HealthTypeOK, HealthData, Opened
<1>5. CASE ResolveIncident
  <2>1. probe.pc = "resolve" /\ UNCHANGED <<app, health, metric, streak>>
    BY <1>5 DEF ResolveIncident
  <2>2. /\ probe' \in Probe /\ probe'.pc \in {"idle", "event"}
        /\ probe'.pc = "event" => probe'.app = probe.app
    <3>1. probe' = IdleProbe \/ probe' = At("event")
      BY <1>5, Zenon DEF ResolveIncident, Abort
    <3>q. QED
      BY <3>1, <1>0, IdleProbeType, AtType
  <2>3. open' = open \/ (open[probe.app] = 1 /\ open' = [open EXCEPT ![probe.app] = 0])
    BY <1>5, <1>0 DEF ResolveIncident, HealthData
  <2>4. open' \in [Apps -> Nat] /\ \A a \in Apps : open'[a] <= open[a]
    BY <2>3, <2>1, <1>0
  <2>q. QED
    BY <2>1, <2>2, <2>4, <1>0 DEF HealthTypeOK, HealthData, Opened
<1>6. CASE CreateIncident
  <2>1. probe.pc = "create" /\ UNCHANGED <<app, health, metric, streak>>
    BY <1>6 DEF CreateIncident
  <2>2. /\ probe' \in Probe /\ probe'.pc \in {"idle", "event"}
        /\ probe'.pc = "event" => probe'.app = probe.app
    <3>1. probe' = IdleProbe \/ probe' = At("event")
      BY <1>6, Zenon DEF CreateIncident, Abort
    <3>q. QED
      BY <3>1, <1>0, IdleProbeType, AtType
  <2>3. open[probe.app] = 0 /\ streak[probe.app] >= DownAfter
    BY <2>1 DEF HealthData
  <2>4. open' = open \/ open' = [open EXCEPT ![probe.app] = 1]
    BY <1>6, <1>0, <2>1, <2>3 DEF CreateIncident
  <2>5. /\ open' \in [Apps -> Nat]
        /\ \A a \in Apps : open'[a] <= 1
        /\ Opened
    BY <2>3, <2>4, <2>1, <1>0 DEF HealthData, Opened
  <2>q. QED
    BY <2>1, <2>2, <2>5, <1>0 DEF HealthTypeOK, HealthData
<1>7. CASE WriteEvent
  <2>1. probe' \in Probe /\ probe'.pc \in {"idle", "next"}
    BY <1>7, <1>p, IdleProbeType, BetweenType DEF WriteEvent, Abort
  <2>q. QED
    BY <1>7, <1>0, <2>1 DEF WriteEvent, HealthTypeOK, HealthData, Opened
<1>8. ASSUME NEW a \in Apps, RemoveApp(a) PROVE HealthInv' /\ Opened
  <2>1. /\ probe' \in Probe /\ probe'.pc = probe.pc
        /\ probe'.app = probe.app /\ probe'.n = probe.n
        /\ probe'.gone \in BOOLEAN
        /\ ~probe'.gone => ~probe.gone /\ (probe.pc = "resolve" => probe.app # a)
    <3>1. probe.gone \in BOOLEAN
      BY <1>0 DEF Probe
    <3>q. QED
      BY <1>8, <1>0, <3>1, GoneType DEF RemoveApp
  <2>2. /\ app' \in [Apps -> {"absent", "unwatched", "watched"}]
        /\ open' = [open EXCEPT ![a] = 0] /\ open' \in [Apps -> Nat]
        /\ UNCHANGED <<health, metric, streak>>
    BY <1>8, <1>0 DEF RemoveApp
  <2>q. QED
    BY <2>1, <2>2, <1>0 DEF HealthTypeOK, HealthData, Opened
<1>9. ASSUME NEW a \in Apps, CreateApp(a) \/ EditUrl(a) PROVE HealthInv' /\ Opened
  <2>1. /\ app' \in [Apps -> {"absent", "unwatched", "watched"}]
        /\ UNCHANGED <<health, metric, open, probe, streak>>
    BY <1>9, <1>0 DEF CreateApp, EditUrl
  <2>q. QED
    BY <1>0, <2>1 DEF HealthTypeOK, HealthData, Opened
<1>10. ASSUME NEW a \in Apps, Expire(a) PROVE HealthInv' /\ Opened
  <2>1. health' = [health EXCEPT ![a] = 0] /\ UNCHANGED <<app, metric, open, probe, streak>>
    BY <1>10 DEF Expire
  <2>2. health' \in [Apps -> 0..Cap] /\ \A b \in Apps : health'[b] <= streak'[b]
    BY <2>1, <1>0 DEF HealthData, Cap, DownAfter
  <2>q. QED
    BY <1>0, <2>1, <2>2 DEF HealthTypeOK, HealthData, Opened
<1>11. CASE CrashProbe
  <2>1. probe' \in Probe /\ probe'.pc = "idle"
    BY <1>11, IdleProbeType DEF CrashProbe
  <2>q. QED
    BY <1>11, <1>0, <2>1 DEF CrashProbe, HealthTypeOK, HealthData, Opened
<1>12. CASE UNCHANGED healthVars
  BY <1>12, <1>0 DEF healthVars, HealthTypeOK, HealthData, Opened
<1>q. QED
  BY <1>1, <1>2, <1>3, <1>4, <1>5, <1>6, <1>7, <1>8, <1>9, <1>10, <1>11, <1>12
     DEF HealthStep, ProbeStep

-----------------------------------------------------------------------------
(* Alert rules.                                                            *)

AlertData ==
    /\ \A r \in Apps : alerts[r] <= 1
    /\ eval.pc = "fire" => alerts[eval.rule] = 0

AlertInv == AlertTypeOK /\ AlertData

LEMMA NextRuleType ==
    ASSUME NEW todo \in SUBSET Apps
    PROVE  NextRule(todo) \in Eval /\ NextRule(todo).pc \in {"idle", "next"}
<1>1. IdleEval \in Eval /\ IdleEval.pc = "idle"
  BY DEF IdleEval, Eval
<1>2. [IdleEval EXCEPT !.pc = "next", !.todo = todo] \in Eval
  BY DEF IdleEval, Eval
<1>3. [IdleEval EXCEPT !.pc = "next", !.todo = todo].pc = "next"
  BY DEF IdleEval
<1>q. QED
  BY <1>1, <1>2, <1>3 DEF NextRule

LEMMA AlertKept ==
    ASSUME AlertInv, AlertStep
    PROVE  AlertInv'
<1> USE DEF AlertInv
<1>0. /\ rule \in [Apps -> {"unset", "disabled", "enabled", "deleted"}]
      /\ alerts \in [Apps -> Nat]
      /\ eval \in Eval
      /\ eval.pc = "fire" => eval.rule \in Apps
  BY DEF AlertTypeOK
<1>p. eval.todo \in SUBSET Apps
  BY <1>0 DEF Eval
<1>i. IdleEval \in Eval /\ IdleEval.pc = "idle"
  BY DEF IdleEval, Eval
<1>1. CASE StartEval
  <2>1. eval' \in Eval /\ eval'.pc \in {"idle", "next"}
    BY <1>1, NextRuleType DEF StartEval
  <2>q. QED
    BY <1>1, <1>0, <2>1 DEF StartEval, AlertTypeOK, AlertData
<1>2. ASSUME NEW r \in Apps, WindowEmpty(r) PROVE AlertInv'
  <2>1. eval.todo \ {r} \in SUBSET Apps
    BY <1>p
  <2>2. eval' \in Eval /\ eval'.pc \in {"idle", "next"}
    BY <1>2, <2>1, NextRuleType DEF WindowEmpty
  <2>q. QED
    BY <1>2, <1>0, <2>2 DEF WindowEmpty, AlertTypeOK, AlertData
<1>3. ASSUME NEW r \in Apps, Evaluate(r) PROVE AlertInv'
  <2>1. eval.todo \ {r} \in SUBSET Apps
    BY <1>p
  <2>2. [pc |-> "fire", todo |-> eval.todo \ {r}, rule |-> r] \in Eval
    BY <2>1 DEF Eval
  <2>3. /\ eval' \in Eval
        /\ \/ eval'.pc \in {"idle", "next"}
           \/ eval'.rule = r /\ alerts[r] = 0
    BY <1>3, <2>1, <2>2, NextRuleType DEF Evaluate
  <2>q. QED
    BY <1>3, <1>0, <2>3 DEF Evaluate, AlertTypeOK, AlertData
<1>4. CASE Fire
  <2>1. eval' \in Eval /\ eval'.pc \in {"idle", "next"}
    BY <1>4, <1>p, <1>i, NextRuleType DEF Fire
  <2>2. alerts' = alerts \/ alerts' = [alerts EXCEPT ![eval.rule] = 1]
    BY <1>4, <1>0 DEF Fire, AlertData
  <2>q. QED
    BY <1>4, <1>0, <2>1, <2>2 DEF Fire, AlertTypeOK, AlertData
<1>5. ASSUME NEW r \in Apps, CreateRule(r) \/ UpdateRule(r) PROVE AlertInv'
  <2>1. /\ rule' \in [Apps -> {"unset", "disabled", "enabled", "deleted"}]
        /\ UNCHANGED <<alerts, eval>>
    BY <1>5, <1>0 DEF CreateRule, UpdateRule
  <2>q. QED
    BY <1>0, <2>1 DEF AlertTypeOK, AlertData
<1>6. ASSUME NEW r \in Apps, DeleteRule(r) PROVE AlertInv'
  BY <1>6, <1>0 DEF DeleteRule, AlertTypeOK, AlertData
<1>7. CASE CrashEval
  BY <1>7, <1>0, <1>i DEF CrashEval, AlertTypeOK, AlertData
<1>8. CASE UNCHANGED alertVars
  BY <1>8, <1>0 DEF alertVars, AlertTypeOK, AlertData
<1>q. QED
  BY <1>1, <1>2, <1>3, <1>4, <1>5, <1>6, <1>7, <1>8 DEF AlertStep, Evaluations

-----------------------------------------------------------------------------
(* Supervisor and applications.  Two checks of one application know of each *)
(* other, so whoever starts it tells all the others in "restart".          *)

SupData ==
    /\ \A c, d \in Checkers :
          c # d /\ check[c].pc # "idle" /\ check[d].app = check[c].app => c \in shared
    /\ \A c \in Checkers : check[c].pc = "idle" => check[c].app = NoApp
    /\ RestartIsNeeded

SupInv ==
    /\ proc \in [Apps -> {"well", "hung", "stopped"}]
    /\ SupTypeOK
    /\ SupData

LEMMA CheckTypes ==
    /\ IdleCheck \in Check /\ IdleCheck.pc = "idle" /\ IdleCheck.app = NoApp
    /\ sup \in [Apps -> Rule] =>
         \A a \in Apps : /\ Looking(a) \in Check /\ Looking(a).app = a
                        /\ Looking(a).pc = "look"
    /\ \A x \in Check : /\ Restarting(x) \in Check /\ Restarting(x).app = x.app
                        /\ Restarting(x).pc = "restart"
BY DEF IdleCheck, Looking, Restarting, Check, Rule

LEMMA FinishKeeps ==
    ASSUME SupInv, NEW c \in Checkers, check[c].pc # "idle",
           check' = [check EXCEPT ![c] = IdleCheck],
           shared' = shared \ {c},
           UNCHANGED <<sup, round>>,
           proc' \in [Apps -> {"well", "hung", "stopped"}],
           \A a \in Apps : a # check[c].app \/ UNCHANGED proc => proc'[a] = proc[a]
    PROVE  SupInv'
<1> USE DEF SupInv, SupTypeOK
<1>1. /\ check' \in [Checkers -> Check] /\ check'[c] = IdleCheck
      /\ \A d \in Checkers : d # c => check'[d] = check[d]
  BY CheckTypes
<1>2. SupTypeOK'
  BY <1>1, CheckTypes
<1>3. NoApp \notin Apps
  BY HostAssumption
<1>4. ASSUME NEW d \in Checkers, NEW e \in Checkers, d # e, check'[d].pc # "idle",
             check'[e].app = check'[d].app
      PROVE  d \in shared'
  <2>1. d # c /\ e # c
    BY <1>1, <1>3, <1>4, CheckTypes
  <2>q. QED
    BY <1>1, <1>4, <2>1 DEF SupData
<1>5. ASSUME NEW d \in Checkers, check'[d].pc = "restart", d \notin shared'
      PROVE  proc'[check'[d].app] = "stopped"
  <2>1. d # c /\ check'[d] = check[d] /\ d \notin shared
    BY <1>1, <1>5, CheckTypes
  <2>2. check[d].app # check[c].app /\ check[d].app \in Apps
    BY <1>5, <2>1 DEF SupData
  <2>3. ~Runs(check[d].app)
    BY <1>5, <2>1 DEF SupData, RestartIsNeeded
  <2>q. QED
    BY <2>1, <2>2, <2>3 DEF Runs
<1>6. \A d \in Checkers : check'[d].pc = "idle" => check'[d].app = NoApp
  BY <1>1, CheckTypes DEF SupData
<1>q. QED
  BY <1>2, <1>4, <1>5, <1>6 DEF SupData, RestartIsNeeded, Runs

LEMMA SupKept ==
    ASSUME SupInv, SupStep
    PROVE  SupInv'
<1> USE DEF SupInv
<1>0. /\ sup \in [Apps -> Rule]
      /\ check \in [Checkers -> Check]
      /\ \A c \in Checkers : check[c].pc # "idle" => check[c].app \in Apps
      /\ round \subseteq Apps /\ shared \subseteq Checkers
  BY DEF SupTypeOK
<1>n. NoApp \notin Apps
  BY HostAssumption
<1>1. CASE StartRound /\ UNCHANGED proc
  BY <1>1, <1>0 DEF StartRound, SupTypeOK, SupData, RestartIsNeeded, Runs
<1>2. ASSUME NEW c \in Checkers, NEW a \in Apps, CheckRule(c, a), UNCHANGED proc PROVE SupInv'
  <2>0. /\ check[c].pc = "idle" /\ check[c].app = NoApp
        /\ round' \subseteq Apps /\ UNCHANGED <<sup, proc>>
    BY <1>2, <1>0 DEF CheckRule, SupData
  <2>1. CASE ~sup[a].row
    <3>1. check' = [check EXCEPT ![c] = IdleCheck] /\ shared' = shared
      BY <1>2, <2>1 DEF CheckRule
    <3>2. \A d \in Checkers : /\ d # c => check'[d] = check[d]
                              /\ check'[d].app = check[d].app /\ check'[d].pc = check[d].pc
      BY <1>0, <2>0, <3>1, CheckTypes
    <3>3. check' \in [Checkers -> Check]
      BY <1>0, <3>1, CheckTypes
    <3>q. QED
      BY <1>0, <2>0, <3>1, <3>2, <3>3 DEF SupTypeOK, SupData, RestartIsNeeded, Runs
  <2>2. CASE sup[a].row
    <3>1. /\ check' = [check EXCEPT ![c] = Looking(a)]
          /\ shared' = IF On(a) # {} THEN shared \cup On(a) \cup {c} ELSE shared
      BY <1>2, <2>2 DEF CheckRule
    <3>2. /\ check' \in [Checkers -> Check] /\ check'[c].app = a /\ check'[c].pc = "look"
          /\ \A d \in Checkers : d # c => check'[d] = check[d]
      BY <1>0, <3>1, CheckTypes
    <3>3. On(a) \subseteq Checkers /\ shared \subseteq shared' /\ shared' \subseteq Checkers
      BY <1>0, <3>1 DEF On
    <3>4. ASSUME NEW d \in Checkers, NEW e \in Checkers, d # e, check'[d].pc # "idle",
                 check'[e].app = check'[d].app
          PROVE  d \in shared'
      <4>1. CASE d # c /\ e # c
        BY <3>2, <3>3, <3>4, <4>1 DEF SupData
      <4>2. CASE d = c
        <5>1. e \in On(a)
          BY <3>2, <3>4, <4>2 DEF On
        <5>q. QED
          BY <3>1, <4>2, <5>1
      <4>3. CASE e = c
        <5>1. d \in On(a)
          BY <3>2, <3>4, <4>3 DEF On
        <5>q. QED
          BY <3>1, <5>1
      <4>q. QED
        BY <4>1, <4>2, <4>3
    <3>q. QED
      BY <1>0, <2>0, <3>2, <3>3, <3>4 DEF SupTypeOK, SupData, RestartIsNeeded, Runs
  <2>q. QED
    BY <2>1, <2>2
<1>3. ASSUME NEW c \in Checkers, Look(c), UNCHANGED proc PROVE SupInv'
  <2>0. check[c] \in Check /\ check[c].app \in Apps /\ check[c].pc = "look"
    BY <1>3, <1>0 DEF Look
  <2>1. CASE Observed(check[c].app) = "DOWN" /\ check[c].auto
    <3>1. check' = [check EXCEPT ![c] = Restarting(check[c])] /\ UNCHANGED <<sup, round>>
      BY <1>3, <2>1 DEF Look
    <3>2. /\ check' \in [Checkers -> Check] /\ check'[c].app = check[c].app
          /\ check'[c].pc = "restart"
          /\ \A d \in Checkers : d # c => check'[d] = check[d]
      BY <1>0, <2>0, <3>1, CheckTypes
    <3>3. shared' = shared
      BY <1>3, <3>2 DEF Look
    <3>4. ~Runs(check[c].app)
      BY <2>1 DEF Observed
    <3>q. QED
      BY <1>0, <1>3, <2>0, <3>1, <3>2, <3>3, <3>4 DEF SupTypeOK, SupData, RestartIsNeeded, Runs
  <2>2. CASE ~(Observed(check[c].app) = "DOWN" /\ check[c].auto)
    <3>1. check' = [check EXCEPT ![c] = IdleCheck] /\ UNCHANGED <<sup, round>>
      BY <1>3, <2>2 DEF Look
    <3>2. shared' = shared \ {c}
      BY <1>3, <1>0, <3>1, CheckTypes DEF Look
    <3>q. QED
      BY <1>3, <2>0, <3>1, <3>2, FinishKeeps
  <2>q. QED
    BY <2>1, <2>2
<1>4. ASSUME NEW c \in Checkers, CommandFails(c), UNCHANGED proc PROVE SupInv'
  BY <1>4, FinishKeeps DEF CommandFails, Finish
<1>5. ASSUME NEW c \in Checkers, Restart(c) PROVE SupInv'
  <2>1. check[c].app \in Apps /\ Started(check[c].app) \in {"well", "hung", "stopped"}
    BY <1>5, <1>0 DEF Restart, Started
  <2>2. /\ proc' \in [Apps -> {"well", "hung", "stopped"}]
        /\ \A a \in Apps : a # check[c].app => proc'[a] = proc[a]
    BY <1>5, <2>1 DEF Restart
  <2>q. QED
    BY <1>5, <2>2, FinishKeeps DEF Restart, Finish
<1>6. ASSUME NEW a \in Apps, SetSupervision(a) \/ DeleteSupervision(a), UNCHANGED proc
      PROVE  SupInv'
  <2>1. sup' \in [Apps -> Rule] /\ UNCHANGED <<check, round, shared>>
    <3>1. NoRule \in Rule /\ \A e, x \in BOOLEAN : [row |-> TRUE, enabled |-> e, auto |-> x] \in Rule
      BY DEF NoRule, Rule
    <3>q. QED
      BY <1>6, <1>0, <3>1 DEF SetSupervision, DeleteSupervision
  <2>q. QED
    BY <1>0, <1>6, <2>1 DEF SupTypeOK, SupData, RestartIsNeeded, Runs
<1>7. ASSUME NEW a \in Apps, Outage(a), UNCHANGED supVars PROVE SupInv'
  <2>1. /\ Runs(a)
        /\ \E s \in {"hung", "stopped"} : proc' = [proc EXCEPT ![a] = s]
        /\ UNCHANGED <<sup, check, round, shared>>
    BY <1>7 DEF Outage, supVars
  <2>2. \A b \in Apps : ~Runs(b) => ~Runs(b)'
    BY <2>1 DEF Runs
  <2>q. QED
    BY <1>0, <2>1, <2>2 DEF SupTypeOK, SupData, RestartIsNeeded
<1>8. ASSUME NEW a \in Apps, Repaired(a), StartedElsewhere(a) PROVE SupInv'
  <2>1. /\ proc' = [proc EXCEPT ![a] = "well"]
        /\ shared' = shared \cup On(a)
        /\ UNCHANGED <<sup, check, round>>
    BY <1>8 DEF Repaired, StartedElsewhere
  <2>2. ASSUME NEW c \in Checkers, check[c].pc = "restart", c \notin shared'
        PROVE  ~Runs(check[c].app)'
    <3>1. check[c].app # a /\ check[c].app \in Apps /\ ~Runs(check[c].app)
      BY <1>0, <2>1, <2>2 DEF On, SupData, RestartIsNeeded
    <3>q. QED
      BY <2>1, <3>1 DEF Runs
  <2>q. QED
    BY <1>0, <2>1, <2>2 DEF SupTypeOK, SupData, RestartIsNeeded, On
<1>9. CASE CrashChecks
  <2>1. /\ check' = [c \in Checkers |-> IdleCheck]
        /\ round' = {} /\ shared' = {} /\ sup' = sup
    BY <1>9 DEF CrashChecks
  <2>2. \A a \in Apps : Started(a) \in {"well", "hung", "stopped"}
    BY DEF Started
  <2>3. proc' \in [Apps -> {"well", "hung", "stopped"}]
    BY <1>9, <2>2 DEF CrashChecks
  <2>q. QED
    BY <1>0, <2>1, <2>3, CheckTypes DEF SupTypeOK, SupData, RestartIsNeeded
<1>10. CASE UNCHANGED <<supVars, proc>>
  BY <1>10, <1>0 DEF supVars, SupTypeOK, SupData, RestartIsNeeded, Runs
<1>q. QED
  BY <1>1, <1>2, <1>3, <1>4, <1>5, <1>6, <1>7, <1>8, <1>9, <1>10 DEF SupStep, Checks

LEMMA FaultsKept ==
    ASSUME faults \in 0..MaxFaults, FaultStep
    PROVE  faults' \in 0..MaxFaults
BY HostAssumption DEF FaultStep, Misfortune

-----------------------------------------------------------------------------
(* Theorems.                                                               *)

Inv == faults \in 0..MaxFaults /\ HealthInv /\ AlertInv /\ SupInv

LEMMA InitInv == Init => Inv
<1> SUFFICES ASSUME Init PROVE Inv
  OBVIOUS
<1>1. faults \in 0..MaxFaults
  BY HostAssumption DEF Init, HostInit
<1>2. HealthInv
  <2>1. HealthInit
    BY DEF Init
  <2>q. QED
    BY <2>1, IdleProbeType DEF HealthInit, HealthInv, HealthTypeOK, HealthData, Cap, DownAfter
<1>3. AlertInv
  BY DEF Init, AlertInit, AlertInv, AlertTypeOK, AlertData, IdleEval, Eval
<1>4. SupInv
  BY CheckTypes
     DEF Init, HostInit, SupInit, SupInv, SupTypeOK, SupData, RestartIsNeeded
<1>q. QED
  BY <1>1, <1>2, <1>3, <1>4 DEF Inv

LEMMA StepInv ==
    ASSUME Inv, [Next]_vars
    PROVE  Inv' /\ Opened
BY Parts, HealthKept, AlertKept, SupKept, FaultsKept DEF Inv

\* What each component remembers between its awaits is true of the rows: the
\* invariant the others follow from.
THEOREM MonitoringInvariant == Spec => []Inv
BY InitInv, StepInv, PTL DEF Spec

\* The variables of all four modules keep their types: no count of incidents
\* goes below zero when rows vanish under the probe.
THEOREM MonitoringTypeCorrect == Spec => []TypeOK
<1>1. Inv => TypeOK
  BY DEF Inv, TypeOK, HostTypeOK, HealthInv, AlertInv, SupInv
<1>q. QED
  BY <1>1, MonitoringInvariant, PTL

\* No application has two open incidents (trackIncident).
THEOREM MonitoringOneIncident == Spec => []OneOpenIncident
<1>1. Inv => OneOpenIncident
  BY DEF Inv, HealthInv, HealthData, OneOpenIncident
<1>q. QED
  BY <1>1, MonitoringInvariant, PTL

\* No rule has two open events (evaluateRule).
THEOREM MonitoringOneAlert == Spec => []OneOpenAlert
<1>1. Inv => OneOpenAlert
  BY DEF Inv, AlertInv, AlertData, OneOpenAlert
<1>q. QED
  BY <1>1, MonitoringInvariant, PTL

\* What a check restarts does not run, unless checks of it overlapped or somebody
\* else started it.
THEOREM MonitoringRestart == Spec => []RestartIsNeeded
<1>1. Inv => RestartIsNeeded
  BY DEF Inv, SupInv, SupData
<1>q. QED
  BY <1>1, MonitoringInvariant, PTL

\* An incident takes three failures with no success among them.
THEOREM MonitoringNeedsThree == Spec => IncidentNeedsThree
<1>1. Inv /\ [Next]_vars => [Opened]_vars
  BY StepInv
<1>q. QED
  BY <1>1, MonitoringInvariant, PTL DEF Spec, IncidentNeedsThree, Opened

=============================================================================
