------------------------------- MODULE Alerts -------------------------------
(***************************************************************************)
(* AlertEvaluatorProcessor and the rules of MonitoringService.  One rule   *)
(* per application, "app:<name>:down >= 1"; thresholds on other metrics    *)
(* take the same way.  Nothing in the repository sets resolvedAt of an     *)
(* event, so alerts only grows.                                            *)
(***************************************************************************)
EXTENDS HealthIncidents

VARIABLES
    rule,    \* the AlertRule row
    alerts,  \* number of unresolved AlertEvent rows of a rule
    eval     \* the job of the alerts queue's only worker

alertVars == <<rule, alerts, eval>>

Eval == [pc: {"idle", "next", "fire"}, todo: SUBSET Apps, rule: Apps \cup {NoApp}]
IdleEval == [pc |-> "idle", todo |-> {}, rule |-> NoApp]
NextRule(todo) == IF todo = {} THEN IdleEval
                               ELSE [IdleEval EXCEPT !.pc = "next", !.todo = todo]

AlertTypeOK ==
    /\ rule \in [Apps -> {"unset", "disabled", "enabled", "deleted"}]
    /\ alerts \in [Apps -> Nat]
    /\ eval \in Eval
    /\ eval.pc = "fire" => eval.rule \in Apps

AlertInit ==
    /\ rule \in [Apps -> {"unset", "enabled"}]
    /\ alerts = [r \in Apps |-> 0]
    /\ eval = IdleEval

StartEval ==
    /\ eval.pc = "idle"
    /\ eval' = NextRule({r \in Apps : rule[r] = "enabled"})
    /\ UNCHANGED <<rule, alerts>>

\* No sample in the last durationSeconds.
WindowEmpty(r) ==
    /\ eval.pc = "next"
    /\ r \in eval.todo
    /\ eval' = NextRule(eval.todo \ {r})
    /\ UNCHANGED <<rule, alerts>>

\* The latest sample decides, unless an event of the rule is unresolved.
Evaluate(r) ==
    /\ eval.pc = "next"
    /\ r \in eval.todo
    /\ eval' = IF metric[r] = "down" /\ alerts[r] = 0
                 THEN [pc |-> "fire", todo |-> eval.todo \ {r}, rule |-> r]
                 ELSE NextRule(eval.todo \ {r})
    /\ UNCHANGED <<rule, alerts>>

\* The event of a rule that was deleted is refused and the job fails.
Fire ==
    /\ eval.pc = "fire"
    /\ IF rule[eval.rule] = "deleted"
         THEN /\ eval' = IdleEval
              /\ UNCHANGED alerts
         ELSE /\ alerts' = [alerts EXCEPT ![eval.rule] = @ + 1]
              /\ eval' = NextRule(eval.todo)
    /\ UNCHANGED rule

CreateRule(r) ==
    /\ rule[r] = "unset"
    /\ rule' = [rule EXCEPT ![r] = "enabled"]
    /\ UNCHANGED <<alerts, eval>>

UpdateRule(r) ==
    /\ rule[r] \in {"disabled", "enabled"}
    /\ \E s \in {"disabled", "enabled"} \ {rule[r]} : rule' = [rule EXCEPT ![r] = s]
    /\ UNCHANGED <<alerts, eval>>

\* The events of the rule are deleted with it.
DeleteRule(r) ==
    /\ rule[r] \in {"disabled", "enabled"}
    /\ rule' = [rule EXCEPT ![r] = "deleted"]
    /\ alerts' = [alerts EXCEPT ![r] = 0]
    /\ UNCHANGED eval

CrashEval ==
    /\ eval' = IdleEval
    /\ UNCHANGED <<rule, alerts>>

=============================================================================
