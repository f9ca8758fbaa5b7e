----------------------------- MODULE Monitoring -----------------------------
(***************************************************************************)
(* The health probes, the alert rules and the supervisor of one API        *)
(* process over the same applications: three queues with one worker each,  *)
(* interleaved.  They meet in the application (proc), which the supervisor *)
(* restarts and the probes look at, in the samples the probes write and    *)
(* the alert rules read, and in the process, whose crash takes all three.  *)
(***************************************************************************)
EXTENDS Alerts, Supervisor

vars == <<hostVars, healthVars, alertVars, supVars>>

Init ==
    /\ HostInit
    /\ HealthInit
    /\ AlertInit
    /\ SupInit

\* The three queues.  Only a restart touches the application.
Probes == StartProbe \/ ProbeStep
Evaluations ==
    \/ StartEval
    \/ \E r \in Apps : WindowEmpty(r) \/ Evaluate(r)
    \/ Fire
Checks ==
    \/ StartRound
    \/ \E c \in Checkers :
          \/ \E a \in Apps : CheckRule(c, a)
          \/ Look(c)
          \/ CommandFails(c)

Work ==
    \/ Probes /\ UNCHANGED <<hostVars, alertVars, supVars>>
    \/ Evaluations /\ UNCHANGED <<hostVars, healthVars, supVars>>
    \/ Checks /\ UNCHANGED <<hostVars, healthVars, alertVars>>
    \/ /\ \E c \in Checkers : Restart(c)
       /\ UNCHANGED <<faults, healthVars, alertVars>>

Edit ==
    /\ Misfortune
    /\ UNCHANGED proc
    /\ \/ /\ \E a \in Apps : RemoveApp(a) \/ EditUrl(a) \/ Expire(a)
          /\ UNCHANGED <<alertVars, supVars>>
       \/ /\ \E r \in Apps : CreateRule(r) \/ UpdateRule(r) \/ DeleteRule(r)
          /\ UNCHANGED <<healthVars, supVars>>
       \/ /\ \E a \in Apps : SetSupervision(a) \/ DeleteSupervision(a)
          /\ UNCHANGED <<healthVars, alertVars>>

Crash ==
    /\ Misfortune
    /\ CrashProbe
    /\ CrashEval
    /\ CrashChecks

Weather ==
    /\ \E a \in Apps :
          \/ Outage(a) /\ UNCHANGED supVars
          \/ Repaired(a) /\ StartedElsewhere(a)
    /\ UNCHANGED <<healthVars, alertVars>>

\* What was removed comes back: no fault of its own, the removal was one.
Recreate ==
    /\ \E a \in Apps : CreateApp(a)
    /\ UNCHANGED <<hostVars, alertVars, supVars>>

Next == Work \/ Edit \/ Crash \/ Weather \/ Recreate

\* The repeatable jobs fire every minute and every call returns.  A sample
\* is recent enough again and again (durationSeconds is 60 by default, as is
\* the time between probes), and commands do not fail for ever.
Fairness ==
    /\ WF_vars(Probes /\ UNCHANGED <<hostVars, alertVars, supVars>>)
    /\ WF_vars(Evaluations /\ UNCHANGED <<hostVars, healthVars, supVars>>)
    /\ \A r \in Apps :
          SF_vars(Evaluate(r) /\ UNCHANGED <<hostVars, healthVars, supVars>>)
    /\ WF_vars(StartRound /\ UNCHANGED <<hostVars, healthVars, alertVars>>)
    /\ \A a \in Apps :
          WF_vars(CheckRule(Timer, a) /\ UNCHANGED <<hostVars, healthVars, alertVars>>)
    /\ \A c \in Checkers :
          /\ SF_vars(Look(c) /\ UNCHANGED <<hostVars, healthVars, alertVars>>)
          /\ SF_vars(Restart(c) /\ UNCHANGED <<faults, healthVars, alertVars>>)

Spec == Init /\ [][Next]_vars /\ Fairness

-----------------------------------------------------------------------------

\* Type invariant of the four modules together.
TypeOK ==
    /\ HostTypeOK
    /\ HealthTypeOK
    /\ AlertTypeOK
    /\ SupTypeOK

\* An application never has two unresolved incidents, whatever crashes and
\* edits come between findFirst and create in trackIncident: GET /status and
\* the resolution both take one and would leave the other open for ever.
OneOpenIncident == \A a \in Apps : open[a] <= 1

\* An incident takes three failed probes with no success among them, and it is
\* the last of them that opens it.  The counter in Redis outlives the process
\* and the row: a crash, a pause or a new application of the same name may lie
\* in between.
IncidentNeedsThree ==
    [][\A a \in Apps : open'[a] > open[a] => streak[a] >= DownAfter]_vars

\* A rule has at most one unresolved event: evaluateRule skips a rule that has
\* one, also when a crash hands the same job out again.
OneOpenAlert == \A r \in Apps : alerts[r] <= 1

\* An application that is well for good is shown UP for good: its incident is
\* resolved even if the process died between storing the success and doing so.
RecoveryShown ==
    \A a \in Apps :
        <>[](Answers(a) /\ app[a] = "watched") => <>[](ShownStatus(a) = "UP")

\* A rule on an application that is down for good has an event in the end, because
\* the probes go on writing samples that say so.  It may be of an earlier outage:
\* a rule with an event does not fire again (EveryOutageAlerts).
AlertFires ==
    \A a \in Apps :
        <>[](~Answers(a) /\ app[a] = "watched" /\ rule[a] = "enabled") => <>(alerts[a] > 0)

Supervised(a) == sup[a].enabled /\ sup[a].auto /\ Kind[a] # "SYSTEMD"

\* An application with a restart rule runs again and is shown as UP, after it
\* stopped: commands that fail, restarts that are requested twice and a crash
\* between check and restart included.  One that hangs is running to the
\* supervisor, is never restarted and need not come back.
SupervisedSettles ==
    \A a \in Apps :
        <>[](app[a] = "watched" /\ Supervised(a)) =>
            <>[](proc[a] = "hung" \/ (Answers(a) /\ ShownStatus(a) = "UP"))

\* checkRule looks and then restarts: what it restarts does not run, unless
\* another check of the application (on request, or the worker's) ran at the same
\* time or somebody else started it.
RestartIsNeeded ==
    \A c \in Checkers :
        check[c].pc = "restart" /\ c \notin shared => ~Runs(check[c].app)

\* docs/MONITORING.md: "If the health check fails: ... An incident is created
\* automatically".
OutageGetsIncident ==
    \A a \in Apps :
        <>[](~Answers(a) /\ app[a] = "watched") => <>[](open[a] > 0)

\* The same page: "If the health check fails: ... Alert rules fire (if
\* configured)", also when the application was well since the first time.
EveryOutageAlerts ==
    \A a \in Apps :
        [](/\ metric[a] = "up" /\ alerts[a] = 1
           /\ <>[](~Answers(a) /\ app[a] = "watched" /\ rule[a] = "enabled")
           => <>(alerts[a] = 2))

=============================================================================
