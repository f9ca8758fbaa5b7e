----------------------------- MODULE MCCronJobs -----------------------------
(***************************************************************************)
(* CronJobs for TLC: two requests at a time, jobs on the ops server or on  *)
(* one managed server.  The run has two jobs and two expressions that are  *)
(* accepted (a refused one only lets Throw be the one thing that happens); *)
(* the two runs of what the code's comments say need one job only, and     *)
(* have a refused expression.                                              *)
(***************************************************************************)
EXTENDS CronJobs, TLC

CONSTANTS u1, u2, i1, i2, s1, e1, e2, bad, c1, c2

TwoRequesters == {u1, u2}
TwoIds == {i1, i2}
OneId == {i1}
OneServer == {s1}
TwoExprs == {e1, e2}
NoExpr == {}
ThreeExprs == {e1, e2, bad}
OneBadExpr == {bad}
TwoCmds == {c1, c2}

\* Enabled, with an accepted expression.
SomeCreates == {r \in Row : r.state = "there" /\ r.expr = e1 /\ r.cmd = c1 /\ r.enabled = "on"}

\* One field: another expression, another command, or the switch.
SomeEdits == {x \in Edit : /\ x.expr # e1 /\ x.cmd # c1
                         /\ \E f \in DOMAIN x : \A g \in DOMAIN x : x[g] # Keep <=> g = f}

Same == Permutations(TwoRequesters) \cup Permutations(TwoIds)

=============================================================================
