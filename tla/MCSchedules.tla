---------------------------- MODULE MCSchedules ----------------------------
(***************************************************************************)
(* Schedules for TLC: an application schedule and a backup strategy, two   *)
(* patterns that can be parsed and one that cannot, two requests.          *)
(***************************************************************************)
EXTENDS Schedules

CONSTANTS s1, t1, k1, k2, bad, r1, r2

OneAppSchedule == {s1}
OneStrategy == {t1}
OneBadCron == {bad}
MCCrons == {k1, k2, bad}
TwoCallers == {r1, r2}

=============================================================================
