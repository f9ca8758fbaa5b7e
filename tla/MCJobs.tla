------------------------------- MODULE MCJobs -------------------------------
(***************************************************************************)
(* Jobs for TLC: one workspace and one playbook, two entries of any kind.  *)
(***************************************************************************)
EXTENDS Jobs

CONSTANTS w1, p1

OneWorkspace == {w1}
OnePlaybook == {p1}
SomeKinds == <<{"terraform", "ansible", "login build"}, {"terraform", "remote build"}>>

=============================================================================
