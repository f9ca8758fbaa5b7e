------------------------------ MODULE MCDeploy ------------------------------
(***************************************************************************)
(* Deploy for TLC: one default application, and users who roll it back     *)
(* next to the automatic rollbacks.                                        *)
(***************************************************************************)
EXTENDS Deploy

CONSTANTS a1, u1, u2, c1

OneApp == {a1}
TwoUsers == {u1, u2}
MCCommits == {c1}
AnyRecord == {"SUCCESS", "IN_PROGRESS"}

=============================================================================
