-------------------------- MODULE MCSubscriptions --------------------------
(***************************************************************************)
(* Subscriptions for TLC: two sockets, a container and a process.          *)
(***************************************************************************)
EXTENDS Subscriptions, TLC

CONSTANTS c1, c2, d1, p1

TwoClients == {c1, c2}
OneContainer == {d1}
AllAndOne == {All, p1}
ClientSymmetry == Permutations(TwoClients)

=============================================================================
