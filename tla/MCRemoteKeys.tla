---------------------------- MODULE MCRemoteKeys ----------------------------
(***************************************************************************)
(* RemoteKeys for TLC: two servers, two keys, two executions.              *)
(***************************************************************************)
EXTENDS RemoteKeys, TLC

CONSTANTS s1, s2, k1, k2, e1, e2

TwoServers == {s1, s2}
OneServer == {s1}
TwoKeys == {k1, k2}
OneKey == {k1}
TwoExecs == {e1, e2}
Symmetry == Permutations(TwoServers) \cup Permutations(TwoKeys)
              \cup Permutations(TwoExecs)

=============================================================================
