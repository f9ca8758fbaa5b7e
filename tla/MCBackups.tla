----------------------------- MODULE MCBackups -----------------------------
(***************************************************************************)
(* Backups for TLC.                                                        *)
(***************************************************************************)
EXTENDS Backups

CONSTANTS s1, u1

NoConfigs == {}
OneConfig == {s1}
OneUser == {u1}
AllKinds == {"adhoc", "strategy", "full"}
StrategyOnly == {"strategy"}
FullOnly == {"full"}
ZeroLimit == {0}
OneLimit == {1}
ZeroOrOne == {0, 1}

=============================================================================
