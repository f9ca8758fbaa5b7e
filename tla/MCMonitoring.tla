---------------------------- MODULE MCMonitoring ----------------------------
(***************************************************************************)
(* Instances of Monitoring for TLC.                                        *)
(***************************************************************************)
EXTENDS Monitoring

CONSTANTS a1, timer, r1

OnePm2 == [a \in {a1} |-> "PM2"]

=============================================================================
