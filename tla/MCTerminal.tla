----------------------------- MODULE MCTerminal -----------------------------
(***************************************************************************)
(* Instances of Terminal for TLC.                                          *)
(***************************************************************************)
EXTENDS Terminal

CONSTANTS t1, t2

=============================================================================
