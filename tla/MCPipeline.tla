----------------------------- MODULE MCPipeline -----------------------------
(***************************************************************************)
(* Pipeline for TLC: the two step lists of toStepNames, two pipelines or   *)
(* one.                                                                    *)
(***************************************************************************)
EXTENDS Pipeline

CONSTANTS p1, p2

OnePipeline == {p1}
TwoPipelines == {p1, p2}
BothLists == {{"deploy", "verify"}, {"build", "push", "deploy", "verify"}}
FullList == {{"build", "push", "deploy", "verify"}}

=============================================================================
