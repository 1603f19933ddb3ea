-------------------------- MODULE MCBatchFlowReporting --------------------------
(* BatchFlowReporting on the instance of MCBatchFlow, with an error        *)
(* channel of one slot, so that a second failed flush finds it full.       *)
EXTENDS BatchFlowReporting, TLC

CONSTANTS r1, r2, r3, r4, s1, s2

MCRequests == {r1, r2, r3, r4}
MCSchemas == {s1, s2}
MCSchemaOf == (r1 :> s1) @@ (r2 :> s2) @@ (r3 :> s1) @@ (r4 :> s2)
MCInvalid == {r4}
=============================================================================
