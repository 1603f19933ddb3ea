------------------------------ MODULE MCBatchFlow ------------------------------
(* BatchFlow on a small instance: three valid requests over two schemas    *)
(* (two of them share schema s1, so order within a group is observable)    *)
(* and one request that fails validation.                                  *)
EXTENDS BatchFlow, TLC

CONSTANTS r1, r2, r3, r4, s1, s2

MCRequests == {r1, r2, r3, r4}
MCSchemas == {s1, s2}
MCSchemaOf == (r1 :> s1) @@ (r2 :> s2) @@ (r3 :> s1) @@ (r4 :> s2)
MCInvalid == {r4}
=============================================================================
