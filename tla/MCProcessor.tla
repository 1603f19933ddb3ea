------------------------------ MODULE MCProcessor ------------------------------
(* The processors on a small instance: three concurrent calls under one    *)
(* outer context, each with its own timeout.                               *)
EXTENDS Processor, TLC

CONSTANTS c1, c2, c3

MCCalls == {c1, c2, c3}
MCSymmetry == Permutations(MCCalls)
=============================================================================
