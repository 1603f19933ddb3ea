---------------------------- MODULE MCBatchFlowFIFO ----------------------------
(* The refinement of SchemaFIFO by BatchFlow on the instance of            *)
(* MCBatchFlow.                                                            *)
EXTENDS MCBatchFlow, BatchFlowFIFO
=============================================================================
