------------------------------ MODULE BatchFlowFIFO ------------------------------
(***************************************************************************)
(* BatchFlow implements SchemaFIFO.  The abstract queue of a schema is     *)
(* read off the engine: the requests of that schema in the running flush's *)
(* groups that were not processed yet, then in the loop's batch, then in   *)
(* the data channel, each in its order.  Every Submit send is an Accept;   *)
(* every flushFunc step that executes a group, fails or gives up resolves  *)
(* a prefix of some queues; every other step leaves the queues alone.      *)
(*                                                                         *)
(* NewBatchFlow passes no concurrency setting to go-pipeline, whose        *)
(* default runs one flush at a time (spec 4.1); the mapping reads the one  *)
(* running flush.                                                          *)
(***************************************************************************)
EXTENDS BatchFlow

ASSUME OneFlushAtATime == MaxConcurrentFlushes = 1

(* SchemaFIFO bounds a cut by the number of requests, of which there are   *)
(* finitely many.                                                          *)
ASSUME FiniteRequests == IsFiniteSet(Requests)

(* The requests of schema s in sequence q, in order: the k-th is the one  *)
(* of row index k (the index flushFunc's assembly gives it in its group).  *)
OfSchema(q, s) ==
    [k \in 1..Cardinality(GroupIdx(q, s)) |->
        q[CHOOSE i \in GroupIdx(q, s) : RowIdx(q, s, i) = k]]

(* Requests of schema s the running flush has not reached yet.             *)
FlightPending(s) ==
    IF flights = {} THEN <<>>
    ELSE LET f == CHOOSE g \in flights : TRUE
         IN  IF s \in f.todo THEN OfSchema(f.batch, s) ELSE <<>>

(* The refinement mapping: the abstract queue of each schema.              *)
QueueOf == [s \in Schemas |->
                FlightPending(s) \o OfSchema(batchData, s) \o OfSchema(dataChan, s)]

FIFO == INSTANCE SchemaFIFO WITH queue <- QueueOf

(* BatchFlow resolves the accepted requests of each schema in the order    *)
(* Submit put them into the data channel, and never resolves one it did    *)
(* not accept or resolves one twice: every behaviour of the engine,        *)
(* through the loop's receive, batch cuts, shutdown drain and flushFunc's  *)
(* map-ordered groups and early error return, is a behaviour of the       *)
(* per-schema FIFO.                                                         *)
FIFOSpec == FIFO!Spec

=============================================================================
