------------------------------- MODULE Processor -------------------------------
(***************************************************************************)
(* The batch processors of src/processor.go: SQLBatchProcessor and        *)
(* RedisBatchProcessor, each called by several flushes at once (one call  *)
(* per ExecuteBatch attempt) under the same outer context.                *)
(*                                                                         *)
(* A call runs GenerateOperations and then ExecuteOperations.  When a      *)
(* timeout is configured, ExecuteOperations derives a child context whose *)
(* own timer carries the "execute batch timeout" cause; the outer context *)
(* may be cancelled or reach its deadline at any moment.  Drivers and the *)
(* database or Redis round trip are not code of this repository: what     *)
(* they return is a nondeterministic choice among what they may return.   *)
(***************************************************************************)
EXTENDS Naturals

CONSTANTS
    Calls,      \* concurrent processor calls (one per ExecuteBatch attempt)
    Backend,    \* "sql" (SQLBatchProcessor) or "redis" (RedisBatchProcessor)
    TimeoutSet, \* bp.timeout > 0
    MaxOps      \* most Redis commands a group turns into

ASSUME ProcessorAssumption ==
    /\ Backend \in {"sql", "redis"}
    /\ TimeoutSet \in BOOLEAN
    /\ MaxOps \in Nat \ {0}

(* The cause of a done context: the outer context's own, or the sentinel   *)
(* "execute batch timeout" of the processor's child context.               *)
Causes == {"none", "Canceled", "DeadlineExceeded", "sentinel"}

(* What a call returns.  "sentinel" is the errors.New("execute batch       *)
(* timeout") value the executor's classifier maps to processor_timeout.   *)
Results == {"pending", "nil", "Canceled", "DeadlineExceeded", "sentinel",
            "schemaMismatch", "driverErr", "emptyOps", "dbErr", "cmdErr"}

(* Program points of a call.                                               *)
Pcs == {"generate", "execute", "exec_io", "loop", "done"}

VARIABLES
    outerCause, \* context.Cause of the outer ctx: "none" while it is live
    timedOut,   \* per call: the child ctx's own timer fired first
    schemaOK,   \* per call: the schema has the variant the processor asserts
    pc,         \* per call: where it is
    ops,        \* per call: len(operations)
    queued,     \* per call: Redis commands added to the pipeline so far
    ret         \* per call: what it returned

vars == <<outerCause, timedOut, schemaOK, pc, ops, queued, ret>>

-----------------------------------------------------------------------------
(* context.Cause of the ctx call c runs under.                             *)
CauseOf(c) == IF timedOut[c] THEN "sentinel" ELSE outerCause

(* ctx.Err() of a done context: Canceled for a cancelled outer ctx,        *)
(* DeadlineExceeded for an expired deadline, the child's own included.     *)
CtxErr(cause) == IF cause = "Canceled" THEN "Canceled" ELSE "DeadlineExceeded"

(* What a driver, a database or Redis call may return to call c: success, *)
(* its own error e, or the ctx's error once the ctx is done.               *)
IoResults(c, e) ==
    {"nil", e} \cup (IF CauseOf(c) = "none" THEN {} ELSE {CtxErr(CauseOf(c))})

(* Mutant of Surface: the processor returns the driver's error as it is.   *)
SurfaceRaw(c, err) == err

(* Mutant of Surface: every deadline is taken for the processor's own.     *)
SurfaceAlwaysSentinel(c, err) ==
    IF err = "DeadlineExceeded" /\ TimeoutSet THEN "sentinel" ELSE err

(* errors.Is(err, context.DeadlineExceeded): return context.Cause(ctx)     *)
(* instead when it is non-nil, otherwise err.                              *)
Surface(c, err) ==
    IF err = "DeadlineExceeded" /\ CauseOf(c) # "none" THEN CauseOf(c) ELSE err

(* Call c ends with result r.                                              *)
Return(c, r) ==
    /\ ret' = [ret EXCEPT ![c] = r]
    /\ pc' = [pc EXCEPT ![c] = "done"]

-----------------------------------------------------------------------------
Init ==
    /\ outerCause = "none"
    /\ timedOut = [c \in Calls |-> FALSE]
    /\ schemaOK \in [Calls -> BOOLEAN]
    /\ pc = [c \in Calls |-> "generate"]
    /\ ops = [c \in Calls |-> 0]
    /\ queued = [c \in Calls |-> 0]
    /\ ret = [c \in Calls |-> "pending"]

(* len(operations) after the driver succeeded: the SQL string followed by *)
(* its arguments as one operation, or one operation per Redis command.     *)
OpCounts == IF Backend = "sql" THEN {1} ELSE 1..MaxOps

(* GenerateOperations: the schema type assertion, then the driver, whose   *)
(* SQL is one statement followed by its arguments (len >= 1) and whose    *)
(* Redis output is one command per tuple.                                  *)
GenerateOperations(c) ==
    /\ pc[c] = "generate"
    /\ IF ~schemaOK[c]
       THEN Return(c, "schemaMismatch") /\ UNCHANGED ops
       ELSE \E r \in IoResults(c, "driverErr") :
              IF r # "nil"
              THEN Return(c, r) /\ UNCHANGED ops
              ELSE /\ \E n \in OpCounts :
                        ops' = [ops EXCEPT ![c] = n]
                   /\ pc' = [pc EXCEPT ![c] = "execute"]
                   /\ UNCHANGED ret
    /\ UNCHANGED <<outerCause, timedOut, schemaOK, queued>>

(* SQLBatchProcessor.ExecuteOperations up to ExecContext: derive the child *)
(* ctx, reject empty operations (operations[0] is always the SQL string). *)
SQLExecute(c) ==
    /\ Backend = "sql"
    /\ pc[c] = "execute"
    /\ IF ops[c] < 1 THEN Return(c, "emptyOps")
       ELSE pc' = [pc EXCEPT ![c] = "exec_io"] /\ UNCHANGED ret
    /\ UNCHANGED <<outerCause, timedOut, schemaOK, ops, queued>>

(* ExecContext returns; a deadline error is replaced by the ctx's cause.   *)
SQLExecContext(c) ==
    /\ pc[c] = "exec_io"
    /\ \E r \in IoResults(c, "dbErr") : Return(c, Surface(c, r))
    /\ UNCHANGED <<outerCause, timedOut, schemaOK, ops, queued>>

(* RedisBatchProcessor.ExecuteOperations: derive the child ctx and start   *)
(* the enqueue loop.                                                       *)
RedisExecute(c) ==
    /\ Backend = "redis"
    /\ pc[c] = "execute"
    /\ pc' = [pc EXCEPT ![c] = "loop"]
    /\ UNCHANGED <<outerCause, timedOut, schemaOK, ops, queued, ret>>

(* Mutant of RedisEnqueue: the loop runs past the last operation.         *)
RedisEnqueueUnbounded(c) ==
    /\ pc[c] = "loop"
    /\ IF CauseOf(c) # "none"
       THEN Return(c, CtxErr(CauseOf(c))) /\ UNCHANGED queued
       ELSE queued' = [queued EXCEPT ![c] = @ + 1] /\ UNCHANGED <<pc, ret>>
    /\ UNCHANGED <<outerCause, timedOut, schemaOK, ops>>

(* One iteration of the enqueue loop: a done ctx ends the call with        *)
(* ctx.Err(), otherwise the command joins the pipeline.                    *)
RedisEnqueue(c) ==
    /\ pc[c] = "loop"
    /\ queued[c] < ops[c]
    /\ IF CauseOf(c) # "none"
       THEN Return(c, CtxErr(CauseOf(c))) /\ UNCHANGED queued
       ELSE queued' = [queued EXCEPT ![c] = @ + 1] /\ UNCHANGED <<pc, ret>>
    /\ UNCHANGED <<outerCause, timedOut, schemaOK, ops>>

(* pipeline.Exec: it returns the first failed command's error, which is    *)
(* surfaced like ExecContext's; on success no command failed, so the join *)
(* of the commands' errors is nil.                                         *)
RedisExec(c) ==
    /\ pc[c] = "loop"
    /\ queued[c] = ops[c]
    /\ \E r \in IoResults(c, "cmdErr") : Return(c, Surface(c, r))
    /\ UNCHANGED <<outerCause, timedOut, schemaOK, ops, queued>>

(* The child ctx's timer fires while ExecuteOperations runs (it only       *)
(* carries the sentinel when the outer ctx was still live).                *)
ChildTimeout(c) ==
    /\ TimeoutSet
    /\ pc[c] \in {"exec_io", "loop"}
    /\ outerCause = "none"
    /\ ~timedOut[c]
    /\ timedOut' = [timedOut EXCEPT ![c] = TRUE]
    /\ UNCHANGED <<outerCause, schemaOK, pc, ops, queued, ret>>

(* The outer ctx is cancelled or reaches its deadline.                     *)
OuterDone ==
    /\ outerCause = "none"
    /\ \E cause \in {"Canceled", "DeadlineExceeded"} : outerCause' = cause
    /\ UNCHANGED <<timedOut, schemaOK, pc, ops, queued, ret>>

(* Every call has returned.                                                *)
Finished ==
    /\ \A c \in Calls : pc[c] = "done"
    /\ UNCHANGED vars

Next ==
    \/ \E c \in Calls :
          \/ GenerateOperations(c) \/ SQLExecute(c) \/ SQLExecContext(c)
          \/ RedisExecute(c) \/ RedisEnqueue(c) \/ RedisExec(c)
          \/ ChildTimeout(c)
    \/ OuterDone
    \/ Finished

Spec == Init /\ [][Next]_vars

-----------------------------------------------------------------------------
(* Type invariant.                                                         *)
TypeOK ==
    /\ outerCause \in Causes \ {"sentinel"}
    /\ timedOut \in [Calls -> BOOLEAN]
    /\ schemaOK \in [Calls -> BOOLEAN]
    /\ pc \in [Calls -> Pcs]
    /\ ops \in [Calls -> 0..MaxOps]
    /\ queued \in [Calls -> 0..MaxOps]
    /\ ret \in [Calls -> Results]

(* Spec 4.4: a call that ends on a context error returns the sentinel      *)
(* exactly when its own timeout expired first, so the executor's          *)
(* classifier retries a processor timeout (processor_timeout) and gives   *)
(* up on an outer cancellation or deadline (context).                      *)
TimeoutCauseSurfaced ==
    \A c \in Calls :
        pc[c] = "done" /\ ret[c] \in {"Canceled", "DeadlineExceeded", "sentinel"}
        => (ret[c] = "sentinel" <=> CauseOf(c) = "sentinel")

(* The sentinel is returned only by a call whose own timeout expired while *)
(* the outer ctx was live: an outer cancellation or deadline that reaches  *)
(* ExecContext or pipeline.Exec is never reported as a retryable          *)
(* processor timeout, whichever order the timers fire in.                  *)
SentinelOnlyOwnTimeout ==
    \A c \in Calls : pc[c] = "done" /\ ret[c] = "sentinel" => timedOut[c]

=============================================================================
