------------------------------- MODULE BatchFlow -------------------------------
(***************************************************************************)
(* The ingestion path of BatchFlow (src/batchflow.go): concurrent          *)
(* submitters calling Submit, the goroutine that latches `closed` when     *)
(* the engine's lifecycle context is cancelled, the go-pipeline flush loop *)
(* that moves requests from the bounded data channel into a batch and      *)
(* dispatches flushes, and flushFunc, which groups a batch by schema and   *)
(* hands each group to BatchExecutor.ExecuteBatch.                         *)
(*                                                                         *)
(* go-pipeline is a dependency, not code of this repository: its loop is   *)
(* modelled from the spec (section 4.1).  ExecuteBatch is one atomic step  *)
(* that succeeds or fails; the Executor module refines it.                 *)
(***************************************************************************)
EXTENDS Naturals, Sequences, FiniteSets

CONSTANTS
    Requests,             \* the requests, one submitter goroutine each
    Schemas,              \* schema identities (the keys of schemaGroups)
    SchemaOf,             \* request.Schema()
    Invalid,              \* requests Submit rejects by validation
    BufferSize,           \* capacity of the pipeline's data channel
    FlushSize,            \* batch size that triggers a flush
    MaxConcurrentFlushes  \* flushFunc invocations that may run at once

ASSUME ConstantsAssumption ==
    /\ SchemaOf \in [Requests -> Schemas]
    /\ Invalid \subseteq Requests
    /\ BufferSize \in Nat \ {0}
    /\ FlushSize \in Nat \ {0}
    /\ MaxConcurrentFlushes \in Nat \ {0}

(* Where a Submit call is: not yet called, blocked in its select on the    *)
(* data channel, or returned with nil or with one of its errors.           *)
SubmitStates == {"idle", "sending", "ok", "ctxErr", "closedErr", "invalidErr"}

(* What became of an accepted request: not yet handed on, part of a group  *)
(* whose ExecuteBatch returned nil or an error, or part of a group the     *)
(* flush gave up on before calling ExecuteBatch.                           *)
Outcomes == {"none", "executed", "failed", "abandoned"}

VARIABLES
    engineCtxDone,   \* the ctx given to NewBatchFlow is cancelled
    closed,          \* BatchFlow.closed
    submitCtxDone,   \* per request: the ctx given to its Submit is cancelled
    submit,          \* per request: where its Submit call is
    dataChan,        \* the pipeline's buffered data channel
    batchData,       \* the flush loop's current batch
    loop,            \* the flush loop goroutine: "running" or "stopped"
    flights,         \* running flushFunc calls: the batch, groups still to do
    outcome,         \* per request: what became of it
    sent,            \* history: requests in the order they entered dataChan
    calls,           \* history: number of ExecuteBatch calls made
    stamps           \* history: per request, <<call, index in its batch>> of
                     \* every ExecuteBatch call that received it as a row

vars == <<engineCtxDone, closed, submitCtxDone, submit, dataChan, batchData,
          loop, flights, outcome, sent, calls, stamps>>

Flight == [batch : Seq(Requests), todo : SUBSET Schemas]

-----------------------------------------------------------------------------
(* schemaGroups[schema] as the positions in batch b of the requests of     *)
(* schema s: the rows ExecuteBatch receives, in increasing position.       *)
GroupIdx(b, s) == {i \in DOMAIN b : SchemaOf[b[i]] = s}

(* The keys of schemaGroups built from a batch.                            *)
GroupKeys(b) == {SchemaOf[b[i]] : i \in DOMAIN b}

(* Requests of a flight in groups that were not yet processed.             *)
Pending(f) == {f.batch[i] : i \in UNION {GroupIdx(f.batch, s) : s \in f.todo}}

(* The outcome o recorded for the requests in S.                           *)
Mark(S, o) == [r \in Requests |-> IF r \in S THEN o ELSE outcome[r]]

(* Start a flushFunc call on batch b (the pipeline's asynchronous flush).  *)
Dispatch(b) ==
    /\ Cardinality(flights) < MaxConcurrentFlushes
    /\ flights' = flights \cup {[batch |-> b, todo |-> GroupKeys(b)]}

-----------------------------------------------------------------------------
Init ==
    /\ engineCtxDone \in BOOLEAN
    /\ closed = FALSE
    /\ submitCtxDone = [r \in Requests |-> FALSE]
    /\ submit = [r \in Requests |-> "idle"]
    /\ dataChan = <<>>
    /\ batchData = <<>>
    /\ loop = "running"
    /\ flights = {}
    /\ outcome = [r \in Requests |-> "none"]
    /\ sent = <<>>
    /\ calls = 0
    /\ stamps = [r \in Requests |-> {}]

(* Submit up to its select: the submit ctx, then `closed`, then the        *)
(* request's validation, each an early return.                             *)
SubmitCheck(r) ==
    /\ submit[r] = "idle"
    /\ submit' = [submit EXCEPT ![r] =
                    IF submitCtxDone[r] THEN "ctxErr"
                    ELSE IF closed THEN "closedErr"
                    ELSE IF r \in Invalid THEN "invalidErr"
                    ELSE "sending"]
    /\ UNCHANGED <<engineCtxDone, closed, submitCtxDone, dataChan, batchData,
                   loop, flights, outcome, sent, calls, stamps>>

(* Mutant of SubmitSend: the send ignores the channel's capacity.          *)
SubmitSendUnbounded(r) ==
    /\ submit[r] = "sending"
    /\ dataChan' = Append(dataChan, r)
    /\ sent' = Append(sent, r)
    /\ submit' = [submit EXCEPT ![r] = "ok"]
    /\ UNCHANGED <<engineCtxDone, closed, submitCtxDone, batchData, loop,
                   flights, outcome, calls, stamps>>

(* The select's send case: the channel has room.                           *)
SubmitSend(r) ==
    /\ submit[r] = "sending"
    /\ Len(dataChan) < BufferSize
    /\ dataChan' = Append(dataChan, r)
    /\ sent' = Append(sent, r)
    /\ submit' = [submit EXCEPT ![r] = "ok"]
    /\ UNCHANGED <<engineCtxDone, closed, submitCtxDone, batchData, loop,
                   flights, outcome, calls, stamps>>

(* The select's ctx.Done() case.                                           *)
SubmitCancelled(r) ==
    /\ submit[r] = "sending"
    /\ submitCtxDone[r]
    /\ submit' = [submit EXCEPT ![r] = "ctxErr"]
    /\ UNCHANGED <<engineCtxDone, closed, submitCtxDone, dataChan, batchData,
                   loop, flights, outcome, sent, calls, stamps>>

(* The caller cancels the ctx of a Submit call that has not returned.      *)
CancelSubmitCtx(r) ==
    /\ submit[r] \in {"idle", "sending"}
    /\ ~submitCtxDone[r]
    /\ submitCtxDone' = [submitCtxDone EXCEPT ![r] = TRUE]
    /\ UNCHANGED <<engineCtxDone, closed, submit, dataChan, batchData, loop,
                   flights, outcome, sent, calls, stamps>>

(* The owner cancels the engine's lifecycle context.                       *)
CancelEngineCtx ==
    /\ ~engineCtxDone
    /\ engineCtxDone' = TRUE
    /\ UNCHANGED <<closed, submitCtxDone, submit, dataChan, batchData, loop,
                   flights, outcome, sent, calls, stamps>>

(* The goroutine of NewBatchFlow that waits on ctx.Done() and sets closed. *)
LatchClosed ==
    /\ engineCtxDone
    /\ ~closed
    /\ closed' = TRUE
    /\ UNCHANGED <<engineCtxDone, submitCtxDone, submit, dataChan, batchData,
                   loop, flights, outcome, sent, calls, stamps>>

-----------------------------------------------------------------------------
(* The flush loop takes a request off the channel (its select may pick     *)
(* this case even after the lifecycle ctx is done).                        *)
Receive ==
    /\ loop = "running"
    /\ dataChan # <<>>
    /\ Len(batchData) < FlushSize
    /\ batchData' = Append(batchData, Head(dataChan))
    /\ dataChan' = Tail(dataChan)
    /\ UNCHANGED <<engineCtxDone, closed, submitCtxDone, submit, loop,
                   flights, outcome, sent, calls, stamps>>

(* The batch reached FlushSize: flush it and start a new one.              *)
FlushOnSize ==
    /\ loop = "running"
    /\ Len(batchData) = FlushSize
    /\ Dispatch(batchData)
    /\ batchData' = <<>>
    /\ UNCHANGED <<engineCtxDone, closed, submitCtxDone, submit, dataChan,
                   loop, outcome, sent, calls, stamps>>

(* FlushInterval elapsed with a non-empty batch (an empty tick is a no-op). *)
FlushOnTick ==
    /\ loop = "running"
    /\ batchData # <<>>
    /\ Len(batchData) < FlushSize
    /\ Dispatch(batchData)
    /\ batchData' = <<>>
    /\ UNCHANGED <<engineCtxDone, closed, submitCtxDone, submit, dataChan,
                   loop, outcome, sent, calls, stamps>>

(* The lifecycle ctx is done: drain what is buffered, flush it once, exit. *)
Shutdown ==
    /\ loop = "running"
    /\ engineCtxDone
    /\ Len(batchData) < FlushSize
    /\ LET rest == batchData \o dataChan
       IN  IF rest = <<>> THEN UNCHANGED flights ELSE Dispatch(rest)
    /\ dataChan' = <<>>
    /\ batchData' = <<>>
    /\ loop' = "stopped"
    /\ UNCHANGED <<engineCtxDone, closed, submitCtxDone, submit, outcome,
                   sent, calls, stamps>>

-----------------------------------------------------------------------------
(* Index of the i-th request of batch b in the rows of its group s: the    *)
(* position data[i] the assembly loop gives it.                            *)
RowIdxReversed(b, s, i) == Cardinality({j \in GroupIdx(b, s) : j >= i})

RowIdx(b, s, i) == Cardinality({j \in GroupIdx(b, s) : j <= i})

(* Mutant of FlushAbort: the ctx check returns nil, so the batch's         *)
(* remaining groups are dropped without an error.                          *)
FlushAbortSilent(f) ==
    /\ engineCtxDone
    /\ flights' = flights \ {f}
    /\ UNCHANGED <<outcome, calls, stamps>>

(* Mutant of FlushAbort: the whole batch is reported abandoned, the       *)
(* groups already executed included.                                       *)
FlushAbortWholeBatch(f) ==
    /\ engineCtxDone
    /\ outcome' = Mark({f.batch[i] : i \in DOMAIN f.batch}, "abandoned")
    /\ flights' = flights \ {f}
    /\ UNCHANGED <<calls, stamps>>

(* ctx.Err() is set before a group is assembled: flushFunc returns it and  *)
(* the groups not processed yet are abandoned.                             *)
FlushAbort(f) ==
    /\ engineCtxDone
    /\ outcome' = Mark(Pending(f), "abandoned")
    /\ flights' = flights \ {f}
    /\ UNCHANGED <<calls, stamps>>

(* Mutant of FlushExecute: a group that succeeded stays to be done.        *)
FlushExecuteNoAdvance(f, s) ==
    LET idx  == GroupIdx(f.batch, s)
        rows == {f.batch[i] : i \in idx}
    IN  /\ calls' = calls + 1
        /\ stamps' = [r \in Requests |->
                        stamps[r] \cup {<<calls + 1, RowIdx(f.batch, s, i)>> :
                                          i \in {j \in idx : f.batch[j] = r}}]
        /\ outcome' = Mark(rows, "executed")
        /\ UNCHANGED flights

(* Mutant of FlushExecute: on an error the flush ends without reporting   *)
(* the groups it did not reach.                                            *)
FlushExecuteNoAbandon(f, s) ==
    LET idx  == GroupIdx(f.batch, s)
        rows == {f.batch[i] : i \in idx}
        rest == [batch |-> f.batch, todo |-> f.todo \ {s}]
    IN  /\ calls' = calls + 1
        /\ stamps' = [r \in Requests |->
                        stamps[r] \cup {<<calls + 1, RowIdx(f.batch, s, i)>> :
                                          i \in {j \in idx : f.batch[j] = r}}]
        /\ \/ /\ outcome' = Mark(rows, "executed")
              /\ flights' = IF rest.todo = {} THEN flights \ {f}
                            ELSE (flights \ {f}) \cup {rest}
           \/ /\ outcome' = Mark(rows, "failed")
              /\ flights' = flights \ {f}

(* Assemble the group's rows and call ExecuteBatch: on nil go on with the  *)
(* next group (the flush ends after the last); on an error return it, and *)
(* the groups not processed yet are abandoned with the batch.              *)
FlushExecute(f, s) ==
    LET idx  == GroupIdx(f.batch, s)
        rows == {f.batch[i] : i \in idx}
        rest == [batch |-> f.batch, todo |-> f.todo \ {s}]
    IN  /\ calls' = calls + 1
        /\ stamps' = [r \in Requests |->
                        stamps[r] \cup {<<calls + 1, RowIdx(f.batch, s, i)>> :
                                          i \in {j \in idx : f.batch[j] = r}}]
        /\ \/ /\ outcome' = Mark(rows, "executed")
              /\ flights' = IF rest.todo = {} THEN flights \ {f}
                            ELSE (flights \ {f}) \cup {rest}
           \/ /\ outcome' = [r \in Requests |->
                              IF r \in rows THEN "failed"
                              ELSE IF r \in Pending(rest) THEN "abandoned"
                              ELSE outcome[r]]
              /\ flights' = flights \ {f}

(* One iteration of flushFunc's range over schemaGroups, for the group of  *)
(* schema s (map order is arbitrary): the ctx check, then the group.       *)
FlushGroup(f, s) ==
    /\ s \in f.todo
    /\ FlushAbort(f) \/ FlushExecute(f, s)
    /\ UNCHANGED <<engineCtxDone, closed, submitCtxDone, submit, dataChan,
                   batchData, loop, sent>>

(* Every Submit has returned, no flush runs and the loop has nothing left  *)
(* it could take: the engine is idle (only empty ticks remain).            *)
Quiescent ==
    /\ \A r \in Requests : submit[r] \notin {"idle", "sending"}
    /\ flights = {}
    /\ loop = "stopped" \/ (dataChan = <<>> /\ batchData = <<>>)
    /\ UNCHANGED vars

Next ==
    \/ \E r \in Requests :
          \/ SubmitCheck(r) \/ SubmitSend(r) \/ SubmitCancelled(r)
          \/ CancelSubmitCtx(r)
    \/ CancelEngineCtx \/ LatchClosed
    \/ Receive \/ FlushOnSize \/ FlushOnTick \/ Shutdown
    \/ \E f \in flights, s \in Schemas : FlushGroup(f, s)
    \/ Quiescent

(* The flush loop, its ticker, the closed-latch goroutine, each running    *)
(* flushFunc and each Submit blocked in its select are goroutines that     *)
(* keep running (a channel serves its blocked senders in turn, so a send   *)
(* that is enabled again and again happens); calling Submit and cancelling *)
(* a context are the environment's choice and get no fairness.             *)
Fairness ==
    /\ \A r \in Requests : SF_vars(SubmitSend(r)) /\ WF_vars(SubmitCancelled(r))
    /\ WF_vars(Receive) /\ WF_vars(FlushOnSize) /\ WF_vars(FlushOnTick)
    /\ WF_vars(Shutdown) /\ WF_vars(LatchClosed)
    /\ WF_vars(\E f \in flights, s \in Schemas : FlushGroup(f, s))

Spec == Init /\ [][Next]_vars /\ Fairness

-----------------------------------------------------------------------------
(* Type invariant; the channel never holds more than BufferSize requests   *)
(* and a batch never more than FlushSize.                                  *)
TypeOK ==
    /\ engineCtxDone \in BOOLEAN
    /\ closed \in BOOLEAN
    /\ submitCtxDone \in [Requests -> BOOLEAN]
    /\ submit \in [Requests -> SubmitStates]
    /\ dataChan \in Seq(Requests) /\ Len(dataChan) <= BufferSize
    /\ batchData \in Seq(Requests) /\ Len(batchData) <= FlushSize
    /\ loop \in {"running", "stopped"}
    /\ flights \subseteq Flight
    /\ outcome \in [Requests -> Outcomes]
    /\ sent \in Seq(Requests)
    /\ calls \in Nat
    /\ stamps \in [Requests -> SUBSET (Nat \X Nat)]

(* Position of request r in the history h.                                 *)
Pos(h, r) == CHOOSE i \in DOMAIN h : h[i] = r

(* Stamp x is earlier than stamp y: an earlier call, or the same call and  *)
(* an earlier row.                                                         *)
Earlier(x, y) == x[1] < y[1] \/ (x[1] = y[1] /\ x[2] < y[2])

(* Rows of one schema reach ExecuteBatch in the order their Submit calls   *)
(* put them into the data channel: the loop's receive, the batch cut,      *)
(* flushFunc's grouping and the one-flush-at-a-time dispatch together      *)
(* keep the order that ReplaceConflict/UpdateConflict rely on.             *)
SchemaOrderPreserved ==
    \A r, q \in Requests :
        \A x \in stamps[r], y \in stamps[q] :
            /\ SchemaOf[r] = SchemaOf[q]
            /\ Earlier(x, y)
            => Pos(sent, r) < Pos(sent, q)

(* No request is handed to ExecuteBatch twice: a batch that was flushed is *)
(* never flushed again and a group is executed once per flushFunc call.    *)
DeliveredAtMostOnce == \A r \in Requests : \A x, y \in stamps[r] : x = y

(* A request whose Submit returned nil before the lifecycle ctx was        *)
(* cancelled is eventually executed, failed or reported abandoned: the     *)
(* loop's shutdown drains the channel and flushes once more.               *)
AcceptedBeforeShutdownResolved ==
    \A r \in Requests :
        (submit[r] = "ok" /\ ~engineCtxDone) ~> (outcome[r] # "none")

(* What became of a request is final: once its group was executed, failed *)
(* or abandoned, no later step of its own flush (an error in a later group *)
(* or the ctx check that abandons the rest) and no other flush changes it. *)
OutcomeKept == \A r \in Requests : outcome[r] # "none" => outcome'[r] = outcome[r]

OutcomeFinal == [][OutcomeKept]_vars

(* Spec 3: a partial failure is visible through the error channel, never  *)
(* a silent record loss: every request whose Submit returned nil is        *)
(* eventually executed, failed or abandoned (and so reported).             *)
AcceptedResolved ==
    \A r \in Requests : (submit[r] = "ok") ~> (outcome[r] # "none")

(* Spec 4.1: a Submit blocked on a full buffer returns once the submit ctx *)
(* or the lifecycle ctx is cancelled.                                       *)
SubmitReturns ==
    \A r \in Requests :
        (submit[r] = "sending" /\ engineCtxDone) ~> (submit[r] # "sending")

=============================================================================
