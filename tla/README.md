# TLA+ models of BatchFlow

This directory holds TLA+ models of the batch-insertion engine in `src/`,
the TLC configurations that check them, and TLAPS proofs about them.

## The system

BatchFlow turns many small `Submit` calls into bulk writes:

```
caller --Submit--> data channel --flush loop--> flushFunc --ExecuteBatch--> Executor --> Processor --> Driver/DB
                   (BufferSize)   (go-pipeline)  (groups by   (retry,          (timeout,
                                                  schema)     semaphore)       cause)
```

* **Engine** (`src/batchflow.go`). `NewBatchFlow` starts the go-pipeline
  flush loop and a goroutine that sets the atomic `closed` flag once the
  lifecycle ctx is cancelled. `Submit` checks its own ctx, then `closed`,
  then validates the request. It then `select`s between sending on the data
  channel and its ctx's `Done`. `flushFunc` groups a batch by schema. For
  each group, in map order, it checks the ctx, assembles rows and calls
  `ExecuteBatch`, and it returns on the first error.
* **Pipeline** (go-pipeline, a dependency). A bounded channel and one flush
  loop. The loop cuts a batch when it reaches `FlushSize` or when
  `FlushInterval` elapses. At most `MaxConcurrentFlushes` flushes run at
  once. When the lifecycle ctx is cancelled, the loop drains the channel,
  flushes once and exits (spec 4.1).
* **Processor** (`src/processor.go`). `GenerateOperations` checks the
  schema's variant and asks the driver for operations. `ExecuteOperations`
  derives a child ctx whose timer carries the "execute batch timeout" cause.
  It then runs one SQL statement, or a Redis pipeline built in a loop that
  checks the ctx between commands. When the result is a deadline error, it
  returns `context.Cause(ctx)`.
* **Error channel and metrics adapter** (`BatchFlow.ErrorChan`,
  `src/gopipeline_metrics_adapter.go`). go-pipeline try-sends the error a
  flush returned on a channel of the consumer's size. When the channel is
  full, it drops the error and calls its `ErrorDropped` hook. The adapter
  would forward that hook to the reporter's `IncDropped("error_chan_full")`
  and its `Flush` hook to `ObserveBatchSize`. But `attachPipelineMetrics`
  has no caller, so the adapter is never attached.
* **Executor** (`ThrottledBatchExecutor`), the retry classifier and the
  drivers are specified in `spec.md` but are not in `src/`.

## Modules

| Module | Models | Kind |
|---|---|---|
| `BatchFlow` | Submit, the closed latch, the flush loop, flushFunc | component |
| `MCBatchFlow` | four requests (one invalid), two schemas | TLC instance |
| `BatchFlowProofs` | type correctness, at-most-once delivery, final outcomes | TLAPS proofs |
| `BatchFlowOrderProofs` | per-schema order with one flush at a time | TLAPS proofs |
| `BatchFlowReporting` | BatchFlow composed with the returned flush error, the error channel, the reporter and the adapter | composition |
| `MCBatchFlowReporting` | MCBatchFlow's instance with a one-slot error channel | TLC instance |
| `BatchFlowReportingProofs` | the reporting invariants | TLAPS proofs |
| `SchemaFIFO` | what BatchFlow promises: per-schema queues resolved from the front | abstract spec |
| `BatchFlowFIFO` | the refinement mapping from BatchFlow to SchemaFIFO | refinement |
| `MCBatchFlowFIFO` | MCBatchFlow's instance, checking `FIFOSpec` | TLC instance |
| `BatchFlowFIFOProofs` | BatchFlow implements SchemaFIFO, for all constants | TLAPS proofs |
| `Processor` | concurrent SQL or Redis processor calls under one outer ctx | component |
| `MCProcessor` | three calls, symmetric | TLC instance |
| `ProcessorProofs` | typing and the timeout-cause properties of Processor | TLAPS proofs |

### BatchFlow

State and its counterpart in the code:

* `engineCtxDone`: the lifecycle ctx passed to `NewBatchFlow` is done.
* `closed`: `BatchFlow.closed`.
* `submitCtxDone[r]`, `submit[r]`: the ctx of request `r`'s Submit call,
  and where that call is. The call is `idle`, blocked in its `select`
  (`sending`), or has returned (`ok` or an error).
* `dataChan`, `batchData`, `loop`: go-pipeline's channel, the loop's
  current batch, and whether the loop still runs.
* `flights`: the running `flushFunc` calls. Each has its batch and the
  schema groups it has not processed yet (the map iteration still to come).
* `outcome[r]`: what became of an accepted request. It is executed, failed
  (its group's ExecuteBatch returned an error), or abandoned (the flush gave
  up before reaching its group). An abandoned request is reported through
  the error that the flush returns.
* History variables: `sent` is the order in which requests entered the
  channel. `calls` counts ExecuteBatch calls. `stamps[r]` records
  `<<call, row index>>` for each time `r` was handed to ExecuteBatch.

Actions follow the code: `SubmitCheck` (lines 137-161: the early returns in
order), `SubmitSend` / `SubmitCancelled` (the two cases of the `select`),
`LatchClosed` (123-126), and `FlushGroup(f, s)`. `FlushGroup` is one
iteration of flushFunc's range loop: `FlushAbort` (the ctx check, lines
71-74) or `FlushExecute` (assembly and ExecuteBatch, lines 76-104).
`FlushAbort` is enabled only once the ctx is done. `FlushExecute` is
enabled whether or not it is: a cancellation can land right after the check
at line 72, and the group is then executed anyway. The model therefore
allows a group to execute after cancellation, which is more than the code
does when the ctx was already done before the check.
ExecuteBatch succeeds or fails. On failure flushFunc returns the error and
the groups still to do are abandoned. `RowIdx` is the index `data[i]` that
a request gets in its group's rows. `CancelSubmitCtx` and `CancelEngineCtx`
are the environment. `Receive`, `FlushOnSize`, `FlushOnTick`, `Shutdown` and
`Dispatch` come from spec 4.1 because go-pipeline is not in this repository.
`ExecuteBatch` is one atomic step.

### BatchFlowReporting

This module extends BatchFlow. Every BatchFlow step leaves the reporting
state unchanged, except one iteration of flushFunc's loop
(`FlushGroupReport`). That step adds `GroupObs`, the
`ObserveBatchSize(len(requests))` call at line 98, made when the group
reached ExecuteBatch. If the step ends the flushFunc call (`Returned(f)`:
no running flush goes on with its batch), it also runs `FlushReturn`,
go-pipeline's handling of the return (spec 4.1). A group that succeeds
and is not the last one does not end the call: the flight is replaced by
the one with the remaining groups, and nothing is published.
* The `Flush` hook (`AdapterFlush`) runs.
* If `FlushErr`, the call returned an error: the ctx check's error, or
  ExecuteBatch's. It returns nil only when every group executed.
* That error is try-sent on a channel of size `ErrorChan(ErrSize)`. When the
  channel is full, `lost` grows and so does `dropped`, by
  `AdapterErrorDropped`.

The try-send runs in the flush's goroutine right after flushFunc returns.
It reads nothing another goroutine writes in between, so it belongs to the
same step. `Reporter` is NewBatchFlow's probe of the executor (lines 38-52).
`Attached` is FALSE because NewBatchFlow builds the pipeline without
`WithMetrics`. `ConsumeError` is the consumer, which reads at any time.
`reported` is a history variable: the requests of flushes that returned an
error.

### SchemaFIFO and the refinement

`SchemaFIFO` is the contract of the ingestion path. Each schema has a queue
of accepted requests, and `Accept` appends to it. `Resolve` takes a prefix
of one or more queues and gives each request taken an outcome. Several
queues are cut at once because one flush that fails abandons its other
groups in the same step.

`BatchFlowFIFO` maps BatchFlow onto it. A schema's abstract queue is the
concatenation, in order, of that schema's requests in:
1. the running flush's groups not processed yet;
2. the loop's batch;
3. the data channel.

A schema's part of a sequence is `OfSchema(q, s)`: the `k`-th element is
the row of schema `s` whose `RowIdx` is `k`. `RowIdx` is the same row index
that flushFunc uses to assemble a group, so the filter needs no recursion.
`FiniteRequests` assumes the set of requests is finite, as any run of the
program has only finitely many.

Under this mapping, a `SubmitSend` is an `Accept`. A `FlushGroup` step is a
`Resolve`. Every other step is a stutter: `Receive`, batch cuts and
`Shutdown` only move requests from the back of one segment to the front of
another. The mapping reads the one running flush, so it assumes
`MaxConcurrentFlushes = 1` (`OneFlushAtATime`). That is go-pipeline's
default, and NewBatchFlow passes no other value.

### Processor

Each call `c` goes through these steps: `GenerateOperations`, then
`SQLExecute` and `SQLExecContext`, or `RedisExecute`, a `RedisEnqueue` per
command, and `RedisExec`. `ChildTimeout(c)` is the call's own timer. It fires
only while ExecuteOperations runs and only while the outer ctx is live, which
is when the child's cause is the sentinel. `OuterDone` cancels the outer ctx
or lets its deadline pass. That ctx is shared by all calls, like the
lifecycle ctx that concurrent flushes share. `CauseOf(c)` is
`context.Cause` of the call's ctx, and `Surface` is the `errors.Is(err,
DeadlineExceeded)` → cause replacement. What drivers, the database and Redis
return is a nondeterministic choice: success, their own error, or the ctx's
error once the ctx is done. `pipeline.Exec` returns the first failed
command's error, so the loop that joins command errors only ever joins
nils.

## Runs

| Run | Config | Expect | What it shows |
|---|---|---|---|
| batchflow_core | `MCBatchFlow.cfg` | pass | TypeOK, SchemaOrderPreserved, DeliveredAtMostOnce, AcceptedBeforeShutdownResolved, OutcomeFinal |
| accepted_resolved | `MCBatchFlow_AcceptedResolved.cfg` | violation | a request accepted around shutdown is lost silently |
| submit_returns | `MCBatchFlow_SubmitReturns.cfg` | violation | a blocked Submit is not released by engine shutdown |
| batchflow_fifo | `MCBatchFlowFIFO.cfg` | pass | BatchFlow implements SchemaFIFO (`FIFOSpec`) |
| batchflow_reporting | `MCBatchFlowReporting.cfg` | pass | ReportTypeOK, FailureReported |
| dropped_counted | `MCBatchFlowReporting_DroppedCounted.cfg` | violation | an error dropped on a full error channel is not counted |
| processor_sql | `MCProcessor_sql.cfg` | pass | TimeoutCauseSurfaced for the SQL processor |
| processor_redis | `MCProcessor_redis_ok.cfg` | pass | TypeOK, SentinelOnlyOwnTimeout for the Redis processor |
| processor_redis_timeout | `MCProcessor_redis_timeout.cfg` | violation | a Redis processor timeout is reported as an outer deadline |

The properties:

* **SchemaOrderPreserved**: two requests of one schema reach ExecuteBatch
  in the order they entered the channel. The per-request stamps order the
  calls first and the rows within a call second. The mutant that fills
  `data` back to front breaks this property. So does, by hand, a pipeline
  that starts a flush without a free slot.
* **DeliveredAtMostOnce**: no request is stamped twice. The property breaks
  if flushFunc runs a group that succeeded again.
* **AcceptedBeforeShutdownResolved**: a request whose Submit returned nil
  before the lifecycle ctx was cancelled is eventually executed, failed or
  abandoned. The property breaks if the ctx check returns nil, which drops
  the groups that remain in the batch.
* **OutcomeFinal** (action property): once a request is executed, failed
  or abandoned, no step changes that. A flush marks only the groups it
  still has to do. The mutant whose ctx check marks the whole batch
  abandoned, the groups already executed included, breaks it.
* **AcceptedResolved** (violated): the same without the "before
  cancellation" condition, which is what spec 3 promises ("no silent record
  loss", and no Request enters the buffer after cancellation). TLC's trace:
  the lifecycle ctx is already cancelled in the initial state, and the
  goroutine that latches `closed` has not run yet. A Submit passes the
  `closed` check. The latch then sets `closed`. The loop drains and
  stops. The Submit's send then succeeds and it returns nil, and nothing
  ever reads the channel again.
* **SubmitReturns** (violated): spec 4.1 says a Submit blocked on a full
  buffer returns when the lifecycle ctx is cancelled. The `select` does not
  watch that ctx, so after shutdown the Submit waits for its own ctx.
* **FIFOSpec**: every behaviour of BatchFlow is a behaviour of SchemaFIFO.
  This holds through receive, batch cuts, the shutdown drain, flushFunc's
  groups in map order and its early return on error. So requests of a
  schema are resolved only from the front of their queue, and never twice.
  The mutant in which a failing flush does not mark the groups it did not
  reach breaks this: the requests leave the abstract queue without an
  outcome.
* **FailureReported**: every failed or abandoned request belongs to a
  flushFunc call that returned an error, which go-pipeline then published
  or dropped. A ctx check that returned nil would break it.
* **DroppedCounted** (violated): spec 4.1 says a dropped error increments
  the `dropped(error_chan_full)` counter. TLC's trace: two flushes fail
  while the consumer has not read the first error. The second error is
  dropped and the extended reporter's counter stays at 0.
* **TimeoutCauseSurfaced**: a call that ends on a ctx error returns the
  sentinel exactly when its own timer fired first. This is what the
  classifier relies on to retry `processor_timeout` and to give up on an
  outer `context` error. It holds for SQL. For Redis it is violated: the
  enqueue loop (line 165) returns `ctx.Err()`, which is DeadlineExceeded.
* **SentinelOnlyOwnTimeout**: an outer cancellation or deadline is never
  reported as the sentinel, for Redis as well.

Each property of a passing run has a mutant in `PROJECT.json`: a plausible
bug in the code it is about, which TLC catches.

### Bounds

BatchFlow uses four requests, one of them invalid, and two schemas. Two
requests share schema `s1`, so order inside a group can be observed.
`BufferSize = FlushSize = 2`: the channel fills, size flushes happen and
tick flushes of one request happen. `MaxConcurrentFlushes = 1` is the
default that spec 4.1 states. The run reaches about 187,000 distinct states
at depth 22. Every interleaving of three accepted submitters, cancellation
at any point, shutdown with a full channel, and a group failing with
another pending all occur.

BatchFlowReporting reuses that instance with `ErrSize = 1` and an extended
reporter. A second failed flush then finds the channel full. The run
reaches about 454,000 distinct states. The refinement run explores the
187,000 states of the core run.

Processor uses three calls with `MaxOps = 2`, so the Redis loop has a check
between two commands. The calls are symmetric, so they are checked up to
permutation.

### Fairness

The flush loop, the closed-latch goroutine and each running flushFunc are
goroutines that keep running, so they get weak fairness. A Submit blocked in
its `select` gets strong fairness on the send: Go's channel serves blocked
senders, so a send that is enabled again and again eventually happens. It
gets weak fairness on the ctx case. Calling Submit and cancelling a ctx are
the environment's choice, so they get no fairness. The model's own choice of
failure or success has no fairness either: each outcome is one branch of
`FlushGroup`.

## Proofs

### `BatchFlowProofs`

`tlapm` checks every proof. The assumption is `ConstantsAssumption`:
`SchemaOf` maps requests to schemas, and the three sizes are positive
naturals.

* `TypeCorrect`: `Spec => []TypeOK`, from `TypeInit` and `TypeStep`.
* `AtMostOnce`: `Spec => []DeliveredAtMostOnce`. It holds for every number
  of requests and schemas, every buffer and batch size, and every number of
  concurrent flushes. `DeliveredAtMostOnce` is not inductive on its own: a
  step stamps the rows of a group, and nothing in the property says those
  rows were unstamped. The strengthening `IInv` adds four facts:
  * `QueueDisjoint`: the channel and the batch hold each request once and
    share none.
  * `FlightsDisjoint`: each flight's batch holds each request once,
    contains nothing that is still queued, and shares no request with
    another flight.
  * `WaitingUnstamped`: queued requests, and the requests of groups a flight
    has not processed yet, are unstamped.
  * `LocatedAccepted`: only a request whose Submit returned nil is queued,
    in flight or stamped. So the send of a request that is still `sending`
    brings in a request found nowhere else.

  The step proof has one lemma per action: `SubmitSendIInv`, `ReceiveIInv`,
  `FlushBatchIInv`, `ShutdownIInv` and `FlushGroupIInv`, with `DispatchIInv`
  shared by the three dispatches. The remaining actions fall under
  `FrameIInv`. The lemmas rest on facts about the elements of sequences
  under `Append`, `Tail` and `\o` (`ElemsAppend`, `ElemsTail`,
  `ElemsConcat`). TLC checked `IInv` as an invariant on the instance above,
  with two concurrent flushes, before it was proved.
* `ResolvedFinal`: `Spec => OutcomeFinal`, the action property, for every
  number of concurrent flushes. It follows from the invariant
  `OInv == IInv /\ ResolvedOut /\ TodoGrouped`:
  * `ResolvedOut`: a request with an outcome was accepted, is not queued,
    and is pending in no flight.
  * `TodoGrouped`: every group a flight has to do has rows in its batch.

  A flush step changes only outcomes of requests pending in it
  (`FlushGroupChanges`), so no resolved request is touched again
  (`OutcomeStep`: `OInv /\ [Next]_vars => [OutcomeKept]_vars`).

### `BatchFlowOrderProofs`

* `OrderPreserved`: assuming `MaxConcurrentFlushes = 1`,
  `Spec => []SchemaOrderPreserved`, for every number of requests and
  schemas and every buffer and batch size. With two concurrent flushes the
  property is false: two batches of one schema may reach ExecuteBatch in
  either order. `Before(h, r, q)` compares positions in the history `h`.
  The inductive invariant `SInv` adds these facts to `OInv`:
  * `SentHolds`: the history `sent` holds each request once, only
    requests whose Submit returned nil, and every request that is queued,
    in flight or stamped.
  * `InOrder`: the channel, the batch and the flight's batch are each in
    history order. The batch precedes the channel, and the flight's batch
    precedes both.
  * `OneFlight`: at most one flush runs.
  * `StampedFirst`: a row handed to ExecuteBatch precedes every waiting
    request of its schema, queued or pending in the flight.
  * `CallsMade`: every stamp names a call already made.

  The flush step is the heart of the proof (`FlushGroupSInv`). A new stamp
  against an old one: the old row was stamped first, so it precedes the
  new one (`StampedFirst`). A new stamp is never earlier than an old one,
  because its call number is larger than every past call (`CallsMade`).
  Two new stamps of one call: a smaller row index comes from an earlier
  position in the batch (`RowIdxOrder`), and the batch is sorted. The new
  rows precede every queued request of their schema (`InOrder`), and the
  groups still to do hold no request of that schema. A dispatch needs no
  running flush (`NoFlightToDispatch`). The send, the receive and the
  shutdown concatenation keep the order (`BeforeAppend`, `SortedAppend`,
  `SortedTail`, `SortedConcat`). TLC checked `SInv` as an invariant on the
  core instance and on one with `FlushSize = 3` and no invalid request,
  before it was proved.

### `BatchFlowReportingProofs`

The assumptions are `ConstantsAssumption` and `ReportingAssumption`. The
inductive invariant `RInv` is `OInv` and the two properties of the
reporting run, together with these auxiliary facts:
* the errors queued plus those lost never outnumber the failed and
  abandoned requests (`ErrorsOnlyForFailures`);
* `sizeObs` equals the number of stamps (`BatchSizeObservedOnce`);
* the set of failed and abandoned requests is finite;
* every stamp names a call already made;
* the set of `<<request, stamp>>` pairs is finite.

Three arguments carry the step proof (`RInvStep`):
* A flushFunc call that returns an error has left some request of its
  groups failed or abandoned (`FlushOutcomes`). That set only grows, so
  `errQueued + lost` stays below its size.
* The new stamps of a call carry the new call number, so the pairs they
  add are fresh. `sizeObs` grows by exactly their number (`StampStep`).
* A flight that is removed while groups remain ends its call
  (`RemovedReturned`). Only one flight holds a batch with rows, so no
  other flight goes on with it.

The theorems are `ReportTypeCorrect` and `FailuresReported`, each
`RSpec => []P` for every error channel size,
every reporter and every number of concurrent flushes.

### `ProcessorProofs`

The assumption is `ProcessorAssumption`. The inductive invariant `IInv`
adds three facts to `TypeOK`:
* A call has not timed out before ExecuteOperations, because the child
  timer exists only there.
* A call that returned the sentinel has timed out.
* Under SQL, no call is in the Redis loop, and a context error that was
  returned is the sentinel exactly when the call timed out.

Each action is one step of `IInvStep`. The key fact is
`IoResultsNoSentinel`: what a driver or a round trip returns is never the
sentinel. So only `Surface` produces it, and only from the call's own
cause. A call's timer never changes after it returns.

* `ProcessorTypeCorrect`: `Spec => []TypeOK`.
* `OwnTimeoutOnly`: `Spec => []SentinelOnlyOwnTimeout`, for both backends.
* `SQLCauseSurfaced`: assuming `Backend = "sql"`,
  `Spec => []TimeoutCauseSurfaced`.

All three hold for any number of concurrent calls and any `MaxOps`.

### `BatchFlowFIFOProofs`

`Refinement` proves `Spec => FIFOSpec`: every behaviour of BatchFlow is a
behaviour of SchemaFIFO under the mapping of `BatchFlowFIFO`. It holds for
every set of requests and schemas and every buffer and batch size. The
assumptions are `ConstantsAssumption`, `OneFlushAtATime` and
`FiniteRequests`.

The proof has three layers.
* Lemmas about the filter. `RowIdxIso`: `RowIdx` is a bijection from a
  schema's positions in a sequence onto `1..n`. From it, `OfSchemaChar`
  characterises `OfSchema`, and `OfSchemaConcat`, `OfSchemaAppend` and
  `OfSchemaSingle` say how it behaves under concatenation and append.
* The mapping as a formula. `QueueOfIsQOf` writes the abstract queue as
  `QOf(flights, batchData, dataChan, s)`. Lemmas such as `QOfReceive`,
  `QOfDispatch` and `QOfShutdown` show that the moving steps leave it
  unchanged. `QOfSplit` splits it at the running flight's pending part.
* The step cases, over the invariant `SInv` of `BatchFlowOrderProofs`.
  The conjuncts the refinement uses are: at most one flight
  (`OneFlight`); a resolved request is in no segment (`ResolvedOut`); a
  request in a segment was accepted (`LocatedAccepted`); a flight's groups
  still to run are groups of its batch (`TodoGrouped`); and the channel,
  the batch and the flight hold no request twice (`NoDup`,
  `FlightsDisjoint`). Under `SInv`:
  * `SubmitSendAccept`: a `SubmitSend` is an `Accept`;
  * `FlushGroupResolve`: a `FlushGroup` is a `Resolve`. On success the cut
    is the length of the group at its schema and 0 elsewhere. On failure
    or abort it is the length of every pending part;
  * `LoopStutter`: every other step leaves the queues and outcomes alone.

`RefineInit` and `RefineStep` combine these, and `Refinement` closes with
`SInvInit`, `SInvStep` and PTL. The mapping reads the single running
flight, which is why `OneFlushAtATime` is needed.

### Only model-checked

TLAPS does not handle liveness or ENABLED, and cannot instantiate the
library's induction theorems over data. No proved module uses a recursive
operator: `OfSchema` filters with row indices instead of `SelectSeq`, so the
refinement proof needs no induction over sequences. These are checked by
TLC only:
* the liveness properties `AcceptedBeforeShutdownResolved`, and the
  violated `AcceptedResolved` and `SubmitReturns`;
* `DroppedCounted`, which is violated.

## Not modelled, and why

* The Executor, the retry classifier and the drivers are not in `src/`.
  The next module, `Executor` (spec 4.3), will compose `Processor` with the
  semaphore, the in-flight counter and the retry loop. It will be shown to
  refine BatchFlow's atomic ExecuteBatch.
* The constructors are wiring. Their effect is the constants of the models.
  The metrics calls other than batch size and dropped errors (enqueue
  latency, queue length, assemble time) change no state and have no
  property that tells them apart.
* Flush ordering between concurrent flushes is not refined. SchemaFIFO is
  implemented only with one flush at a time, which is what the code gets.
* The model assumes that go-pipeline passes the lifecycle ctx to the final
  drain's flush, as spec 4.2 step 2a implies. In the code, a ctx that is
  already cancelled makes that flush abandon its groups at line 72 and
  report the error. The model allows this and, as said above, also allows
  a group to execute, because `FlushExecute` is not guarded by the ctx.

## Plan for later work

1. `Executor.tla` (spec_modelled): the semaphore, in-flight accounting and
   the retry state machine with bounded attempts over `Processor` calls.
   Properties: in-flight returns to zero, the semaphore is never exceeded,
   exactly M attempts for an always-retryable error, and a processor
   timeout is retried. The last of these makes the Redis finding visible
   end to end.
2. A refinement: BatchFlow with Executor implements BatchFlow with atomic
   ExecuteBatch (INSTANCE ... WITH).
