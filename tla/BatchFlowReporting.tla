-------------------------- MODULE BatchFlowReporting --------------------------
(***************************************************************************)
(* What BatchFlow reports about its flushes: the error a flushFunc call    *)
(* returns, go-pipeline's best-effort error channel (BatchFlow.ErrorChan)  *)
(* with its ErrorDropped hook, the metrics reporter NewBatchFlow probes    *)
(* from the executor, the batch-size observation of flushFunc, and the     *)
(* pipelineMetricsAdapter of src/gopipeline_metrics_adapter.go that would  *)
(* forward go-pipeline's Flush and ErrorDropped hooks to that reporter.    *)
(*                                                                         *)
(* The module composes BatchFlow with these: every BatchFlow step leaves   *)
(* the reporting state alone, except the step of a flushFunc call, which   *)
(* observes the group's size and, when the call returns, lets go-pipeline  *)
(* try-send the returned error and call its hooks.  The try-send happens   *)
(* in the flush's goroutine right after flushFunc returns and touches no   *)
(* state another goroutine reads in between, so it is part of that step.   *)
(***************************************************************************)
EXTENDS BatchFlow

CONSTANTS
    ErrSize,      \* the size the consumer passes to BatchFlow.ErrorChan
    ExecReporter  \* what the executor's MetricsReporter() probe yields:
                  \* "absent" (no such method), "nil", a "base" reporter
                  \* or an "extended" one (a PipelineMetricsReporter)

ASSUME ReportingAssumption ==
    /\ ErrSize \in Nat \ {0}
    /\ ExecReporter \in {"absent", "nil", "base", "extended"}

VARIABLES
    errQueued,  \* errors in the error channel, not yet read by the consumer
    lost,       \* history: errors go-pipeline could not send (channel full)
    dropped,    \* the reporter's dropped("error_chan_full") counter
    sizeObs,    \* sum of the sizes passed to the reporter's ObserveBatchSize
    reported    \* history: requests of flushFunc calls that returned an error

rvars == <<errQueued, lost, dropped, sizeObs, reported>>

allVars == <<vars, rvars>>

-----------------------------------------------------------------------------
(* NewBatchFlow's reporter: the executor's own when it has a non-nil one,  *)
(* the Noop reporter otherwise.                                            *)
Reporter == IF ExecReporter \in {"base", "extended"} THEN ExecReporter ELSE "noop"

(* attachPipelineMetrics(p, r): the adapter becomes the pipeline's metrics *)
(* hook unless the reporter is nil.                                        *)
AttachPipelineMetrics(r) == r # "nil"

(* NewBatchFlow builds the pipeline without WithMetrics: the adapter is    *)
(* not attached (attachPipelineMetrics has no caller).                     *)
Attached == FALSE

(* Mutant of ErrorChan: the channel is made one slot larger than asked.   *)
ErrorChanPadded(size) == size + 1

(* BatchFlow.ErrorChan(size) passes the consumer's size to go-pipeline.    *)
ErrorChan(size) == size

(* pipelineMetricsAdapter.Flush(items, d): ObserveBatchSize(items) when    *)
(* the reporter is non-nil and the batch is not empty.                     *)
AdapterFlush(items) == IF Attached /\ items > 0 THEN items ELSE 0

(* pipelineMetricsAdapter.pmr(): the reporter is non-nil and a            *)
(* PipelineMetricsReporter.                                                *)
Pmr(r) == r = "extended"

(* pipelineMetricsAdapter.ErrorDropped: IncDropped("error_chan_full") when *)
(* pmr() succeeds.                                                         *)
AdapterErrorDropped == IF Attached /\ Pmr(Reporter) THEN 1 ELSE 0

(* The flushFunc call f has returned in this step: no running flush goes  *)
(* on with its batch (after a group that succeeded and is not the last,    *)
(* the call goes on with the remaining groups).                            *)
Returned(f) == \A g \in flights' : g.batch # f.batch

(* Mutant of FlushErr: the ctx check's error is not returned, only the     *)
(* error of ExecuteBatch.                                                  *)
FlushErrIgnoreAbort(f) ==
    /\ Returned(f)
    /\ \E r \in Pending(f) : outcome'[r] = "failed"

(* The flushFunc call f has returned (in this step) with a non-nil error:  *)
(* the ctx check's error or ExecuteBatch's; the call returns nil only      *)
(* after every group was executed.                                         *)
FlushErr(f) ==
    /\ Returned(f)
    /\ \E r \in Pending(f) : outcome'[r] # "executed"

(* flushFunc's ObserveBatchSize(len(requests)), made once a group passed  *)
(* the ctx check and was assembled, right before ExecuteBatch.             *)
GroupObs(f, s) == IF calls' = calls THEN 0 ELSE Cardinality(GroupIdx(f.batch, s))

(* go-pipeline after flushFunc returns: the Flush hook, then a try-send of *)
(* a non-nil error on the error channel; when the channel is full the      *)
(* error is dropped and the ErrorDropped hook is called.                   *)
FlushReturn(f, s) ==
    LET hookObs == IF Returned(f) THEN AdapterFlush(Len(f.batch)) ELSE 0
    IN  /\ sizeObs' = sizeObs + GroupObs(f, s) + hookObs
        /\ IF ~FlushErr(f)
           THEN UNCHANGED <<errQueued, lost, dropped, reported>>
           ELSE /\ reported' = reported \cup {f.batch[i] : i \in DOMAIN f.batch}
                /\ IF errQueued < ErrorChan(ErrSize)
                   THEN errQueued' = errQueued + 1 /\ UNCHANGED <<lost, dropped>>
                   ELSE /\ lost' = lost + 1
                        /\ dropped' = dropped + AdapterErrorDropped
                        /\ UNCHANGED errQueued

-----------------------------------------------------------------------------
RInit ==
    /\ Init
    /\ errQueued = 0
    /\ lost = 0
    /\ dropped = 0
    /\ sizeObs = 0
    /\ reported = {}

(* One iteration of flushFunc's loop, with what it and go-pipeline report. *)
FlushGroupReport(f, s) ==
    /\ FlushGroup(f, s)
    /\ FlushReturn(f, s)

(* The consumer of ErrorChan reads an error.                               *)
ConsumeError ==
    /\ errQueued > 0
    /\ errQueued' = errQueued - 1
    /\ UNCHANGED <<vars, lost, dropped, sizeObs, reported>>

(* Every other BatchFlow step leaves the reporting state unchanged.        *)
Engine ==
    /\ \/ \E r \in Requests :
             \/ SubmitCheck(r) \/ SubmitSend(r) \/ SubmitCancelled(r)
             \/ CancelSubmitCtx(r)
       \/ CancelEngineCtx \/ LatchClosed
       \/ Receive \/ FlushOnSize \/ FlushOnTick \/ Shutdown \/ Quiescent
    /\ UNCHANGED rvars

RNext ==
    \/ Engine
    \/ \E f \in flights, s \in Schemas : FlushGroupReport(f, s)
    \/ ConsumeError

RSpec == RInit /\ [][RNext]_allVars

-----------------------------------------------------------------------------
(* Type invariant of the reporting state: the error channel never holds    *)
(* more than the size the consumer asked for.                              *)
ReportTypeOK ==
    /\ errQueued \in 0..ErrSize
    /\ lost \in Nat /\ dropped \in Nat /\ sizeObs \in Nat
    /\ reported \subseteq Requests

(* Spec 3 and 7: a group that failed or was abandoned is never a silent    *)
(* loss: the flushFunc call that gave up on it returned an error, which   *)
(* go-pipeline then published or dropped.                                  *)
FailureReported ==
    \A r \in Requests : outcome[r] \in {"failed", "abandoned"} => r \in reported

(* Spec 4.1: when the error channel is full an error is dropped and the    *)
(* dropped(error_chan_full) counter of an extended reporter counts it.     *)
DroppedCounted == Reporter = "extended" => dropped = lost

=============================================================================
