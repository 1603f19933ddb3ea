------------------------ MODULE BatchFlowReportingProofs ------------------------
(***************************************************************************)
(* Proofs about BatchFlowReporting for every value of its constants: the   *)
(* reporting state stays typed, and every failed or abandoned request      *)
(* belongs to a flushFunc call that returned an error.                     *)
(***************************************************************************)
EXTENDS BatchFlowReporting, BatchFlowProofs, TLAPS

USE ConstantsAssumption, ReportingAssumption

(* The requests that failed or were abandoned.                             *)
Failed == {r \in Requests : outcome[r] \in {"failed", "abandoned"}}

(* Every stamp, paired with the request it stamps.                         *)
StampPairs == UNION {{<<r, x>> : x \in stamps[r]} : r \in Requests}

(* Every stamp names an ExecuteBatch call already made.                    *)
StampsCalled == \A r \in Requests : \A x \in stamps[r] : x[1] \in 1..calls

(* Auxiliary facts of the inductive invariant: the errors queued and lost *)
(* never outnumber the failed and abandoned requests, and the batch-size   *)
(* sum counts every stamp once.                                            *)
ErrorsOnlyForFailures == errQueued + lost <= Cardinality(Failed)

BatchSizeObservedOnce == sizeObs = Cardinality(StampPairs)

(* The inductive invariant: OutcomeFinal's, with the reporting properties, *)
(* the finiteness the counts need, and stamps that name past calls only   *)
(* (so the stamps of a new call are new pairs).                            *)
RInv ==
    /\ OInv
    /\ ReportTypeOK
    /\ FailureReported
    /\ IsFiniteSet(Failed) /\ ErrorsOnlyForFailures
    /\ StampsCalled
    /\ IsFiniteSet(StampPairs) /\ BatchSizeObservedOnce

-----------------------------------------------------------------------------
(* Every step of the composition is a step of BatchFlow or leaves its      *)
(* variables alone.                                                        *)
LEMMA RNextIsNext == [RNext]_allVars => [Next]_vars
BY DEF RNext, Engine, FlushGroupReport, ConsumeError, Next, allVars, vars

(* The BatchFlow steps other than a flush group resolve and stamp nothing. *)
LEMMA EngineFrame == Engine => UNCHANGED <<outcome, stamps, calls>>
BY DEF Engine, SubmitCheck, SubmitSend, SubmitCancelled, CancelSubmitCtx,
   CancelEngineCtx, LatchClosed, Receive, FlushOnSize, FlushOnTick, Shutdown,
   Quiescent, vars

(* A sequence holds finitely many requests.                                *)
LEMMA ElemsFinite ==
    ASSUME NEW S, NEW q \in Seq(S)
    PROVE  IsFiniteSet(Elems(q))
<1>1. IsFiniteSet(1..Len(q))
  BY FS_Interval
<1>2. q \in Surjection(1..Len(q), Elems(q))
  BY DEF Surjection, Elems
<1>3. QED
  BY <1>1, <1>2, FS_Surjection

(* A flush that still has a group to do has a non-empty batch, so no other *)
(* flush has its batch: removing it ends the flushFunc call.               *)
LEMMA RemovedReturned ==
    ASSUME OInv, NEW f \in flights, NEW s \in f.todo, flights' = flights \ {f}
    PROVE  Returned(f)
<1>1. PICK i \in DOMAIN f.batch : SchemaOf[f.batch[i]] = s
  BY DEF OInv, TodoGrouped, GroupKeys
<1>2. f.batch[i] \in Elems(f.batch)
  BY DEF Elems
<1>3. \A g \in flights \ {f} : Elems(f.batch) \cap Elems(g.batch) = {}
  BY DEF OInv, IInv, FlightsDisjoint
<1>4. QED
  BY <1>2, <1>3 DEF Returned

(* A flush group either ends the call with every group it had still to do  *)
(* failed or abandoned, or marks requests executed only; in the second    *)
(* case a call that returns has executed every group it had still to do.  *)
LEMMA FlushOutcomes ==
    ASSUME OInv, NEW f \in flights, NEW s \in Schemas, FlushGroup(f, s)
    PROVE  \/ /\ flights' = flights \ {f}
              /\ \A r \in Pending(f) : outcome'[r] \in {"failed", "abandoned"}
           \/ /\ \A r \in Requests : outcome'[r] # outcome[r] => outcome'[r] = "executed"
              /\ Returned(f) => \A r \in Pending(f) : outcome'[r] = "executed"
<1> DEFINE idx  == GroupIdx(f.batch, s)
           rows == {f.batch[i] : i \in idx}
           rest == [batch |-> f.batch, todo |-> f.todo \ {s}]
<1>1. s \in f.todo /\ f \in Flight
  BY DEF FlushGroup, OInv, IInv, TypeOK
<1>2. Pending(f) \subseteq Requests /\ Pending(f) = rows \cup Pending(rest)
  <2>1. Pending(f) \subseteq Requests
    BY <1>1 DEF Pending, GroupIdx, Flight
  <2>2. Pending(f) \subseteq rows \cup Pending(rest)
    BY DEF Pending
  <2>3. rows \cup Pending(rest) \subseteq Pending(f)
    BY <1>1 DEF Pending
  <2>4. QED
    BY <2>1, <2>2, <2>3
<1>3. CASE FlushAbort(f)
  BY <1>2, <1>3 DEF FlushAbort, Mark
<1>4. CASE /\ outcome' = Mark(rows, "executed")
           /\ flights' = IF rest.todo = {} THEN flights \ {f}
                         ELSE (flights \ {f}) \cup {rest}
  <2>1. \A r \in Requests : outcome'[r] # outcome[r] => outcome'[r] = "executed"
    BY <1>4 DEF Mark
  <2>2. ASSUME Returned(f) PROVE \A r \in Pending(f) : outcome'[r] = "executed"
    <3>1. rest \notin flights'
      BY <2>2 DEF Returned
    <3>2. rest.todo = {}
      BY <1>4, <3>1
    <3>3. Pending(f) = rows
      BY <1>1, <3>2 DEF Pending
    <3>4. QED
      BY <1>2, <1>4, <3>3 DEF Mark
  <2>3. QED
    BY <2>1, <2>2
<1>5. CASE /\ outcome' = [r \in Requests |->
                          IF r \in rows THEN "failed"
                          ELSE IF r \in Pending(rest) THEN "abandoned"
                          ELSE outcome[r]]
           /\ flights' = flights \ {f}
  BY <1>2, <1>5
<1>6. QED
  BY <1>3, <1>4, <1>5 DEF FlushGroup, FlushExecute

(* The initial states satisfy RInv: nothing happened yet.                  *)
LEMMA RInvInit == RInit => RInv
<1> SUFFICES ASSUME RInit PROVE RInv
  OBVIOUS
<1>1. OInv
  BY OInvInit DEF RInit
<1>2. Failed = {} /\ StampPairs = {}
  BY DEF RInit, Init, Failed, StampPairs
<1>3. ReportTypeOK /\ FailureReported /\ StampsCalled
  BY DEF RInit, Init, ReportTypeOK, FailureReported, StampsCalled
<1>4. ErrorsOnlyForFailures /\ BatchSizeObservedOnce
  BY <1>2, FS_EmptySet DEF RInit, ErrorsOnlyForFailures, BatchSizeObservedOnce,
     Failed, StampPairs
<1>5. QED
  BY <1>1, <1>2, <1>3, <1>4, FS_EmptySet DEF RInv

(* A flush group stamps each row of its group once, with a call number no  *)
(* stamp had, and observes the group's size: the size metric grows by as   *)
(* many as there are new stamps.  The adapter's Flush hook observes        *)
(* nothing, as it is not attached.                                         *)
LEMMA StampStep ==
    ASSUME RInv, NEW f \in flights, NEW s \in Schemas,
           FlushGroup(f, s), FlushReturn(f, s)
    PROVE  StampsCalled' /\ IsFiniteSet(StampPairs') /\ BatchSizeObservedOnce'
<1> DEFINE idx == GroupIdx(f.batch, s)
           Stamp(i) == <<f.batch[i], <<calls + 1, RowIdx(f.batch, s, i)>>>>
           New == {Stamp(i) : i \in idx}
<1>1. /\ f \in Flight /\ NoDup(f.batch) /\ calls \in Nat
      /\ stamps \in [Requests -> SUBSET (Nat \X Nat)] /\ sizeObs \in Nat
  BY DEF RInv, OInv, IInv, TypeOK, FlightsDisjoint, ReportTypeOK
<1>a. idx \subseteq DOMAIN f.batch /\ IsFiniteSet(idx)
  <2>1. idx \subseteq 1..Len(f.batch) /\ Len(f.batch) \in Nat
    BY <1>1 DEF GroupIdx, Flight
  <2>2. IsFiniteSet(1..Len(f.batch))
    BY <2>1, FS_Interval
  <2>3. QED
    BY <2>1, <2>2, FS_Subset
<1>b. GroupObs(f, s) \in Nat
  BY <1>a, FS_CardinalityType DEF GroupObs
<1>2. sizeObs' = sizeObs + GroupObs(f, s)
  BY <1>1, <1>b DEF FlushReturn, AdapterFlush, Attached
<1>3. CASE FlushAbort(f)
  <2>1. UNCHANGED <<calls, stamps>>
    BY <1>3 DEF FlushAbort
  <2>2. sizeObs' = sizeObs
    BY <1>1, <1>2, <2>1 DEF GroupObs
  <2>3. StampPairs' = StampPairs
    BY <2>1 DEF StampPairs
  <2>4. QED
    BY <2>1, <2>2, <2>3 DEF RInv, StampsCalled, BatchSizeObservedOnce
<1>4. CASE FlushExecute(f, s)
  <2>1. /\ calls' = calls + 1
        /\ stamps' = [r \in Requests |->
                        stamps[r] \cup {<<calls + 1, RowIdx(f.batch, s, i)>> :
                                          i \in {j \in idx : f.batch[j] = r}}]
    BY <1>4 DEF FlushExecute
  <2>2. sizeObs' = sizeObs + Cardinality(idx)
    BY <1>1, <1>2, <2>1 DEF GroupObs
  <2>3. idx \subseteq DOMAIN f.batch /\ \A i \in idx : f.batch[i] \in Requests
    BY <1>1 DEF GroupIdx, Flight
  <2>4. StampPairs' = StampPairs \cup New
    <3>1. StampPairs' \subseteq StampPairs \cup New
      BY <2>1 DEF StampPairs
    <3>2. StampPairs \subseteq StampPairs'
      BY <2>1 DEF StampPairs
    <3>3. New \subseteq StampPairs'
      BY <2>1, <2>3 DEF StampPairs
    <3>4. QED
      BY <3>1, <3>2, <3>3
  <2>5. StampPairs \cap New = {}
    BY <1>1 DEF RInv, StampsCalled, StampPairs
  <2>7. IsFiniteSet(New) /\ Cardinality(New) = Cardinality(idx)
    <3> DEFINE g == [i \in idx |-> Stamp(i)]
    <3>1. g \in Injection(idx, New)
      <4>1. g \in [idx -> New]
        OBVIOUS
      <4>2. \A a, b \in idx : g[a] = g[b] => a = b
        BY <1>1, <2>3 DEF NoDup
      <4>3. QED
        BY <4>1, <4>2 DEF Injection, IsInjective
    <3>2. g \in Surjection(idx, New)
      BY DEF Surjection
    <3>3. ExistsBijection(idx, New)
      BY <3>1, <3>2 DEF ExistsBijection, Bijection
    <3>4. QED
      BY <1>a, <3>3, FS_Bijection
  <2>8. IsFiniteSet(StampPairs') /\ Cardinality(StampPairs') = Cardinality(StampPairs) + Cardinality(idx)
    <3>1. IsFiniteSet(StampPairs) /\ sizeObs = Cardinality(StampPairs)
      BY DEF RInv, BatchSizeObservedOnce, StampPairs
    <3>2. Cardinality(StampPairs \cap New) = 0
      BY <2>5, FS_EmptySet
    <3>3. /\ IsFiniteSet(StampPairs \cup New)
          /\ Cardinality(StampPairs \cup New) =
               Cardinality(StampPairs) + Cardinality(New) - Cardinality(StampPairs \cap New)
      BY <2>7, <3>1, FS_Union
    <3>4. Cardinality(StampPairs) \in Nat /\ Cardinality(New) \in Nat
      BY <2>7, <3>1, FS_CardinalityType
    <3>5. QED
      BY <2>4, <2>7, <3>2, <3>3, <3>4
  <2>9. StampsCalled'
    <3> SUFFICES ASSUME NEW r \in Requests, NEW x \in stamps'[r] PROVE x[1] \in 1..calls'
      BY DEF StampsCalled
    <3>1. CASE x \in stamps[r]
      BY <1>1, <2>1, <3>1 DEF RInv, StampsCalled
    <3>2. CASE x \notin stamps[r]
      BY <1>1, <2>1, <3>2
    <3>3. QED
      BY <3>1, <3>2
  <2>10. QED
    BY <2>2, <2>8, <2>9 DEF RInv, BatchSizeObservedOnce, StampPairs
<1>5. QED
  BY <1>3, <1>4 DEF FlushGroup

(* A flush group that ends its call with an error leaves a request of its  *)
(* own failed or abandoned that was not before, and reports its whole      *)
(* batch; one that does not changes no request to failed or abandoned.     *)
LEMMA ReportStep ==
    ASSUME RInv, NEW f \in flights, NEW s \in Schemas,
           FlushGroup(f, s), FlushReturn(f, s),
           sizeObs' \in Nat
    PROVE  ReportTypeOK' /\ FailureReported' /\ IsFiniteSet(Failed') /\ ErrorsOnlyForFailures'
<1>1. /\ f \in Flight /\ s \in f.todo /\ OInv
      /\ Elems(f.batch) \subseteq Requests /\ Pending(f) \subseteq Elems(f.batch)
      /\ errQueued \in 0..ErrSize /\ lost \in Nat /\ dropped \in Nat
      /\ reported \subseteq Requests
      /\ IsFiniteSet(Failed) /\ FailureReported /\ ErrorsOnlyForFailures
  <2>1. f \in Flight /\ s \in f.todo /\ OInv
    BY DEF RInv, OInv, IInv, TypeOK, FlushGroup
  <2>2. Elems(f.batch) \subseteq Requests /\ Pending(f) \subseteq Elems(f.batch)
    BY <2>1, PendingInBatch DEF Flight, Elems
  <2>3. /\ errQueued \in 0..ErrSize /\ lost \in Nat /\ dropped \in Nat
        /\ reported \subseteq Requests
        /\ IsFiniteSet(Failed) /\ FailureReported /\ ErrorsOnlyForFailures
    BY DEF RInv, ReportTypeOK
  <2>4. QED
    BY <2>1, <2>2, <2>3
<1>2. \A r \in Requests : outcome[r] # "none" => outcome'[r] = outcome[r]
  <2>1. [Next]_vars
    BY DEF Next
  <2>2. QED
    BY <1>1, <2>1, OutcomeStep DEF OutcomeKept, vars
<1>3. \A r \in Pending(f) : outcome[r] = "none"
  BY <1>1 DEF OInv, ResolvedOut
<1>4. Failed \subseteq Failed' /\ Failed' \subseteq Failed \cup Pending(f)
  <2>1. \A r \in Requests : outcome'[r] # outcome[r] => r \in Pending(f)
    BY <1>1, FlushGroupChanges
  <2>2. QED
    BY <1>2, <2>1 DEF Failed
<1>5. IsFiniteSet(Failed') /\ Cardinality(Failed) <= Cardinality(Failed')
  <2>1. IsFiniteSet(Failed \cup Elems(f.batch))
    BY <1>1, ElemsFinite, FS_Union DEF Flight
  <2>2. IsFiniteSet(Failed')
    BY <1>1, <1>4, <2>1, FS_Subset
  <2>3. QED
    BY <1>4, <2>2, FS_Subset
<1>6. Cardinality(Failed) \in Nat /\ Cardinality(Failed') \in Nat
  BY <1>1, <1>5, FS_CardinalityType
<1>7. {f.batch[i] : i \in DOMAIN f.batch} = Elems(f.batch)
  BY DEF Elems
<1>8. CASE FlushErr(f)
  <2>1. PICK r0 \in Pending(f) : outcome'[r0] # "executed"
    BY <1>8 DEF FlushErr
  <2>2. Returned(f)
    BY <1>8 DEF FlushErr
  <2>3. outcome'[r0] \in {"failed", "abandoned"}
    BY <1>1, <2>1, <2>2, FlushOutcomes
  <2>4. r0 \in Failed' /\ r0 \notin Failed
    BY <1>1, <1>3, <2>3 DEF Failed
  <2>5. Cardinality(Failed) + 1 <= Cardinality(Failed')
    <3>1. IsFiniteSet(Failed \cup {r0}) /\ Cardinality(Failed \cup {r0}) = Cardinality(Failed) + 1
      BY <1>1, <2>4, FS_AddElement
    <3>2. QED
      BY <1>4, <1>5, <2>4, <3>1, FS_Subset
  <2>6. reported' = reported \cup Elems(f.batch)
    BY <1>7, <1>8 DEF FlushReturn
  <2>7. /\ errQueued' + lost' = errQueued + lost + 1
        /\ errQueued' \in 0..ErrSize /\ lost' \in Nat /\ dropped' \in Nat
    <3>1. CASE errQueued < ErrorChan(ErrSize)
      BY <1>1, <1>8, <3>1 DEF FlushReturn, ErrorChan
    <3>2. CASE ~(errQueued < ErrorChan(ErrSize))
      BY <1>1, <1>8, <3>2 DEF FlushReturn, AdapterErrorDropped
    <3>3. QED
      BY <3>1, <3>2
  <2>8. FailureReported'
    BY <1>1, <1>4, <2>6 DEF FailureReported, Failed
  <2>9. errQueued' + lost' <= Cardinality(Failed')
    <3>1. errQueued + lost <= Cardinality(Failed)
      BY <1>1 DEF ErrorsOnlyForFailures, Failed
    <3>2. errQueued + lost \in Nat
      BY <1>1
    <3>3. \A a, b, x \in Nat : x <= a /\ a + 1 <= b => x + 1 <= b
      OBVIOUS
    <3>4. QED
      BY <1>6, <2>5, <2>7, <3>1, <3>2, <3>3
  <2>10. ReportTypeOK'
    BY <1>1, <2>6, <2>7 DEF ReportTypeOK
  <2>11. QED
    BY <1>5, <2>8, <2>9, <2>10 DEF ErrorsOnlyForFailures, Failed
<1>9. CASE ~FlushErr(f)
  <2>1. UNCHANGED <<errQueued, lost, dropped, reported>>
    BY <1>9 DEF FlushReturn
  <2>2. Failed' = Failed
    <3> SUFFICES ASSUME NEW r \in Failed', r \notin Failed PROVE FALSE
      BY <1>4
    <3>1. r \in Pending(f) /\ outcome'[r] \in {"failed", "abandoned"} /\ outcome'[r] # outcome[r]
      BY <1>3, <1>4 DEF Failed
    <3>2. CASE flights' = flights \ {f}
      <4>1. Returned(f)
        BY <1>1, <3>2, RemovedReturned
      <4>2. QED
        BY <1>9, <3>1, <4>1 DEF FlushErr
    <3>3. CASE \A q \in Requests : outcome'[q] # outcome[q] => outcome'[q] = "executed"
      BY <3>1, <3>3 DEF Failed
    <3>4. QED
      BY <1>1, <3>2, <3>3, FlushOutcomes
  <2>3. QED
    BY <1>1, <2>1, <2>2 DEF ReportTypeOK, FailureReported, ErrorsOnlyForFailures, Failed
<1>10. QED
  BY <1>8, <1>9

(* Every step of the composition keeps RInv.                               *)
LEMMA RInvStep == RInv /\ [RNext]_allVars => RInv'
<1> SUFFICES ASSUME RInv, [RNext]_allVars PROVE RInv'
  OBVIOUS
<1>1. OInv'
  BY RNextIsNext, OInvStep DEF RInv
<1>2. CASE Engine \/ UNCHANGED allVars
  <2>1. UNCHANGED <<outcome, stamps, calls, errQueued, lost, dropped, sizeObs, reported>>
    BY <1>2, EngineFrame DEF Engine, allVars, vars, rvars
  <2>2. Failed' = Failed /\ StampPairs' = StampPairs
    BY <2>1 DEF Failed, StampPairs
  <2>3. QED
    BY <1>1, <2>1, <2>2 DEF RInv, ReportTypeOK, FailureReported, ErrorsOnlyForFailures,
       StampsCalled, BatchSizeObservedOnce, Failed, StampPairs
<1>3. CASE ConsumeError
  <2>1. UNCHANGED <<outcome, stamps, calls, lost, dropped, sizeObs, reported>>
    BY <1>3 DEF ConsumeError, vars
  <2>2. Failed' = Failed /\ StampPairs' = StampPairs
    BY <2>1 DEF Failed, StampPairs
  <2>3. errQueued' \in 0..ErrSize /\ errQueued' + lost' <= errQueued + lost
    BY <1>3, <2>1 DEF ConsumeError, RInv, ReportTypeOK
  <2>4. Cardinality(Failed) \in Nat
    BY FS_CardinalityType DEF RInv
  <2>5. ErrorsOnlyForFailures'
    <3>1. PICK n \in Nat : n = Cardinality(Failed)
      BY <2>4
    <3>2. errQueued + lost <= n
      BY <3>1 DEF RInv, ErrorsOnlyForFailures
    <3>3. errQueued \in Nat /\ lost \in Nat /\ lost' = lost
      BY <2>1 DEF RInv, ReportTypeOK
    <3>4. errQueued' + lost' <= n
      <4> HIDE ConstantsAssumption, ReportingAssumption
      <4>1. errQueued' = errQueued - 1 /\ errQueued > 0
        BY <1>3 DEF ConsumeError
      <4>2. QED
        BY <3>1, <3>2, <3>3, <4>1
    <3>5. QED
      BY <2>2, <3>1, <3>4 DEF ErrorsOnlyForFailures
  <2>6. OInv' /\ ReportTypeOK' /\ FailureReported'
    BY <1>1, <1>3, <2>1, <2>3 DEF ConsumeError, RInv, ReportTypeOK, FailureReported
  <2>7. StampsCalled' /\ BatchSizeObservedOnce' /\ IsFiniteSet(Failed')
        /\ IsFiniteSet(StampPairs')
    BY <2>1, <2>2 DEF RInv, StampsCalled, BatchSizeObservedOnce, StampPairs
  <2>8. QED
    BY <2>5, <2>6, <2>7 DEF RInv
<1>4. ASSUME NEW f \in flights, NEW s \in Schemas, FlushGroupReport(f, s) PROVE RInv'
  <2>1. FlushGroup(f, s) /\ FlushReturn(f, s)
    BY <1>4 DEF FlushGroupReport
  <2>2. StampsCalled' /\ IsFiniteSet(StampPairs') /\ BatchSizeObservedOnce'
    BY <2>1, StampStep
  <2>3. sizeObs' \in Nat
    BY <2>2, FS_CardinalityType DEF BatchSizeObservedOnce, StampPairs
  <2>4. QED
    BY <1>1, <2>1, <2>2, <2>3, ReportStep DEF RInv
<1>5. QED
  BY <1>2, <1>3, <1>4 DEF RNext

-----------------------------------------------------------------------------
(* The reporting state stays typed: the error channel never holds more     *)
(* than the size the consumer passed to ErrorChan, for every size.         *)
THEOREM ReportTypeCorrect == RSpec => []ReportTypeOK
<1>1. RInv => ReportTypeOK
  BY DEF RInv
<1>2. QED
  BY RInvInit, RInvStep, <1>1, PTL DEF RSpec

(* A failed or abandoned request always belongs to a flushFunc call that   *)
(* returned an error, for every number of requests, schemas and flushes:   *)
(* flushFunc's ctx check and ExecuteBatch's error both end the call, and   *)
(* go-pipeline hands the error on or drops it.                             *)
THEOREM FailuresReported == RSpec => []FailureReported
<1>1. RInv => FailureReported
  BY DEF RInv
<1>2. QED
  BY RInvInit, RInvStep, <1>1, PTL DEF RSpec

=============================================================================
