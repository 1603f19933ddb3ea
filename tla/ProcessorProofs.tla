---------------------------- MODULE ProcessorProofs ----------------------------
(***************************************************************************)
(* Proofs about the Processor module for every set of concurrent calls,   *)
(* every MaxOps and both backends: calls are typed, the sentinel is never *)
(* returned for an outer cancellation or deadline, and the SQL processor   *)
(* tells its own timeout from an outer one.                                *)
(***************************************************************************)
EXTENDS Processor, TLAPS

USE ProcessorAssumption

(* The context errors a call can end with.                                 *)
CtxRets == {"Canceled", "DeadlineExceeded", "sentinel"}

(* The inductive invariant.  A call's own timer fires only inside          *)
(* ExecuteOperations, so before it no call has timed out; a returned       *)
(* sentinel comes from a call that timed out; the SQL processor never      *)
(* enters the Redis loop, and a context error it returned is the sentinel  *)
(* exactly when its own timer had fired.                                   *)
IInv ==
    /\ TypeOK
    /\ \A c \in Calls :
          /\ pc[c] \in {"generate", "execute"} => ~timedOut[c]
          /\ pc[c] = "done" /\ ret[c] = "sentinel" => timedOut[c]
          /\ Backend = "sql" =>
                /\ pc[c] # "loop"
                /\ pc[c] = "done" /\ ret[c] \in CtxRets =>
                      (ret[c] = "sentinel" <=> timedOut[c])

(* What a driver or a round trip returns never is the sentinel.            *)
LEMMA IoResultsNoSentinel ==
    ASSUME TypeOK, NEW c \in Calls, NEW e \in Results \ {"sentinel"}
    PROVE  /\ IoResults(c, e) \subseteq Results \ {"sentinel"}
           /\ ~timedOut[c] => IoResults(c, e) \subseteq {"nil", e, outerCause}
BY DEF IoResults, CtxErr, CauseOf, TypeOK, Results, Causes

LEMMA IInvInit == Init => IInv
BY DEF Init, IInv, TypeOK, Causes, Results, Pcs

(* The steps of a call that do not return leave every returned call as it *)
(* was; steps that return set only that call's ret and pc.                 *)
LEMMA IInvStep == IInv /\ [Next]_vars => IInv'
<1> SUFFICES ASSUME IInv, [Next]_vars PROVE IInv'
  OBVIOUS
<1>1. ASSUME NEW c \in Calls, GenerateOperations(c) PROVE IInv'
  <2>1. CASE ~schemaOK[c]
    BY <1>1, <2>1 DEF GenerateOperations, Return, IInv, TypeOK, Results, Pcs
  <2>2. CASE schemaOK[c]
    <3>a. PICK r \in IoResults(c, "driverErr") :
             IF r # "nil"
             THEN Return(c, r) /\ UNCHANGED ops
             ELSE /\ \E n \in OpCounts :
                       ops' = [ops EXCEPT ![c] = n]
                  /\ pc' = [pc EXCEPT ![c] = "execute"]
                  /\ UNCHANGED ret
      BY <1>1, <2>2 DEF GenerateOperations
    <3>b. ~timedOut[c] /\ TypeOK
      BY <1>1 DEF GenerateOperations, IInv
    <3>c. r \in {"nil", "driverErr", outerCause} /\ r \in Results \ {"sentinel"}
      BY <3>a, <3>b, IoResultsNoSentinel DEF Results
    <3>d. CASE r # "nil"
      BY <1>1, <3>a, <3>c, <3>d DEF GenerateOperations, Return, IInv, TypeOK, Pcs,
         CtxRets, Causes
    <3>e. CASE r = "nil"
      BY <1>1, <3>a, <3>e DEF GenerateOperations, OpCounts, IInv, TypeOK, Pcs
    <3>f. QED
      BY <3>d, <3>e
  <2>3. QED
    BY <2>1, <2>2 DEF IInv, TypeOK
<1>2. ASSUME NEW c \in Calls, SQLExecute(c) PROVE IInv'
  BY <1>2 DEF SQLExecute, Return, IInv, TypeOK, Results, Pcs, CtxRets
<1>3. ASSUME NEW c \in Calls, SQLExecContext(c) PROVE IInv'
  <2>a. PICK r \in IoResults(c, "dbErr") : Return(c, Surface(c, r))
    BY <1>3 DEF SQLExecContext
  <2>b. Surface(c, r) \in Results
    BY IoResultsNoSentinel DEF IInv, TypeOK, Surface, CauseOf, Results, Causes
  <2>c. Surface(c, r) = "sentinel" => timedOut[c]
    BY IoResultsNoSentinel DEF IInv, Surface, CauseOf, Results, TypeOK, Causes
  <2>d. Surface(c, r) \in CtxRets /\ timedOut[c] => Surface(c, r) = "sentinel"
    BY DEF IoResults, Surface, CauseOf, CtxErr, CtxRets
  <2>e. QED
    BY <1>3, <2>a, <2>b, <2>c, <2>d DEF SQLExecContext, Return, IInv, TypeOK, Pcs
<1>4. ASSUME NEW c \in Calls, RedisExecute(c) PROVE IInv'
  BY <1>4 DEF RedisExecute, IInv, TypeOK, Pcs
<1>5. ASSUME NEW c \in Calls, RedisEnqueue(c) PROVE IInv'
  <2>1. Backend = "redis" /\ queued[c] < ops[c]
    BY <1>5 DEF RedisEnqueue, IInv, ProcessorAssumption
  <2>2. CASE CauseOf(c) # "none"
    <3>1. CtxErr(CauseOf(c)) \in {"Canceled", "DeadlineExceeded"}
      BY DEF CtxErr
    <3>2. QED
      BY <1>5, <2>1, <2>2, <3>1 DEF RedisEnqueue, Return, IInv, TypeOK, Pcs, Results
  <2>3. CASE CauseOf(c) = "none"
    BY <1>5, <2>1, <2>3 DEF RedisEnqueue, IInv, TypeOK
  <2>4. QED
    BY <2>2, <2>3
<1>6. ASSUME NEW c \in Calls, RedisExec(c) PROVE IInv'
  <2>a. PICK r \in IoResults(c, "cmdErr") : Return(c, Surface(c, r))
    BY <1>6 DEF RedisExec
  <2>b. Backend = "redis"
    BY <1>6 DEF RedisExec, IInv
  <2>c. Surface(c, r) \in Results /\ (Surface(c, r) = "sentinel" => timedOut[c])
    BY IoResultsNoSentinel DEF IInv, TypeOK, Surface, CauseOf, Results, Causes
  <2>d. QED
    BY <1>6, <2>a, <2>b, <2>c DEF RedisExec, Return, IInv, TypeOK, Pcs
<1>7. ASSUME NEW c \in Calls, ChildTimeout(c) PROVE IInv'
  BY <1>7 DEF ChildTimeout, IInv, TypeOK
<1>8. CASE OuterDone
  BY <1>8 DEF OuterDone, IInv, TypeOK, Causes
<1>9. CASE Finished \/ UNCHANGED vars
  BY <1>9 DEF Finished, vars, IInv, TypeOK
<1>10. QED
  BY <1>1, <1>2, <1>3, <1>4, <1>5, <1>6, <1>7, <1>8, <1>9 DEF Next

-----------------------------------------------------------------------------
(* Every call stays typed: ops and queued stay within 0..MaxOps, so the    *)
(* Redis loop never enqueues past the last operation.                      *)
THEOREM ProcessorTypeCorrect == Spec => []TypeOK
<1>1. IInv => TypeOK
  BY DEF IInv
<1>2. QED
  BY IInvInit, IInvStep, <1>1, PTL DEF Spec

(* Neither processor returns the "execute batch timeout" sentinel for an   *)
(* outer cancellation or deadline, however the timers race.                *)
THEOREM OwnTimeoutOnly == Spec => []SentinelOnlyOwnTimeout
<1>1. IInv => SentinelOnlyOwnTimeout
  BY DEF IInv, SentinelOnlyOwnTimeout
<1>2. QED
  BY IInvInit, IInvStep, <1>1, PTL DEF Spec

(* The SQL processor returns the sentinel for a context error exactly when *)
(* its own timeout fired first, so the classifier retries exactly its own  *)
(* timeouts.                                                               *)
THEOREM SQLCauseSurfaced ==
    ASSUME Backend = "sql" PROVE Spec => []TimeoutCauseSurfaced
<1>1. IInv => TimeoutCauseSurfaced
  <2> SUFFICES ASSUME IInv, NEW c \in Calls, pc[c] = "done", ret[c] \in CtxRets
               PROVE  ret[c] = "sentinel" <=> CauseOf(c) = "sentinel"
    BY DEF TimeoutCauseSurfaced, CtxRets
  <2>1. ret[c] = "sentinel" <=> timedOut[c]
    BY DEF IInv
  <2>2. CauseOf(c) = "sentinel" <=> timedOut[c]
    BY DEF IInv, TypeOK, CauseOf, Causes
  <2>3. QED
    BY <2>1, <2>2
<1>2. QED
  BY IInvInit, IInvStep, <1>1, PTL DEF Spec

=============================================================================
