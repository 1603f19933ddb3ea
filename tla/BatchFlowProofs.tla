---------------------------- MODULE BatchFlowProofs ----------------------------
(***************************************************************************)
(* Proofs about the BatchFlow module for every value of its constants.     *)
(***************************************************************************)
EXTENDS BatchFlow, FiniteSetTheorems, TLAPS

USE ConstantsAssumption

(* A flight built by Dispatch from a batch of requests is a Flight.        *)
LEMMA DispatchedFlight ==
    ASSUME NEW b \in Seq(Requests)
    PROVE  [batch |-> b, todo |-> GroupKeys(b)] \in Flight
BY DEF Flight, GroupKeys

(* Dispatch keeps flights a set of Flights.                                *)
LEMMA DispatchType ==
    ASSUME flights \subseteq Flight, NEW b \in Seq(Requests), Dispatch(b)
    PROVE  flights' \subseteq Flight
BY DispatchedFlight DEF Dispatch

(* A row index is a natural number.                                      *)
LEMMA RowIdxNat ==
    ASSUME NEW b \in Seq(Requests), NEW s, NEW i
    PROVE  RowIdx(b, s, i) \in Nat
<1>1. {j \in GroupIdx(b, s) : j <= i} \subseteq 1..Len(b)
  BY DEF GroupIdx
<1>2. IsFiniteSet({j \in GroupIdx(b, s) : j <= i})
  BY <1>1, FS_Interval, FS_Subset
<1>3. QED
  BY <1>2, FS_CardinalityType DEF RowIdx

-----------------------------------------------------------------------------
(* The requests a sequence holds.                                          *)
Elems(q) == {q[i] : i \in DOMAIN q}

(* A sequence holds each request at most once.                             *)
NoDup(q) == \A i, j \in DOMAIN q : q[i] = q[j] => i = j

(* Requests in the batches of running flushes.                             *)
InFlights == UNION {Elems(f.batch) : f \in flights}

(* What Append, Tail and concatenation do to the requests of a sequence   *)
(* and to having no duplicates.                                            *)
LEMMA ElemsEmpty == Elems(<<>>) = {}
BY DEF Elems

LEMMA ElemsAppend ==
    ASSUME NEW S, NEW q \in Seq(S), NEW x \in S
    PROVE  /\ Elems(Append(q, x)) = Elems(q) \cup {x}
           /\ NoDup(q) /\ x \notin Elems(q) => NoDup(Append(q, x))
<1> DEFINE a == Append(q, x)
<1>1. DOMAIN a = 1..Len(q) + 1 /\ a[Len(q) + 1] = x
      /\ \A i \in 1..Len(q) : a[i] = q[i]
  OBVIOUS
<1>2. Elems(a) = Elems(q) \cup {x}
  <2>1. Elems(a) \subseteq Elems(q) \cup {x}
    BY <1>1 DEF Elems
  <2>2. Elems(q) \cup {x} \subseteq Elems(a)
    BY <1>1 DEF Elems
  <2>3. QED
    BY <2>1, <2>2
<1>3. ASSUME NoDup(q), x \notin Elems(q) PROVE NoDup(a)
  <2> SUFFICES ASSUME NEW i \in DOMAIN a, NEW j \in DOMAIN a, a[i] = a[j]
               PROVE  i = j
    BY DEF NoDup
  <2>1. CASE i <= Len(q) /\ j <= Len(q)
    BY <1>1, <1>3, <2>1 DEF NoDup
  <2>2. CASE i <= Len(q) /\ j = Len(q) + 1
    <3>1. q[i] \in Elems(q) /\ q[i] = x
      BY <1>1, <2>2 DEF Elems
    <3>2. QED
      BY <1>3, <3>1
  <2>3. CASE i = Len(q) + 1 /\ j <= Len(q)
    <3>1. q[j] \in Elems(q) /\ q[j] = x
      BY <1>1, <2>3 DEF Elems
    <3>2. QED
      BY <1>3, <3>1
  <2>4. QED
    BY <1>1, <2>1, <2>2, <2>3
<1>4. QED
  BY <1>2, <1>3

LEMMA ElemsTail ==
    ASSUME NEW S, NEW q \in Seq(S), q # <<>>
    PROVE  /\ Elems(q) = Elems(Tail(q)) \cup {Head(q)}
           /\ NoDup(q) => NoDup(Tail(q)) /\ Head(q) \notin Elems(Tail(q))
<1> DEFINE t == Tail(q)
<1>1. Len(q) >= 1 /\ DOMAIN t = 1..Len(q) - 1 /\ \A i \in 1..Len(q) - 1 : t[i] = q[i + 1]
      /\ Head(q) = q[1]
  OBVIOUS
<1>2. Elems(q) = Elems(t) \cup {Head(q)}
  <2>1. Elems(q) \subseteq Elems(t) \cup {Head(q)}
    <3> SUFFICES ASSUME NEW i \in DOMAIN q PROVE q[i] \in Elems(t) \cup {Head(q)}
      BY DEF Elems
    <3>1. CASE i = 1
      BY <1>1, <3>1
    <3>2. CASE i > 1
      <4>1. i - 1 \in DOMAIN t /\ t[i - 1] = q[i]
        BY <1>1, <3>2
      <4>2. QED
        BY <4>1 DEF Elems
    <3>3. QED
      BY <3>1, <3>2
  <2>2. Elems(t) \cup {Head(q)} \subseteq Elems(q)
    BY <1>1 DEF Elems
  <2>3. QED
    BY <2>1, <2>2
<1>3. ASSUME NoDup(q) PROVE NoDup(t) /\ Head(q) \notin Elems(t)
  <2>1. NoDup(t)
    BY <1>1, <1>3 DEF NoDup
  <2>2. Head(q) \notin Elems(t)
    <3> SUFFICES ASSUME NEW i \in DOMAIN t, t[i] = Head(q) PROVE FALSE
      BY DEF Elems
    <3>1. i + 1 \in DOMAIN q /\ 1 \in DOMAIN q /\ q[i + 1] = q[1] /\ i + 1 # 1
      BY <1>1
    <3>2. QED
      BY <1>3, <3>1 DEF NoDup
  <2>3. QED
    BY <2>1, <2>2
<1>4. QED
  BY <1>2, <1>3

LEMMA ElemsConcat ==
    ASSUME NEW S, NEW q \in Seq(S), NEW t \in Seq(S)
    PROVE  /\ Elems(q \o t) = Elems(q) \cup Elems(t)
           /\ NoDup(q) /\ NoDup(t) /\ Elems(q) \cap Elems(t) = {}
              => NoDup(q \o t)
<1>1. Elems(q \o t) = Elems(q) \cup Elems(t)
  <2>1. Elems(q \o t) \subseteq Elems(q) \cup Elems(t)
    <3> SUFFICES ASSUME NEW i \in DOMAIN (q \o t)
                 PROVE  (q \o t)[i] \in Elems(q) \cup Elems(t)
      BY DEF Elems
    <3>1. CASE i <= Len(q)
      BY <3>1 DEF Elems
    <3>2. CASE i > Len(q)
      <4>1. i - Len(q) \in DOMAIN t /\ (q \o t)[i] = t[i - Len(q)]
        BY <3>2
      <4>2. QED
        BY <4>1 DEF Elems
    <3>3. QED
      BY <3>1, <3>2
  <2>2. Elems(q) \subseteq Elems(q \o t)
    BY DEF Elems
  <2>3. Elems(t) \subseteq Elems(q \o t)
    <3> SUFFICES ASSUME NEW i \in DOMAIN t PROVE t[i] \in Elems(q \o t)
      BY DEF Elems
    <3>1. i + Len(q) \in DOMAIN (q \o t) /\ (q \o t)[i + Len(q)] = t[i]
      OBVIOUS
    <3>2. QED
      BY <3>1 DEF Elems
  <2>4. QED
    BY <2>1, <2>2, <2>3
<1>2. ASSUME NoDup(q), NoDup(t), Elems(q) \cap Elems(t) = {}
      PROVE  NoDup(q \o t)
  <2> SUFFICES ASSUME NEW i \in DOMAIN (q \o t), NEW j \in DOMAIN (q \o t),
                      (q \o t)[i] = (q \o t)[j]
               PROVE  i = j
    BY DEF NoDup
  <2>1. CASE i <= Len(q) /\ j <= Len(q)
    BY <1>2, <2>1 DEF NoDup
  <2>2. CASE i > Len(q) /\ j > Len(q)
    <3>1. i - Len(q) \in DOMAIN t /\ j - Len(q) \in DOMAIN t
      BY <2>2
    <3>2. t[i - Len(q)] = t[j - Len(q)]
      BY <2>2
    <3>3. QED
      BY <1>2, <3>1, <3>2 DEF NoDup
  <2>3. CASE i <= Len(q) /\ j > Len(q)
    <3>1. q[i] \in Elems(q) /\ t[j - Len(q)] \in Elems(t) /\ q[i] = t[j - Len(q)]
      BY <2>3 DEF Elems
    <3>2. QED
      BY <1>2, <3>1
  <2>4. CASE i > Len(q) /\ j <= Len(q)
    <3>1. q[j] \in Elems(q) /\ t[i - Len(q)] \in Elems(t) /\ q[j] = t[i - Len(q)]
      BY <2>4 DEF Elems
    <3>2. QED
      BY <1>2, <3>1
  <2>5. QED
    BY <2>1, <2>2, <2>3, <2>4
<1>3. QED
  BY <1>1, <1>2

(* Requests waiting in the data channel or in the loop's batch.           *)
Queued == Elems(dataChan) \cup Elems(batchData)

(* The channel and the batch hold each request once and share none.       *)
QueueDisjoint ==
    /\ NoDup(dataChan) /\ NoDup(batchData)
    /\ Elems(dataChan) \cap Elems(batchData) = {}

(* A running flush holds each request once and none that is still queued; *)
(* two running flushes share no request.                                   *)
FlightsDisjoint ==
    /\ \A f \in flights : NoDup(f.batch) /\ Elems(f.batch) \cap Queued = {}
    /\ \A f, g \in flights : f # g => Elems(f.batch) \cap Elems(g.batch) = {}

(* Nothing still queued or still waiting in a flush has been stamped.      *)
WaitingUnstamped ==
    /\ \A r \in Queued : stamps[r] = {}
    /\ \A f \in flights : \A r \in Pending(f) : stamps[r] = {}

(* Only a request whose Submit returned nil is queued, in flight or        *)
(* stamped.                                                                *)
LocatedAccepted ==
    \A r \in Requests :
        r \in Queued \cup InFlights \/ stamps[r] # {} => submit[r] = "ok"

(* The inductive strengthening of DeliveredAtMostOnce: every accepted      *)
(* request sits in at most one of the channel, the batch and one flight,   *)
(* and is stamped only once its group was executed.                        *)
IInv ==
    /\ TypeOK
    /\ QueueDisjoint
    /\ FlightsDisjoint
    /\ WaitingUnstamped
    /\ LocatedAccepted
    /\ DeliveredAtMostOnce

-----------------------------------------------------------------------------
(* The initial states are well typed.                                     *)
LEMMA TypeInit == Init => TypeOK
<1> SUFFICES ASSUME Init PROVE TypeOK
  OBVIOUS
<1> USE DEF Init
<1>1. submit \in [Requests -> SubmitStates] /\ outcome \in [Requests -> Outcomes]
  BY DEF SubmitStates, Outcomes
<1>2. /\ engineCtxDone \in BOOLEAN /\ closed \in BOOLEAN
      /\ submitCtxDone \in [Requests -> BOOLEAN]
  OBVIOUS
<1>3. /\ dataChan \in Seq(Requests) /\ Len(dataChan) <= BufferSize
      /\ batchData \in Seq(Requests) /\ Len(batchData) <= FlushSize
  OBVIOUS
<1>4. /\ loop \in {"running", "stopped"} /\ flights \subseteq Flight
      /\ sent \in Seq(Requests) /\ calls \in Nat
      /\ stamps \in [Requests -> SUBSET (Nat \X Nat)]
  OBVIOUS
<1>5. QED
  BY <1>1, <1>2, <1>3, <1>4 DEF TypeOK

(* Every step keeps the state well typed.                                  *)
LEMMA TypeStep == TypeOK /\ [Next]_vars => TypeOK'
<1> SUFFICES ASSUME TypeOK, [Next]_vars PROVE TypeOK'
  OBVIOUS
<1>1. ASSUME NEW r \in Requests, SubmitCheck(r) PROVE TypeOK'
  BY <1>1 DEF SubmitCheck, TypeOK, SubmitStates
<1>2. ASSUME NEW r \in Requests, SubmitSend(r) PROVE TypeOK'
  BY <1>2 DEF SubmitSend, TypeOK, SubmitStates
<1>3. ASSUME NEW r \in Requests, SubmitCancelled(r) PROVE TypeOK'
  BY <1>3 DEF SubmitCancelled, TypeOK, SubmitStates
<1>4. ASSUME NEW r \in Requests, CancelSubmitCtx(r) PROVE TypeOK'
  BY <1>4 DEF CancelSubmitCtx, TypeOK
<1>5. CASE CancelEngineCtx
  BY <1>5 DEF CancelEngineCtx, TypeOK
<1>6. CASE LatchClosed
  BY <1>6 DEF LatchClosed, TypeOK
<1>7. CASE Receive
  BY <1>7 DEF Receive, TypeOK
<1>8. CASE FlushOnSize
  <2>1. flights' \subseteq Flight
    BY <1>8, DispatchType DEF FlushOnSize, TypeOK
  <2>2. QED
    BY <1>8, <2>1 DEF FlushOnSize, TypeOK
<1>9. CASE FlushOnTick
  <2>1. flights' \subseteq Flight
    BY <1>9, DispatchType DEF FlushOnTick, TypeOK
  <2>2. QED
    BY <1>9, <2>1 DEF FlushOnTick, TypeOK
<1>10. CASE Shutdown
  <2> DEFINE rest == batchData \o dataChan
  <2>1. rest \in Seq(Requests)
    BY DEF TypeOK
  <2>2. flights' \subseteq Flight
    <3>1. CASE rest = <<>>
      BY <1>10, <3>1 DEF Shutdown, TypeOK
    <3>2. CASE rest # <<>>
      BY <1>10, <2>1, <3>2, DispatchType DEF Shutdown, TypeOK
    <3>3. QED
      BY <3>1, <3>2
  <2>3. QED
    BY <1>10, <2>2 DEF Shutdown, TypeOK
<1>11. ASSUME NEW f \in flights, NEW s \in Schemas, FlushGroup(f, s)
       PROVE  TypeOK'
  <2>1. f \in Flight
    BY DEF TypeOK
  <2>2. [batch |-> f.batch, todo |-> f.todo \ {s}] \in Flight
    BY <2>1 DEF Flight
  <2>3. UNCHANGED <<engineCtxDone, closed, submitCtxDone, submit, dataChan,
                    batchData, loop, sent>>
    BY <1>11 DEF FlushGroup
  <2>4. CASE FlushAbort(f)
    <3>1. flights' \subseteq Flight /\ outcome' \in [Requests -> Outcomes]
      BY <2>4 DEF FlushAbort, Mark, TypeOK, Outcomes
    <3>2. QED
      BY <2>3, <2>4, <3>1 DEF FlushAbort, TypeOK
  <2>5. CASE FlushExecute(f, s)
    <3>1. flights' \subseteq Flight
      BY <2>2, <2>5 DEF FlushExecute, TypeOK
    <3>2. outcome' \in [Requests -> Outcomes]
      BY <2>5 DEF FlushExecute, Mark, TypeOK, Outcomes
    <3>3. \A i \in DOMAIN f.batch : RowIdx(f.batch, s, i) \in Nat
      BY <2>1, RowIdxNat DEF Flight
    <3>4. stamps' \in [Requests -> SUBSET (Nat \X Nat)]
      BY <2>5, <3>3 DEF FlushExecute, TypeOK, GroupIdx
    <3>5. calls' \in Nat
      BY <2>5 DEF FlushExecute, TypeOK
    <3>6. QED
      BY <2>3, <3>1, <3>2, <3>4, <3>5 DEF TypeOK
  <2>6. QED
    BY <1>11, <2>4, <2>5 DEF FlushGroup
<1>12. CASE Quiescent
  BY <1>12 DEF Quiescent, TypeOK, vars
<1>13. CASE UNCHANGED vars
  BY <1>13 DEF TypeOK, vars
<1>14. QED
  BY <1>1, <1>2, <1>3, <1>4, <1>5, <1>6, <1>7, <1>8, <1>9, <1>10, <1>11,
     <1>12, <1>13 DEF Next

-----------------------------------------------------------------------------
(* A flush's pending requests are requests of its batch.                   *)
LEMMA PendingInBatch ==
    ASSUME NEW f \in Flight
    PROVE  Pending(f) \subseteq Elems(f.batch)
BY DEF Pending, GroupIdx, Elems

(* The initial states satisfy the inductive invariant.                     *)
LEMMA IInvInit == Init => IInv
<1> SUFFICES ASSUME Init PROVE IInv
  OBVIOUS
<1>1. TypeOK
  BY TypeInit
<1>2. Queued = {} /\ InFlights = {}
  BY ElemsEmpty DEF Init, Queued, InFlights
<1>3. QueueDisjoint
  BY ElemsEmpty DEF Init, QueueDisjoint, NoDup
<1>4. FlightsDisjoint /\ WaitingUnstamped
  BY <1>2 DEF Init, FlightsDisjoint, WaitingUnstamped
<1>5. LocatedAccepted /\ DeliveredAtMostOnce
  BY <1>2 DEF Init, LocatedAccepted, DeliveredAtMostOnce
<1>6. QED
  BY <1>1, <1>3, <1>4, <1>5 DEF IInv

(* A step that leaves the queues and the stamps alone, only ends flushes   *)
(* and never takes back a nil return of Submit keeps the invariant.        *)
LEMMA FrameIInv ==
    ASSUME IInv, TypeOK', UNCHANGED <<dataChan, batchData, stamps>>,
           flights' \subseteq flights,
           \A q \in Requests : submit[q] = "ok" => submit'[q] = "ok"
    PROVE  IInv'
<1>1. Queued' = Queued
  BY DEF Queued
<1>2. QueueDisjoint'
  BY DEF IInv, QueueDisjoint
<1>3. FlightsDisjoint'
  BY <1>1 DEF IInv, FlightsDisjoint
<1>4. WaitingUnstamped'
  BY <1>1 DEF IInv, WaitingUnstamped
<1>5. InFlights' \subseteq InFlights
  BY DEF InFlights
<1>6. LocatedAccepted'
  BY <1>1, <1>5 DEF IInv, LocatedAccepted
<1>7. DeliveredAtMostOnce'
  BY DEF IInv, DeliveredAtMostOnce
<1>8. QED
  BY <1>2, <1>3, <1>4, <1>6, <1>7 DEF IInv

(* A send puts into the channel a request found nowhere else: its Submit  *)
(* has not returned nil, so it is neither queued, in flight nor stamped.   *)
LEMMA SubmitSendIInv ==
    ASSUME IInv, TypeOK', NEW r \in Requests, SubmitSend(r)
    PROVE  IInv'
<1> USE DEF SubmitSend
<1>1. r \notin Elems(dataChan) /\ r \notin Elems(batchData) /\ r \notin InFlights
      /\ stamps[r] = {}
  BY DEF IInv, LocatedAccepted, Queued
<1>2. Elems(dataChan') = Elems(dataChan) \cup {r} /\ NoDup(dataChan')
  BY <1>1, ElemsAppend DEF IInv, TypeOK, QueueDisjoint
<1>3. Queued' = Queued \cup {r}
  BY <1>2 DEF Queued
<1>4. QueueDisjoint'
  BY <1>1, <1>2 DEF IInv, QueueDisjoint
<1>5. FlightsDisjoint'
  <2>1. \A f \in flights : r \notin Elems(f.batch)
    BY <1>1 DEF InFlights
  <2>2. QED
    BY <1>3, <2>1 DEF IInv, FlightsDisjoint
<1>6. WaitingUnstamped'
  BY <1>1, <1>3 DEF IInv, WaitingUnstamped
<1>7. LocatedAccepted'
  <2>1. InFlights' = InFlights
    BY DEF InFlights
  <2>2. QED
    BY <1>3, <2>1 DEF IInv, LocatedAccepted, TypeOK
<1>8. DeliveredAtMostOnce'
  BY DEF IInv, DeliveredAtMostOnce
<1>9. QED
  BY <1>4, <1>5, <1>6, <1>7, <1>8 DEF IInv

(* The loop's receive moves the channel's head to the end of the batch:   *)
(* the queued requests stay the same set, each still held once.           *)
LEMMA ReceiveIInv ==
    ASSUME IInv, TypeOK', Receive
    PROVE  IInv'
<1> USE DEF Receive
<1> DEFINE h == Head(dataChan)
<1>1. h \in Requests /\ dataChan \in Seq(Requests) /\ batchData \in Seq(Requests)
  BY DEF IInv, TypeOK
<1>2. /\ Elems(dataChan) = Elems(Tail(dataChan)) \cup {h}
      /\ NoDup(Tail(dataChan)) /\ h \notin Elems(Tail(dataChan))
  BY <1>1, ElemsTail DEF IInv, QueueDisjoint
<1>3. h \notin Elems(batchData)
  BY <1>2 DEF IInv, QueueDisjoint
<1>4. Elems(batchData') = Elems(batchData) \cup {h} /\ NoDup(batchData')
  BY <1>1, <1>3, ElemsAppend DEF IInv, QueueDisjoint
<1>5. Queued' = Queued
  BY <1>2, <1>4 DEF Queued
<1>6. QueueDisjoint'
  BY <1>2, <1>3, <1>4 DEF IInv, QueueDisjoint
<1>7. FlightsDisjoint' /\ WaitingUnstamped'
  BY <1>5 DEF IInv, FlightsDisjoint, WaitingUnstamped
<1>8. LocatedAccepted' /\ DeliveredAtMostOnce'
  <2>1. InFlights' = InFlights
    BY DEF InFlights
  <2>2. QED
    BY <1>5, <2>1 DEF IInv, LocatedAccepted, DeliveredAtMostOnce
<1>9. QED
  BY <1>6, <1>7, <1>8 DEF IInv

(* Dispatching a batch b that is taken out of the queues starts a flush    *)
(* whose requests are found nowhere else and are all unstamped.            *)
LEMMA DispatchIInv ==
    ASSUME IInv, TypeOK', QueueDisjoint',
           NEW b \in Seq(Requests), NoDup(b), Elems(b) \subseteq Queued,
           Queued' = Queued \ Elems(b),
           flights' = flights \cup {[batch |-> b, todo |-> GroupKeys(b)]},
           UNCHANGED <<submit, stamps>>
    PROVE  IInv'
<1> DEFINE nf == [batch |-> b, todo |-> GroupKeys(b)]
<1>1. \A g \in flights : Elems(g.batch) \cap Elems(b) = {}
  BY DEF IInv, FlightsDisjoint
<1>2. FlightsDisjoint'
  <2>1. \A f \in flights' : NoDup(f.batch) /\ Elems(f.batch) \cap Queued' = {}
    BY DEF IInv, FlightsDisjoint
  <2>2. ASSUME NEW f \in flights', NEW g \in flights', f # g
        PROVE  Elems(f.batch) \cap Elems(g.batch) = {}
    <3>1. CASE f \in flights /\ g \in flights
      BY <2>2, <3>1 DEF IInv, FlightsDisjoint
    <3>2. CASE f = nf /\ g \in flights
      BY <1>1, <3>2
    <3>3. CASE f \in flights /\ g = nf
      BY <1>1, <3>3
    <3>4. QED
      BY <2>2, <3>1, <3>2, <3>3
  <2>3. QED
    BY <2>1, <2>2 DEF FlightsDisjoint
<1>3. WaitingUnstamped'
  <2>1. Pending(nf) \subseteq Queued
    BY PendingInBatch, DispatchedFlight
  <2>2. QED
    BY <2>1 DEF IInv, WaitingUnstamped
<1>4. LocatedAccepted' /\ DeliveredAtMostOnce'
  <2>1. InFlights' \subseteq InFlights \cup Elems(b)
    BY DEF InFlights
  <2>2. QED
    BY <2>1 DEF IInv, LocatedAccepted, DeliveredAtMostOnce
<1>5. QED
  BY <1>2, <1>3, <1>4 DEF IInv

(* A flush on size or on a tick hands the whole batch to a new flush.      *)
LEMMA FlushBatchIInv ==
    ASSUME IInv, TypeOK', FlushOnSize \/ FlushOnTick
    PROVE  IInv'
<1>1. /\ flights' = flights \cup {[batch |-> batchData, todo |-> GroupKeys(batchData)]}
      /\ batchData' = <<>>
      /\ UNCHANGED <<dataChan, submit, stamps>>
  BY DEF FlushOnSize, FlushOnTick, Dispatch
<1>2. Elems(batchData') = {} /\ NoDup(batchData')
  BY <1>1, ElemsEmpty DEF NoDup
<1>3. QueueDisjoint'
  BY <1>1, <1>2 DEF IInv, QueueDisjoint
<1>4. Queued' = Queued \ Elems(batchData)
  BY <1>1, <1>2 DEF Queued, IInv, QueueDisjoint
<1>5. QED
  BY <1>1, <1>3, <1>4, DispatchIInv DEF IInv, TypeOK, QueueDisjoint, Queued

(* Shutdown hands the batch followed by the drained channel to one last   *)
(* flush, or starts none when both are empty.                              *)
LEMMA ShutdownIInv ==
    ASSUME IInv, TypeOK', Shutdown
    PROVE  IInv'
<1> DEFINE rest == batchData \o dataChan
<1>1. dataChan \in Seq(Requests) /\ batchData \in Seq(Requests)
  BY DEF IInv, TypeOK
<1>2. /\ dataChan' = <<>> /\ batchData' = <<>>
      /\ UNCHANGED <<submit, stamps>>
  BY DEF Shutdown
<1>3. CASE rest = <<>>
  <2>1. dataChan = <<>> /\ batchData = <<>> /\ flights' = flights
    BY <1>1, <1>3 DEF Shutdown
  <2>2. QED
    BY <1>2, <2>1, FrameIInv
<1>4. CASE rest # <<>>
  <2>1. flights' = flights \cup {[batch |-> rest, todo |-> GroupKeys(rest)]}
    BY <1>4 DEF Shutdown, Dispatch
  <2>2. Elems(rest) = Queued /\ NoDup(rest)
    BY <1>1, ElemsConcat DEF IInv, QueueDisjoint, Queued
  <2>3. QueueDisjoint' /\ Queued' = {}
    BY <1>2, ElemsEmpty DEF QueueDisjoint, NoDup, Queued
  <2>4. rest \in Seq(Requests) /\ Elems(rest) \subseteq Queued
        /\ Queued' = Queued \ Elems(rest)
    BY <1>1, <2>2, <2>3
  <2>5. QED
    BY <1>2, <2>1, <2>2, <2>3, <2>4, DispatchIInv
<1>5. QED
  BY <1>3, <1>4

(* One group of a flush: abandoning it only ends the flush; executing it   *)
(* stamps each of its rows once, and a row was pending, so it was          *)
(* unstamped, and is pending nowhere afterwards.                           *)
LEMMA FlushGroupIInv ==
    ASSUME IInv, TypeOK', NEW f \in flights, NEW s \in Schemas, FlushGroup(f, s)
    PROVE  IInv'
<1> DEFINE idx  == GroupIdx(f.batch, s)
           rows == {f.batch[i] : i \in idx}
           rest == [batch |-> f.batch, todo |-> f.todo \ {s}]
<1>1. f \in Flight /\ NoDup(f.batch) /\ s \in f.todo
  BY DEF IInv, TypeOK, FlightsDisjoint, FlushGroup
<1>2. /\ rows \subseteq Pending(f)
      /\ rows \subseteq Elems(f.batch)
      /\ Pending(rest) \subseteq Pending(f)
      /\ Pending(rest) \cap rows = {}
      /\ \A r \in rows : SchemaOf[r] = s
  BY <1>1 DEF Pending, GroupIdx, Elems
<1>3. /\ rows \cap Queued = {}
      /\ \A g \in flights \ {f} : rows \cap Elems(g.batch) = {}
  BY <1>2 DEF IInv, FlightsDisjoint
<1>4. UNCHANGED <<dataChan, batchData, submit>>
  BY DEF FlushGroup
<1>5. CASE flights' = flights \ {f} /\ UNCHANGED stamps
  BY <1>4, <1>5, FrameIInv
<1>6. CASE /\ calls' = calls + 1
           /\ stamps' = [r \in Requests |->
                          stamps[r] \cup {<<calls + 1, RowIdx(f.batch, s, i)>> :
                                           i \in {j \in idx : f.batch[j] = r}}]
           /\ flights' \subseteq (flights \ {f}) \cup {rest}
  <2>1. ASSUME NEW r \in Requests \ rows PROVE stamps'[r] = stamps[r]
    BY <1>6, <2>1
  <2>2. ASSUME NEW r \in rows
        PROVE  /\ stamps[r] = {}
               /\ \A x, y \in stamps'[r] : x = y
    <3>1. stamps[r] = {}
      BY <1>2 DEF IInv, WaitingUnstamped
    <3>2. \A i, j \in idx : f.batch[i] = r /\ f.batch[j] = r => i = j
      BY <1>1 DEF NoDup, GroupIdx
    <3>3. r \in Requests
      BY <1>1 DEF Flight, GroupIdx
    <3>4. stamps'[r] = {<<calls + 1, RowIdx(f.batch, s, i)>> : i \in {j \in idx : f.batch[j] = r}}
      BY <1>6, <3>1, <3>3
    <3>5. QED
      BY <3>1, <3>2, <3>4
  <2>3. Queued' = Queued /\ QueueDisjoint'
    BY <1>4 DEF Queued, IInv, QueueDisjoint
  <2>4. FlightsDisjoint'
    <3>1. \A g \in flights' : NoDup(g.batch) /\ Elems(g.batch) \cap Queued' = {}
      BY <1>1, <1>6, <2>3 DEF IInv, FlightsDisjoint
    <3>2. ASSUME NEW g \in flights', NEW h \in flights', g # h
          PROVE  Elems(g.batch) \cap Elems(h.batch) = {}
      <4>1. CASE g \in flights \ {f} /\ h \in flights \ {f}
        BY <3>2, <4>1 DEF IInv, FlightsDisjoint
      <4>2. CASE g = rest /\ h \in flights \ {f}
        BY <4>2 DEF IInv, FlightsDisjoint
      <4>3. CASE g \in flights \ {f} /\ h = rest
        BY <4>3 DEF IInv, FlightsDisjoint
      <4>4. QED
        BY <1>6, <3>2, <4>1, <4>2, <4>3
    <3>3. QED
      BY <3>1, <3>2 DEF FlightsDisjoint
  <2>5. WaitingUnstamped'
    <3>1. ASSUME NEW r \in Queued' PROVE stamps'[r] = {}
      <4>1. r \in Queued /\ r \notin rows
        BY <1>3, <2>3, <3>1
      <4>2. r \in Requests
        BY <4>1 DEF IInv, TypeOK, Queued, Elems
      <4>3. QED
        BY <2>1, <4>1, <4>2 DEF IInv, WaitingUnstamped
    <3>2. ASSUME NEW g \in flights', NEW r \in Pending(g) PROVE stamps'[r] = {}
      <4>1. CASE g = rest
        <5>1. r \in Pending(f) /\ r \notin rows
          BY <1>2, <3>2, <4>1
        <5>2. r \in Requests
          BY <1>1, <5>1, PendingInBatch DEF Flight, Elems
        <5>3. stamps[r] = {}
          BY <5>1 DEF IInv, WaitingUnstamped
        <5>4. QED
          BY <2>1, <5>1, <5>2, <5>3
      <4>2. CASE g \in flights \ {f}
        <5>1. g \in Flight
          BY <4>2 DEF IInv, TypeOK
        <5>2. r \in Elems(g.batch) /\ r \in Requests
          BY <3>2, <5>1, PendingInBatch DEF Flight, Elems
        <5>3. QED
          BY <1>3, <2>1, <3>2, <4>2, <5>2 DEF IInv, WaitingUnstamped
      <4>3. QED
        BY <1>6, <3>2, <4>1, <4>2
    <3>3. QED
      BY <3>1, <3>2 DEF WaitingUnstamped
  <2>6. LocatedAccepted'
    <3>1. InFlights' \subseteq InFlights
      BY <1>6 DEF InFlights
    <3>2. rows \subseteq InFlights
      BY <1>2 DEF InFlights
    <3>3. ASSUME NEW r \in Requests, stamps'[r] # {} PROVE submit[r] = "ok"
      <4>1. CASE r \in rows
        BY <3>2, <4>1 DEF IInv, LocatedAccepted
      <4>2. CASE r \notin rows
        BY <2>1, <3>3, <4>2 DEF IInv, LocatedAccepted
      <4>3. QED
        BY <4>1, <4>2
    <3>4. QED
      BY <1>4, <2>3, <3>1, <3>3 DEF IInv, LocatedAccepted
  <2>7. DeliveredAtMostOnce'
    BY <2>1, <2>2 DEF IInv, DeliveredAtMostOnce
  <2>8. QED
    BY <2>3, <2>4, <2>5, <2>6, <2>7 DEF IInv
<1>7. QED
  BY <1>5, <1>6 DEF FlushGroup, FlushAbort, FlushExecute

(* The type invariant holds initially and is kept by every step: the data  *)
(* channel and the batch stay within their capacities, flights are        *)
(* Flights and the histories keep their shape.                             *)
THEOREM TypeCorrect == Spec => []TypeOK
BY TypeInit, TypeStep, PTL DEF Spec

(* Every step keeps the inductive invariant.                               *)
LEMMA IInvStep == IInv /\ [Next]_vars => IInv'
<1> SUFFICES ASSUME IInv, [Next]_vars PROVE IInv'
  OBVIOUS
<1>1. TypeOK'
  BY TypeStep DEF IInv
<1>2. ASSUME NEW r \in Requests, SubmitCheck(r) \/ SubmitCancelled(r)
      PROVE  IInv'
  <2>1. submit[r] # "ok" /\ submit' = [submit EXCEPT ![r] = submit'[r]]
    BY <1>2 DEF SubmitCheck, SubmitCancelled
  <2>2. \A q \in Requests : submit[q] = "ok" => submit'[q] = "ok"
    BY <2>1 DEF IInv, TypeOK
  <2>3. UNCHANGED <<dataChan, batchData, stamps, flights>>
    BY <1>2 DEF SubmitCheck, SubmitCancelled
  <2>4. QED
    BY <1>1, <2>2, <2>3, FrameIInv
<1>3. ASSUME NEW r \in Requests, SubmitSend(r) PROVE IInv'
  BY <1>1, <1>3, SubmitSendIInv
<1>4. CASE \/ \E r \in Requests : CancelSubmitCtx(r)
           \/ CancelEngineCtx \/ LatchClosed \/ Quiescent \/ UNCHANGED vars
  <2>1. UNCHANGED <<dataChan, batchData, stamps, flights, submit>>
    BY <1>4 DEF CancelSubmitCtx, CancelEngineCtx, LatchClosed, Quiescent, vars
  <2>2. QED
    BY <1>1, <2>1, FrameIInv
<1>5. CASE Receive
  BY <1>1, <1>5, ReceiveIInv
<1>6. CASE FlushOnSize \/ FlushOnTick
  BY <1>1, <1>6, FlushBatchIInv
<1>7. CASE Shutdown
  BY <1>1, <1>7, ShutdownIInv
<1>8. ASSUME NEW f \in flights, NEW s \in Schemas, FlushGroup(f, s) PROVE IInv'
  BY <1>1, <1>8, FlushGroupIInv
<1>9. QED
  BY <1>2, <1>3, <1>4, <1>5, <1>6, <1>7, <1>8 DEF Next

(* No request is ever handed to ExecuteBatch twice, for every number of    *)
(* requests, schemas, buffer and batch sizes and concurrent flushes: the   *)
(* loop resets its batch after each flush, flushFunc runs each group once  *)
(* and a request enters the data channel only from its own Submit.         *)
THEOREM AtMostOnce == Spec => []DeliveredAtMostOnce
<1>1. Init => IInv
  BY IInvInit
<1>2. IInv /\ [Next]_vars => IInv'
  BY IInvStep
<1>3. IInv => DeliveredAtMostOnce
  BY DEF IInv
<1>4. QED
  BY <1>1, <1>2, <1>3, PTL DEF Spec

-----------------------------------------------------------------------------
(* A request whose outcome is set has left every queue and every group     *)
(* still to do, and its Submit returned nil; every group a flush has still *)
(* to do has rows in its batch.                                            *)
ResolvedOut ==
    \A r \in Requests : outcome[r] # "none" =>
        /\ submit[r] = "ok"
        /\ r \notin Queued
        /\ \A f \in flights : r \notin Pending(f)

TodoGrouped == \A f \in flights : f.todo \subseteq GroupKeys(f.batch)

(* The inductive invariant of OutcomeFinal.                                *)
OInv == IInv /\ ResolvedOut /\ TodoGrouped

(* The initial states satisfy OInv: nothing is resolved and no flush runs. *)
LEMMA OInvInit == Init => OInv
BY IInvInit DEF Init, OInv, ResolvedOut, TodoGrouped

(* A step that changes no outcome keeps ResolvedOut and TodoGrouped when   *)
(* it takes back no nil return of Submit, queues only requests whose       *)
(* Submit had not returned nil, and starts only flushes over queued        *)
(* requests with one group to do per schema of their batch.               *)
LEMMA ResolvedFrame ==
    ASSUME OInv, UNCHANGED outcome,
           \A q \in Requests : submit[q] = "ok" => submit'[q] = "ok",
           \A q \in Queued' : q \in Queued \/ submit[q] # "ok",
           \A g \in flights' : g \in flights \/
                                 (Pending(g) \subseteq Queued /\ g.todo \subseteq GroupKeys(g.batch))
    PROVE  ResolvedOut' /\ TodoGrouped'
<1>1. ResolvedOut'
  <2> SUFFICES ASSUME NEW r \in Requests, outcome'[r] # "none"
               PROVE  /\ submit'[r] = "ok" /\ r \notin Queued'
                      /\ \A g \in flights' : r \notin Pending(g)
    BY DEF ResolvedOut
  <2>1. submit[r] = "ok" /\ r \notin Queued /\ \A g \in flights : r \notin Pending(g)
    BY DEF OInv, ResolvedOut
  <2>2. QED
    BY <2>1
<1>2. TodoGrouped'
  BY DEF OInv, TodoGrouped
<1>3. QED
  BY <1>1, <1>2

(* A dispatch takes its batch from the queues: the new flush's groups are  *)
(* one per schema of the batch and its pending requests were queued.       *)
LEMMA DispatchQueued ==
    ASSUME NEW b \in Seq(Requests), Elems(b) \subseteq Queued,
           flights' = flights \cup {[batch |-> b, todo |-> GroupKeys(b)]}
    PROVE  \A g \in flights' : g \in flights \/
                                 (Pending(g) \subseteq Queued /\ g.todo \subseteq GroupKeys(g.batch))
BY PendingInBatch, DispatchedFlight

(* A flush step changes only outcomes of requests pending in it, keeps the *)
(* other flushes and at most adds the flush of its remaining groups, whose *)
(* requests it does not change.                                            *)
LEMMA FlushGroupChanges ==
    ASSUME OInv, NEW f \in flights, NEW s \in Schemas, FlushGroup(f, s)
    PROVE  LET rest == [batch |-> f.batch, todo |-> f.todo \ {s}]
           IN  /\ \A r \in Requests : outcome'[r] # outcome[r] => r \in Pending(f)
               /\ \A g \in flights' : g \in flights \ {f} \/ g = rest
               /\ rest \in flights' \ (flights \ {f}) =>
                     \A r \in Pending(rest) : outcome'[r] = outcome[r]
<1> DEFINE idx  == GroupIdx(f.batch, s)
           rows == {f.batch[i] : i \in idx}
           rest == [batch |-> f.batch, todo |-> f.todo \ {s}]
<1> SUFFICES /\ \A r \in Requests : outcome'[r] # outcome[r] => r \in Pending(f)
             /\ \A g \in flights' : g \in flights \ {f} \/ g = rest
             /\ rest \in flights' \ (flights \ {f}) =>
                   \A r \in Pending(rest) : outcome'[r] = outcome[r]
  OBVIOUS
<1>1. s \in f.todo
  BY DEF FlushGroup
<1>2. rows \subseteq Pending(f) /\ Pending(rest) \subseteq Pending(f)
      /\ Pending(rest) \cap rows = {}
  BY <1>1 DEF Pending, GroupIdx
<1>a. Pending(rest) \subseteq Requests
  <2>1. f \in Flight
    BY DEF OInv, IInv, TypeOK
  <2>2. QED
    BY <2>1 DEF Pending, GroupIdx, Flight
<1>3. CASE FlushAbort(f)
  BY <1>3 DEF FlushAbort, Mark
<1>4. CASE FlushExecute(f, s)
  <2>1. CASE /\ outcome' = Mark(rows, "executed")
             /\ flights' = IF rest.todo = {} THEN flights \ {f}
                           ELSE (flights \ {f}) \cup {rest}
    BY <1>2, <1>a, <2>1 DEF Mark
  <2>2. CASE /\ outcome' = [r \in Requests |->
                              IF r \in rows THEN "failed"
                              ELSE IF r \in Pending(rest) THEN "abandoned"
                              ELSE outcome[r]]
             /\ flights' = flights \ {f}
    BY <1>2, <1>a, <2>2
  <2>3. QED
    BY <1>4, <2>1, <2>2 DEF FlushExecute
<1>5. QED
  BY <1>3, <1>4 DEF FlushGroup

(* A flush step keeps ResolvedOut and TodoGrouped: what it resolves was   *)
(* pending in it alone, so it is neither queued nor pending elsewhere, and *)
(* it was in flight, so its Submit returned nil.                           *)
LEMMA FlushGroupOInv ==
    ASSUME OInv, NEW f \in flights, NEW s \in Schemas, FlushGroup(f, s)
    PROVE  ResolvedOut' /\ TodoGrouped'
<1> DEFINE rest == [batch |-> f.batch, todo |-> f.todo \ {s}]
<1>1. /\ \A r \in Requests : outcome'[r] # outcome[r] => r \in Pending(f)
      /\ \A g \in flights' : g \in flights \ {f} \/ g = rest
      /\ rest \in flights' \ (flights \ {f}) =>
            \A r \in Pending(rest) : outcome'[r] = outcome[r]
  BY FlushGroupChanges
<1>2. UNCHANGED <<submit, dataChan, batchData>>
  BY DEF FlushGroup
<1>3. f \in Flight /\ Pending(f) \subseteq Elems(f.batch)
  BY PendingInBatch DEF OInv, IInv, TypeOK
<1>4. Pending(rest) \subseteq Pending(f)
  BY DEF Pending
<1>5. ResolvedOut'
  <2> SUFFICES ASSUME NEW r \in Requests, outcome'[r] # "none"
               PROVE  /\ submit'[r] = "ok" /\ r \notin Queued'
                      /\ \A g \in flights' : r \notin Pending(g)
    BY DEF ResolvedOut
  <2>1. Queued' = Queued
    BY <1>2 DEF Queued
  <2>2. CASE outcome[r] # "none"
    <3>1. submit[r] = "ok" /\ r \notin Queued /\ \A g \in flights : r \notin Pending(g)
      BY <2>2 DEF OInv, ResolvedOut
    <3>2. outcome'[r] = outcome[r]
      BY <1>1, <3>1
    <3>3. ASSUME NEW g \in flights' PROVE r \notin Pending(g)
      <4>1. CASE g \in flights \ {f}
        BY <3>1, <4>1
      <4>2. CASE g = rest /\ g \notin flights \ {f}
        BY <1>4, <3>1, <4>2
      <4>3. QED
        BY <1>1, <4>1, <4>2
    <3>4. QED
      BY <1>2, <2>1, <3>1, <3>3
  <2>3. CASE outcome[r] = "none"
    <3>1. r \in Pending(f) /\ r \in Elems(f.batch)
      BY <1>1, <1>3, <2>3
    <3>2. submit[r] = "ok"
      BY <3>1 DEF OInv, IInv, LocatedAccepted, InFlights
    <3>3. r \notin Queued
      BY <3>1 DEF OInv, IInv, FlightsDisjoint
    <3>4. ASSUME NEW g \in flights' PROVE r \notin Pending(g)
      <4>1. CASE g \in flights \ {f}
        <5>1. g \in Flight
          BY <4>1 DEF OInv, IInv, TypeOK
        <5>2. Elems(f.batch) \cap Elems(g.batch) = {}
          BY <4>1 DEF OInv, IInv, FlightsDisjoint
        <5>3. QED
          BY <3>1, <5>1, <5>2, PendingInBatch
      <4>2. CASE g = rest /\ g \notin flights \ {f}
        BY <1>1, <2>3, <4>2
      <4>3. QED
        BY <1>1, <4>1, <4>2
    <3>5. QED
      BY <1>2, <2>1, <3>2, <3>3, <3>4
  <2>4. QED
    BY <2>2, <2>3
<1>6. TodoGrouped'
  <2> SUFFICES ASSUME NEW g \in flights' PROVE g.todo \subseteq GroupKeys(g.batch)
    BY DEF TodoGrouped
  <2>1. CASE g \in flights \ {f}
    BY <2>1 DEF OInv, TodoGrouped
  <2>2. CASE g = rest
    BY <2>2 DEF OInv, TodoGrouped, GroupKeys
  <2>3. QED
    BY <1>1, <2>1, <2>2
<1>7. QED
  BY <1>5, <1>6

(* Every step keeps OInv.                                                  *)
LEMMA OInvStep == OInv /\ [Next]_vars => OInv'
<1> SUFFICES ASSUME OInv, [Next]_vars PROVE OInv'
  OBVIOUS
<1>1. IInv'
  BY IInvStep DEF OInv
<1> SUFFICES ResolvedOut' /\ TodoGrouped'
  BY <1>1 DEF OInv
<1> USE DEF OInv
<1>2. ASSUME NEW r \in Requests, SubmitCheck(r) \/ SubmitCancelled(r)
      PROVE  ResolvedOut' /\ TodoGrouped'
  <2>1. submit[r] # "ok" /\ submit' = [submit EXCEPT ![r] = submit'[r]]
    BY <1>2 DEF SubmitCheck, SubmitCancelled
  <2>2. \A q \in Requests : submit[q] = "ok" => submit'[q] = "ok"
    BY <2>1 DEF IInv, TypeOK
  <2>3. UNCHANGED <<outcome, dataChan, batchData, flights>>
    BY <1>2 DEF SubmitCheck, SubmitCancelled
  <2>4. Queued' = Queued
    BY <2>3 DEF Queued
  <2>5. QED
    BY <2>2, <2>3, <2>4, ResolvedFrame
<1>3. ASSUME NEW r \in Requests, SubmitSend(r) PROVE ResolvedOut' /\ TodoGrouped'
  <2>1. submit[r] = "sending" /\ submit' = [submit EXCEPT ![r] = "ok"]
    BY <1>3 DEF SubmitSend
  <2>2. \A q \in Requests : submit[q] = "ok" => submit'[q] = "ok"
    BY <2>1 DEF IInv, TypeOK
  <2>3. Elems(dataChan') = Elems(dataChan) \cup {r}
    BY <1>3, ElemsAppend DEF SubmitSend, IInv, TypeOK
  <2>4. \A q \in Queued' : q \in Queued \/ submit[q] # "ok"
    BY <1>3, <2>1, <2>3 DEF SubmitSend, Queued
  <2>5. QED
    BY <1>3, <2>2, <2>4, ResolvedFrame DEF SubmitSend
<1>4. CASE \/ \E r \in Requests : CancelSubmitCtx(r)
           \/ CancelEngineCtx \/ LatchClosed \/ Quiescent \/ UNCHANGED vars
  <2>1. UNCHANGED <<outcome, dataChan, batchData, flights, submit>>
    BY <1>4 DEF CancelSubmitCtx, CancelEngineCtx, LatchClosed, Quiescent, vars
  <2>2. QED
    BY <2>1, ResolvedFrame DEF Queued
<1>5. CASE Receive
  <2>1. dataChan \in Seq(Requests) /\ dataChan # <<>> /\ batchData \in Seq(Requests)
    BY <1>5 DEF Receive, IInv, TypeOK
  <2>2. Elems(dataChan) = Elems(Tail(dataChan)) \cup {Head(dataChan)}
    BY <2>1, ElemsTail
  <2>3. Elems(batchData') = Elems(batchData) \cup {Head(dataChan)}
    BY <1>5, <2>1, ElemsAppend DEF Receive
  <2>4. Queued' \subseteq Queued
    BY <1>5, <2>2, <2>3 DEF Receive, Queued
  <2>5. QED
    BY <1>5, <2>4, ResolvedFrame DEF Receive
<1>6. CASE FlushOnSize \/ FlushOnTick
  <2>1. /\ flights' = flights \cup {[batch |-> batchData, todo |-> GroupKeys(batchData)]}
        /\ batchData' = <<>>
        /\ UNCHANGED <<outcome, dataChan, submit>>
    BY <1>6 DEF FlushOnSize, FlushOnTick, Dispatch
  <2>2. Queued' \subseteq Queued /\ Elems(batchData) \subseteq Queued
    BY <2>1, ElemsEmpty DEF Queued
  <2>3. QED
    BY <2>1, <2>2, DispatchQueued, ResolvedFrame DEF IInv, TypeOK
<1>7. CASE Shutdown
  <2> DEFINE rest == batchData \o dataChan
  <2>1. /\ dataChan' = <<>> /\ batchData' = <<>>
        /\ UNCHANGED <<outcome, submit>>
    BY <1>7 DEF Shutdown
  <2>2. Queued' = {}
    BY <2>1, ElemsEmpty DEF Queued
  <2>3. rest \in Seq(Requests) /\ Elems(rest) \subseteq Queued
    BY ElemsConcat DEF IInv, TypeOK, Queued
  <2>4. \A g \in flights' : g \in flights \/
                              (Pending(g) \subseteq Queued /\ g.todo \subseteq GroupKeys(g.batch))
    <3>1. CASE rest = <<>>
      BY <1>7, <3>1 DEF Shutdown
    <3>2. CASE rest # <<>>
      <4>1. flights' = flights \cup {[batch |-> rest, todo |-> GroupKeys(rest)]}
        BY <1>7, <3>2 DEF Shutdown, Dispatch
      <4>2. QED
        BY <2>3, <4>1, DispatchQueued
    <3>3. QED
      BY <3>1, <3>2
  <2>5. QED
    BY <2>1, <2>2, <2>4, ResolvedFrame
<1>8. ASSUME NEW f \in flights, NEW s \in Schemas, FlushGroup(f, s)
      PROVE  ResolvedOut' /\ TodoGrouped'
  BY <1>8, FlushGroupOInv
<1>9. QED
  BY <1>2, <1>3, <1>4, <1>5, <1>6, <1>7, <1>8 DEF Next

(* Every step keeps a settled outcome: a step changes outcomes only of     *)
(* requests pending in the flush that takes it, and those are unsettled.   *)
LEMMA OutcomeStep == OInv /\ [Next]_vars => [OutcomeKept]_vars
<1> SUFFICES ASSUME OInv, [Next]_vars PROVE OutcomeKept
  OBVIOUS
<1>1. CASE \E f \in flights, s \in Schemas : FlushGroup(f, s)
  <2>1. PICK f \in flights, s \in Schemas : FlushGroup(f, s)
    BY <1>1
  <2>2. \A r \in Requests : outcome'[r] # outcome[r] => r \in Pending(f)
    BY <2>1, FlushGroupChanges
  <2>3. QED
    BY <2>2 DEF OutcomeKept, OInv, ResolvedOut
<1>2. CASE ~\E f \in flights, s \in Schemas : FlushGroup(f, s)
  <2>1. UNCHANGED outcome
    BY <1>2 DEF Next, SubmitCheck, SubmitSend, SubmitCancelled, CancelSubmitCtx,
       CancelEngineCtx, LatchClosed, Receive, FlushOnSize, FlushOnTick, Shutdown,
       Quiescent, vars
  <2>2. QED
    BY <2>1 DEF OutcomeKept
<1>3. QED
  BY <1>1, <1>2

(* What became of a request is final, for every number of requests,       *)
(* schemas, buffer and batch sizes and concurrent flushes: flushFunc marks *)
(* only the groups it still has to do, and a request is in one such group  *)
(* of one flush at most, and only until it is marked.                      *)
THEOREM ResolvedFinal == Spec => OutcomeFinal
<1>1. Spec => []OInv
  BY OInvInit, OInvStep, PTL DEF Spec
<1>2. QED
  BY <1>1, OutcomeStep, PTL DEF Spec, OutcomeFinal

=============================================================================
