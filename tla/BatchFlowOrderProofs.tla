-------------------------- MODULE BatchFlowOrderProofs --------------------------
(***************************************************************************)
(* Proof that BatchFlow hands the rows of each schema to ExecuteBatch in   *)
(* the order their Submit calls put them into the data channel, for every  *)
(* number of requests and schemas and every buffer and batch size, when    *)
(* one flushFunc call runs at a time (the configuration in which the       *)
(* order is promised: with several concurrent flushes two batches of one   *)
(* schema may reach ExecuteBatch in either order).                          *)
(***************************************************************************)
EXTENDS BatchFlowProofs, TLAPS

USE ConstantsAssumption

(* Request r comes before request q in the history h.                     *)
Before(h, r, q) == Pos(h, r) < Pos(h, q)

(* The requests of q are in the order of the history h.                    *)
Sorted(h, q) == \A i, j \in DOMAIN q : i < j => Before(h, q[i], q[j])

(* Requests handed to ExecuteBatch.                                        *)
Stamped == {r \in Requests : stamps[r] # {}}

(* Requests not handed to ExecuteBatch yet that still may be: queued, or   *)
(* in a group a flush has still to do.                                     *)
Waiting == Queued \cup UNION {Pending(f) : f \in flights}

(* Every stamp names an ExecuteBatch call already made.                    *)
CallsMade == \A r \in Requests : \A x \in stamps[r] : x[1] \in 1..calls

(* The channel's history holds each request once, only requests whose     *)
(* Submit returned nil, and every request queued, in flight or stamped.    *)
SentHolds ==
    /\ NoDup(sent)
    /\ Queued \cup InFlights \cup Stamped \subseteq Elems(sent)
    /\ \A r \in Elems(sent) : submit[r] = "ok"

(* The channel, the loop's batch and each flush's batch are in channel     *)
(* order; the batch precedes the channel and a flush's batch precedes      *)
(* both.                                                                   *)
InOrder ==
    /\ Sorted(sent, dataChan) /\ Sorted(sent, batchData)
    /\ \A f \in flights : Sorted(sent, f.batch)
    /\ \A a \in Elems(batchData), b \in Elems(dataChan) : Before(sent, a, b)
    /\ \A f \in flights : \A a \in Elems(f.batch), b \in Queued : Before(sent, a, b)

(* At most one flushFunc call runs.                                        *)
OneFlight == IsFiniteSet(flights) /\ \A f, g \in flights : f = g

(* A row handed to ExecuteBatch precedes every waiting request of its      *)
(* schema.                                                                 *)
StampedFirst ==
    \A r \in Stamped, q \in Waiting : SchemaOf[r] = SchemaOf[q] => Before(sent, r, q)

(* The inductive invariant of SchemaOrderPreserved.                        *)
SInv ==
    /\ OInv /\ SentHolds /\ InOrder /\ OneFlight /\ StampedFirst /\ CallsMade
    /\ SchemaOrderPreserved

-----------------------------------------------------------------------------
(* In a sequence without duplicates, Pos finds the one index of a request. *)
LEMMA PosIndex ==
    ASSUME NEW h, NoDup(h), NEW r \in Elems(h)
    PROVE  /\ Pos(h, r) \in DOMAIN h /\ h[Pos(h, r)] = r
           /\ \A i \in DOMAIN h : h[i] = r => i = Pos(h, r)
<1>1. \E i \in DOMAIN h : h[i] = r
  BY DEF Elems
<1>2. Pos(h, r) \in DOMAIN h /\ h[Pos(h, r)] = r
  BY <1>1 DEF Pos
<1>3. QED
  BY <1>2 DEF NoDup

(* Appending a new request to the history keeps every earlier position and *)
(* puts the new request after all of them.                                 *)
LEMMA PosAppend ==
    ASSUME NEW S, NEW h \in Seq(S), NoDup(h), NEW q \in S, q \notin Elems(h)
    PROVE  /\ NoDup(Append(h, q))
           /\ Elems(Append(h, q)) = Elems(h) \cup {q}
           /\ \A r \in Elems(h) : Pos(Append(h, q), r) = Pos(h, r)
           /\ \A r \in Elems(h) : Pos(h, r) < Pos(Append(h, q), q)
<1> DEFINE a == Append(h, q)
<1>1. NoDup(a) /\ Elems(a) = Elems(h) \cup {q}
  BY ElemsAppend
<1>2. ASSUME NEW r \in Elems(h) PROVE Pos(a, r) = Pos(h, r)
  <2>1. Pos(h, r) \in DOMAIN h /\ h[Pos(h, r)] = r
    BY PosIndex
  <2>2. Pos(h, r) \in DOMAIN a /\ a[Pos(h, r)] = r
    BY <2>1
  <2>3. QED
    BY <1>1, <2>2, PosIndex
<1>3. ASSUME NEW r \in Elems(h) PROVE Pos(h, r) < Pos(a, q)
  <2>1. Len(h) + 1 \in DOMAIN a /\ a[Len(h) + 1] = q
    OBVIOUS
  <2>2. Pos(a, q) = Len(h) + 1
    BY <1>1, <2>1, PosIndex
  <2>3. Pos(h, r) \in 1..Len(h)
    BY PosIndex
  <2>4. QED
    BY <2>2, <2>3
<1>4. QED
  BY <1>1, <1>2, <1>3

(* The row index of flushFunc's assembly grows with the position in the    *)
(* batch: a smaller row index comes from an earlier position.              *)
LEMMA RowIdxOrder ==
    ASSUME NEW b \in Seq(Requests), NEW s, NEW i \in GroupIdx(b, s),
           NEW j \in GroupIdx(b, s), RowIdx(b, s, i) < RowIdx(b, s, j)
    PROVE  i < j
<1> SUFFICES ASSUME j <= i PROVE FALSE
  BY DEF GroupIdx
<1>1. {k \in GroupIdx(b, s) : k <= j} \subseteq {k \in GroupIdx(b, s) : k <= i}
  BY DEF GroupIdx
<1>2. IsFiniteSet({k \in GroupIdx(b, s) : k <= i})
  <2>1. {k \in GroupIdx(b, s) : k <= i} \subseteq 1..Len(b)
    BY DEF GroupIdx
  <2>2. QED
    BY <2>1, FS_Interval, FS_Subset
<1>3. RowIdx(b, s, j) <= RowIdx(b, s, i)
  BY <1>1, <1>2, FS_Subset DEF RowIdx
<1>4. QED
  BY <1>3, RowIdxNat

(* Appending to the history keeps the order of the requests it held and    *)
(* puts the new request after each of them.                                *)
LEMMA BeforeAppend ==
    ASSUME NEW h \in Seq(Requests), NoDup(h), NEW x \in Requests, x \notin Elems(h)
    PROVE  /\ \A a, b \in Elems(h) : Before(Append(h, x), a, b) <=> Before(h, a, b)
           /\ \A a \in Elems(h) : Before(Append(h, x), a, x)
BY PosAppend DEF Before

(* A sorted sequence of requests of h stays sorted when h grows.           *)
LEMMA SortedAppendHist ==
    ASSUME NEW h \in Seq(Requests), NoDup(h), NEW x \in Requests, x \notin Elems(h),
           NEW q \in Seq(Requests), Elems(q) \subseteq Elems(h), Sorted(h, q)
    PROVE  Sorted(Append(h, x), q)
<1> SUFFICES ASSUME NEW i \in DOMAIN q, NEW j \in DOMAIN q, i < j
             PROVE  Before(Append(h, x), q[i], q[j])
  BY DEF Sorted
<1>1. q[i] \in Elems(h) /\ q[j] \in Elems(h) /\ Before(h, q[i], q[j])
  BY DEF Elems, Sorted
<1>2. QED
  BY <1>1, BeforeAppend

(* A request that follows every request of a sorted sequence may be        *)
(* appended to it.                                                         *)
LEMMA SortedAppend ==
    ASSUME NEW h, NEW q \in Seq(Requests), NEW x, Sorted(h, q),
           \A a \in Elems(q) : Before(h, a, x)
    PROVE  Sorted(h, Append(q, x))
<1> SUFFICES ASSUME NEW i \in DOMAIN Append(q, x), NEW j \in DOMAIN Append(q, x), i < j
             PROVE  Before(h, Append(q, x)[i], Append(q, x)[j])
  BY DEF Sorted
<1>1. CASE j <= Len(q)
  BY <1>1 DEF Sorted
<1>2. CASE j = Len(q) + 1
  <2>1. i \in DOMAIN q /\ Append(q, x)[i] = q[i] /\ Append(q, x)[j] = x
    BY <1>2
  <2>2. q[i] \in Elems(q)
    BY <2>1 DEF Elems
  <2>3. QED
    BY <2>1, <2>2
<1>3. QED
  BY <1>1, <1>2

(* The tail of a sorted sequence is sorted and follows its head.           *)
LEMMA SortedTail ==
    ASSUME NEW h, NEW q \in Seq(Requests), q # <<>>, Sorted(h, q)
    PROVE  /\ Sorted(h, Tail(q))
           /\ \A b \in Elems(Tail(q)) : Before(h, Head(q), b)
<1>1. Sorted(h, Tail(q))
  <2> SUFFICES ASSUME NEW i \in DOMAIN Tail(q), NEW j \in DOMAIN Tail(q), i < j
               PROVE  Before(h, Tail(q)[i], Tail(q)[j])
    BY DEF Sorted
  <2>1. i + 1 \in DOMAIN q /\ j + 1 \in DOMAIN q /\ Tail(q)[i] = q[i + 1]
        /\ Tail(q)[j] = q[j + 1]
    OBVIOUS
  <2>2. QED
    BY <2>1 DEF Sorted
<1>2. ASSUME NEW b \in Elems(Tail(q)) PROVE Before(h, Head(q), b)
  <2>1. PICK j \in DOMAIN Tail(q) : Tail(q)[j] = b
    BY <1>2 DEF Elems
  <2>2. 1 \in DOMAIN q /\ j + 1 \in DOMAIN q /\ 1 < j + 1 /\ q[j + 1] = b
        /\ Head(q) = q[1]
    BY <2>1
  <2>3. QED
    BY <2>2 DEF Sorted
<1>3. QED
  BY <1>1, <1>2

(* Two sorted sequences, the first before the second, make a sorted one.   *)
LEMMA SortedConcat ==
    ASSUME NEW h, NEW q \in Seq(Requests), NEW t \in Seq(Requests),
           Sorted(h, q), Sorted(h, t), \A a \in Elems(q), b \in Elems(t) : Before(h, a, b)
    PROVE  Sorted(h, q \o t)
<1> SUFFICES ASSUME NEW i \in DOMAIN (q \o t), NEW j \in DOMAIN (q \o t), i < j
             PROVE  Before(h, (q \o t)[i], (q \o t)[j])
  BY DEF Sorted
<1>1. CASE j <= Len(q)
  BY <1>1 DEF Sorted
<1>2. CASE i > Len(q)
  <2>1. i - Len(q) \in DOMAIN t /\ j - Len(q) \in DOMAIN t /\ i - Len(q) < j - Len(q)
        /\ (q \o t)[i] = t[i - Len(q)] /\ (q \o t)[j] = t[j - Len(q)]
    BY <1>2
  <2>2. QED
    BY <2>1 DEF Sorted
<1>3. CASE i <= Len(q) /\ j > Len(q)
  <2>1. i \in DOMAIN q /\ j - Len(q) \in DOMAIN t
        /\ (q \o t)[i] = q[i] /\ (q \o t)[j] = t[j - Len(q)]
    BY <1>3
  <2>2. q[i] \in Elems(q) /\ t[j - Len(q)] \in Elems(t)
    BY <2>1 DEF Elems
  <2>3. QED
    BY <2>1, <2>2
<1>4. QED
  BY <1>1, <1>2, <1>3

-----------------------------------------------------------------------------
(* The initial states satisfy SInv: nothing was sent, queued or stamped.   *)
LEMMA SInvInit == Init => SInv
<1> SUFFICES ASSUME Init PROVE SInv
  OBVIOUS
<1>1. OInv
  BY OInvInit
<1>2. Queued = {} /\ InFlights = {} /\ Stamped = {} /\ Elems(sent) = {}
  BY ElemsEmpty DEF Init, Queued, InFlights, Stamped
<1>3. SentHolds
  BY <1>2 DEF Init, SentHolds, NoDup
<1>4. InOrder
  BY ElemsEmpty DEF Init, InOrder, Sorted
<1>5. OneFlight
  BY FS_EmptySet DEF Init, OneFlight
<1>6. StampedFirst /\ CallsMade /\ SchemaOrderPreserved
  BY <1>2 DEF Init, StampedFirst, CallsMade, SchemaOrderPreserved
<1>7. QED
  BY <1>1, <1>3, <1>4, <1>5, <1>6 DEF SInv

(* A step that changes neither the queues, the flushes, the history nor    *)
(* the stamps, and takes back no nil return of Submit, keeps SInv.         *)
LEMMA SInvFrame ==
    ASSUME SInv, OInv',
           UNCHANGED <<dataChan, batchData, flights, sent, calls, stamps>>,
           \A r \in Requests : submit[r] = "ok" => submit'[r] = "ok"
    PROVE  SInv'
<1>1. Queued' = Queued /\ InFlights' = InFlights /\ Stamped' = Stamped
      /\ Waiting' = Waiting
  BY DEF Queued, InFlights, Stamped, Waiting, Pending
<1>2. SentHolds'
  <2>1. Elems(sent) \subseteq Requests
    BY DEF SInv, OInv, IInv, TypeOK, Elems
  <2>2. QED
    BY <1>1, <2>1 DEF SInv, SentHolds
<1>3. InOrder' /\ OneFlight' /\ StampedFirst' /\ CallsMade' /\ SchemaOrderPreserved'
  BY <1>1 DEF SInv, InOrder, OneFlight, StampedFirst, CallsMade, SchemaOrderPreserved
<1>4. QED
  BY <1>2, <1>3 DEF SInv

(* Every waiting request is in the history.                                *)
LEMMA WaitingSent ==
    ASSUME SInv PROVE Waiting \subseteq Elems(sent)
<1>1. \A f \in flights : Pending(f) \subseteq InFlights
  BY PendingInBatch DEF SInv, OInv, IInv, TypeOK, InFlights
<1>2. QED
  BY <1>1 DEF SInv, SentHolds, Waiting

(* Submit's send appends its request to the channel and to the history: it *)
(* follows everything sent before it, and the old order is kept.           *)
LEMMA SubmitSendSInv ==
    ASSUME SInv, OInv', NEW r \in Requests, SubmitSend(r)
    PROVE  SInv'
<1>1. TypeOK
  BY DEF SInv, OInv, IInv
<1>2. r \notin Elems(sent) /\ Elems(sent) \subseteq Requests /\ NoDup(sent)
  BY <1>1 DEF SubmitSend, SInv, SentHolds, TypeOK, Elems
<1>3. /\ Elems(sent') = Elems(sent) \cup {r} /\ NoDup(sent')
      /\ Elems(dataChan') = Elems(dataChan) \cup {r}
  BY <1>1, <1>2, PosAppend, ElemsAppend DEF SubmitSend, TypeOK
<1>4. /\ Queued' = Queued \cup {r} /\ InFlights' = InFlights /\ Stamped' = Stamped
      /\ Waiting' = Waiting \cup {r}
  BY <1>3 DEF SubmitSend, Queued, InFlights, Stamped, Waiting, Pending
<1>5. /\ Queued \subseteq Elems(sent) /\ InFlights \subseteq Elems(sent)
      /\ Stamped \subseteq Elems(sent)
  BY DEF SInv, SentHolds
<1>6. /\ \A a, b \in Elems(sent) : Before(sent', a, b) <=> Before(sent, a, b)
      /\ \A a \in Elems(sent) : Before(sent', a, r)
  BY <1>1, <1>2, BeforeAppend DEF SubmitSend, TypeOK
<1>7. SentHolds'
  <2>1. \A x \in Elems(sent') : submit'[x] = "ok"
    BY <1>1, <1>2, <1>3 DEF SubmitSend, SInv, SentHolds, TypeOK
  <2>2. QED
    BY <1>3, <1>4, <1>5, <2>1 DEF SentHolds
<1>8. InOrder'
  <2>1. Sorted(sent', dataChan')
    <3>1. Sorted(sent', dataChan)
      BY <1>1, <1>2, <1>5, SortedAppendHist DEF SubmitSend, TypeOK, SInv, InOrder, Queued
    <3>2. \A a \in Elems(dataChan) : Before(sent', a, r)
      BY <1>5, <1>6 DEF Queued
    <3>3. QED
      BY <1>1, <3>1, <3>2, SortedAppend DEF SubmitSend, TypeOK
  <2>2. Sorted(sent', batchData')
    BY <1>1, <1>2, <1>5, SortedAppendHist DEF SubmitSend, TypeOK, SInv, InOrder, Queued
  <2>3. \A f \in flights' : Sorted(sent', f.batch)
    <3> SUFFICES ASSUME NEW f \in flights PROVE Sorted(sent', f.batch)
      BY DEF SubmitSend
    <3>1. f.batch \in Seq(Requests) /\ Elems(f.batch) \subseteq Elems(sent)
      BY <1>1, <1>5 DEF TypeOK, Flight, InFlights
    <3>2. QED
      BY <1>1, <1>2, <3>1, SortedAppendHist DEF SubmitSend, TypeOK, SInv, InOrder
  <2>4. \A a \in Elems(batchData'), b \in Elems(dataChan') : Before(sent', a, b)
    BY <1>3, <1>5, <1>6 DEF SubmitSend, SInv, InOrder, Queued
  <2>5. \A f \in flights' : \A a \in Elems(f.batch), b \in Queued' : Before(sent', a, b)
    <3> SUFFICES ASSUME NEW f \in flights, NEW a \in Elems(f.batch), NEW b \in Queued'
                 PROVE  Before(sent', a, b)
      BY DEF SubmitSend
    <3>1. a \in Elems(sent)
      BY <1>5 DEF InFlights
    <3>2. QED
      BY <1>4, <1>5, <1>6, <3>1 DEF SInv, InOrder
  <2>6. QED
    BY <2>1, <2>2, <2>3, <2>4, <2>5 DEF InOrder
<1>9. OneFlight' /\ CallsMade'
  BY DEF SubmitSend, SInv, OneFlight, CallsMade
<1>10. StampedFirst'
  <2> SUFFICES ASSUME NEW a \in Stamped, NEW q \in Waiting', SchemaOf[a] = SchemaOf[q]
               PROVE  Before(sent', a, q)
    BY <1>4 DEF StampedFirst
  <2>1. CASE q \in Waiting
    BY <1>5, <1>6, <2>1, WaitingSent DEF SInv, StampedFirst
  <2>2. CASE q = r
    BY <1>5, <1>6, <2>2
  <2>3. QED
    BY <1>4, <2>1, <2>2
<1>11. SchemaOrderPreserved'
  <2> SUFFICES ASSUME NEW a \in Requests, NEW b \in Requests,
                      NEW x \in stamps[a], NEW y \in stamps[b],
                      SchemaOf[a] = SchemaOf[b], Earlier(x, y)
               PROVE  Pos(sent', a) < Pos(sent', b)
    BY DEF SubmitSend, SchemaOrderPreserved
  <2>1. a \in Elems(sent) /\ b \in Elems(sent)
    BY <1>5 DEF Stamped
  <2>2. Pos(sent, a) < Pos(sent, b)
    BY DEF SInv, SchemaOrderPreserved
  <2>3. QED
    BY <1>6, <2>1, <2>2 DEF Before
<1>12. QED
  BY <1>7, <1>8, <1>9, <1>10, <1>11 DEF SInv

(* The loop's receive moves the channel's head to the end of the batch:    *)
(* it follows the batch and precedes the rest of the channel.              *)
LEMMA ReceiveSInv ==
    ASSUME SInv, OInv', Receive
    PROVE  SInv'
<1>1. TypeOK /\ dataChan # <<>>
  BY DEF SInv, OInv, IInv, Receive
<1>2. /\ Elems(dataChan) = Elems(Tail(dataChan)) \cup {Head(dataChan)}
      /\ Elems(batchData') = Elems(batchData) \cup {Head(dataChan)}
  BY <1>1, ElemsTail, ElemsAppend DEF TypeOK, Receive
<1>3. /\ Queued' = Queued /\ InFlights' = InFlights /\ Stamped' = Stamped
      /\ Waiting' = Waiting
  BY <1>2 DEF Receive, Queued, InFlights, Stamped, Waiting, Pending
<1>4. SentHolds' /\ OneFlight' /\ StampedFirst' /\ CallsMade' /\ SchemaOrderPreserved'
  BY <1>3 DEF Receive, SInv, SentHolds, OneFlight, StampedFirst, CallsMade,
     SchemaOrderPreserved
<1>5. /\ Sorted(sent, Tail(dataChan))
      /\ \A b \in Elems(Tail(dataChan)) : Before(sent, Head(dataChan), b)
  BY <1>1, SortedTail DEF SInv, InOrder, TypeOK
<1>6. Sorted(sent, batchData')
  <2>1. Head(dataChan) \in Elems(dataChan)
    BY <1>2
  <2>2. \A a \in Elems(batchData) : Before(sent, a, Head(dataChan))
    BY <2>1 DEF SInv, InOrder
  <2>3. QED
    BY <1>1, <2>2, SortedAppend DEF SInv, InOrder, TypeOK, Receive
<1>7. \A a \in Elems(batchData'), b \in Elems(dataChan') : Before(sent, a, b)
  BY <1>2, <1>5 DEF Receive, SInv, InOrder
<1>8. InOrder'
  BY <1>3, <1>5, <1>6, <1>7 DEF Receive, SInv, InOrder
<1>9. QED
  BY <1>4, <1>8 DEF SInv

(* With one flush at a time, a dispatch happens only when no flush runs.   *)
LEMMA NoFlightToDispatch ==
    ASSUME OneFlight, MaxConcurrentFlushes = 1, Cardinality(flights) < MaxConcurrentFlushes
    PROVE  flights = {}
<1>1. Cardinality(flights) \in Nat
  BY FS_CardinalityType DEF OneFlight
<1>2. Cardinality(flights) = 0
  BY <1>1
<1>3. QED
  BY <1>2, FS_EmptySet DEF OneFlight

(* A dispatch of a sorted batch b taken from the queues, that leaves       *)
(* sorted queues behind it all of which b precedes, keeps SInv.            *)
LEMMA DispatchSInv ==
    ASSUME SInv, OInv', MaxConcurrentFlushes = 1,
           NEW b \in Seq(Requests), Sorted(sent, b), Dispatch(b),
           Elems(b) \subseteq Queued, Queued' \subseteq Queued,
           \A a \in Elems(b), c \in Queued' : Before(sent, a, c),
           Sorted(sent, dataChan'), Sorted(sent, batchData'),
           \A a \in Elems(batchData'), c \in Elems(dataChan') : Before(sent, a, c),
           UNCHANGED <<submit, sent, calls, stamps>>
    PROVE  SInv'
<1> DEFINE nf == [batch |-> b, todo |-> GroupKeys(b)]
<1>1. flights = {} /\ flights' = {nf}
  BY NoFlightToDispatch DEF SInv, Dispatch
<1>2. InFlights' = Elems(b) /\ Stamped' = Stamped
  BY <1>1 DEF InFlights, Stamped
<1>3. Waiting' \subseteq Waiting
  <2>1. Pending(nf) \subseteq Elems(b)
    BY PendingInBatch, DispatchedFlight
  <2>2. QED
    BY <1>1, <2>1 DEF Waiting
<1>4. SentHolds'
  BY <1>2 DEF SInv, SentHolds
<1>5. InOrder'
  BY <1>1 DEF InOrder
<1>6. OneFlight'
  <2>1. IsFiniteSet({nf})
    BY FS_Singleton
  <2>2. QED
    BY <1>1, <2>1 DEF OneFlight
<1>7. StampedFirst'
  BY <1>2, <1>3 DEF SInv, StampedFirst
<1>8. CallsMade' /\ SchemaOrderPreserved'
  BY DEF SInv, CallsMade, SchemaOrderPreserved
<1>9. QED
  BY <1>4, <1>5, <1>6, <1>7, <1>8 DEF SInv

(* A flush on size or on a tick dispatches the whole batch, which precedes *)
(* the channel, and starts a new one.                                      *)
LEMMA FlushBatchSInv ==
    ASSUME SInv, OInv', MaxConcurrentFlushes = 1, FlushOnSize \/ FlushOnTick
    PROVE  SInv'
<1>1. /\ Dispatch(batchData) /\ batchData' = <<>>
      /\ UNCHANGED <<dataChan, submit, sent, calls, stamps>>
  BY DEF FlushOnSize, FlushOnTick
<1>2. Queued' = Elems(dataChan)
  BY <1>1, ElemsEmpty DEF Queued
<1>3. batchData \in Seq(Requests)
  BY DEF SInv, OInv, IInv, TypeOK
<1>4. QED
  BY <1>1, <1>2, <1>3, ElemsEmpty, DispatchSInv DEF SInv, InOrder, Queued, Sorted

(* Shutdown dispatches the batch followed by the channel once, in order.   *)
LEMMA ShutdownSInv ==
    ASSUME SInv, OInv', MaxConcurrentFlushes = 1, Shutdown
    PROVE  SInv'
<1> DEFINE rest == batchData \o dataChan
<1>1. /\ dataChan' = <<>> /\ batchData' = <<>>
      /\ UNCHANGED <<submit, sent, calls, stamps>>
  BY DEF Shutdown
<1>2. Queued' = {} /\ Elems(rest) = Queued
  BY <1>1, ElemsEmpty, ElemsConcat DEF SInv, OInv, IInv, TypeOK, Queued
<1>3. Sorted(sent, <<>>)
  BY DEF Sorted
<1>4. CASE rest = <<>>
  <2>1. UNCHANGED flights
    BY <1>4 DEF Shutdown
  <2>2. Waiting' \subseteq Waiting /\ InFlights' = InFlights /\ Stamped' = Stamped
    BY <1>2, <2>1, <1>1 DEF Waiting, InFlights, Stamped, Pending
  <2>3. SentHolds' /\ OneFlight' /\ StampedFirst' /\ CallsMade' /\ SchemaOrderPreserved'
    BY <1>1, <1>2, <2>1, <2>2 DEF SInv, SentHolds, OneFlight, StampedFirst, CallsMade,
       SchemaOrderPreserved
  <2>4. InOrder'
    BY <1>1, <1>2, <1>3, <2>1, ElemsEmpty DEF SInv, InOrder
  <2>5. QED
    BY <2>3, <2>4 DEF SInv
<1>5. CASE rest # <<>>
  <2>1. Dispatch(rest)
    BY <1>5 DEF Shutdown
  <2>2. rest \in Seq(Requests) /\ Sorted(sent, rest)
    BY SortedConcat DEF SInv, OInv, IInv, TypeOK, InOrder
  <2>3. QED
    BY <1>1, <1>2, <1>3, <2>1, <2>2, ElemsEmpty, DispatchSInv
<1>6. QED
  BY <1>4, <1>5

(* What a step of the one running flush f leaves: the queues and the       *)
(* history as they were, at most the flush of f's remaining groups, and    *)
(* new stamps only for rows of the group of s, all of them of call         *)
(* calls + 1; the requests of the remaining groups are of other schemas.   *)
LEMMA FlushGroupFacts ==
    ASSUME SInv, NEW f \in flights, NEW s \in Schemas, FlushGroup(f, s)
    PROVE  LET rest == [batch |-> f.batch, todo |-> f.todo \ {s}]
               rows == {f.batch[i] : i \in GroupIdx(f.batch, s)}
           IN  /\ flights = {f} /\ flights' \subseteq {rest}
               /\ UNCHANGED <<dataChan, batchData, sent, submit>>
               /\ f.batch \in Seq(Requests)
               /\ rows \subseteq Pending(f)
               /\ Pending(rest) \subseteq Pending(f)
               /\ \A q \in Pending(rest) : SchemaOf[q] # s
               /\ calls \in Nat
               /\ \/ UNCHANGED <<calls, stamps>>
                  \/ /\ calls' = calls + 1
                     /\ \A r \in Requests : stamps'[r] =
                          stamps[r] \cup {<<calls + 1, RowIdx(f.batch, s, i)>> :
                                            i \in {j \in GroupIdx(f.batch, s) : f.batch[j] = r}}
<1> DEFINE rest == [batch |-> f.batch, todo |-> f.todo \ {s}]
<1>1. flights = {f}
  BY DEF SInv, OneFlight
<1>2. f \in Flight /\ calls \in Nat
  BY DEF SInv, OInv, IInv, TypeOK
<1>3. flights' \subseteq {rest}
  BY <1>1 DEF FlushGroup, FlushAbort, FlushExecute
<1>4. \A q \in Pending(rest) : SchemaOf[q] # s
  BY DEF Pending, GroupIdx
<1>5. /\ {f.batch[i] : i \in GroupIdx(f.batch, s)} \subseteq Pending(f)
      /\ Pending(rest) \subseteq Pending(f)
  BY DEF FlushGroup, Pending
<1>6. \/ UNCHANGED <<calls, stamps>>
      \/ /\ calls' = calls + 1
         /\ \A r \in Requests : stamps'[r] =
              stamps[r] \cup {<<calls + 1, RowIdx(f.batch, s, i)>> :
                                i \in {j \in GroupIdx(f.batch, s) : f.batch[j] = r}}
  BY DEF FlushGroup, FlushAbort, FlushExecute
<1>7. QED
  BY <1>1, <1>2, <1>3, <1>4, <1>5, <1>6 DEF FlushGroup, Flight

(* A step of the running flush keeps SInv: the rows it hands to            *)
(* ExecuteBatch come from a sorted batch in row order and are the first    *)
(* requests of their schema still waiting, and their call follows every   *)
(* call made before it.                                                    *)
LEMMA FlushGroupSInv ==
    ASSUME SInv, OInv', NEW f \in flights, NEW s \in Schemas, FlushGroup(f, s)
    PROVE  SInv'
<1> DEFINE rest == [batch |-> f.batch, todo |-> f.todo \ {s}]
           idx  == GroupIdx(f.batch, s)
           rows == {f.batch[i] : i \in idx}
           NS(r) == {<<calls + 1, RowIdx(f.batch, s, i)>> :
                       i \in {j \in idx : f.batch[j] = r}}
<1>1. /\ flights = {f} /\ flights' \subseteq {rest}
      /\ UNCHANGED <<dataChan, batchData, sent, submit>>
      /\ f.batch \in Seq(Requests)
      /\ rows \subseteq Pending(f)
      /\ Pending(rest) \subseteq Pending(f)
      /\ \A q \in Pending(rest) : SchemaOf[q] # s
      /\ calls \in Nat
      /\ \/ UNCHANGED <<calls, stamps>>
         \/ calls' = calls + 1 /\ \A r \in Requests : stamps'[r] = stamps[r] \cup NS(r)
  BY FlushGroupFacts
<1>2. /\ Queued' = Queued
      /\ InFlights' \subseteq Elems(f.batch) /\ Elems(f.batch) \subseteq InFlights
      /\ Waiting' \subseteq Queued \cup Pending(rest)
  <2>1. Queued' = Queued
    BY <1>1 DEF Queued
  <2>2. \A g \in flights' : g = rest
    BY <1>1
  <2>3. InFlights' \subseteq Elems(f.batch)
    BY <2>2 DEF InFlights
  <2>4. Elems(f.batch) \subseteq InFlights
    BY <1>1 DEF InFlights
  <2>5. Waiting' \subseteq Queued \cup Pending(rest)
    BY <2>1, <2>2 DEF Waiting
  <2>6. QED
    BY <2>1, <2>3, <2>4, <2>5
<1>3. \A r \in Requests : stamps'[r] \subseteq stamps[r] \cup NS(r)
  BY <1>1
<1>4. Stamped' \subseteq Stamped \cup rows
  <2> SUFFICES ASSUME NEW r \in Requests, stamps'[r] # {}, stamps[r] = {}
               PROVE  r \in rows
    BY DEF Stamped
  <2>1. PICK j \in idx : f.batch[j] = r
    BY <1>3
  <2>2. QED
    BY <2>1
<1>5. rows \subseteq Elems(sent) /\ rows \subseteq Waiting
  BY <1>1, WaitingSent DEF Waiting
<1>6. SentHolds'
  BY <1>1, <1>2, <1>4, <1>5 DEF SInv, SentHolds
<1>7. InOrder'
  BY <1>1, <1>2 DEF SInv, InOrder
<1>8. OneFlight'
  <2>1. IsFiniteSet(flights')
    BY <1>1, FS_Singleton, FS_Subset
  <2>2. QED
    BY <1>1, <2>1 DEF OneFlight
<1>9. StampedFirst'
  <2> SUFFICES ASSUME NEW a \in Stamped', NEW q \in Waiting', SchemaOf[a] = SchemaOf[q]
               PROVE  Before(sent, a, q)
    BY <1>1 DEF StampedFirst
  <2>1. CASE a \in Stamped
    <3>1. q \in Waiting
      BY <1>1, <1>2 DEF Waiting
    <3>2. QED
      BY <2>1, <3>1 DEF SInv, StampedFirst
  <2>2. CASE a \in rows
    <3>1. SchemaOf[a] = s
      BY <2>2 DEF GroupIdx
    <3>2. q \in Queued
      BY <1>1, <1>2, <3>1
    <3>3. a \in Elems(f.batch)
      BY <2>2 DEF GroupIdx, Elems
    <3>4. QED
      BY <3>2, <3>3 DEF SInv, InOrder
  <2>3. QED
    BY <1>4, <2>1, <2>2
<1>10. CallsMade'
  <2> SUFFICES ASSUME NEW r \in Requests, NEW x \in stamps'[r] PROVE x[1] \in 1..calls'
    BY DEF CallsMade
  <2>1. CASE UNCHANGED <<calls, stamps>>
    BY <2>1 DEF SInv, CallsMade
  <2>2. CASE calls' = calls + 1 /\ \A q \in Requests : stamps'[q] = stamps[q] \cup NS(q)
    <3>1. CASE x \in stamps[r]
      BY <1>1, <2>2, <3>1 DEF SInv, CallsMade
    <3>2. CASE x \in NS(r)
      BY <1>1, <2>2, <3>2
    <3>3. QED
      BY <2>2, <3>1, <3>2
  <2>3. QED
    BY <1>1, <2>1, <2>2
<1>11. SchemaOrderPreserved'
  <2> SUFFICES ASSUME NEW a \in Requests, NEW b \in Requests,
                      NEW x \in stamps'[a], NEW y \in stamps'[b],
                      SchemaOf[a] = SchemaOf[b], Earlier(x, y)
               PROVE  Pos(sent, a) < Pos(sent, b)
    BY <1>1 DEF SchemaOrderPreserved
  <2>1. CASE UNCHANGED <<calls, stamps>>
    BY <2>1 DEF SInv, SchemaOrderPreserved
  <2>2. CASE calls' = calls + 1 /\ \A q \in Requests : stamps'[q] = stamps[q] \cup NS(q)
    <3>1. CASE x \in stamps[a] /\ y \in stamps[b]
      BY <3>1 DEF SInv, SchemaOrderPreserved
    <3>2. CASE x \in stamps[a] /\ y \in NS(b)
      <4>1. b \in rows /\ a \in Stamped
        BY <3>2 DEF Stamped
      <4>2. QED
        BY <1>5, <4>1 DEF SInv, StampedFirst, Before
    <3>3. CASE x \in NS(a) /\ y \in stamps[b]
      <4>1. x[1] = calls + 1 /\ y[1] \in 1..calls
        BY <3>3 DEF SInv, CallsMade
      <4>2. QED
        BY <1>1, <4>1 DEF Earlier
    <3>4. CASE x \in NS(a) /\ y \in NS(b)
      <4>1. PICK i \in idx : f.batch[i] = a /\ x = <<calls + 1, RowIdx(f.batch, s, i)>>
        BY <3>4
      <4>2. PICK j \in idx : f.batch[j] = b /\ y = <<calls + 1, RowIdx(f.batch, s, j)>>
        BY <3>4
      <4>3. RowIdx(f.batch, s, i) < RowIdx(f.batch, s, j)
        BY <4>1, <4>2, <1>1 DEF Earlier
      <4>4. i < j
        BY <1>1, <4>3, RowIdxOrder
      <4>5. i \in DOMAIN f.batch /\ j \in DOMAIN f.batch
        BY DEF GroupIdx
      <4>6. QED
        BY <4>1, <4>2, <4>4, <4>5 DEF SInv, InOrder, Sorted, Before
    <3>5. QED
      BY <2>2, <3>1, <3>2, <3>3, <3>4
  <2>3. QED
    BY <1>1, <2>1, <2>2
<1>12. QED
  BY <1>6, <1>7, <1>8, <1>9, <1>10, <1>11 DEF SInv

(* With one flush at a time, every step keeps SInv.                        *)
LEMMA SInvStep ==
    ASSUME MaxConcurrentFlushes = 1
    PROVE  SInv /\ [Next]_vars => SInv'
<1> SUFFICES ASSUME SInv, [Next]_vars PROVE SInv'
  OBVIOUS
<1>1. OInv'
  BY OInvStep DEF SInv
<1>2. TypeOK
  BY DEF SInv, OInv, IInv
<1>3. ASSUME NEW r \in Requests, SubmitCheck(r) \/ SubmitCancelled(r) PROVE SInv'
  <2>1. submit[r] \in {"idle", "sending"}
    BY <1>3 DEF SubmitCheck, SubmitCancelled
  <2>2. \A q \in Requests : submit[q] = "ok" => submit'[q] = "ok"
    BY <1>2, <1>3, <2>1 DEF SubmitCheck, SubmitCancelled, TypeOK
  <2>3. QED
    BY <1>1, <1>3, <2>2, SInvFrame DEF SubmitCheck, SubmitCancelled
<1>4. ASSUME NEW r \in Requests, SubmitSend(r) PROVE SInv'
  BY <1>1, <1>4, SubmitSendSInv
<1>5. ASSUME NEW r \in Requests, CancelSubmitCtx(r) PROVE SInv'
  BY <1>1, <1>5, SInvFrame DEF CancelSubmitCtx
<1>6. CASE CancelEngineCtx \/ LatchClosed
  BY <1>1, <1>6, SInvFrame DEF CancelEngineCtx, LatchClosed
<1>7. CASE Receive
  BY <1>1, <1>7, ReceiveSInv
<1>8. CASE FlushOnSize \/ FlushOnTick
  BY <1>1, <1>8, FlushBatchSInv
<1>9. CASE Shutdown
  BY <1>1, <1>9, ShutdownSInv
<1>10. ASSUME NEW f \in flights, NEW s \in Schemas, FlushGroup(f, s) PROVE SInv'
  BY <1>1, <1>10, FlushGroupSInv
<1>11. CASE Quiescent \/ UNCHANGED vars
  BY <1>1, <1>11, SInvFrame DEF Quiescent, vars
<1>12. QED
  BY <1>3, <1>4, <1>5, <1>6, <1>7, <1>8, <1>9, <1>10, <1>11 DEF Next

-----------------------------------------------------------------------------
(* SchemaOrderPreserved for every number of requests and schemas and every *)
(* buffer and batch size: when go-pipeline runs one flushFunc call at a    *)
(* time, the rows of one schema reach ExecuteBatch (across calls, and      *)
(* within a call in row order) in the order their Submit calls put them    *)
(* into the data channel.                                                  *)
THEOREM OrderPreserved ==
    ASSUME MaxConcurrentFlushes = 1
    PROVE  Spec => []SchemaOrderPreserved
<1>1. SInv => SchemaOrderPreserved
  BY DEF SInv
<1>2. SInv /\ [Next]_vars => SInv'
  BY SInvStep
<1>3. QED
  BY SInvInit, <1>1, <1>2, PTL DEF Spec

=============================================================================
