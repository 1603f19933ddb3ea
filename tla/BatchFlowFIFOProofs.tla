---------------------------- MODULE BatchFlowFIFOProofs ----------------------------
(***************************************************************************)
(* Proof that BatchFlow implements SchemaFIFO under the mapping of         *)
(* BatchFlowFIFO, for every number of requests and schemas and every       *)
(* buffer and batch size.                                                  *)
(***************************************************************************)
EXTENDS BatchFlowFIFO, BatchFlowOrderProofs, SequenceTheorems, TLAPS

USE ConstantsAssumption, OneFlushAtATime, FiniteRequests

-----------------------------------------------------------------------------
(* Row indices number the positions of a group 1, 2, ... in increasing     *)
(* order: they map the group's positions onto 1..n, one to one.            *)
LEMMA RowIdxIso ==
    ASSUME NEW q \in Seq(Requests), NEW s
    PROVE  LET G == GroupIdx(q, s)
           IN  /\ IsFiniteSet(G) /\ Cardinality(G) \in Nat
               /\ \A i \in G : RowIdx(q, s, i) \in 1..Cardinality(G)
               /\ \A i, j \in G : i < j => RowIdx(q, s, i) < RowIdx(q, s, j)
               /\ \A k \in 1..Cardinality(G) : \E i \in G : RowIdx(q, s, i) = k
<1> DEFINE G == GroupIdx(q, s)
           A(i) == {k \in G : k <= i}
<1>1. IsFiniteSet(G) /\ Cardinality(G) \in Nat /\ G \subseteq 1..Len(q)
  <2>1. G \subseteq 1..Len(q)
    BY DEF GroupIdx
  <2>2. IsFiniteSet(1..Len(q))
    BY FS_Interval
  <2>3. IsFiniteSet(G)
    BY <2>1, <2>2, FS_Subset
  <2>4. QED
    BY <2>1, <2>3, FS_CardinalityType
<1>2. ASSUME NEW i \in G PROVE RowIdx(q, s, i) \in 1..Cardinality(G)
  <2>1. A(i) \subseteq G /\ i \in A(i)
    BY <1>1
  <2>2. IsFiniteSet(A(i)) /\ Cardinality(A(i)) <= Cardinality(G)
    BY <1>1, <2>1, FS_Subset
  <2>3. Cardinality(A(i)) # 0 /\ Cardinality(A(i)) \in Nat
    BY <2>1, <2>2, FS_EmptySet, FS_CardinalityType
  <2>4. QED
    BY <1>1, <2>2, <2>3 DEF RowIdx
<1>3. ASSUME NEW i \in G, NEW j \in G, i < j PROVE RowIdx(q, s, i) < RowIdx(q, s, j)
  <2>1. A(i) \subseteq A(j) /\ j \in A(j) /\ j \notin A(i)
    BY <1>1, <1>3
  <2>2. IsFiniteSet(A(j)) /\ A(j) \subseteq G
    BY <1>1, FS_Subset
  <2>3. Cardinality(A(i)) <= Cardinality(A(j)) /\ Cardinality(A(i)) # Cardinality(A(j))
    BY <2>1, <2>2, FS_Subset
  <2>4. Cardinality(A(i)) \in Nat /\ Cardinality(A(j)) \in Nat
    BY <2>1, <2>2, FS_Subset, FS_CardinalityType
  <2>5. QED
    BY <2>3, <2>4 DEF RowIdx
<1>4. \A k \in 1..Cardinality(G) : \E i \in G : RowIdx(q, s, i) = k
  <2> DEFINE f == [i \in G |-> RowIdx(q, s, i)]
  <2>1. f \in Injection(G, 1..Cardinality(G))
    <3>1. f \in [G -> 1..Cardinality(G)]
      BY <1>2
    <3>2. \A i, j \in G : f[i] = f[j] => i = j
      <4> SUFFICES ASSUME NEW i \in G, NEW j \in G, i # j PROVE f[i] # f[j]
        OBVIOUS
      <4>1. i < j \/ j < i
        BY <1>1
      <4>2. f[i] = RowIdx(q, s, i) /\ f[j] = RowIdx(q, s, j)
        OBVIOUS
      <4>3. RowIdx(q, s, i) \in Nat /\ RowIdx(q, s, j) \in Nat
        BY <1>2, <1>1
      <4>4. RowIdx(q, s, i) < RowIdx(q, s, j) \/ RowIdx(q, s, j) < RowIdx(q, s, i)
        BY <1>3, <4>1
      <4>5. QED
        BY <4>2, <4>3, <4>4
    <3>3. QED
      BY <3>1, <3>2 DEF Injection, IsInjective
  <2>2. Cardinality(1..Cardinality(G)) = Cardinality(G)
    BY <1>1, FS_Interval
  <2>3. f \in Surjection(G, 1..Cardinality(G))
    BY <1>1, <2>1, <2>2, FS_Interval, FS_Injection
  <2>4. QED
    BY <2>3 DEF Surjection
<1>5. QED
  BY <1>1, <1>2, <1>3, <1>4

(* OfSchema(q, s) lists the requests of schema s in q in order: its k-th   *)
(* element is the request of row index k.                                  *)
LEMMA OfSchemaChar ==
    ASSUME NEW q \in Seq(Requests), NEW s
    PROVE  /\ OfSchema(q, s) \in Seq(Requests)
           /\ Len(OfSchema(q, s)) = Cardinality(GroupIdx(q, s))
           /\ \A i \in GroupIdx(q, s) : OfSchema(q, s)[RowIdx(q, s, i)] = q[i]
           /\ Elems(OfSchema(q, s)) = {q[i] : i \in GroupIdx(q, s)}
<1> DEFINE G == GroupIdx(q, s)
           n == Cardinality(G)
           at(k) == CHOOSE i \in G : RowIdx(q, s, i) = k
<1>1. /\ IsFiniteSet(G) /\ n \in Nat
      /\ \A i \in G : RowIdx(q, s, i) \in 1..n
      /\ \A i, j \in G : i < j => RowIdx(q, s, i) < RowIdx(q, s, j)
      /\ \A k \in 1..n : \E i \in G : RowIdx(q, s, i) = k
  BY RowIdxIso
<1>2. G \subseteq DOMAIN q /\ DOMAIN q \subseteq Nat
  BY DEF GroupIdx
<1>3. \A k \in 1..n : at(k) \in G /\ RowIdx(q, s, at(k)) = k
  BY <1>1
<1>4. ASSUME NEW i \in G PROVE at(RowIdx(q, s, i)) = i
  <2>1. at(RowIdx(q, s, i)) \in G /\ RowIdx(q, s, at(RowIdx(q, s, i))) = RowIdx(q, s, i)
    BY <1>1, <1>3
  <2>2. QED
    BY <1>1, <1>2, <2>1
<1>5. OfSchema(q, s) = [k \in 1..n |-> q[at(k)]]
  BY DEF OfSchema
<1>6. OfSchema(q, s) \in Seq(Requests) /\ Len(OfSchema(q, s)) = n
  <2> DEFINE u == [k \in 1..n |-> q[at(k)]]
  <2>1. \A k \in 1..n : q[at(k)] \in Requests
    BY <1>2, <1>3
  <2>2. u \in [1..n -> Requests]
    BY <2>1
  <2>3. u \in Seq(Requests)
    <3>1. n \in Nat
      BY <1>1
    <3>2. u \in UNION {[1..m -> Requests] : m \in Nat}
      BY <2>2, <3>1
    <3>3. QED
      BY <3>2, SeqDef
  <2>4. Len(u) = n
    BY <1>1, <2>3
  <2>5. QED
    BY <1>5, <2>3, <2>4
<1>7. \A i \in G : OfSchema(q, s)[RowIdx(q, s, i)] = q[i]
  <2> SUFFICES ASSUME NEW i \in G PROVE OfSchema(q, s)[RowIdx(q, s, i)] = q[i]
    OBVIOUS
  <2>1. RowIdx(q, s, i) \in 1..n
    BY <1>1
  <2>2. OfSchema(q, s)[RowIdx(q, s, i)] = q[at(RowIdx(q, s, i))]
    BY <1>5, <2>1
  <2>3. QED
    BY <1>4, <2>2
<1>8. Elems(OfSchema(q, s)) = {q[i] : i \in G}
  <2>1. Elems(OfSchema(q, s)) \subseteq {q[i] : i \in G}
    BY <1>3, <1>5, <1>6 DEF Elems
  <2>2. {q[i] : i \in G} \subseteq Elems(OfSchema(q, s))
    BY <1>1, <1>6, <1>7 DEF Elems
  <2>3. QED
    BY <2>1, <2>2
<1>9. QED
  BY <1>6, <1>7, <1>8

(* A sequence as long as the group whose element of row index RowIdx(i) is *)
(* q[i] for every position i of the group is OfSchema(q, s).               *)
LEMMA OfSchemaEq ==
    ASSUME NEW q \in Seq(Requests), NEW s, NEW t \in Seq(Requests),
           Len(t) = Cardinality(GroupIdx(q, s)),
           \A i \in GroupIdx(q, s) : t[RowIdx(q, s, i)] = q[i]
    PROVE  t = OfSchema(q, s)
<1>1. /\ \A k \in 1..Cardinality(GroupIdx(q, s)) :
            \E i \in GroupIdx(q, s) : RowIdx(q, s, i) = k
      /\ Cardinality(GroupIdx(q, s)) \in Nat
  BY RowIdxIso
<1>2. /\ OfSchema(q, s) \in Seq(Requests)
      /\ Len(OfSchema(q, s)) = Cardinality(GroupIdx(q, s))
      /\ \A i \in GroupIdx(q, s) : OfSchema(q, s)[RowIdx(q, s, i)] = q[i]
  BY OfSchemaChar
<1>3. \A k \in 1..Len(t) : t[k] = OfSchema(q, s)[k]
  BY <1>1, <1>2
<1>4. QED
  BY <1>2, <1>3

(* Shifting a finite set of numbers keeps its size.                        *)
LEMMA ShiftCard ==
    ASSUME NEW S \in SUBSET Nat, IsFiniteSet(S), NEW L \in Nat
    PROVE  /\ IsFiniteSet({j + L : j \in S})
           /\ Cardinality({j + L : j \in S}) = Cardinality(S)
<1> DEFINE T == {j + L : j \in S}
           g == [j \in S |-> j + L]
<1>1. g \in Injection(S, T)
  BY DEF Injection, IsInjective
<1>2. g \in Surjection(S, T)
  BY DEF Surjection
<1>3. ExistsBijection(S, T)
  BY <1>1, <1>2 DEF ExistsBijection, Bijection
<1>4. QED
  BY <1>3, FS_Bijection

(* The positions of a group in q \o t: those in q, and those in t shifted  *)
(* by Len(q).                                                              *)
LEMMA GroupIdxConcat ==
    ASSUME NEW q \in Seq(Requests), NEW t \in Seq(Requests), NEW s
    PROVE  /\ GroupIdx(q \o t, s) =
                 GroupIdx(q, s) \cup {j + Len(q) : j \in GroupIdx(t, s)}
           /\ \A i \in GroupIdx(q, s) : i <= Len(q)
           /\ \A j \in GroupIdx(t, s) : j + Len(q) > Len(q)
<1>1. GroupIdx(q \o t, s) \subseteq GroupIdx(q, s) \cup {j + Len(q) : j \in GroupIdx(t, s)}
  <2> SUFFICES ASSUME NEW i \in GroupIdx(q \o t, s)
               PROVE  i \in GroupIdx(q, s) \cup {j + Len(q) : j \in GroupIdx(t, s)}
    OBVIOUS
  <2>1. i \in 1..Len(q) + Len(t) /\ SchemaOf[(q \o t)[i]] = s
    BY DEF GroupIdx
  <2>2. CASE i <= Len(q)
    BY <2>1, <2>2 DEF GroupIdx
  <2>3. CASE i > Len(q)
    <3>1. i - Len(q) \in DOMAIN t /\ (q \o t)[i] = t[i - Len(q)]
      BY <2>1, <2>3
    <3>2. i - Len(q) \in GroupIdx(t, s)
      BY <2>1, <3>1 DEF GroupIdx
    <3>3. i = (i - Len(q)) + Len(q)
      BY <2>1
    <3>4. QED
      BY <3>2, <3>3
  <2>4. QED
    BY <2>1, <2>2, <2>3
<1>2. GroupIdx(q, s) \subseteq GroupIdx(q \o t, s)
  BY DEF GroupIdx
<1>3. \A j \in GroupIdx(t, s) : j + Len(q) \in GroupIdx(q \o t, s)
  BY DEF GroupIdx
<1>4. QED
  BY <1>1, <1>2, <1>3 DEF GroupIdx

(* Filtering distributes over concatenation.                               *)
LEMMA OfSchemaConcat ==
    ASSUME NEW q \in Seq(Requests), NEW t \in Seq(Requests), NEW s
    PROVE  OfSchema(q \o t, s) = OfSchema(q, s) \o OfSchema(t, s)
<1> DEFINE L  == Len(q)
           G1 == GroupIdx(q, s)
           G2 == GroupIdx(t, s)
           G  == GroupIdx(q \o t, s)
           Sh(S) == {j + L : j \in S}
           n1 == Cardinality(G1)
           n2 == Cardinality(G2)
           A  == OfSchema(q, s)
           B  == OfSchema(t, s)
<1>1. G = G1 \cup Sh(G2) /\ (\A i \in G1 : i <= L) /\ (\A j \in G2 : j + L > L)
  BY GroupIdxConcat
<1>2. /\ IsFiniteSet(G1) /\ IsFiniteSet(G2) /\ n1 \in Nat /\ n2 \in Nat
      /\ G1 \subseteq Nat /\ G2 \subseteq Nat /\ L \in Nat
  <2>1. IsFiniteSet(G1) /\ n1 \in Nat
    BY RowIdxIso
  <2>2. IsFiniteSet(G2) /\ n2 \in Nat
    BY RowIdxIso
  <2>3. G1 \subseteq Nat /\ G2 \subseteq Nat
    BY DEF GroupIdx
  <2>4. QED
    BY <2>1, <2>2, <2>3
<1>3. /\ \A S \in SUBSET G2 : IsFiniteSet(S) =>
            IsFiniteSet(Sh(S)) /\ Cardinality(Sh(S)) = Cardinality(S)
  BY <1>2, ShiftCard
<1>4. \A S \in SUBSET G2 : G1 \cap Sh(S) = {}
  BY <1>1, <1>2
<1>5. \A S \in SUBSET G2 : IsFiniteSet(S) =>
          Cardinality(G1 \cup Sh(S)) = n1 + Cardinality(S)
  <2> SUFFICES ASSUME NEW S \in SUBSET G2, IsFiniteSet(S)
               PROVE  Cardinality(G1 \cup Sh(S)) = n1 + Cardinality(S)
    OBVIOUS
  <2>1. IsFiniteSet(Sh(S)) /\ Cardinality(Sh(S)) = Cardinality(S)
    BY <1>3
  <2>2. Cardinality(G1 \cap Sh(S)) = 0
    BY <1>4, FS_EmptySet
  <2>3. Cardinality(G1 \cup Sh(S)) = n1 + Cardinality(Sh(S)) - Cardinality(G1 \cap Sh(S))
    BY <1>2, <2>1, FS_Union
  <2>4. Cardinality(S) \in Nat
    BY FS_CardinalityType
  <2>5. QED
    BY <1>2, <2>1, <2>2, <2>3, <2>4
<1>6. Cardinality(G) = n1 + n2
  BY <1>1, <1>2, <1>5
<1>7. \A i \in G1 : RowIdx(q \o t, s, i) = RowIdx(q, s, i)
  <2> SUFFICES ASSUME NEW i \in G1 PROVE RowIdx(q \o t, s, i) = RowIdx(q, s, i)
    OBVIOUS
  <2>1. {k \in G : k <= i} = {k \in G1 : k <= i}
    BY <1>1, <1>2
  <2>2. QED
    BY <2>1 DEF RowIdx
<1>8. \A j \in G2 : RowIdx(q \o t, s, j + L) = n1 + RowIdx(t, s, j)
  <2> SUFFICES ASSUME NEW j \in G2 PROVE RowIdx(q \o t, s, j + L) = n1 + RowIdx(t, s, j)
    OBVIOUS
  <2> DEFINE S == {k \in G2 : k <= j}
  <2>1. {k \in G : k <= j + L} = G1 \cup Sh(S)
    BY <1>1, <1>2
  <2>2. IsFiniteSet(S)
    BY <1>2, FS_Subset
  <2>3. QED
    BY <1>5, <2>1, <2>2 DEF RowIdx
<1>9. /\ A \in Seq(Requests) /\ Len(A) = n1 /\ \A i \in G1 : A[RowIdx(q, s, i)] = q[i]
      /\ B \in Seq(Requests) /\ Len(B) = n2 /\ \A j \in G2 : B[RowIdx(t, s, j)] = t[j]
  BY OfSchemaChar
<1>10. /\ \A i \in G1 : RowIdx(q, s, i) \in 1..n1
       /\ \A j \in G2 : RowIdx(t, s, j) \in 1..n2
  BY RowIdxIso
<1>11. \A i \in G : (A \o B)[RowIdx(q \o t, s, i)] = (q \o t)[i]
  <2> SUFFICES ASSUME NEW i \in G PROVE (A \o B)[RowIdx(q \o t, s, i)] = (q \o t)[i]
    OBVIOUS
  <2>1. CASE i \in G1
    <3>1. RowIdx(q \o t, s, i) = RowIdx(q, s, i) /\ RowIdx(q, s, i) \in 1..n1
      BY <1>7, <1>10, <2>1
    <3>2. (A \o B)[RowIdx(q, s, i)] = A[RowIdx(q, s, i)]
      BY <1>9, <3>1
    <3>3. (q \o t)[i] = q[i]
      BY <1>1, <2>1 DEF GroupIdx
    <3>4. QED
      BY <1>9, <2>1, <3>1, <3>2, <3>3
  <2>2. CASE i \in Sh(G2)
    <3>1. PICK j \in G2 : i = j + L
      BY <2>2
    <3>2. RowIdx(q \o t, s, i) = n1 + RowIdx(t, s, j) /\ RowIdx(t, s, j) \in 1..n2
      BY <1>8, <1>10, <3>1
    <3>3. (A \o B)[n1 + RowIdx(t, s, j)] = B[RowIdx(t, s, j)]
      BY <1>2, <1>9, <3>2
    <3>4. (q \o t)[i] = t[j]
      BY <1>2, <3>1 DEF GroupIdx
    <3>5. QED
      BY <1>9, <3>2, <3>3, <3>4
  <2>3. QED
    BY <1>1, <2>1, <2>2
<1>12. A \o B \in Seq(Requests) /\ Len(A \o B) = Cardinality(G)
  <2>1. A \in Seq(Requests) /\ B \in Seq(Requests)
    BY <1>9
  <2>2. A \o B \in Seq(Requests) /\ Len(A \o B) = Len(A) + Len(B)
    BY <2>1, ConcatProperties
  <2>3. QED
    BY <1>6, <1>9, <2>2
<1>13. q \o t \in Seq(Requests)
  BY ConcatProperties
<1>14. QED
  BY <1>11, <1>12, <1>13, OfSchemaEq

(* A sequence with no request of schema s filters to the empty sequence.  *)
LEMMA OfSchemaNone ==
    ASSUME NEW q \in Seq(Requests), NEW s, GroupIdx(q, s) = {}
    PROVE  OfSchema(q, s) = <<>>
<1>1. OfSchema(q, s) \in Seq(Requests) /\ Len(OfSchema(q, s)) = Cardinality(GroupIdx(q, s))
  BY OfSchemaChar
<1>2. Cardinality(GroupIdx(q, s)) = 0
  BY FS_EmptySet
<1>3. QED
  BY <1>1, <1>2

(* A one-request sequence is a sequence of requests.                      *)
LEMMA SingleSeq ==
    ASSUME NEW x \in Requests
    PROVE  <<x>> \in Seq(Requests) /\ Len(<<x>>) = 1 /\ <<x>>[1] = x
<1>1. <<x>> \in [1..1 -> Requests]
  OBVIOUS
<1>2. QED
  BY <1>1, SeqDef

(* The one request of a one-request sequence is kept exactly when it is of *)
(* schema s.                                                               *)
LEMMA OfSchemaSingle ==
    ASSUME NEW x \in Requests, NEW s
    PROVE  OfSchema(<<x>>, s) = IF SchemaOf[x] = s THEN <<x>> ELSE <<>>
<1>1. CASE SchemaOf[x] # s
  <2>1. GroupIdx(<<x>>, s) = {}
    BY <1>1 DEF GroupIdx
  <2>2. QED
    BY <1>1, <2>1, SingleSeq, OfSchemaNone
<1>2. CASE SchemaOf[x] = s
  <2>1. GroupIdx(<<x>>, s) = {1}
    BY <1>2 DEF GroupIdx
  <2>2. Cardinality({1}) = 1 /\ RowIdx(<<x>>, s, 1) = 1
    <3>1. {j \in GroupIdx(<<x>>, s) : j <= 1} = {1}
      BY <2>1
    <3>2. QED
      BY <3>1, FS_Singleton DEF RowIdx
  <2>3. <<x>> = OfSchema(<<x>>, s)
    <3>1. <<x>> \in Seq(Requests) /\ Len(<<x>>) = 1 /\ <<x>>[1] = x
      BY SingleSeq
    <3>2. \A i \in GroupIdx(<<x>>, s) : <<x>>[RowIdx(<<x>>, s, i)] = <<x>>[i]
      BY <2>1, <2>2
    <3>3. QED
      BY <2>1, <2>2, <3>1, <3>2, OfSchemaEq
  <2>4. QED
    BY <1>2, <2>3
<1>3. QED
  BY <1>1, <1>2

(* Appending a request to q appends it to the filtered sequence of its     *)
(* schema and leaves the others alone.                                     *)
LEMMA OfSchemaAppend ==
    ASSUME NEW q \in Seq(Requests), NEW x \in Requests, NEW s
    PROVE  OfSchema(Append(q, x), s) =
               IF SchemaOf[x] = s THEN Append(OfSchema(q, s), x) ELSE OfSchema(q, s)
<1>1. OfSchema(Append(q, x), s) = OfSchema(q, s) \o OfSchema(<<x>>, s)
  <2>1. Append(q, x) = q \o <<x>> /\ <<x>> \in Seq(Requests)
    BY AppendIsConcat, SingleSeq
  <2>2. OfSchema(q \o <<x>>, s) = OfSchema(q, s) \o OfSchema(<<x>>, s)
    BY <2>1, OfSchemaConcat
  <2>3. QED
    BY <2>1, <2>2
<1>2. OfSchema(q, s) \in Seq(Requests)
  BY OfSchemaChar
<1>3. CASE SchemaOf[x] = s
  <2>1. OfSchema(<<x>>, s) = <<x>>
    BY <1>3, OfSchemaSingle
  <2>2. Append(OfSchema(q, s), x) = OfSchema(q, s) \o <<x>>
    BY <1>2, AppendIsConcat
  <2>3. QED
    BY <1>1, <1>3, <2>1, <2>2
<1>4. CASE SchemaOf[x] # s
  <2>1. OfSchema(<<x>>, s) = <<>>
    BY <1>4, OfSchemaSingle
  <2>2. OfSchema(q, s) \o <<>> = OfSchema(q, s)
    BY <1>2, ConcatEmptySeq
  <2>3. QED
    BY <1>1, <1>4, <2>1, <2>2
<1>5. QED
  BY <1>3, <1>4

(* A non-empty sequence is its head followed by its tail.                  *)
LEMMA HeadThenTail ==
    ASSUME NEW q \in Seq(Requests), q # <<>>
    PROVE  q = <<Head(q)>> \o Tail(q) /\ Head(q) \in Requests /\ Tail(q) \in Seq(Requests)
<1>1. Head(q) \in Requests /\ Tail(q) \in Seq(Requests)
  BY HeadTailProperties
<1>2. <<Head(q)>> \o Tail(q) \in Seq(Requests) /\ Len(<<Head(q)>> \o Tail(q)) = Len(q)
  BY <1>1, HeadTailProperties, ConcatProperties
<1>3. \A i \in 1..Len(q) : (<<Head(q)>> \o Tail(q))[i] = q[i]
  BY <1>1, HeadTailProperties, ConcatProperties
<1>4. QED
  BY <1>1, <1>2, <1>3, SeqEqual

-----------------------------------------------------------------------------
(* Concatenation of sequences of requests is associative.                  *)
LEMMA SeqAssoc ==
    ASSUME NEW A \in Seq(Requests), NEW D \in Seq(Requests), NEW X \in Seq(Requests)
    PROVE  A \o (D \o X) = (A \o D) \o X
BY ConcatAssociative

(* Append, the empty sequence and Elems on sequences of requests.          *)
LEMMA SnocCat ==
    ASSUME NEW q \in Seq(Requests), NEW x \in Requests
    PROVE  Append(q, x) = q \o <<x>>
BY AppendIsConcat

LEMMA CatEmpty ==
    ASSUME NEW q \in Seq(Requests)
    PROVE  q \o <<>> = q /\ <<>> \o q = q
BY ConcatEmptySeq

LEMMA CatElems ==
    ASSUME NEW q \in Seq(Requests), NEW t \in Seq(Requests)
    PROVE  q \o t \in Seq(Requests) /\ Elems(q \o t) = Elems(q) \cup Elems(t)
BY ConcatProperties, ElemsConcat

(* Concatenation adds the lengths of two sequences of requests.           *)
LEMMA CatLen ==
    ASSUME NEW q \in Seq(Requests), NEW t \in Seq(Requests)
    PROVE  q \o t \in Seq(Requests) /\ Len(q \o t) = Len(q) + Len(t)
BY ConcatProperties

(* The refinement mapping as a function of the flushes F, the batch b and  *)
(* the channel d, so that one lemma speaks of a state and its successor.  *)
FPOf(F, t) ==
    IF F = {} THEN <<>>
    ELSE LET f == CHOOSE g \in F : TRUE
         IN  IF t \in f.todo THEN OfSchema(f.batch, t) ELSE <<>>

QOf(F, b, d, t) == (FPOf(F, t) \o OfSchema(b, t)) \o OfSchema(d, t)

(* The flight a dispatch of batch b starts.                                *)
NewFlight(b) == [batch |-> b, todo |-> GroupKeys(b)]

LEMMA QueueOfIsQOf ==
    /\ QueueOf = [t \in Schemas |-> QOf(flights, batchData, dataChan, t)]
    /\ QueueOf' = [t \in Schemas |-> QOf(flights', batchData', dataChan', t)]
BY DEF QueueOf, QOf, FPOf, FlightPending

(* The pending part of the mapping is a sequence of requests.              *)
LEMMA FPOfSeq ==
    ASSUME NEW F \in SUBSET Flight, NEW t
    PROVE  FPOf(F, t) \in Seq(Requests)
<1>1. CASE F = {}
  BY <1>1 DEF FPOf
<1>2. CASE F # {}
  <2> DEFINE f == CHOOSE g \in F : TRUE
  <2>1. f \in Flight
    BY <1>2
  <2>2. OfSchema(f.batch, t) \in Seq(Requests)
    BY <2>1, OfSchemaChar DEF Flight
  <2>3. QED
    BY <1>2, <2>2 DEF FPOf
<1>3. QED
  BY <1>1, <1>2

(* The empty sequence holds no request of any schema.                      *)
LEMMA OfSchemaEmpty ==
    ASSUME NEW t
    PROVE  OfSchema(<<>>, t) = <<>>
<1>1. <<>> \in Seq(Requests) /\ GroupIdx(<<>>, t) = {}
  BY DEF GroupIdx
<1>2. QED
  BY <1>1, OfSchemaNone

(* The running flush of a dispatched batch holds all of the batch's        *)
(* requests of each schema.                                                *)
LEMMA FPOfNew ==
    ASSUME NEW b \in Seq(Requests), NEW t
    PROVE  FPOf({NewFlight(b)}, t) = OfSchema(b, t)
<1>1. (CHOOSE g \in {NewFlight(b)} : TRUE) = NewFlight(b)
  OBVIOUS
<1>2. FPOf({NewFlight(b)}, t) =
        IF t \in GroupKeys(b) THEN OfSchema(b, t) ELSE <<>>
  BY <1>1 DEF FPOf, NewFlight
<1>3. t \notin GroupKeys(b) => OfSchema(b, t) = <<>>
  <2>1. t \notin GroupKeys(b) => GroupIdx(b, t) = {}
    BY DEF GroupKeys, GroupIdx
  <2>2. QED
    BY <2>1, OfSchemaNone
<1>4. QED
  BY <1>2, <1>3

(* A request appended to a sequence joins its schema's filter at the back. *)
LEMMA OfSchemaSnoc ==
    ASSUME NEW q \in Seq(Requests), NEW x \in Requests, NEW u
    PROVE  OfSchema(Append(q, x), u) = OfSchema(q, u) \o OfSchema(<<x>>, u)
<1>1. <<x>> \in Seq(Requests) /\ Append(q, x) = q \o <<x>>
  BY SingleSeq, AppendIsConcat
<1>2. OfSchema(q \o <<x>>, u) = OfSchema(q, u) \o OfSchema(<<x>>, u)
  BY <1>1, OfSchemaConcat
<1>3. QED
  BY <1>1, <1>2

(* The loop's receive moves a request inside the mapped queue of its      *)
(* schema, from the channel's part to the batch's part.                    *)
LEMMA QOfReceive ==
    ASSUME NEW F \in SUBSET Flight, NEW b \in Seq(Requests), NEW d \in Seq(Requests),
           d # <<>>, NEW u
    PROVE  QOf(F, Append(b, Head(d)), Tail(d), u) = QOf(F, b, d, u)
<1> DEFINE h == Head(d)
           P == FPOf(F, u)
           B == OfSchema(b, u)
           H == OfSchema(<<h>>, u)
           T == OfSchema(Tail(d), u)
<1>1. d = <<h>> \o Tail(d) /\ h \in Requests /\ Tail(d) \in Seq(Requests)
  BY HeadThenTail
<1>2. <<h>> \in Seq(Requests)
  BY <1>1, SingleSeq
<1>3. /\ P \in Seq(Requests) /\ B \in Seq(Requests) /\ H \in Seq(Requests)
      /\ T \in Seq(Requests)
  BY <1>1, <1>2, FPOfSeq, OfSchemaChar
<1>4. OfSchema(Append(b, h), u) = B \o H
  BY <1>1, OfSchemaSnoc
<1>5. OfSchema(d, u) = H \o T
  <2>1. OfSchema(<<h>> \o Tail(d), u) = H \o T
    BY <1>1, <1>2, OfSchemaConcat
  <2>2. QED
    BY <1>1, <2>1
<1>6. (P \o (B \o H)) \o T = (P \o B) \o (H \o T)
  <2> HIDE ConstantsAssumption, OneFlushAtATime, FiniteRequests
  <2>1. P \o (B \o H) = (P \o B) \o H
    BY <1>3, SeqAssoc
  <2>2. P \o B \in Seq(Requests)
    BY <1>3, CatElems
  <2>3. ((P \o B) \o H) \o T = (P \o B) \o (H \o T)
    BY <1>3, <2>2, SeqAssoc
  <2>4. QED
    BY <2>1, <2>3
<1>7. QED
  BY <1>4, <1>5, <1>6 DEF QOf

(* A batch cut moves the batch's requests to a new flush: with no flush    *)
(* running before, the mapped queues do not change.                        *)
LEMMA QOfDispatch ==
    ASSUME NEW b \in Seq(Requests), NEW d \in Seq(Requests), NEW t
    PROVE  QOf({NewFlight(b)}, <<>>, d, t) = QOf({}, b, d, t)
<1>1. OfSchema(<<>>, t) = <<>>
  BY OfSchemaEmpty
<1>2. OfSchema(b, t) \in Seq(Requests) /\ OfSchema(d, t) \in Seq(Requests)
  BY OfSchemaChar
<1>3. FPOf({NewFlight(b)}, t) = OfSchema(b, t) /\ FPOf({}, t) = <<>>
  BY FPOfNew DEF FPOf
<1>4. QED
  BY <1>1, <1>2, <1>3, CatEmpty DEF QOf

(* Shutdown's dispatch of the batch followed by the channel leaves the     *)
(* mapped queues as they were.                                             *)
LEMMA QOfShutdown ==
    ASSUME NEW b \in Seq(Requests), NEW d \in Seq(Requests), NEW t
    PROVE  QOf({NewFlight(b \o d)}, <<>>, <<>>, t) = QOf({}, b, d, t)
<1> DEFINE B == OfSchema(b, t)
           D == OfSchema(d, t)
<1>1. OfSchema(<<>>, t) = <<>>
  BY OfSchemaEmpty
<1>2. B \in Seq(Requests) /\ D \in Seq(Requests) /\ b \o d \in Seq(Requests)
  BY OfSchemaChar, CatElems
<1>3. FPOf({NewFlight(b \o d)}, t) = B \o D
  <2>1. FPOf({NewFlight(b \o d)}, t) = OfSchema(b \o d, t)
    BY <1>2, FPOfNew
  <2>2. OfSchema(b \o d, t) = B \o D
    BY OfSchemaConcat
  <2>3. QED
    BY <2>1, <2>2
<1>4. B \o D \in Seq(Requests) /\ FPOf({}, t) = <<>>
  BY <1>2, CatElems DEF FPOf
<1>5. QOf({NewFlight(b \o d)}, <<>>, <<>>, t) = B \o D
  <2>1. (B \o D) \o <<>> = B \o D
    BY <1>4, CatEmpty
  <2>2. QED
    BY <1>1, <1>3, <2>1 DEF QOf
<1>6. QOf({}, b, d, t) = B \o D
  BY <1>2, <1>4, CatEmpty DEF QOf, B, D
<1>7. QED
  BY <1>5, <1>6

(* Cutting P \o Q after P gives P in front and Q behind.                   *)
LEMMA CutAtJoin ==
    ASSUME NEW P \in Seq(Requests), NEW Q \in Seq(Requests)
    PROVE  /\ SubSeq(P \o Q, 1, Len(P)) = P
           /\ SubSeq(P \o Q, Len(P) + 1, Len(P \o Q)) = Q
           /\ Len(P) <= Len(P \o Q)
<1>1. Len(P \o Q) = Len(P) + Len(Q) /\ P \o Q \in Seq(Requests)
      /\ Len(P) \in Nat /\ Len(Q) \in Nat
  BY CatLen, LenProperties
<1>2. SubSeq(P \o Q, 1, Len(P)) = P
  <2>1. CASE P = <<>>
    BY <2>1, <1>1, SubSeqEmpty
  <2>2. CASE P # <<>>
    <3>1. SubSeq(P \o Q, 1, Len(P)) = SubSeq(P, 1, Len(P))
      BY <2>2, <1>1, EmptySeq, SubSeqOfConcat1
    <3>2. QED
      BY <3>1, SubSeqFull
  <2>3. QED
    BY <2>1, <2>2
<1>3. SubSeq(P \o Q, Len(P) + 1, Len(P \o Q)) = Q
  <2>1. CASE Q = <<>>
    BY <2>1, <1>1, SubSeqEmpty, EmptySeq
  <2>2. CASE Q # <<>>
    <3>1. Len(Q) \in Nat \ {0}
      BY <2>2, EmptySeq
    <3>2. SubSeq(P \o Q, Len(P) + 1, Len(P) + Len(Q))
            = SubSeq(Q, Len(P) + 1 - Len(P), Len(P) + Len(Q) - Len(P))
      BY <3>1, <1>1, SubSeqOfConcat2
    <3>3. Len(P) + 1 - Len(P) = 1 /\ Len(P) + Len(Q) - Len(P) = Len(Q)
      BY <1>1
    <3>4. QED
      BY <1>1, <3>2, <3>3, SubSeqFull
  <2>3. QED
    BY <2>1, <2>2
<1>4. QED
  BY <1>1, <1>2, <1>3

(* A cut of nothing takes nothing, a cut of everything leaves nothing.     *)
LEMMA CutEnds ==
    ASSUME NEW q \in Seq(Requests)
    PROVE  /\ SubSeq(q, 1, 0) = <<>>
           /\ SubSeq(q, 0 + 1, Len(q)) = q
BY SubSeqEmpty, SubSeqFull

(* The filter of a batch holding each request once has at most as many    *)
(* elements as there are requests.                                         *)
LEMMA OfSchemaBound ==
    ASSUME NEW q \in Seq(Requests), NoDup(q), NEW u
    PROVE  Len(OfSchema(q, u)) \in 0..Cardinality(Requests)
<1> DEFINE G == GroupIdx(q, u)
           g == [i \in G |-> q[i]]
<1>1. Len(OfSchema(q, u)) = Cardinality(G) /\ Cardinality(G) \in Nat
  BY OfSchemaChar, RowIdxIso
<1>2. g \in Injection(G, Requests)
  BY DEF Injection, IsInjective, NoDup, GroupIdx
<1>3. Cardinality(G) <= Cardinality(Requests)
  BY <1>2, FS_Injection
<1>4. QED
  BY <1>1, <1>3

(* The pending part of the mapping when one flush runs.                    *)
LEMMA FPOfSingle ==
    ASSUME NEW g, NEW u
    PROVE  FPOf({g}, u) = IF u \in g.todo THEN OfSchema(g.batch, u) ELSE <<>>
<1>1. (CHOOSE x \in {g} : TRUE) = g
  OBVIOUS
<1>2. QED
  BY <1>1 DEF FPOf

(* The mapped queue of a schema: the running flush's part in front of the  *)
(* part behind it, the batch's and then the channel's.                     *)
LEMMA QOfSplit ==
    ASSUME NEW F \in SUBSET Flight, NEW b \in Seq(Requests), NEW d \in Seq(Requests),
           NEW u
    PROVE  /\ FPOf(F, u) \in Seq(Requests)
           /\ OfSchema(b, u) \o OfSchema(d, u) \in Seq(Requests)
           /\ QOf(F, b, d, u) = FPOf(F, u) \o (OfSchema(b, u) \o OfSchema(d, u))
<1>1. FPOf(F, u) \in Seq(Requests) /\ OfSchema(b, u) \in Seq(Requests)
      /\ OfSchema(d, u) \in Seq(Requests)
  BY FPOfSeq, OfSchemaChar
<1>2. OfSchema(b, u) \o OfSchema(d, u) \in Seq(Requests)
  BY <1>1, CatElems
<1>3. (FPOf(F, u) \o OfSchema(b, u)) \o OfSchema(d, u)
        = FPOf(F, u) \o (OfSchema(b, u) \o OfSchema(d, u))
  <2> HIDE ConstantsAssumption, OneFlushAtATime, FiniteRequests
  <2> QED
    BY <1>1, SeqAssoc
<1>4. QED
  BY <1>2, <1>3, FPOfSeq DEF QOf

(* What the queues hold behind the running flush.                          *)
Behind(u) == OfSchema(batchData, u) \o OfSchema(dataChan, u)

(* The requests of schema u a running flush f has still to do.             *)
GroupRows(f, u) == {f.batch[i] : i \in GroupIdx(f.batch, u)}

(* What a step of the running flush f sees of the mapping: f's part of     *)
(* the queue of u holds the rows of u when f has still to do u; its cut    *)
(* is a legal one; and the rows f has still to do are the pending ones.    *)
LEMMA FlightMapping ==
    ASSUME SInv, NEW f \in flights, NEW s \in Schemas, FlushGroup(f, s)
    PROVE  /\ flights = {f} /\ f \in Flight /\ TypeOK
           /\ UNCHANGED <<batchData, dataChan>>
           /\ \A u \in Schemas :
                 /\ FPOf(flights, u) \in Seq(Requests)
                 /\ Behind(u) \in Seq(Requests)
                 /\ QueueOf[u] = FPOf(flights, u) \o Behind(u)
                 /\ Len(FPOf(flights, u)) \in 0..Cardinality(Requests)
                 /\ FIFO!Held(FPOf(flights, u)) =
                       IF u \in f.todo THEN GroupRows(f, u) ELSE {}
           /\ UNION {FIFO!Held(FPOf(flights, u)) : u \in Schemas} = Pending(f)
           /\ GroupRows(f, s) # {}
<1>1. flights = {f} /\ f \in Flight /\ TypeOK /\ NoDup(f.batch)
      /\ f.todo \subseteq GroupKeys(f.batch) /\ s \in f.todo
  BY DEF SInv, OneFlight, OInv, IInv, TypeOK, FlightsDisjoint, TodoGrouped, FlushGroup
<1>2. UNCHANGED <<batchData, dataChan>>
  BY DEF FlushGroup
<1>3. f.batch \in Seq(Requests) /\ f.todo \subseteq Schemas
  BY <1>1 DEF Flight
<1>4. ASSUME NEW u \in Schemas
      PROVE  /\ FPOf(flights, u) \in Seq(Requests)
             /\ Behind(u) \in Seq(Requests)
             /\ QueueOf[u] = FPOf(flights, u) \o Behind(u)
             /\ Len(FPOf(flights, u)) \in 0..Cardinality(Requests)
             /\ FIFO!Held(FPOf(flights, u)) =
                   IF u \in f.todo THEN GroupRows(f, u) ELSE {}
  <2>1. FPOf(flights, u) = IF u \in f.todo THEN OfSchema(f.batch, u) ELSE <<>>
    BY <1>1, FPOfSingle
  <2>2. /\ FPOf(flights, u) \in Seq(Requests)
        /\ Behind(u) \in Seq(Requests)
        /\ QueueOf[u] = FPOf(flights, u) \o Behind(u)
    <3>1. flights \in SUBSET Flight /\ batchData \in Seq(Requests)
          /\ dataChan \in Seq(Requests)
      BY <1>1 DEF TypeOK
    <3>2. QueueOf[u] = QOf(flights, batchData, dataChan, u)
      BY QueueOfIsQOf
    <3>3. /\ FPOf(flights, u) \in Seq(Requests)
          /\ OfSchema(batchData, u) \o OfSchema(dataChan, u) \in Seq(Requests)
          /\ QOf(flights, batchData, dataChan, u) =
               FPOf(flights, u) \o (OfSchema(batchData, u) \o OfSchema(dataChan, u))
      <4> HIDE ConstantsAssumption, OneFlushAtATime, FiniteRequests
      <4> QED
        BY <3>1, QOfSplit
    <3>4. QED
      BY <3>2, <3>3 DEF Behind
  <2>3. Len(OfSchema(f.batch, u)) \in 0..Cardinality(Requests)
    BY <1>1, <1>3, OfSchemaBound
  <2>4. Elems(OfSchema(f.batch, u)) = GroupRows(f, u)
    BY <1>3, OfSchemaChar DEF GroupRows
  <2>5. FIFO!Held(FPOf(flights, u)) = IF u \in f.todo THEN GroupRows(f, u) ELSE {}
    <3>1. CASE u \in f.todo
      BY <2>1, <2>4, <3>1 DEF Elems, FIFO!Held
    <3>2. CASE u \notin f.todo
      BY <2>1, <3>2 DEF FIFO!Held
    <3>3. QED
      BY <3>1, <3>2
  <2>6. Len(FPOf(flights, u)) \in 0..Cardinality(Requests)
    <3>1. Cardinality(Requests) \in Nat
      BY FS_CardinalityType
    <3>2. QED
      BY <2>1, <2>3, <3>1
  <2>7. QED
    BY <2>2, <2>5, <2>6
<1>5. UNION {FIFO!Held(FPOf(flights, u)) : u \in Schemas} = Pending(f)
  <2>1. UNION {FIFO!Held(FPOf(flights, u)) : u \in Schemas}
          = UNION {GroupRows(f, u) : u \in f.todo}
    BY <1>3, <1>4
  <2>2. UNION {GroupRows(f, u) : u \in f.todo} = Pending(f)
    BY DEF Pending, GroupRows
  <2>3. QED
    BY <2>1, <2>2
<1>6. GroupRows(f, s) # {}
  BY <1>1 DEF GroupKeys, GroupRows, GroupIdx
<1>7. QED
  BY <1>1, <1>2, <1>4, <1>5, <1>6

(* SchemaFIFO's bound on a cut is the number of requests.                   *)
LEMMA FIFOCard == FIFO!Cardinality(Requests) = Cardinality(Requests)
BY DEF FIFO!Cardinality, Cardinality

(* After a step of the running flush, the mapped queue of u is what stays  *)
(* of f's part in front of what was behind it.                             *)
LEMMA FlightAfter ==
    ASSUME SInv, NEW f \in flights, NEW s \in Schemas, FlushGroup(f, s),
           NEW u \in Schemas
    PROVE  /\ FPOf(flights', u) \in Seq(Requests)
           /\ QueueOf'[u] = FPOf(flights', u) \o Behind(u)
<1> DEFINE rest == [batch |-> f.batch, todo |-> f.todo \ {s}]
<1>1. flights' \subseteq {rest} /\ UNCHANGED <<batchData, dataChan>>
  BY FlushGroupFacts
<1>2. f \in Flight /\ TypeOK
  BY FlightMapping
<1>3. flights' \in SUBSET Flight /\ batchData' \in Seq(Requests)
      /\ dataChan' \in Seq(Requests)
  BY <1>1, <1>2 DEF Flight, TypeOK
<1>4. QueueOf'[u] = QOf(flights', batchData', dataChan', u)
  BY QueueOfIsQOf
<1>5. /\ FPOf(flights', u) \in Seq(Requests)
      /\ QOf(flights', batchData', dataChan', u) =
           FPOf(flights', u) \o (OfSchema(batchData', u) \o OfSchema(dataChan', u))
  <2> HIDE ConstantsAssumption, OneFlushAtATime, FiniteRequests
  <2> QED
    BY <1>3, QOfSplit
<1>6. QED
  BY <1>1, <1>4, <1>5 DEF Behind

(* A step of the running flush that ends it resolves the whole of its      *)
(* pending part, each request with the outcome o gives it.                 *)
LEMMA FlushEndResolve ==
    ASSUME SInv, NEW f \in flights, NEW s \in Schemas, FlushGroup(f, s),
           flights' = {},
           NEW o \in [Pending(f) -> FIFO!Resolved],
           outcome' = [r \in Requests |-> IF r \in Pending(f) THEN o[r] ELSE outcome[r]]
    PROVE  FIFO!Resolve
<1> DEFINE cut == [u \in Schemas |-> Len(FPOf(flights, u))]
<1>1. \A u \in Schemas :
         /\ FPOf(flights, u) \in Seq(Requests)
         /\ Behind(u) \in Seq(Requests)
         /\ QueueOf[u] = FPOf(flights, u) \o Behind(u)
         /\ Len(FPOf(flights, u)) \in 0..Cardinality(Requests)
  BY FlightMapping
<1>2. cut \in [Schemas -> 0..Cardinality(Requests)]
  BY <1>1
<1>3. \A u \in Schemas : cut[u] <= Len(QueueOf[u])
  BY <1>1, CutAtJoin
<1>4. UNION {FIFO!Held(SubSeq(QueueOf[u], 1, cut[u])) : u \in Schemas} = Pending(f)
  <2>1. ASSUME NEW u \in Schemas
        PROVE  SubSeq(QueueOf[u], 1, cut[u]) = FPOf(flights, u)
    <3>1. cut[u] = Len(FPOf(flights, u))
      OBVIOUS
    <3>2. SubSeq(FPOf(flights, u) \o Behind(u), 1, Len(FPOf(flights, u)))
            = FPOf(flights, u)
      <4> HIDE ConstantsAssumption, OneFlushAtATime, FiniteRequests
      <4> QED
        BY <1>1, CutAtJoin
    <3>3. QED
      BY <1>1, <3>1, <3>2
  <2>2. {FIFO!Held(SubSeq(QueueOf[u], 1, cut[u])) : u \in Schemas}
          = {FIFO!Held(FPOf(flights, u)) : u \in Schemas}
    BY <2>1
  <2>3. QED
    BY <2>2, FlightMapping
<1>5. Pending(f) # {}
  <2>1. GroupRows(f, s) # {} /\ s \in f.todo
    BY FlightMapping DEF FlushGroup
  <2>2. QED
    BY <2>1 DEF Pending, GroupRows
<1>6. QueueOf' = [u \in Schemas |-> SubSeq(QueueOf[u], cut[u] + 1, Len(QueueOf[u]))]
  <2>1. ASSUME NEW u \in Schemas
        PROVE  QueueOf'[u] = SubSeq(QueueOf[u], cut[u] + 1, Len(QueueOf[u]))
    <3>1. QueueOf'[u] = <<>> \o Behind(u)
      BY FlightAfter DEF FPOf
    <3>2. <<>> \o Behind(u) = Behind(u)
      BY <1>1, CatEmpty
    <3>3. SubSeq(QueueOf[u], cut[u] + 1, Len(QueueOf[u])) = Behind(u)
      BY <1>1, CutAtJoin
    <3>4. QED
      BY <3>1, <3>2, <3>3
  <2>2. QueueOf' = [u \in Schemas |-> QueueOf'[u]]
    BY QueueOfIsQOf
  <2>3. QED
    BY <2>1, <2>2
<1>7. \E oo \in [Pending(f) -> FIFO!Resolved] :
         outcome' = [r \in Requests |-> IF r \in Pending(f) THEN oo[r] ELSE outcome[r]]
  OBVIOUS
<1>8. cut \in [Schemas -> 0..FIFO!Cardinality(Requests)]
  BY <1>2, FIFOCard
<1> DEFINE done == UNION {FIFO!Held(SubSeq(QueueOf[u], 1, cut[u])) : u \in Schemas}
<1>9. \E oo \in [done -> FIFO!Resolved] :
         outcome' = [r \in Requests |-> IF r \in done THEN oo[r] ELSE outcome[r]]
  <2>1. done = Pending(f)
    BY <1>4 DEF done
  <2>2. PICK oo \in [Pending(f) -> FIFO!Resolved] :
          outcome' = [r \in Requests |-> IF r \in Pending(f) THEN oo[r] ELSE outcome[r]]
    BY <1>7
  <2>3. oo \in [done -> FIFO!Resolved]
        /\ outcome' = [r \in Requests |-> IF r \in done THEN oo[r] ELSE outcome[r]]
    BY <2>1, <2>2
  <2>4. QED
    BY <2>3
<1>10. QED
  <2> HIDE ConstantsAssumption, OneFlushAtATime, FiniteRequests
  <2> QED
    BY <1>3, <1>4, <1>5, <1>6, <1>8, <1>9 DEF FIFO!Resolve

(* A group that succeeded resolves the front of its schema's queue, the    *)
(* group's rows, and leaves every other queue as it was.                   *)
LEMMA FlushOkResolve ==
    ASSUME SInv, NEW f \in flights, NEW s \in Schemas, FlushGroup(f, s),
           flights' = IF f.todo \ {s} = {} THEN {}
                      ELSE {[batch |-> f.batch, todo |-> f.todo \ {s}]},
           outcome' = Mark(GroupRows(f, s), "executed")
    PROVE  FIFO!Resolve
<1> DEFINE rest == [batch |-> f.batch, todo |-> f.todo \ {s}]
           cut == [u \in Schemas |-> IF u = s THEN Len(FPOf(flights, s)) ELSE 0]
           done == UNION {FIFO!Held(SubSeq(QueueOf[u], 1, cut[u])) : u \in Schemas}
<1>1. /\ flights = {f} /\ s \in f.todo
      /\ \A u \in Schemas :
            /\ FPOf(flights, u) \in Seq(Requests)
            /\ Behind(u) \in Seq(Requests)
            /\ QueueOf[u] = FPOf(flights, u) \o Behind(u)
            /\ Len(FPOf(flights, u)) \in 0..Cardinality(Requests)
            /\ FIFO!Held(FPOf(flights, u)) =
                  IF u \in f.todo THEN GroupRows(f, u) ELSE {}
      /\ GroupRows(f, s) # {}
  BY FlightMapping DEF FlushGroup
<1>2. /\ Cardinality(Requests) \in Nat
      /\ \A u \in Schemas : QueueOf[u] \in Seq(Requests)
  <2>1. Cardinality(Requests) \in Nat
    BY FS_CardinalityType
  <2>2. ASSUME NEW u \in Schemas PROVE QueueOf[u] \in Seq(Requests)
    <3>1. /\ FPOf(flights, u) \in Seq(Requests) /\ Behind(u) \in Seq(Requests)
          /\ QueueOf[u] = FPOf(flights, u) \o Behind(u)
      BY <1>1
    <3>2. FPOf(flights, u) \o Behind(u) \in Seq(Requests)
      <4> HIDE ConstantsAssumption, OneFlushAtATime, FiniteRequests
      <4> QED
        BY <3>1, CatElems
    <3>3. QED
      BY <3>1, <3>2
  <2>3. QED
    BY <2>1, <2>2
<1>3. cut \in [Schemas -> 0..FIFO!Cardinality(Requests)]
  <2>1. Len(FPOf(flights, s)) \in 0..Cardinality(Requests)
    BY <1>1
  <2>2. 0 \in 0..Cardinality(Requests)
    BY <1>2
  <2>3. cut \in [Schemas -> 0..Cardinality(Requests)]
    BY <2>1, <2>2
  <2>4. QED
    BY <2>3, FIFOCard
<1>4. ASSUME NEW u \in Schemas
      PROVE  /\ cut[u] <= Len(QueueOf[u])
             /\ SubSeq(QueueOf[u], 1, cut[u]) = IF u = s THEN FPOf(flights, s) ELSE <<>>
  <2>1. CASE u = s
    <3>1. SubSeq(FPOf(flights, u) \o Behind(u), 1, Len(FPOf(flights, u)))
            = FPOf(flights, u)
          /\ Len(FPOf(flights, u)) <= Len(FPOf(flights, u) \o Behind(u))
      <4> HIDE ConstantsAssumption, OneFlushAtATime, FiniteRequests
      <4> QED
        BY <1>1, CutAtJoin
    <3>2. QED
      BY <1>1, <2>1, <3>1
  <2>2. CASE u # s
    <3>1. QueueOf[u] \in Seq(Requests)
      BY <1>2
    <3>2. Len(QueueOf[u]) \in Nat /\ SubSeq(QueueOf[u], 1, 0) = <<>>
      BY <3>1, LenProperties, CutEnds
    <3>3. QED
      BY <2>2, <3>2
  <2>3. QED
    BY <2>1, <2>2
<1>5. done = GroupRows(f, s)
  <2>1. ASSUME NEW u \in Schemas
        PROVE  FIFO!Held(SubSeq(QueueOf[u], 1, cut[u])) =
                  IF u = s THEN GroupRows(f, s) ELSE {}
    <3>1. CASE u = s
      BY <1>1, <1>4, <3>1
    <3>2. CASE u # s
      BY <1>4, <3>2 DEF FIFO!Held
    <3>3. QED
      BY <3>1, <3>2
  <2>2. {FIFO!Held(SubSeq(QueueOf[u], 1, cut[u])) : u \in Schemas}
          = {IF u = s THEN GroupRows(f, s) ELSE {} : u \in Schemas}
    BY <2>1
  <2>3. UNION {IF u = s THEN GroupRows(f, s) ELSE {} : u \in Schemas} = GroupRows(f, s)
    OBVIOUS
  <2>4. QED
    BY <2>2, <2>3 DEF done
<1>6. ASSUME NEW u \in Schemas
      PROVE  FPOf(flights', u) = IF u = s THEN <<>> ELSE FPOf(flights, u)
  <2>1. FPOf(flights, u) = IF u \in f.todo THEN OfSchema(f.batch, u) ELSE <<>>
    BY <1>1, FPOfSingle
  <2>2. CASE f.todo \ {s} = {}
    BY <2>1, <2>2 DEF FPOf
  <2>3. CASE f.todo \ {s} # {}
    <3>1. FPOf(flights', u) = IF u \in f.todo \ {s} THEN OfSchema(f.batch, u) ELSE <<>>
      BY <2>3, FPOfSingle
    <3>2. QED
      BY <2>1, <3>1
  <2>3a. QED
    BY <2>2, <2>3
<1>7. QueueOf' = [u \in Schemas |-> SubSeq(QueueOf[u], cut[u] + 1, Len(QueueOf[u]))]
  <2>1. ASSUME NEW u \in Schemas
        PROVE  QueueOf'[u] = SubSeq(QueueOf[u], cut[u] + 1, Len(QueueOf[u]))
    <3>1. QueueOf'[u] = FPOf(flights', u) \o Behind(u)
      BY FlightAfter
    <3>2. CASE u = s
      <4>1. QueueOf'[u] = Behind(u)
        BY <1>1, <1>6, <3>1, <3>2, CatEmpty
      <4>2. SubSeq(FPOf(flights, u) \o Behind(u), Len(FPOf(flights, u)) + 1,
                   Len(FPOf(flights, u) \o Behind(u))) = Behind(u)
        <5> HIDE ConstantsAssumption, OneFlushAtATime, FiniteRequests
        <5> QED
          BY <1>1, CutAtJoin
      <4>3. QED
        BY <1>1, <3>2, <4>1, <4>2
    <3>3. CASE u # s
      <4>1. QueueOf'[u] = QueueOf[u] /\ QueueOf[u] \in Seq(Requests)
        BY <1>1, <1>2, <1>6, <3>1, <3>3
      <4>2. QED
        BY <3>3, <4>1, CutEnds
    <3>4. QED
      BY <3>2, <3>3
  <2>2. QueueOf' = [u \in Schemas |-> QueueOf'[u]]
    BY QueueOfIsQOf
  <2>3. QED
    BY <2>1, <2>2
<1>8. \E oo \in [done -> FIFO!Resolved] :
         outcome' = [r \in Requests |-> IF r \in done THEN oo[r] ELSE outcome[r]]
  <2>1. [r \in done |-> "executed"] \in [done -> FIFO!Resolved]
    BY DEF FIFO!Resolved
  <2>2. outcome' = [r \in Requests |-> IF r \in done THEN [x \in done |-> "executed"][r]
                                       ELSE outcome[r]]
    BY <1>5 DEF Mark
  <2>3. QED
    BY <2>1, <2>2
<1>9. QED
  <2> HIDE ConstantsAssumption, OneFlushAtATime, FiniteRequests
  <2> QED
    BY <1>1, <1>3, <1>4, <1>5, <1>7, <1>8 DEF FIFO!Resolve

(* Submit's send adds its request at the back of its schema's mapped       *)
(* queue and leaves the other queues alone.                                *)
LEMMA QOfSend ==
    ASSUME NEW F \in SUBSET Flight, NEW b \in Seq(Requests), NEW d \in Seq(Requests),
           NEW x \in Requests, NEW u
    PROVE  QOf(F, b, Append(d, x), u) =
               IF SchemaOf[x] = u THEN Append(QOf(F, b, d, u), x) ELSE QOf(F, b, d, u)
<1> DEFINE A == FPOf(F, u) \o OfSchema(b, u)
           D == OfSchema(d, u)
           X == OfSchema(<<x>>, u)
<1> HIDE ConstantsAssumption, OneFlushAtATime, FiniteRequests
<1>1. A \in Seq(Requests) /\ D \in Seq(Requests) /\ X \in Seq(Requests)
      /\ <<x>> \in Seq(Requests)
  BY FPOfSeq, OfSchemaChar, CatElems, SingleSeq
<1>2. OfSchema(Append(d, x), u) = D \o X
  BY OfSchemaSnoc
<1>3. A \o (D \o X) = (A \o D) \o X
  BY <1>1, SeqAssoc
<1>4. X = IF SchemaOf[x] = u THEN <<x>> ELSE <<>>
  BY OfSchemaSingle
<1>5. A \o D \in Seq(Requests)
  BY <1>1, CatElems
<1>6. (A \o D) \o X = IF SchemaOf[x] = u THEN Append(A \o D, x) ELSE A \o D
  <2>1. CASE SchemaOf[x] = u
    <3>1. Append(A \o D, x) = (A \o D) \o <<x>>
      BY <1>5, SnocCat
    <3>2. QED
      BY <1>4, <2>1, <3>1
  <2>2. CASE SchemaOf[x] # u
    <3>1. (A \o D) \o <<>> = A \o D
      BY <1>5, CatEmpty
    <3>2. QED
      BY <1>4, <2>2, <3>1
  <2>3. QED
    BY <2>1, <2>2
<1>7. QED
  <2>1. QOf(F, b, Append(d, x), u) = (A \o D) \o X
    BY <1>2, <1>3 DEF QOf
  <2>2. QOf(F, b, d, u) = A \o D
    BY DEF QOf
  <2>3. QED
    BY <1>6, <2>1, <2>2

(* The mapped queues hold only requests that are queued or in flight.       *)
LEMMA HeldLocated ==
    ASSUME TypeOK, NEW u \in Schemas
    PROVE  FIFO!Held(QueueOf[u]) \subseteq Queued \cup InFlights
<1>1. ASSUME NEW q \in Seq(Requests) PROVE Elems(OfSchema(q, u)) \subseteq Elems(q)
  <2>1. Elems(OfSchema(q, u)) = {q[i] : i \in GroupIdx(q, u)}
    BY OfSchemaChar
  <2>2. QED
    BY <2>1 DEF Elems, GroupIdx
<1>2. flights \in SUBSET Flight /\ batchData \in Seq(Requests) /\ dataChan \in Seq(Requests)
  BY DEF TypeOK
<1>3. Elems(FPOf(flights, u)) \subseteq InFlights
  <2>1. CASE flights = {}
    BY <2>1, ElemsEmpty DEF FPOf
  <2>2. CASE flights # {}
    <3> DEFINE g == CHOOSE x \in flights : TRUE
    <3>1. g \in flights /\ g.batch \in Seq(Requests)
      BY <1>2, <2>2 DEF Flight
    <3>2. Elems(OfSchema(g.batch, u)) \subseteq Elems(g.batch)
      BY <3>1, <1>1
    <3>3. QED
      BY <2>2, <3>1, <3>2, ElemsEmpty DEF FPOf, InFlights
  <2>3. QED
    BY <2>1, <2>2
<1>4. /\ FPOf(flights, u) \in Seq(Requests)
      /\ OfSchema(batchData, u) \in Seq(Requests)
      /\ OfSchema(dataChan, u) \in Seq(Requests)
  BY <1>2, FPOfSeq, OfSchemaChar
<1>5. QueueOf[u] = (FPOf(flights, u) \o OfSchema(batchData, u)) \o OfSchema(dataChan, u)
  BY QueueOfIsQOf DEF QOf
<1>6. Elems(QueueOf[u]) = (Elems(FPOf(flights, u)) \cup Elems(OfSchema(batchData, u)))
                           \cup Elems(OfSchema(dataChan, u))
  <2>1. FPOf(flights, u) \o OfSchema(batchData, u) \in Seq(Requests)
    BY <1>4, CatElems
  <2>2. Elems(FPOf(flights, u) \o OfSchema(batchData, u))
          = Elems(FPOf(flights, u)) \cup Elems(OfSchema(batchData, u))
    BY <1>4, CatElems
  <2>3. QED
    <3>1. Elems((FPOf(flights, u) \o OfSchema(batchData, u)) \o OfSchema(dataChan, u))
            = Elems(FPOf(flights, u) \o OfSchema(batchData, u))
              \cup Elems(OfSchema(dataChan, u))
      BY <1>4, <2>1, CatElems
    <3>2. QED
      BY <1>5, <2>2, <3>1
<1>7. QED
  BY <1>1, <1>2, <1>3, <1>6 DEF FIFO!Held, Elems, Queued

(* Submit's send is SchemaFIFO's Accept: a request nobody resolved and no  *)
(* queue holds joins the back of its schema's queue.                       *)
LEMMA SubmitSendAccept ==
    ASSUME SInv, NEW r \in Requests, SubmitSend(r)
    PROVE  FIFO!Accept(r)
<1>1. TypeOK /\ submit[r] = "sending" /\ outcome[r] = "none"
  BY DEF SInv, OInv, IInv, ResolvedOut, SubmitSend
<1>2. \A u \in Schemas : r \notin FIFO!Held(QueueOf[u])
  <2>1. r \notin Queued \cup InFlights
    BY <1>1 DEF SInv, OInv, IInv, LocatedAccepted
  <2>2. QED
    BY <1>1, <2>1, HeldLocated
<1>3. ASSUME NEW u \in Schemas
      PROVE  QueueOf'[u] = IF SchemaOf[r] = u THEN Append(QueueOf[u], r) ELSE QueueOf[u]
  <2>1. flights \in SUBSET Flight /\ batchData \in Seq(Requests)
        /\ dataChan \in Seq(Requests)
    BY <1>1 DEF TypeOK
  <2>2. QueueOf'[u] = QOf(flights, batchData, Append(dataChan, r), u)
    BY QueueOfIsQOf DEF SubmitSend
  <2>3. QueueOf[u] = QOf(flights, batchData, dataChan, u)
    BY QueueOfIsQOf
  <2>4. QOf(flights, batchData, Append(dataChan, r), u) =
          IF SchemaOf[r] = u THEN Append(QOf(flights, batchData, dataChan, u), r)
          ELSE QOf(flights, batchData, dataChan, u)
    <3> HIDE ConstantsAssumption, OneFlushAtATime, FiniteRequests
    <3> QED
      BY <2>1, QOfSend
  <2>5. QED
    BY <2>2, <2>3, <2>4
<1>4. QueueOf' = [QueueOf EXCEPT ![SchemaOf[r]] = Append(@, r)]
  <2>1. QueueOf = [u \in Schemas |-> QueueOf[u]] /\ QueueOf' = [u \in Schemas |-> QueueOf'[u]]
    BY QueueOfIsQOf
  <2>2. SchemaOf[r] \in Schemas
    OBVIOUS
  <2>3. QED
    BY <1>3, <2>1, <2>2
<1>5. QED
  BY <1>1, <1>2, <1>4 DEF FIFO!Accept, SubmitSend

(* A step of the running flush is SchemaFIFO's Resolve.                    *)
LEMMA FlushGroupResolve ==
    ASSUME SInv, NEW f \in flights, NEW s \in Schemas, FlushGroup(f, s)
    PROVE  FIFO!Resolve
<1> DEFINE rest == [batch |-> f.batch, todo |-> f.todo \ {s}]
           rows == GroupRows(f, s)
<1>1. flights = {f}
  BY FlightMapping
<1>2. rows \subseteq Pending(f) /\ Pending(rest) \subseteq Pending(f)
      /\ Pending(f) \ rows \subseteq Pending(rest)
  <2>1. rows \subseteq Pending(f) /\ Pending(rest) \subseteq Pending(f)
    BY FlushGroupFacts DEF GroupRows
  <2>2. Pending(f) \ rows \subseteq Pending(rest)
    BY DEF Pending, GroupRows, GroupIdx
  <2>3. QED
    BY <2>1, <2>2
<1>3. CASE FlushAbort(f)
  <2> DEFINE o == [x \in Pending(f) |-> "abandoned"]
  <2>1. flights' = {}
    BY <1>1, <1>3 DEF FlushAbort
  <2>2. o \in [Pending(f) -> FIFO!Resolved]
    BY DEF FIFO!Resolved
  <2>3. outcome' = [x \in Requests |-> IF x \in Pending(f) THEN o[x] ELSE outcome[x]]
    BY <1>3 DEF FlushAbort, Mark
  <2>4. QED
    BY <2>1, <2>2, <2>3, FlushEndResolve
<1>4. CASE FlushExecute(f, s)
  <2>1. CASE /\ outcome' = Mark(rows, "executed")
             /\ flights' = IF rest.todo = {} THEN flights \ {f}
                           ELSE (flights \ {f}) \cup {rest}
    <3>1. flights' = IF f.todo \ {s} = {} THEN {} ELSE {rest}
      BY <1>1, <2>1
    <3>2. QED
      BY <2>1, <3>1, FlushOkResolve
  <2>2. CASE /\ outcome' = [x \in Requests |->
                              IF x \in rows THEN "failed"
                              ELSE IF x \in Pending(rest) THEN "abandoned"
                              ELSE outcome[x]]
             /\ flights' = flights \ {f}
    <3> DEFINE o == [x \in Pending(f) |-> IF x \in rows THEN "failed" ELSE "abandoned"]
    <3>1. flights' = {}
      BY <1>1, <2>2
    <3>2. o \in [Pending(f) -> FIFO!Resolved]
      BY DEF FIFO!Resolved
    <3>3. outcome' = [x \in Requests |-> IF x \in Pending(f) THEN o[x] ELSE outcome[x]]
      BY <1>2, <2>2
    <3>4. QED
      BY <3>1, <3>2, <3>3, FlushEndResolve
  <2>3. QED
    BY <1>4, <2>1, <2>2 DEF FlushExecute, GroupRows
<1>5. QED
  BY <1>3, <1>4 DEF FlushGroup

(* The loop's steps move requests between the channel, the batch and a new *)
(* flush without changing any mapped queue, and resolve nothing.           *)
LEMMA LoopStutter ==
    ASSUME SInv, Receive \/ FlushOnSize \/ FlushOnTick \/ Shutdown
    PROVE  UNCHANGED <<QueueOf, outcome>>
<1>1. TypeOK /\ OneFlight
  BY DEF SInv, OInv, IInv
<1>2. flights \in SUBSET Flight /\ batchData \in Seq(Requests) /\ dataChan \in Seq(Requests)
  BY <1>1 DEF TypeOK
<1>3. UNCHANGED outcome
  BY DEF Receive, FlushOnSize, FlushOnTick, Shutdown
<1>4. ASSUME NEW u \in Schemas
      PROVE  QOf(flights', batchData', dataChan', u) = QOf(flights, batchData, dataChan, u)
  <2>1. CASE Receive
    <3>1. /\ dataChan # <<>> /\ UNCHANGED flights
          /\ batchData' = Append(batchData, Head(dataChan))
          /\ dataChan' = Tail(dataChan)
      BY <2>1 DEF Receive
    <3>2. QED
      <4> HIDE ConstantsAssumption, OneFlushAtATime, FiniteRequests
      <4> QED
        BY <1>2, <3>1, QOfReceive
  <2>2. CASE FlushOnSize \/ FlushOnTick
    <3>1. /\ Dispatch(batchData) /\ batchData' = <<>> /\ UNCHANGED dataChan
      BY <2>2 DEF FlushOnSize, FlushOnTick
    <3>2. flights = {}
      BY <1>1, <3>1, NoFlightToDispatch DEF Dispatch
    <3>3. flights' = {NewFlight(batchData)}
      BY <3>1, <3>2 DEF Dispatch, NewFlight
    <3>4. QED
      <4> HIDE ConstantsAssumption, OneFlushAtATime, FiniteRequests
      <4> QED
        BY <1>2, <3>1, <3>2, <3>3, QOfDispatch
  <2>3. CASE Shutdown
    <3>1. dataChan' = <<>> /\ batchData' = <<>>
      BY <2>3 DEF Shutdown
    <3>2. CASE batchData \o dataChan = <<>>
      <4>1. UNCHANGED flights
        BY <2>3, <3>2 DEF Shutdown
      <4>2. Len(batchData \o dataChan) = Len(batchData) + Len(dataChan)
        BY <1>2, CatLen
      <4>3. batchData = <<>> /\ dataChan = <<>>
        BY <1>2, <3>2, <4>2, EmptySeq, LenProperties
      <4>4. QED
        BY <3>1, <4>1, <4>3
    <3>3. CASE batchData \o dataChan # <<>>
      <4>1. Dispatch(batchData \o dataChan)
        BY <2>3, <3>3 DEF Shutdown
      <4>2. flights = {}
        BY <1>1, <4>1, NoFlightToDispatch DEF Dispatch
      <4>3. flights' = {NewFlight(batchData \o dataChan)}
        BY <4>1, <4>2 DEF Dispatch, NewFlight
      <4>4. QED
        <5> HIDE ConstantsAssumption, OneFlushAtATime, FiniteRequests
        <5> QED
          BY <1>2, <3>1, <4>2, <4>3, QOfShutdown
    <3>4. QED
      BY <3>2, <3>3
  <2>4. QED
    BY <2>1, <2>2, <2>3
<1>5. QED
  BY <1>3, <1>4, QueueOfIsQOf

(* The mapping starts with every queue empty and nothing resolved.          *)
LEMMA RefineInit == Init => FIFO!Init
<1> SUFFICES ASSUME Init PROVE FIFO!Init
  OBVIOUS
<1>1. ASSUME NEW u \in Schemas PROVE QOf({}, <<>>, <<>>, u) = <<>>
  <2>1. OfSchema(<<>>, u) = <<>> /\ FPOf({}, u) = <<>>
    BY OfSchemaEmpty DEF FPOf
  <2>2. <<>> \in Seq(Requests)
    OBVIOUS
  <2>3. QED
    BY <2>1, <2>2, CatEmpty DEF QOf
<1>2. QED
  BY <1>1, QueueOfIsQOf DEF Init, FIFO!Init

(* Every step of the engine is a step of SchemaFIFO or leaves its queues   *)
(* and outcomes alone.                                                     *)
LEMMA RefineStep == SInv /\ [Next]_vars => [FIFO!Next]_<<QueueOf, outcome>>
<1> SUFFICES ASSUME SInv, [Next]_vars PROVE [FIFO!Next]_<<QueueOf, outcome>>
  OBVIOUS
<1>1. ASSUME NEW r \in Requests, SubmitSend(r) PROVE FIFO!Next
  BY <1>1, SubmitSendAccept DEF FIFO!Next
<1>2. ASSUME NEW f \in flights, NEW s \in Schemas, FlushGroup(f, s) PROVE FIFO!Next
  BY <1>2, FlushGroupResolve DEF FIFO!Next
<1>3. CASE Receive \/ FlushOnSize \/ FlushOnTick \/ Shutdown
  BY <1>3, LoopStutter
<1>4. ASSUME NEW r \in Requests,
             SubmitCheck(r) \/ SubmitCancelled(r) \/ CancelSubmitCtx(r)
      PROVE  UNCHANGED <<QueueOf, outcome>>
  BY <1>4, QueueOfIsQOf DEF SubmitCheck, SubmitCancelled, CancelSubmitCtx
<1>5. CASE CancelEngineCtx \/ LatchClosed \/ Quiescent \/ UNCHANGED vars
  BY <1>5, QueueOfIsQOf DEF CancelEngineCtx, LatchClosed, Quiescent, vars
<1>6. QED
  BY <1>1, <1>2, <1>3, <1>4, <1>5 DEF Next

-----------------------------------------------------------------------------
(* BatchFlow implements SchemaFIFO for every number of requests and        *)
(* schemas and every buffer and batch size, with go-pipeline running one   *)
(* flushFunc call at a time: each schema's accepted requests are resolved  *)
(* from the front of a queue in the order Submit sent them, and none is    *)
(* resolved twice or without being accepted.                               *)
THEOREM Refinement == Spec => FIFOSpec
<1>1. SInv /\ [Next]_vars => SInv'
  BY SInvStep
<1>2. QED
  BY SInvInit, RefineInit, RefineStep, <1>1, PTL DEF Spec, FIFOSpec, FIFO!Spec

====
