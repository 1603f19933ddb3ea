------------------------------- MODULE SchemaFIFO -------------------------------
(***************************************************************************)
(* What BatchFlow promises about the requests it accepts, without the      *)
(* channel, the batch, the flush loop or flushFunc: each schema has a      *)
(* queue of accepted requests in the order Submit accepted them, and       *)
(* requests leave a queue only from its front, each with what became of    *)
(* it (executed, failed, or abandoned and reported).  One resolution step  *)
(* may take a prefix of several queues at once, as one flush that stops on *)
(* an error does.                                                          *)
(***************************************************************************)
EXTENDS Naturals, Sequences, FiniteSets

CONSTANTS Requests, Schemas, SchemaOf

VARIABLES
    queue,   \* per schema: accepted requests not resolved yet, oldest first
    outcome  \* per request: "none" or what became of it

Resolved == {"executed", "failed", "abandoned"}

(* The requests held by sequence q.                                        *)
Held(q) == {q[i] : i \in DOMAIN q}

Init ==
    /\ queue = [s \in Schemas |-> <<>>]
    /\ outcome = [r \in Requests |-> "none"]

(* Submit accepts r: it joins the back of its schema's queue.              *)
Accept(r) ==
    /\ outcome[r] = "none"
    /\ \A s \in Schemas : r \notin Held(queue[s])
    /\ queue' = [queue EXCEPT ![SchemaOf[r]] = Append(@, r)]
    /\ UNCHANGED outcome

(* The first cut[s] requests of each queue s are resolved.                 *)
Resolve ==
    \E cut \in [Schemas -> 0..Cardinality(Requests)] :
        LET done == UNION {Held(SubSeq(queue[s], 1, cut[s])) : s \in Schemas}
        IN  /\ \A s \in Schemas : cut[s] <= Len(queue[s])
            /\ done # {}
            /\ \E o \in [done -> Resolved] :
                  outcome' = [r \in Requests |-> IF r \in done THEN o[r] ELSE outcome[r]]
            /\ queue' = [s \in Schemas |-> SubSeq(queue[s], cut[s] + 1, Len(queue[s]))]

Next == (\E r \in Requests : Accept(r)) \/ Resolve

Spec == Init /\ [][Next]_<<queue, outcome>>

=============================================================================
