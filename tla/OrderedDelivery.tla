-------------------------- MODULE OrderedDelivery --------------------------
(***************************************************************************)
(* What the runtime's outbox promises: the events of one aggregate become  *)
(* visible in the order of their sequence numbers, each at most once, and  *)
(* an event is passed over only when an operator drops it.                 *)
(***************************************************************************)
EXTENDS Naturals

CONSTANTS Aggregates, MaxSeq

Events == [agg: Aggregates, seq: 1..MaxSeq]
Before(e) == {f \in Events : f.agg = e.agg /\ f.seq < e.seq}

VARIABLE fate

Init == fate = [e \in Events |-> "absent"]

Enqueue(e) ==
    /\ fate[e] = "absent"
    /\ fate' = [fate EXCEPT ![e] = "queued"]

Deliver(e) ==
    /\ fate[e] = "queued"
    /\ \A f \in Before(e) : fate[f] \in {"delivered", "dropped"}
    /\ fate' = [fate EXCEPT ![e] = "delivered"]

\* An operator gives up one event, or all that is left of an aggregate.
Drop(S) ==
    /\ \A e \in S : fate[e] = "queued"
    /\ fate' = [e \in Events |-> IF e \in S THEN "dropped" ELSE fate[e]]

Next ==
    \/ \E e \in Events : Enqueue(e) \/ Deliver(e)
    \/ \E S \in SUBSET Events : Drop(S)

Spec == Init /\ [][Next]_fate
=============================================================================
