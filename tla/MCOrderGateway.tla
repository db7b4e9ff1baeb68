--------------------------- MODULE MCOrderGateway ---------------------------
(* Small instances of OrderGateway for TLC.                                *)
EXTENDS OrderGateway, TLC

CONSTANTS w1, w2, p1, p2, a1, a2, k1, k2, d1, o1, o2

\* Both handlers in one process, or one in each of two.
OneProcess == [w \in Workers |-> p1]
TwoProcesses == [w \in Workers |-> IF w = w1 THEN p1 ELSE p2]

BindAll == [a \in Approvals |-> d1]
BindFirst == [a \in Approvals |-> IF a = a1 THEN d1 ELSE NoDigest]

Body(k, a) == [key |-> k, approval |-> a, digest |-> d1]

\* One approval reachable under two keys, and the retries of each.
SharedApproval == {Body(k1, a1), Body(k2, a1)}
\* Both: retries under a fresh key, and a second approval for the first key.
ThreeIntents == SharedApproval \cup {Body(k1, a2)}
OneIntent == {Body(k1, a1)}

Handlers == Permutations(Workers)
Ids == Permutations(OrderIds)
HandlersAndIds == Handlers \cup Ids
=============================================================================
