---------------------------- MODULE OutboxProofs ----------------------------
(***************************************************************************)
(* What holds of Outbox for every number of publishers, aggregates and     *)
(* events, and every budget of faults.                                     *)
(***************************************************************************)
EXTENDS Outbox, TLAPS

\* The place of every action in Next.
LEMMA NextCases ==
  ASSUME [Next]_vars
  PROVE  \/ \E e \in Events : Enqueue(e)
         \/ \E e \in Events : LeaseExpires(e) \/ BackoffEnds(e)
         \/ \E e \in Events : Replay(e)
         \/ \E e \in Events : SkipDead(e)
         \/ \E a \in Aggregates : Terminate(a)
         \/ \E p \in Publishers : Select(p)
         \/ \E p \in Publishers : Claim(p)
         \/ \E p \in Publishers : Deliver(p)
         \/ \E p \in Publishers : Mark(p)
         \/ \E p \in Publishers : RecordFailure(p)
         \/ \E p \in Publishers : Crash(p)
         \/ UNCHANGED vars
BY DEF Next, Publish

LEMMA InitType == Init => TypeOK
<1> SUFFICES ASSUME Init
             PROVE  TypeOK
  OBVIOUS
<1>1. rows \in [Events -> Row]
  BY DEF Init, Fresh, Row, Status
<1>2. faults \in 0..MaxFaults
  BY OutboxAssumption DEF Init
<1>3. QED
  BY <1>1, <1>2 DEF Init, TypeOK, Stages

\* The rows that the actions write.
LEMMA RowTypes ==
  ASSUME TypeOK, NEW e \in Events
  PROVE  /\ Fresh \in Row /\ Leased(e) \in Row /\ Retried(e) \in Row
         /\ \A s \in Status : Unleased(e, s) \in Row
<1>1. rows[e] \in Row
  BY DEF TypeOK
<1>2. /\ rows[e].attempts \in Nat /\ rows[e].waiting \in BOOLEAN
  BY <1>1 DEF Row
<1>3. rows[e].attempts + 1 \in Nat
  BY <1>2
<1>4. Fresh \in Row
  BY DEF Fresh, Row, Status
<1>5. Leased(e) \in Row
  BY <1>2, <1>3 DEF Leased, Row, Status
<1>6. Retried(e) \in Row /\ \A s \in Status : Unleased(e, s) \in Row
  BY <1>2 DEF Retried, Unleased, Row, Status
<1>7. QED
  BY <1>4, <1>5, <1>6

LEMMA NextType ==
  ASSUME TypeOK, [Next]_vars
  PROVE  TypeOK'
<1> USE DEF TypeOK
<1>1. ASSUME NEW e \in Events, Enqueue(e)
      PROVE  TypeOK'
  BY <1>1 DEF Enqueue, Fresh, Row, Status
<1>2. ASSUME NEW e \in Events, LeaseExpires(e) \/ BackoffEnds(e)
      PROVE  TypeOK'
  <2>1. rows' = [rows EXCEPT ![e].expired = TRUE] => rows' \in [Events -> Row]
    BY DEF Row
  <2>2. rows' = [rows EXCEPT ![e].waiting = FALSE] => rows' \in [Events -> Row]
    BY DEF Row
  <2>3. rows' \in [Events -> Row]
    BY <1>2, <2>1, <2>2, Zenon DEF LeaseExpires, BackoffEnds
  <2>4. UNCHANGED <<delivered, dlq, pc, batch, at, faults>>
    BY <1>2, Zenon DEF LeaseExpires, BackoffEnds
  <2>5. QED
    BY <2>3, <2>4
<1>3. ASSUME NEW e \in Events, Replay(e)
      PROVE  TypeOK'
  BY <1>3 DEF Replay, Unleased, Row, Status
<1>4. ASSUME NEW e \in Events, SkipDead(e)
      PROVE  TypeOK'
  BY <1>4 DEF SkipDead, Unleased, Row, Status
<1>5. ASSUME NEW a \in Aggregates, Terminate(a)
      PROVE  TypeOK'
  <2>1. \A e \in Events : Unleased(e, "TERMINATED") \in Row
    BY DEF Unleased, Row, Status
  <2>2. QED
    BY <1>5, <2>1 DEF Terminate
<1>6. ASSUME NEW p \in Publishers, Select(p)
      PROVE  TypeOK'
  BY <1>6 DEF Select, Stages
<1>7. ASSUME NEW p \in Publishers, Claim(p)
      PROVE  TypeOK'
  <2>1. PICK e \in batch[p] :
          /\ batch' = [batch EXCEPT ![p] = @ \ {e}]
          /\ \/ /\ Claimable(e)
                /\ rows' = [rows EXCEPT ![e] = Leased(e)]
                /\ pc' = [pc EXCEPT ![p] = "deliver"]
                /\ at' = [at EXCEPT ![p] = e]
             \/ /\ ~Claimable(e)
                /\ pc' = [pc EXCEPT ![p] = IF batch[p] = {e} THEN "idle" ELSE "claim"]
                /\ UNCHANGED <<rows, at>>
    BY <1>7 DEF Claim
  <2>2. e \in Events
    OBVIOUS
  <2>3. rows' \in [Events -> Row]
    BY <2>1, <2>2, RowTypes
  <2>4. batch' \in [Publishers -> SUBSET Events]
    BY <2>1
  <2>5. PICK s \in {"idle", "claim", "deliver"} : pc' = [pc EXCEPT ![p] = s]
    BY <2>1
  <2>6. at' \in [Publishers -> Events \cup {NoEvent}] /\ (pc'[p] = "deliver" => at'[p] \in Events)
    BY <2>1, <2>2
  <2>7. \A q \in Publishers \ {p} : pc'[q] = pc[q] /\ at'[q] = at[q]
    BY <2>1
  <2>8. UNCHANGED <<delivered, dlq, faults>>
    BY <1>7 DEF Claim
  <2>9. pc' \in [Publishers -> Stages]
    BY <2>5 DEF Stages
  <2>10. \A q \in Publishers : pc'[q] \in {"deliver", "mark", "fail"} => at'[q] \in Events
    BY <2>5, <2>6, <2>7
  <2>11. QED
    BY <2>3, <2>4, <2>6, <2>8, <2>9, <2>10
<1>8. ASSUME NEW p \in Publishers, Deliver(p)
      PROVE  TypeOK'
  <2>1. faults' \in 0..MaxFaults
    BY <1>8, OutboxAssumption DEF Deliver
  <2>2. QED
    BY <1>8, <2>1 DEF Deliver, Stages
<1>9. ASSUME NEW p \in Publishers, Mark(p)
      PROVE  TypeOK'
  BY <1>9 DEF Mark, NextRow, Unleased, Row, Status, Stages
<1>10. ASSUME NEW p \in Publishers, RecordFailure(p)
       PROVE  TypeOK'
  <2>0. at[p] \in Events
    BY <1>10 DEF RecordFailure
  <2>1. rows' \in [Events -> Row] /\ dlq' \subseteq Events
    BY <1>10, <2>0, RowTypes DEF RecordFailure, Status
  <2>2. PICK s \in {"idle", "claim"} : pc' = [pc EXCEPT ![p] = s]
    BY <1>10 DEF RecordFailure, NextRow
  <2>3. /\ at' = [at EXCEPT ![p] = NoEvent]
        /\ UNCHANGED <<delivered, batch, faults>>
    BY <1>10 DEF RecordFailure, NextRow
  <2>4. pc' \in [Publishers -> Stages] /\ at' \in [Publishers -> Events \cup {NoEvent}]
    BY <2>2, <2>3 DEF Stages
  <2>5. \A q \in Publishers : pc'[q] \in {"deliver", "mark", "fail"} => at'[q] \in Events
    BY <2>2, <2>3
  <2>6. QED
    BY <2>1, <2>3, <2>4, <2>5
<1>11. ASSUME NEW p \in Publishers, Crash(p)
       PROVE  TypeOK'
  <2>1. faults' \in 0..MaxFaults
    BY <1>11, OutboxAssumption DEF Crash
  <2>2. QED
    BY <1>11, <2>1 DEF Crash, Stages
<1>12. CASE UNCHANGED vars
  BY <1>12 DEF vars
<1>13. QED
  BY <1>1, <1>2, <1>3, <1>4, <1>5, <1>6, <1>7, <1>8, <1>9, <1>10, <1>11, <1>12, NextCases

\* Every state has rows, publishers and counters of the right types.
THEOREM TypeCorrect == Spec => []TypeOK
BY InitType, NextType, PTL DEF Spec

(***************************************************************************)
(* What a step can do to a row, to the visible events and to a publisher.  *)
(***************************************************************************)

\* The ways in which the status of a row changes.
RowChange(e) ==
    \/ rows'[e].status = rows[e].status
    \/ rows[e].status = "absent" /\ rows'[e].status = "PENDING"
    \/ /\ Claimable(e) /\ rows'[e].status = "CLAIMED"
       /\ \E p \in Publishers : pc[p] = "claim" /\ e \in batch[p]
    \/ /\ rows'[e].status = "PUBLISHED"
       /\ \E p \in Publishers : pc[p] = "mark" /\ at[p] = e /\ ~Holds(p, e)'
    \/ /\ rows'[e].status \in {"PENDING", "DEAD"}
       /\ \E p \in Publishers : Holds(p, e) /\ ~Holds(p, e)'
    \/ /\ Operators /\ rows[e].status = "DEAD"
       /\ \/ rows'[e].status = "PUBLISHED" /\ e \in delivered'
          \/ rows'[e].status = "SKIPPED"
    \/ /\ Operators /\ rows[e].status \notin Finished \cup {"absent"}
       /\ rows'[e].status = "TERMINATED"
       /\ CarefulOperators => \A p \in Publishers : ~Holds(p, e)

LEMMA RowChanges ==
  ASSUME TypeOK, [Next]_vars, NEW e \in Events
  PROVE  RowChange(e)
<1> USE DEF TypeOK, RowChange
<1>1. ASSUME NEW d \in Events, Enqueue(d)
      PROVE  RowChange(e)
  BY <1>1 DEF Enqueue, IsNext, Fresh
<1>2. ASSUME NEW d \in Events, LeaseExpires(d) \/ BackoffEnds(d)
      PROVE  RowChange(e)
  <2>1. rows' = [rows EXCEPT ![d].expired = TRUE] \/ rows' = [rows EXCEPT ![d].waiting = FALSE]
    BY <1>2, Zenon DEF LeaseExpires, BackoffEnds
  <2>2. rows'[e].status = rows[e].status
    BY <2>1 DEF Row
  <2>3. QED
    BY <2>2
<1>3. ASSUME NEW d \in Events, Replay(d)
      PROVE  RowChange(e)
  BY <1>3 DEF Replay, Unleased
<1>4. ASSUME NEW d \in Events, SkipDead(d)
      PROVE  RowChange(e)
  BY <1>4 DEF SkipDead, Unleased
<1>5. ASSUME NEW a \in Aggregates, Terminate(a)
      PROVE  RowChange(e)
  BY <1>5 DEF Terminate, Unleased
<1>6. ASSUME NEW p \in Publishers, Select(p) \/ Deliver(p) \/ Crash(p)
      PROVE  RowChange(e)
  BY <1>6 DEF Select, Deliver, Crash
<1>7. ASSUME NEW p \in Publishers, Claim(p)
      PROVE  RowChange(e)
  BY <1>7 DEF Claim, Leased
<1>8. ASSUME NEW p \in Publishers, Mark(p)
      PROVE  RowChange(e)
  <2>1. ~Holds(p, e)'
    BY <1>8 DEF Mark, NextRow, Holds
  <2>2. QED
    BY <1>8, <2>1 DEF Mark, Unleased
<1>9. ASSUME NEW p \in Publishers, RecordFailure(p)
      PROVE  RowChange(e)
  <2>1. ~Holds(p, e)'
    BY <1>9 DEF RecordFailure, NextRow, Holds
  <2>2. Holds(p, at[p])
    BY <1>9 DEF RecordFailure, Holds
  <2>3. QED
    BY <1>9, <2>1, <2>2 DEF RecordFailure, Unleased, Retried, Fresh, IsNext
<1>10. CASE UNCHANGED vars
  BY <1>10 DEF vars
<1>11. QED
  BY <1>1, <1>2, <1>3, <1>4, <1>5, <1>6, <1>7, <1>8, <1>9, <1>10, NextCases

\* What a step adds to domain_events.
LEMMA DeliveryChanges ==
  ASSUME [Next]_vars
  PROVE  \/ delivered' = delivered
         \/ \E p \in Publishers : pc[p] = "deliver" /\ delivered' = delivered \cup {at[p]}
         \/ \E e \in Events : Replay(e)
<1>1. ASSUME NEW e \in Events,
             Enqueue(e) \/ LeaseExpires(e) \/ BackoffEnds(e) \/ SkipDead(e)
      PROVE  delivered' = delivered
  BY <1>1 DEF Enqueue, LeaseExpires, BackoffEnds, SkipDead
<1>2. ASSUME NEW a \in Aggregates, Terminate(a)
      PROVE  delivered' = delivered
  BY <1>2 DEF Terminate
<1>3. ASSUME NEW p \in Publishers,
             Select(p) \/ Claim(p) \/ Mark(p) \/ RecordFailure(p) \/ Crash(p)
      PROVE  delivered' = delivered
  BY <1>3 DEF Select, Claim, Mark, RecordFailure, Crash
<1>4. QED
  BY <1>1, <1>2, <1>3, NextCases DEF Deliver, vars

\* How a publisher comes to hold a row or to have it in its batch.
PublisherChange(p, e) ==
    /\ Holds(p, e)' => \/ Holds(p, e)
                       \/ /\ pc[p] = "claim" /\ e \in batch[p] /\ Claimable(e)
                          /\ rows'[e].status = "CLAIMED" /\ ~rows'[e].expired
                          /\ pc'[p] = "deliver"
    /\ e \in batch'[p] => e \in batch[p] \/ Eligible(e)
    /\ pc'[p] = "mark" /\ at'[p] = e =>
         at[p] = e /\ (pc[p] = "mark" \/ (pc[p] = "deliver" /\ e \in delivered'))

LEMMA PublisherChanges ==
  ASSUME TypeOK, [Next]_vars, NEW p \in Publishers, NEW e \in Events
  PROVE  PublisherChange(p, e)
<1> USE DEF TypeOK
<1>1. CASE UNCHANGED <<pc, at, batch>>
  BY <1>1 DEF PublisherChange, Holds
<1>2. ASSUME NEW q \in Publishers, Select(q)
      PROVE  PublisherChange(p, e)
  BY <1>2 DEF PublisherChange, Holds, Select
<1>3. ASSUME NEW q \in Publishers, Claim(q)
      PROVE  PublisherChange(p, e)
  <2>1. PICK d \in batch[q] :
          /\ batch' = [batch EXCEPT ![q] = @ \ {d}]
          /\ \/ /\ Claimable(d)
                /\ rows' = [rows EXCEPT ![d] = Leased(d)]
                /\ pc' = [pc EXCEPT ![q] = "deliver"]
                /\ at' = [at EXCEPT ![q] = d]
             \/ /\ pc' = [pc EXCEPT ![q] = "idle"] \/ pc' = [pc EXCEPT ![q] = "claim"]
                /\ UNCHANGED <<rows, at>>
    BY <1>3 DEF Claim
  <2>2. d \in Events /\ pc[q] = "claim"
    BY <1>3 DEF Claim
  <2>3. e \in batch'[p] => e \in batch[p]
    BY <2>1
  <2>4. CASE pc' = [pc EXCEPT ![q] = "idle"] \/ pc' = [pc EXCEPT ![q] = "claim"]
    BY <2>1, <2>2, <2>3, <2>4 DEF PublisherChange, Holds
  <2>5. CASE /\ Claimable(d)
             /\ rows' = [rows EXCEPT ![d] = Leased(d)]
             /\ pc' = [pc EXCEPT ![q] = "deliver"]
             /\ at' = [at EXCEPT ![q] = d]
    BY <2>2, <2>3, <2>5 DEF PublisherChange, Holds, Leased
  <2>6. QED
    BY <2>1, <2>4, <2>5
<1>4. ASSUME NEW q \in Publishers, Deliver(q)
      PROVE  PublisherChange(p, e)
  BY <1>4 DEF PublisherChange, Holds, Deliver
<1>5. ASSUME NEW q \in Publishers, Mark(q) \/ RecordFailure(q) \/ Crash(q)
      PROVE  PublisherChange(p, e)
  <2>1. /\ pc' = [pc EXCEPT ![q] = "idle"] \/ pc' = [pc EXCEPT ![q] = "claim"]
        /\ at' = [at EXCEPT ![q] = NoEvent]
        /\ batch' = batch \/ batch' = [batch EXCEPT ![q] = {}]
    BY <1>5 DEF Mark, RecordFailure, Crash, NextRow
  <2>2. QED
    BY <2>1 DEF PublisherChange, Holds
<1>6. ASSUME NEW d \in Events, Enqueue(d) \/ LeaseExpires(d) \/ BackoffEnds(d) \/ Replay(d) \/ SkipDead(d)
      PROVE  UNCHANGED <<pc, at, batch>>
  BY <1>6 DEF Enqueue, LeaseExpires, BackoffEnds, Replay, SkipDead
<1>7. ASSUME NEW a \in Aggregates, Terminate(a)
      PROVE  UNCHANGED <<pc, at, batch>>
  BY <1>7 DEF Terminate
<1>8. CASE UNCHANGED vars
  BY <1>1, <1>8 DEF vars
<1>9. QED
  BY <1>1, <1>2, <1>3, <1>4, <1>5, <1>6, <1>7, <1>8, NextCases

\* A prompt publisher's lease does not run out under it.
LEMMA ExpiryChanges ==
  ASSUME TypeOK, [Next]_vars, NEW e \in Events, PromptPublishers,
         rows'[e].expired, ~rows[e].expired
  PROVE  \A p \in Publishers : ~Holds(p, e)
<1> USE DEF TypeOK
<1>1. ASSUME NEW d \in Events, LeaseExpires(d)
      PROVE  \A p \in Publishers : ~Holds(p, e)
  BY <1>1 DEF LeaseExpires, Row
<1>2. ASSUME NEW d \in Events, BackoffEnds(d)
      PROVE  FALSE
  BY <1>2 DEF BackoffEnds, Row
<1>3. ASSUME NEW d \in Events, Enqueue(d) \/ Replay(d) \/ SkipDead(d)
      PROVE  FALSE
  BY <1>3 DEF Enqueue, Replay, SkipDead, Fresh, Unleased
<1>4. ASSUME NEW a \in Aggregates, Terminate(a)
      PROVE  FALSE
  BY <1>4 DEF Terminate, Unleased
<1>5. ASSUME NEW p \in Publishers, Select(p) \/ Deliver(p) \/ Crash(p)
      PROVE  FALSE
  BY <1>5 DEF Select, Deliver, Crash
<1>6. ASSUME NEW p \in Publishers, Claim(p)
      PROVE  FALSE
  BY <1>6 DEF Claim, Leased
<1>7. ASSUME NEW p \in Publishers, Mark(p) \/ RecordFailure(p)
      PROVE  FALSE
  BY <1>7 DEF Mark, RecordFailure, Unleased, Retried, Fresh
<1>8. CASE UNCHANGED vars
  BY <1>8 DEF vars
<1>9. QED
  BY <1>1, <1>2, <1>3, <1>4, <1>5, <1>6, <1>7, <1>8, NextCases

\* Publishers move one at a time.
LEMMA OneMover ==
  ASSUME TypeOK, [Next]_vars, NEW p \in Publishers, NEW q \in Publishers,
         pc'[p] # pc[p], pc'[q] # pc[q]
  PROVE  p = q
<1>1. pc' = pc \/ \E r \in Publishers, s \in Stages : pc' = [pc EXCEPT ![r] = s]
  <2>1. ASSUME NEW e \in Events,
               Enqueue(e) \/ LeaseExpires(e) \/ BackoffEnds(e) \/ Replay(e) \/ SkipDead(e)
        PROVE  pc' = pc
    BY <2>1 DEF Enqueue, LeaseExpires, BackoffEnds, Replay, SkipDead
  <2>2. ASSUME NEW a \in Aggregates, Terminate(a)
        PROVE  pc' = pc
    BY <2>2 DEF Terminate
  <2>3. ASSUME NEW r \in Publishers, Select(r) \/ Deliver(r) \/ Crash(r)
        PROVE  \E s \in Stages : pc' = [pc EXCEPT ![r] = s]
    BY <2>3 DEF Select, Deliver, Crash, Stages
  <2>4. ASSUME NEW r \in Publishers, Claim(r)
        PROVE  \E s \in Stages : pc' = [pc EXCEPT ![r] = s]
    BY <2>4 DEF Claim, Stages
  <2>5. ASSUME NEW r \in Publishers, Mark(r) \/ RecordFailure(r)
        PROVE  \E s \in Stages : pc' = [pc EXCEPT ![r] = s]
    BY <2>5 DEF Mark, RecordFailure, NextRow, Stages
  <2>6. QED
    BY <2>1, <2>2, <2>3, <2>4, <2>5, NextCases DEF vars
<1>2. QED
  BY <1>1 DEF TypeOK

(***************************************************************************)
(* The inductive invariant.                                                *)
(***************************************************************************)

LEMMA InitInv == Init => IInv
<1> SUFFICES ASSUME Init
             PROVE  IInv
  OBVIOUS
<1>1. TypeOK
  BY InitType
<1>2. \A e \in Events : rows[e].status = "absent"
  BY DEF Init, Fresh
<1>3. \A p \in Publishers, e \in Events : ~Holds(p, e)
  BY DEF Init, Holds
<1>4. PublishedIsDelivered /\ DeliveredInOrder /\ MarkingIsDelivered /\ HeldIsQueued
  BY <1>2, <1>3 DEF Init, PublishedIsDelivered, DeliveredInOrder, MarkingIsDelivered,
              HeldIsQueued
<1>5. CandidatesAreHeads
  BY <1>2, <1>3 DEF Init, CandidatesAreHeads
<1>6. LeasesHold /\ NothingResolved
  BY <1>2, <1>3 DEF LeasesHold, ExclusiveLease, NothingResolved, Resolved
<1>7. QED
  BY <1>1, <1>4, <1>5, <1>6 DEF IInv

\* What readers can see stays visible.
LEMMA DeliveredGrows ==
  ASSUME [Next]_vars
  PROVE  delivered \subseteq delivered'
BY DeliveryChanges DEF Replay

\* An event that is visible or resolved stays so.
LEMMA PassedKept ==
  ASSUME IInv, Discipline, [Next]_vars, NEW f \in Events, Passed(f)
  PROVE  Passed(f)'
<1>1. CASE f \in delivered
  BY <1>1, DeliveredGrows DEF Passed
<1>2. CASE rows[f].status \in Resolved
  <2>1. PromptPublishers /\ CarefulOperators
    BY <1>2 DEF IInv, NothingResolved, Discipline
  <2>2. \A p \in Publishers : ~Holds(p, f)
    BY <1>2, <2>1 DEF IInv, LeasesHold, Resolved
  <2>3. RowChange(f)
    BY RowChanges DEF IInv
  <2>4. rows'[f].status \in Resolved
    BY <1>2, <2>2, <2>3 DEF RowChange, Resolved, Claimable, Holds, Finished
  <2>5. QED
    BY <2>4 DEF Passed
<1>3. QED
  BY <1>1, <1>2 DEF Passed

\* What becomes visible had nothing unfinished before it.
LEMMA DeliveriesAreHeads ==
  ASSUME IInv, Discipline, [Next]_vars, NEW e \in Events, e \in delivered' \ delivered
  PROVE  /\ \A f \in Before(e) : Passed(f)
         /\ rows[e].status # "absent"
         /\ Operators => rows[e].status \in {"CLAIMED", "DEAD"}
<1>1. CASE \E p \in Publishers : pc[p] = "deliver" /\ delivered' = delivered \cup {at[p]}
  <2>1. PICK p \in Publishers : Holds(p, e)
    BY <1>1 DEF Holds
  <2>2. QED
    BY <2>1 DEF IInv, CandidatesAreHeads, LeasesHold, HeldIsQueued, Discipline
<1>2. CASE \E d \in Events : Replay(d)
  <2>1. Replay(e) /\ rows[e].status = "DEAD"
    BY <1>2 DEF Replay, Discipline
  <2>2. QED
    BY <2>1 DEF IInv, CandidatesAreHeads
<1>3. QED
  BY <1>1, <1>2, DeliveryChanges

LEMMA NextInv ==
  ASSUME IInv, Discipline, [Next]_vars
  PROVE  IInv'
<1> USE DEF IInv
<1>1. TypeOK'
  BY NextType
<1>2. \A e \in Events : RowChange(e)
  BY RowChanges
<1>3. \A p \in Publishers, e \in Events : PublisherChange(p, e)
  BY PublisherChanges
<1>4. \A f \in Events : Passed(f) => Passed(f)'
  BY PassedKept
<1>5. delivered \subseteq delivered' /\ delivered' \subseteq Events
  BY <1>1, DeliveredGrows DEF TypeOK
<1>6. \A e \in Events : Before(e) \subseteq Events
  BY DEF Before
<1>7. PublishedIsDelivered'
  <2>1. ASSUME NEW e \in Events, rows'[e].status = "PUBLISHED"
        PROVE  e \in delivered'
    <3>1. CASE rows'[e].status = rows[e].status
      BY <1>5, <2>1, <3>1 DEF PublishedIsDelivered
    <3>2. CASE \E p \in Publishers : pc[p] = "mark" /\ at[p] = e
      BY <1>5, <3>2 DEF MarkingIsDelivered
    <3>3. QED
      BY <1>2, <2>1, <3>1, <3>2 DEF RowChange
  <2>2. QED
    BY <2>1 DEF PublishedIsDelivered
<1>8. DeliveredInOrder'
  BY <1>4, <1>5, <1>6, DeliveriesAreHeads DEF DeliveredInOrder
<1>9. \A e \in Events : Eligible(e) => \A f \in Before(e) : Passed(f)
  BY <1>6 DEF Eligible, Finished, Passed, PublishedIsDelivered, Resolved
<1>10. CandidatesAreHeads'
  <2>1. ASSUME NEW p \in Publishers, NEW e \in batch'[p], NEW f \in Before(e)
        PROVE  Passed(f)'
    <3>1. e \in Events
      BY <1>1 DEF TypeOK
    <3>2. e \in batch[p] \/ Eligible(e)
      BY <1>3, <3>1 DEF PublisherChange
    <3>3. QED
      BY <1>4, <1>6, <1>9, <3>1, <3>2 DEF CandidatesAreHeads
  <2>2. ASSUME NEW p \in Publishers, NEW e \in Events, Holds(p, e)', NEW f \in Before(e)
        PROVE  Passed(f)'
    <3>1. Holds(p, e) \/ e \in batch[p]
      BY <1>3, <2>2 DEF PublisherChange
    <3>2. QED
      BY <1>4, <1>6, <3>1 DEF CandidatesAreHeads
  <2>3. ASSUME NEW e \in Events, rows'[e].status \in {"CLAIMED", "DEAD"}, NEW f \in Before(e)
        PROVE  Passed(f)'
    <3>1. CASE rows[e].status \in {"CLAIMED", "DEAD"}
      BY <1>4, <1>6, <3>1 DEF CandidatesAreHeads
    <3>2. CASE \E p \in Publishers : e \in batch[p] \/ Holds(p, e)
      BY <1>4, <1>6, <3>2 DEF CandidatesAreHeads
    <3>3. QED
      BY <1>2, <2>3, <3>1, <3>2 DEF RowChange
  <2>4. QED
    BY <2>1, <2>2, <2>3 DEF CandidatesAreHeads
<1>11. MarkingIsDelivered'
  <2>1. ASSUME NEW p \in Publishers, pc'[p] = "mark"
        PROVE  at'[p] \in delivered'
    <3>1. at'[p] \in Events
      BY <1>1, <2>1 DEF TypeOK
    <3>2. \/ at[p] = at'[p] /\ pc[p] = "mark"
          \/ at'[p] \in delivered'
      BY <1>3, <2>1, <3>1 DEF PublisherChange
    <3>3. QED
      BY <1>5, <3>2 DEF MarkingIsDelivered
  <2>2. QED
    BY <2>1 DEF MarkingIsDelivered
<1>12. LeasesHold'
  <2> SUFFICES ASSUME PromptPublishers /\ CarefulOperators
               PROVE  (/\ ExclusiveLease
                       /\ \A p \in Publishers, e \in Events : Holds(p, e) =>
                            rows[e].status = "CLAIMED" /\ ~rows[e].expired)'
    BY DEF LeasesHold
  <2>1. PromptPublishers /\ CarefulOperators
    OBVIOUS
  <2>2. \A p \in Publishers, e \in Events :
          Holds(p, e) => rows[e].status = "CLAIMED" /\ ~rows[e].expired /\ ~Claimable(e)
    BY DEF LeasesHold, Claimable
  <2>3. ASSUME NEW p \in Publishers, NEW q \in Publishers, NEW e \in Events,
               Holds(p, e)', Holds(q, e)'
        PROVE  p = q
    <3>1. CASE Holds(p, e) /\ Holds(q, e)
      BY <3>1 DEF LeasesHold, ExclusiveLease
    <3>2. CASE ~Holds(p, e) /\ ~Holds(q, e)
      <4>1. pc[p] = "claim" /\ pc'[p] = "deliver" /\ pc[q] = "claim" /\ pc'[q] = "deliver"
        BY <1>3, <2>3, <3>2 DEF PublisherChange
      <4>2. QED
        BY <4>1, OneMover
    <3>3. CASE Holds(p, e) /\ ~Holds(q, e)
      BY <1>3, <2>2, <2>3, <3>3 DEF PublisherChange
    <3>4. CASE ~Holds(p, e) /\ Holds(q, e)
      BY <1>3, <2>2, <2>3, <3>4 DEF PublisherChange
    <3>5. QED
      BY <3>1, <3>2, <3>3, <3>4
  <2>4. ASSUME NEW p \in Publishers, NEW e \in Events, Holds(p, e)'
        PROVE  rows'[e].status = "CLAIMED" /\ ~rows'[e].expired
    <3>1. CASE ~Holds(p, e)
      BY <1>3, <2>4, <3>1 DEF PublisherChange
    <3>2. CASE Holds(p, e)
      <4>1. rows[e].status = "CLAIMED" /\ ~rows[e].expired /\ ~Claimable(e)
        BY <2>2, <3>2
      <4>2. ~rows'[e].expired
        BY <2>1, <3>2, <4>1, ExpiryChanges
      <4>3. \A q \in Publishers : Holds(q, e) => q = p
        BY <3>2 DEF LeasesHold, ExclusiveLease
      <4>4. \A q \in Publishers : pc[q] = "mark" /\ at[q] = e => Holds(q, e)
        BY DEF Holds
      <4>5. rows'[e].status = "CLAIMED"
        BY <1>2, <2>1, <2>4, <3>2, <4>1, <4>3, <4>4 DEF RowChange
      <4>6. QED
        BY <4>2, <4>5
    <3>3. QED
      BY <3>1, <3>2
  <2>5. QED
    BY <2>3, <2>4 DEF ExclusiveLease
<1>13. NothingResolved'
  BY <1>2 DEF NothingResolved, RowChange, Resolved
<1>14. HeldIsQueued'
  <2>1. \A e \in Events : rows[e].status # "absent" => rows'[e].status # "absent"
    BY <1>2 DEF RowChange
  <2>2. \A e \in Events : Eligible(e) => rows[e].status # "absent"
    BY DEF Eligible
  <2>3. \A p \in Publishers : \A e \in batch'[p] : rows'[e].status # "absent"
    BY <1>1, <1>3, <2>1, <2>2 DEF HeldIsQueued, PublisherChange, TypeOK
  <2>4. \A p \in Publishers : \A e \in Events : Holds(p, e)' => rows'[e].status # "absent"
    BY <1>3, <2>1 DEF HeldIsQueued, PublisherChange
  <2>5. \A e \in delivered' : rows'[e].status # "absent"
    BY <1>5, <2>1, DeliveriesAreHeads DEF HeldIsQueued
  <2>6. QED
    BY <2>3, <2>4, <2>5 DEF HeldIsQueued
<1>15. QED
  BY <1>1, <1>7, <1>8, <1>10, <1>11, <1>12, <1>13, <1>14

\* The strengthened invariant holds in every state, provided that nobody resolves
\* rows by hand, or operators wait for publishers and publishers for leases.
THEOREM Invariance ==
  ASSUME Discipline
  PROVE  Spec => []IInv
<1>1. Init => IInv
  BY InitInv
<1>2. IInv /\ [Next]_vars => IInv'
  BY NextInv
<1>3. QED
  BY <1>1, <1>2, PTL DEF Spec

\* Crashes between the three transactions, takeovers of expired leases and
\* stale publishers never show the events of an aggregate out of sequence.
THEOREM EventsInOrder ==
  ASSUME Discipline
  PROVE  Spec => []DeliveredInOrder
<1>1. IInv => DeliveredInOrder
  BY DEF IInv
<1>2. QED
  BY <1>1, Invariance, PTL

\* A row that counts as published is visible, whoever took it over from whom.
THEOREM NothingLost ==
  ASSUME Discipline
  PROVE  Spec => []PublishedIsDelivered
<1>1. IInv => PublishedIsDelivered
  BY DEF IInv
<1>2. QED
  BY <1>1, Invariance, PTL

(***************************************************************************)
(* No overtaking.                                                          *)
(***************************************************************************)

\* A row in somebody's batch, claimed or dead has only finished rows before it.
HeadsFinished ==
    /\ \A p \in Publishers : \A e \in batch[p] : \A f \in Before(e) : rows[f].status \in Finished
    /\ \A p \in Publishers, e \in Events : Holds(p, e) =>
         \A f \in Before(e) : rows[f].status \in Finished
    /\ \A e \in Events : rows[e].status \in {"CLAIMED", "DEAD"} =>
         \A f \in Before(e) : rows[f].status \in Finished

\* A finished row stays finished, since who holds a row has not lost it.
LEMMA FinishedKept ==
  ASSUME IInv, PromptPublishers, CarefulOperators, [Next]_vars,
         NEW f \in Events, rows[f].status \in Finished
  PROVE  rows'[f].status \in Finished
<1>1. \A p \in Publishers : ~Holds(p, f)
  BY DEF IInv, LeasesHold, Finished
<1>2. \A p \in Publishers : ~(pc[p] = "mark" /\ at[p] = f)
  BY <1>1 DEF Holds
<1>3. RowChange(f)
  BY RowChanges DEF IInv
<1>4. QED
  BY <1>1, <1>2, <1>3 DEF RowChange, Finished, Claimable

LEMMA HeadsStayFinished ==
  ASSUME IInv, HeadsFinished, PromptPublishers, CarefulOperators, [Next]_vars
  PROVE  HeadsFinished'
<1>1. \A e \in Events : Before(e) \subseteq Events
  BY DEF Before
<1>2. \A f \in Events : rows[f].status \in Finished => rows'[f].status \in Finished
  BY FinishedKept
<1>3. \A p \in Publishers, e \in Events : PublisherChange(p, e)
  BY PublisherChanges DEF IInv
<1>4. ASSUME NEW p \in Publishers, NEW e \in batch'[p], NEW f \in Before(e)
      PROVE  rows'[f].status \in Finished
  <2>1. e \in Events
    BY NextType DEF IInv, TypeOK
  <2>2. e \in batch[p] \/ Eligible(e)
    BY <1>3, <2>1 DEF PublisherChange
  <2>3. QED
    BY <1>1, <1>2, <2>1, <2>2 DEF HeadsFinished, Eligible
<1>5. ASSUME NEW p \in Publishers, NEW e \in Events, Holds(p, e)', NEW f \in Before(e)
      PROVE  rows'[f].status \in Finished
  <2>1. Holds(p, e) \/ e \in batch[p]
    BY <1>3, <1>5 DEF PublisherChange
  <2>2. QED
    BY <1>1, <1>2, <2>1 DEF HeadsFinished
<1>6. ASSUME NEW e \in Events, rows'[e].status \in {"CLAIMED", "DEAD"}, NEW f \in Before(e)
      PROVE  rows'[f].status \in Finished
  <2>1. RowChange(e)
    BY RowChanges DEF IInv
  <2>2. \/ rows[e].status \in {"CLAIMED", "DEAD"}
        \/ \E p \in Publishers : e \in batch[p] \/ Holds(p, e)
    BY <1>6, <2>1 DEF RowChange
  <2>3. QED
    BY <1>1, <1>2, <2>2 DEF HeadsFinished
<1>7. QED
  BY <1>4, <1>5, <1>6 DEF HeadsFinished

\* What becomes visible was claimed or dead, so that all before it is finished.
LEMMA DeliveriesOvertakeNone ==
  ASSUME HeadsFinished, CarefulOperators, [Next]_vars,
         NEW e \in Events, e \in delivered' \ delivered, NEW f \in Before(e)
  PROVE  rows[f].status \in Finished
<1>1. CASE \E p \in Publishers : pc[p] = "deliver" /\ delivered' = delivered \cup {at[p]}
  <2>1. PICK p \in Publishers : Holds(p, e)
    BY <1>1 DEF Holds
  <2>2. QED
    BY <2>1 DEF HeadsFinished
<1>2. CASE \E d \in Events : Replay(d)
  <2>1. rows[e].status = "DEAD"
    BY <1>2 DEF Replay
  <2>2. QED
    BY <2>1 DEF HeadsFinished
<1>3. QED
  BY <1>1, <1>2, DeliveryChanges

\* While a row is pending, claimed or dead, no later event of its aggregate becomes
\* visible, provided that publishers keep their leases and operators wait for them.
THEOREM NoneOvertakes ==
  ASSUME PromptPublishers, CarefulOperators
  PROVE  Spec => NoOvertaking
<1>1. Init => HeadsFinished
  BY DEF Init, Fresh, Holds, HeadsFinished
<1>2. IInv /\ HeadsFinished /\ [Next]_vars => HeadsFinished'
  BY HeadsStayFinished
<1>3. IInv /\ HeadsFinished /\ [Next]_vars =>
        [\A e \in delivered' \ delivered : \A f \in Before(e) : rows[f].status \in Finished]_vars
  BY DeliveriesOvertakeNone, NextType DEF IInv, TypeOK
<1>4. Spec => []IInv
  BY Invariance DEF Discipline
<1>5. QED
  BY <1>1, <1>2, <1>3, <1>4, PTL DEF Spec, NoOvertaking

(***************************************************************************)
(* The outbox implements ordered delivery.                                 *)
(***************************************************************************)

LEMMA SameEvents ==
  /\ Ordered!Events = Events
  /\ \A e : Ordered!Before(e) = Before(e)
BY DEF Ordered!Events, Events, Ordered!Before, Before

LEMMA FateInit == Init => Ordered!Init
<1> SUFFICES ASSUME Init
             PROVE  Ordered!Init
  OBVIOUS
<1>1. \A e \in Events : FateOf(e) = "absent"
  BY DEF Init, FateOf, Fresh
<1>2. QED
  BY <1>1, SameEvents DEF Ordered!Init

\* How the fate of an event changes.
LEMMA FateChanges ==
  ASSUME IInv, Discipline, [Next]_vars, NEW e \in Events
  PROVE  \/ FateOf(e)' = FateOf(e)
         \/ FateOf(e) = "absent" /\ FateOf(e)' = "queued"
         \/ FateOf(e) = "queued" /\ FateOf(e)' = "delivered" /\ e \in delivered' \ delivered
         \/ FateOf(e) = "queued" /\ FateOf(e)' = "dropped" /\ Operators
<1>1. CASE e \in delivered
  BY <1>1, DeliveredGrows DEF FateOf
<1>2. CASE e \in delivered' \ delivered
  <2>1. rows[e].status # "absent" /\ (Operators => rows[e].status \in {"CLAIMED", "DEAD"})
    BY <1>2, DeliveriesAreHeads
  <2>2. rows[e].status \notin Resolved
    BY <2>1 DEF IInv, NothingResolved, Resolved
  <2>3. QED
    BY <1>2, <2>1, <2>2 DEF FateOf
<1>3. CASE e \notin delivered /\ e \notin delivered'
  <2>1. RowChange(e)
    BY RowChanges DEF IInv
  <2>2. CASE rows[e].status \in Resolved
    BY <1>3, <2>2, PassedKept DEF Passed, FateOf, Resolved
  <2>3. CASE rows[e].status \notin Resolved
    <3>1. rows[e].status # "absent" => rows'[e].status # "absent"
      BY <2>1 DEF RowChange
    <3>2. rows'[e].status \in Resolved => Operators /\ rows[e].status # "absent"
      BY <2>1, <2>3 DEF RowChange, Resolved
    <3>3. QED
      BY <1>3, <2>3, <3>1, <3>2 DEF FateOf, Resolved
  <2>4. QED
    BY <2>2, <2>3
<1>4. QED
  BY <1>1, <1>2, <1>3
\* A step that disturbs the fate of one event at most is a step of the
\* abstract specification.
LEMMA OneFate ==
  ASSUME IInv, Discipline, [Next]_vars, NEW d \in Events,
         \A e \in Events \ {d} : FateOf(e)' = FateOf(e)
  PROVE  Ordered!Next \/ [e \in Events |-> FateOf(e)]' = [e \in Events |-> FateOf(e)]
<1> DEFINE fate == [e \in Events |-> FateOf(e)]
<1> USE SameEvents
<1>1. ASSUME NEW v, FateOf(d)' = v
      PROVE  fate' = [fate EXCEPT ![d] = v]
  <2>1. \A e \in Events : fate'[e] = [fate EXCEPT ![d] = v][e]
    BY <1>1
  <2>2. QED
    BY <2>1
<1>2. CASE FateOf(d)' = FateOf(d)
  BY <1>2
<1>3. CASE FateOf(d) = "absent" /\ FateOf(d)' = "queued"
  <2>1. Ordered!Enqueue(d)
    BY <1>1, <1>3 DEF Ordered!Enqueue
  <2>2. QED
    BY <2>1 DEF Ordered!Next
<1>4. CASE FateOf(d) = "queued" /\ FateOf(d)' = "delivered" /\ d \in delivered' \ delivered
  <2>1. \A f \in Before(d) : Passed(f)
    BY <1>4, DeliveriesAreHeads
  <2>2. \A f \in Before(d) : f \in Events /\ FateOf(f) \in {"delivered", "dropped"}
    BY <2>1 DEF Passed, FateOf, Resolved, Before
  <2>3. \A f \in Ordered!Before(d) : fate[f] \in {"delivered", "dropped"}
    BY <2>2
  <2>4. fate[d] = "queued" /\ fate' = [fate EXCEPT ![d] = "delivered"]
    BY <1>1, <1>4
  <2>5. Ordered!Deliver(d)
    BY <2>3, <2>4 DEF Ordered!Deliver
  <2>6. QED
    BY <2>5 DEF Ordered!Next
<1>5. CASE FateOf(d) = "queued" /\ FateOf(d)' = "dropped"
  <2>1. fate' = [e \in Events |-> IF e \in {d} THEN "dropped" ELSE fate[e]]
    BY <1>5
  <2>2. \A e \in {d} : fate[e] = "queued"
    BY <1>5
  <2>3. Ordered!Drop({d})
    BY <2>1, <2>2 DEF Ordered!Drop
  <2>4. {d} \in SUBSET Ordered!Events
    OBVIOUS
  <2>5. QED
    BY <2>3, <2>4 DEF Ordered!Next
<1>6. QED
  BY <1>2, <1>3, <1>4, <1>5, FateChanges

\* An event whose row and visibility a step leaves alone keeps its fate.
LEMMA FateKept ==
  ASSUME NEW e \in Events, rows'[e].status = rows[e].status,
         e \in delivered' <=> e \in delivered
  PROVE  FateOf(e)' = FateOf(e)
BY DEF FateOf

\* The failure of a publication disturbs the fate of the incident alone.
LEMMA FailureFate ==
  ASSUME IInv, Discipline, [Next]_vars, NEW p \in Publishers, RecordFailure(p)
  PROVE  \E d \in Events : \A e \in Events \ {d} : FateOf(e)' = FateOf(e)
<1> USE DEF IInv, TypeOK
<1>1. PICK c \in Events : c = at[p] /\ Holds(p, c)
  BY DEF RecordFailure, Holds
<1>2. delivered' = delivered
  BY DEF RecordFailure
<1>3. rows[c].status \notin Resolved \cup {"absent"}
  BY <1>1 DEF NothingResolved, LeasesHold, HeldIsQueued, Resolved, Discipline
<1>4. CASE rows' = [rows EXCEPT ![c] = Retried(c)]
  <2>1. \A e \in Events \ {c} : rows'[e] = rows[e]
    BY <1>4
  <2>2. QED
    BY <1>2, <2>1, FateKept
<1>5. ASSUME NEW i \in Events,
             rows' = [rows EXCEPT ![c] = Unleased(c, "DEAD"), ![i] = Fresh]
      PROVE  \A e \in Events \ {i} : FateOf(e)' = FateOf(e)
  <2>1. ASSUME NEW e \in Events \ {i}
        PROVE  FateOf(e)' = FateOf(e)
    <3>1. CASE e = c
      <4>1. rows'[e].status = "DEAD"
        BY <1>5, <3>1 DEF Unleased
      <4>2. QED
        BY <1>2, <1>3, <3>1, <4>1 DEF FateOf, Resolved
    <3>2. CASE e # c
      BY <1>2, <1>5, <3>2, FateKept
    <3>3. QED
      BY <3>1, <3>2
  <2>2. QED
    BY <2>1
<1>6. QED
  BY <1>1, <1>4, <1>5 DEF RecordFailure

\* Terminating an aggregate drops what is queued in it.
LEMMA TerminateDrops ==
  ASSUME IInv, Discipline, [Next]_vars, NEW a \in Aggregates, Terminate(a)
  PROVE  Ordered!Next
<1> DEFINE fate == [e \in Events |-> FateOf(e)]
           S == {e \in Events : FateOf(e) = "queued" /\ FateOf(e)' = "dropped"}
<1> USE SameEvents
<1>1. ASSUME NEW e \in Events
      PROVE  FateOf(e)' = IF e \in S THEN "dropped" ELSE FateOf(e)
  <2>1. delivered' = delivered
    BY DEF Terminate
  <2>2. rows[e].status = "absent" => rows'[e].status = "absent"
    BY DEF Terminate
  <2>3. ~(FateOf(e) = "absent" /\ FateOf(e)' = "queued")
    BY <2>1, <2>2 DEF FateOf, Resolved
  <2>4. QED
    BY <2>1, <2>3, FateChanges
<1>2. fate' = [e \in Events |-> IF e \in S THEN "dropped" ELSE fate[e]]
  BY <1>1
<1>3. \A e \in S : fate[e] = "queued"
  OBVIOUS
<1>4. Ordered!Drop(S)
  BY <1>2, <1>3 DEF Ordered!Drop
<1>5. S \in SUBSET Ordered!Events
  OBVIOUS
<1>6. QED
  BY <1>4, <1>5 DEF Ordered!Next

LEMMA FateStep ==
  ASSUME IInv, Discipline, [Next]_vars
  PROVE  Ordered!Next \/ [e \in Events |-> FateOf(e)]' = [e \in Events |-> FateOf(e)]
<1> DEFINE Goal == Ordered!Next \/ [e \in Events |-> FateOf(e)]' = [e \in Events |-> FateOf(e)]
<1> SUFFICES Goal
  OBVIOUS
<1>1. TypeOK
  BY DEF IInv
<1>2. ASSUME NEW d \in Events, \A e \in Events \ {d} : FateOf(e)' = FateOf(e)
      PROVE  Goal
  BY <1>2, OneFate
<1>3. ASSUME \A e \in Events : rows'[e].status = rows[e].status, delivered' = delivered
      PROVE  Goal
  <2>1. \A e \in Events : FateOf(e)' = FateOf(e)
    BY <1>3, FateKept
  <2>2. QED
    BY <2>1
<1> HIDE DEF Goal
<1>4. ASSUME NEW d \in Events, Enqueue(d) \/ Replay(d) \/ SkipDead(d)
      PROVE  Goal
  <2>1. \A e \in Events \ {d} : rows'[e] = rows[e] /\ (e \in delivered' <=> e \in delivered)
    BY <1>1, <1>4 DEF Enqueue, Replay, SkipDead, TypeOK
  <2>2. QED
    BY <1>2, <2>1, FateKept
<1>5. ASSUME NEW d \in Events, LeaseExpires(d) \/ BackoffEnds(d)
      PROVE  Goal
  <2>1. /\ delivered' = delivered
        /\ rows' = [rows EXCEPT ![d].expired = TRUE] \/ rows' = [rows EXCEPT ![d].waiting = FALSE]
    BY <1>5, Zenon DEF LeaseExpires, BackoffEnds
  <2>2. \A e \in Events : rows'[e].status = rows[e].status
    BY <1>1, <2>1 DEF TypeOK, Row
  <2>3. QED
    BY <1>3, <2>1, <2>2
<1>6. ASSUME NEW a \in Aggregates, Terminate(a)
      PROVE  Goal
  BY <1>6, TerminateDrops DEF Goal
<1>7. ASSUME NEW p \in Publishers, Select(p) \/ Crash(p)
      PROVE  Goal
  <2>1. delivered' = delivered /\ rows' = rows
    BY <1>7 DEF Select, Crash
  <2>2. QED
    BY <1>3, <2>1
<1>8. ASSUME NEW p \in Publishers, Claim(p) \/ Deliver(p) \/ Mark(p)
      PROVE  Goal
  <2>1. PICK d \in Events : /\ \A e \in Events \ {d} : rows'[e] = rows[e]
                            /\ delivered' = delivered \/ delivered' = delivered \cup {d}
    BY <1>1, <1>8 DEF Claim, Deliver, Mark, TypeOK
  <2>2. QED
    BY <1>2, <2>1, FateKept
<1>9. ASSUME NEW p \in Publishers, RecordFailure(p)
      PROVE  Goal
  BY <1>2, <1>9, FailureFate
<1>10. CASE UNCHANGED vars
  BY <1>3, <1>10 DEF vars
<1>11. QED
  BY <1>4, <1>5, <1>6, <1>7, <1>8, <1>9, <1>10, NextCases

\* Whatever crashes, takeovers and dead letters happen in between, readers of
\* domain_events see what ordered delivery promises.
THEOREM Refinement ==
  ASSUME Discipline
  PROVE  Spec => ImplementsOrderedDelivery
<1>1. Init => Ordered!Init
  BY FateInit
<1>2. IInv /\ [Next]_vars =>
        [Ordered!Next]_([e \in Events |-> FateOf(e)])
  BY FateStep
<1>3. QED
  BY <1>1, <1>2, Invariance, PTL DEF Spec, ImplementsOrderedDelivery, Ordered!Spec
=============================================================================
