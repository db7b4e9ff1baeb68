------------------------------- MODULE Outbox -------------------------------
(***************************************************************************)
(* The transactional outbox of packages/dsh-runtime (outbox.py): rows of   *)
(* event_outbox are claimed under a lease, copied to domain_events and     *)
(* marked, in three transactions; any number of processes run the same     *)
(* loop over one SQLite file, die between two transactions, or outlive     *)
(* their lease.  Operators replay, skip or terminate what is stuck.        *)
(***************************************************************************)
EXTENDS Naturals

CONSTANTS
    Publishers,       \* processes inside publish_outbox
    Aggregates,       \* aggregate ids: tasks, ticks, incident streams
    Incidents,        \* the aggregate "incident/opened:runtime-outbox"
    MaxSeq,           \* bound on the events of one aggregate
    MAX_ATTEMPTS,     \* failed attempts before a row is DEAD
    MaxFaults,        \* bound on failed publications and crashes
    PromptPublishers, \* no publisher outlives its lease
    Operators,        \* replay, skip and terminate are used
    CarefulOperators, \* ... on DEAD rows, and on aggregates nobody is publishing
    NoEvent

Events == [agg: Aggregates, seq: 1..MaxSeq]

ASSUME OutboxAssumption ==
    /\ Incidents \in Aggregates
    /\ MaxSeq \in Nat /\ MAX_ATTEMPTS \in Nat /\ MaxFaults \in Nat
    /\ PromptPublishers \in BOOLEAN /\ Operators \in BOOLEAN /\ CarefulOperators \in BOOLEAN
    /\ NoEvent \notin Events

VARIABLES
    rows,       \* table event_outbox
    delivered,  \* table domain_events: the events that readers can see
    dlq,        \* table event_outbox_dlq
    pc,         \* per publisher: the transaction it is about to run
    batch,      \* per publisher: the rows its SELECT returned and it has not tried yet
    at,         \* per publisher: the row it has claimed
    faults      \* failed publications and crashes so far

vars == <<rows, delivered, dlq, pc, batch, at, faults>>

-----------------------------------------------------------------------------
Status == {"absent", "PENDING", "CLAIMED", "PUBLISHED", "DEAD", "SKIPPED", "TERMINATED"}

\* "waiting": available_at is in the future; "expired": locked_until has passed.
\* The lease_owner is written and never read.
Row == [status: Status, attempts: Nat, waiting: BOOLEAN, expired: BOOLEAN]

Stages == {"idle", "claim", "deliver", "mark", "fail"}

TypeOK ==
    /\ rows \in [Events -> Row]
    /\ delivered \subseteq Events
    /\ dlq \subseteq Events
    /\ pc \in [Publishers -> Stages]
    /\ batch \in [Publishers -> SUBSET Events]
    /\ at \in [Publishers -> Events \cup {NoEvent}]
    /\ faults \in 0..MaxFaults
    /\ \A p \in Publishers : pc[p] \in {"deliver", "mark", "fail"} => at[p] \in Events

-----------------------------------------------------------------------------
Before(e) == {f \in Events : f.agg = e.agg /\ f.seq < e.seq}

\* Mutant of Finished: a DEAD row lets its successors pass.
FinishedOrDead == {"PUBLISHED", "SKIPPED", "TERMINATED", "DEAD"}

\* The statuses that _eligible_sql looks past when it searches the head.
Finished == {"PUBLISHED", "SKIPPED", "TERMINATED"}

Fresh == [status |-> "PENDING", attempts |-> 0, waiting |-> FALSE, expired |-> FALSE]

\* Mutant of Eligible: the sequence is not looked at.
EligibleAnyOrder(e) ==
    /\ rows[e].status \in {"PENDING", "CLAIMED"}
    /\ ~rows[e].waiting
    /\ rows[e].status = "PENDING" \/ rows[e].expired

\* Mutant of Eligible: claimed rows are never taken over.
EligiblePending(e) ==
    /\ rows[e].status = "PENDING"
    /\ ~rows[e].waiting
    /\ \A f \in Before(e) : rows[f].status \in Finished

\* _eligible_sql: due, not under another's lease, and the head of its aggregate.
Eligible(e) ==
    /\ rows[e].status \in {"PENDING", "CLAIMED"}
    /\ ~rows[e].waiting
    /\ rows[e].status = "PENDING" \/ rows[e].expired
    /\ \A f \in Before(e) : rows[f].status \in Finished

\* _claim: the lease is checked again, the back-off and the sequence are not.
Claimable(e) ==
    \/ rows[e].status = "PENDING"
    \/ rows[e].status = "CLAIMED" /\ rows[e].expired

\* e is the next row of its aggregate: MAX(sequence) + 1.
IsNext(e) ==
    /\ rows[e].status = "absent"
    /\ \A f \in Before(e) : rows[f].status # "absent"

Leased(e) == [status |-> "CLAIMED", attempts |-> rows[e].attempts + 1,
              waiting |-> rows[e].waiting, expired |-> FALSE]

\* A row whose lease columns are cleared, and one that backs off as well.
Unleased(e, status) == [status |-> status, attempts |-> rows[e].attempts,
                        waiting |-> rows[e].waiting, expired |-> FALSE]
Retried(e) == [status |-> "PENDING", attempts |-> rows[e].attempts,
               waiting |-> TRUE, expired |-> FALSE]

Holds(p, e) == pc[p] \in {"deliver", "mark", "fail"} /\ at[p] = e

\* The publisher turns to the next row of its batch, or returns.
NextRow(p) ==
    /\ pc' = [pc EXCEPT ![p] = IF batch[p] = {} THEN "idle" ELSE "claim"]
    /\ at' = [at EXCEPT ![p] = NoEvent]
    /\ UNCHANGED batch

-----------------------------------------------------------------------------
(* Writers.                                                                *)

\* enqueue, in the transaction of the business state it reports.  The outbox's
\* own incident stream is written by RecordFailure only.
Enqueue(e) ==
    /\ e.agg # Incidents
    /\ IsNext(e)
    /\ rows' = [rows EXCEPT ![e] = Fresh]
    /\ UNCHANGED <<delivered, dlq, pc, batch, at, faults>>

-----------------------------------------------------------------------------
(* publish_outbox: SELECT, then claim, publish and mark row by row.  The   *)
(* loop that selects again after a round with progress is Select again.    *)

Select(p) ==
    /\ pc[p] = "idle"
    /\ \E e \in Events : Eligible(e)
    /\ batch' = [batch EXCEPT ![p] = {e \in Events : Eligible(e)}]
    /\ pc' = [pc EXCEPT ![p] = "claim"]
    /\ UNCHANGED <<rows, delivered, dlq, at, faults>>

\* Mutant of Claim: the publisher does not remember which row it claimed.
ClaimUnnamed(p) ==
    /\ pc[p] = "claim"
    /\ \E e \in batch[p] : Claimable(e) /\ batch' = [batch EXCEPT ![p] = @ \ {e}]
    /\ pc' = [pc EXCEPT ![p] = "deliver"]
    /\ UNCHANGED <<rows, delivered, dlq, at, faults>>

\* The first transaction: a row that another publisher took meanwhile is passed.
Claim(p) ==
    /\ pc[p] = "claim"
    /\ \E e \in batch[p] :
         /\ batch' = [batch EXCEPT ![p] = @ \ {e}]
         /\ \/ /\ Claimable(e)
               /\ rows' = [rows EXCEPT ![e] = Leased(e)]
               /\ pc' = [pc EXCEPT ![p] = "deliver"]
               /\ at' = [at EXCEPT ![p] = e]
            \/ /\ ~Claimable(e)
               /\ pc' = [pc EXCEPT ![p] = IF batch[p] = {e} THEN "idle" ELSE "claim"]
               /\ UNCHANGED <<rows, at>>
    /\ UNCHANGED <<delivered, dlq, faults>>

\* Mutant of Deliver: a failed INSERT is taken for a publication.
DeliverSwallowed(p) ==
    /\ pc[p] = "deliver"
    /\ pc' = [pc EXCEPT ![p] = "mark"]
    /\ \/ delivered' = delivered \cup {at[p]} /\ UNCHANGED faults
       \/ faults < MaxFaults /\ faults' = faults + 1 /\ UNCHANGED delivered
    /\ UNCHANGED <<rows, dlq, batch, at>>

\* The second transaction: INSERT OR IGNORE into domain_events and
\* event_consumption, or an exception and a rollback.
Deliver(p) ==
    /\ pc[p] = "deliver"
    /\ \/ /\ delivered' = delivered \cup {at[p]}
          /\ pc' = [pc EXCEPT ![p] = "mark"]
          /\ UNCHANGED faults
       \/ /\ faults < MaxFaults /\ faults' = faults + 1
          /\ pc' = [pc EXCEPT ![p] = "fail"]
          /\ UNCHANGED delivered
    /\ UNCHANGED <<rows, dlq, batch, at>>

\* The third transaction: PUBLISHED, whatever the row has become.
Mark(p) ==
    /\ pc[p] = "mark"
    /\ rows' = [rows EXCEPT ![at[p]] = Unleased(at[p], "PUBLISHED")]
    /\ NextRow(p)
    /\ UNCHANGED <<delivered, dlq, faults>>

\* _record_publish_failure: back to PENDING with a back-off, or to the DLQ with
\* an incident; again whatever the row has become.
RecordFailure(p) ==
    /\ pc[p] = "fail"
    /\ LET e == at[p] IN
         \/ /\ rows[e].attempts < MAX_ATTEMPTS
            /\ rows' = [rows EXCEPT ![e] = Retried(e)]
            /\ UNCHANGED dlq
         \/ /\ rows[e].attempts >= MAX_ATTEMPTS
            /\ \E i \in Events :
                 /\ i.agg = Incidents /\ IsNext(i)
                 /\ rows' = [rows EXCEPT ![e] = Unleased(e, "DEAD"), ![i] = Fresh]
            /\ dlq' = dlq \cup {e}
    /\ NextRow(p)
    /\ UNCHANGED <<delivered, faults>>

\* The process dies, or an exception leaves publish_outbox.
Crash(p) ==
    /\ pc[p] # "idle" /\ faults < MaxFaults
    /\ pc' = [pc EXCEPT ![p] = "idle"]
    /\ at' = [at EXCEPT ![p] = NoEvent]
    /\ batch' = [batch EXCEPT ![p] = {}]
    /\ faults' = faults + 1
    /\ UNCHANGED <<rows, delivered, dlq>>

-----------------------------------------------------------------------------
(* Time.                                                                   *)

LeaseExpires(e) ==
    /\ rows[e].status = "CLAIMED" /\ ~rows[e].expired
    /\ PromptPublishers => ~\E p \in Publishers : Holds(p, e)
    /\ rows' = [rows EXCEPT ![e].expired = TRUE]
    /\ UNCHANGED <<delivered, dlq, pc, batch, at, faults>>

BackoffEnds(e) ==
    /\ rows[e].waiting
    /\ rows' = [rows EXCEPT ![e].waiting = FALSE]
    /\ UNCHANGED <<delivered, dlq, pc, batch, at, faults>>

-----------------------------------------------------------------------------
(* Operators.                                                              *)

\* replay_event: any row can be delivered again; a DEAD one becomes PUBLISHED.
Replay(e) ==
    /\ Operators /\ rows[e].status # "absent"
    /\ CarefulOperators => rows[e].status = "DEAD"
    /\ delivered' = delivered \cup {e}
    /\ rows' = IF rows[e].status = "DEAD"
                 THEN [rows EXCEPT ![e] = Unleased(e, "PUBLISHED")] ELSE rows
    /\ UNCHANGED <<dlq, pc, batch, at, faults>>

\* Mutant of SkipDead: a row can be skipped before it is DEAD.
SkipAny(e) ==
    /\ Operators /\ rows[e].status \notin Finished \cup {"absent"}
    /\ rows' = [rows EXCEPT ![e] = Unleased(e, "SKIPPED")]
    /\ UNCHANGED <<delivered, dlq, pc, batch, at, faults>>

SkipDead(e) ==
    /\ Operators /\ rows[e].status = "DEAD"
    /\ rows' = [rows EXCEPT ![e] = Unleased(e, "SKIPPED")]
    /\ UNCHANGED <<delivered, dlq, pc, batch, at, faults>>

\* terminate_aggregate: every unfinished row, claimed ones included.
Terminate(a) ==
    /\ Operators
    /\ CarefulOperators => ~\E p \in Publishers, e \in Events : e.agg = a /\ Holds(p, e)
    /\ rows' = [e \in Events |->
                  IF e.agg = a /\ rows[e].status \notin Finished \cup {"absent"}
                    THEN Unleased(e, "TERMINATED") ELSE rows[e]]
    /\ UNCHANGED <<delivered, dlq, pc, batch, at, faults>>

-----------------------------------------------------------------------------
Init ==
    /\ rows = [e \in Events |-> [Fresh EXCEPT !.status = "absent"]]
    /\ delivered = {} /\ dlq = {}
    /\ pc = [p \in Publishers |-> "idle"]
    /\ batch = [p \in Publishers |-> {}]
    /\ at = [p \in Publishers |-> NoEvent]
    /\ faults = 0

Publish(p) == Select(p) \/ Claim(p) \/ Deliver(p) \/ Mark(p) \/ RecordFailure(p)

Next ==
    \/ \E e \in Events : \/ Enqueue(e) \/ LeaseExpires(e) \/ BackoffEnds(e)
                         \/ Replay(e) \/ SkipDead(e)
    \/ \E p \in Publishers : Publish(p) \/ Crash(p)
    \/ \E a \in Aggregates : Terminate(a)

Spec == Init /\ [][Next]_vars

\* Every tick publishes what is pending, and time passes.
Fairness ==
    /\ \A p \in Publishers : WF_vars(Publish(p))
    /\ \A e \in Events : WF_vars(LeaseExpires(e)) /\ WF_vars(BackoffEnds(e))

FairSpec == Spec /\ Fairness

-----------------------------------------------------------------------------
(* Properties.                                                             *)

Resolved == {"SKIPPED", "TERMINATED"}

\* A row counts as PUBLISHED only if its event is visible: no crash and no
\* takeover between the two transactions loses an event.
PublishedIsDelivered ==
    \A e \in Events : rows[e].status = "PUBLISHED" => e \in delivered

\* The events of an aggregate become visible in sequence; only what an operator
\* resolved is passed over.
Passed(e) == e \in delivered \/ rows[e].status \in Resolved
DeliveredInOrder == \A e \in delivered : \A f \in Before(e) : Passed(f)

\* While sequence N is PENDING, CLAIMED or DEAD, N+1 is not published
\* (runtime-local-outbox.md).
NoOvertaking ==
    [][\A e \in delivered' \ delivered : \A f \in Before(e) :
         rows[f].status \in Finished]_vars

\* Every event becomes visible, unless it or an event before it is DEAD or was
\* resolved: a poison message stops its own aggregate and no other.
EventsSettle ==
    \A e \in Events :
      rows[e].status = "PENDING" ~>
        \/ e \in delivered
        \/ \E f \in Before(e) \cup {e} : rows[f].status \in {"DEAD"} \cup Resolved

-----------------------------------------------------------------------------
(* The inductive invariant: operators wait for publishers and publishers   *)
(* for their leases, or nobody resolves anything by hand.                  *)

Discipline == (PromptPublishers /\ CarefulOperators) \/ ~Operators

\* A row that was ever a candidate had nothing unfinished before it.
CandidatesAreHeads ==
    /\ \A p \in Publishers : \A e \in batch[p] : \A f \in Before(e) : Passed(f)
    /\ \A p \in Publishers : \A e \in Events :
         Holds(p, e) => \A f \in Before(e) : Passed(f)
    /\ \A e \in Events : rows[e].status \in {"CLAIMED", "DEAD"} =>
         \A f \in Before(e) : Passed(f)

MarkingIsDelivered == \A p \in Publishers : pc[p] = "mark" => at[p] \in delivered

\* No two publishers work on one row.
ExclusiveLease ==
    \A p, q \in Publishers : \A e \in Events : Holds(p, e) /\ Holds(q, e) => p = q

\* With prompt publishers and careful operators, a claimed row has one holder.
LeasesHold ==
    PromptPublishers /\ CarefulOperators =>
      /\ ExclusiveLease
      /\ \A p \in Publishers, e \in Events : Holds(p, e) =>
           rows[e].status = "CLAIMED" /\ ~rows[e].expired

NothingResolved == ~Operators => \A e \in Events : rows[e].status \notin Resolved

\* What publishers and readers know of is in the table.
HeldIsQueued ==
    /\ \A p \in Publishers : \A e \in batch[p] : rows[e].status # "absent"
    /\ \A p \in Publishers : \A e \in Events : Holds(p, e) => rows[e].status # "absent"
    /\ \A e \in delivered : rows[e].status # "absent"

IInv ==
    /\ TypeOK
    /\ PublishedIsDelivered
    /\ DeliveredInOrder
    /\ CandidatesAreHeads
    /\ MarkingIsDelivered
    /\ LeasesHold
    /\ NothingResolved
    /\ HeldIsQueued

-----------------------------------------------------------------------------
(* Refinement: ordered delivery.                                           *)

FateOf(e) ==
    IF e \in delivered THEN "delivered"
    ELSE IF rows[e].status = "absent" THEN "absent"
    ELSE IF rows[e].status \in Resolved THEN "dropped"
    ELSE "queued"

Ordered == INSTANCE OrderedDelivery WITH fate <- [e \in Events |-> FateOf(e)]

\* The outbox implements ordered delivery.
ImplementsOrderedDelivery == Ordered!Spec
=============================================================================
