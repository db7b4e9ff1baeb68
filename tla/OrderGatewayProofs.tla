------------------------- MODULE OrderGatewayProofs -------------------------
(***************************************************************************)
(* What holds of OrderGateway for every number of handlers, processes,     *)
(* approvals, keys, intents and orders.                                    *)
(***************************************************************************)
EXTENDS OrderGateway, TLAPS

\* The fields of an intent name rows of the tables.
LEMMA IntentType ==
  ASSUME NEW i \in Intents
  PROVE  i.key \in Keys /\ i.approval \in Approvals /\ i.digest \in Digests
BY ConstantsAssumption

(***************************************************************************)
(* The two writes that the journal shares with the approval ledger.        *)
(***************************************************************************)

\* release_consumed_approval leaves the ledger alone or gives one CONSUMING
\* approval that holds the key back to APPROVED.
LEMMA ReleasedCases ==
  ASSUME NEW k, approvals' \in Released(k)
  PROVE  \/ /\ approvals' = approvals
            /\ \/ \A a \in Approvals : approvals[a].key # k
               \/ \E a \in Approvals : approvals[a].key = k /\ approvals[a].status # "CONSUMING"
         \/ \E a \in Approvals :
              /\ approvals[a].key = k /\ approvals[a].status = "CONSUMING"
              /\ approvals' = [approvals EXCEPT ![a] = Blank("APPROVED")]
BY DEF Released, Holders

\* finalize_consumed_approval leaves the ledger alone or completes one CONSUMING
\* approval that holds the key.
LEMMA ConsumedCases ==
  ASSUME NEW k, NEW o, approvals' \in Consumed(k, o)
  PROVE  \/ /\ approvals' = approvals
            /\ \/ \A a \in Approvals : approvals[a].key # k
               \/ \E a \in Approvals : approvals[a].key = k /\ approvals[a].status # "CONSUMING"
         \/ \E a \in Approvals :
              /\ approvals[a].key = k /\ approvals[a].status = "CONSUMING"
              /\ approvals' = [approvals EXCEPT ![a].status = "CONSUMED", ![a].order = o]
BY DEF Consumed, Holders

LEMMA ReleasedType ==
  ASSUME TypeOK, NEW k, approvals' \in Released(k)
  PROVE  approvals' \in [Approvals -> ApprovalRow]
<1>1. CASE approvals' = approvals
  BY <1>1 DEF TypeOK
<1>2. CASE \E a \in Approvals : approvals' = [approvals EXCEPT ![a] = Blank("APPROVED")]
  <2>1. Blank("APPROVED") \in ApprovalRow
    BY DEF Blank, ApprovalRow, ApprovalStatus
  <2>2. QED
    BY <1>2, <2>1 DEF TypeOK
<1>3. QED
  BY <1>1, <1>2, ReleasedCases

LEMMA ConsumedType ==
  ASSUME TypeOK, NEW k, NEW o \in OrderIds, approvals' \in Consumed(k, o)
  PROVE  approvals' \in [Approvals -> ApprovalRow]
<1>1. CASE approvals' = approvals
  BY <1>1 DEF TypeOK
<1>2. CASE \E a \in Approvals :
             approvals' = [approvals EXCEPT ![a].status = "CONSUMED", ![a].order = o]
  BY <1>2 DEF TypeOK, ApprovalRow, ApprovalStatus
<1>3. QED
  BY <1>1, <1>2, ConsumedCases

(***************************************************************************)
(* Type correctness.                                                       *)
(***************************************************************************)

LEMMA InitType == Init => TypeOK
<1> SUFFICES ASSUME Init
             PROVE  TypeOK
  OBVIOUS
<1>1. approvals \in [Approvals -> ApprovalRow]
  BY DEF Init, Blank, ApprovalRow, ApprovalStatus
<1>2. keys \in [Keys -> KeyRow]
  BY DEF Init, NoKeyRow, KeyRow, KeyStatus
<1>3. faults \in 0..MaxFaults
  BY ConstantsAssumption DEF Init
<1>4. QED
  BY <1>1, <1>2, <1>3 DEF Init, TypeOK, Stages

\* The locals after a handler has returned.
LEMMA DoneType ==
  ASSUME TypeOK, NEW w \in Workers, Done(w)
  PROVE  /\ pc' \in [Workers -> Stages]
         /\ intent' \in [Workers -> Intents \cup {NoIntent}]
         /\ order' \in [Workers -> OrderIds \cup {NoOrder}]
         /\ reading' \in [Workers -> Approvals \cup {NoApproval}]
         /\ \A v \in Workers :
              /\ pc'[v] \notin {"idle", "expire"} => intent'[v] \in Intents
              /\ pc'[v] = "expire" => reading'[v] \in Approvals
              /\ pc'[v] \in {"recover", "save", "finalize"} => order'[v] \in OrderIds
BY DEF TypeOK, Done, Stages

\* The locals after a handler has moved to a stage that needs no order id.
LEMMA ProceedType ==
  ASSUME TypeOK, NEW w \in Workers, NEW s \in Stages, pc[w] \notin {"idle", "expire"},
         s # "expire", s \in {"recover", "save", "finalize"} => order[w] \in OrderIds,
         Proceed(w, s)
  PROVE  /\ pc' \in [Workers -> Stages]
         /\ intent' \in [Workers -> Intents \cup {NoIntent}]
         /\ order' \in [Workers -> OrderIds \cup {NoOrder}]
         /\ reading' \in [Workers -> Approvals \cup {NoApproval}]
         /\ \A v \in Workers :
              /\ pc'[v] \notin {"idle", "expire"} => intent'[v] \in Intents
              /\ pc'[v] = "expire" => reading'[v] \in Approvals
              /\ pc'[v] \in {"recover", "save", "finalize"} => order'[v] \in OrderIds
BY DEF TypeOK, Proceed, GoTo
\* Every step keeps the types.
LEMMA NextType == TypeOK /\ [Next]_vars => TypeOK'
<1> SUFFICES ASSUME TypeOK, [Next]_vars
             PROVE  TypeOK'
  OBVIOUS
<1> USE DEF tables, venue, locals
<1>1. ASSUME NEW a \in Approvals, CreateApproval(a)
      PROVE  TypeOK'
  BY <1>1 DEF CreateApproval, TypeOK, Blank, ApprovalRow, ApprovalStatus
<1>2. ASSUME NEW a \in Approvals, LapseApproval(a)
      PROVE  TypeOK'
  BY <1>2 DEF LapseApproval, TypeOK, ApprovalRow
<1>3. ASSUME NEW a \in Approvals, NEW d \in {"APPROVED", "REJECTED"}, Decide(a, d)
      PROVE  TypeOK'
  BY <1>3 DEF Decide, TypeOK, Blank, ApprovalRow, ApprovalStatus
<1>4. ASSUME NEW w \in Workers, NEW a \in Approvals, ReadApproval(w, a)
      PROVE  TypeOK'
  BY <1>4 DEF ReadApproval, TypeOK, GoTo, Stages
<1>5. ASSUME NEW w \in Workers, NEW i \in Intents, Receive(w, i)
      PROVE  TypeOK'
  <2>1. PICK s \in {"gate", "record"} :
          /\ pc' = [pc EXCEPT ![w] = s] /\ intent' = [intent EXCEPT ![w] = i]
          /\ UNCHANGED <<tables, venue, lapsed, granted, order, reading, faults>>
    BY <1>5 DEF Receive, GoTo
  <2>2. QED
    BY <2>1 DEF TypeOK, Stages
<1>6. ASSUME NEW w \in Workers, Handle(w)
      PROVE  TypeOK'
  <2>1. CASE ReadRecord(w)
    BY <2>1, DoneType, ProceedType DEF ReadRecord, TypeOK, Stages
  <2>2. CASE Lookup(w)
    <3>1. CASE \E o \in RowsOf(KeyOf(w)) :
                 /\ order' = [order EXCEPT ![w] = o.id]
                 /\ GoTo(w, "recover")
                 /\ UNCHANGED <<intent, reading>>
      BY <2>2, <3>1 DEF Lookup, TypeOK, RowsOf, Orders, GoTo, Stages
    <3>2. CASE Proceed(w, "free")
      BY <2>2, <3>2, ProceedType DEF Lookup, TypeOK, Stages
    <3>3. CASE Done(w)
      BY <2>2, <3>3, DoneType DEF Lookup, TypeOK
    <3>4. QED
      BY <2>2, <3>1, <3>2, <3>3 DEF Lookup
  <2>3. CASE Recover(w)
    <3>1. keys' \in [Keys -> KeyRow]
      BY <2>3 DEF Recover, FinalizeKey, KeyUpdated, TypeOK, KeyRow, KeyStatus
    <3>2. approvals' \in [Approvals -> ApprovalRow]
      BY <2>3, ConsumedType DEF Recover, FinalizeKey, TypeOK
    <3>3. QED
      BY <2>3, <3>1, <3>2, DoneType DEF Recover, TypeOK
  <2>4. CASE FreeKey(w)
    <3>1. keys' \in [Keys -> KeyRow]
      BY <2>4 DEF FreeKey, MarkFailed, KeyUpdated, TypeOK, KeyRow, KeyStatus
    <3>2. approvals' \in [Approvals -> ApprovalRow]
      BY <2>4, ReleasedType DEF FreeKey, MarkFailed
    <3>3. QED
      BY <2>4, <3>1, <3>2, ProceedType DEF FreeKey, TypeOK, Stages
  <2>5. CASE Gate(w)
    BY <2>5, DoneType, ProceedType DEF Gate, TypeOK, Stages
  <2>6. CASE Precheck(w)
    <3>1. CASE Proceed(w, "health")
      BY <2>6, <3>1, ProceedType DEF Precheck, TypeOK, Stages
    <3>2. CASE Done(w)
      BY <2>6, <3>2, DoneType DEF Precheck, TypeOK
    <3>3. CASE /\ GoTo(w, "expire")
               /\ reading' = [reading EXCEPT ![w] = intent[w].approval]
               /\ UNCHANGED <<intent, order>>
      <4>1. intent[w].approval \in Approvals
        BY <2>6, IntentType DEF Precheck, TypeOK
      <4>2. QED
        BY <2>6, <3>3, <4>1 DEF Precheck, TypeOK, GoTo, Stages
    <3>4. QED
      BY <2>6, <3>1, <3>2, <3>3 DEF Precheck
  <2>7. CASE SaveExpired(w)
    <3>1. approvals' \in [Approvals -> ApprovalRow]
      BY <2>7 DEF SaveExpired, TypeOK, ExpiredRow, ApprovalRow, ApprovalStatus
    <3>2. QED
      BY <2>7, <3>1, DoneType DEF SaveExpired, TypeOK
  <2>8. CASE Health(w)
    BY <2>8, DoneType, ProceedType DEF Health, TypeOK, Stages
  <2>9. CASE Claim(w)
    <3>1. intent[w] \in Intents
      BY <2>9 DEF Claim, TypeOK
    <3>2. keys' \in [Keys -> KeyRow]
      <4>1. [status |-> "RESERVED", intent |-> intent[w], order |-> NoOrder,
             aged |-> FALSE] \in KeyRow
        BY <3>1 DEF KeyRow, KeyStatus
      <4>2. QED
        BY <2>9, <4>1 DEF Claim, TypeOK
    <3>3. approvals' \in [Approvals -> ApprovalRow]
      <4>1. [status |-> "CONSUMING", key |-> intent[w].key, order |-> NoOrder,
             lapsed |-> FALSE] \in ApprovalRow
        BY <3>1, IntentType DEF ApprovalRow, ApprovalStatus
      <4>2. ExpiredRow \in ApprovalRow
        BY DEF ExpiredRow, ApprovalRow, ApprovalStatus
      <4>3. QED
        BY <2>9, <4>1, <4>2 DEF Claim, TypeOK
    <3>4. CASE Proceed(w, "submit")
      BY <2>9, <3>2, <3>3, <3>4, ProceedType DEF Claim, TypeOK, Stages
    <3>5. CASE Done(w)
      BY <2>9, <3>2, <3>3, <3>5, DoneType DEF Claim, TypeOK
    <3>6. QED
      BY <2>9, <3>4, <3>5 DEF Claim
  <2>10. CASE Submit(w)
    <3>1. CASE Done(w) /\ UNCHANGED book
      BY <2>10, <3>1, DoneType DEF Submit, TypeOK
    <3>2. CASE Proceed(w, "reject") /\ UNCHANGED book
      BY <2>10, <3>2, ProceedType DEF Submit, TypeOK, Stages
    <3>3. ASSUME NEW id \in OrderIds,
                 book' = [book EXCEPT ![ProcOf[w]] =
                            @ \cup {[id |-> id, intent |-> intent[w]]}],
                 order' = [order EXCEPT ![w] = id],
                 GoTo(w, "save"), UNCHANGED <<intent, reading>>
          PROVE  TypeOK'
      <4>1. [id |-> id, intent |-> intent[w]] \in Orders
        BY <2>10 DEF Submit, TypeOK, Orders
      <4>2. book' \in [Procs -> SUBSET Orders]
        BY <3>3, <4>1 DEF TypeOK
      <4>3. QED
        BY <2>10, <3>3, <4>2 DEF Submit, TypeOK, GoTo, Stages
    <3>4. QED
      BY <2>10, <3>1, <3>2, <3>3 DEF Submit
  <2>11. CASE SaveOrder(w)
    <3>1. [id |-> order[w], intent |-> intent[w]] \in Orders
      BY <2>11 DEF SaveOrder, TypeOK, Orders
    <3>2. QED
      BY <2>11, <3>1, ProceedType DEF SaveOrder, TypeOK, Stages
  <2>12. CASE Finalize(w)
    <3>1. keys' \in [Keys -> KeyRow]
      BY <2>12 DEF Finalize, FinalizeKey, KeyUpdated, TypeOK, KeyRow, KeyStatus
    <3>2. approvals' \in [Approvals -> ApprovalRow]
      BY <2>12, ConsumedType DEF Finalize, FinalizeKey, TypeOK
    <3>3. QED
      BY <2>12, <3>1, <3>2, ProceedType DEF Finalize, TypeOK, Stages
  <2>13. CASE Prune(w)
    <3>1. keys' \in [Keys -> KeyRow] /\ approvals' \in [Approvals -> ApprovalRow]
      BY <2>13 DEF Prune, TypeOK, NoKeyRow, KeyRow, KeyStatus, Blank, ApprovalRow, ApprovalStatus
    <3>2. QED
      BY <2>13, <3>1, DoneType DEF Prune, TypeOK
  <2>14. CASE Release(w)
    <3>1. keys' \in [Keys -> KeyRow]
      BY <2>14 DEF Release, MarkFailed, KeyUpdated, TypeOK, KeyRow, KeyStatus
    <3>2. approvals' \in [Approvals -> ApprovalRow]
      BY <2>14, ReleasedType DEF Release, MarkFailed
    <3>3. QED
      BY <2>14, <3>1, <3>2, DoneType DEF Release, TypeOK
  <2>15. QED
    BY <1>6, <2>1, <2>2, <2>3, <2>4, <2>5, <2>6, <2>7, <2>8, <2>9, <2>10, <2>11,
       <2>12, <2>13, <2>14 DEF Handle
<1>7. ASSUME NEW w \in Workers, StorageError(w)
      PROVE  TypeOK'
  <2>1. faults' \in 0..MaxFaults
    BY <1>7, ConstantsAssumption DEF StorageError, TypeOK
  <2>2. QED
    BY <1>7, <2>1, DoneType DEF StorageError, TypeOK
<1>8. ASSUME NEW k \in Keys, AgeKey(k)
      PROVE  TypeOK'
  BY <1>8 DEF AgeKey, TypeOK, KeyRow
<1>9. ASSUME NEW i \in Perishable, LapseIntent(i)
      PROVE  TypeOK'
  BY <1>9 DEF LapseIntent, TypeOK
<1>10. ASSUME NEW p \in Procs, Crash(p)
       PROVE  TypeOK'
  <2>1. faults' \in 0..MaxFaults
    BY <1>10, ConstantsAssumption DEF Crash, TypeOK
  <2>2. QED
    BY <1>10, <2>1 DEF Crash, TypeOK, Stages
<1>11. ASSUME NEW p \in Procs, EmergencyStop(p) \/ ResumeTrading(p)
       PROVE  TypeOK'
  BY <1>11 DEF EmergencyStop, ResumeTrading, TypeOK
<1>12. CASE UNCHANGED vars
  BY <1>12 DEF vars, TypeOK
<1>13. QED
  BY <1>1, <1>2, <1>3, <1>4, <1>5, <1>6, <1>7, <1>8, <1>9, <1>10, <1>11, <1>12 DEF Next

\* The tables, the adapters and the handlers keep their types in every
\* reachable state, whatever the interleaving.
THEOREM TypeCorrect == Spec => []TypeOK
BY InitType, NextType, PTL DEF Spec
(***************************************************************************)
(* The inductive invariant.  Most steps are quiet: they add no order and   *)
(* no claim, take no approval back to life and touch no key that is in     *)
(* use.  The steps that are not are treated one by one.                    *)
(***************************************************************************)

Spendable == {"CONSUMING", "CONSUMED"}

\* Rows of the ledger change only away from consumption.
QuietApprovals ==
    \A a \in Approvals :
      \/ approvals'[a] = approvals[a]
      \/ /\ approvals'[a].key = NoKey
         /\ approvals'[a].status \notin Spendable
         /\ approvals[a].status \in Spendable \cup {"EXPIRED", "pruned"} =>
              approvals'[a].status \in {"EXPIRED", "pruned"}

\* Rows of the journal age, or disappear once FAILED.
QuietKeys ==
    \A k \in Keys :
      \/ /\ keys'[k].status = keys[k].status
         /\ keys'[k].intent = keys[k].intent
         /\ keys'[k].order = keys[k].order
      \/ keys[k].status = "FAILED" /\ keys'[k].status = "absent"

\* No handler enters a stage between a claim and the end of its submission.
QuietHandlers ==
    \A v \in Workers : pc'[v] \in Unsent => pc[v] \in Unsent /\ intent'[v] = intent[v]

Acting == {"free", "recover", "finalize"}

\* No handler has learnt anything new from the venue.
QuietLookups ==
    \A v \in Workers :
      pc'[v] \in Acting =>
        pc[v] = pc'[v] /\ intent'[v] = intent[v] /\ order'[v] = order[v]

\* A handler keeps its request or drops it.
QuietRequests ==
    \A v \in Workers : intent'[v] = intent[v] \/ intent'[v] = NoIntent

LEMMA LookupsKept ==
  ASSUME IInv, rows' = rows, QuietLookups
  PROVE  LookupsAreCurrent'
BY DEF IInv, LookupsAreCurrent, QuietLookups, Acting, RowsOf, KeyOf

LEMMA RequestsKept ==
  ASSUME IInv, QuietRequests
  PROVE  OneRequestPerKey'
BY DEF IInv, OneRequestPerKey, QuietRequests

\* A row that holds a key is the only one that does.
LEMMA UniqueHolder ==
  ASSUME IInv, NEW a \in Approvals, NEW b \in Approvals, NEW k \in Keys,
         approvals[a].key = k, approvals[b].key = k
  PROVE  a = b
<1>1. approvals[a].status \in Spendable /\ approvals[b].status \in Spendable
  <2>1. approvals[a].key # NoKey /\ approvals[b].key # NoKey
    BY SentinelsAssumption
  <2>2. QED
    BY <2>1 DEF IInv, OnlyConsumersCarryKeys, Spendable
<1>2. CASE approvals[a].status = "CONSUMING" /\ approvals[b].status = "CONSUMING"
  BY <1>2 DEF IInv, LedgersAgree
<1>3. CASE approvals[a].status = "CONSUMED" /\ approvals[b].status = "CONSUMED"
  BY <1>3 DEF IInv, LedgersAgree, OneOrderPerKey
<1>4. CASE approvals[a].status # approvals[b].status
  BY <1>1, <1>4 DEF IInv, LedgersAgree, Spendable
<1>5. QED
  BY <1>1, <1>2, <1>3, <1>4 DEF Spendable

LEMMA QuietStep ==
  ASSUME IInv, TypeOK', rows' = rows, QuietApprovals, QuietKeys, QuietHandlers,
         OneRequestPerKey', LookupsAreCurrent'
  PROVE  IInv'
<1> USE DEF IInv
<1>1. OneOrderPerApproval' /\ OneOrderPerKey'
  BY DEF OneOrderPerApproval, OneOrderPerKey
<1>2. SpentApprovalsStaySpent'
  <2>1. \A o \in rows : o.intent.approval \in Approvals
    BY IntentType DEF TypeOK, Orders
  <2>2. QED
    BY <2>1 DEF SpentApprovalsStaySpent, QuietApprovals, Spendable
<1>3. \A k \in Keys : keys[k].status \in {"RESERVED", "COMPLETED"} =>
         /\ keys'[k].status = keys[k].status /\ keys'[k].intent = keys[k].intent
         /\ keys'[k].order = keys[k].order
  BY DEF QuietKeys
<1>4. LedgersAgree'
  BY <1>3 DEF LedgersAgree, QuietApprovals, Spendable
<1>5. OrdersHoldTheirKeys'
  <2>1. \A o \in rows : o.intent.key \in Keys
    BY IntentType DEF TypeOK, Orders
  <2>2. QED
    BY <1>3, <2>1 DEF OrdersHoldTheirKeys
<1>6. KeyRowsCoherent'
  BY DEF KeyRowsCoherent, QuietKeys
<1>7. OnlyConsumersCarryKeys'
  BY DEF OnlyConsumersCarryKeys, QuietApprovals
<1>8. SpentMatchesKey'
  <2>1. \A o \in rows : o.intent.approval \in Approvals
    BY IntentType DEF TypeOK, Orders
  <2>2. QED
    BY <2>1 DEF SpentMatchesKey, QuietApprovals, Spendable
<1>9. ClaimsAreExclusive'
  <2> SUFFICES ASSUME NEW w \in Workers, pc'[w] \in Unsent
               PROVE  ClaimedBy(w)'
    BY DEF ClaimsAreExclusive
  <2>1. pc[w] \in Unsent /\ intent'[w] = intent[w]
    BY DEF QuietHandlers
  <2>2. intent[w] \in Intents
    BY <2>1 DEF TypeOK, Unsent
  <2>3. intent[w].key \in Keys /\ intent[w].approval \in Approvals
    BY <2>2, IntentType
  <2>4. QED
    BY <1>3, <2>1, <2>3 DEF ClaimsAreExclusive, ClaimedBy, ClaimedBy, QuietApprovals, QuietHandlers, Spendable
<1>10. QED
  BY <1>1, <1>2, <1>4, <1>5, <1>6, <1>7, <1>8, <1>9

(***************************************************************************)
(* The steps that are not quiet.                                           *)
(***************************************************************************)

\* A key that no order and no other claim uses can be given back.
LEMMA MarkFailedStep ==
  ASSUME IInv, TypeOK', NEW k \in Keys, MarkFailed(k), rows' = rows, RowsOf(k) = {},
         QuietHandlers, \A v \in Workers : pc'[v] \in Unsent => intent[v].key # k,
         OneRequestPerKey', LookupsAreCurrent'
  PROVE  IInv'
<1> USE DEF IInv
<1>1. /\ \A j \in Keys \ {k} : keys'[j] = keys[j]
      /\ keys'[k].intent = keys[k].intent
      /\ keys'[k].status \in {"absent", "FAILED"}
      /\ keys[k].status = "absent" => keys'[k].status = "absent"
  BY DEF MarkFailed, KeyUpdated, TypeOK, KeyRow
<1>2. \A o \in rows : o.intent.key # k
  BY DEF RowsOf
<1>3. ASSUME NEW a \in Approvals
      PROVE  \/ approvals[a].key # k /\ approvals'[a] = approvals[a]
             \/ /\ approvals[a].key = k /\ approvals[a].status = "CONSUMING"
                /\ approvals'[a] = Blank("APPROVED")
  <2>1. approvals[a].key = k => approvals[a].status = "CONSUMING"
    <3>1. k # NoKey
      BY SentinelsAssumption
    <3>2. QED
      BY <1>2, <3>1 DEF OnlyConsumersCarryKeys, LedgersAgree
  <2>2. approvals' \in Released(k)
    BY DEF MarkFailed
  <2>3. CASE /\ approvals' = approvals
             /\ \/ \A b \in Approvals : approvals[b].key # k
                \/ \E b \in Approvals : approvals[b].key = k /\ approvals[b].status # "CONSUMING"
    BY <2>1, <2>3, UniqueHolder
  <2>4. ASSUME NEW b \in Approvals, approvals[b].key = k, approvals[b].status = "CONSUMING",
               approvals' = [approvals EXCEPT ![b] = Blank("APPROVED")]
        PROVE  \/ approvals[a].key # k /\ approvals'[a] = approvals[a]
               \/ /\ approvals[a].key = k /\ approvals[a].status = "CONSUMING"
                  /\ approvals'[a] = Blank("APPROVED")
    BY <2>4, UniqueHolder DEF TypeOK
  <2>5. QED
    BY <2>2, <2>3, <2>4, ReleasedCases
<1>4. OneOrderPerApproval' /\ OneOrderPerKey'
  BY DEF OneOrderPerApproval, OneOrderPerKey
<1>5. \A o \in rows : o.intent.approval \in Approvals /\ o.intent.key \in Keys
  BY IntentType DEF TypeOK, Orders
<1>6. SpentApprovalsStaySpent'
  BY <1>2, <1>3, <1>5 DEF SpentApprovalsStaySpent, SpentMatchesKey
<1>7. LedgersAgree'
  BY <1>1, <1>3 DEF LedgersAgree, Blank
<1>8. OrdersHoldTheirKeys'
  BY <1>1, <1>2, <1>5 DEF OrdersHoldTheirKeys
<1>9. KeyRowsCoherent'
  BY <1>1 DEF KeyRowsCoherent
<1>10. OnlyConsumersCarryKeys'
  BY <1>3 DEF OnlyConsumersCarryKeys, Blank
<1>11. SpentMatchesKey'
  BY <1>3, <1>5 DEF SpentMatchesKey, Blank
<1>12. ClaimsAreExclusive'
  <2> SUFFICES ASSUME NEW w \in Workers, pc'[w] \in Unsent
               PROVE  ClaimedBy(w)'
    BY DEF ClaimsAreExclusive
  <2>1. pc[w] \in Unsent /\ intent'[w] = intent[w] /\ intent[w].key # k
    BY DEF QuietHandlers
  <2>2. intent[w] \in Intents
    BY <2>1 DEF TypeOK, Unsent
  <2>3. intent[w].key \in Keys \ {k} /\ intent[w].approval \in Approvals
    BY <2>1, <2>2, IntentType
  <2>4. approvals'[intent[w].approval] = approvals[intent[w].approval]
    BY <1>3, <2>1, <2>3 DEF ClaimsAreExclusive, ClaimedBy
  <2>5. QED
    BY <1>1, <2>1, <2>3, <2>4 DEF ClaimsAreExclusive, ClaimedBy, QuietHandlers
<1>13. QED
  BY <1>4, <1>6, <1>7, <1>8, <1>9, <1>10, <1>11, <1>12

\* A key is completed with the order that the venue holds under it.
LEMMA FinalizeKeyStep ==
  ASSUME IInv, TypeOK', NEW k \in Keys, NEW id, NEW r \in rows, r.id = id, r.intent.key = k,
         FinalizeKey(k, id), rows' = rows,
         QuietHandlers, OneRequestPerKey', LookupsAreCurrent'
  PROVE  IInv'
<1> USE DEF IInv
<1>1. /\ keys[k].status \in {"RESERVED", "COMPLETED"}
      /\ keys[k].intent = r.intent
  BY DEF OrdersHoldTheirKeys
<1>2. /\ \A j \in Keys \ {k} : keys'[j] = keys[j]
      /\ keys'[k].intent = keys[k].intent
      /\ keys'[k].status = "COMPLETED"
      /\ keys'[k].order = id
  <2>1. keys[k] \in KeyRow
    BY DEF TypeOK
  <2>2. keys' = [keys EXCEPT ![k] = [keys[k] EXCEPT !.status = "COMPLETED", !.order = id,
                                                    !.aged = FALSE]]
    BY <1>1 DEF FinalizeKey, KeyUpdated
  <2>3. QED
    BY <2>1, <2>2 DEF TypeOK, KeyRow
<1>3. \A o \in rows : o.intent.approval \in Approvals /\ o.intent.key \in Keys
  BY IntentType DEF TypeOK, Orders
<1>4. ASSUME NEW a \in Approvals
      PROVE  \/ /\ approvals'[a] = approvals[a]
                /\ approvals[a].status = "CONSUMING" => approvals[a].key # k
             \/ /\ approvals[a].key = k /\ approvals[a].status = "CONSUMING"
                /\ approvals'[a].status = "CONSUMED" /\ approvals'[a].key = k
                /\ approvals'[a].order = id
  <2>1. approvals' \in Consumed(k, id)
    BY DEF FinalizeKey
  <2>2. CASE /\ approvals' = approvals
             /\ \/ \A b \in Approvals : approvals[b].key # k
                \/ \E b \in Approvals : approvals[b].key = k /\ approvals[b].status # "CONSUMING"
    BY <2>2, UniqueHolder
  <2>3. CASE \E b \in Approvals :
               /\ approvals[b].key = k /\ approvals[b].status = "CONSUMING"
               /\ approvals' = [approvals EXCEPT ![b].status = "CONSUMED", ![b].order = id]
    <3>1. PICK b \in Approvals :
            /\ approvals[b].key = k /\ approvals[b].status = "CONSUMING"
            /\ approvals' = [approvals EXCEPT ![b].status = "CONSUMED", ![b].order = id]
      BY <2>3, Zenon
    <3>2. CASE a = b
      BY <3>1, <3>2 DEF TypeOK, ApprovalRow
    <3>3. CASE a # b
      BY <3>1, <3>3, UniqueHolder DEF TypeOK
    <3>4. QED
      BY <3>2, <3>3
  <2>4. \/ /\ approvals' = approvals
           /\ \/ \A b \in Approvals : approvals[b].key # k
              \/ \E b \in Approvals : approvals[b].key = k /\ approvals[b].status # "CONSUMING"
        \/ \E b \in Approvals :
             /\ approvals[b].key = k /\ approvals[b].status = "CONSUMING"
             /\ approvals' = [approvals EXCEPT ![b].status = "CONSUMED", ![b].order = id]
    BY <2>1 DEF Consumed, Holders
  <2>5. QED
    BY <2>2, <2>3, <2>4
<1>5. OneOrderPerApproval' /\ OneOrderPerKey'
  BY DEF OneOrderPerApproval, OneOrderPerKey
<1>6. SpentApprovalsStaySpent'
  BY <1>3, <1>4 DEF SpentApprovalsStaySpent
<1>7. LedgersAgree'
  <2> SUFFICES ASSUME NEW a \in Approvals
               PROVE  LET j == approvals'[a].key IN
                        /\ approvals'[a].status = "CONSUMING" =>
                             /\ j \in Keys
                             /\ keys'[j].status = "RESERVED" /\ keys'[j].intent.approval = a
                        /\ approvals'[a].status = "CONSUMED" =>
                             /\ j \in Keys
                             /\ keys'[j].status = "COMPLETED"
                             /\ keys'[j].order = approvals'[a].order
                             /\ \E o \in rows' : /\ o.id = approvals'[a].order
                                                 /\ o.intent.key = j /\ o.intent.approval = a
    BY DEF LedgersAgree
  <2>1. CASE /\ approvals[a].key = k /\ approvals[a].status = "CONSUMING"
             /\ approvals'[a].status = "CONSUMED" /\ approvals'[a].key = k
             /\ approvals'[a].order = id
    <3>1. r.intent.approval = a
      BY <1>1, <2>1 DEF LedgersAgree
    <3>2. QED
      BY <1>2, <2>1, <3>1
  <2>2. CASE approvals'[a] = approvals[a] /\ approvals[a].key # k
    BY <1>2, <2>2 DEF LedgersAgree
  <2>3. CASE approvals'[a] = approvals[a] /\ approvals[a].key = k
             /\ approvals[a].status # "CONSUMING"
    BY <1>2, <2>3 DEF LedgersAgree, OneOrderPerKey
  <2>4. QED
    BY <1>4, <2>1, <2>2, <2>3
<1>8. OrdersHoldTheirKeys'
  BY <1>2, <1>3 DEF OrdersHoldTheirKeys
<1>9. KeyRowsCoherent'
  BY <1>1, <1>2 DEF KeyRowsCoherent
<1>10. OnlyConsumersCarryKeys'
  BY <1>4 DEF OnlyConsumersCarryKeys
<1>11. SpentMatchesKey'
  BY <1>3, <1>4 DEF SpentMatchesKey
<1>12. ClaimsAreExclusive'
  <2> SUFFICES ASSUME NEW w \in Workers, pc'[w] \in Unsent
               PROVE  ClaimedBy(w)'
    BY DEF ClaimsAreExclusive
  <2>1. pc[w] \in Unsent /\ intent'[w] = intent[w]
    BY DEF QuietHandlers
  <2>2. intent[w] \in Intents
    BY <2>1 DEF TypeOK, Unsent
  <2>3. intent[w].key \in Keys \ {k} /\ intent[w].approval \in Approvals
    BY <2>1, <2>2, IntentType DEF ClaimsAreExclusive, ClaimedBy
  <2>4. approvals'[intent[w].approval] = approvals[intent[w].approval]
    BY <1>4, <2>1, <2>3 DEF ClaimsAreExclusive, ClaimedBy
  <2>5. QED
    BY <1>2, <2>1, <2>3, <2>4 DEF ClaimsAreExclusive, ClaimedBy, QuietHandlers
<1>13. QED
  BY <1>5, <1>6, <1>7, <1>8, <1>9, <1>10, <1>11, <1>12

\* An approved approval and a free key pass from the tables to one handler.
LEMMA ClaimStep ==
  ASSUME IInv, TypeOK', NEW w \in Workers, Claim(w), Claimable(intent[w]),
         OneRequestPerKey', LookupsAreCurrent'
  PROVE  IInv'
<1> USE DEF IInv
<1> DEFINE i == intent[w]
<1>1. /\ keys' = [keys EXCEPT ![i.key] = [status |-> "RESERVED", intent |-> i,
                                         order |-> NoOrder, aged |-> FALSE]]
      /\ approvals' = [approvals EXCEPT ![i.approval] =
                         [status |-> "CONSUMING", key |-> i.key,
                          order |-> NoOrder, lapsed |-> FALSE]]
      /\ Proceed(w, "submit") /\ rows' = rows
  BY DEF Claim, Claimable
<1>2. i \in Intents /\ i.key \in Keys /\ i.approval \in Approvals
  <2>1. i \in Intents
    BY DEF TypeOK, Claim
  <2>2. QED
    BY <2>1, IntentType
<1>3. /\ keys'[i.key].status = "RESERVED" /\ keys'[i.key].intent = i
      /\ \A k \in Keys \ {i.key} : keys'[k] = keys[k]
  BY <1>1, <1>2 DEF TypeOK
<1>4. /\ approvals'[i.approval].status = "CONSUMING" /\ approvals'[i.approval].key = i.key
      /\ \A a \in Approvals \ {i.approval} : approvals'[a] = approvals[a]
  BY <1>1, <1>2 DEF TypeOK
<1>5. \A o \in rows : /\ o.intent.approval \in Approvals /\ o.intent.key \in Keys
                      /\ o.intent.key # i.key /\ o.intent.approval # i.approval
  <2>1. \A o \in rows : o.intent.approval \in Approvals /\ o.intent.key \in Keys
    BY IntentType DEF TypeOK, Orders
  <2>2. QED
    BY <2>1 DEF Claimable, OrdersHoldTheirKeys, SpentApprovalsStaySpent
<1>6. \A a \in Approvals : approvals[a].status \in Spendable => approvals[a].key # i.key
  BY DEF Claimable, LedgersAgree, Spendable
<1>7. OneOrderPerApproval' /\ OneOrderPerKey'
  BY <1>1 DEF OneOrderPerApproval, OneOrderPerKey
<1>8. SpentApprovalsStaySpent'
  BY <1>1, <1>4, <1>5 DEF SpentApprovalsStaySpent
<1>9. LedgersAgree'
  BY <1>1, <1>2, <1>3, <1>4, <1>6 DEF LedgersAgree, Spendable
<1>10. OrdersHoldTheirKeys'
  BY <1>1, <1>3, <1>5 DEF OrdersHoldTheirKeys
<1>11. KeyRowsCoherent'
  BY <1>2, <1>3 DEF KeyRowsCoherent
<1>12. OnlyConsumersCarryKeys'
  BY <1>4 DEF OnlyConsumersCarryKeys
<1>13. SpentMatchesKey'
  BY <1>1, <1>4, <1>5 DEF SpentMatchesKey
<1>14. ClaimsAreExclusive'
  <2>1. ASSUME NEW v \in Workers \ {w}, pc[v] \in Unsent
        PROVE  /\ intent[v].key # i.key /\ intent[v].approval # i.approval
               /\ intent[v].key \in Keys /\ intent[v].approval \in Approvals
    <3>1. intent[v] \in Intents
      BY <2>1 DEF TypeOK, Unsent
    <3>2. QED
      BY <2>1, <3>1, IntentType DEF Claimable, ClaimsAreExclusive, ClaimedBy
  <2>2. /\ intent' = intent
        /\ \A v \in Workers \ {w} : pc'[v] = pc[v]
    BY <1>1 DEF Proceed, GoTo, TypeOK
  <2>3. ClaimedBy(w)'
    BY <1>1, <1>3, <1>4, <1>5, <2>1, <2>2 DEF ClaimedBy, Claimable
  <2>4. ASSUME NEW v \in Workers \ {w}, pc[v] \in Unsent
        PROVE  ClaimedBy(v)'
    BY <1>1, <1>3, <1>4, <2>1, <2>2, <2>4 DEF ClaimsAreExclusive, ClaimedBy
  <2>5. QED
    BY <2>2, <2>3, <2>4 DEF ClaimsAreExclusive
<1>15. QED
  BY <1>7, <1>8, <1>9, <1>10, <1>11, <1>12, <1>13, <1>14

\* The claimed order becomes visible.
LEMMA SaveOrderStep ==
  ASSUME IInv, TypeOK', Discipline, NEW w \in Workers, SaveOrder(w), OneRequestPerKey'
  PROVE  IInv'
<1> USE DEF IInv
<1> DEFINE i == intent[w]
           r == [id |-> order[w], intent |-> i]
<1>1. pc[w] = "save" /\ rows' = rows \cup {r} /\ approvals' = approvals /\ keys' = keys
  BY DEF SaveOrder
<1>2. /\ intent' = intent /\ order' = order /\ pc'[w] = "finalize"
      /\ \A v \in Workers \ {w} : pc'[v] = pc[v]
  BY DEF SaveOrder, Proceed, GoTo, TypeOK
<1>3. i \in Intents /\ i.key \in Keys /\ i.approval \in Approvals
  <2>1. i \in Intents
    BY <1>1 DEF TypeOK
  <2>2. QED
    BY <2>1, IntentType
<1>4. ClaimedBy(w) /\ r.intent = i /\ r.id = order[w]
  BY <1>1 DEF ClaimsAreExclusive, Unsent
<1>5. OneOrderPerApproval' /\ OneOrderPerKey'
  BY <1>1, <1>4 DEF OneOrderPerApproval, OneOrderPerKey, ClaimedBy
<1>6. SpentApprovalsStaySpent'
  BY <1>1, <1>4 DEF SpentApprovalsStaySpent, ClaimedBy
<1>7. LedgersAgree'
  BY <1>1 DEF LedgersAgree
<1>8. OrdersHoldTheirKeys'
  BY <1>1, <1>4 DEF OrdersHoldTheirKeys, ClaimedBy
<1>9. KeyRowsCoherent' /\ OnlyConsumersCarryKeys'
  BY <1>1 DEF KeyRowsCoherent, OnlyConsumersCarryKeys
<1>10. SpentMatchesKey'
  <2>1. approvals[i.approval].status = "CONSUMED" => FALSE
    BY <1>4 DEF ClaimedBy
  <2>2. QED
    BY <1>1, <1>4, <2>1 DEF SpentMatchesKey, ClaimedBy
<1>11. ClaimsAreExclusive'
  <2> SUFFICES ASSUME NEW v \in Workers, pc'[v] \in Unsent
               PROVE  ClaimedBy(v)'
    BY DEF ClaimsAreExclusive
  <2>1. v # w /\ pc[v] \in Unsent
    BY <1>2 DEF Unsent
  <2>2. ClaimedBy(v) /\ intent[v].key # i.key /\ intent[v].approval # i.approval
    BY <1>1, <1>4, <2>1 DEF ClaimsAreExclusive, ClaimedBy, Unsent
  <2>3. \A u \in Workers : pc'[u] \in Unsent => pc[u] \in Unsent
    BY <1>2 DEF Unsent
  <2>4. QED
    BY <1>1, <1>2, <1>4, <2>2, <2>3 DEF ClaimedBy
<1>12. LookupsAreCurrent'
  <2>1. ASSUME NEW v \in Workers, pc'[v] = "free"
        PROVE  StrongLookup /\ (RowsOf(KeyOf(v)) = {})'
    <3>1. v # w /\ pc[v] = "free"
      BY <1>2, <2>1
    <3>2. StrongLookup /\ RowsOf(KeyOf(v)) = {}
      BY <3>1 DEF LookupsAreCurrent
    <3>3. intent[v] # NoIntent /\ intent[w] # NoIntent
      BY <1>3, <3>1, SentinelsAssumption DEF TypeOK
    <3>4. intent[v].key # i.key
      BY <3>1, <3>2, <3>3 DEF Discipline, OneRequestPerKey
    <3>5. QED
      BY <1>1, <1>2, <1>4, <3>2, <3>4 DEF RowsOf, KeyOf
  <2>2. ASSUME NEW v \in Workers, pc'[v] = "recover"
        PROVE  \E o \in rows' : o.id = order'[v] /\ o.intent.key = KeyOf(v)'
    BY <1>1, <1>2, <2>2 DEF LookupsAreCurrent, KeyOf
  <2>3. ASSUME NEW v \in Workers, pc'[v] = "finalize"
        PROVE  \E o \in rows' : o.id = order'[v] /\ o.intent = intent'[v]
    BY <1>1, <1>2, <1>4, <2>3 DEF LookupsAreCurrent
  <2>4. QED
    BY <2>1, <2>2, <2>3 DEF LookupsAreCurrent
<1>13. QED
  BY <1>5, <1>6, <1>7, <1>8, <1>9, <1>10, <1>11, <1>12

(***************************************************************************)
(* Every step keeps the invariant.                                         *)
(***************************************************************************)

LEMMA InitInv == Init => IInv
<1> SUFFICES ASSUME Init
             PROVE  IInv
  OBVIOUS
<1>1. TypeOK
  BY InitType
<1>2. /\ OneOrderPerApproval /\ OneOrderPerKey /\ SpentApprovalsStaySpent
      /\ OrdersHoldTheirKeys /\ SpentMatchesKey
  BY DEF Init, OneOrderPerApproval, OneOrderPerKey, SpentApprovalsStaySpent,
         OrdersHoldTheirKeys, SpentMatchesKey
<1>3. LedgersAgree /\ OnlyConsumersCarryKeys
  BY DEF Init, LedgersAgree, OnlyConsumersCarryKeys, Blank
<1>4. KeyRowsCoherent
  BY DEF Init, KeyRowsCoherent, NoKeyRow
<1>5. OneRequestPerKey /\ ClaimsAreExclusive /\ LookupsAreCurrent
  BY DEF Init, OneRequestPerKey, ClaimsAreExclusive, LookupsAreCurrent, Unsent
<1>6. QED
  BY <1>1, <1>2, <1>3, <1>4, <1>5 DEF IInv

\* A handler that returns keeps out of everybody's way.
LEMMA DoneQuiet ==
  ASSUME IInv, NEW w \in Workers, Done(w)
  PROVE  QuietHandlers /\ QuietLookups /\ QuietRequests
BY DEF IInv, TypeOK, Done, QuietHandlers, QuietLookups, QuietRequests, Unsent, Acting

\* So does one that moves on to a stage without a claim.
LEMMA ProceedQuiet ==
  ASSUME IInv, NEW w \in Workers, NEW s, s \notin Unsent, s \notin Acting, Proceed(w, s)
  PROVE  QuietHandlers /\ QuietLookups /\ QuietRequests
BY DEF IInv, TypeOK, Proceed, GoTo, QuietHandlers, QuietLookups, QuietRequests, Unsent, Acting

\* One row of the ledger gives way to its expired copy.
LEMMA ExpiredQuiet ==
  ASSUME IInv, NEW a, approvals' = [approvals EXCEPT ![a] = ExpiredRow]
  PROVE  QuietApprovals
BY DEF IInv, TypeOK, QuietApprovals, ExpiredRow, Spendable

LEMMA SameTablesQuiet ==
  ASSUME IInv, approvals' = approvals, keys' = keys
  PROVE  QuietApprovals /\ QuietKeys
BY DEF QuietApprovals, QuietKeys

LEMMA SameHandlersQuiet ==
  ASSUME IInv, pc' = pc, intent' = intent, order' = order
  PROVE  QuietHandlers /\ QuietLookups /\ QuietRequests
BY DEF QuietHandlers, QuietLookups, QuietRequests

\* A step that is quiet in every respect.
LEMMA AllQuiet ==
  ASSUME IInv, TypeOK', rows' = rows, QuietApprovals, QuietKeys, QuietHandlers,
         QuietLookups, QuietRequests
  PROVE  IInv'
BY QuietStep, LookupsKept, RequestsKept

LEMMA HandleInv ==
  ASSUME IInv, TypeOK', Discipline, NEW w \in Workers, Handle(w)
  PROVE  IInv'
<1> USE DEF tables, venue
<1>0. pc[w] \notin {"idle", "expire"} =>
        intent[w] \in Intents /\ KeyOf(w) \in Keys /\ intent[w].approval \in Approvals
  <2>1. pc[w] \notin {"idle", "expire"} => intent[w] \in Intents
    BY DEF IInv, TypeOK
  <2>2. QED
    BY <2>1, IntentType DEF KeyOf
<1>1. CASE ReadRecord(w)
  BY <1>1, AllQuiet, SameTablesQuiet, DoneQuiet, ProceedQuiet DEF ReadRecord, Unsent, Acting
<1>2. CASE Lookup(w)
  <2>1. rows' = rows /\ QuietApprovals /\ QuietKeys
    BY <1>2, SameTablesQuiet DEF Lookup
  <2>2. CASE Done(w)
    BY <2>1, <2>2, AllQuiet, DoneQuiet
  <2>3. CASE \E o \in RowsOf(KeyOf(w)) :
               /\ order' = [order EXCEPT ![w] = o.id]
               /\ GoTo(w, "recover")
               /\ UNCHANGED <<intent, reading>>
    <3>1. QuietHandlers /\ QuietRequests
      BY <2>3 DEF QuietHandlers, QuietRequests, GoTo, Unsent, IInv, TypeOK
    <3>2. LookupsAreCurrent'
      BY <2>1, <2>3 DEF IInv, LookupsAreCurrent, TypeOK, GoTo, KeyOf, RowsOf
    <3>3. QED
      BY <2>1, <3>1, <3>2, QuietStep, RequestsKept
  <2>4. CASE RowsOf(KeyOf(w)) = {} /\ StrongLookup /\ Proceed(w, "free")
    <3>1. QuietHandlers /\ QuietRequests
      BY <2>4 DEF QuietHandlers, QuietRequests, Proceed, GoTo, Unsent, IInv, TypeOK
    <3>2. LookupsAreCurrent'
      BY <2>1, <2>4 DEF IInv, LookupsAreCurrent, TypeOK, Proceed, GoTo, KeyOf, RowsOf
    <3>3. QED
      BY <2>1, <3>1, <3>2, QuietStep, RequestsKept
  <2>5. QED
    BY <1>2, <2>2, <2>3, <2>4 DEF Lookup
<1>3. CASE Recover(w)
  <2>1. PICK r \in rows : r.id = order[w] /\ r.intent.key = KeyOf(w)
    BY <1>3 DEF Recover, IInv, LookupsAreCurrent
  <2>2. QuietHandlers /\ QuietLookups /\ QuietRequests
    BY <1>3, DoneQuiet DEF Recover
  <2>3. OneRequestPerKey' /\ LookupsAreCurrent' /\ rows' = rows
    BY <1>3, <2>2, LookupsKept, RequestsKept DEF Recover
  <2>4. FinalizeKey(KeyOf(w), order[w]) /\ KeyOf(w) \in Keys
    BY <1>0, <1>3 DEF Recover
  <2>5. QED
    BY <2>1, <2>2, <2>3, <2>4, FinalizeKeyStep
<1>4. CASE FreeKey(w)
  <2>1. KeyOf(w) \in Keys /\ MarkFailed(KeyOf(w)) /\ rows' = rows /\ RowsOf(KeyOf(w)) = {}
    BY <1>0, <1>4 DEF FreeKey, IInv, LookupsAreCurrent
  <2>2. QuietHandlers /\ QuietLookups /\ QuietRequests
    BY <1>4, ProceedQuiet DEF FreeKey, Unsent, Acting
  <2>3. ASSUME NEW v \in Workers, pc'[v] \in Unsent
        PROVE  intent[v].key # KeyOf(w)
    <3>1. v # w /\ pc[v] \in Unsent
      BY <1>4, <2>2, <2>3 DEF FreeKey, QuietHandlers, Unsent
    <3>2. SerialKeys
      BY <1>4 DEF FreeKey, IInv, LookupsAreCurrent, Discipline
    <3>3. intent[v] # NoIntent /\ intent[w] # NoIntent
      BY <1>4, <3>1, SentinelsAssumption DEF FreeKey, IInv, TypeOK, Unsent
    <3>4. QED
      BY <3>1, <3>2, <3>3 DEF IInv, OneRequestPerKey, KeyOf
  <2>4. OneRequestPerKey' /\ LookupsAreCurrent'
    BY <2>1, <2>2, LookupsKept, RequestsKept
  <2>5. QED
    BY <2>1, <2>2, <2>3, <2>4, MarkFailedStep
<1>5. CASE Gate(w)
  BY <1>5, AllQuiet, SameTablesQuiet, DoneQuiet, ProceedQuiet DEF Gate, Unsent, Acting
<1>6. CASE Precheck(w)
  <2>1. CASE GoTo(w, "expire") /\ UNCHANGED <<intent, order>>
    <3>1. QuietHandlers /\ QuietLookups /\ QuietRequests
      BY <2>1 DEF QuietHandlers, QuietLookups, QuietRequests, GoTo, Unsent, Acting, IInv, TypeOK
    <3>2. QED
      BY <1>6, <3>1, AllQuiet, SameTablesQuiet DEF Precheck
  <2>2. CASE Done(w) \/ Proceed(w, "health")
    BY <1>6, <2>2, AllQuiet, SameTablesQuiet, DoneQuiet, ProceedQuiet DEF Precheck, Unsent, Acting
  <2>3. QED
    BY <1>6, <2>1, <2>2 DEF Precheck
<1>7. CASE SaveExpired(w)
  <2>1. QuietApprovals
    BY <1>7, ExpiredQuiet DEF SaveExpired
  <2>2. QuietKeys /\ rows' = rows
    BY <1>7 DEF SaveExpired, QuietKeys
  <2>3. QED
    BY <1>7, <2>1, <2>2, AllQuiet, DoneQuiet DEF SaveExpired
<1>8. CASE Health(w)
  BY <1>8, AllQuiet, SameTablesQuiet, DoneQuiet, ProceedQuiet DEF Health, Unsent, Acting
<1>9. CASE Claim(w)
  <2>1. CASE Claimable(intent[w])
    <3>1. Proceed(w, "submit") /\ rows' = rows
      BY <1>9, <2>1 DEF Claim, Claimable
    <3>2. QuietLookups /\ QuietRequests
      BY <3>1 DEF QuietLookups, QuietRequests, Proceed, GoTo, Acting, IInv, TypeOK
    <3>3. QED
      BY <1>9, <2>1, <3>1, <3>2, ClaimStep, LookupsKept, RequestsKept
  <2>2. CASE ~Claimable(intent[w])
    <3>1. Done(w) /\ rows' = rows /\ QuietKeys
      BY <1>9, <2>2 DEF Claim, QuietKeys
    <3>2. QuietApprovals
      BY <1>9, <2>2, ExpiredQuiet DEF Claim, QuietApprovals
    <3>3. QED
      BY <3>1, <3>2, AllQuiet, DoneQuiet
  <2>3. QED
    BY <2>1, <2>2
<1>10. CASE Submit(w)
  <2>1. rows' = rows /\ QuietApprovals /\ QuietKeys
    BY <1>10, SameTablesQuiet DEF Submit
  <2>2. CASE Done(w)
    BY <2>1, <2>2, AllQuiet, DoneQuiet
  <2>3. CASE pc' = [pc EXCEPT ![w] = "reject"] /\ UNCHANGED <<intent, order>>
    <3>1. QuietHandlers /\ QuietLookups /\ QuietRequests
      BY <1>10, <2>3 DEF Submit, QuietHandlers, QuietLookups, QuietRequests, Unsent, Acting,
                         IInv, TypeOK
    <3>2. QED
      BY <2>1, <3>1, AllQuiet
  <2>4. CASE /\ pc' = [pc EXCEPT ![w] = "save"] /\ intent' = intent
             /\ \E id \in OrderIds : order' = [order EXCEPT ![w] = id]
    <3>1. QuietHandlers /\ QuietLookups /\ QuietRequests
      BY <1>10, <2>4 DEF Submit, QuietHandlers, QuietLookups, QuietRequests, Unsent, Acting,
                         IInv, TypeOK
    <3>2. QED
      BY <2>1, <3>1, AllQuiet
  <2>5. QED
    BY <1>10, <2>2, <2>3, <2>4 DEF Submit, Proceed, GoTo
<1>11. CASE SaveOrder(w)
  <2>1. QuietRequests
    BY <1>11 DEF SaveOrder, Proceed, QuietRequests
  <2>2. QED
    BY <1>11, <2>1, SaveOrderStep, RequestsKept
<1>12. CASE Finalize(w)
  <2>1. PICK r \in rows : r.id = order[w] /\ r.intent.key = KeyOf(w)
    BY <1>12 DEF Finalize, IInv, LookupsAreCurrent, KeyOf
  <2>2. QuietHandlers /\ QuietLookups /\ QuietRequests
    BY <1>12, ProceedQuiet DEF Finalize, Unsent, Acting
  <2>3. OneRequestPerKey' /\ LookupsAreCurrent' /\ rows' = rows
    BY <1>12, <2>2, LookupsKept, RequestsKept DEF Finalize
  <2>4. FinalizeKey(KeyOf(w), order[w]) /\ KeyOf(w) \in Keys
    BY <1>0, <1>12 DEF Finalize
  <2>5. QED
    BY <2>1, <2>2, <2>3, <2>4, FinalizeKeyStep
<1>13. CASE Prune(w)
  <2>1. QuietKeys
    BY <1>13 DEF Prune, QuietKeys, NoKeyRow
  <2>2. QuietApprovals
    BY <1>13 DEF Prune, QuietApprovals, Blank, Spendable
  <2>3. QED
    BY <1>13, <2>1, <2>2, AllQuiet, DoneQuiet DEF Prune
<1>14. CASE Release(w)
  <2>1. ClaimedBy(w)
    BY <1>14 DEF Release, IInv, ClaimsAreExclusive, Unsent
  <2>2. KeyOf(w) \in Keys /\ MarkFailed(KeyOf(w)) /\ rows' = rows /\ RowsOf(KeyOf(w)) = {}
    BY <1>0, <1>14, <2>1 DEF Release, ClaimedBy, RowsOf, KeyOf
  <2>3. QuietHandlers /\ QuietLookups /\ QuietRequests
    BY <1>14, DoneQuiet DEF Release
  <2>4. ASSUME NEW v \in Workers, pc'[v] \in Unsent
        PROVE  intent[v].key # KeyOf(w)
    <3>1. v # w /\ pc[v] \in Unsent
      BY <1>14, <2>3, <2>4 DEF Release, Done, QuietHandlers, Unsent, IInv, TypeOK
    <3>2. QED
      BY <2>1, <3>1 DEF ClaimedBy, KeyOf
  <2>5. OneRequestPerKey' /\ LookupsAreCurrent'
    BY <2>2, <2>3, LookupsKept, RequestsKept
  <2>6. QED
    BY <2>2, <2>3, <2>4, <2>5, MarkFailedStep
<1>15. QED
  BY <1>1, <1>2, <1>3, <1>4, <1>5, <1>6, <1>7, <1>8, <1>9, <1>10, <1>11, <1>12,
     <1>13, <1>14 DEF Handle

LEMMA NextInv ==
  ASSUME IInv, Discipline, [Next]_vars
  PROVE  IInv'
<1> USE DEF tables, venue, locals
<1>0. TypeOK'
  BY NextType DEF IInv
<1>1. ASSUME NEW a \in Approvals, CreateApproval(a) \/ LapseApproval(a)
      PROVE  IInv'
  <2>1. QuietApprovals
    BY <1>1 DEF CreateApproval, LapseApproval, QuietApprovals, Blank, Spendable, Undecided,
                IInv, TypeOK, ApprovalRow, OnlyConsumersCarryKeys
  <2>2. keys' = keys /\ rows' = rows /\ pc' = pc /\ intent' = intent /\ order' = order
    BY <1>1 DEF CreateApproval, LapseApproval
  <2>3. QuietKeys
    BY <2>2 DEF QuietKeys
  <2>4. QED
    BY <1>0, <2>1, <2>2, <2>3, AllQuiet, SameHandlersQuiet
<1>2. ASSUME NEW a \in Approvals, NEW d \in {"APPROVED", "REJECTED"}, Decide(a, d)
      PROVE  IInv'
  <2>1. QuietApprovals /\ QuietKeys
    BY <1>2 DEF Decide, QuietApprovals, QuietKeys, Blank, Spendable, IInv, TypeOK
  <2>2. QED
    BY <1>0, <1>2, <2>1, AllQuiet, SameHandlersQuiet DEF Decide
<1>3. ASSUME NEW w \in Workers, NEW a \in Approvals, ReadApproval(w, a)
      PROVE  IInv'
  <2>1. QuietHandlers /\ QuietLookups /\ QuietRequests
    BY <1>3 DEF ReadApproval, GoTo, QuietHandlers, QuietLookups, QuietRequests, Unsent, Acting,
                IInv, TypeOK
  <2>2. QED
    BY <1>0, <1>3, <2>1, AllQuiet, SameTablesQuiet DEF ReadApproval
<1>4. ASSUME NEW w \in Workers, NEW i \in Intents, Receive(w, i)
      PROVE  IInv'
  <2>1. PICK s \in {"gate", "record"} : pc' = [pc EXCEPT ![w] = s]
    BY <1>4 DEF Receive, GoTo
  <2>2. intent' = [intent EXCEPT ![w] = i] /\ order' = order /\ rows' = rows
    BY <1>4 DEF Receive
  <2>3. pc[w] = "idle"
    BY <1>4 DEF Receive
  <2>4. QuietHandlers /\ QuietLookups
    BY <2>1, <2>2, <2>3 DEF QuietHandlers, QuietLookups, Unsent, Acting, IInv, TypeOK
  <2>5. OneRequestPerKey'
    <3>1. SerialKeys => \A v \in Workers : intent[v] # NoIntent => intent[v].key # i.key
      BY <1>4 DEF Receive, InFlight, KeyOf
    <3>2. QED
      BY <2>2, <3>1 DEF IInv, OneRequestPerKey, TypeOK
  <2>6. QuietApprovals /\ QuietKeys
    BY <1>4, SameTablesQuiet DEF Receive
  <2>7. QED
    BY <1>0, <2>2, <2>4, <2>5, <2>6, QuietStep, LookupsKept
<1>5. ASSUME NEW w \in Workers, Handle(w)
      PROVE  IInv'
  BY <1>0, <1>5, HandleInv
<1>6. ASSUME NEW w \in Workers, StorageError(w)
      PROVE  IInv'
  BY <1>0, <1>6, AllQuiet, SameTablesQuiet, DoneQuiet DEF StorageError
<1>7. ASSUME NEW k \in Keys, AgeKey(k)
      PROVE  IInv'
  <2>1. QuietKeys /\ QuietApprovals
    BY <1>7 DEF AgeKey, QuietKeys, QuietApprovals, IInv, TypeOK, KeyRow
  <2>2. QED
    BY <1>0, <1>7, <2>1, AllQuiet, SameHandlersQuiet DEF AgeKey
<1>8. ASSUME NEW i \in Perishable, LapseIntent(i)
      PROVE  IInv'
  BY <1>0, <1>8, AllQuiet, SameTablesQuiet, SameHandlersQuiet DEF LapseIntent
<1>9. ASSUME NEW p \in Procs, Crash(p)
      PROVE  IInv'
  <2>1. QuietHandlers /\ QuietLookups /\ QuietRequests
    BY <1>9 DEF Crash, QuietHandlers, QuietLookups, QuietRequests, Unsent, Acting
  <2>2. QED
    BY <1>0, <1>9, <2>1, AllQuiet, SameTablesQuiet DEF Crash
<1>10. ASSUME NEW p \in Procs, EmergencyStop(p) \/ ResumeTrading(p)
       PROVE  IInv'
  BY <1>0, <1>10, AllQuiet, SameTablesQuiet, SameHandlersQuiet DEF EmergencyStop, ResumeTrading
<1>11. CASE UNCHANGED vars
  BY <1>0, <1>11, AllQuiet, SameTablesQuiet, SameHandlersQuiet DEF vars
<1>12. QED
  BY <1>1, <1>2, <1>3, <1>4, <1>5, <1>6, <1>7, <1>8, <1>9, <1>10, <1>11 DEF Next

(***************************************************************************)
(* The theorems.                                                           *)
(***************************************************************************)

\* The inductive invariant holds in every reachable state when clients send
\* the requests of a key one after the other, or no miss is trusted.
THEOREM Invariance ==
  ASSUME Discipline
  PROVE  Spec => []IInv
<1>1. Init => IInv
  BY InitInv
<1>2. IInv /\ [Next]_vars => IInv'
  BY NextInv
<1>3. QED
  BY <1>1, <1>2, PTL DEF Spec

\* One approval, one order: neither a retry under a fresh key, nor a crash
\* between the fill and the finalization, nor the release of a failed key lets
\* an approval pay twice.
THEOREM ApprovalsPayOnce ==
  ASSUME Discipline
  PROVE  Spec => []OneOrderPerApproval
<1>1. IInv => OneOrderPerApproval
  BY DEF IInv
<1>2. QED
  BY <1>1, Invariance, PTL

\* One key, one order: the retry of a request whose answer was lost never sends
\* a second order.
THEOREM KeysOrderOnce ==
  ASSUME Discipline
  PROVE  Spec => []OneOrderPerKey
<1>1. IInv => OneOrderPerKey
  BY DEF IInv
<1>2. QED
  BY <1>1, Invariance, PTL

\* The journal and the approval ledger never contradict each other, whichever
\* handler died between which two transactions.
THEOREM LedgersAlwaysAgree ==
  ASSUME Discipline
  PROVE  Spec => []LedgersAgree
<1>1. IInv => LedgersAgree
  BY DEF IInv
<1>2. QED
  BY <1>1, Invariance, PTL

\* An approval whose order exists is never usable again.
THEOREM ApprovalsStaySpent ==
  ASSUME Discipline
  PROVE  Spec => []SpentApprovalsStaySpent
<1>1. IInv => SpentApprovalsStaySpent
  BY DEF IInv
<1>2. QED
  BY <1>1, Invariance, PTL

(***************************************************************************)
(* No order without a person's yes, with or without the discipline.        *)
(***************************************************************************)

Sending == {"submit", "save"}
Permitting == {"APPROVED", "CONSUMING", "CONSUMED"}

\* A handler comes to send by its claim only.
LEMMA SenderChanges ==
  ASSUME TypeOK, [Next]_vars, NEW v \in Workers, pc'[v] \in Sending
  PROVE  /\ intent'[v] = intent[v]
         /\ pc[v] \in Sending \/ (pc[v] = "claim" /\ Claimable(intent[v]))
<1> USE DEF TypeOK, Sending, locals
<1>1. ASSUME NEW w \in Workers, Done(w)
      PROVE  pc'[v] = pc[v] /\ intent'[v] = intent[v]
  BY <1>1 DEF Done
<1>2. ASSUME NEW w \in Workers, NEW s \in Stages \ Sending,
             GoTo(w, s), UNCHANGED intent
      PROVE  pc'[v] = pc[v] /\ intent'[v] = intent[v]
  BY <1>2 DEF GoTo
<1>3. ASSUME NEW w \in Workers, Submit(w)
      PROVE  pc[v] \in Sending /\ intent'[v] = intent[v]
  BY <1>3 DEF Submit, Done, Proceed, GoTo
<1>4. ASSUME NEW w \in Workers, Claim(w)
      PROVE  /\ intent'[v] = intent[v]
             /\ pc[v] \in Sending \/ (pc[v] = "claim" /\ Claimable(intent[v]))
  <2>1. CASE Done(w)
    BY <1>1, <2>1
  <2>2. CASE Claimable(intent[w]) /\ Proceed(w, "submit") /\ pc[w] = "claim"
    BY <2>2 DEF Proceed, GoTo
  <2>3. QED
    BY <1>4, <2>1, <2>2 DEF Claim
<1>5. ASSUME NEW w \in Workers,
             \/ ReadRecord(w) \/ Lookup(w) \/ Recover(w) \/ FreeKey(w) \/ Gate(w)
             \/ Precheck(w) \/ SaveExpired(w) \/ Health(w) \/ SaveOrder(w) \/ Finalize(w)
             \/ Prune(w) \/ Release(w) \/ StorageError(w)
      PROVE  pc'[v] = pc[v] /\ intent'[v] = intent[v]
  <2>1. Done(w) \/ \E s \in Stages \ Sending : GoTo(w, s) /\ UNCHANGED intent
    BY <1>5 DEF ReadRecord, Lookup, Recover, FreeKey, Gate, Precheck, SaveExpired, Health,
                SaveOrder, Finalize, Prune, Release, StorageError, Proceed, Stages
  <2>2. QED
    BY <1>1, <1>2, <2>1
<1>6. ASSUME NEW w \in Workers, NEW a \in Approvals, ReadApproval(w, a)
      PROVE  pc'[v] = pc[v] /\ intent'[v] = intent[v]
  BY <1>6 DEF ReadApproval, GoTo
<1>7. ASSUME NEW w \in Workers, NEW i \in Intents, Receive(w, i)
      PROVE  pc'[v] = pc[v] /\ intent'[v] = intent[v]
  BY <1>7 DEF Receive, GoTo
<1>8. ASSUME NEW p \in Procs, Crash(p)
      PROVE  pc'[v] = pc[v] /\ intent'[v] = intent[v]
  BY <1>8 DEF Crash
<1>9. ASSUME \/ \E a \in Approvals : CreateApproval(a) \/ LapseApproval(a)
             \/ \E a \in Approvals, d \in {"APPROVED", "REJECTED"} : Decide(a, d)
             \/ \E k \in Keys : AgeKey(k)
             \/ \E i \in Perishable : LapseIntent(i)
             \/ \E p \in Procs : EmergencyStop(p) \/ ResumeTrading(p)
             \/ UNCHANGED vars
      PROVE  UNCHANGED <<pc, intent>>
  BY <1>9 DEF CreateApproval, LapseApproval, Decide, AgeKey, LapseIntent, EmergencyStop,
              ResumeTrading, vars
<1>10. QED
  BY <1>3, <1>4, <1>5, <1>6, <1>7, <1>8, <1>9 DEF Next, Handle

\* So does an approval come to be sent.
LEMMA SubmittingChanges ==
  ASSUME TypeOK, [Next]_vars, NEW a \in Approvals, Submitting(a)'
  PROVE  Submitting(a) \/ approvals[a].status = "APPROVED"
BY SenderChanges DEF Submitting, Claimable, Sending

\* Only SaveOrder places an order.
LEMMA RowsChange ==
  ASSUME [Next]_vars
  PROVE  rows' = rows \/ \E w \in Workers : SaveOrder(w)
BY DEF Next, Handle, vars, tables, CreateApproval, LapseApproval, Decide, ReadApproval, Receive,
       ReadRecord, Lookup, Recover, FreeKey, Gate, Precheck, SaveExpired, Health, Claim, Submit,
       Finalize, Prune, Release, StorageError, AgeKey, LapseIntent, Crash, EmergencyStop,
       ResumeTrading

\* An approval that can pay was one before, or a person has just said yes.
LEMMA PermissionsChange ==
  ASSUME TypeOK, [Next]_vars, NEW a \in Approvals, approvals'[a].status \in Permitting
  PROVE  approvals[a].status \in Permitting \/ Decide(a, "APPROVED")
<1> USE DEF Permitting
<1>0. approvals \in [Approvals -> ApprovalRow]
  BY DEF TypeOK
<1>1. ASSUME NEW b \in Approvals, CreateApproval(b) \/ LapseApproval(b)
      PROVE  approvals[a].status \in Permitting
  <2>1. CASE CreateApproval(b)
    BY <1>0, <2>1 DEF CreateApproval, Blank
  <2>2. CASE LapseApproval(b)
    BY <1>0, <2>2 DEF LapseApproval, ApprovalRow
  <2>3. QED
    BY <1>1, <2>1, <2>2
<1>2. ASSUME NEW b \in Approvals, NEW d \in {"APPROVED", "REJECTED"}, Decide(b, d)
      PROVE  approvals[a].status \in Permitting \/ Decide(a, "APPROVED")
  <2>1. CASE a = b /\ d = "APPROVED"
    BY <1>2, <2>1
  <2>2. CASE ~(a = b /\ d = "APPROVED")
    BY <1>0, <1>2, <2>2 DEF Decide, Blank
  <2>3. QED
    BY <2>1, <2>2
<1>3. ASSUME NEW w \in Workers, SaveExpired(w)
      PROVE  approvals[a].status \in Permitting
  BY <1>0, <1>3 DEF SaveExpired, ExpiredRow
<1>4. ASSUME NEW k, NEW o, approvals' \in Consumed(k, o)
      PROVE  approvals[a].status \in Permitting
  BY <1>0, <1>4, ConsumedCases
<1>5. ASSUME NEW k, approvals' \in Released(k)
      PROVE  approvals[a].status \in Permitting
  BY <1>0, <1>5, ReleasedCases
<1>6. ASSUME NEW w \in Workers, Recover(w) \/ Finalize(w)
      PROVE  approvals[a].status \in Permitting
  BY <1>4, <1>6 DEF Recover, Finalize, FinalizeKey
<1>7. ASSUME NEW w \in Workers, FreeKey(w) \/ Release(w)
      PROVE  approvals[a].status \in Permitting
  BY <1>5, <1>7 DEF FreeKey, Release, MarkFailed
<1>8. ASSUME NEW w \in Workers, Claim(w)
      PROVE  approvals[a].status \in Permitting
  <2>1. PICK i : i = intent[w]
    OBVIOUS
  <2>2. \/ approvals[i.approval].status = "APPROVED" /\ \A b \in Approvals \ {i.approval} : approvals'[b] = approvals[b]
        \/ approvals' = approvals
    BY <1>0, <1>8, <2>1 DEF Claim, Claimable
  <2>3. QED
    BY <2>2
<1>9. ASSUME NEW w \in Workers, Prune(w)
      PROVE  approvals[a].status \in Permitting
  BY <1>0, <1>9 DEF Prune, Blank
<1>10. ASSUME UNCHANGED approvals
       PROVE  approvals[a].status \in Permitting
  BY <1>10
<1>11. ASSUME NEW w \in Workers,
              \/ ReadRecord(w) \/ Lookup(w) \/ Gate(w) \/ Precheck(w) \/ Health(w)
              \/ Submit(w) \/ SaveOrder(w) \/ StorageError(w)
       PROVE  UNCHANGED approvals
  BY <1>11 DEF ReadRecord, Lookup, Gate, Precheck, Health, Submit, SaveOrder, StorageError, tables
<1>12. ASSUME \/ \E w \in Workers, b \in Approvals : ReadApproval(w, b)
              \/ \E w \in Workers, i \in Intents : Receive(w, i)
              \/ \E k \in Keys : AgeKey(k)
              \/ \E i \in Perishable : LapseIntent(i)
              \/ \E p \in Procs : Crash(p) \/ EmergencyStop(p) \/ ResumeTrading(p)
              \/ UNCHANGED vars
       PROVE  UNCHANGED approvals
  BY <1>12 DEF ReadApproval, Receive, AgeKey, LapseIntent, Crash, EmergencyStop, ResumeTrading,
               tables, vars
<1>13. QED
  <2> HIDE DEF Permitting
  <2> QED
    BY <1>1, <1>2, <1>3, <1>6, <1>7, <1>8, <1>9, <1>10, <1>11, <1>12 DEF Next, Handle

\* A yes is never taken back from the history.
LEMMA GrantsGrow ==
  ASSUME [Next]_vars
  PROVE  granted \subseteq granted'
<1>1. CASE \E a \in Approvals, d \in {"APPROVED", "REJECTED"} : Decide(a, d)
  BY <1>1 DEF Decide
<1>2. CASE granted' = granted
  BY <1>2
<1>3. QED
  BY <1>1, <1>2 DEF Next, Handle, vars, CreateApproval, LapseApproval, ReadApproval, Receive,
       ReadRecord, Lookup, Recover, FreeKey, Gate, Precheck, SaveExpired, Health, Claim, Submit,
       SaveOrder, Finalize, Prune, Release, StorageError, AgeKey, LapseIntent, Crash,
       EmergencyStop, ResumeTrading

LEMMA PermissionsKept ==
  ASSUME TypeOK, PermissionsWereGranted, [Next]_vars
  PROVE  PermissionsWereGranted'
<1> SUFFICES ASSUME NEW a \in Approvals,
                    approvals'[a].status \in Permitting \/ Submitting(a)' \/ PaidBy(a)' # {}
             PROVE  a \in granted'
  BY DEF PermissionsWereGranted, Permitting
<1>1. CASE approvals[a].status \in Permitting \/ Submitting(a) \/ PaidBy(a) # {}
  BY <1>1, GrantsGrow DEF PermissionsWereGranted, Permitting
<1>2. CASE Decide(a, "APPROVED")
  BY <1>2 DEF Decide
<1>3. PaidBy(a)' # {} => PaidBy(a) # {} \/ Submitting(a)
  <2>1. CASE rows' = rows
    BY <2>1 DEF PaidBy
  <2>2. ASSUME NEW w \in Workers, SaveOrder(w)
        PROVE  PaidBy(a)' # {} => PaidBy(a) # {} \/ Submitting(a)
    BY <2>2 DEF SaveOrder, PaidBy, Submitting
  <2>3. QED
    BY <2>1, <2>2, RowsChange
<1>4. QED
  BY <1>1, <1>2, <1>3, PermissionsChange, SubmittingChanges DEF Permitting

\* Whatever can pay, is being sent or has paid was approved by a person.
THEOREM PermissionsHold == Spec => []PermissionsWereGranted
<1>1. Init => PermissionsWereGranted
  BY DEF Init, PermissionsWereGranted, Blank, Submitting, PaidBy
<1>2. TypeOK /\ PermissionsWereGranted /\ [Next]_vars => PermissionsWereGranted'
  BY PermissionsKept
<1>3. QED
  BY <1>1, <1>2, TypeCorrect, PTL DEF Spec

\* Every order was approved by a person, with the body its approval was created
\* for, and its key still names it.
THEOREM OrdersAuthorised ==
  ASSUME Discipline
  PROVE  Spec => []OrdersAreAuthorised
<1>1. TypeOK /\ PermissionsWereGranted => \A o \in rows : o.intent.approval \in granted
  <2> SUFFICES ASSUME TypeOK, PermissionsWereGranted, NEW o \in rows
               PROVE  o.intent.approval \in granted
    OBVIOUS
  <2>1. o.intent.approval \in Approvals
    BY IntentType DEF TypeOK, Orders
  <2>2. o \in PaidBy(o.intent.approval)
    BY DEF PaidBy
  <2>3. QED
    BY <2>1, <2>2 DEF PermissionsWereGranted
<1>2. IInv /\ PermissionsWereGranted => OrdersAreAuthorised
  BY <1>1 DEF IInv, OrdersHoldTheirKeys, OrdersAreAuthorised
<1>3. QED
  BY <1>2, Invariance, PermissionsHold, PTL

(***************************************************************************)
(* The gateway implements the one-shot credential.                         *)
(***************************************************************************)

Granted == {"APPROVED", "CONSUMING"}
Voided == {"EXPIRED", "REJECTED", "pruned"}

Paid(a) == \E o \in rows : o.intent.approval = a

\* A read that goes on to write a row back has found it.
ReadingsExist ==
    \A w \in Workers : pc[w] = "expire" => approvals[reading[w]].status # "absent"

\* What a step does to the status of an approval: nothing, or nothing that shows; it
\* voids what exists; or it records what is paid.
Weakened(a) ==
    \/ approvals'[a].status = approvals[a].status
    \/ approvals[a].status \in Granted /\ approvals'[a].status \in Granted
    \/ approvals[a].status # "absent" /\ approvals'[a].status \in Voided
    \/ Paid(a) /\ approvals'[a].status = "CONSUMED"

\* The holder of a key that is finalised has paid for the order of the key.
LEMMA FinalizedIsPaid ==
  ASSUME IInv, NEW k \in Keys, NEW id, approvals' \in Consumed(k, id),
         \E o \in rows : o.intent.key = k, NEW a \in Approvals
  PROVE  \/ approvals'[a].status = approvals[a].status
         \/ Paid(a) /\ approvals'[a].status = "CONSUMED"
<1>1. CASE approvals' = approvals
  BY <1>1
<1>2. CASE \E b \in Approvals :
             /\ approvals[b].key = k /\ approvals[b].status = "CONSUMING"
             /\ approvals' = [approvals EXCEPT ![b].status = "CONSUMED", ![b].order = id]
  <2>1. PICK b \in Approvals :
             /\ approvals[b].key = k /\ approvals[b].status = "CONSUMING"
             /\ approvals' = [approvals EXCEPT ![b].status = "CONSUMED", ![b].order = id]
    BY <1>2
  <2>2. keys[k].intent.approval = b
    BY <2>1 DEF IInv, LedgersAgree
  <2>3. Paid(b)
    BY <2>2 DEF Paid, IInv, OrdersHoldTheirKeys
  <2>4. CASE a # b
    BY <2>1, <2>4 DEF IInv, TypeOK
  <2>5. CASE a = b
    <3>1. approvals[a] \in ApprovalRow
      BY DEF IInv, TypeOK
    <3>2. approvals'[a] = [[approvals[a] EXCEPT !.status = "CONSUMED"] EXCEPT !.order = id]
      BY <2>1, <2>5 DEF IInv, TypeOK
    <3>3. approvals'[a].status = "CONSUMED"
      BY <3>1, <3>2 DEF ApprovalRow
    <3>4. QED
      BY <2>3, <2>5, <3>3
  <2>6. QED
    BY <2>4, <2>5
<1>3. QED
  BY <1>1, <1>2, ConsumedCases

\* Every step but a creation and a yes weakens an approval or leaves it alone.
LEMMA StatusChanges ==
  ASSUME IInv, ReadingsExist, [Next]_vars, NEW a \in Approvals,
         ~CreateApproval(a), ~Decide(a, "APPROVED")
  PROVE  Weakened(a)
<1> USE DEF Weakened, Granted, Voided
<1>0. approvals \in [Approvals -> ApprovalRow]
  BY DEF IInv, TypeOK
<1>1. ASSUME NEW b \in Approvals, CreateApproval(b) \/ LapseApproval(b)
      PROVE  Weakened(a)
  <2>1. CASE CreateApproval(b)
    BY <1>0, <2>1 DEF CreateApproval
  <2>2. CASE LapseApproval(b)
    BY <1>0, <2>2 DEF LapseApproval, ApprovalRow
  <2>3. QED
    BY <1>1, <2>1, <2>2
<1>2. ASSUME NEW b \in Approvals, NEW d \in {"APPROVED", "REJECTED"}, Decide(b, d)
      PROVE  Weakened(a)
  BY <1>0, <1>2 DEF Decide, Blank
<1>3. ASSUME NEW w \in Workers, SaveExpired(w)
      PROVE  Weakened(a)
  BY <1>0, <1>3 DEF SaveExpired, ExpiredRow, ReadingsExist
<1>4. ASSUME NEW w \in Workers, Recover(w) \/ Finalize(w)
      PROVE  Weakened(a)
  <2>1. PICK k : k = KeyOf(w)
    OBVIOUS
  <2>2. PICK id : id = order[w]
    OBVIOUS
  <2>3. \E o \in rows : o.intent.key = k
    BY <1>4, <2>1 DEF Recover, Finalize, IInv, LookupsAreCurrent, KeyOf
  <2>4. k \in Keys
    BY <2>3, IntentType DEF IInv, TypeOK, Orders
  <2>5. approvals' \in Consumed(k, id)
    BY <1>4, <2>1, <2>2 DEF Recover, Finalize, FinalizeKey
  <2>6. QED
    BY <2>3, <2>4, <2>5, FinalizedIsPaid
<1>5. ASSUME NEW w \in Workers, FreeKey(w) \/ Release(w)
      PROVE  Weakened(a)
  <2>1. approvals' \in Released(KeyOf(w))
    BY <1>5 DEF FreeKey, Release, MarkFailed
  <2>2. approvals' = approvals \/ \E b \in Approvals :
              /\ approvals[b].status = "CONSUMING"
              /\ approvals' = [approvals EXCEPT ![b] = Blank("APPROVED")]
    BY <2>1, ReleasedCases
  <2>3. QED
    BY <1>0, <2>2 DEF Blank
<1>6. ASSUME NEW w \in Workers, Claim(w)
      PROVE  Weakened(a)
  BY <1>0, <1>6 DEF Claim, Claimable, ExpiredRow
<1>7. ASSUME NEW w \in Workers, Prune(w)
      PROVE  Weakened(a)
  BY <1>0, <1>7 DEF Prune, Blank
<1>8. ASSUME NEW w \in Workers,
             \/ ReadRecord(w) \/ Lookup(w) \/ Gate(w) \/ Precheck(w) \/ Health(w)
             \/ Submit(w) \/ SaveOrder(w) \/ StorageError(w)
      PROVE  UNCHANGED approvals
  BY <1>8 DEF ReadRecord, Lookup, Gate, Precheck, Health, Submit, SaveOrder, StorageError, tables
<1>9. ASSUME \/ \E w \in Workers, b \in Approvals : ReadApproval(w, b)
             \/ \E w \in Workers, i \in Intents : Receive(w, i)
             \/ \E k \in Keys : AgeKey(k)
             \/ \E i \in Perishable : LapseIntent(i)
             \/ \E p \in Procs : Crash(p) \/ EmergencyStop(p) \/ ResumeTrading(p)
             \/ UNCHANGED vars
      PROVE  UNCHANGED approvals
  BY <1>9 DEF ReadApproval, Receive, AgeKey, LapseIntent, Crash, EmergencyStop,
              ResumeTrading, vars, tables
<1>10. QED
  BY <1>1, <1>2, <1>3, <1>4, <1>5, <1>6, <1>7, <1>8, <1>9 DEF Next, Handle

\* An approval that exists goes on existing.
LEMMA NeverAbsent ==
  ASSUME IInv, ReadingsExist, [Next]_vars, NEW a \in Approvals, approvals[a].status # "absent"
  PROVE  approvals'[a].status # "absent"
<1>1. CASE CreateApproval(a) \/ Decide(a, "APPROVED")
  BY <1>1 DEF CreateApproval, Decide, Blank, IInv, TypeOK
<1>2. CASE Weakened(a)
  BY <1>2 DEF Weakened, Granted, Voided
<1>3. QED
  BY <1>1, <1>2, StatusChanges

LEMMA ReadingsKept ==
  ASSUME IInv, ReadingsExist, [Next]_vars
  PROVE  ReadingsExist'
<1> SUFFICES ASSUME NEW v \in Workers, pc'[v] = "expire"
             PROVE  approvals'[reading'[v]].status # "absent"
  BY DEF ReadingsExist
<1> USE DEF locals
<1>0. TypeOK
  BY DEF IInv
<1> DEFINE Kept == pc[v] = "expire" /\ reading'[v] = reading[v]
           Found == \E a \in Approvals : Expirable(a) /\ reading'[v] = a
<1>1. ASSUME NEW w \in Workers, Done(w)
      PROVE  Kept
  BY <1>0, <1>1 DEF Done, TypeOK
<1>2. ASSUME NEW w \in Workers, NEW s \in Stages \ {"expire"}, GoTo(w, s), UNCHANGED reading
      PROVE  Kept
  BY <1>0, <1>2 DEF GoTo, TypeOK
<1>3. ASSUME NEW w \in Workers, NEW a \in Approvals, Expirable(a), GoTo(w, "expire"),
             reading' = [reading EXCEPT ![w] = a]
      PROVE  Kept \/ Found
  BY <1>0, <1>3 DEF GoTo, TypeOK
<1>4. ASSUME NEW w \in Workers, Precheck(w)
      PROVE  Kept \/ Found
  <2>1. pc[w] = "precheck" /\ intent[w].approval \in Approvals
    BY <1>0, <1>4, IntentType DEF Precheck, TypeOK
  <2>2. CASE Done(w)
    BY <1>1, <2>2
  <2>3. CASE Proceed(w, "health")
    BY <1>2, <2>3 DEF Proceed, Stages
  <2>4. PICK a : a = intent[w].approval
    OBVIOUS
  <2>5. CASE Expirable(a) /\ GoTo(w, "expire") /\ reading' = [reading EXCEPT ![w] = a]
    BY <1>3, <2>1, <2>4, <2>5
  <2>6. QED
    BY <1>4, <2>2, <2>3, <2>4, <2>5 DEF Precheck
<1>5. ASSUME NEW w \in Workers,
             \/ ReadRecord(w) \/ Lookup(w) \/ Recover(w) \/ FreeKey(w) \/ Gate(w)
             \/ SaveExpired(w) \/ Health(w) \/ Claim(w) \/ Submit(w) \/ SaveOrder(w)
             \/ Finalize(w) \/ Prune(w) \/ Release(w) \/ StorageError(w)
      PROVE  Kept
  <2>1. Done(w) \/ \E s \in Stages \ {"expire"} : GoTo(w, s) /\ UNCHANGED reading
    BY <1>5 DEF ReadRecord, Lookup, Recover, FreeKey, Gate, SaveExpired, Health, Claim, Submit,
                SaveOrder, Finalize, Prune, Release, StorageError, Proceed, Stages
  <2>2. QED
    BY <1>1, <1>2, <2>1
<1>6. ASSUME NEW w \in Workers, NEW i \in Intents, Receive(w, i)
      PROVE  Kept
  BY <1>2, <1>6 DEF Receive, Stages
<1>7. ASSUME NEW w \in Workers, NEW a \in Approvals, ReadApproval(w, a)
      PROVE  Kept \/ Found
  BY <1>3, <1>7 DEF ReadApproval
<1>8. ASSUME NEW p \in Procs, Crash(p)
      PROVE  Kept
  BY <1>0, <1>8 DEF Crash, TypeOK
<1>9. ASSUME \/ \E a \in Approvals : CreateApproval(a) \/ LapseApproval(a)
             \/ \E a \in Approvals, d \in {"APPROVED", "REJECTED"} : Decide(a, d)
             \/ \E k \in Keys : AgeKey(k)
             \/ \E i \in Perishable : LapseIntent(i)
             \/ \E p \in Procs : EmergencyStop(p) \/ ResumeTrading(p)
             \/ UNCHANGED vars
      PROVE  Kept
  BY <1>9 DEF CreateApproval, LapseApproval, Decide, AgeKey, LapseIntent, EmergencyStop,
              ResumeTrading, vars
<1>10. Kept \/ Found
  <2> HIDE DEF Kept, Found
  <2> QED
    BY <1>4, <1>5, <1>6, <1>7, <1>8, <1>9 DEF Next, Handle
<1>11. CASE Kept
  <2>1. PICK a : a = reading[v]
    OBVIOUS
  <2>2. a \in Approvals /\ approvals[a].status # "absent"
    BY <1>0, <1>11, <2>1 DEF ReadingsExist, TypeOK
  <2>3. QED
    BY <1>11, <2>1, <2>2, NeverAbsent
<1>12. CASE Found
  <2>1. PICK a \in Approvals : Expirable(a) /\ reading'[v] = a
    BY <1>12
  <2>2. approvals[a].status # "absent"
    BY <2>1 DEF Expirable, Undecided
  <2>3. QED
    BY <2>1, <2>2, NeverAbsent
<1>13. QED
  BY <1>10, <1>11, <1>12

\* An approval that is being sent has been claimed and is paid for by nobody.
LEMMA SubmittingIsClaimed ==
  ASSUME IInv, NEW a \in Approvals, Submitting(a)
  PROVE  ~Paid(a) /\ approvals[a].status \in {"CONSUMING", "EXPIRED", "pruned"}
BY DEF IInv, Submitting, ClaimsAreExclusive, ClaimedBy, Unsent, Paid

\* What a step that places no order does to a credential.
LEMMA Fate ==
  ASSUME IInv, rows' = rows, NEW a \in Approvals, Weakened(a),
         Submitting(a)' => Submitting(a) \/ approvals[a].status = "APPROVED"
  PROVE  \/ CredentialOf(a)' = CredentialOf(a)
         \/ CredentialOf(a) \in {"requested", "granted"} /\ CredentialOf(a)' = "void"
<1>1. Paid(a)' = Paid(a)
  BY DEF Paid
<1>2. CredentialOf(a) = IF Paid(a) THEN "spent"
        ELSE IF approvals[a].status \in Granted \/ Submitting(a) THEN "granted"
        ELSE IF approvals[a].status = "absent" THEN "none"
        ELSE IF approvals[a].status = "REQUESTED" THEN "requested" ELSE "void"
  BY DEF CredentialOf, PaidBy, Paid, Granted
<1>3. CredentialOf(a)' = IF Paid(a) THEN "spent"
        ELSE IF approvals'[a].status \in Granted \/ Submitting(a)' THEN "granted"
        ELSE IF approvals'[a].status = "absent" THEN "none"
        ELSE IF approvals'[a].status = "REQUESTED" THEN "requested" ELSE "void"
  BY <1>1 DEF CredentialOf, PaidBy, Paid, Granted
<1>4. QED
  BY <1>2, <1>3, SubmittingIsClaimed DEF Weakened, Granted, Voided

Credential == [a \in Approvals |-> CredentialOf(a)]

\* Without a new order no approval pays for anything.
LEMMA NothingPaid ==
  ASSUME rows' = rows
  PROVE  \A a \in Approvals : PaidBy(a)' = PaidBy(a)
BY DEF PaidBy

\* Every step but a creation, a yes and an order voids some credentials or none.
LEMMA VoidStep ==
  ASSUME rows' = rows,
         \A a \in Approvals :
           \/ CredentialOf(a)' = CredentialOf(a)
           \/ CredentialOf(a) \in {"requested", "granted"} /\ CredentialOf(a)' = "void"
  PROVE  OneShot!Next
<1> DEFINE S == {a \in Approvals : CredentialOf(a)' # CredentialOf(a)}
<1>1. S \in SUBSET Approvals
  OBVIOUS
<1>2. OneShot!Void(S)
  BY NothingPaid DEF OneShot!Void
<1>3. QED
  BY <1>1, <1>2 DEF OneShot!Next

\* A credential depends on the rows, the status and whether it is being sent.
LEMMA SameCredential ==
  ASSUME NEW b \in Approvals, Paid(b)' = Paid(b), approvals'[b].status = approvals[b].status,
         Submitting(b)' = Submitting(b)
  PROVE  CredentialOf(b)' = CredentialOf(b)
BY DEF CredentialOf, PaidBy, Paid

\* A creation and a yes move one credential, by the ledger alone.
LEMMA LedgerStep ==
  ASSUME IInv, NEW a \in Approvals, CreateApproval(a) \/ Decide(a, "APPROVED")
  PROVE  OneShot!Next
<1>1. /\ UNCHANGED <<rows, pc, intent>>
      /\ \A b \in Approvals \ {a} : approvals'[b] = approvals[b]
  BY DEF CreateApproval, Decide, locals, IInv, TypeOK
<1>2. \A b \in Approvals : Paid(b)' = Paid(b) /\ Submitting(b)' = Submitting(b)
  BY <1>1 DEF Paid, Submitting
<1>3. \A b \in Approvals \ {a} : CredentialOf(b)' = CredentialOf(b)
  BY <1>1, <1>2, SameCredential
<1>4. ~Paid(a) /\ ~Submitting(a)
  <2>1. approvals[a].status \in {"absent", "REQUESTED"}
    BY DEF CreateApproval, Decide
  <2>2. QED
    BY <2>1, SubmittingIsClaimed DEF IInv, SpentApprovalsStaySpent, Paid
<1>5. CASE CreateApproval(a)
  <2>1. approvals[a].status = "absent" /\ approvals'[a].status = "REQUESTED"
    BY <1>5 DEF CreateApproval, Blank, IInv, TypeOK
  <2>2. CredentialOf(a) = "none" /\ CredentialOf(a)' = "requested"
    BY <1>2, <1>4, <2>1 DEF CredentialOf, PaidBy, Paid
  <2>3. OneShot!Request(a)
    BY <1>1, <1>3, <2>2, NothingPaid DEF OneShot!Request
  <2>4. QED
    BY <2>3 DEF OneShot!Next
<1>6. CASE Decide(a, "APPROVED")
  <2>1. approvals[a].status = "REQUESTED" /\ approvals'[a].status = "APPROVED"
    BY <1>6 DEF Decide, Blank, IInv, TypeOK
  <2>2. CredentialOf(a) = "requested" /\ CredentialOf(a)' = "granted"
    BY <1>2, <1>4, <2>1 DEF CredentialOf, PaidBy, Paid
  <2>3. OneShot!Grant(a)
    BY <1>1, <1>3, <2>2, NothingPaid DEF OneShot!Grant
  <2>4. QED
    BY <2>3 DEF OneShot!Next
<1>7. QED
  BY <1>5, <1>6

\* An order spends the credential its handler holds, and no other.
LEMMA SpendStep ==
  ASSUME IInv, NEW w \in Workers, SaveOrder(w)
  PROVE  OneShot!Next
<1>1. PICK a : a = intent[w].approval
  OBVIOUS
<1>2. a \in Approvals /\ Submitting(a)
  BY <1>1, IntentType DEF SaveOrder, IInv, TypeOK, Submitting
<1>3. CredentialOf(a) = "granted"
  BY <1>2, SubmittingIsClaimed DEF CredentialOf, PaidBy, Paid
<1>4. PICK o : o = [id |-> order[w], intent |-> intent[w]]
  OBVIOUS
<1>5. /\ rows' = rows \cup {o} /\ o.intent.approval = a
      /\ o \in Orders
  BY <1>1, <1>4 DEF SaveOrder, IInv, TypeOK, Orders
<1>6. PaidBy(a) = {} /\ PaidBy(a)' = {o}
  <2>1. PaidBy(a) = {}
    BY <1>2, SubmittingIsClaimed DEF PaidBy, Paid
  <2>2. QED
    BY <1>5, <2>1 DEF PaidBy
<1>7. CredentialOf(a)' = "spent"
  BY <1>6 DEF CredentialOf
<1>8. ASSUME NEW b \in Approvals \ {a}
      PROVE  CredentialOf(b)' = CredentialOf(b) /\ PaidBy(b)' = PaidBy(b)
  <2>1. Paid(b)' = Paid(b) /\ PaidBy(b)' = PaidBy(b)
    BY <1>5 DEF Paid, PaidBy
  <2>2. /\ approvals' = approvals /\ intent' = intent /\ pc[w] = "save"
        /\ pc' = [pc EXCEPT ![w] = "finalize"]
    BY DEF SaveOrder, Proceed, GoTo
  <2>3. \A v \in Workers : intent[v].approval = b =>
          (pc'[v] \in {"submit", "save"} <=> pc[v] \in {"submit", "save"})
    BY <1>1, <2>2 DEF IInv, TypeOK
  <2>4. Submitting(b)' = Submitting(b)
    BY <2>2, <2>3 DEF Submitting
  <2>5. QED
    BY <2>1, <2>2, <2>4, SameCredential
<1>9. OneShot!Spend(a)
  BY <1>2, <1>3, <1>5, <1>6, <1>7, <1>8 DEF OneShot!Spend
<1>10. QED
  BY <1>2, <1>9 DEF OneShot!Next

\* Any step is a step of the abstract credential.
LEMMA CredentialStep ==
  ASSUME IInv, ReadingsExist, [Next]_vars
  PROVE  OneShot!Next
<1>1. CASE \E a \in Approvals : CreateApproval(a) \/ Decide(a, "APPROVED")
  BY <1>1, LedgerStep
<1>2. CASE \E w \in Workers : SaveOrder(w)
  BY <1>2, SpendStep
<1>3. CASE rows' = rows /\ ~\E a \in Approvals : CreateApproval(a) \/ Decide(a, "APPROVED")
  <2>1. ASSUME NEW a \in Approvals
        PROVE  \/ CredentialOf(a)' = CredentialOf(a)
               \/ CredentialOf(a) \in {"requested", "granted"} /\ CredentialOf(a)' = "void"
    <3>1. Weakened(a)
      BY <1>3, StatusChanges
    <3>2. Submitting(a)' => Submitting(a) \/ approvals[a].status = "APPROVED"
      BY SubmittingChanges DEF IInv
    <3>3. QED
      BY <1>3, <3>1, <3>2, Fate
  <2>2. QED
    BY <1>3, <2>1, VoidStep
<1>4. QED
  BY <1>1, <1>2, <1>3, RowsChange

\* An approval is a one-time credential: it is requested, granted by a person,
\* and pays for one order or becomes void, whatever the handlers, the retries
\* and the crashes do; a spent one never pays again and keeps its order.
THEOREM Refinement ==
  ASSUME Discipline
  PROVE  Spec => ImplementsOneShot
<1>1. Init => OneShot!Init /\ ReadingsExist
  <2> SUFFICES ASSUME Init PROVE OneShot!Init /\ ReadingsExist
    OBVIOUS
  <2>1. \A a \in Approvals : CredentialOf(a) = "none" /\ PaidBy(a) = {}
    BY DEF Init, CredentialOf, PaidBy, Blank, Submitting
  <2>2. QED
    BY <2>1 DEF OneShot!Init, Init, ReadingsExist
<1>2. IInv /\ ReadingsExist /\ [Next]_vars => ReadingsExist'
  BY ReadingsKept
<1>3. IInv /\ ReadingsExist /\ [Next]_vars => OneShot!Next
  BY CredentialStep
<1>4. QED
  BY <1>1, <1>2, <1>3, Invariance, PTL DEF Spec, ImplementsOneShot, OneShot!Spec
=============================================================================
