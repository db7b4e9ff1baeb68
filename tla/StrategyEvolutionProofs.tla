----------------------- MODULE StrategyEvolutionProofs -----------------------
(***************************************************************************)
(* What holds of StrategyEvolution for any handlers, requests, references  *)
(* and approvals, and however many handlers die.                           *)
(***************************************************************************)
EXTENDS StrategyEvolution, FiniteSetTheorems, TLAPS

\* The handlers past the choice of their request.
Chosen == {"verify", "audit", "update", "evidence", "trail"}

\* The actions of Next.
LEMMA NextCases ==
  ASSUME [Next]_vars
  PROVE  \/ \E h \in Handlers : Receive(h)
         \/ \E h \in Handlers : ReadLedger(h)
         \/ \E h \in Handlers : CheckLast(h)
         \/ \E h \in Handlers : Verify(h)
         \/ \E h \in Handlers : Audit(h)
         \/ \E h \in Handlers : Leave(h)
         \/ \E h \in Handlers : Update(h)
         \/ \E h \in Handlers : AppendEvidence(h)
         \/ \E h \in Handlers : Trace(h)
         \/ \E h \in Handlers : Die(h)
         \/ \E a \in Bound : Lapse(a) \/ \E d \in {"APPROVED", "REFUSED"} : Decide(a, d)
         \/ UNCHANGED vars
BY DEF Next

\* Bags are closed under addition, and addition only adds.
LEMMA Bags ==
  /\ Nothing \in Bag /\ Hash(Nothing) = {}
  /\ \A b, c \in Bag : Plus(b, c) \in Bag /\ Hash(b) \subseteq Hash(Plus(b, c))
  /\ \A b \in Bag : Hash(b) \subseteq Refs
<1>1. Nothing \in Bag /\ Hash(Nothing) = {}
  BY DEF Nothing, Bag, Hash
<1>2. ASSUME NEW b \in Bag, NEW c \in Bag
      PROVE  Plus(b, c) \in Bag /\ Hash(b) \subseteq Hash(Plus(b, c))
  <2>1. \A r \in Refs : b[r] \in Nat /\ c[r] \in Nat
    BY <1>2 DEF Bag
  <2>2. \A r \in Refs : b[r] + c[r] \in Nat /\ (b[r] > 0 => b[r] + c[r] > 0)
    BY <2>1
  <2>3. QED
    BY <2>2 DEF Plus, Bag, Hash
<1>3. \A b \in Bag : Hash(b) \subseteq Refs
  BY DEF Hash
<1>4. QED
  BY <1>1, <1>2, <1>3

\* A request in hand is a request.
LEMMA InHand ==
  ASSUME TypeOK, NEW h \in Handlers, pc[h] \in Chosen
  PROVE  /\ req[h] \in Menu
         /\ req[h].target \in Stages /\ req[h].refs \in Bag
         /\ req[h].approval \in Approvals \cup {NoApproval}
<1>1. req[h] \in Menu
  BY DEF TypeOK, Chosen
<1>2. req[h] \in Request
  BY <1>1, EvolutionAssumption
<1>3. QED
  BY <1>1, <1>2 DEF Request

-----------------------------------------------------------------------------
(* Type correctness.                                                       *)

LEMMA PathStages ==
  /\ "DRAFT" \in Stages /\ Gated \subseteq Stages
  /\ \A i \in 1..8 : Path[i] \in Stages
<1>1. \A i \in 1..8 : Path[i] \in Stages
  BY DEF Stages
<1>2. Path[1] = "DRAFT" /\ Path[6] = "APPROVED" /\ Path[7] = "CANARY" /\ Path[8] = "PRODUCTION"
  BY DEF Path
<1>3. QED
  BY <1>1, <1>2 DEF Gated

LEMMA InitType == Init => TypeOK
<1> SUFFICES ASSUME Init
             PROVE  TypeOK
  OBVIOUS
<1>1. Blank \in Snapshot
  BY Bags, PathStages DEF Blank, Snapshot
<1>2. trail \in Seq(Entry)
  BY DEF Init
<1>3. lost \in 0..MaxLost
  BY EvolutionAssumption DEF Init
<1>4. verdict \in [Gated -> [SUBSET Refs -> {"none", "PASS", "FAIL"}]]
  BY DEF Init
<1>5. QED
  BY <1>1, <1>2, <1>3, <1>4, Bags, PathStages DEF Init, TypeOK, Steps, Decisions

\* Answering is well typed.
LEMMA AnswerType ==
  ASSUME TypeOK, NEW h \in Handlers, Answer(h)
  PROVE  /\ pc' \in [Handlers -> Steps] /\ req' \in [Handlers -> Menu \cup {NoRequest}]
         /\ snap' \in [Handlers -> Snapshot] /\ seen' \in [Handlers -> Bag]
         /\ pc' = [pc EXCEPT ![h] = "idle"] /\ pc'[h] = "idle"
         /\ \A g \in Handlers \ {h} : pc'[g] = pc[g] /\ req'[g] = req[g]
                                      /\ snap'[g] = snap[g] /\ seen'[g] = seen[g]
<1>1. Blank \in Snapshot
  BY Bags, PathStages DEF Blank, Snapshot
<1>2. QED
  BY <1>1, Bags DEF TypeOK, Answer, Steps

\* Going on is well typed, too.
LEMMA GoOnType ==
  ASSUME TypeOK, NEW h \in Handlers, NEW s \in Steps, GoOn(h, s),
         s \in Chosen => pc[h] \in Chosen
  PROVE  /\ pc' \in [Handlers -> Steps] /\ pc'[h] = s
         /\ req' = req /\ snap' = snap /\ seen' = seen
         /\ \A g \in Handlers \ {h} : pc'[g] = pc[g]
BY DEF TypeOK, GoOn, Steps

\* One conclusion is filed, under the hash of what was shown.
LEMMA AuditEffect ==
  ASSUME TypeOK, NEW h \in Handlers, Audit(h)
  PROVE  \E s \in Gated : \E e \in SUBSET Refs : \E v \in {"PASS", "FAIL"} :
           /\ s = req[h].target /\ e = NewHash(h, req[h])
           /\ verdict' = [verdict EXCEPT ![s] = [verdict[s] EXCEPT ![e] = v]]
           /\ v = (IF verdict[s][e] = "none" THEN Evaluate(Hash(Offered(h)), e) ELSE verdict[s][e])
           /\ (v = "PASS" /\ GoOn(h, "update")) \/ Answer(h)
<1>1. req[h].target \in Gated
  BY DEF Audit, TypeOK
<1>2. NewHash(h, req[h]) \in SUBSET Refs
  BY DEF NewHash, Hash
<1> DEFINE s == req[h].target
           e == NewHash(h, req[h])
           v == IF verdict[s][e] = "none" THEN Evaluate(Hash(Offered(h)), e) ELSE verdict[s][e]
<1>3. verdict[s][e] \in {"none", "PASS", "FAIL"}
  BY <1>1, <1>2 DEF TypeOK
<1>4. v \in {"PASS", "FAIL"}
  BY <1>3 DEF Evaluate
<1>5. /\ verdict' = [verdict EXCEPT ![s] = [verdict[s] EXCEPT ![e] = v]]
      /\ (v = "PASS" /\ GoOn(h, "update")) \/ Answer(h)
  BY <1>1 DEF Audit, TypeOK
<1>6. QED
  BY <1>1, <1>2, <1>4, <1>5

LEMMA NextType ==
  ASSUME TypeOK, [Next]_vars
  PROVE  TypeOK'
<1>1. ASSUME NEW h \in Handlers, Receive(h)
      PROVE  TypeOK'
  <2>1. [stage |-> stage, version |-> version, refs |-> refs] \in Snapshot
    BY DEF TypeOK, Snapshot
  <2>2. pc' \in [Handlers -> Steps] /\ snap' \in [Handlers -> Snapshot]
    BY <1>1, <2>1 DEF Receive, TypeOK, Steps
  <2>3. QED
    BY <1>1, <2>2 DEF Receive, TypeOK, row
<1>2. ASSUME NEW h \in Handlers, ReadLedger(h)
      PROVE  TypeOK'
  BY <1>2 DEF ReadLedger, TypeOK, Steps, row
<1>3. ASSUME NEW h \in Handlers, CheckLast(h)
      PROVE  TypeOK'
  <2>1. PICK r \in Menu, s \in {"verify", "update"} :
          /\ pc' = [pc EXCEPT ![h] = s] /\ req' = [req EXCEPT ![h] = r]
          /\ s = "verify" => r.target \in Gated
    BY <1>3 DEF CheckLast
  <2>2. UNCHANGED <<row, ledger, trail, verdict, decision, snap, seen, lost>>
    BY <1>3 DEF CheckLast
  <2>3. QED
    BY <2>1, <2>2 DEF TypeOK, Steps, row
<1>4. ASSUME NEW h \in Handlers, Verify(h)
      PROVE  TypeOK'
  BY <1>4 DEF Verify, GoOn, TypeOK, Steps, row
<1>5. ASSUME NEW h \in Handlers, Audit(h)
      PROVE  TypeOK'
  <2>1. verdict' \in [Gated -> [SUBSET Refs -> {"none", "PASS", "FAIL"}]]
    <3>1. PICK s \in Gated, e \in SUBSET Refs, v \in {"PASS", "FAIL"} :
            verdict' = [verdict EXCEPT ![s] = [verdict[s] EXCEPT ![e] = v]]
      BY <1>5, AuditEffect
    <3>2. [verdict[s] EXCEPT ![e] = v] \in [SUBSET Refs -> {"none", "PASS", "FAIL"}]
      BY DEF TypeOK
    <3>3. QED
      BY <3>1, <3>2 DEF TypeOK
  <2>2. CASE GoOn(h, "update")
    BY <1>5, <2>1, <2>2 DEF Audit, GoOn, TypeOK, Steps, row
  <2>3. CASE Answer(h)
    BY <1>5, <2>1, <2>3, AnswerType DEF Audit, TypeOK, row
  <2>4. QED
    BY <1>5, <2>2, <2>3 DEF Audit
<1>6. ASSUME NEW h \in Handlers, Leave(h)
      PROVE  TypeOK'
  BY <1>6, AnswerType DEF Leave, TypeOK, row
<1>7. ASSUME NEW h \in Handlers, Update(h)
      PROVE  TypeOK'
  <2>1. req[h].target \in Stages /\ Offered(h) \in Bag /\ NewHash(h, req[h]) \subseteq Refs
        /\ req[h].approval \in Approvals \cup {NoApproval}
    BY <1>7, InHand, Bags DEF Update, Chosen, Offered, NewHash, TypeOK, Snapshot
  <2>2. stage' \in Stages /\ version' \in Nat /\ refs' \in Bag /\ hash' \subseteq Refs
        /\ approver' \in Approvals \cup {NoApproval}
    BY <1>7, <2>1 DEF Update, TypeOK
  <2>3. QED
    BY <1>7, <2>2 DEF Update, GoOn, TypeOK, Steps
<1>8. ASSUME NEW h \in Handlers, AppendEvidence(h)
      PROVE  TypeOK'
  <2>1. ledger' \in Bag
    BY <1>8, InHand, Bags DEF AppendEvidence, Chosen, TypeOK
  <2>2. QED
    BY <1>8, <2>1 DEF AppendEvidence, GoOn, TypeOK, Steps, row
<1>9. ASSUME NEW h \in Handlers, Trace(h)
      PROVE  TypeOK'
  <2>1. [to |-> req[h].target, hash |-> NewHash(h, req[h]), approval |-> req[h].approval] \in Entry
    BY <1>9, InHand, Bags DEF Trace, Chosen, Entry, NewHash, TypeOK
  <2>2. trail' \in Seq(Entry)
    BY <1>9, <2>1 DEF Trace, TypeOK
  <2>3. QED
    BY <1>9, <2>2, AnswerType DEF Trace, TypeOK, row
<1>10. ASSUME NEW h \in Handlers, Die(h)
       PROVE  TypeOK'
  <2>1. lost' \in 0..MaxLost
    BY <1>10, EvolutionAssumption DEF Die, TypeOK
  <2>2. QED
    BY <1>10, <2>1, AnswerType DEF Die, TypeOK, row
<1>11. ASSUME NEW a \in Bound, Lapse(a) \/ \E d \in {"APPROVED", "REFUSED"} : Decide(a, d)
       PROVE  TypeOK'
  <2>1. PICK d \in Decisions : decision' = [decision EXCEPT ![a] = d]
    BY <1>11 DEF Lapse, Decide, Decisions
  <2>2. UNCHANGED <<row, ledger, trail, verdict, handler, lost>>
    BY <1>11 DEF Lapse, Decide
  <2>3. QED
    BY <2>1, <2>2 DEF TypeOK, row, handler
<1>12. CASE UNCHANGED vars
  BY <1>12 DEF TypeOK, vars, row, handler
<1>13. QED
  BY <1>1, <1>2, <1>3, <1>4, <1>5, <1>6, <1>7, <1>8, <1>9, <1>10, <1>11, <1>12, NextCases

\* Every reachable state is well typed.
THEOREM TypeCorrect == Spec => []TypeOK
<1>1. Init => TypeOK
  BY InitType
<1>2. TypeOK /\ [Next]_vars => TypeOK'
  BY NextType
<1>3. QED
  BY <1>1, <1>2, PTL DEF Spec

-----------------------------------------------------------------------------
(* The inductive invariant.                                                *)

LEMMA InitInv == Init => IInv
<1> SUFFICES ASSUME Init
             PROVE  IInv
  OBVIOUS
<1>1. TypeOK
  BY InitType
<1>2. Snapshots /\ GatesPassed /\ VerdictsSound
  BY DEF Init, Snapshots, GatesPassed, VerdictsSound
<1>3. EvidenceGrows
  BY DEF Init, EvidenceGrows, Nothing
<1>4. GatedStagesEarned /\ hash = Hash(refs)
  BY Bags DEF Init, GatedStagesEarned, Gated
<1>5. QED
  BY <1>1, <1>2, <1>3, <1>4 DEF IInv

\* What a handler has seen in the evidence table when its row is current.
LEMMA CurrentEvidence ==
  ASSUME IInv, NEW h \in Handlers, pc[h] = "update", Current(h)
  PROVE  /\ snap[h].stage = stage /\ snap[h].refs = refs
         /\ seen[h] = refs /\ ledger = refs
         /\ Offered(h) = Plus(refs, req[h].refs)
         /\ NewHash(h, req[h]) = Hash(Offered(h))
<1>1. snap[h].stage = stage /\ snap[h].refs = refs
  BY DEF IInv, Snapshots, Current
<1>2. seen[h] = refs
  BY <1>1 DEF IInv, GatesPassed
<1>3. \A r \in Refs : seen[h][r] <= ledger[r] /\ ledger[r] <= refs[r]
  BY DEF IInv, EvidenceGrows
<1>4. \A r \in Refs : ledger[r] \in Nat /\ refs[r] \in Nat
  BY DEF IInv, TypeOK, Bag
<1>5. \A r \in Refs : ledger[r] = refs[r]
  BY <1>2, <1>3, <1>4
<1>6. ledger = refs
  BY <1>5 DEF IInv, TypeOK, Bag
<1>7. QED
  BY <1>1, <1>2, <1>6 DEF Offered, NewHash

\* An update leaves the candidate at a stage it is entitled to.
LEMMA UpdateEarned ==
  ASSUME IInv, NEW h \in Handlers, Update(h)
  PROVE  GatedStagesEarned' /\ hash' = Hash(refs')
<1>1. pc[h] = "update" /\ Current(h) /\ pc[h] \in Chosen
  BY DEF Update, Chosen
<1>2. /\ stage' = req[h].target /\ refs' = Offered(h) /\ hash' = NewHash(h, req[h])
      /\ approver' = IF req[h].target \in Terminal \/ req[h].approval = NoApproval
                       THEN approver ELSE req[h].approval
      /\ decision' = decision
  BY DEF Update
<1>3. NewHash(h, req[h]) = Hash(Offered(h))
  BY <1>1, CurrentEvidence
<1>4. hash' = Hash(refs')
  BY <1>2, <1>3
<1>5. ASSUME req[h].target \in Gated
      PROVE  /\ Hash(refs') \in Sufficient
             /\ approver' \in Bound /\ decision[approver'] \in {"APPROVED", "LAPSED"}
  <2>1. /\ req[h].approval \in Bound
        /\ decision[req[h].approval] \in {"APPROVED", "LAPSED"}
        /\ NewHash(h, req[h]) \in Sufficient
    BY <1>1, <1>5 DEF IInv, GatesPassed
  <2>2. req[h].target \notin Terminal
    BY <1>5 DEF Gated, Terminal
  <2>3. req[h].approval # NoApproval
    BY <2>1, EvolutionAssumption
  <2>4. QED
    BY <1>2, <1>3, <2>1, <2>2, <2>3
<1>6. QED
  BY <1>2, <1>4, <1>5 DEF GatedStagesEarned

\* What the update changes for the other handlers.
LEMMA UpdateSnapshots ==
  ASSUME IInv, NEW h \in Handlers, Update(h)
  PROVE  Snapshots'
<1>1. /\ version' = version + 1 /\ snap' = snap
      /\ pc' = [pc EXCEPT ![h] = "evidence"]
  BY DEF Update, GoOn
<1>2. version \in Nat /\ \A g \in Handlers : snap[g].version \in Nat
  BY DEF IInv, TypeOK, Snapshot
<1>3. \A g \in Handlers \ {h} : pc'[g] = pc[g]
  BY <1>1 DEF IInv, TypeOK
<1>4. pc'[h] = "evidence"
  BY <1>1 DEF IInv, TypeOK
<1>5. \A g \in Handlers : pc'[g] \in {"ledger", "last", "verify", "audit", "update"} =>
                            snap[g].version <= version
  BY <1>3, <1>4 DEF IInv, Snapshots
<1>6. QED
  BY <1>1, <1>2, <1>5 DEF Snapshots

LEMMA UpdateEvidence ==
  ASSUME IInv, NEW h \in Handlers, Update(h)
  PROVE  EvidenceGrows'
<1>1. pc[h] = "update" /\ Current(h) /\ pc[h] \in Chosen
  BY DEF Update, Chosen
<1>2. /\ refs' = Offered(h) /\ ledger' = ledger /\ seen' = seen /\ req' = req
      /\ pc' = [pc EXCEPT ![h] = "evidence"]
  BY DEF Update, GoOn
<1>3. ledger = refs /\ refs' = Plus(refs, req[h].refs)
  BY <1>1, <1>2, CurrentEvidence
<1>4. req[h].refs \in Bag /\ refs \in Bag
  BY <1>1, InHand DEF IInv, TypeOK
<1>5. \A r \in Refs : /\ req[h].refs[r] \in Nat /\ refs[r] \in Nat
                      /\ refs'[r] = refs[r] + req[h].refs[r]
  BY <1>3, <1>4 DEF Bag, Plus
<1>6. pc'[h] = "evidence" /\ \A g \in Handlers \ {h} : pc'[g] = pc[g]
  BY <1>2 DEF IInv, TypeOK
<1>7. ASSUME NEW g \in Handlers \ {h}, pc[g] = "evidence"
      PROVE  req[g].refs = Nothing
  <2>1. req[g].refs \in Bag
    BY <1>7, InHand DEF IInv, Chosen
  <2>2. \A r \in Refs : req[g].refs[r] \in Nat /\ ledger[r] + req[g].refs[r] <= refs[r]
    BY <1>7, <2>1 DEF IInv, EvidenceGrows, Bag
  <2>3. \A r \in Refs : req[g].refs[r] = 0
    BY <1>3, <1>5, <2>2
  <2>4. QED
    BY <2>1, <2>3 DEF Bag, Nothing
<1>8. \A r \in Refs : ledger'[r] <= refs'[r]
  BY <1>2, <1>3, <1>5
<1>9. \A g \in Handlers : pc'[g] \in {"last", "verify", "audit", "update"} =>
                            \A r \in Refs : seen'[g][r] <= ledger'[r]
  BY <1>2, <1>6 DEF IInv, EvidenceGrows
<1>10. \A g \in Handlers : pc'[g] = "evidence" =>
                             \A r \in Refs : ledger'[r] + req'[g].refs[r] <= refs'[r]
  <2>1. \A r \in Refs : ledger'[r] + req'[h].refs[r] <= refs'[r]
    BY <1>2, <1>3, <1>5
  <2>2. ASSUME NEW g \in Handlers \ {h}, pc[g] = "evidence"
        PROVE  \A r \in Refs : ledger'[r] + req'[g].refs[r] <= refs'[r]
    <3>1. \A r \in Refs : req'[g].refs[r] = 0
      BY <1>2, <1>7, <2>2 DEF Nothing
    <3>2. QED
      BY <1>2, <1>3, <1>5, <3>1
  <2>3. QED
    BY <1>6, <2>1, <2>2
<1>11. \A f, g \in Handlers : f # g /\ pc'[f] = "evidence" /\ pc'[g] = "evidence" =>
                               req'[f].refs = Nothing \/ req'[g].refs = Nothing
  BY <1>2, <1>6, <1>7
<1>12. QED
  BY <1>8, <1>9, <1>10, <1>11 DEF EvidenceGrows

LEMMA UpdateGates ==
  ASSUME IInv, NEW h \in Handlers, Update(h)
  PROVE  GatesPassed' /\ VerdictsSound'
<1>1. /\ UNCHANGED <<req, snap, seen, decision, verdict>>
      /\ pc' = [pc EXCEPT ![h] = "evidence"]
  BY DEF Update, GoOn
<1>2. pc'[h] = "evidence" /\ \A g \in Handlers \ {h} : pc'[g] = pc[g]
  BY <1>1 DEF IInv, TypeOK
<1>3. QED
  BY <1>1, <1>2 DEF IInv, GatesPassed, VerdictsSound, NewHash

\* A handler that answers leaves no claim behind.
LEMMA AnswerInv ==
  ASSUME IInv, NEW h \in Handlers, Answer(h),
         UNCHANGED <<row, ledger, decision>>, VerdictsSound'
  PROVE  Snapshots' /\ EvidenceGrows' /\ GatesPassed' /\ GatedStagesEarned' /\ hash' = Hash(refs')
<1>1. /\ pc'[h] = "idle"
      /\ \A g \in Handlers \ {h} : pc'[g] = pc[g] /\ req'[g] = req[g]
                                   /\ snap'[g] = snap[g] /\ seen'[g] = seen[g]
  BY AnswerType DEF IInv
<1>2. UNCHANGED <<stage, version, refs, hash, approver, ledger, decision>>
  BY DEF row
<1>3. Snapshots'
  BY <1>1, <1>2 DEF IInv, Snapshots
<1>4. EvidenceGrows'
  BY <1>1, <1>2 DEF IInv, EvidenceGrows
<1>5. GatesPassed'
  BY <1>1, <1>2 DEF IInv, GatesPassed, NewHash
<1>6. QED
  BY <1>2, <1>3, <1>4, <1>5 DEF IInv, GatedStagesEarned

LEMMA ReadInv ==
  ASSUME IInv, NEW h \in Handlers, Receive(h) \/ ReadLedger(h)
  PROVE  /\ Snapshots' /\ EvidenceGrows' /\ GatesPassed' /\ VerdictsSound'
         /\ GatedStagesEarned' /\ hash' = Hash(refs')
<1>1. /\ UNCHANGED <<stage, version, refs, hash, approver, ledger, verdict, decision, req>>
      /\ \A g \in Handlers \ {h} : pc'[g] = pc[g] /\ snap'[g] = snap[g] /\ seen'[g] = seen[g]
  BY DEF Receive, ReadLedger, row, IInv, TypeOK
<1>2. \/ /\ pc'[h] = "ledger" /\ snap'[h] = [stage |-> stage, version |-> version, refs |-> refs]
      \/ /\ pc'[h] = "last" /\ pc[h] = "ledger" /\ seen'[h] = ledger /\ snap'[h] = snap[h]
  BY DEF Receive, ReadLedger, IInv, TypeOK
<1>3. version \in Nat /\ \A r \in Refs : ledger[r] \in Nat
  BY DEF IInv, TypeOK, Bag
<1>4. Snapshots'
  BY <1>1, <1>2, <1>3 DEF IInv, Snapshots
<1>5. EvidenceGrows'
  BY <1>1, <1>2, <1>3 DEF IInv, EvidenceGrows
<1>6. GatesPassed'
  BY <1>1, <1>2 DEF IInv, GatesPassed, NewHash
<1>7. QED
  BY <1>1, <1>4, <1>5, <1>6 DEF IInv, GatedStagesEarned, VerdictsSound

LEMMA CheckInv ==
  ASSUME IInv, NEW h \in Handlers, CheckLast(h) \/ Verify(h)
  PROVE  /\ Snapshots' /\ EvidenceGrows' /\ GatesPassed' /\ VerdictsSound'
         /\ GatedStagesEarned' /\ hash' = Hash(refs')
<1>1. /\ UNCHANGED <<stage, version, refs, hash, approver, ledger, verdict, decision, snap, seen>>
      /\ \A g \in Handlers \ {h} : pc'[g] = pc[g] /\ req'[g] = req[g]
  BY DEF CheckLast, Verify, GoOn, row, IInv, TypeOK
<1>2. \/ /\ pc[h] = "last" /\ snap[h].refs = seen[h]
         /\ pc'[h] = "verify" \/ (pc'[h] = "update" /\ req'[h].target \notin Gated)
      \/ /\ pc[h] = "verify" /\ pc'[h] = "audit" /\ req'[h] = req[h]
         /\ req[h].approval \in Bound /\ decision[req[h].approval] = "APPROVED"
  BY DEF CheckLast, Untampered, Verify, GoOn, IInv, TypeOK
<1>3. Snapshots'
  BY <1>1, <1>2 DEF IInv, Snapshots
<1>4. EvidenceGrows'
  BY <1>1, <1>2 DEF IInv, EvidenceGrows
<1>5. GatesPassed'
  BY <1>1, <1>2 DEF IInv, GatesPassed, NewHash
<1>6. QED
  BY <1>1, <1>3, <1>4, <1>5 DEF IInv, GatedStagesEarned, VerdictsSound

LEMMA AuditInv ==
  ASSUME IInv, NEW h \in Handlers, Audit(h)
  PROVE  /\ Snapshots' /\ EvidenceGrows' /\ GatesPassed' /\ VerdictsSound'
         /\ GatedStagesEarned' /\ hash' = Hash(refs')
<1>1. PICK s \in Gated, e \in SUBSET Refs, v \in {"PASS", "FAIL"} :
        /\ s = req[h].target /\ e = NewHash(h, req[h])
        /\ verdict' = [verdict EXCEPT ![s] = [verdict[s] EXCEPT ![e] = v]]
        /\ v = (IF verdict[s][e] = "none" THEN Evaluate(Hash(Offered(h)), e) ELSE verdict[s][e])
        /\ (v = "PASS" /\ GoOn(h, "update")) \/ Answer(h)
  BY AuditEffect DEF IInv
<1>2. /\ pc[h] = "audit" /\ UNCHANGED <<row, ledger, decision>>
      /\ UNCHANGED <<stage, version, refs, hash, approver>>
  BY DEF Audit, row
<1>3. v = "PASS" => e \in Sufficient
  BY <1>1 DEF IInv, VerdictsSound, Evaluate
<1>4. VerdictsSound'
  BY <1>1, <1>3 DEF IInv, TypeOK, VerdictsSound
<1>5. CASE Answer(h)
  BY <1>2, <1>4, <1>5, AnswerInv
<1>6. CASE v = "PASS" /\ GoOn(h, "update")
  <2>1. /\ pc'[h] = "update" /\ UNCHANGED <<req, snap, seen>>
        /\ \A g \in Handlers \ {h} : pc'[g] = pc[g]
    BY <1>6 DEF GoOn, IInv, TypeOK
  <2>2. Snapshots'
    BY <1>2, <2>1 DEF IInv, Snapshots
  <2>3. EvidenceGrows'
    BY <1>2, <2>1 DEF IInv, EvidenceGrows
  <2>4. GatesPassed'
    BY <1>1, <1>2, <1>3, <1>6, <2>1 DEF IInv, GatesPassed, NewHash
  <2>5. QED
    BY <1>2, <1>4, <2>2, <2>3, <2>4 DEF IInv, GatedStagesEarned
<1>7. QED
  BY <1>1, <1>5, <1>6

LEMMA AppendInv ==
  ASSUME IInv, NEW h \in Handlers, AppendEvidence(h)
  PROVE  /\ Snapshots' /\ EvidenceGrows' /\ GatesPassed' /\ VerdictsSound'
         /\ GatedStagesEarned' /\ hash' = Hash(refs')
<1>1. /\ pc[h] = "evidence" /\ ledger' = Plus(ledger, req[h].refs)
      /\ UNCHANGED <<stage, version, refs, hash, approver, verdict, decision, req, snap, seen>>
      /\ pc'[h] = "trail" /\ \A g \in Handlers \ {h} : pc'[g] = pc[g]
  BY DEF AppendEvidence, GoOn, row, IInv, TypeOK
<1>2. req[h].refs \in Bag /\ ledger \in Bag /\ refs \in Bag
  BY <1>1, InHand DEF IInv, TypeOK, Chosen
<1>3. \A r \in Refs : /\ req[h].refs[r] \in Nat /\ ledger[r] \in Nat /\ refs[r] \in Nat
                      /\ ledger'[r] = ledger[r] + req[h].refs[r]
                      /\ ledger[r] + req[h].refs[r] <= refs[r]
  BY <1>1, <1>2 DEF Bag, Plus, IInv, EvidenceGrows
<1>4. Snapshots' /\ GatesPassed'
  BY <1>1 DEF IInv, Snapshots, GatesPassed, NewHash
<1>5. \A g \in Handlers : \A r \in Refs : seen[g][r] \in Nat
  BY DEF IInv, TypeOK, Bag
<1>6. \A g \in Handlers : pc'[g] \in {"last", "verify", "audit", "update"} =>
                           \A r \in Refs : seen'[g][r] <= ledger'[r]
  <2>1. SUFFICES ASSUME NEW g \in Handlers, pc'[g] \in {"last", "verify", "audit", "update"},
                        NEW r \in Refs
                 PROVE  seen[g][r] <= ledger'[r]
    BY <1>1
  <2>2. seen[g][r] <= ledger[r]
    BY <1>1, <2>1 DEF IInv, EvidenceGrows
  <2>3. QED
    BY <1>3, <1>5, <2>2
<1>7. \A g \in Handlers : pc'[g] = "evidence" =>
                           \A r \in Refs : ledger'[r] + req'[g].refs[r] <= refs'[r]
  <2>1. SUFFICES ASSUME NEW g \in Handlers \ {h}, pc[g] = "evidence", NEW r \in Refs
                 PROVE  ledger'[r] + req[g].refs[r] <= refs[r]
    BY <1>1
  <2>2. req[g].refs \in Bag
    BY <2>1, InHand DEF IInv, Chosen
  <2>3. req[g].refs[r] \in Nat /\ ledger[r] + req[g].refs[r] <= refs[r]
    BY <2>1, <2>2 DEF Bag, IInv, EvidenceGrows
  <2>4. req[g].refs = Nothing \/ req[h].refs = Nothing
    BY <1>1, <2>1 DEF IInv, EvidenceGrows
  <2>5. req[g].refs[r] = 0 \/ req[h].refs[r] = 0
    BY <2>4 DEF Nothing
  <2>6. QED
    BY <1>3, <2>3, <2>5
<1>8. EvidenceGrows'
  <2>1. \A r \in Refs : ledger'[r] <= refs'[r]
    BY <1>1, <1>3
  <2>2. \A f, g \in Handlers : f # g /\ pc'[f] = "evidence" /\ pc'[g] = "evidence" =>
                                req'[f].refs = Nothing \/ req'[g].refs = Nothing
    BY <1>1 DEF IInv, EvidenceGrows
  <2>3. QED
    BY <1>6, <1>7, <2>1, <2>2 DEF EvidenceGrows
<1>9. QED
  BY <1>1, <1>4, <1>8 DEF IInv, GatedStagesEarned, VerdictsSound

LEMMA DecideInv ==
  ASSUME IInv, NEW a \in Bound, Lapse(a) \/ \E d \in {"APPROVED", "REFUSED"} : Decide(a, d)
  PROVE  /\ Snapshots' /\ EvidenceGrows' /\ GatesPassed' /\ VerdictsSound'
         /\ GatedStagesEarned' /\ hash' = Hash(refs')
<1>1. UNCHANGED <<stage, version, refs, hash, approver, ledger, verdict, pc, req, snap, seen>>
  BY DEF Lapse, Decide, row, handler
<1>2. \A b \in Bound : decision[b] \in {"APPROVED", "LAPSED"} => decision'[b] \in {"APPROVED", "LAPSED"}
  BY DEF Lapse, Decide, IInv, TypeOK
<1>3. GatesPassed'
  BY <1>1, <1>2 DEF IInv, GatesPassed, NewHash
<1>4. GatedStagesEarned'
  BY <1>1, <1>2 DEF IInv, GatedStagesEarned
<1>5. QED
  BY <1>1, <1>3, <1>4 DEF IInv, Snapshots, EvidenceGrows, VerdictsSound

LEMMA NextInv ==
  ASSUME IInv, [Next]_vars
  PROVE  IInv'
<1>1. TypeOK'
  BY NextType DEF IInv
<1>2. ASSUME NEW h \in Handlers, Receive(h) \/ ReadLedger(h)
      PROVE  IInv'
  BY <1>1, <1>2, ReadInv DEF IInv
<1>3. ASSUME NEW h \in Handlers, CheckLast(h) \/ Verify(h)
      PROVE  IInv'
  BY <1>1, <1>3, CheckInv DEF IInv
<1>4. ASSUME NEW h \in Handlers, Audit(h)
      PROVE  IInv'
  BY <1>1, <1>4, AuditInv DEF IInv
<1>5. ASSUME NEW h \in Handlers, Leave(h) \/ Trace(h) \/ Die(h)
      PROVE  IInv'
  <2>1. Answer(h) /\ UNCHANGED <<row, ledger, decision>> /\ UNCHANGED verdict
    BY <1>5 DEF Leave, Trace, Die
  <2>2. VerdictsSound'
    BY <2>1 DEF IInv, VerdictsSound
  <2>3. QED
    BY <1>1, <2>1, <2>2, AnswerInv DEF IInv
<1>6. ASSUME NEW h \in Handlers, Update(h)
      PROVE  IInv'
  BY <1>1, <1>6, UpdateEarned, UpdateSnapshots, UpdateEvidence, UpdateGates DEF IInv
<1>7. ASSUME NEW h \in Handlers, AppendEvidence(h)
      PROVE  IInv'
  BY <1>1, <1>7, AppendInv DEF IInv
<1>8. ASSUME NEW a \in Bound, Lapse(a) \/ \E d \in {"APPROVED", "REFUSED"} : Decide(a, d)
      PROVE  IInv'
  BY <1>1, <1>8, DecideInv DEF IInv
<1>9. CASE UNCHANGED vars
  <2>1. UNCHANGED <<stage, version, refs, hash, approver, ledger, verdict, decision, pc, req, snap, seen>>
    BY <1>9 DEF vars, row, handler
  <2>2. QED
    BY <1>1, <2>1 DEF IInv, Snapshots, EvidenceGrows, GatesPassed, VerdictsSound,
                      GatedStagesEarned, NewHash
<1>10. QED
  BY <1>2, <1>3, <1>4, <1>5, <1>6, <1>7, <1>8, <1>9, NextCases

\* The invariant that ties row, evidence table, approvals, conclusions and the
\* handlers' readings together.
THEOREM Invariance == Spec => []IInv
<1>1. Init => IInv
  BY InitInv
<1>2. IInv /\ [Next]_vars => IInv'
  BY NextInv
<1>3. QED
  BY <1>1, <1>2, PTL DEF Spec

\* A candidate stands at one of the last stages only with sufficient evidence and
\* an approval granted for it.
THEOREM GatesHold == Spec => []GatedStagesEarned
<1>1. IInv => GatedStagesEarned
  BY DEF IInv
<1>2. QED
  BY <1>1, Invariance, PTL

-----------------------------------------------------------------------------
(* The action properties.                                                  *)

\* No candidate moves while its row and its evidence disagree.
THEOREM FailsClosed == Spec => FailClosed
<1>1. ASSUME IInv, [Next]_vars, ledger # refs
      PROVE  stage' = stage /\ version' = version
  <2>1. ASSUME NEW h \in Handlers, Update(h)
        PROVE  FALSE
    BY <1>1, <2>1, CurrentEvidence DEF Update
  <2>2. ASSUME ~\E h \in Handlers : Update(h)
        PROVE  UNCHANGED row
    BY <1>1, <2>2, NextCases DEF Receive, ReadLedger, CheckLast, Verify, Audit, Leave,
         AppendEvidence, Trace, Die, Lapse, Decide, vars
  <2>3. QED
    BY <2>1, <2>2 DEF row
<1>2. IInv /\ [Next]_vars => [ledger # refs => stage' = stage /\ version' = version]_vars
  BY <1>1
<1>3. QED
  BY <1>2, Invariance, PTL DEF Spec, FailClosed

LEMMA LadderInit == Init => Ladder!Init
BY Bags DEF Init, Ladder!Init

LEMMA UpdateClimbs ==
  ASSUME IInv, NEW h \in Handlers, Update(h)
  PROVE  Ladder!Climb \/ Ladder!Withdraw
<1> DEFINE granted == {a \in Bound : decision[a] \in {"APPROVED", "LAPSED"}}
<1>1. pc[h] = "update" /\ Current(h) /\ Promotable(h) /\ pc[h] \in Chosen
  BY DEF Update, Chosen
<1>2. /\ stage' = req[h].target /\ refs' = Plus(refs, req[h].refs) /\ snap[h].stage = stage
      /\ decision' = decision
  BY <1>1, CurrentEvidence DEF Update
<1>3. Hash(refs) \subseteq Hash(refs)'
  BY <1>1, <1>2, InHand, Bags DEF IInv, TypeOK
<1>4. stage \notin Terminal /\ (stage' \in Terminal \/ stage' \in Above[stage])
  <2>1. stage \in Stages
    BY DEF IInv, TypeOK
  <2>2. QED
    BY <1>1, <1>2, <2>1 DEF Promotable, Above
<1>5. stage' \in Gated => Hash(refs)' \in Sufficient /\ granted # {}
  BY <1>2, UpdateEarned DEF GatedStagesEarned
<1>6. granted' = granted
  BY <1>2
<1>7. CASE stage' \in Terminal
  BY <1>3, <1>4, <1>6, <1>7 DEF Ladder!Withdraw
<1>8. CASE stage' \in Above[stage]
  BY <1>3, <1>4, <1>5, <1>6, <1>8 DEF Ladder!Climb
<1>9. QED
  BY <1>4, <1>7, <1>8

\* The service implements the ladder of stages.
THEOREM Refinement == Spec => ImplementsLadder
<1>1. ASSUME IInv, [Next]_vars
      PROVE  [Ladder!Next]_(Ladder!ladder)
  <2>1. ASSUME NEW h \in Handlers, Update(h)
        PROVE  Ladder!Next
    BY <1>1, <2>1, UpdateClimbs DEF Ladder!Next
  <2>2. ASSUME ~\E h \in Handlers : Update(h),
               ~\E a \in Bound : Lapse(a) \/ \E d \in {"APPROVED", "REFUSED"} : Decide(a, d)
        PROVE  UNCHANGED row /\ UNCHANGED decision
    BY <1>1, <2>2, NextCases DEF Receive, ReadLedger, CheckLast, Verify, Audit, Leave,
         AppendEvidence, Trace, Die, vars
  <2>3. ASSUME UNCHANGED row, UNCHANGED decision
        PROVE  UNCHANGED Ladder!ladder
    BY <2>3 DEF row, Ladder!ladder
  <2>4. ASSUME NEW a \in Bound, Lapse(a) \/ \E d \in {"APPROVED", "REFUSED"} : Decide(a, d)
        PROVE  Ladder!Grant
    <3>1. UNCHANGED <<stage, refs>>
      BY <2>4 DEF Lapse, Decide, row
    <3>2. \A b \in Bound : decision[b] \in {"APPROVED", "LAPSED"} =>
                            decision'[b] \in {"APPROVED", "LAPSED"}
      BY <1>1, <2>4 DEF Lapse, Decide, IInv, TypeOK
    <3>3. QED
      BY <3>1, <3>2 DEF Ladder!Grant
  <2>5. QED
    BY <2>1, <2>2, <2>3, <2>4 DEF Ladder!Next
<1>2. QED
  BY <1>1, LadderInit, Invariance, PTL DEF Spec, ImplementsLadder, Ladder!Spec

-----------------------------------------------------------------------------
(* The trail.                                                              *)

\* The handlers that owe the trail an entry.
Writing == {h \in Handlers : pc[h] \in {"evidence", "trail"}}

\* A stage the candidate is at or has passed; from a terminal one it goes nowhere.
Behind(s) ==
    stage \in Terminal \/ \E i, j \in 1..8 : i <= j /\ Path[i] = s /\ Path[j] = stage

\* What is in the trail, or owed to it, lies behind, each stage once.
EnteredOnce ==
    /\ \A i, j \in 1..Len(trail) : trail[i].to = trail[j].to => i = j
    /\ \A g, h \in Writing : req[g].target = req[h].target => g = h
    /\ \A h \in Writing, i \in 1..Len(trail) : trail[i].to # req[h].target
    /\ \A i \in 1..Len(trail) : Behind(trail[i].to)
    /\ \A h \in Writing : Behind(req[h].target)

VersionsCounted ==
    IsFiniteSet(Writing) /\ version - 1 = Len(trail) + Cardinality(Writing) + lost

\* The path does not come back to a stage, and ends at no terminal one.
LEMMA PathOnce ==
  /\ \A i, j \in 1..8 : Path[i] = Path[j] => i = j
  /\ \A i \in 1..8 : Path[i] \notin Terminal
BY DEF Path, Terminal

\* The steps that neither move the candidate nor touch the trail or what is owed to it.
LEMMA OthersKeep ==
  ASSUME TypeOK, [Next]_vars, ~\E h \in Handlers : Update(h) \/ Trace(h) \/ Die(h)
  PROVE  /\ UNCHANGED <<stage, version, trail, lost>>
         /\ Writing' = Writing /\ \A h \in Writing : req'[h] = req[h]
<1>1. ASSUME NEW h \in Handlers, Receive(h) \/ ReadLedger(h) \/ CheckLast(h) \/ Verify(h)
                                 \/ AppendEvidence(h)
      PROVE  /\ UNCHANGED <<stage, version, trail, lost>>
             /\ \A g \in Handlers : pc'[g] \in {"evidence", "trail"} <=> pc[g] \in {"evidence", "trail"}
             /\ \A g \in Writing : req'[g] = req[g]
  BY <1>1 DEF Receive, ReadLedger, CheckLast, Verify, AppendEvidence, GoOn, row, TypeOK, Writing
<1>2. ASSUME NEW h \in Handlers, Audit(h) \/ Leave(h)
      PROVE  /\ UNCHANGED <<stage, version, trail, lost>>
             /\ \A g \in Handlers : pc'[g] \in {"evidence", "trail"} <=> pc[g] \in {"evidence", "trail"}
             /\ \A g \in Writing : req'[g] = req[g]
  <2>1. pc[h] \notin {"evidence", "trail"} /\ UNCHANGED <<stage, version, trail, lost>>
    BY <1>2 DEF Audit, Leave, row
  <2>2. GoOn(h, "update") \/ Answer(h)
    BY <1>2 DEF Audit, Leave
  <2>3. /\ pc'[h] \notin {"evidence", "trail"}
        /\ \A g \in Handlers \ {h} : pc'[g] = pc[g] /\ req'[g] = req[g]
    BY <2>2 DEF GoOn, Answer, TypeOK
  <2>4. QED
    BY <2>1, <2>3 DEF Writing
<1>3. ASSUME NEW a \in Bound, Lapse(a) \/ \E d \in {"APPROVED", "REFUSED"} : Decide(a, d)
      PROVE  UNCHANGED <<stage, version, trail, lost, pc, req>>
  BY <1>3 DEF Lapse, Decide, row, handler
<1>4. CASE UNCHANGED vars
  BY <1>4 DEF vars, row, handler, Writing
<1>5. QED
  BY <1>1, <1>2, <1>3, <1>4, NextCases DEF Writing

\* An update enters a stage that is not behind, and leaves behind what is.
LEMMA UpdateAdvances ==
  ASSUME IInv, NEW h \in Handlers, Update(h)
  PROVE  /\ ~Behind(req[h].target)
         /\ stage' = req[h].target
         /\ stage' \in Terminal \/ \E i \in 2..8 : Path[i - 1] = stage /\ Path[i] = stage'
<1>1. /\ pc[h] = "update" /\ Current(h) /\ Promotable(h) /\ snap[h].stage = stage
      /\ stage' = req[h].target
  BY CurrentEvidence DEF Update
<1>2. stage \notin Terminal
  BY <1>1 DEF Promotable
<1>3. CASE req[h].target \in Terminal
  BY <1>1, <1>2, <1>3, PathOnce DEF Behind
<1>4. CASE \E i \in 2..8 : Path[i - 1] = stage /\ Path[i] = req[h].target
  <2>1. PICK i \in 2..8 : Path[i - 1] = stage /\ Path[i] = req[h].target
    BY <1>4
  <2>2. ASSUME NEW k \in 1..8, NEW j \in 1..8, k <= j, Path[k] = req[h].target, Path[j] = stage
        PROVE  FALSE
    <3>1. j = i - 1 /\ k = i
      BY <2>1, <2>2, PathOnce
    <3>2. QED
      BY <2>2, <3>1
  <2>3. QED
    BY <1>1, <1>2, <2>1, <2>2 DEF Behind
<1>5. QED
  BY <1>1, <1>3, <1>4 DEF Promotable

\* What is behind stays behind, and so does the stage that is entered.
LEMMA BehindKept ==
  ASSUME IInv, NEW h \in Handlers, Update(h)
  PROVE  Behind(stage)' /\ \A s : Behind(s) => Behind(s)'
<1>1. CASE stage' \in Terminal
  BY <1>1 DEF Behind
<1>2. CASE \E i \in 2..8 : Path[i - 1] = stage /\ Path[i] = stage'
  <2>1. PICK n \in 2..8 : Path[n - 1] = stage /\ Path[n] = stage'
    BY <1>2
  <2>2. stage \notin Terminal
    BY <2>1, PathOnce
  <2>3. ASSUME NEW s, Behind(s)
        PROVE  Behind(s)'
    <3>1. PICK i \in 1..8, j \in 1..8 : i <= j /\ Path[i] = s /\ Path[j] = stage
      BY <2>2, <2>3 DEF Behind
    <3>2. j = n - 1
      BY <2>1, <3>1, PathOnce
    <3>3. i <= n /\ n \in 1..8
      BY <3>1, <3>2
    <3>4. QED
      BY <2>1, <3>1, <3>3 DEF Behind
  <2>4. QED
    BY <2>1, <2>3 DEF Behind
<1>3. QED
  BY <1>1, <1>2, UpdateAdvances

LEMMA NextEntered ==
  ASSUME IInv, EnteredOnce, [Next]_vars
  PROVE  EnteredOnce'
<1>1. trail \in Seq(Entry) /\ Len(trail) \in Nat
  BY DEF IInv, TypeOK
<1>2. ASSUME NEW h \in Handlers, Update(h)
      PROVE  EnteredOnce'
  <2>1. /\ Writing' = Writing \cup {h} /\ h \notin Writing
        /\ UNCHANGED <<req, trail>>
    BY <1>2 DEF Update, GoOn, IInv, TypeOK, Writing
  <2>2. ~Behind(req[h].target) /\ stage' = req[h].target
    BY <1>2, UpdateAdvances
  <2>3. Behind(stage)' /\ \A s : Behind(s) => Behind(s)'
    BY <1>2, BehindKept
  <2>4. \A g \in Writing' : Behind(req[g].target)'
    BY <2>1, <2>2, <2>3 DEF EnteredOnce, Behind
  <2>5. ASSUME NEW i \in 1..Len(trail)
        PROVE  Behind(trail[i].to)'
    <3>1. Behind(trail[i].to) /\ trail'[i] = trail[i]
      BY <2>1 DEF EnteredOnce
    <3>2. \/ stage' \in Terminal
          \/ \E k, j \in 1..8 : k <= j /\ Path[k] = trail[i].to /\ Path[j] = stage'
      BY <2>3, <3>1 DEF Behind
    <3>3. QED
      BY <3>1, <3>2 DEF Behind
  <2>6. \A g \in Writing : req[g].target # req[h].target
    BY <2>2 DEF EnteredOnce
  <2>7. \A i \in 1..Len(trail) : trail[i].to # req[h].target
    BY <2>2 DEF EnteredOnce
  <2>8. QED
    BY <2>1, <2>4, <2>5, <2>6, <2>7 DEF EnteredOnce, Behind
<1>3. ASSUME NEW h \in Handlers, Trace(h)
      PROVE  EnteredOnce'
  <2> DEFINE e == [to |-> req[h].target, hash |-> NewHash(h, req[h]), approval |-> req[h].approval]
  <2>1. h \in Writing /\ trail' = Append(trail, e) /\ stage' = stage /\ Answer(h)
    BY <1>3 DEF Trace, Writing, row
  <2>2. Writing' = Writing \ {h} /\ \A g \in Writing \ {h} : req'[g] = req[g]
    BY <2>1, AnswerType DEF IInv, Writing
  <2>3. e.to = req[h].target
    OBVIOUS
  <2> HIDE DEF e
  <2>4. /\ Len(trail') = Len(trail) + 1 /\ trail'[Len(trail) + 1] = e
        /\ \A i \in 1..Len(trail) : trail'[i] = trail[i]
    BY <1>1, <2>1
  <2>5. \A i \in 1..Len(trail') : i \in 1..Len(trail) \/ i = Len(trail) + 1
    BY <1>1, <2>4
  <2>6. \A i \in 1..Len(trail) : trail[i].to # e.to
    BY <2>1, <2>3 DEF EnteredOnce
  <2>7. \A i, j \in 1..Len(trail') : trail'[i].to = trail'[j].to => i = j
    BY <2>4, <2>5, <2>6 DEF EnteredOnce
  <2>8. \A g \in Writing' : req'[g].target # e.to /\ req'[g].target = req[g].target
    BY <2>1, <2>2, <2>3 DEF EnteredOnce
  <2>9. \A g \in Writing', i \in 1..Len(trail') : trail'[i].to # req'[g].target
    BY <2>2, <2>4, <2>5, <2>8 DEF EnteredOnce
  <2>10. \A i \in 1..Len(trail') : Behind(trail'[i].to)
    BY <2>1, <2>3, <2>4, <2>5 DEF EnteredOnce
  <2>11. \A g \in Writing' : Behind(req'[g].target)
    BY <2>2, <2>8 DEF EnteredOnce
  <2>12. \A f, g \in Writing' : req'[f].target = req'[g].target => f = g
    BY <2>2, <2>8 DEF EnteredOnce
  <2>13. QED
    BY <2>1, <2>7, <2>9, <2>10, <2>11, <2>12 DEF EnteredOnce, Behind
<1>4. ASSUME NEW h \in Handlers, Die(h)
      PROVE  EnteredOnce'
  <2>1. Answer(h) /\ UNCHANGED <<stage, trail>>
    BY <1>4 DEF Die, row
  <2>2. Writing' \subseteq Writing /\ \A g \in Writing' : req'[g] = req[g]
    BY <2>1, AnswerType DEF IInv, Writing
  <2>3. QED
    BY <2>1, <2>2 DEF EnteredOnce, Behind
<1>5. CASE ~\E h \in Handlers : Update(h) \/ Trace(h) \/ Die(h)
  <2>1. /\ UNCHANGED <<stage, trail>>
        /\ Writing' = Writing /\ \A g \in Writing : req'[g] = req[g]
    BY <1>5, OthersKeep DEF IInv
  <2>2. QED
    BY <2>1 DEF EnteredOnce, Behind
<1>6. QED
  BY <1>2, <1>3, <1>4, <1>5

LEMMA NextCounted ==
  ASSUME TypeOK, VersionsCounted, [Next]_vars
  PROVE  VersionsCounted'
<1>1. /\ Len(trail) \in Nat /\ version \in Nat /\ lost \in Nat /\ IsFiniteSet(Writing)
      /\ Cardinality(Writing) \in Nat /\ MaxLost \in Nat
  BY FS_CardinalityType, EvolutionAssumption DEF TypeOK, VersionsCounted
<1>2. ASSUME NEW h \in Handlers, Update(h)
      PROVE  VersionsCounted'
  <2>1. /\ Writing' = Writing \cup {h} /\ h \notin Writing
        /\ version' = version + 1 /\ UNCHANGED <<trail, lost>>
    BY <1>2 DEF Update, GoOn, TypeOK, Writing
  <2>2. IsFiniteSet(Writing') /\ Cardinality(Writing') = Cardinality(Writing) + 1
    BY <1>1, <2>1, FS_AddElement
  <2>3. QED
    BY <1>1, <2>1, <2>2 DEF VersionsCounted
<1>3. ASSUME NEW h \in Handlers, Trace(h) \/ Die(h)
      PROVE  VersionsCounted'
  <2>1. Answer(h) /\ version' = version /\ h \in Writing
    BY <1>3 DEF Trace, Die, row, Writing
  <2>2. Writing' = Writing \ {h}
    BY <2>1, AnswerType DEF Writing
  <2>3. IsFiniteSet(Writing') /\ Cardinality(Writing') = Cardinality(Writing) - 1
    BY <1>1, <2>1, <2>2, FS_RemoveElement
  <2>4. Len(trail') + lost' = Len(trail) + lost + 1
    <3>1. CASE Trace(h)
      <4>1. UNCHANGED lost /\ Len(trail') = Len(trail) + 1
        BY <3>1 DEF Trace, TypeOK
      <4>2. QED
        BY <1>1, <4>1
    <3>2. CASE Die(h)
      BY <1>1, <3>2 DEF Die
    <3>3. QED
      BY <1>3, <3>1, <3>2
  <2>5. Len(trail') \in Nat /\ lost' \in Nat
    <3>1. TypeOK'
      BY NextType
    <3>2. QED
      BY <1>1, <3>1 DEF TypeOK
  <2>6. version - 1 = Len(trail) + Cardinality(Writing) + lost
    BY DEF VersionsCounted
  <2>7. version' - 1 = Len(trail') + Cardinality(Writing') + lost'
    <3>1. \A v, n, a, b, k, m \in Int :
            v - 1 = a + n + b /\ k + m = a + b + 1 => v - 1 = k + (n - 1) + m
      OBVIOUS
    <3>2. version' - 1 = Len(trail') + (Cardinality(Writing) - 1) + lost'
      BY <1>1, <2>1, <2>4, <2>5, <2>6, <3>1
    <3>3. QED
      BY <2>3, <3>2
  <2>8. QED
    BY <2>3, <2>7 DEF VersionsCounted
<1>4. CASE ~\E h \in Handlers : Update(h) \/ Trace(h) \/ Die(h)
  BY <1>4, OthersKeep DEF VersionsCounted
<1>5. QED
  BY <1>2, <1>3, <1>4

\* The trail of promotions is exact: each stage is entered at most once, and each version
\* has its entry, a handler that owes it, or one that died before it could write it.
THEOREM TrailExact == Spec => []TrailIsExact
<1>1. ASSUME Init
      PROVE  EnteredOnce /\ VersionsCounted
  <2>1. Writing = {} /\ Len(trail) = 0 /\ version = 1 /\ lost = 0
    BY <1>1 DEF Init, Writing
  <2>2. IsFiniteSet(Writing) /\ Cardinality(Writing) = 0
    BY <2>1, FS_EmptySet
  <2>3. EnteredOnce
    BY <2>1 DEF EnteredOnce
  <2>4. version - 1 = Len(trail) + Cardinality(Writing) + lost
    BY <2>1, <2>2
  <2>5. QED
    BY <2>2, <2>3, <2>4 DEF VersionsCounted
<1>2. IInv /\ EnteredOnce /\ VersionsCounted /\ [Next]_vars => EnteredOnce' /\ VersionsCounted'
  BY NextEntered, NextCounted DEF IInv
<1>3. EnteredOnce /\ VersionsCounted => TrailIsExact
  BY DEF EnteredOnce, VersionsCounted, TrailIsExact, Writing
<1>4. QED
  BY <1>1, <1>2, <1>3, Invariance, PTL DEF Spec
==============================================================================
