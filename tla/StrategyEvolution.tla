-------------------------- MODULE StrategyEvolution --------------------------
(***************************************************************************)
(* The promotion of one strategy candidate: services/strategy-evolution,   *)
(* with the risk auditor and the approvals of the gateway that it asks.    *)
(* Handlers serve requests side by side.  Every transaction of the ledger  *)
(* and every call to another service is a step of its own, and a handler   *)
(* may die before any of them.                                             *)
(*                                                                         *)
(* Candidates share no row, so one stands for all of them.  A list of      *)
(* evidence is the bag of its references, since the code compares sorted   *)
(* lists and hashes sets.  Experiments and the audit entries of rejected   *)
(* promotions are written here and read by no guard: they are left out.    *)
(***************************************************************************)
EXTENDS Integers, Sequences, FiniteSets, Functions

CONSTANTS
    Handlers,    \* the threads and processes that serve requests
    Refs,        \* evidence references
    Source,      \* the prefix of each of them: where the evidence comes from
    Approvals,   \* approval ids
    Bound,       \* those asked for a promotion of this candidate, in its market
    NoApproval,
    Menu,        \* the requests that clients send
    NoRequest,
    MaxLost      \* bound on the handlers that die half-way through their writes

Bag == [Refs -> Nat]

\* _PROMOTION_PATH.
Path == << "DRAFT", "BACKTESTED", "VALIDATED", "PAPER", "SHADOW",
           "APPROVED", "CANARY", "PRODUCTION" >>
Terminal == {"RETIRED", "ROLLED_BACK"}
Stages == {Path[i] : i \in 1..8} \cup Terminal
Above == [s \in Stages |-> {Path[i] : i \in {j \in 2..8 : Path[j - 1] = s}}]

\* The stages that need an approval are those that need the auditor.
Gated == {"APPROVED", "CANARY", "PRODUCTION"}

\* expected is 0 when the client names no version.
Request == [target : Stages, refs : Bag, approval : Approvals \cup {NoApproval},
            expected : Nat]

ASSUME EvolutionAssumption ==
    /\ IsFiniteSet(Refs) /\ Bound \subseteq Approvals
    /\ NoApproval \notin Approvals
    /\ Menu \subseteq Request /\ NoRequest \notin Menu
    /\ MaxLost \in Nat

VARIABLES
    stage, version, \* candidates.stage and .version
    refs, hash,     \* payload.evidence_refs and .evidence_hash
    approver,       \* payload.approval_id
    ledger,         \* the rows of the evidence table
    trail,          \* the audit entries promotion.applied, the oldest first
    verdict,        \* the auditor's conclusion by stage and evidence hash
    decision,       \* the approvals of this candidate, at the gateway
    pc, req,        \* the step a handler is at, and its request
    snap, seen,     \* the row and the evidence as it read them
    lost            \* handlers that died after their update

row == <<stage, version, refs, hash, approver>>
handler == <<pc, req, snap, seen>>
vars == <<row, ledger, trail, verdict, decision, handler, lost>>

-----------------------------------------------------------------------------
Nothing == [r \in Refs |-> 0]
Plus(b, c) == [r \in Refs |-> b[r] + c[r]]
Length(b) == FoldFunction(+, 0, b)

\* evidence_hash: of the sorted set, so repetitions do not count.
Hash(b) == {r \in Refs : b[r] > 0}

\* _MIN_EVIDENCE_REFS, by the place in Path.
MinRefs == <<0, 1, 2, 2, 2, 3, 3, 3>>

\* _evaluate for the gated stages: three references, from two sources.
Sufficient == {e \in SUBSET Refs : /\ Cardinality(e) >= 3
                                   /\ Cardinality({Source[r] : r \in e}) >= 2}

Steps == {"idle", "ledger", "last", "verify", "audit", "update", "evidence", "trail"}

\* A granted approval may lapse; any other is refused, or expires undecided.
Decisions == {"REQUESTED", "APPROVED", "REFUSED", "LAPSED"}

Snapshot == [stage : Stages, version : Nat, refs : Bag]
Blank == [stage |-> "DRAFT", version |-> 0, refs |-> Nothing]
Entry == [to : Stages, hash : SUBSET Refs, approval : Approvals \cup {NoApproval}]

\* new_hash, and the evidence the state machine and the auditor are shown.
NewHash(h, r) == Hash(Plus(seen[h], r.refs))
Offered(h) == Plus(snap[h].refs, req[h].refs)

TypeOK ==
    /\ stage \in Stages /\ version \in Nat
    /\ refs \in Bag /\ hash \subseteq Refs
    /\ approver \in Approvals \cup {NoApproval}
    /\ ledger \in Bag
    /\ trail \in Seq(Entry)
    /\ verdict \in [Gated -> [SUBSET Refs -> {"none", "PASS", "FAIL"}]]
    /\ decision \in [Bound -> Decisions]
    /\ pc \in [Handlers -> Steps]
    /\ req \in [Handlers -> Menu \cup {NoRequest}]
    /\ snap \in [Handlers -> Snapshot]
    /\ seen \in [Handlers -> Bag]
    /\ lost \in 0..MaxLost
    /\ \A h \in Handlers : pc[h] \notin {"idle", "ledger", "last"} => req[h] \in Menu
    /\ \A h \in Handlers : pc[h] \in {"verify", "audit"} => req[h].target \in Gated

-----------------------------------------------------------------------------
\* Mutant of Answer: the error is not raised, and the handler goes on.
AnswerGoingOn(h) ==
    /\ req' = [req EXCEPT ![h] = NoRequest]
    /\ UNCHANGED <<pc, snap, seen>>

\* The handler answers its client: 200, 409, 422 or 503.
Answer(h) ==
    /\ pc' = [pc EXCEPT ![h] = "idle"]
    /\ req' = [req EXCEPT ![h] = NoRequest]
    /\ snap' = [snap EXCEPT ![h] = Blank]
    /\ seen' = [seen EXCEPT ![h] = Nothing]

GoOn(h, step) ==
    /\ pc' = [pc EXCEPT ![h] = step]
    /\ UNCHANGED <<req, snap, seen>>

\* get_candidate: the row, in a transaction of its own.
Receive(h) ==
    /\ pc[h] = "idle"
    /\ snap' = [snap EXCEPT ![h] = [stage |-> stage, version |-> version, refs |-> refs]]
    /\ pc' = [pc EXCEPT ![h] = "ledger"]
    /\ UNCHANGED <<row, ledger, trail, verdict, decision, req, seen, lost>>

\* evidence_refs.
ReadLedger(h) ==
    /\ pc[h] = "ledger"
    /\ seen' = [seen EXCEPT ![h] = ledger]
    /\ pc' = [pc EXCEPT ![h] = "last"]
    /\ UNCHANGED <<row, ledger, trail, verdict, decision, req, snap, lost>>

\* The last promotion is the one asked for, with the same evidence and approval.
Repeated(h, r) ==
    /\ trail # <<>>
    /\ trail[Len(trail)] = [to |-> r.target, hash |-> NewHash(h, r), approval |-> r.approval]

\* Mutant of Untampered: the row is not compared with the evidence.
UntamperedUnread(h) == TRUE

Untampered(h) == snap[h].refs = seen[h]

\* The request is looked at: nothing is done twice, nothing once the evidence was
\* tampered with, and nothing gated without an approval id.
CheckLast(h) ==
    /\ pc[h] = "last"
    /\ \E r \in Menu :
         /\ ~Repeated(h, r) /\ Untampered(h)
         /\ r.target \in Gated => r.approval # NoApproval
         /\ pc' = [pc EXCEPT ![h] = IF r.target \in Gated THEN "verify" ELSE "update"]
         /\ req' = [req EXCEPT ![h] = r]
    /\ UNCHANGED <<row, ledger, trail, verdict, decision, snap, seen, lost>>

\* Mutant of Verify: any approval id will do.
VerifyNamed(h) ==
    /\ pc[h] = "verify"
    /\ GoOn(h, "audit")
    /\ UNCHANGED <<row, ledger, trail, verdict, decision, lost>>

\* _verify_approval_with_gateway: the approval is looked up, and not consumed.
Verify(h) ==
    /\ pc[h] = "verify"
    /\ req[h].approval \in Bound /\ decision[req[h].approval] = "APPROVED"
    /\ GoOn(h, "audit")
    /\ UNCHANGED <<row, ledger, trail, verdict, decision, lost>>

\* _evaluate of a request that names its approval.
Evaluate(e, claimed) == IF e = claimed /\ e \in Sufficient THEN "PASS" ELSE "FAIL"

\* audit_promotion in the auditor: a conclusion is drawn once (INSERT OR IGNORE)
\* and returned ever after.  The answer may be lost on its way.
Audit(h) ==
    /\ pc[h] = "audit"
    /\ LET r == req[h]
           found == verdict[r.target][NewHash(h, r)]
           new == IF found = "none" THEN Evaluate(Hash(Offered(h)), NewHash(h, r)) ELSE found IN
       /\ verdict' = [verdict EXCEPT ![r.target] = [@ EXCEPT ![NewHash(h, r)] = new]]
       /\ \/ new = "PASS" /\ GoOn(h, "update")
          \/ Answer(h)
    /\ UNCHANGED <<row, ledger, trail, decision, lost>>

\* Mutant of Promotable: a candidate may climb several steps at once.
PromotableAhead(h) ==
    LET r == req[h] IN
    /\ snap[h].stage \notin Terminal
    /\ \/ r.target \in Terminal
       \/ \E i \in 2..8 : /\ snap[h].stage \in {Path[j] : j \in 1..i - 1} /\ Path[i] = r.target
                          /\ Length(r.refs) >= MinRefs[i]

\* promote in state_machine.py: leaving is always allowed, climbing is one step.
Promotable(h) ==
    LET from == snap[h].stage
        r == req[h] IN
    /\ from \notin Terminal
    /\ \/ r.target \in Terminal
       \/ \E i \in 2..8 : /\ Path[i - 1] = from /\ Path[i] = r.target
                          /\ Length(r.refs) >= MinRefs[i]

\* Mutant of Current: the row is written whatever its version.
CurrentOrNot(h) == req[h].expected \in {0, snap[h].version}

\* The client's expected_version, and the row is still the one that was read.
Current(h) == req[h].expected \in {0, snap[h].version} /\ version = snap[h].version

\* update_candidate_stage: a compare-and-swap on the version.
Update(h) ==
    /\ pc[h] = "update"
    /\ Promotable(h) /\ Current(h)
    /\ stage' = req[h].target /\ version' = version + 1
    /\ refs' = Offered(h) /\ hash' = NewHash(h, req[h])
    /\ approver' = IF req[h].target \in Terminal \/ req[h].approval = NoApproval
                     THEN approver ELSE req[h].approval
    /\ GoOn(h, "evidence")
    /\ UNCHANGED <<ledger, trail, verdict, decision, lost>>

\* append_evidence.
AppendEvidence(h) ==
    /\ pc[h] = "evidence"
    /\ ledger' = Plus(ledger, req[h].refs)
    /\ GoOn(h, "trail")
    /\ UNCHANGED <<row, trail, verdict, decision, lost>>

\* audit("promotion.applied").
Trace(h) ==
    /\ pc[h] = "trail"
    /\ trail' = Append(trail, [to |-> req[h].target, hash |-> NewHash(h, req[h]),
                               approval |-> req[h].approval])
    /\ Answer(h)
    /\ UNCHANGED <<row, ledger, verdict, decision, lost>>

\* Before the update a request ends without a trace: the candidate is returned as
\* it is, the request is refused, the gateway or the auditor is not reached (503,
\* fail-closed), a read or a write raises, or the process is killed.
Leave(h) ==
    /\ pc[h] \in {"ledger", "last", "verify", "audit", "update"}
    /\ Answer(h)
    /\ UNCHANGED <<row, ledger, trail, verdict, decision, lost>>

\* After the update a write raises, or the process is killed: the row stays.
Die(h) ==
    /\ pc[h] \in {"evidence", "trail"} /\ lost < MaxLost
    /\ lost' = lost + 1
    /\ Answer(h)
    /\ UNCHANGED <<row, ledger, trail, verdict, decision>>

-----------------------------------------------------------------------------
(* The gateway's approvals.                                                *)

Decide(a, d) ==
    /\ decision[a] = "REQUESTED" /\ d \in {"APPROVED", "REFUSED"}
    /\ decision' = [decision EXCEPT ![a] = d]
    /\ UNCHANGED <<row, ledger, trail, verdict, handler, lost>>

Lapse(a) ==
    /\ decision[a] = "APPROVED"
    /\ decision' = [decision EXCEPT ![a] = "LAPSED"]
    /\ UNCHANGED <<row, ledger, trail, verdict, handler, lost>>

-----------------------------------------------------------------------------
\* create_candidate, and an auditor that has concluded nothing.
Init ==
    /\ stage = "DRAFT" /\ version = 1 /\ refs = Nothing /\ hash = {}
    /\ approver = NoApproval
    /\ ledger = Nothing /\ trail = <<>>
    /\ verdict = [s \in Gated |-> [e \in SUBSET Refs |-> "none"]]
    /\ decision = [a \in Bound |-> "REQUESTED"]
    /\ pc = [h \in Handlers |-> "idle"]
    /\ req = [h \in Handlers |-> NoRequest]
    /\ snap = [h \in Handlers |-> Blank]
    /\ seen = [h \in Handlers |-> Nothing]
    /\ lost = 0

Next ==
    \/ \E h \in Handlers :
         \/ Receive(h) \/ ReadLedger(h) \/ CheckLast(h) \/ Verify(h) \/ Audit(h)
         \/ Leave(h) \/ Update(h) \/ AppendEvidence(h) \/ Trace(h)
         \/ Die(h)
    \/ \E a \in Bound :
         \/ \E d \in {"APPROVED", "REFUSED"} : Decide(a, d)
         \/ Lapse(a)

Spec == Init /\ [][Next]_vars

-----------------------------------------------------------------------------
(* Properties.                                                             *)

\* What each handler read was so, and its version tells whether it still is.
Snapshots ==
    \A h \in Handlers :
        pc[h] \in {"ledger", "last", "verify", "audit", "update"} =>
            /\ snap[h].version <= version
            /\ snap[h].version = version => snap[h].stage = stage /\ snap[h].refs = refs

\* The evidence table only grows, and only up to what the row says; handlers about
\* to append leave room for each other.
EvidenceGrows ==
    /\ \A r \in Refs : ledger[r] <= refs[r]
    /\ \A h \in Handlers :
         /\ pc[h] \in {"last", "verify", "audit", "update"} =>
              \A r \in Refs : seen[h][r] <= ledger[r]
         /\ pc[h] = "evidence" => \A r \in Refs : ledger[r] + req[h].refs[r] <= refs[r]
    /\ \A g, h \in Handlers :
         g # h /\ pc[g] = "evidence" /\ pc[h] = "evidence" =>
            req[g].refs = Nothing \/ req[h].refs = Nothing

\* What each step of a handler has established for the next.
GatesPassed ==
    \A h \in Handlers :
        /\ pc[h] \in {"verify", "audit", "update"} => seen[h] = snap[h].refs
        /\ pc[h] \in {"audit", "update"} /\ req[h].target \in Gated =>
             /\ req[h].approval \in Bound
             /\ decision[req[h].approval] \in {"APPROVED", "LAPSED"}
        /\ pc[h] = "update" /\ req[h].target \in Gated => NewHash(h, req[h]) \in Sufficient

\* A conclusion speaks of the evidence it is filed under.
VerdictsSound ==
    \A s \in Gated : \A e \in SUBSET Refs : verdict[s][e] = "PASS" => e \in Sufficient

\* The last stages are reached only with evidence from several sources and an
\* approval that a human granted for this candidate, although the row, the
\* evidence, the approval and the conclusion are read one after the other and
\* clients race (main.py promote_candidate).
GatedStagesEarned ==
    stage \in Gated =>
        /\ Hash(refs) \in Sufficient /\ hash = Hash(refs)
        /\ approver \in Bound /\ decision[approver] \in {"APPROVED", "LAPSED"}

\* The inductive invariant of the service.
IInv == TypeOK /\ Snapshots /\ EvidenceGrows /\ GatesPassed /\ VerdictsSound /\ GatedStagesEarned
        /\ hash = Hash(refs)

\* While the row and the evidence table disagree, for whatever reason, the
\* candidate does not move: neither a request that came in before nor one that
\* comes later changes its stage (main.py:253-259 and the version check).
FailClosed == [][ledger # refs => stage' = stage /\ version' = version]_vars

\* The trail of promotions is exact: each stage is entered at most once, and
\* each version is accounted for by an entry, by a handler about to write one, or
\* by one that died before it could (main.py:307-313).
TrailIsExact ==
    LET writing == {h \in Handlers : pc[h] \in {"evidence", "trail"}} IN
    /\ \A i, j \in 1..Len(trail) : trail[i].to = trail[j].to => i = j
    /\ version - 1 = Len(trail) + Cardinality(writing) + lost

Ladder == INSTANCE StageLadder WITH
    Exits <- Terminal, Guarded <- Gated,
    rung <- stage, evidence <- Hash(refs),
    granted <- {a \in Bound : decision[a] \in {"APPROVED", "LAPSED"}}

\* The service implements the ladder of stages: no race, retry or crash skips a
\* stage, goes back, forgets evidence or passes a gate unearned.
ImplementsLadder == Ladder!Spec
==============================================================================
