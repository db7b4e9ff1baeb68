# A verification project for DSH-bot

DSH-bot runs two trading bots (A-shares, crypto) that propose orders, have a human approve
them, send them through one gateway and reconcile the result; around them, services collect
events, learn from closed trades, govern strategies and track incidents. This directory holds TLA+
modules of the parts that keep state, the configurations that check them with TLC, and
theorems checked by TLAPS. Paths below are relative to `src/`.

Contents: 1 inventory - 2 plan - 3 the modules and the code - 4 runs, bounds, fairness -
5 what is proved - 6 what is only model-checked - 7 where code and documents disagree -
8 what is not modelled.

## 1. Inventory

### How the parts interact

    bot process (dsh-runtime)                quant-gateway (N workers)        humans
      tick -> execution --HTTP--> approvals <------------------------ approve / reject
                  |      --HTTP--> POST /orders -> journal -> venue adapter
                  |      --HTTP--> orders, account (reconciliation)
                  v
      bot_tasks, memory, decision ledger, event_outbox   (one SQLite file)
                              | publish_outbox
                              v
                        domain_events -> market chief -> incident centre
    strategy-evolution --HTTP--> gateway approvals, risk-auditor      (promotion)
    intelligence-ingest -> files -> autonomous jobs;  projection-api reads all stores

All services are synchronous FastAPI handlers over SQLite: handlers of one process are
threads of a pool, and several processes may share a file. Each `with` block on a
connection is a transaction; **between two transactions anything may happen**: another
handler, a human, a timeout, a crash. That is the granularity of every model here.

### Components

| Component (source) | State | Operations | Hard behaviour | What makes it correct |
|---|---|---|---|---|
| Order path (`services/quant-gateway`: `routers/orders.py`, `storage.py`, `approval_store.py`) | `approvals`, `idempotency_keys` | request, decide, expire an approval; reserve, submit, finalise, release, recover, prune a key | concurrent retries, crash between claim and finalisation, aged reservations, stale write-back of an expiry | an approval pays for one order, a key gives one order, the two ledgers agree, reservations settle |
| Venue adapters (`adapters/`) | `paper_orders`, the in-memory account, `stopped` | `request_order`, `lookup_order`, emergency stop, restart | fills in memory before the row is inserted; the kill switch is an attribute of one process | the lookup by key finds every order that was placed |
| Outbox (`packages/dsh-runtime/.../outbox.py`) | `event_outbox`, `event_outbox_dlq`, `domain_events` | enqueue, claim, publish, mark, back off, dead-letter, replay, skip, terminate | crash between three transactions, expired leases, poison messages, operators | order per aggregate, nothing lost, at most one publisher per row, poison does not spread |
| Trade execution (`execution.py`, `tasks.py`) | `bot_tasks`, memory tags | tick: resume five groups of tasks, then new signals; preview, ask, submit, adopt, reconcile | crash between two commits, unknown outcomes, expiries, one failing task in a shared tick, two tasks in one account | no second approval, no order unaccounted for, every task ends, only true matches are DONE |
| Memory, episodes, decision ledger (`store.py`, `ledger.py`) | `agent_memory`, `decision_ledger`, `position_episodes`, `optimization_candidates` | upsert by identity, attach fill, audit, judgement; open and close episodes; save candidates | rows read, merged and written in separate statements by two processes; a replayed trade | one decision per fill, one episode per decision, links come back after they were overwritten |
| Reconciliation, shadow (`reconcile.py`, `shadow.py`) | none | pure verdicts | the account is shared by all tasks | a match says that everything else cancelled out |
| Jobs (`intelligence.py`, `pipeline.py`, `autonomous.py`, `trade_audit.py`) | `intelligence_items`, candidates, reports | one cycle after the other: snapshot signals, closed trades, optimisation, nomination, intelligence, follow-ups | a cycle that dies between two commits; facts ingested again in each cycle | what was observed stays, what is proposed was earned, what is due is done |
| Strategy evolution (`services/strategy-evolution`) | candidates with a version, append-only evidence, audit log | create, promote | read-check-write over several transactions and two remote calls | one stage at a time, evidence equals the ledger, gates earned |
| Risk auditor (`services/risk-auditor`) | cached conclusions | audit a promotion | a conclusion drawn for one request answers all later ones | a PASS speaks of the evidence it is filed under |
| Incident centre (`services/incident-center`) | incidents by fingerprint, reported events, timeline | open, re-report, reopen, mitigate, resolve | duplicated, late and lost reports | each event counts once, only news reopens a case |
| Market chief (`plugins/dsh-market-chief`) | none of its own | forward the newest incidents in each tick; compose answers | a window of fifty, and a tick that ends at the first failure | an event in the window arrives |
| Risk policy (`services/risk-policy`) | none | `check_order` | - | agrees with its limits |
| Intelligence ingest (`services/intelligence-ingest`) | documents, events, source health | collect, store, prune, export | duplicates, failing sources, a file that holds the first eighty events only | one event per document, however often it is read |
| Audit chain (`audit.py`) | `audit_log` with a hash per row | record, verify | several writers, rows deleted afterwards | one chain in order |
| Projections, snapshot bridge, web console, scripts | none of their own | read-only views, conversions, start-up | - | - |

The hazards each of them is exposed to, with the line where each bites and the property
that covers it, are listed in `PROJECT.json` under `hazards`.

## 2. Plan

Most important first; a module is written so that it can be proved about (parameters as
constants with assumptions, one action per operation, invariants as named conjuncts, no
RECURSIVE operator). The steps below are done.

1. **OrderGateway**, abstract specification **OneShotApproval**, proofs.
2. **Outbox**, abstract specification **OrderedDelivery**, proofs with the refinement.
3. **TradeExecution**, proofs.
4. **StrategyEvolution** with the risk auditor, abstract specification **StageLadder**,
   proofs with the refinement.
5. **IncidentCenter** with the forwarding of the chief, proofs.
6. **TradeLearning** over **OptimizationPipeline**: ledger, episodes and candidates, composed
   of the autonomous layer and the bot that write the same rows, proofs.
7. **IntelligenceLoop**: the collection and the intelligence job, composed through the file
   they share, proofs.
8. **AccountReconciliation** and **AuditChain**: arithmetic and the hash chain, as theorems,
   with **Lists** and what is proved of recursive functions on lists.

Left, in this order: what a restart leaves of MatchedInTurn (a task whose preview is not
repeated), as a theorem; the operations whose audit entry fails (`routers/control.py:95`) and
the kill switch per worker; cancelling an order at the venue.

## 3. The modules and the code

### OrderGateway (with MCOrderGateway, OneShotApproval, OrderGatewayProofs)

State: the tables `approvals` and `keys` (`idempotency_keys`), `rows` (`paper_orders`),
per process `book` (the adapter's in-memory fills) and `stopped`, per handler thread `pc`,
`intent`, `order`, `reading`. Each action is one transaction, or one call of the adapter,
of `_request_order_impl` and its helpers: `ReadRecord` (the key: replay, conflict, in
flight, or aged), `Lookup`/`Recover`/`FreeKey` (the recovery of an aged reservation),
`Gate`, `Precheck`, `Health`, `Claim` (approval and key in one transaction), `Submit`,
`SaveOrder`, `Finalize`, `Release`, `Prune`. `ReadApproval` and `SaveExpired` are the two
halves of a read that finds an expired approval, and `StorageError`, `Crash`,
`EmergencyStop` and `ResumeTrading` may come between any of them. `AgeKey`, `LapseApproval` and
`LapseIntent` are the clocks. The venue fills in memory (`book`) before it inserts the row
the lookup can find, as `adapters/paper.py` does. `granted` is history: the approvals that
`decide_approval` was called on with a yes, which no row of the ledger shows any more once
the approval is consumed.

`OneShotApproval` is what the service promises of an approval: requested, granted, spent on
one order or void, never back. Its state is the worth of each approval (`credential`) and the
orders it paid for (`paid`), which `Spend` alone adds to, and only while there is none.
`ImplementsOneShot` maps the ledgers, the handlers in flight and the venue's rows, those
under each approval, to it: a second order under one approval changes `paid` and is no step of
it.

### Outbox (with MCOutbox, OrderedDelivery, OutboxProofs)

`rows`, `delivered`, `dlq` are the three tables; a publisher is at `claim`, `deliver`,
`mark` or `fail`, the transactions of `publish_outbox`, with the batch its SELECT returned.
`_claim` checks the lease again but neither the back-off nor the sequence, and `Mark` and
`RecordFailure` write whatever the row has become meanwhile: both as in the code.
`OrderedDelivery` is a queue per aggregate; `FateOf` maps a row and its visibility to it.

### TradeExecution (with MCTradeExecution, TradeExecutionProofs)

One bot process. `status` is `bot_tasks.status`; of the payload what guards read: whether
key and valid_until are those the approval was asked for (`current`), the intent that was
or may have been sent, the baseline of the account, the timer of an UNKNOWN. `remembered`
is the memory tag `signal:<id>`. The gateway is seen from outside: approvals asked for, the
decision, the key's entry, the order. The loop is `phase` (the five groups of
`_resume_pending_tasks` in their order, then the signals), `queue` (what the SELECT or the
feed returned) and `pc` (the commit or the call about to be made); `Restart` may come
before any of them. `MoveThen` is `transition()`: a target that is not in `_TRANSITIONS`
raises, and an exception leaves the tick, for all tasks.

Abstractions, each with its reason:

- domain events and notes written on the way are read by no guard and left out; so are the
  rows of the decision ledger, which are the bot's half of TradeLearning.
- an order is filled in two lots, each of which adds what the constant `Order` says to the
  shares of its symbol and to the cash. The account is kept by the fills that made it, but
  `Matches` compares what the code does, one total of the symbol and one of the cash, so that
  orders which undo each other are not seen. Fees, prices and the tolerance are in
  AccountReconciliation.
- the account is moved by this bot's orders only; transfers by hand would show as MISMATCH.
- the venue may fill partly, as the interface of the adapters allows; the paper venue does not.
- an entry of the key journal is `orphan` once its handler died or failed; a handler that
  is still at work keeps `running`, so that the grace period has not passed for it
  (what happens if it has is the subject of OrderGateway's run `orders_overlap`).
- one order per key inside the gateway is taken from OrderGateway's properties.
- checks of evidence, risk limits and market hours may go either way.

### StrategyEvolution (with StageLadder, MCStrategyEvolution, StrategyEvolutionProofs)

One candidate, since candidates share no row. The row is `stage`, `version`, `refs`, `hash`,
`approver`; `ledger` is the evidence table, `trail` the audit entries `promotion.applied`,
`verdict` the auditor's table, `decision` the gateway's approvals. A handler of
`promote_candidate` goes through `Receive`, `ReadLedger`, `CheckLast`, `Verify`, `Audit`,
`Update`, `AppendEvidence`, `Trace`: one transaction or one remote call each, and may `Leave`
before the update or `Die` after it. A list of evidence is the bag of its references, because
the code compares sorted lists but hashes sets. `StageLadder` is what governance promises; the
refinement maps the approvals ever granted to its `granted`.

### TradeLearning (with OptimizationPipeline, MCTradeLearning, TradeLearningProofs)

`ledger` is `decision_ledger`, the row updated last first, since the lookups and the listing
order by `updated_at`; a row is known by the columns of its unique index. `episodes`,
`candidates` and `drafts` (what strategy-evolution registered) are the other tables. The layer
is at the step `pc` of `run_autonomous_cycle`: `FindSignal`, `SelectSignal`, `RecordSignal`
(`record_snapshot_decisions`), `Load`, `Find`, `Attach`, `Import`, `EnsureEpisode`,
`OpenEpisode`, `CloseEpisode`, `List`, `Score`, `AttachAudit` (`ingest_and_audit_trades`),
`SaveCandidate` (`run_optimization_pipeline` with `_persist_candidates`), `Post`,
`SaveNomination`. The bot's `upsert` is `BotSelect` and `BotWrite`: a SELECT and, later, a write
of what it merged. `Snapshot` is what the exporter keeps of the closed trades, the newest
`Window` of them, and `List` what the audit looks at, the `ListLimit` rows updated last; `shown`
is how many trades had closed when the snapshot was exported. A new episode links its decision,
which makes that row the one updated last. `OptimizationPipeline` holds the arithmetic of the
replay rules and of the walk-forward test. `OrderOf` gives the signal and the side that a fill
of the bot's own order was for; which of the bot's writes come when is open.

### IntelligenceLoop (with MCIntelligenceLoop, IntelligenceLoopProofs)

`documents`, `events` and `file` are the collection's; `items`, `tasks`, `decisions`, `judged`
the runtime's, by the `dedupe_key` that reprints share. `Collect`, `StoreDocument`,
`StoreEvent`, `Export` are `ingest_once` and `export_snapshot`; `ReadFile`, `UpsertItem`,
`CreateTask`, `RecordShadow`, `WriteLedger` the ingestion of the job; `ListItems`, `Refresh`,
`Judge` its follow-ups, of the `ItemLimit` items that were observed last. A document is its
content hash: a feed yields the same document at each fetch, a page of links, which are dated by
the fetch, another one each time, in the same cluster. What is pruned is any set of documents
the cycle has not just seen, which includes what `prune_expired` chooses by age.

### IncidentCenter (with MCIncidentCenter, IncidentCenterProofs)

`incidents`, `reported` are the centre's tables, `emitted` the bots' `domain_events`, `todo`
what the chief's loop has left; `keyed` says whether the environment of the centre asks for a
service key, which the chief does not send: a keyed centre refuses each of its posts
(`Receive`). `open_incident` is one transaction: `Forward` and `Handle` for
a report of an event, `ReportDirectly` for one without. `TimeOut` is an `httpx.HTTPError`: the
chief gives the tick up, and the post may be lost or wait for the centre's lock and be handled
later; `Refuse` is an answer that is an error, which the chief does not look at.

### AccountReconciliation (with Lists, ListProofs)

`Matched` is `evaluate_reconcile`, `Moved` what a fill of the paper venue does to its account,
in integers of the smallest unit. `OthersDecide` ties the two: an order matches if and only if
everything else together left the account at the baseline. The record of a filled order is
that of the paper venue (one fill, no fees); its PARTIALLY_FILLED reports half of the quantity
and moves nothing, so that such an order is a mismatch.

`Lists` holds the two computations on lists that the code does in several places, a
comprehension with a condition (`Only`) and a sum (`Total`), as recursive functions;
AccountReconciliation, OptimizationPipeline and IntelligenceLoop use them.

### AuditChain (with ListProofs)

`Recorded` is `audit.record`, which reads the end of the chain and inserts under one
`BEGIN IMMEDIATE`, so one step of the log however many writers there are; `Verifies` is
`verify_chain`. The hash is ideal (it is what is hashed), rows are told apart by their
`audit_id`, and rows from before the chain are left out.

## 4. Runs

| Run | Configuration | What it asks |
|---|---|---|
| orders_serial | 2 handlers in one process, 2 approvals (one bound, one not), 2 keys, 3 intents, one of them perishable; strong lookup, one client per key; 2 faults | the invariants and the refinement, with every crash, storage error, expiry, retry under a second key |
| orders_eventual | 2 processes, any number of requests per key at once; the lookup is not trusted to free a key; 1 fault | one order per approval without the discipline of clients |
| orders_settle | 2 handlers, 1 key, intents stay valid | liveness: no reservation stays for ever |
| orders_overlap | 1 key, overlapping retries, strong lookup | violation, see section 7 |
| outbox_prompt | 2 publishers, 2 aggregates (one the outbox's own incidents), 3 sequence numbers, 2 attempts, 3 faults; leases respected, operators careful | loss, no overtaking, refinement |
| outbox_late | 2 publishers that outlive leases, 2 aggregates, 3 sequence numbers, 2 faults, no operators | order although publishers write late, and liveness |
| trade_crash | 1 signal, both modes, 2 restarts, clean-up overtakes the bot | one approval, no order unaccounted for, and liveness, under crashes |
| trade_steady | 2 signals, a purchase and a sale in two symbols, paper mode, no restart, one intent may expire | two tasks in one account and in one tick |
| evolution_race | 2 handlers, 3 references from 2 sources, 2 approvals (one of another subject), a menu of 7 requests; 1 handler dies between its writes | gates, trail, fail-closed, refinement, under every race of two requests |
| learning_cycle | 7 closed trades, 6 of them closed at the start, a window of 6; 1 rule; 1 write of the bot, 1 cycle that dies | one decision per fill, one episode, earned drafts, and liveness |
| intelligence_loop | 3 documents of 2 sources on 2 events, a file of 1 event, 1 item followed up in a cycle, a check at age 1, time up to 2; 1 cycle that dies | what is lost, backed, kept and finished |
| incidents | 4 events of 2 kinds, a window of 3, 2 failed posts, 1 direct report per kind; a centre with keys and one without | exact counts, reopening, and liveness |

### Why the bounds are enough

A double order needs two handlers and either one key under two approvals or two keys under
one approval: `ThreeIntents` has both. Two faults allow a crash and a failure during its
recovery. Two publishers and three sequence numbers are what overtaking needs;
`MAX_ATTEMPTS` is 2 instead of 5 so that the dead letter is reached; the incident stream of
a dead letter is an aggregate of its own, so that a dead letter that produces events is
covered. One signal with two restarts lets a crash hit both the first attempt and its
recovery; two signals are the fewest that share an account and a tick; their interplay with
crashes exceeds TLC, and is covered for the safety properties by the theorems instead.
A race of promotions needs two handlers; the menu has a request for each stage up to APPROVED,
and among them repeated references, a single source, a foreign approval and a client that knows
the version, so that each check of `promote_candidate` both passes and fails. Six trades are
the fewest that the walk-forward test accepts, and a window of six (80 in the code) under seven
lets one be pushed out: the first, of which the ledger may have lost the link, and the two
verdicts on the rule differ. A listing of seven rows (500 in the code) is shorter than the
ledger can get, which with the decisions on the signal has up to nine. A stale write needs one
write of the bot, and two trades on the signal it writes for let it erase the link of either.
Two reprints and a third event are what the export of one event has to choose from; two items
of which a cycle follows up one (200 in the code) let a new one push an old one out before its
check; and time goes one step beyond the check, so that it can be made late. A window of
three under four events lets one be pushed out.

What grows without bound in the code is bounded by constants, and by nothing else: `MaxFaults`,
`MaxRestarts`, `OrderIds`, `MaxSeq`, `MaxLost`, `MaxWrites`, `MaxClock`, `NumEvents`,
`MaxFailures`, `MaxDirect`.
Passing runs are symmetric only in ids that no ordering or fairness depends on; the
liveness runs use no symmetry.

### Fairness

- OrderGateway: handler threads run (WF of `Handle`), time passes (`AgeKey`), and the
  runtime sends a submission of unknown outcome again on every tick (SF of `Receive`).
  Nothing is assumed of crashes, storage errors (bounded), humans or operators.
- Outbox: `publish_outbox` runs after each outermost transaction and at the end of each
  tick (`session.py:83`; WF of `Publish`);
  leases and back-offs are clocks. Failures and crashes are bounded by `MaxFaults`: a row
  whose publisher crashes every time is retried for ever, since attempts are compared with
  `MAX_ATTEMPTS` only when a failure is caught.
- TradeExecution: the bot ticks at a fixed interval (WF of `Bot`). Calls that are repeated
  each tick get through now and then (SF of the five that carry a pending task on, each of
  which is enabled and disabled as the loop goes round); handlers, the venue and the clocks
  go on (WF). Nothing is assumed of markets, feeds, previews or crashes.
- TradeLearning: `run_forever` starts a cycle after each, whatever it raised
  (`scripts/run_autonomous_layer.py`), and a dead layer is started again: WF of `Layer`. Cycles
  that die and the bot's writes are bounded; the bot need not go on.
- IntelligenceLoop: the same loop, WF of `Layer`; time goes on (SF of a cycle that finds it
  later) and symbols have a mark now and then (SF of a cycle that finds one). Sources need not
  ever list anything. Without the last assumption a symbol that is sold keeps its checks PENDING
  for ever, as in the code.
- IncidentCenter: the chief ticks for ever (WF of `Chief`), and the posts that fail are bounded,
  where the centre asks for no key. One that asks refuses every post of the chief, which no
  fairness makes good: `EventsArrive` promises nothing of it (section 7).
- StrategyEvolution: none; a client may give up at any step, and no liveness is promised.

`CHECK_DEADLOCK FALSE` is set for the outbox only: a bounded table may be wholly published.

### Properties worth reading first

`SpentApprovalsStaySpent`, `LedgersAgree`, `OrdersAreAuthorised` relate the two ledgers, the
venue and what people decided over all interleavings; `ReservationsSettle` depends on the
recovery path; `DeliveredInOrder` has to survive crashes between three transactions and
publishers that have lost their lease; `OrdersAreTracked` says that "never reached the venue" is
true when the bot records it; `MatchedInTurn` says what a DONE is worth when two orders share an
account; `MismatchMeansInterference` says what an INCIDENT after a fill means; `TasksSettle` is
the liveness of a task that asked for an approval. `FailClosed` and `TrailIsExact` say what is
left of a promotion whose handler died half-way. `TradesAreLearned` says that no lost update of
a trade that the snapshots still show is final, `DraftsAreEarned` relates a proposal to the
trades that were known when it was computed. `LostByFaultsOnly` bounds what the intelligence job
never decides on by the cycles that died; `LedgerIsBacked` relates the two stores it writes one
after the other. Each property has a mutant of the code in the module (an operator named in
PROJECT.json) under which its run fails.

## 5. What is proved

For every value of the constants that the modules' assumptions allow (TLC evaluates them on
each run):

| Theorem | Assumes | Says |
|---|---|---|
| OrderGatewayProofs!TypeCorrect | - | types |
| Invariance, ApprovalsPayOnce, KeysOrderOnce, LedgersAlwaysAgree, ApprovalsStaySpent, OrdersAuthorised, Refinement | `SerialKeys \/ ~StrongLookup` | the invariant; one order per approval and per key; the ledgers agree; spent approvals stay spent; every order has the body of an approval that a person granted; the gateway implements OneShotApproval, whose approvals pay for one order each |
| PermissionsHold | - | an approval that can pay, is being sent or has paid was granted by a person |
| OutboxProofs!TypeCorrect | - | types |
| Invariance, EventsInOrder, NothingLost, Refinement | prompt publishers and careful operators, or no operators | the invariant; order; no loss; the outbox implements OrderedDelivery |
| NoneOvertakes | prompt publishers and careful operators | an event becomes visible only when the rows before it are finished |
| TradeExecutionProofs!TypeCorrect, Invariance, ApprovalsAskedOnce, SubmittedHaveOrders | - | types; the invariant; one approval per signal; a submitted task has an order |
| OrdersTrackedUnlessLapsed, OrdersTracked | - ; no perishable intent | a task written off is without an order |
| MatchedTasksTookTurns | until the first restart; all orders are purchases, or all are sales, or there are no more than two | no two matched tasks were previewed on the same account |
| MismatchTellsInterference | `MaxRestarts = 0` | a mismatch says that another order moved the account, or that the baseline was not read |
| StrategyEvolutionProofs!TypeCorrect, Invariance, GatesHold, FailsClosed, Refinement, TrailExact | - | types; the invariant; gates are earned; fail-closed; the service implements StageLadder; the trail misses only what a handler that died owed it |
| IntelligenceLoopProofs!Typing, Invariance, LedgerBacked, OnlyFaultsLose, ObservationsKept | - | types, of the file and of every list too; the invariant; the ledger is backed; a cycle that died loses at most one event and nothing else does; observations stay |
| IncidentCenterProofs!TypeCorrect, Invariance, Counts, NewsReopens | - | types; the invariant; exact counts; only news reopens a case |
| TradeLearningProofs!Invariance, Typing, TradesBelongToOne, EpisodesAreSingle, ProposalsEarn | - | the invariant; types, and no two rows of one key; no trade in two decisions; one episode per decision; only what earned something is proposed |
| TestSetSuffices, StopsAreCounted | - ; results and multiples of the risk have the same sign | the walk-forward test always has its two trades; which stage a stop gets does not depend on any amount |
| ListProofs!OthersDecide, SoleOrderMatches, OtherOrderShows, OppositeOrdersHide, AllOthersDecide | amounts are integers, quantities positive | what a match and a mismatch say, for two orders and for any number |
| ListProofs!RecordKeepsChain, WrittenVerifies, StretchesVerify | distinct rows, an ideal hash | a log that verifies still does with one more row; what `record` writes verifies; what is left of it verifies exactly if it is contiguous |

The arguments:

*OrderGateway.* The safety properties are not inductive: what protects them is what the handlers
in flight know. `ClaimsAreExclusive` says that between claim and insertion a handler is the only
one that can reach its key and its approval; `LookupsAreCurrent` that what it learnt from the
venue still holds when it acts on it. The latter is where `Discipline` is needed: with a strong
lookup and two requests for one key, "no order" may be stale by the time the key is freed, and
that is precisely the run `orders_overlap`. The refinement follows a credential through a step:
an approval is only ever weakened, but by a creation, a yes and the claim of a handler
(`Weakened`, `SubmittingChanges`); what is being sent is not paid for (`SubmittingIsClaimed`),
so the row that `SaveOrder` adds spends a granted credential on its first order, and no other
step changes the orders of an approval. What a person granted never shrinks, and only `Decide`
makes an approval usable that was not (`PermissionsWereGranted`, which needs no discipline):
hence every order was granted. `ReadingsExist` says that a late write of EXPIRED is about an
approval that was requested: it may bring a deleted row back, but voids no credential nobody
asked for.

*Outbox.* `CandidatesAreHeads`: a row that is, or ever was, in somebody's batch, claimed or
dead has only passed events before it. This is stable because being passed is: a delivered
event stays delivered, and without operators nothing else passes; with operators the leases
(`LeasesHold`) keep a row from being terminated and published at once. From it order and the
refinement follow. Nobody overtakes, because where publishers are prompt a holder has not
lost its lease: a row that is passed has nobody at it any more, and stays so (`FinishedKept`,
`HeadsStayFinished`).

*TradeExecution.* The invariant has a half about tasks and a half about the loop.
Tasks: before its submission, or written off, a task is `Quiet` (no order, no
handler that may place one) unless its intent lapsed; an intent other than the approved one
was never accepted; a key tells whether its order exists, but for a crash. Loop: what is
queued still has the status it was listed for (`StillListed`), a task in APPROVED_SUBMITTING
is dealt with before the later groups (`SubmittingFirst`), so that a failing preview can
never write off a task that is being submitted; and the step the loop is at fits the task
(`TurnsFit`). Each bot action is shown to be a move that the order and approvals of the task
allow (`MayBecome`) and to leave the loop in order (`LoopLeaves`, `LoopGoesOn`, `TickEnds`).
No assumption on lapsing is needed for the invariant: the expiry enters it as an
exception, which is a divergence of section 7.
For the accounts `AccountInv` is added: a task past its preview is not taken up again, since its
signal is remembered or about to be (`TakenUpOnce`), so that its baseline is final; a baseline
does not hold the order it was read for (`BaselinePredatesOrder`); accounts only grow by fills
(`BaselinesBelow`); and a fill is recorded while the task is SUBMITTED (`FillFits`). A task is
DONE when the two totals are those of its baseline plus its own order. Where no fills cancel
each other in them (`NothingCancels`), the account then is its baseline plus that order, and if
it held the order of a task that was done before, so did the baseline. Fills of one side cannot
cancel, and a single other order cannot either (`OrdersAddUp`); a purchase and a sale can,
against a third (`OppositeOrdersHide`), hence the hypothesis of `MatchedTasksTookTurns`.
`TakenUpOnce` is false after a restart that comes before the note, hence the other one.

*StrategyEvolution.* That the gates are earned is not inductive, because what a handler knows
is old. `Snapshots` says that its version tells whether its copy of the row is still the row;
`EvidenceGrows` that the evidence table never has more than the row, and that what handlers are
about to append still fits; `GatesPassed` what each step has established for the next, which
stays true because approvals are not taken back (they lapse) and evidence is not removed;
`VerdictsSound` that a PASS, for whomever it was drawn, speaks of the evidence it is filed
under. The compare-and-swap then turns what was read into what is. `FailClosed` follows:
`Untampered` and `Current` together give `ledger = refs` at the time of the update. The trail is
exact because what is in it, or owed to it by a handler, lies behind the candidate's stage
(`EnteredOnce`), the path does not return, and each successful update counts the version once
(`VersionsCounted`).

*IntelligenceLoop.* The row of a shadow decision is written with its task recorded
(`TaskFirst`), and tasks do not go back; the row quotes an item in the list of follow-ups
(`ItemsListed`), and the checks of an item do not change once made (`Stays`). `Lost`, the
undecided items that no step is at, never grows but by the item of a cycle that ends, so that
its cardinality is bounded by `faults`. The types of the collection are an invariant of their
own (`CInv`): events are stored of documents that are there and are not pruned in between
(`StepsFit`), and the export is a part of the list of all documents, which `OnlyKeeps` types.

*TradeLearning.* That no trade is in two decisions is protected by what the two processes hold
in their hands. The bot's half-done upsert carries the trade that it read, and that trade is
still linked to the row (`BotFits`); the layer attaches a trade to the only row that may have
it (`TradeFits`) and imports it while no row has it; a row without a trade is written for a
signal only while none of the signal's rows has one (`SignalFits`), so that no attached
trade is overwritten by the layer itself. `OneKeyPerFill` follows, since what the bot writes is
either the fill of its own order, whose decision is that of the signal and side of the order
(`OwnFill`), or what it read. For this `StepsFit` says of each step which row it speaks of and
that the row is there: rows are never deleted (`KeysStay`). Candidates are saved anew in each
cycle, but a proposal is made from the row that holds the trades it was judged by
(`CandidatesFit`), and snapshots only grow.
A stop turns each trade it clips into a smaller loss, so its replay cannot lose: that is all
that `StopsAreCounted` needs. The test of a stop says whether one of the last trades lost more
than the stop allows, not what the stop would have earned.

*IncidentCenter.* The count is inductive with the types: reported events only grow, and one that
is added adds one to the cardinality of its kind.

*Lists.* What a recursive function on lists computes is taken apart by two lemmas: `Recursion`,
that a function that follows a step exists, and `Induction`, both from the least element of a
set of natural numbers (`Least`). The library's theorems for this take an operator as parameter,
which the provers cannot instantiate; a set of numbers they can.

*AccountReconciliation.* The record of a filled order says what was filled; then both
comparisons are the same difference, from which the order's own movement cancels. Any number of
orders add up to the total of what they add (`OrdersAdd`), and the last account is what the
order in question would have left of an account that all the others made.

*AuditChain.* A hash that verifies names its row and the hash before it; if two neighbours that
are left link up, their hashes are those of neighbours of the log, and rows are distinct, so
they were neighbours in the log.

Each formula was put to TLC before it was proved: the properties are those of the runs, and the
inductive invariants (`IInv`, `CInv`, `AccountInv`, `LedgerInv` with `StepsFit` and
`CandidatesFit`) hold in the instances of section 4; `AccountInv` also with two signals, both
modes and purged approvals, and `LedgerInv` with two writes of the bot.

## 6. What is only model-checked

Liveness (`ReservationsSettle`, `EventsSettle`, `TasksSettle`, `TradesAreLearned`,
`FollowUpsFinish`, `EventsArrive`): beyond this prover, on the instances of section 4 only.
Every other property of the passing runs is stated by a theorem, some of them under the
assumptions of the table in section 5: `MatchedInTurn` and `MismatchMeansInterference` are about
a bot that does not die, since after a restart a signal that is not remembered may be previewed
again, which rewrites the baseline of its task; the run `trade_steady` checks them under the
same restriction. `TasksSettle` is checked with one signal: that a task whose exception ends the
tick (`execution.py:634`) does not keep others from ending is not shown by any run.

## 7. Where code and documents disagree

With a run that exhibits it:

- `orders_overlap`: two overlapping retries of an aged key both find nothing at the venue;
  the late release (`routers/orders.py:386`) undoes the claim of the first, and the approval
  lets a second order through (`approval_store.py:10-11` promises one).

Seen while modelling, part of the models, without a run of their own. In the order path:

- a late write-back of an expiry overwrites a consumed approval (`approval_store.py:247`
  against `:186-187`); it never becomes usable again, which `SpentApprovalsStaySpent` states.
- the paper venue fills in memory before it inserts (`adapters/paper.py:240` against `:55`),
  and its account is lost at a restart while the baselines of the tasks are kept
  (`adapters/paper.py:60-76`): the tasks under way become mismatches.
- the kill switch is kept per process and cleared by a restart (`adapters/paper.py:272`
  against `docs/security/security-gap-efadc53.md:56,64`).
- the audit entry of an emergency stop is written before the stop (`routers/control.py:95`): an
  audit log that cannot be written prevents it.
- an expired intent never recovers its reservation (`routers/orders.py:290`), which is why
  `ReservationsSettle` is stated for intents that stay valid.
- the audit log verifies after rows at its beginning or end were deleted (`audit.py:99` says
  that any deletion is noticed); `StretchesVerify` says exactly which deletions are.

In the outbox and the execution:

- a publisher that lost its lease records a failure for a row its successor has published
  (`outbox.py:317`); the row is PENDING again while N+1, claimed before, is published
  (`docs/security/runtime-local-outbox.md:41`). `NoOvertaking` is checked for prompt publishers;
  that events become visible in order all the same is what `DeliveredInOrder` says of late ones.
- a row that is claimed when its aggregate is terminated is published nevertheless
  (`outbox.py:287` against `:404`), and perhaps after a later one, so that the order is lost:
  the operators of the runs act on rows that nobody holds (`CarefulOperators`).
- a task left in PREVIEWED by a crash belongs to no group that is resumed; the next tick
  previews its signal again and fails on PREVIEWED -> PREVIEWED, and so does every later one
  (`execution.py:1546`; `tasks.py:3-5`). `TasksSettle` speaks of tasks that asked for an approval.
- a bot restarted in shadow mode submits the approved tasks of its paper mode
  (`execution.py:238`; `execution.py:6`).
- a submission interrupted by a crash is answered INTENT_EXPIRED and recorded as "never
  reached the venue", although the order exists (`execution.py:296`; `tasks.py:16`): the
  exception in `OrdersAreTracked`.
- `unknown_since` is set once and never cleared (`execution.py:798`).
- a blocked task whose approval was purged asks for it for ever (`execution.py:661`):
  `TasksSettle` names this exception.

In strategy evolution and the incident centre:

- references are counted with repetitions (`state_machine.py:76`), so that one backtest, named
  twice, passes the count that is to exclude it (`state_machine.py:6`); the auditor counts
  distinct ones, so the last stages are not reached that way.
- an approval is looked up and not spent (`strategy_evolution/main.py`,
  `_verify_approval_with_gateway`): one approval serves APPROVED, CANARY and PRODUCTION.
- a promotion that died after its update leaves a candidate that never moves again, which
  reads as tampering (`main.py:253-259`); there is no repair.
- an event beyond the newest fifty is never forwarded, the tick ends at the first post that is
  not answered, and the status of an answer is not looked at (`chief.py:65,88`); an old event
  that is forwarded late reopens a case that was resolved after it.
- the chief sends no service key (`chief.py:74-90`), but the centre asks for one wherever it is
  not in development without keys (`service_auth.py:25-41`), and `scripts/start-backends.sh:30`
  insists on keys: in production every post of the chief is answered 401 and nobody notices.
  `EventsArrive` speaks of a centre that asks for none; the run has both.

In the ledger and the jobs:

- the bot's upsert writes back what it read (`store.py:593-634`), and with it erases the trade that
  was attached in between; the next cycle attaches it again, which `TradesAreLearned` states.
- a snapshot has the newest eighty closed trades only (`crypto_trades.py:19,68`, `export.py:194`):
  a trade that leaves them after a cycle that died is never learned, and a link that was erased
  then is never attached again. `TradesAreLearned` promises nothing of such a trade.
- a candidate is saved anew in each cycle without the mark that it was nominated
  (`trade_audit.py:188-205` against `:376`: idempotent), and is proposed again.
- a FILLED decision of the gateway whose trade is in no snapshot gets no episode
  (`trade_audit.py:157` says that each filled decision must have one), and fills of A shares
  have no closing time, so that their episodes stay OPEN.
- the branch of `walk_forward` for a test set below two (`pipeline.py:127`) is unreachable
  (`TestSetSuffices`), and its out-of-sample test of a stop cannot come out negative
  (`pipeline.py:149`; `StopsAreCounted`).
- an event whose cycle died after it was stored is never decided on (`intelligence.py:620`),
  the bound of which is `LostByFaultsOnly`; a judgement whose cycle died between the two
  writes (`intelligence.py:517`) is not quoted by the ledger unless another check follows.
- the price at the event is replaced at each ingestion (`store.py:335-343` keeps the follow-up
  and the time only), so that a check is compared with the price at the last ingestion
  (`docs/dual-quant-readonly-snapshot-bridge.md:82`).
- the file holds the events with the highest ids, which are hashes, and not the newest
  (`intelligence_ingest/store.py:193`); a page of links yields new documents at each fetch
  (`collectors.py:149-160`).

## 8. What is not modelled, and why

Authentication, projections, the web console, the snapshot bridge and the risk policy keep no
state or only convert formats. Cash and positions are reads, and cancelling an order calls the
adapter without touching either ledger; the bot never cancels. Reports, scores, verdicts,
profiles and experiments are written and read by no guard. An operation whose audit entry fails
and the kill switch of a second worker are described in section 7 and not modelled; neither are
the rate limits and the health of sources, which only make a cycle pass a source over.
TradeLearning follows one bot and one day; the optimisation of its instance has one rule, and a
snapshot that is missing or cannot be read, which shows no trade for a cycle, is left out: it
delays what the next one does, and `TradesAreLearned` takes it that a readable one comes. A file
is replaced atomically (`os.replace`). SQLite is taken at its word: a transaction is atomic and
durable, `BEGIN IMMEDIATE` excludes other writers. Clocks are not compared with each other: an
expiry may pass at any moment, and every process sees it at once.
