--------------------------- MODULE TradeLearning ---------------------------
(***************************************************************************)
(* What a bot learns from the trades that were closed for it: the decision *)
(* ledger, the episodes and the optimisation candidates of                 *)
(* packages/dsh-runtime.  One process, the layer, repeats                  *)
(* run_autonomous_cycle for ever; another, the bot, writes rows of the     *)
(* same ledger while it executes orders.  Statements outside a transaction *)
(* interleave, so a row that is read, changed and written may have changed *)
(* between.  A cycle may end before any commit: an exception, or a crash.  *)
(*                                                                         *)
(* One bot and one day.  The other jobs of the cycle touch nothing that is *)
(* kept here, and of a row only what links it to trades is kept.  The      *)
(* reports are computed from the candidates, and read by no guard.         *)
(***************************************************************************)
EXTENDS OptimizationPipeline, FiniteSets

CONSTANTS
    History,       \* the closed trades, in the order in which they close
    Started,       \* how many of them have closed when the layer starts
    Window,        \* a snapshot has the newest of them only
    ListLimit,     \* a listing of the ledger has its newest rows only
    Signals,       \* the signals in the snapshot, which are official
    Actions,       \* what a row of the ledger advises
    Watch,         \* the one of them that is no side: nothing is bought or sold
    Rules,         \* the rules that are replayed, of RuleIds
    GatewayFills,  \* fills of the bot's own orders
    OrderOf,       \* the signal and the side of the order of each
    NoFill, NoSignal, NoRow,
    MaxWrites,     \* bound on the rows that the bot writes
    MaxFaults      \* bound on the cycles that end early

Fills == {History[i].fill : i \in DOMAIN History}
ClosedTrade == [fill : Fills, signal : Signals \cup {NoSignal}, side : Actions \ {Watch},
                pnl : Int, r : Int \cup {NoR}, fee : Int, long : BOOLEAN]

\* The unique index of decision_ledger, which stands for decision_id.
Keys == [event : Fills \cup {NoFill}, signal : Signals \cup {NoSignal}, action : Actions]
Row == [key : Keys, fill : Fills \cup GatewayFills \cup {NoFill},
        trade : Fills \cup {NoFill}, audited : BOOLEAN]

Candidate == [stage : Range(PipelineStages), basis : Nat, nominated : BOOLEAN]

ASSUME LearningAssumption ==
    /\ History \in Seq(ClosedTrade)
    /\ \A i, j \in DOMAIN History : History[i].fill = History[j].fill => i = j
    /\ OrderOf \in [GatewayFills -> Signals \X (Actions \ {Watch})]
    /\ IsFiniteSet(Signals)
    /\ Fills \cap GatewayFills = {} /\ NoFill \notin Fills \cup GatewayFills
    /\ NoSignal \notin Signals /\ NoRow \notin Row \cup Candidate
    /\ Started \in 0..Len(History)
    /\ Window \in Nat \ {0} /\ ListLimit \in Nat
    /\ Rules \subseteq RuleIds
    /\ MaxWrites \in Nat /\ MaxFaults \in Nat

VARIABLES
    shown,      \* how many trades had closed for the snapshot that was last read
    ledger,     \* decision_ledger, the row updated last first
    episodes,   \* position_episodes: those of each decision, the oldest first
    candidates, \* optimization_candidates
    drafts,     \* the candidates that strategy-evolution registered
    pc,         \* the step of the cycle that the layer is at
    todo,       \* what is left of the list that the step goes through
    target,     \* the row the layer read, NoRow if there was none
    touched,    \* decision_ids
    upserting,  \* what each process is about to write, and the row it read, or <<>>
    writes, faults

store == <<ledger, episodes, candidates>>
layer == <<pc, todo, target, touched>>
vars == <<shown, store, drafts, layer, upserting, writes, faults>>

-----------------------------------------------------------------------------
\* The trades a snapshot has once n have closed, the oldest first.
Oldest(n) == IF n > Window THEN n - Window + 1 ELSE 1
Snapshot(n) == SubSeq(History, Oldest(n), n)

Key(event, signal, action) == [event |-> event, signal |-> signal, action |-> action]
NewRow(key, fill, trade) == [key |-> key, fill |-> fill, trade |-> trade, audited |-> FALSE]

\* The row updated last of those that pass a test, and the row of a key.
Latest(Test(_)) ==
    IF \E i \in DOMAIN ledger : Test(ledger[i])
    THEN ledger[CHOOSE i \in DOMAIN ledger :
                  Test(ledger[i]) /\ \A j \in 1..i - 1 : ~Test(ledger[j])]
    ELSE NoRow
Get(key) == Latest(LAMBDA r : r.key = key)

\* Mutant of ByFill: only the event is compared.
ByFillEvent(fill) == Latest(LAMBDA r : fill = r.key.event)

\* find_by_fill, find_by_signal.
ByFill(fill) == Latest(LAMBDA r : fill \in {r.fill, r.key.event})
BySignal(signal) == Latest(LAMBDA r : signal # NoSignal /\ r.key.signal = signal)

\* Mutant of Put: the row is inserted anew.
PutAgain(row) == <<row>> \o ledger

\* INSERT or UPDATE, with updated_at = now.
Put(row) == <<row>> \o RemoveFirstMatch(ledger, LAMBDA r : r.key = row.key)

Phases == {"idle", "signal", "select", "record", "load", "find", "attach", "import",
           "ensure", "open", "close", "list", "score", "audit", "pipeline", "post", "save"}

\* What the list that a step goes through is of.
ListedIn(step) ==
    CASE step \in {"signal", "select", "record"}         -> Signals
      [] step \in {"find", "attach", "import"}           -> Fills
      [] step \in {"ensure", "open", "close"}            -> Keys
      [] step \in {"score", "audit"}                     -> Keys
      [] step \in {"pipeline", "post", "save"}           -> Rules
      [] OTHER                                           -> {}

TypeOK ==
    /\ shown \in 0..Len(History)
    /\ ledger \in Seq(Row)
    /\ \A i, j \in DOMAIN ledger : ledger[i].key = ledger[j].key => i = j
    /\ episodes \in [Keys -> Seq({"OPEN", "CLOSED"})]
    /\ candidates \in [Rules -> Candidate \cup {NoRow}]
    /\ drafts \subseteq [rule : Rules, basis : Nat]
    /\ pc \in Phases
    /\ todo \in Seq(ListedIn(pc))
    /\ target \in Row \cup {NoRow}
    /\ touched \in Seq(Keys)
    /\ upserting \in [{"layer", "bot"} -> {<<>>} \cup (Row \X (Row \cup {NoRow}))]
    /\ writes \in 0..MaxWrites /\ faults \in 0..MaxFaults

-----------------------------------------------------------------------------
Goto(step, list) == pc' = step /\ todo' = list

\* What DecisionLedger.upsert writes over the row it read: what was linked stays linked.
Merged(row, prior) ==
    IF prior = NoRow THEN row
    ELSE [prior EXCEPT !.fill = IF row.fill = NoFill THEN @ ELSE row.fill,
                       !.trade = IF row.trade = NoFill THEN @ ELSE row.trade]

Select(p, row) == upserting' = [upserting EXCEPT ![p] = <<row, Get(row.key)>>]

\* The INSERT of a row that another process has inserted meanwhile fails.
Refused(p) == upserting[p][2] = NoRow /\ Get(upserting[p][1].key) # NoRow
Write(p) ==
    /\ ~Refused(p)
    /\ ledger' = Put(Merged(upserting[p][1], upserting[p][2]))
    /\ upserting' = [upserting EXCEPT ![p] = <<>>]

\* The cycle ends early.
Abort ==
    /\ Goto("idle", <<>>)
    /\ target' = NoRow /\ touched' = <<>>
    /\ upserting' = [upserting EXCEPT !["layer"] = <<>>]

-----------------------------------------------------------------------------
\* run_forever starts a cycle.
Wake ==
    /\ pc = "idle"
    /\ Goto("signal", SetToSeq(Signals))
    /\ UNCHANGED <<store, drafts, target, touched, upserting>>

\* record_snapshot_decisions skips a signal that the ledger has.
FindSignal ==
    /\ pc = "signal"
    /\ IF todo = <<>> THEN Goto("load", <<>>)
       ELSE IF BySignal(Head(todo)) # NoRow THEN Goto("signal", Tail(todo))
       ELSE Goto("select", todo)
    /\ UNCHANGED <<store, drafts, target, touched, upserting>>

\* A pending signal is watched, another one advises its side.
SelectSignal ==
    /\ pc = "select"
    /\ \E action \in Actions :
         Select("layer", NewRow(Key(NoFill, Head(todo), action), NoFill, NoFill))
    /\ Goto("record", Tail(todo))
    /\ UNCHANGED <<store, drafts, target, touched>>

RecordSignal ==
    /\ pc = "record"
    /\ \/ /\ Write("layer")
          /\ Goto("signal", todo)
          /\ UNCHANGED <<target, touched>>
       \/ Refused("layer") /\ Abort /\ UNCHANGED ledger
    /\ UNCHANGED <<episodes, candidates, drafts>>

\* Mutant of Load: what an earlier snapshot had is not loaded again.
LoadNews ==
    /\ pc = "load"
    /\ shown' \in shown..Len(History)
    /\ Goto("find", Reverse([i \in 1..shown' - shown |-> History[shown + i].fill]))
    /\ UNCHANGED <<store, drafts, target, touched, upserting>>

\* load_closed_trades: the snapshot may have been exported anew, when more trades
\* had closed, and has the newest first (map_crypto_closed_trades).
Load ==
    /\ pc = "load"
    /\ shown' \in shown..Len(History)
    /\ LET trades == Snapshot(shown') IN
       Goto("find", Reverse([i \in DOMAIN trades |-> trades[i].fill]))
    /\ UNCHANGED <<store, drafts, target, touched, upserting>>

\* The decision a trade belongs to: the one that has it, or the last one on its
\* signal if that has no fill yet.
Existing(t) ==
    LET candidate == BySignal(t.signal) IN
    IF ByFill(t.fill) # NoRow THEN ByFill(t.fill)
    ELSE IF candidate # NoRow /\ candidate.fill = NoFill THEN candidate
    ELSE NoRow

\* The episodes come after the trades, and each trade touches one decision.
Find ==
    /\ pc = "find"
    /\ \/ todo = <<>> /\ Goto("ensure", touched) /\ UNCHANGED <<target, upserting>>
       \/ /\ todo # <<>>
          /\ \E t \in Range(History) :
               /\ t.fill = Head(todo)
               /\ LET existing == Existing(t) IN
                  \/ /\ existing # NoRow
                     /\ target' = existing /\ Goto("attach", todo)
                     /\ UNCHANGED upserting
                  \/ /\ existing = NoRow
                     /\ Select("layer", NewRow(Key(t.fill, t.signal, t.side), t.fill, t.fill))
                     /\ Goto("import", todo)
                     /\ UNCHANGED target
    /\ UNCHANGED <<store, drafts, touched>>

\* attach_fill writes over whatever the row holds by now.
Attach ==
    /\ pc = "attach"
    /\ ledger' = Put([Get(target.key) EXCEPT !.fill = Head(todo), !.trade = Head(todo)])
    /\ touched' = Append(touched, target.key)
    /\ target' = NoRow
    /\ Goto("find", Tail(todo))
    /\ UNCHANGED <<episodes, candidates, drafts, upserting>>

\* The row is keyed by the fill, which no other process writes.
Import ==
    /\ pc = "import"
    /\ Write("layer")
    /\ touched' = Append(touched, upserting["layer"][1].key)
    /\ Goto("find", Tail(todo))
    /\ UNCHANGED <<episodes, candidates, drafts, target>>

\* Mutant of Opened: only an open episode counts.
OpenedAgain(key) ==
    IF \E i \in DOMAIN episodes[key] : episodes[key][i] = "OPEN" THEN episodes[key]
    ELSE Append(episodes[key], "OPEN")

\* open_episode: a decision that has had one, open or closed, gets no other.
Opened(key) == IF episodes[key] # <<>> THEN episodes[key] ELSE <<"OPEN">>

\* _ensure_episode, which goes by the row it reads first.
EnsureEpisode ==
    /\ pc = "ensure"
    /\ IF todo = <<>> THEN Goto("list", <<>>) /\ UNCHANGED target
       ELSE target' = Get(Head(todo)) /\ Goto("open", todo)
    /\ UNCHANGED <<store, drafts, touched, upserting>>

\* A new episode is linked in the decision's row, in the same transaction: the row
\* keeps what it holds by now and is the one updated last.
OpenEpisode ==
    /\ pc = "open"
    /\ episodes' = [episodes EXCEPT ![target.key] = Opened(target.key)]
    /\ ledger' = IF episodes[target.key] # <<>> THEN ledger ELSE Put(Get(target.key))
    /\ Goto("close", todo)
    /\ UNCHANGED <<candidates, drafts, target, touched, upserting>>

CloseEpisode ==
    /\ pc = "close"
    /\ episodes' = IF target.trade = NoFill THEN episodes
                   ELSE [episodes EXCEPT ![target.key] = Append(Front(@), "CLOSED")]
    /\ target' = NoRow
    /\ Goto("ensure", Tail(todo))
    /\ UNCHANGED <<ledger, candidates, drafts, touched, upserting>>

\* Every listed decision that has a trade is scored again.
List ==
    /\ pc = "list"
    /\ LET listed == SubSeq(ledger, 1, Min({ListLimit, Len(ledger)}))
           traded == Only(listed, {r \in Range(listed) : r.trade # NoFill}) IN
       Goto("score", [i \in DOMAIN traded |-> traded[i].key])
    /\ touched' = <<>>
    /\ UNCHANGED <<store, drafts, target, upserting>>

\* attach_audit reads the payload, and writes it back whole.
Score ==
    /\ pc = "score"
    /\ IF todo = <<>> THEN Goto("pipeline", SetToSeq(Rules)) /\ UNCHANGED target
       ELSE target' = Get(Head(todo)) /\ Goto("audit", todo)
    /\ UNCHANGED <<store, drafts, touched, upserting>>

AttachAudit ==
    /\ pc = "audit"
    /\ ledger' = Put([Get(target.key) EXCEPT !.trade = target.trade, !.audited = TRUE])
    /\ target' = NoRow
    /\ Goto("score", Tail(todo))
    /\ UNCHANGED <<episodes, candidates, drafts, touched, upserting>>

\* run_optimization_pipeline and _persist_candidates, which forgets a nomination.
\* Then the candidates are listed for _nominate_shadow_candidates.
SaveCandidate ==
    /\ pc = "pipeline"
    /\ \E trades \in {Snapshot(shown)} :
       IF todo = <<>>
       THEN /\ Goto("post", SetToSeq({rule \in Rules : /\ candidates[rule] # NoRow
                                                       /\ candidates[rule].stage = "SHADOW"
                                                       /\ ~candidates[rule].nominated}))
            /\ UNCHANGED candidates
       ELSE /\ candidates' =
                 IF ~Suggested(Head(todo), trades) THEN candidates
                 ELSE [candidates EXCEPT ![Head(todo)] =
                         [stage |-> StageFor(Head(todo), trades), basis |-> shown,
                          nominated |-> FALSE]]
            /\ Goto("pipeline", Tail(todo))
    /\ UNCHANGED <<ledger, episodes, drafts, target, touched, upserting>>

\* nominate_candidate_to_evolution asks for a DRAFT; one that fails, perhaps after
\* it was registered, is passed over.  After the last one the cycle is over.
Post ==
    /\ pc = "post"
    /\ \/ /\ todo = <<>>
          /\ Abort
          /\ UNCHANGED drafts
       \/ /\ todo # <<>>
          /\ \E outcome \in {"created", "lost", "failed"} :
               /\ drafts' = IF outcome = "failed" THEN drafts
                            ELSE drafts \cup {[rule |-> Head(todo),
                                               basis |-> candidates[Head(todo)].basis]}
               /\ IF outcome = "created" THEN Goto("save", todo)
                  ELSE Goto("post", Tail(todo))
          /\ UNCHANGED <<target, touched, upserting>>
    /\ UNCHANGED store

SaveNomination ==
    /\ pc = "save"
    /\ candidates' = [candidates EXCEPT ![Head(todo)].nominated = TRUE]
    /\ Goto("post", Tail(todo))
    /\ UNCHANGED <<ledger, episodes, drafts, target, touched, upserting>>

Layer ==
    /\ \/ Load
       \/ /\ \/ Wake \/ FindSignal \/ SelectSignal \/ RecordSignal \/ Find \/ Attach
             \/ Import \/ EnsureEpisode \/ OpenEpisode \/ CloseEpisode \/ List \/ Score
             \/ AttachAudit \/ SaveCandidate \/ Post \/ SaveNomination
          /\ UNCHANGED shown
    /\ UNCHANGED <<writes, faults>>

-----------------------------------------------------------------------------
\* An exception anywhere in the cycle, or the death of the layer.
Fault ==
    /\ pc # "idle" /\ faults < MaxFaults
    /\ faults' = faults + 1
    /\ Abort
    /\ UNCHANGED <<shown, store, drafts, writes>>

\* _sync_execution_ledger and _record_shadow: the bot upserts the row of a signal,
\* with the fill of its own order once there is one.
BotSelect ==
    /\ upserting["bot"] = <<>> /\ writes < MaxWrites
    /\ writes' = writes + 1
    /\ \E signal \in Signals, action \in Actions, fill \in GatewayFills \cup {NoFill} :
         /\ fill # NoFill => OrderOf[fill] = <<signal, action>>
         /\ Select("bot", NewRow(Key(NoFill, signal, action), fill, NoFill))
    /\ UNCHANGED <<shown, store, drafts, layer, faults>>

\* A refused INSERT ends the tick of the bot.
BotWrite ==
    /\ upserting["bot"] # <<>>
    /\ \/ Write("bot")
       \/ /\ Refused("bot")
          /\ upserting' = [upserting EXCEPT !["bot"] = <<>>]
          /\ UNCHANGED ledger
    /\ UNCHANGED <<shown, episodes, candidates, drafts, layer, writes, faults>>

Init ==
    /\ shown = Started
    /\ ledger = <<>>
    /\ episodes = [key \in Keys |-> <<>>]
    /\ candidates = [rule \in Rules |-> NoRow]
    /\ drafts = {}
    /\ pc = "idle" /\ todo = <<>> /\ target = NoRow /\ touched = <<>>
    /\ upserting = [p \in {"layer", "bot"} |-> <<>>]
    /\ writes = 0 /\ faults = 0

Next == Layer \/ Fault \/ BotSelect \/ BotWrite

\* The loop of the layer goes on whatever its cycles raise, and is started again
\* when it dies.
Spec == Init /\ [][Next]_vars /\ WF_vars(Layer)

-----------------------------------------------------------------------------
\* No fill is linked to two decisions, whatever the bot writes meanwhile: a trade
\* that is found by its fill is never imported, and one whose link the bot's stale
\* row erased is not attached next to another decision that has it
\* (trade_audit.py, ingest_and_audit_trades).
OneDecisionPerFill ==
    \A i, j \in DOMAIN ledger : ledger[i].fill = ledger[j].fill => i = j \/ ledger[i].fill = NoFill

\* A decision has at most one episode, however often its trade is ingested again
\* and whichever cycle died between opening and closing it (store.py, open_episode).
OneEpisodePerDecision == \A key \in Keys : Len(episodes[key]) <= 1

\* A rule that was proposed to strategy-evolution would have earned something on six
\* or more trades of one snapshot, and on the last third of them, which the
\* walk-forward test sets aside; and this whichever cycle died between computing,
\* saving and proposing it, and however the window moved on meanwhile (pipeline.py,
\* _stage_for; autonomous.py, _nominate_shadow_candidates).
DraftsAreEarned ==
    \A draft \in drafts :
        LET rows == Usable(draft.rule, Snapshot(draft.basis)) IN
        /\ Len(rows) >= 6 /\ Delta(draft.rule, rows) > 0
        /\ TestDelta(draft.rule, rows) > 0

\* A closed trade is learned from when one decision has it, is audited, and has a
\* closed episode.
Learned(fill) ==
    \E i \in DOMAIN ledger :
        /\ ledger[i].fill = fill /\ ledger[i].trade = fill /\ ledger[i].audited
        /\ episodes[ledger[i].key] = <<"CLOSED">>

\* Every trade that the snapshots go on showing is learned from in the end and stays
\* so, although cycles die and the bot overwrites links with rows it read before
\* (scripts/run_autonomous_layer.py, run_forever; trade_audit.py).  A trade that
\* newer ones push out of the window is promised nothing: neither that a cycle
\* that died is made up for, nor that an erased link comes back.
TradesAreLearned ==
    <>[](\A i \in Oldest(shown)..shown : Learned(History[i].fill))

-----------------------------------------------------------------------------
(* The inductive invariant behind the safety properties.                   *)

Rows == Range(ledger)
Stored(key) == \E r \in Rows : r.key = key

\* What each step of the cycle goes by.
StepsFit ==
    /\ pc \in {"select", "attach", "import", "open", "close", "audit", "save"} => todo # <<>>
    /\ pc \in {"record", "import"} => upserting["layer"] # <<>>
    /\ pc \in {"attach", "open", "close", "audit"} => target # NoRow /\ Stored(target.key)
    /\ pc \in {"ensure", "open", "close", "score", "audit"} =>
         \A i \in DOMAIN todo : Stored(todo[i])
    /\ \A i \in DOMAIN touched : Stored(touched[i])

\* A fill of an order is linked to the decision on its signal and its side, and an
\* imported trade to the decision that was made for it.
OwnFill(row) ==
    /\ row.fill \in GatewayFills =>
         row.key = Key(NoFill, OrderOf[row.fill][1], OrderOf[row.fill][2])
    /\ row.key.event # NoFill => row.fill = row.key.event
RowsFit == \A r \in Rows : OwnFill(r)

\* What is about to be written goes over the row that was read, ...
PriorFits(row, prior) == prior # NoRow => prior.key = row.key /\ Stored(row.key) /\ OwnFill(prior)

\* ... and a trade that the bot read in it is linked to it still.
BotFits ==
    LET row == upserting["bot"][1]
        prior == upserting["bot"][2] IN
    upserting["bot"] # <<>> =>
      /\ OwnFill(row) /\ PriorFits(row, prior)
      /\ row.key.event = NoFill /\ row.fill \notin Fills
      /\ prior # NoRow /\ prior.fill \in Fills
           => \A r \in Rows : r.key = row.key => r.fill = prior.fill

\* A signal that had no decision when the cycle looked has none with a trade since.
Untraded(signal) == \A r \in Rows : r.key.signal = signal => r.fill \notin Fills
SignalFits ==
    LET row == upserting["layer"][1]
        prior == upserting["layer"][2] IN
    /\ pc = "select" => Untraded(Head(todo))
    /\ pc = "record" => /\ Untraded(row.key.signal) /\ PriorFits(row, prior)
                        /\ row.key.event = NoFill /\ row.fill = NoFill
                        /\ prior # NoRow => prior.fill \notin Fills

\* A trade is imported while no decision has it, and attached to the only one that
\* may have it, which has no other.
TradeFits ==
    LET row == upserting["layer"][1]
        prior == upserting["layer"][2] IN
    /\ pc = "import" => /\ prior = NoRow /\ row.key.event = Head(todo) /\ row.fill = Head(todo)
                        /\ \A r \in Rows : Head(todo) \notin {r.fill, r.key.event}
    /\ pc = "attach" => /\ target.key.event \in {NoFill, Head(todo)}
                        /\ \A r \in Rows :
                             /\ r.key = target.key => r.fill \in GatewayFills \cup {NoFill, Head(todo)}
                             /\ r.fill = Head(todo) => r.key = target.key

OneKeyPerFill == \A r, q \in Rows : r.fill = q.fill /\ r.fill # NoFill => r.key = q.key

LedgerInv == RowsFit /\ BotFits /\ SignalFits /\ TradeFits /\ OneKeyPerFill

\* A candidate at the stage SHADOW got there by the trades that it was judged by.
InShadow(rule) == candidates[rule] # NoRow /\ candidates[rule].stage = "SHADOW"
CandidatesFit ==
    /\ \A rule \in Rules :
         InShadow(rule) => StageFor(rule, Snapshot(candidates[rule].basis)) = "SHADOW"
                           /\ candidates[rule].basis <= Len(History)
    /\ pc \in {"post", "save"} => \A i \in DOMAIN todo : InShadow(todo[i])
=============================================================================
