------------------------ MODULE OptimizationPipeline ------------------------
(***************************************************************************)
(* The stage that the optimisation pipeline gives a replay rule            *)
(* (packages/dsh-runtime, pipeline.py).  A rule is replayed over the       *)
(* closed trades, oldest first: it clips some of them, and what the clipped*)
(* ones would have earned is compared with what they did.                  *)
(*                                                                         *)
(* Amounts are integers.  A trade has r = NoR when it records no multiple  *)
(* of its risk, and is long when it was held for more than 48 hours.       *)
(***************************************************************************)
EXTENDS Lists, SequencesExt, FiniteSetsExt

CONSTANT NoR

\* RULES, and the cap of those that move the stop.
Cap == [rule \in {"stop-1r", "stop-2r"} |-> IF rule = "stop-1r" THEN -1 ELSE -2]
RuleIds == DOMAIN Cap \cup {"skip-hold-48h", "skip-fee-drag"}

PipelineStages == <<"SUGGESTION", "REPLAY", "BACKTEST", "SHADOW">>

Size(x) == IF x < 0 THEN -x ELSE x

\* Trades without a multiple of the risk say nothing of a stop.
Usable(rule, trades) ==
    IF rule \in DOMAIN Cap THEN Only(trades, {t \in Range(trades) : t.r # NoR}) ELSE trades

Clips(rule, t) ==
    \/ rule \in DOMAIN Cap /\ t.r < Cap[rule]
    \/ rule = "skip-hold-48h" /\ t.long /\ t.pnl <= 0
    \/ rule = "skip-fee-drag" /\ t.pnl # 0 /\ 10 * t.fee >= 3 * Size(t.pnl)

\* A stop scales the result to its cap, the others skip the trade.
Replayed(rule, t) ==
    IF ~Clips(rule, t) THEN t.pnl
    ELSE IF rule \in DOMAIN Cap THEN -((t.pnl * Cap[rule]) \div (-t.r))
    ELSE 0

\* delta, and whether anything is clipped, over usable trades.
Delta(rule, trades) ==
    Total([i \in DOMAIN trades |-> Replayed(rule, trades[i]) - trades[i].pnl])
Clipped(rule, trades) == \E i \in DOMAIN trades : Clips(rule, trades[i])

\* walk_forward: at least six trades, the last third of them for the test.
Cut(n) == Max({3, (7 * n) \div 10})
Backtested(trades) == Len(trades) >= 6 /\ Len(trades) - Cut(Len(trades)) >= 2
TestDelta(rule, trades) == Delta(rule, SubSeq(trades, Cut(Len(trades)) + 1, Len(trades)))

\* run_optimization_pipeline gives no candidate below three usable trades.
Suggested(rule, trades) == Len(Usable(rule, trades)) >= 3

\* Mutant of StageFor: a rule that pays on all the trades needs no test.
StageForUntested(rule, trades) ==
    LET rows == Usable(rule, trades) IN
    IF ~Clipped(rule, rows) \/ Delta(rule, rows) <= 0 THEN "SUGGESTION" ELSE "SHADOW"

\* _stage_for.
StageFor(rule, trades) ==
    LET rows == Usable(rule, trades) IN
    IF ~Clipped(rule, rows) \/ Delta(rule, rows) <= 0 THEN "SUGGESTION"
    ELSE IF ~Backtested(rows) THEN "REPLAY"
    ELSE IF TestDelta(rule, rows) > 0 THEN "SHADOW"
    ELSE "BACKTEST"
=============================================================================
