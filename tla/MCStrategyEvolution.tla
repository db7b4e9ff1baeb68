------------------------- MODULE MCStrategyEvolution -------------------------
(* StrategyEvolution on an instance that TLC can exhaust.                   *)
EXTENDS StrategyEvolution, TLC

CONSTANTS b1, b2, s1, a1, a2, h1, h2

Origin == b1 :> "backtest" @@ b2 :> "backtest" @@ s1 :> "shadow"

Ask(target, evidence, approval) ==
    [target |-> target, refs |-> evidence, approval |-> approval, expected |-> 0]

One == [r \in Refs |-> IF r = b1 THEN 1 ELSE 0]
Twice == [r \in Refs |-> IF r = b1 THEN 2 ELSE 0]
Pair == [r \in Refs |-> IF r = s1 THEN 0 ELSE 1]
All == [r \in Refs |-> 1]
Same == [r \in Refs |-> IF r = b1 THEN 3 ELSE 0]

\* A client for each stage up to APPROVED, and one that retires the candidate; some
\* repeat a reference or bring one source, one names the approval of something else
\* and one knows the version.
Requests ==
    {Ask("BACKTESTED", One, NoApproval), Ask("VALIDATED", Twice, NoApproval),
     Ask("PAPER", Pair, NoApproval), [Ask("SHADOW", Pair, a2) EXCEPT !.expected = 4],
     Ask("APPROVED", All, a1), Ask("APPROVED", Same, a1), Ask("RETIRED", Nothing, NoApproval)}

Ids == Permutations(Handlers)
==============================================================================
