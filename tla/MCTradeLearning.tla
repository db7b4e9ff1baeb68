-------------------------- MODULE MCTradeLearning --------------------------
(* TradeLearning on an instance that TLC can exhaust.                       *)
EXTENDS TradeLearning, TLC

CONSTANTS f1, f2, f3, f4, f5, f6, f7, s1, g1

Closed(fill, signal, pnl, r) ==
    [fill |-> fill, signal |-> signal, side |-> "SELL", pnl |-> pnl, r |-> r,
     fee |-> 0, long |-> FALSE]

\* Two trades on one signal, the first of which leaves the window; the losses beyond
\* the stop are in the test set of the first window, and before that of the second.
Trades ==
    << Closed(f1, s1, -20, -2), Closed(f2, NoSignal, 10, 1), Closed(f3, NoSignal, -30, -3),
       Closed(f4, NoSignal, 10, 1), Closed(f5, s1, -20, -2), Closed(f6, NoSignal, 10, 1),
       Closed(f7, NoSignal, 10, 1) >>

\* The fill of the bot's own order on the signal.
Orders == g1 :> <<s1, "SELL">>
============================================================================
