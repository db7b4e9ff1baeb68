-------------------------- MODULE MCTradeExecution --------------------------
(***************************************************************************)
(* A purchase in one symbol and a sale in another, in one account: neither *)
(* shows in the position of the other, both show in the cash.              *)
(***************************************************************************)
EXTENDS TradeExecution

MCOrder == <<[symbol |-> "BTC", shares |-> 1, cash |-> -3],
             [symbol |-> "ETH", shares |-> -1, cash |-> 2]>>
=============================================================================
