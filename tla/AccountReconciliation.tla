----------------------- MODULE AccountReconciliation -----------------------
(***************************************************************************)
(* The arithmetic of a reconciliation: evaluate_reconcile of               *)
(* packages/dsh-runtime compares the account that the gateway reports with *)
(* the account as it was at the preview, moved by the fill of one order.   *)
(* The paper venue says what an order moves.                               *)
(*                                                                         *)
(* Amounts are integers, counted in the smallest unit that anyone uses, so *)
(* that the tolerance is a number of such units.  An amount that is not    *)
(* given is the default that the code takes for it.                        *)
(*                                                                         *)
(* TradeExecution's Matches compares the same two totals, of orders filled *)
(* in lots and with no tolerance; ListProofs proves what the comparison is *)
(* worth: an order matches exactly if all the others together moved the    *)
(* account by no more than the tolerance.                                  *)
(***************************************************************************)
EXTENDS Integers, Sequences, Lists

\* within
Within(actual, expected, tolerance) == actual - expected \in -tolerance..tolerance

\* filled_quantity_from_venue: the fills, if there are any, else the total.
FilledQuantity(order) ==
    IF order.fills = <<>> THEN order.filled
    ELSE Total([i \in DOMAIN order.fills |-> order.fills[i].quantity])

\* expected_position_after and expected_cash_after.
ExpectedPosition(baseline, side, filled) ==
    IF side = "BUY" THEN baseline.position + filled ELSE baseline.position - filled
ExpectedCash(baseline, side, filled, order) ==
    LET costs == order.fees + order.taxes
        notional == filled * order.price IN
    IF side = "BUY" THEN baseline.cash - notional - costs ELSE baseline.cash + notional - costs

\* The verdict of evaluate_reconcile.  The position is the one found in the
\* symbol, the account the one of that name: a set of one, or of none.
Matched(side, baseline, order, positions, accounts, tolerance) ==
    LET filled == FilledQuantity(order) IN
    /\ filled > 0
    /\ \E p \in positions :
         /\ Within(p.quantity, ExpectedPosition(baseline, side, filled), tolerance)
         /\ Within(p.available + p.frozen, p.quantity, tolerance)
    /\ \E a \in accounts :
         /\ Within(a.cash, ExpectedCash(baseline, side, filled, order), tolerance)
         /\ Within(a.available + a.frozen, a.cash, tolerance)

-----------------------------------------------------------------------------
(* The paper venue.                                                        *)

Sides == {"BUY", "SELL"}
Holdings == [position : Int, cash : Int]

\* request_order: what a filled order leaves of the holdings.  Another status
\* moves nothing.
Moved(holdings, side, quantity, amount) ==
    IF side = "BUY"
    THEN [position |-> holdings.position + quantity, cash |-> holdings.cash - amount]
    ELSE [position |-> holdings.position - quantity, cash |-> holdings.cash + amount]
AfterOrder(holdings, side, quantity, price) == Moved(holdings, side, quantity, quantity * price)

\* The record of a filled order: one fill, no fee and no tax.
OrderRecord(quantity, price) ==
    [fills |-> <<[quantity |-> quantity]>>, filled |-> quantity, price |-> price,
     fees |-> 0, taxes |-> 0]

\* get_positions and get_account_summary: nothing is ever frozen.
PositionOf(holdings) ==
    [quantity |-> holdings.position, available |-> holdings.position, frozen |-> 0]
AccountOf(holdings) ==
    [cash |-> holdings.cash, available |-> holdings.cash, frozen |-> 0]

\* What _reconcile_account finds for a filled order of the paper venue, when its
\* preview read baseline and the venue now has holdings.
Reconciled(side, quantity, price, baseline, holdings, tolerance) ==
    Matched(side, baseline, OrderRecord(quantity, price),
            {PositionOf(holdings)}, {AccountOf(holdings)}, tolerance)
=============================================================================
