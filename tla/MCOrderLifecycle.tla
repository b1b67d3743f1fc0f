-------------------------- MODULE MCOrderLifecycle --------------------------
(***************************************************************************)
(* Small instances of OrderLifecycle.                                      *)
(***************************************************************************)
EXTENDS OrderLifecycle, TLC

CONSTANTS m1

\* A path that goes through two prices, one on either side of the limits.
Prices == {4000, 6000}

\* Buy 6 cents worth at up to 50%: 15 contract-cents at 40%.
BuyYes  == [market |-> m1, action |-> "buy", outcome |-> "yes",
            amount |-> 6, limit |-> 5000]

\* Sell 6 cents worth at 39% or more: at most 15 contract-cents.
SellYes == [market |-> m1, action |-> "sell", outcome |-> "yes",
            amount |-> 6, limit |-> 3900]

BuyAndSell == {BuyYes, SellYes}

\* A sell that rests at 40% and is reached at 60%.
SellHigh == [SellYes EXCEPT !.limit = 5000]

BuyAndSellHigh == {BuyYes, SellHigh}

\* The same key under two bodies.
TwoBuys == {BuyYes, [BuyYes EXCEPT !.amount = 3]}
OnePrice == {4000}

\* No operator and no failures: the handlers and the worker by themselves.
TradingSpec == Init /\ [][Trading]_vars
FairTradingSpec == Init /\ [][Trading \/ AbortTick]_vars /\ Fairness

Interchangeable ==
  Permutations(Posts) \cup Permutations(Cancels) \cup Permutations(Teams)
=============================================================================
