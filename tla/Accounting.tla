----------------------------- MODULE Accounting -----------------------------
(***************************************************************************)
(* The integer arithmetic the arena keeps its books in.  Money is whole    *)
(* cents, a price is a whole number of basis points (10000 bps = 1), a     *)
(* quantity is a number of contract-cents: contracts that pay one cent     *)
(* each when their outcome comes true.  Every division truncates.          *)
(***************************************************************************)
EXTENDS Integers

BPS == 10000

\* Contract-cents that an amount of cents buys or sells at a price.
QuantityForAmount(amount, price) ==
  IF price <= 0 THEN 0 ELSE (amount * BPS) \div price

\* Value in cents of a quantity marked at a price.
MarkValue(quantity, price) == (quantity * price) \div BPS

\* The price a seller gets from the open-order worker: 50 bps under the ask,
\* and never under 1.
Bid(price) == IF price - 50 < 1 THEN 1 ELSE price - 50

\* The price of an outcome of a market whose YES price is yes.
OutcomePrice(yes, outcome) == IF outcome = "no" THEN BPS - yes ELSE yes

\* The YES price of a resolved market.
TerminalYesPrice(outcome) == IF outcome = "yes" THEN BPS ELSE 0
=============================================================================
