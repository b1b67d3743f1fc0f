------------------------------ MODULE Scoring ------------------------------
(***************************************************************************)
(* The score of a team, as the arena computes it from a portfolio and four *)
(* counts.  Scores are whole numbers between 0 and 100; every division     *)
(* truncates toward zero, as Go's and SQLite's do.                         *)
(***************************************************************************)
EXTENDS Integers

Quotient(a, b) == IF a >= 0 THEN a \div b ELSE -((-a) \div b)

Clamp(v, lo, hi) == IF v < lo THEN lo ELSE IF v > hi THEN hi ELSE v

\* Variant: a score has a floor and no ceiling.
ScoreFloor(v) == IF v < 0 THEN 0 ELSE v

Score(v) == Clamp(v, 0, 100)

\* The squared error of a probability, in basis points, once the market of
\* the decision is resolved; hit: its outcome came true.
BrierError(probability, hit) ==
  LET miss == IF hit THEN 10000 - probability ELSE probability
  IN  (miss * miss) \div 10000

ReturnBPS(initial, equity) == Quotient((equity - initial) * 10000, initial)

ReturnScore(initial, equity) == Score(50 + Quotient(ReturnBPS(initial, equity), 100))

RiskScore(initial, drawdown, exposure) ==
  Score(100 - (Quotient(drawdown, 100) + Quotient(exposure * 20, initial)))

\* brier: the errors of the resolved decisions, -1 when there are none.
CalibrationScore(brier) == IF brier = -1 THEN 50 ELSE Score(100 - Quotient(brier, 100))

ExecutionScore(orders, rejected, slippage) ==
  IF orders <= 0 THEN 50
  ELSE Score(100 - Quotient(rejected * 100, orders) - Quotient(slippage, 50))

CostScore == 100

Composite(initial, equity, drawdown, exposure, brier, orders, rejected, slippage) ==
  LET start == IF initial <= 0 THEN 1 ELSE initial
  IN  Quotient(40 * ReturnScore(start, equity)
               + 20 * RiskScore(start, drawdown, exposure)
               + 20 * CalibrationScore(brier)
               + 10 * ExecutionScore(orders, rejected, slippage)
               + 10 * CostScore, 100)
=============================================================================
