SPECIFICATION Spec
CONSTANTS
  m1 = m1
  None = None
  Teams = {t1, t2}
  Markets = {m1}
  ClientKeys = {k1}
  Payloads <- TwoBuys
  YesPrices <- OnePrice
  Posts = {r1, r2}
  Cancels = {}
  MaxOrderId = 2
  RoundMoves = {}
SYMMETRY Interchangeable
INVARIANTS UniqueKeys RepliesAreOwn
CHECK_DEADLOCK FALSE
