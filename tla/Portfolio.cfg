SPECIFICATION Spec
CONSTANTS
  Writers = {w1, w2}
  InitialBalance = 10
  Amounts = {4}
  YesPrices <- TwoPrices
  Outcomes = {"yes", "no"}
  KeepEvery = 1
  Rank <- MixedOrder
  MaxFills = 1
  MaxRows = 3
  MaxOverlapped = 1
  MaxResolvedRows = 1
  MaxTime = 2
SYMMETRY Interchangeable
CHECK_DEADLOCK FALSE
INVARIANTS TypeOK DrawdownIsLargestFall
PROPERTIES UntornEquityIsReal SettlementKeepsEquity CompactionKeepsNewest CompactionKeepsMaximum
