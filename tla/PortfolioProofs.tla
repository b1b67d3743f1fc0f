-------------------------- MODULE PortfolioProofs --------------------------
(***************************************************************************)
(* Theorems about Portfolio, for every value of its constants: any number  *)
(* of overlapping refreshes, any amounts and prices.                       *)
(***************************************************************************)
EXTENDS Portfolio, FiniteInduction, SequenceTheorems, TLAPS

\* Quotients are natural numbers, and so are quantities and values.
LEMMA QuotientNat == ASSUME NEW a \in Nat, NEW b \in Nat, b > 0 PROVE a \div b \in Nat
  BY SMT

LEMMA QuantityNat ==
  ASSUME NEW amount \in Nat, NEW price \in Int
  PROVE  QuantityForAmount(amount, price) \in Nat
  BY QuotientNat, SMT DEF QuantityForAmount, BPS

LEMMA MarkNat ==
  ASSUME NEW quantity \in Nat, NEW price \in Nat
  PROVE  MarkValue(quantity, price) \in Nat
  <1>1. quantity * price \in Nat
    BY SMT
  <1> QED BY <1>1, QuotientNat, SMT DEF MarkValue, BPS

\* Prices are in the range of a market's.
LEMMA PricesInRange == \A price \in YesPrices : price \in 0..BPS
  <1>1. YesPrices \subseteq 1..(BPS - 1)
    BY PortfolioAssumption
  <1>2. ASSUME NEW n \in 1..(BPS - 1) PROVE n \in 0..BPS
    <2>1. BPS = 10000
      BY DEF BPS
    <2>2. n \in 1..9999
      BY <1>2, <2>1, SMT
    <2> QED BY <2>1, <2>2, SMT
  <1> QED BY <1>1, <1>2

\* Nothing is worth nothing.
LEMMA MarkOfNothing == ASSUME NEW price \in Nat PROVE MarkValue(0, price) = 0
  BY SMT DEF MarkValue, BPS

-----------------------------------------------------------------------------
(***************************************************************************)
(* The invariant                                                           *)
(***************************************************************************)
\* It holds at first.
LEMMA InitIInv == ASSUME Init PROVE IInv
  <1> USE DEF Init
  <1>1. market \in MarketRow
    <2>1. PICK price \in YesPrices : market = [status |-> "open", yes |-> price, outcome |-> "none"]
      OBVIOUS
    <2>2. price \in 0..BPS
      BY PricesInRange
    <2> QED BY <2>1, <2>2, Zenon DEF MarketRow
  <1>2. BooksShape
    BY PortfolioAssumption, SMT DEF BooksShape
  <1>3. WriterShape /\ Readings
    BY SMT DEF WriterShape, Readings, Idle
  <1>4. MarkedAtOutcome
    BY SMT DEF MarkedAtOutcome
  <1> QED BY <1>1, <1>2, <1>3, <1>4 DEF IInv

\* The part about the refreshes, when one of them takes a step.
LEMMA RefreshInv ==
  ASSUME IInv, NEW w \in Writers, Refresh(w)
  PROVE  WriterShape' /\ Readings'
  <1> USE DEF IInv
  <1>1. CASE ReadFills(w)
    BY <1>1, SMT DEF ReadFills, WriterShape, Readings
  <1>2. CASE ReadPayouts(w)
    BY <1>2, SMT DEF ReadPayouts, WriterShape, Readings
  <1>3. CASE ReadMarks(w)
    BY <1>3, SMT DEF ReadMarks, WriterShape, Readings
  <1>4. CASE ReadPeak(w)
    BY <1>4, SMT DEF ReadPeak, WriterShape, Readings
  <1>5. CASE InsertSnapshot(w)
    BY <1>5, SMT DEF InsertSnapshot, WriterShape, Readings, Idle
  <1>6. CASE AbortRefresh(w)
    BY <1>6, SMT DEF AbortRefresh, WriterShape, Readings, Idle
  <1> QED BY <1>1, <1>2, <1>3, <1>4, <1>5, <1>6 DEF Refresh

\* What a fill, a settlement or a reset does to the refreshes.
LEMMA TearShape ==
  ASSUME WriterShape, NEW S, NEW w \in Writers
  PROVE  /\ DOMAIN Tear(S)[w] = DOMAIN Idle
         /\ Tear(S)[w].pc = writer[w].pc
         /\ Tear(S)[w].cash = writer[w].cash
         /\ ~Tear(S)[w].torn => ~writer[w].torn /\ writer[w].pc \notin S
  BY SMT DEF WriterShape, Tear, Idle

\* A fill: what was being added up is torn.
LEMMA FillInv ==
  ASSUME IInv, NEW action \in {"buy", "sell"}, NEW amount \in Amounts, NEW price \in YesPrices,
         Fill(action, amount, price)
  PROVE  IInv'
  <1> DEFINE quantity == QuantityForAmount(amount, price)
  <1>1. quantity \in Nat /\ amount \in Nat
    BY PortfolioAssumption, QuantityNat
  <1>2. BooksShape'
    <2>1. /\ Covered(action, quantity)
          /\ books' = [books EXCEPT !.fills = @ + 1,
                         !.cash = IF action = "buy" THEN @ - amount ELSE @ + amount,
                         !.held = IF action = "buy" THEN @ + quantity ELSE @ - quantity]
      BY DEF Fill
    <2> HIDE DEF quantity
    <2>2. CASE action = "buy"
      BY <1>1, <2>1, <2>2, SMT DEF IInv, BooksShape
    <2>3. CASE action = "sell"
      BY <1>1, <2>1, <2>3, SMT DEF IInv, BooksShape, Covered
    <2> QED BY <2>2, <2>3
  <1>3. WriterShape' /\ Readings'
    <2>1. WriterShape /\ writer' = Tear({"payouts", "marks"})
      BY DEF IInv, Fill
    <2>2. WriterShape'
      BY <2>1, TearShape, SMT DEF WriterShape, Tear
    <2>3. Readings'
      BY <2>1, TearShape, SMT DEF Readings
    <2> QED BY <2>2, <2>3
  <1>4. market' = market
    BY DEF Fill
  <1> QED BY <1>2, <1>3, <1>4 DEF IInv, MarkedAtOutcome

\* What a position is paid is a natural number.
LEMMA PayoutNat == ASSUME BooksShape PROVE Payout \in Nat
  <1>1. PICK held \in Nat : held = books.held
    BY DEF BooksShape
  <1>2. BPS \in Nat
    BY SMT DEF BPS
  <1>3. MarkValue(held, BPS) \in Nat /\ MarkValue(held, 0) \in Nat
    BY <1>2, MarkNat
  <1> QED BY <1>1, <1>3 DEF Payout

\* A settlement: what lacks only the positions is torn.
LEMMA SettleRoundInv == ASSUME IInv, SettleRound PROVE IInv'
  <1>1. Payout \in Nat /\ BooksShape
    BY PayoutNat DEF IInv
  <1>2. books' = [books EXCEPT !.payouts = @ + Payout, !.settled = TRUE, !.held = 0]
    BY DEF SettleRound
  <1>3. /\ BooksShape'
        /\ books'.cash = books.cash
    BY <1>1, <1>2, SMT DEF BooksShape
  <1>4. WriterShape' /\ Readings'
    <2>1. WriterShape /\ writer' = Tear({"marks"})
      BY DEF IInv, SettleRound
    <2>2. WriterShape'
      BY <2>1, TearShape, SMT DEF WriterShape, Tear
    <2>3. Readings'
      BY <1>3, <2>1, TearShape, SMT DEF IInv, Readings
    <2> QED BY <2>2, <2>3
  <1>5. market' = market
    BY DEF SettleRound
  <1> QED BY <1>3, <1>4, <1>5 DEF IInv, MarkedAtOutcome

\* A reset tears as a fill does.
LEMMA ResetInv == ASSUME IInv, Reset PROVE IInv'
  <1>1. BooksShape'
    BY PortfolioAssumption, SMT DEF Reset, BooksShape
  <1> DEFINE torn == Tear({"payouts", "marks"})
  <1>2. WriterShape' /\ Readings'
    <2>1. ASSUME NEW w \in Writers
          PROVE  /\ DOMAIN torn[w] = DOMAIN Idle
                 /\ torn[w].torn \/ torn[w].pc \notin {"payouts", "marks"}
      BY TearShape DEF IInv
    <2>2. writer' = [w \in Writers |->
                      [torn[w] EXCEPT !.late = @ \/ writer[w].pc = "insert"]]
      BY DEF Reset
    <2> HIDE DEF torn
    <2>3. ASSUME NEW w \in Writers
          PROVE  /\ DOMAIN writer'[w] = DOMAIN torn[w]
                 /\ writer'[w].torn = torn[w].torn
                 /\ writer'[w].pc = torn[w].pc
      BY <2>1, <2>2, SMT DEF Idle
    <2>4. DOMAIN writer' = Writers
      BY <2>2
    <2> QED BY <2>1, <2>3, <2>4 DEF WriterShape, Readings
  <1>3. market' = market
    BY DEF Reset
  <1> QED BY <1>1, <1>2, <1>3 DEF IInv, MarkedAtOutcome

\* Every step preserves the invariant.
LEMMA NextIInv == ASSUME IInv, [Next]_vars PROVE IInv'
  <1>1. CASE \E w \in Writers : Refresh(w)
    <2>1. PICK w \in Writers : Refresh(w)
      BY <1>1
    <2>2. UNCHANGED <<market, books>>
      BY <2>1 DEF Refresh, ReadFills, ReadPayouts, ReadMarks, ReadPeak, InsertSnapshot,
                  AbortRefresh
    <2> QED BY <2>1, <2>2, RefreshInv DEF IInv, BooksShape, MarkedAtOutcome
  <1>2. CASE UNCHANGED <<market, books, writer>>
    BY <1>2 DEF IInv, BooksShape, WriterShape, Readings, MarkedAtOutcome
  <1>3. CASE \E action \in {"buy", "sell"}, amount \in Amounts, price \in YesPrices :
               Fill(action, amount, price)
    BY <1>3, FillInv
  <1>4. CASE AdvanceMarkets
    <2>1. PICK price \in YesPrices : market' = [market EXCEPT !.yes = price]
      BY <1>4 DEF AdvanceMarkets
    <2>2. price \in 0..BPS
      BY PricesInRange
    <2>3. market \in MarketRow /\ market.status = "open"
      BY <1>4 DEF IInv, AdvanceMarkets
    <2>4. market' \in MarketRow /\ MarkedAtOutcome'
      BY <2>1, <2>2, <2>3, SMT DEF MarketRow, MarkedAtOutcome
    <2> QED BY <1>4, <2>4 DEF AdvanceMarkets, IInv, BooksShape, WriterShape, Readings
  <1>8. CASE \E price \in YesPrices : UpsertMarket(price)
    <2>1. PICK price \in YesPrices :
            market' = [market EXCEPT !.status = "open", !.yes = price]
      BY <1>8 DEF UpsertMarket
    <2>2. price \in 0..BPS /\ market \in MarketRow
      BY PricesInRange DEF IInv
    <2>4. market' \in MarketRow
      BY <2>1, <2>2, Zenon DEF MarketRow
    <2>5. market'.status = "open"
      BY <2>1, <2>2 DEF MarketRow
    <2>3. market' \in MarketRow /\ MarkedAtOutcome'
      BY <2>4, <2>5 DEF MarkedAtOutcome
    <2> QED BY <1>8, <2>3 DEF UpsertMarket, IInv, BooksShape, WriterShape, Readings
  <1>5. CASE \E outcome \in Outcomes : SetMarketOutcome(outcome)
    <2>1. PICK outcome \in Outcomes :
            market' = [status |-> "resolved", yes |-> TerminalYesPrice(outcome),
                       outcome |-> outcome]
      BY <1>5 DEF SetMarketOutcome
    <2>2. outcome \in {"yes", "no"}
      BY PortfolioAssumption
    <2>3. market' \in MarketRow /\ MarkedAtOutcome'
      BY <2>1, <2>2, SMT DEF MarketRow, MarkedAtOutcome, TerminalYesPrice, BPS
    <2> QED BY <1>5, <2>3 DEF SetMarketOutcome, IInv, BooksShape, WriterShape, Readings
  <1>6. CASE SettleRound
    BY <1>6, SettleRoundInv
  <1>7. CASE Reset
    BY <1>7, ResetInv
  <1> QED BY <1>1, <1>2, <1>3, <1>4, <1>5, <1>6, <1>7, <1>8
          DEF Next, vars, ReadSnapshots, DeleteSnapshots, AbortCompaction, Tick

\* IInv is an invariant.
THEOREM IInvariant == Spec => []IInv
  BY InitIInv, NextIInv, PTL DEF Spec

-----------------------------------------------------------------------------
(***************************************************************************)
(* What follows                                                            *)
(***************************************************************************)
\* What a refresh makes of its three sums is what the team is worth, unless a
\* fill, a settlement or a reset tore them apart, however many refreshes
\* overlap: ComputePortfolio.
THEOREM UntornReal == Spec => UntornEquityIsReal
  <1>1. ASSUME IInv, NEW w \in Writers, ReadMarks(w), ~writer[w].torn
        PROVE  writer'[w].equity = Equity
    BY <1>1, SMT DEF ReadMarks, IInv, BooksShape, WriterShape, Readings, Equity
  <1>2. IInv /\ [Next]_vars =>
          [\A w \in Writers : ReadMarks(w) /\ ~writer[w].torn
             => writer'[w].equity = Equity]_vars
    BY <1>1
  <1> QED BY <1>2, IInvariant, PTL DEF Spec, UntornEquityIsReal

\* A settlement of a resolved market leaves the equity of the team as it was, also
\* when the outcome was corrected or the market was seeded again in between:
\* SettleRound.  Of a market that was reopened and not resolved again nothing is said.
THEOREM SettlementConserves == Spec => SettlementKeepsEquity
  <1>1. ASSUME IInv, SettleRound, market.status = "resolved" PROVE Equity' = Equity
    <2>1. market.yes \in Nat /\ market.yes = IF market.outcome = "yes" THEN BPS ELSE 0
      BY <1>1, SMT DEF IInv, SettleRound, MarkedAtOutcome, TerminalYesPrice, BPS
    <2>2. Payout = MarkValue(books.held, market.yes)
      BY <2>1 DEF Payout
    <2>3. Payout \in Nat
      BY <1>1, <2>1, <2>2, MarkNat DEF IInv, BooksShape
    <2>4. Equity' = books.cash + (books.payouts + Payout) + 0
      BY <1>1, <2>1, MarkOfNothing DEF SettleRound, Equity, IInv, BooksShape
    <2> QED BY <1>1, <2>2, <2>3, <2>4, SMT DEF Equity, IInv, BooksShape
  <1>2. IInv /\ [Next]_vars =>
          [SettleRound /\ market.status = "resolved" => Equity' = Equity]_vars
    BY <1>1
  <1> QED BY <1>2, IInvariant, PTL DEF Spec, SettlementKeepsEquity

-----------------------------------------------------------------------------
(***************************************************************************)
(* Falls and maxima                                                        *)
(***************************************************************************)
\* What a quotient is.
LEMMA DivisionBounds ==
  ASSUME NEW a \in Nat, NEW b \in Nat \ {0}
  PROVE  a \div b \in Nat /\ b * (a \div b) <= a /\ a < b * (a \div b) + b
  BY Z3

\* The greatest of a finite nonempty set of integers.
LEMMA MaxIsGreatest ==
  ASSUME NEW S \in SUBSET Int, IsFiniteSet(S), S # {}
  PROVE  Max(S) \in S /\ \A n \in S : n <= Max(S)
  <1>1. \E m \in S : \A n \in S : m >= n
    BY GreatestElement
  <1>2. Max(S) \in S /\ \A n \in S : Max(S) >= n
    BY <1>1, Zenon DEF Max
  <1> QED BY <1>2

\* There is only one.
LEMMA MaxIsUnique ==
  ASSUME NEW S \in SUBSET Int, NEW m \in S, \A n \in S : n <= m
  PROVE  Max(S) = m
  <1>1. Max(S) \in S /\ \A n \in S : Max(S) >= n
    <2>1. \A n \in S : m >= n
      OBVIOUS
    <2> QED BY <2>1, Zenon DEF Max
  <1> DEFINE x == Max(S)
  <1>2. x \in Int /\ m \in Int /\ x >= m /\ x <= m
    BY <1>1
  <1> HIDE DEF x
  <1>3. x = m
    BY <1>2
  <1> QED BY <1>3 DEF x

LEMMA MaxOfTwo ==
  ASSUME NEW a \in Int, NEW b \in Int
  PROVE  Max({a, b}) \in {a, b} /\ a <= Max({a, b}) /\ b <= Max({a, b})
  <1>1. CASE a <= b
    <2>1. Max({a, b}) = b
      BY <1>1, MaxIsUnique
    <2> QED BY <1>1, <2>1
  <1>2. CASE b <= a
    <2>1. Max({a, b}) = a
      BY <1>2, MaxIsUnique
    <2> QED BY <1>2, <2>1
  <1> QED BY <1>1, <1>2

LEMMA MaxOr0IsGreatest ==
  ASSUME NEW S \in SUBSET Int, IsFiniteSet(S)
  PROVE  MaxOr0(S) \in S \cup {0} /\ \A n \in S : n <= MaxOr0(S)
  BY MaxIsGreatest DEF MaxOr0

\* Falls are not negative.
LEMMA FallNat ==
  ASSUME NEW peak \in Int, NEW equity \in Int
  PROVE  Fall(peak, equity) \in Nat
  <1>1. CASE peak > 0 /\ equity < peak
    <2>1. (peak - equity) * BPS \in Nat
      BY <1>1, SMT DEF BPS
    <2>2. ((peak - equity) * BPS) \div peak \in Nat
      BY <1>1, <2>1, QuotientNat
    <2> QED BY <1>1, <2>2 DEF Fall
  <1>2. CASE ~(peak > 0 /\ equity < peak)
    BY <1>2, Zenon DEF Fall
  <1> QED BY <1>1, <1>2

\* From nowhere, or from itself, there is none.
LEMMA NoFall == ASSUME NEW equity \in Int PROVE Fall(equity, equity) = 0 /\ Fall(0, equity) = 0
  BY SMT DEF Fall

\* To an equity that is not negative, the fall from a higher peak is no less.
LEMMA FallGrows ==
  ASSUME NEW p \in Int, NEW q \in Int, NEW e \in Nat, p <= q
  PROVE  Fall(p, e) <= Fall(q, e)
  <1>1. CASE ~(p > 0 /\ e < p)
    <2>1. Fall(p, e) = 0
      BY <1>1, Zenon DEF Fall
    <2>2. Fall(q, e) \in Nat
      BY FallNat
    <2> QED BY <2>1, <2>2
  <1>2. CASE p > 0 /\ e < p
    <2> DEFINE a == (p - e) * BPS
               c == (q - e) * BPS
               k == a \div p
               m == c \div q
    <2>1. p \in Nat \ {0} /\ q \in Nat \ {0} /\ a \in Nat /\ c \in Nat
      BY <1>2, SMT DEF BPS
    <2>2. k \in Nat /\ m \in Nat /\ p * k <= a /\ c < q * m + q
      BY <2>1, DivisionBounds
    <2>3. a = p * BPS - e * BPS /\ c = q * BPS - e * BPS
      BY SMT DEF BPS
    <2>4. Fall(p, e) = k /\ Fall(q, e) = m
      BY <1>2, SMT DEF Fall
    <2> HIDE DEF a, c, k, m
    <2>5. BPS \in Nat /\ e * BPS \in Nat
      BY SMT DEF BPS
    <2>6. \A x, y, z \in Nat : p * x <= p * y - z => q * x <= q * y - z
      <3> TAKE x, y, z \in Nat
      <3> HAVE p * x <= p * y - z
      <3>1. p * (y - x) >= z
        BY <2>1, Z3
      <3>2. y - x >= 0
        BY <2>1, <3>1, Z3
      <3>3. (q - p) * (y - x) >= 0
        BY <2>1, <3>2, Z3
      <3> QED BY <2>1, <3>1, <3>3, Z3
    <2>7. q * k <= c
      BY <2>2, <2>3, <2>5, <2>6
    <2>8. ASSUME m < k PROVE FALSE
      <3>1. q * (k - (m + 1)) >= 0
        BY <2>1, <2>2, <2>8, Z3
      <3>2. q * m + q <= q * k
        BY <2>1, <2>2, <3>1, Z3
      <3>3. q * m \in Int /\ q * k \in Int
        BY <2>1, <2>2
      <3> QED BY <2>1, <2>2, <2>7, <3>2, <3>3
    <2> QED BY <2>2, <2>4, <2>8
  <1> QED BY <1>1, <1>2

\* The maxima over the rows that are left.
LEMMA ReadsRows ==
  ASSUME snapshots \in Seq(SnapshotRow)
  PROVE  /\ Len(snapshots) \in Nat /\ DOMAIN snapshots = 1..Len(snapshots)
         /\ \A i \in DOMAIN snapshots : snapshots[i] \in SnapshotRow
         /\ IsFiniteSet(Live) /\ Live \in SUBSET (DOMAIN snapshots)
  <1>1. /\ Len(snapshots) \in Nat /\ DOMAIN snapshots = 1..Len(snapshots)
        /\ \A i \in DOMAIN snapshots : snapshots[i] \in SnapshotRow
    BY LenProperties
  <1>2. IsFiniteSet(DOMAIN snapshots)
    BY <1>1, FS_Interval
  <1>3. Live \in SUBSET (DOMAIN snapshots)
    BY DEF Live
  <1> QED BY <1>1, <1>2, <1>3, FS_Subset

LEMMA RowFields ==
  ASSUME NEW row \in SnapshotRow
  PROVE  /\ row.at \in 0..MaxTime /\ row.equity \in Int /\ row.drawdown \in Nat
         /\ row.late \in BOOLEAN /\ row.live \in BOOLEAN
  <1>1. PICK t \in 0..MaxTime, e \in Int, d \in Nat, l \in BOOLEAN, v \in BOOLEAN :
          row = [at |-> t, equity |-> e, drawdown |-> d, late |-> l, live |-> v]
    BY DEF SnapshotRow
  <1> QED BY <1>1

LEMMA ReadsMaxima ==
  ASSUME snapshots \in Seq(SnapshotRow)
  PROVE  /\ Peak \in {snapshots[i].equity : i \in Live} \cup {0}
         /\ \A i \in Live : snapshots[i].equity <= Peak
         /\ PreviousMax \in {snapshots[i].drawdown : i \in Live} \cup {0}
         /\ \A i \in Live : snapshots[i].drawdown <= PreviousMax
  <1> DEFINE equities  == [i \in Live |-> snapshots[i].equity]
             drawdowns == [i \in Live |-> snapshots[i].drawdown]
             E == {equities[i] : i \in Live}
             D == {drawdowns[i] : i \in Live}
  <1>1. IsFiniteSet(Live) /\ \A i \in Live : snapshots[i] \in SnapshotRow
    BY ReadsRows
  <1>2. IsFiniteSet(E) /\ IsFiniteSet(D)
    BY <1>1, ImageFinite
  <1>3. E = {snapshots[i].equity : i \in Live} /\ D = {snapshots[i].drawdown : i \in Live}
    OBVIOUS
  <1>4. ASSUME NEW i \in Live PROVE snapshots[i].equity \in Int /\ snapshots[i].drawdown \in Int
    BY <1>1, RowFields
  <1>5. E \in SUBSET Int /\ D \in SUBSET Int
    BY <1>3, <1>4
  <1>6. Peak = MaxOr0(E) /\ PreviousMax = MaxOr0(D)
    BY <1>3 DEF Peak, PreviousMax
  <1>7. (\A i \in Live : snapshots[i].equity \in E) /\ (\A i \in Live : snapshots[i].drawdown \in D)
    OBVIOUS
  <1> HIDE DEF E, D
  <1>8. /\ MaxOr0(E) \in E \cup {0} /\ \A n \in E : n <= MaxOr0(E)
        /\ MaxOr0(D) \in D \cup {0} /\ \A n \in D : n <= MaxOr0(D)
    BY <1>2, <1>5, MaxOr0IsGreatest
  <1> QED BY <1>3, <1>6, <1>7, <1>8

\* What maxDrawdownWithCurrent returns is no less than what it compares, and
\* one of it: the drawdown of a row, or the fall from one.
LEMMA DrawdownIs ==
  ASSUME snapshots \in Seq(SnapshotRow), NEW e \in Int
  PROVE  /\ DrawdownWithCurrent(e) \in Nat
         /\ \A i \in Live : snapshots[i].drawdown <= DrawdownWithCurrent(e)
         /\ e >= 0 => \A i \in Live :
              Fall(snapshots[i].equity, e) <= DrawdownWithCurrent(e)
         /\ \/ DrawdownWithCurrent(e) = 0
            \/ \E i \in Live : DrawdownWithCurrent(e) = snapshots[i].drawdown
            \/ \E i \in Live : DrawdownWithCurrent(e) = Fall(snapshots[i].equity, e)
  <1> DEFINE p == Max({Peak, e})
             d == DrawdownWithCurrent(e)
  <1>1. \A i \in Live : snapshots[i].equity \in Int /\ snapshots[i].drawdown \in Nat
    <2>1. \A i \in Live : snapshots[i] \in SnapshotRow
      BY ReadsRows
    <2> QED BY <2>1, RowFields
  <1>2. Peak \in Int /\ PreviousMax \in Nat
    BY <1>1, ReadsMaxima
  <1>3. p \in {Peak, e} /\ Peak <= p /\ e <= p
    BY <1>2, MaxOfTwo
  <1> HIDE DEF p
  <1>4. p \in Int /\ Fall(p, e) \in Nat
    BY <1>2, <1>3, FallNat
  <1>5. d = Max({PreviousMax, Fall(p, e)})
    BY DEF DrawdownWithCurrent, p
  <1>6. d \in {PreviousMax, Fall(p, e)} /\ PreviousMax <= d /\ Fall(p, e) <= d
    <2>1. PreviousMax \in Int /\ Fall(p, e) \in Int
      BY <1>2, <1>4
    <2> QED BY <1>5, <2>1, MaxOfTwo, Zenon
  <1> HIDE DEF d
  <1>7. d \in Nat
    BY <1>2, <1>4, <1>6
  <1>8. ASSUME NEW i \in Live PROVE snapshots[i].drawdown <= d
    BY <1>1, <1>2, <1>6, <1>7, ReadsMaxima
  <1>9. ASSUME e >= 0, NEW i \in Live PROVE Fall(snapshots[i].equity, e) <= d
    <2>1. snapshots[i].equity \in Int /\ snapshots[i].equity <= p
      BY <1>1, <1>2, <1>3, <1>4, ReadsMaxima
    <2>2. Fall(snapshots[i].equity, e) <= Fall(p, e)
      BY <1>4, <1>9, <2>1, FallGrows
    <2>3. Fall(snapshots[i].equity, e) \in Nat
      BY <2>1, FallNat
    <2> QED BY <1>4, <1>6, <1>7, <2>2, <2>3
  <1>10. \/ d = 0
         \/ \E i \in Live : d = snapshots[i].drawdown
         \/ \E i \in Live : d = Fall(snapshots[i].equity, e)
    <2>1. PreviousMax = 0 \/ \E i \in Live : PreviousMax = snapshots[i].drawdown
      BY ReadsMaxima
    <2>2. Fall(p, e) = 0 \/ \E i \in Live : Fall(p, e) = Fall(snapshots[i].equity, e)
      <3>1. p = e \/ p = 0 \/ \E i \in Live : p = snapshots[i].equity
        BY <1>3, ReadsMaxima
      <3> QED BY <3>1, NoFall
    <2> QED BY <1>6, <2>1, <2>2
  <1> QED BY <1>7, <1>8, <1>9, <1>10 DEF d

-----------------------------------------------------------------------------
(***************************************************************************)
(* Type correctness                                                        *)
(***************************************************************************)
LEMMA WriterFields ==
  ASSUME NEW row \in WriterRow
  PROVE  /\ row.cash \in Int /\ row.equity \in Int /\ row.drawdown \in Nat
         /\ row.at \in 0..MaxTime /\ row.late \in BOOLEAN
  <1>1. PICK pc \in {"idle", "payouts", "marks", "peak", "insert"}, c \in Int, e \in Int,
             d \in Nat, t \in 0..MaxTime, torn \in BOOLEAN, late \in BOOLEAN :
          row = [pc |-> pc, cash |-> c, equity |-> e, drawdown |-> d, at |-> t,
                 torn |-> torn, late |-> late]
    BY DEF WriterRow
  <1> QED BY <1>1

Statements == {"idle", "payouts", "marks", "peak", "insert"}

\* A refresh stays a record of its shape whatever is assigned to it.
LEMMA WriterChanges ==
  ASSUME NEW row \in WriterRow, NEW pc \in Statements, NEW c \in Int, NEW e \in Int,
         NEW d \in Nat, NEW t \in 0..MaxTime, NEW b \in BOOLEAN
  PROVE  /\ [row EXCEPT !.pc = pc] \in WriterRow
         /\ [row EXCEPT !.pc = pc, !.cash = c] \in WriterRow
         /\ [row EXCEPT !.pc = pc, !.cash = c, !.torn = b, !.equity = e] \in WriterRow
         /\ [row EXCEPT !.pc = pc, !.at = t, !.drawdown = d] \in WriterRow
  <1>1. [row EXCEPT !.pc = pc] \in WriterRow
    BY Zenon DEF WriterRow, Statements
  <1>2. [row EXCEPT !.pc = pc, !.cash = c] \in WriterRow
    BY Zenon DEF WriterRow, Statements
  <1>3. [row EXCEPT !.pc = pc, !.cash = c, !.torn = b, !.equity = e] \in WriterRow
    BY Zenon DEF WriterRow, Statements
  <1>4. [row EXCEPT !.pc = pc, !.at = t, !.drawdown = d] \in WriterRow
    BY Zenon DEF WriterRow, Statements
  <1> QED BY <1>1, <1>2, <1>3, <1>4, Zenon

\* History flags included.
LEMMA WriterTorn ==
  ASSUME NEW row \in WriterRow
  PROVE  /\ [row EXCEPT !.torn = TRUE] \in WriterRow
         /\ \A b \in BOOLEAN : [row EXCEPT !.late = @ \/ b] \in WriterRow
  BY Zenon DEF WriterRow

LEMMA BooksFields ==
  ASSUME books \in BooksRow
  PROVE  /\ books.fills \in Nat /\ books.cash \in Int /\ books.payouts \in Nat
         /\ books.settled \in BOOLEAN /\ books.held \in Nat
  <1>1. PICK f \in Nat, c \in Int, p \in Nat, b \in BOOLEAN, h \in Nat :
          books = [fills |-> f, cash |-> c, payouts |-> p, settled |-> b, held |-> h]
    BY DEF BooksRow
  <1> QED BY <1>1

LEMMA IdleType == Idle \in WriterRow
  <1>1. 0 \in 0..MaxTime
    BY PortfolioAssumption
  <1> QED BY <1>1 DEF Idle, WriterRow

LEMMA MarketYes == ASSUME market \in MarketRow PROVE market.yes \in Nat
  <1>1. PICK s \in {"open", "resolved"}, p \in 0..BPS, o \in {"none", "yes", "no"} :
          market = [status |-> s, yes |-> p, outcome |-> o]
    BY DEF MarketRow
  <1>2. p \in Nat
    BY SMT DEF BPS
  <1> QED BY <1>1, <1>2

LEMMA TearType ==
  ASSUME writer \in [Writers -> WriterRow], NEW S PROVE Tear(S) \in [Writers -> WriterRow]
  <1>1. ASSUME NEW w \in Writers PROVE Tear(S)[w] \in WriterRow
    <2>1. [writer[w] EXCEPT !.torn = TRUE] \in WriterRow
      BY WriterTorn
    <2> QED BY <2>1 DEF Tear
  <1> QED BY <1>1 DEF Tear

LEMMA InitType == ASSUME Init PROVE TypeOK
  <1>1. market \in MarketRow
    BY InitIInv DEF IInv
  <1>2. books \in BooksRow
    <2>1. InitialBalance \in Int
      BY PortfolioAssumption
    <2> QED BY <2>1 DEF Init, BooksRow
  <1>3. snapshots \in Seq(SnapshotRow)
    BY EmptySeq DEF Init
  <1>4. writer \in [Writers -> WriterRow]
    BY IdleType DEF Init
  <1>5. compaction \in CompactionRow
    BY DEF Init, CompactionRow
  <1>6. now \in 0..MaxTime
    BY PortfolioAssumption DEF Init
  <1> QED BY <1>1, <1>2, <1>3, <1>4, <1>5, <1>6 DEF TypeOK

\* A step of a refresh.
LEMMA RefreshType ==
  ASSUME TypeOK, NEW w \in Writers, Refresh(w)
  PROVE  writer' \in [Writers -> WriterRow] /\ snapshots' \in Seq(SnapshotRow)
  <1>1. /\ writer \in [Writers -> WriterRow] /\ writer[w] \in WriterRow
        /\ snapshots \in Seq(SnapshotRow) /\ books \in BooksRow /\ now \in 0..MaxTime
    BY DEF TypeOK
  <1>2. /\ writer[w].cash \in Int /\ writer[w].equity \in Int /\ writer[w].drawdown \in Nat
        /\ writer[w].at \in 0..MaxTime /\ writer[w].late \in BOOLEAN
    BY <1>1, WriterFields
  <1>3. books.cash \in Int /\ books.payouts \in Int /\ books.held \in Nat
    BY <1>1, BooksFields
  <1>4. CASE ReadFills(w)
    <2>1. [writer[w] EXCEPT !.pc = "payouts", !.cash = books.cash] \in WriterRow
      BY <1>1, <1>2, <1>3, WriterChanges DEF Statements
    <2>2. writer' = [writer EXCEPT ![w] = [writer[w] EXCEPT !.pc = "payouts", !.cash = books.cash]]
      BY <1>4 DEF ReadFills
    <2> QED BY <1>1, <1>4, <2>1, <2>2 DEF ReadFills
  <1>5. CASE ReadPayouts(w)
    <2>1. writer[w].cash + books.payouts \in Int
      BY <1>2, <1>3
    <2> DEFINE row == [writer[w] EXCEPT !.pc = "marks",
                                        !.cash = writer[w].cash + books.payouts]
    <2>2. row \in WriterRow
      BY <1>1, <1>2, <2>1, WriterChanges DEF Statements
    <2>3. writer' = [writer EXCEPT ![w] = row]
      BY <1>5 DEF ReadPayouts
    <2> QED BY <1>1, <1>5, <2>2, <2>3 DEF ReadPayouts
  <1>6. CASE ReadMarks(w)
    <2>1. market.yes \in Nat
      BY MarketYes DEF TypeOK
    <2>2. writer[w].cash + MarkValue(books.held, market.yes) \in Int
      <3>1. MarkValue(books.held, market.yes) \in Int
        <4>1. MarkValue(books.held, market.yes) \in Nat
          BY <1>3, <2>1, MarkNat
        <4> QED BY <4>1
      <3> QED BY <1>2, <3>1
    <2> DEFINE e == writer[w].cash + MarkValue(books.held, market.yes)
               row == [writer[w] EXCEPT !.pc = "peak", !.cash = 0, !.torn = FALSE,
                                        !.equity = e]
    <2>3. row \in WriterRow
      <3> HIDE DEF e
      <3>1. e \in Int /\ 0 \in Int /\ FALSE \in BOOLEAN /\ "peak" \in Statements
        BY <2>2 DEF e, Statements
      <3> QED BY <1>1, <1>2, <3>1, WriterChanges
    <2>4. writer' = [writer EXCEPT ![w] = row]
      BY <1>6 DEF ReadMarks
    <2> QED BY <1>1, <1>6, <2>3, <2>4 DEF ReadMarks
  <1>7. CASE ReadPeak(w)
    <2>1. DrawdownWithCurrent(writer[w].equity) \in Nat
      BY <1>1, <1>2, DrawdownIs
    <2> DEFINE d == DrawdownWithCurrent(writer[w].equity)
               row == [writer[w] EXCEPT !.pc = "insert", !.at = now, !.drawdown = d]
    <2>2. row \in WriterRow
      <3> HIDE DEF d
      <3>1. d \in Nat
        BY <2>1 DEF d
      <3> QED BY <1>1, <1>2, <3>1, WriterChanges DEF Statements
    <2>3. writer' = [writer EXCEPT ![w] = row]
      BY <1>7 DEF ReadPeak
    <2> QED BY <1>1, <1>7, <2>2, <2>3 DEF ReadPeak
  <1>8. CASE InsertSnapshot(w)
    <2> DEFINE row == [at |-> writer[w].at, equity |-> writer[w].equity, live |-> TRUE,
                       drawdown |-> writer[w].drawdown, late |-> writer[w].late]
    <2>1. row \in SnapshotRow
      BY <1>2 DEF SnapshotRow
    <2>2. snapshots' = Append(snapshots, row)
      BY <1>8 DEF InsertSnapshot
    <2> HIDE DEF row
    <2>3. snapshots' \in Seq(SnapshotRow)
      BY <1>1, <2>1, <2>2, AppendProperties
    <2>4. writer' = [v \in Writers |->
            IF v = w THEN Idle ELSE [writer[v] EXCEPT !.late = @ \/ writer[v].pc = "insert"]]
      BY <1>8 DEF InsertSnapshot
    <2>5. ASSUME NEW v \in Writers
          PROVE  [writer[v] EXCEPT !.late = @ \/ writer[v].pc = "insert"] \in WriterRow
      BY <1>1, WriterTorn
    <2> QED BY <2>3, <2>4, <2>5, IdleType
  <1>9. CASE AbortRefresh(w)
    BY <1>1, <1>9, IdleType DEF AbortRefresh
  <1> QED BY <1>1, <1>4, <1>5, <1>6, <1>7, <1>8, <1>9
          DEF Refresh, ReadFills, ReadPayouts, ReadMarks, ReadPeak, AbortRefresh

LEMMA FillType ==
  ASSUME TypeOK, NEW action \in {"buy", "sell"}, NEW amount \in Amounts, NEW price \in YesPrices,
         Fill(action, amount, price)
  PROVE  books' \in BooksRow
  <1> DEFINE quantity == QuantityForAmount(amount, price)
  <1>1. quantity \in Nat /\ amount \in Nat
    BY PortfolioAssumption, QuantityNat
  <1>2. /\ Covered(action, quantity)
        /\ books' = [books EXCEPT !.fills = @ + 1,
                       !.cash = IF action = "buy" THEN @ - amount ELSE @ + amount,
                       !.held = IF action = "buy" THEN @ + quantity ELSE @ - quantity]
    BY DEF Fill
  <1> HIDE DEF quantity
  <1>3. PICK f \in Nat, c \in Int, p \in Nat, b \in BOOLEAN, h \in Nat :
          books = [fills |-> f, cash |-> c, payouts |-> p, settled |-> b, held |-> h]
    BY DEF TypeOK, BooksRow
  <1> DEFINE cash == IF action = "buy" THEN c - amount ELSE c + amount
             held == IF action = "buy" THEN h + quantity ELSE h - quantity
  <1>4. books' = [fills |-> f + 1, cash |-> cash, payouts |-> p, settled |-> b, held |-> held]
    BY <1>2, <1>3
  <1>5. f + 1 \in Nat /\ cash \in Int
    BY <1>1
  <1>6. held \in Nat
    BY <1>1, <1>2, <1>3 DEF Covered
  <1> HIDE DEF cash, held
  <1> QED BY <1>4, <1>5, <1>6 DEF BooksRow

LEMMA SettleType == ASSUME TypeOK, SettleRound PROVE books' \in BooksRow
  <1>1. PICK f \in Nat, c \in Int, p \in Nat, b \in BOOLEAN, h \in Nat :
          books = [fills |-> f, cash |-> c, payouts |-> p, settled |-> b, held |-> h]
    BY DEF TypeOK, BooksRow
  <1>2. Payout \in Nat
    BY <1>1, PayoutNat DEF BooksShape
  <1>3. books' = [fills |-> f, cash |-> c, payouts |-> p + Payout, settled |-> TRUE, held |-> 0]
    BY <1>1 DEF SettleRound
  <1>4. p + Payout \in Nat
    BY <1>2
  <1> QED BY <1>3, <1>4 DEF BooksRow

\* The other variables, in the steps that touch the rows.
LEMMA RowsType ==
  ASSUME TypeOK
  PROVE  /\ ReadSnapshots => compaction' \in CompactionRow
         /\ DeleteSnapshots => snapshots' \in Seq(SnapshotRow) /\ compaction' \in CompactionRow
         /\ Reset => /\ snapshots' \in Seq(SnapshotRow) /\ compaction' \in CompactionRow
                     /\ books' \in BooksRow /\ writer' \in [Writers -> WriterRow]
  <1>1. snapshots \in Seq(SnapshotRow) /\ compaction \in CompactionRow
    BY DEF TypeOK
  <1>2. ASSUME ReadSnapshots PROVE compaction' \in CompactionRow
    <2>1. Live \in SUBSET Nat
      BY <1>1, ReadsRows
    <2>2. Doomed \in SUBSET Nat
      BY <2>1 DEF Doomed
    <2> QED BY <1>2, <2>2 DEF ReadSnapshots, CompactionRow
  <1>3. ASSUME DeleteSnapshots
        PROVE  snapshots' \in Seq(SnapshotRow) /\ compaction' \in CompactionRow
    <2> DEFINE Left(i) == [snapshots[i] EXCEPT !.live = @ /\ i \notin compaction.doomed]
               n == Len(snapshots)
    <2>1. n \in Nat /\ DOMAIN snapshots = 1..n
      BY <1>1, ReadsRows
    <2>2. ASSUME NEW i \in DOMAIN snapshots PROVE Left(i) \in SnapshotRow
      <3>1. snapshots[i] \in SnapshotRow
        BY <1>1, ReadsRows
      <3>2. ASSUME NEW row \in SnapshotRow, NEW b \in BOOLEAN
            PROVE  [row EXCEPT !.live = @ /\ b] \in SnapshotRow
        BY Zenon DEF SnapshotRow
      <3>3. (i \notin compaction.doomed) \in BOOLEAN
        OBVIOUS
      <3> QED BY <3>1, <3>2, <3>3
    <2>3. snapshots' = [i \in 1..n |-> Left(i)] /\ compaction' = [pc |-> "idle", doomed |-> {}]
      BY <1>3, <2>1 DEF DeleteSnapshots
    <2> HIDE DEF Left, n
    <2>4. snapshots' \in [1..n -> SnapshotRow]
      BY <2>1, <2>2, <2>3
    <2> QED BY <2>1, <2>3, <2>4, SeqDef DEF CompactionRow
  <1>4. ASSUME Reset
        PROVE  /\ snapshots' \in Seq(SnapshotRow) /\ compaction' \in CompactionRow
               /\ books' \in BooksRow /\ writer' \in [Writers -> WriterRow]
    <2>1. snapshots' \in Seq(SnapshotRow)
      BY <1>4, EmptySeq DEF Reset
    <2>2. compaction' \in CompactionRow
      BY <1>1, <1>4 DEF Reset, CompactionRow
    <2>3. books' \in BooksRow
      <3>1. InitialBalance \in Int
        BY PortfolioAssumption
      <3> QED BY <1>4, <3>1 DEF Reset, BooksRow
    <2> DEFINE torn == Tear({"payouts", "marks"})
    <2>4. torn \in [Writers -> WriterRow]
      BY TearType DEF TypeOK
    <2>5. writer' = [w \in Writers |->
                      [torn[w] EXCEPT !.late = @ \/ writer[w].pc = "insert"]]
      BY <1>4 DEF Reset
    <2> HIDE DEF torn
    <2>6. ASSUME NEW w \in Writers
          PROVE  [torn[w] EXCEPT !.late = @ \/ writer[w].pc = "insert"] \in WriterRow
      BY <2>4, WriterTorn
    <2> QED BY <2>1, <2>2, <2>3, <2>5, <2>6
  <1> QED BY <1>2, <1>3, <1>4

LEMMA NextType == ASSUME TypeOK, [Next]_vars PROVE TypeOK'
  <1> USE DEF TypeOK
  <1>1. CASE \E w \in Writers : Refresh(w)
    <2>1. PICK w \in Writers : Refresh(w)
      BY <1>1
    <2>2. UNCHANGED <<market, books, compaction, now>>
      BY <2>1 DEF Refresh, ReadFills, ReadPayouts, ReadMarks, ReadPeak, InsertSnapshot,
                  AbortRefresh
    <2>3. writer' \in [Writers -> WriterRow] /\ snapshots' \in Seq(SnapshotRow)
      BY <2>1, RefreshType
    <2> QED BY <2>2, <2>3
  <1>2. CASE ReadSnapshots
    BY <1>2, RowsType DEF ReadSnapshots
  <1>3. CASE DeleteSnapshots
    BY <1>3, RowsType DEF DeleteSnapshots
  <1>4. CASE AbortCompaction
    BY <1>4 DEF AbortCompaction, CompactionRow
  <1>5. CASE \E action \in {"buy", "sell"}, amount \in Amounts, price \in YesPrices :
               Fill(action, amount, price)
    <2>1. PICK action \in {"buy", "sell"}, amount \in Amounts, price \in YesPrices :
            Fill(action, amount, price)
      BY <1>5
    <2>2. books' \in BooksRow
      BY <2>1, FillType
    <2>3. writer' \in [Writers -> WriterRow]
      BY <2>1, TearType DEF Fill
    <2> QED BY <2>1, <2>2, <2>3 DEF Fill
  <1>6. CASE AdvanceMarkets
    <2>1. PICK price \in YesPrices : market' = [market EXCEPT !.yes = price]
      BY <1>6 DEF AdvanceMarkets
    <2>2. price \in 0..BPS
      BY PricesInRange
    <2>3. market' \in MarketRow
      BY <2>1, <2>2, Zenon DEF MarketRow
    <2> QED BY <1>6, <2>3 DEF AdvanceMarkets
  <1>12. CASE \E price \in YesPrices : UpsertMarket(price)
    <2>1. PICK price \in YesPrices :
            market' = [market EXCEPT !.status = "open", !.yes = price]
      BY <1>12 DEF UpsertMarket
    <2>2. price \in 0..BPS
      BY PricesInRange
    <2>3. market' \in MarketRow
      BY <2>1, <2>2, Zenon DEF MarketRow
    <2> QED BY <1>12, <2>3 DEF UpsertMarket
  <1>7. CASE \E outcome \in Outcomes : SetMarketOutcome(outcome)
    <2>1. PICK outcome \in Outcomes : SetMarketOutcome(outcome)
      BY <1>7
    <2>2. outcome \in {"none", "yes", "no"}
      BY PortfolioAssumption
    <2>3. TerminalYesPrice(outcome) \in 0..BPS
      BY SMT DEF TerminalYesPrice, BPS
    <2>4. market' \in MarketRow
      BY <2>1, <2>2, <2>3, Zenon DEF SetMarketOutcome, MarketRow
    <2> QED BY <2>1, <2>4 DEF SetMarketOutcome
  <1>8. CASE SettleRound
    <2>1. writer' \in [Writers -> WriterRow]
      BY <1>8, TearType DEF SettleRound
    <2> QED BY <1>8, <2>1, SettleType DEF SettleRound
  <1>9. CASE Reset
    BY <1>9, RowsType DEF Reset
  <1>10. CASE Tick
    BY <1>10 DEF Tick
  <1>11. CASE UNCHANGED vars
    BY <1>11 DEF vars
  <1> QED BY <1>1, <1>2, <1>3, <1>4, <1>5, <1>6, <1>7, <1>8, <1>9, <1>10, <1>11,
             <1>12 DEF Next

\* Every variable stays in its type: quantities and payouts are not negative,
\* drawdowns neither, whatever overlaps.
THEOREM TypeCorrect == Spec => []TypeOK
  BY InitType, NextType, PTL DEF Spec

-----------------------------------------------------------------------------
(***************************************************************************)
(* Drawdowns and compactions: the invariant                                *)
(***************************************************************************)
\* The rows that are left of a sequence of them.
LiveOf(rows) == {i \in DOMAIN rows : rows[i].live}

\* Every row of a sequence was inserted before another peak was read.
Timely(rows) == \A i \in DOMAIN rows : ~rows[i].late

\* The fall from one row to another.
Gap(rows, a, b) == Fall(rows[a].equity, rows[b].equity)

\* A drawdown is a fall between two of the first k rows.
Reached(rows, k, d) == \E a, b \in 1..k : a <= b /\ d = Gap(rows, a, b)

\* What a refresh is about to insert belongs behind the rows there are.
Waiting(w) == writer[w].pc = "insert" /\ ~writer[w].late

\* Every drawdown is a fall that was recorded, compacted or not.
RowsReached ==
  Timely(snapshots) =>
    \A i \in DOMAIN snapshots : Reached(snapshots, i, snapshots[i].drawdown)

\* So is one that waits for its row, or a fall to that row.
WritersReach ==
  Timely(snapshots) => \A w \in Writers : Waiting(w) =>
    \/ writer[w].drawdown = 0
    \/ Reached(snapshots, Len(snapshots), writer[w].drawdown)
    \/ \E a \in DOMAIN snapshots :
         writer[w].drawdown = Fall(snapshots[a].equity, writer[w].equity)

\* Nothing was compacted, nothing overlapped, and no equity is negative.
Plain == Timely(snapshots) /\ Solvent /\ Live = DOMAIN snapshots

\* No fall is larger than the last drawdown.
RowsCover ==
  Plain => \A a, b \in DOMAIN snapshots : a <= b => Gap(snapshots, a, b) <= Recorded

\* Nor larger than one that waits for its row, falls to that row included.
WritersCover ==
  Plain => \A w \in Writers : Waiting(w) =>
    /\ \A a, b \in DOMAIN snapshots :
         a <= b => Gap(snapshots, a, b) <= writer[w].drawdown
    /\ writer[w].equity >= 0 => \A a \in DOMAIN snapshots :
         Fall(snapshots[a].equity, writer[w].equity) <= writer[w].drawdown

\* Drawdowns do not decrease: a row repeats what was left when it was inserted.
RowsClimb ==
  \A i, j \in DOMAIN snapshots :
    i < j /\ snapshots[i].live /\ ~snapshots[j].late
      => snapshots[i].drawdown <= snapshots[j].drawdown

WritersClimb ==
  \A w \in Writers : Waiting(w) =>
    \A i \in Live : snapshots[i].drawdown <= writer[w].drawdown

\* What a compaction deletes is there, and is not the latest.
DoomedAreEarlier ==
  \A i \in compaction.doomed : i \in Live /\ \E j \in Live : Before(i, j)

HInv ==
  /\ TypeOK
  /\ RowsReached
  /\ WritersReach
  /\ RowsCover
  /\ WritersCover
  /\ RowsClimb
  /\ WritersClimb
  /\ DoomedAreEarlier

\* What the steps below know of the rows and the refreshes.
LEMMA Shapes ==
  ASSUME TypeOK
  PROVE  /\ Len(snapshots) \in Nat /\ DOMAIN snapshots = 1..Len(snapshots)
         /\ \A i \in DOMAIN snapshots :
              snapshots[i].equity \in Int /\ snapshots[i].drawdown \in Nat
         /\ \A w \in Writers : writer[w].equity \in Int /\ writer[w].drawdown \in Nat
  <1>1. /\ snapshots \in Seq(SnapshotRow)
        /\ \A w \in Writers : writer[w] \in WriterRow
    BY DEF TypeOK
  <1>2. \A i \in DOMAIN snapshots : snapshots[i] \in SnapshotRow
    BY <1>1, ReadsRows
  <1>3. Len(snapshots) \in Nat /\ DOMAIN snapshots = 1..Len(snapshots)
    BY <1>1, ReadsRows
  <1>4. ASSUME NEW i \in DOMAIN snapshots
        PROVE  snapshots[i].equity \in Int /\ snapshots[i].drawdown \in Nat
    BY <1>2, RowFields
  <1>5. ASSUME NEW w \in Writers PROVE writer[w].equity \in Int /\ writer[w].drawdown \in Nat
    BY <1>1, WriterFields
  <1> QED BY <1>3, <1>4, <1>5

\* A step that reads no peak, and leaves the rows and the compaction alone.
LEMMA Quiet ==
  ASSUME HInv, TypeOK', UNCHANGED <<snapshots, compaction>>,
         \A w \in Writers : Waiting(w)' =>
           /\ Waiting(w)
           /\ writer'[w].drawdown = writer[w].drawdown
           /\ writer'[w].equity = writer[w].equity
  PROVE  HInv'
  <1>1. Live' = Live /\ Recorded' = Recorded /\ Plain' = Plain
    BY DEF Live, Recorded, Plain, Solvent
  <1>2. RowsReached' /\ RowsCover' /\ RowsClimb' /\ DoomedAreEarlier'
    BY <1>1 DEF HInv, RowsReached, RowsCover, RowsClimb, DoomedAreEarlier, Before
  <1>3. WritersReach'
    BY DEF HInv, WritersReach
  <1>4. WritersCover'
    BY <1>1 DEF HInv, WritersCover
  <1>5. WritersClimb'
    BY <1>1 DEF HInv, WritersClimb
  <1> QED BY <1>2, <1>3, <1>4, <1>5 DEF HInv

\* The reading of a peak: the running maximum of maxDrawdownWithCurrent.
LEMMA ReadPeakH ==
  ASSUME HInv, TypeOK', NEW w \in Writers, ReadPeak(w)
  PROVE  HInv'
  <1> DEFINE e == writer[w].equity
             d == DrawdownWithCurrent(e)
             n == Len(snapshots)
  <1>1. /\ UNCHANGED <<snapshots, compaction>>
        /\ writer'[w].drawdown = d /\ writer'[w].equity = e
        /\ \A v \in Writers \ {w} : writer'[v] = writer[v]
    <2>1. writer \in [Writers -> WriterRow]
      BY DEF HInv, TypeOK
    <2>2. DOMAIN writer[w] = DOMAIN Idle
      BY <2>1 DEF WriterRow, Idle
    <2> QED BY <2>1, <2>2 DEF ReadPeak, Idle
  <1>2. Live' = Live /\ Recorded' = Recorded /\ Plain' = Plain
    BY <1>1 DEF Live, Recorded, Plain, Solvent
  <1>3. RowsReached' /\ RowsCover' /\ RowsClimb' /\ DoomedAreEarlier'
    BY <1>1, <1>2 DEF HInv, RowsReached, RowsCover, RowsClimb, DoomedAreEarlier, Before
  <1>4. e \in Int /\ snapshots \in Seq(SnapshotRow)
    BY Shapes DEF HInv, TypeOK
  <1>5. n \in Nat /\ DOMAIN snapshots = 1..n /\ Live \in SUBSET (1..n)
    BY <1>4, ReadsRows
  <1>6. /\ d \in Nat
        /\ \A i \in Live : snapshots[i].drawdown <= d
        /\ e >= 0 => \A i \in Live : Fall(snapshots[i].equity, e) <= d
        /\ \/ d = 0
           \/ \E i \in Live : d = snapshots[i].drawdown
           \/ \E i \in Live : d = Fall(snapshots[i].equity, e)
    BY <1>4, DrawdownIs
  <1>7. \A v \in Writers \ {w} : Waiting(v)' = Waiting(v)
    BY <1>1 DEF Waiting
  <1> HIDE DEF e, d
  <1>8. WritersReach'
    <2> SUFFICES ASSUME Timely(snapshots), NEW v \in Writers, Waiting(v)'
                 PROVE  \/ writer'[v].drawdown = 0
                        \/ Reached(snapshots, n, writer'[v].drawdown)
                        \/ \E a \in DOMAIN snapshots :
                             writer'[v].drawdown = Fall(snapshots[a].equity, writer'[v].equity)
      BY <1>1 DEF WritersReach
    <2>1. CASE v = w
      <3>1. \A i \in Live : Reached(snapshots, n, snapshots[i].drawdown)
        BY <1>5 DEF HInv, RowsReached, Reached
      <3> QED BY <1>1, <1>5, <1>6, <2>1, <3>1
    <2>2. CASE v # w
      BY <1>1, <1>7, <2>2 DEF HInv, WritersReach
    <2> QED BY <2>1, <2>2
  <1>9. WritersCover'
    <2> SUFFICES ASSUME Plain, NEW v \in Writers, Waiting(v)'
                 PROVE  /\ \A a, b \in DOMAIN snapshots :
                             a <= b => Gap(snapshots, a, b) <= writer'[v].drawdown
                        /\ writer'[v].equity >= 0 => \A a \in DOMAIN snapshots :
                             Fall(snapshots[a].equity, writer'[v].equity) <= writer'[v].drawdown
      BY <1>1, <1>2 DEF WritersCover
    <2>1. CASE v = w
      <3>1. Live = DOMAIN snapshots
        BY DEF Plain
      <3>2. ASSUME NEW a \in DOMAIN snapshots, NEW b \in DOMAIN snapshots, a <= b
            PROVE  Gap(snapshots, a, b) <= d
        <4>1. Gap(snapshots, a, b) <= Recorded
          BY <3>2 DEF HInv, RowsCover
        <4>2. n \in DOMAIN snapshots
          BY <1>5
        <4>3. Recorded <= d /\ Recorded \in Nat
          BY <1>6, <3>1, <4>2, Shapes DEF Recorded, HInv
        <4>4. Gap(snapshots, a, b) \in Nat
          BY Shapes, FallNat DEF Gap, HInv
        <4> QED BY <1>6, <4>1, <4>3, <4>4
      <3> QED BY <1>1, <1>6, <2>1, <3>1, <3>2
    <2>2. CASE v # w
      BY <1>1, <1>7, <2>2 DEF HInv, WritersCover
    <2> QED BY <2>1, <2>2
  <1>10. WritersClimb'
    BY <1>1, <1>2, <1>6, <1>7 DEF HInv, WritersClimb
  <1> QED BY <1>3, <1>8, <1>9, <1>10 DEF HInv

\* Nobody waits with a peak from before an insertion, or a reset.
LEMMA Nobody ==
  ASSUME \A w \in Writers : ~Waiting(w)'
  PROVE  WritersReach' /\ WritersCover' /\ WritersClimb'
  BY DEF WritersReach, WritersCover, WritersClimb

\* The insertion of a row.
LEMMA InsertSnapshotH ==
  ASSUME HInv, TypeOK', NEW w \in Writers, InsertSnapshot(w)
  PROVE  HInv'
  <1> DEFINE e == writer[w].equity
             d == writer[w].drawdown
             n == Len(snapshots)
             row == [at |-> writer[w].at, equity |-> e, live |-> TRUE,
                     drawdown |-> d, late |-> writer[w].late]
             new == snapshots'
  <1>1. /\ snapshots \in Seq(SnapshotRow) /\ n \in Nat /\ DOMAIN snapshots = 1..n
        /\ \A i \in 1..n : snapshots[i].equity \in Int /\ snapshots[i].drawdown \in Nat
        /\ e \in Int /\ d \in Nat
    BY Shapes DEF HInv, TypeOK
  <1>2. row \in SnapshotRow
    <2>1. writer[w].at \in 0..MaxTime /\ writer[w].late \in BOOLEAN
      BY WriterFields DEF HInv, TypeOK
    <2> QED BY <1>1, <2>1 DEF SnapshotRow
  <1>3. new = Append(snapshots, row) /\ compaction' = compaction /\ writer[w].pc = "insert"
    BY DEF InsertSnapshot
  <1>4. /\ row.at = writer[w].at /\ row.equity = e /\ row.live = TRUE
        /\ row.drawdown = d /\ row.late = writer[w].late
    OBVIOUS
  <1> HIDE DEF e, d, row
  <1>5. new \in Seq(SnapshotRow) /\ Len(new) = n + 1
    BY <1>1, <1>2, <1>3, AppendProperties
  <1>6. (\A i \in 1..n : new[i] = snapshots[i]) /\ new[n + 1] = row
    BY <1>1, <1>2, <1>3, AppendProperties
  <1>7. DOMAIN new = 1..(n + 1)
    BY <1>5, LenProperties
  <1>8. \A v \in Writers : ~Waiting(v)'
    <2>1. writer' = [v \in Writers |->
            IF v = w THEN Idle ELSE [writer[v] EXCEPT !.late = @ \/ writer[v].pc = "insert"]]
      BY DEF InsertSnapshot
    <2>2. \A v \in Writers : writer[v] \in WriterRow
      BY DEF HInv, TypeOK
    <2>3. ASSUME NEW v \in Writers, v # w PROVE ~Waiting(v)'
      <3>1. DOMAIN writer[v] = DOMAIN Idle
        BY <2>2 DEF WriterRow, Idle
      <3>2. writer'[v] = [writer[v] EXCEPT !.late = @ \/ writer[v].pc = "insert"]
        BY <2>1, <2>3
      <3>3. writer'[v].pc = writer[v].pc
        BY <3>1, <3>2 DEF Idle
      <3>4. writer'[v].late = (writer[v].late \/ writer[v].pc = "insert")
        BY <3>1, <3>2 DEF Idle
      <3> QED BY <3>3, <3>4 DEF Waiting
    <2>4. ~Waiting(w)'
      BY <2>1 DEF Waiting, Idle
    <2> QED BY <2>3, <2>4
  <1>9. Timely(new) => Timely(snapshots) /\ Waiting(w)
    BY <1>1, <1>3, <1>4, <1>6, <1>7 DEF Timely, Waiting
  <1>10. /\ \A a, b \in 1..n : Gap(new, a, b) = Gap(snapshots, a, b)
         /\ \A a \in 1..n : Gap(new, a, n + 1) = Fall(snapshots[a].equity, e)
         /\ Gap(new, n + 1, n + 1) = 0
    <2>1. Fall(e, e) = 0
      BY <1>1, NoFall
    <2> QED BY <1>4, <1>6, <2>1 DEF Gap
  <1>11. RowsReached'
    <2> SUFFICES ASSUME Timely(new), NEW i \in 1..(n + 1)
                 PROVE  Reached(new, i, new[i].drawdown)
      BY <1>7 DEF RowsReached
    <2>1. CASE i \in 1..n
      <3>1. Reached(snapshots, i, snapshots[i].drawdown)
        BY <1>1, <1>9, <2>1 DEF HInv, RowsReached
      <3>2. PICK a, b \in 1..i : a <= b /\ snapshots[i].drawdown = Gap(snapshots, a, b)
        BY <3>1 DEF Reached
      <3>3. a \in 1..n /\ b \in 1..n
        BY <1>1, <2>1
      <3>4. new[i].drawdown = Gap(new, a, b)
        BY <1>6, <1>10, <2>1, <3>2, <3>3
      <3> QED BY <3>2, <3>4 DEF Reached
    <2>2. CASE i = n + 1
      <3>1. new[i].drawdown = d /\ i \in 1..i
        BY <1>1, <1>4, <1>6, <2>2
      <3>2. \/ d = 0
            \/ Reached(snapshots, n, d)
            \/ \E a \in DOMAIN snapshots : d = Fall(snapshots[a].equity, e)
        BY <1>9 DEF HInv, WritersReach, d, e
      <3>3. CASE d = 0
        BY <1>10, <2>2, <3>1, <3>3 DEF Reached
      <3>4. CASE Reached(snapshots, n, d)
        <4>1. PICK a, b \in 1..n : a <= b /\ d = Gap(snapshots, a, b)
          BY <3>4 DEF Reached
        <4>2. a \in 1..i /\ b \in 1..i
          BY <1>1, <2>2
        <4>3. d = Gap(new, a, b)
          BY <1>10, <4>1
        <4> QED BY <3>1, <4>1, <4>2, <4>3 DEF Reached
      <3>5. CASE \E a \in DOMAIN snapshots : d = Fall(snapshots[a].equity, e)
        <4>1. PICK a \in 1..n : d = Fall(snapshots[a].equity, e)
          BY <1>1, <3>5
        <4>2. a \in 1..i /\ a <= i
          BY <1>1, <2>2
        <4>3. d = Gap(new, a, i)
          BY <1>10, <2>2, <4>1
        <4> QED BY <3>1, <4>2, <4>3 DEF Reached
      <3> QED BY <3>2, <3>3, <3>4, <3>5
    <2> QED BY <1>1, <2>1, <2>2
  <1>12. RowsCover'
    <2> SUFFICES ASSUME Plain', NEW a \in 1..(n + 1), NEW b \in 1..(n + 1), a <= b
                 PROVE  Gap(new, a, b) <= new[n + 1].drawdown
      BY <1>5, <1>7 DEF RowsCover, Recorded
    <2>1. new[n + 1].drawdown = d
      BY <1>4, <1>6
    <2>2. Waiting(w) /\ Plain /\ e >= 0
      <3>1. Timely(new) /\ (\A i \in 1..(n + 1) : new[i].equity >= 0 /\ new[i].live)
        BY <1>7 DEF Plain, Solvent, Live
      <3>2. \A i \in 1..n : snapshots[i].equity >= 0 /\ snapshots[i].live
        BY <1>1, <1>6, <3>1
      <3>3. Solvent /\ Live = DOMAIN snapshots
        BY <1>1, <3>2 DEF Solvent, Live
      <3>4. n + 1 \in 1..(n + 1)
        BY <1>1
      <3> QED BY <1>4, <1>6, <1>9, <3>1, <3>3, <3>4 DEF Plain
    <2>3. /\ \A x, y \in 1..n : x <= y => Gap(snapshots, x, y) <= d
          /\ \A x \in 1..n : Fall(snapshots[x].equity, e) <= d
      BY <1>1, <2>2 DEF HInv, WritersCover, d, e
    <2>4. CASE b \in 1..n
      <3>1. a \in 1..n
        BY <1>1, <2>4
      <3> QED BY <1>10, <2>1, <2>3, <2>4, <3>1
    <2>5. CASE b = n + 1 /\ a \in 1..n
      BY <1>10, <2>1, <2>3, <2>5
    <2>6. CASE b = n + 1 /\ a = n + 1
      BY <1>1, <1>10, <2>1, <2>6
    <2> QED BY <1>1, <2>4, <2>5, <2>6
  <1>13. RowsClimb'
    <2> SUFFICES ASSUME NEW i \in 1..(n + 1), NEW j \in 1..(n + 1),
                        i < j, new[i].live, ~new[j].late
                 PROVE  new[i].drawdown <= new[j].drawdown
      BY <1>7 DEF RowsClimb
    <2>1. i \in 1..n /\ snapshots[i].live /\ new[i] = snapshots[i]
      BY <1>1, <1>6
    <2>2. CASE j \in 1..n
      BY <1>1, <1>6, <2>1, <2>2 DEF HInv, RowsClimb
    <2>3. CASE j = n + 1
      <3>1. Waiting(w) /\ new[j].drawdown = d
        BY <1>3, <1>4, <1>6, <2>3 DEF Waiting
      <3>2. i \in Live
        BY <1>1, <2>1 DEF Live
      <3> QED BY <2>1, <3>1, <3>2 DEF HInv, WritersClimb, d
    <2> QED BY <1>1, <2>2, <2>3
  <1>14. DoomedAreEarlier'
    <2>1. Live \in SUBSET (1..n)
      BY <1>1 DEF Live
    <2>2. \A i \in Live : i \in Live'
      BY <1>1, <1>6, <1>7, <2>1 DEF Live
    <2>3. ASSUME NEW i \in Live, NEW j \in Live, Before(i, j) PROVE Before(i, j)'
      BY <1>6, <2>1, <2>3 DEF Before
    <2> QED BY <1>3, <2>2, <2>3 DEF HInv, DoomedAreEarlier
  <1> QED BY <1>8, <1>11, <1>12, <1>13, <1>14, Nobody DEF HInv

\* What was selected for deletion is not the latest.
LEMMA ReadSnapshotsH == ASSUME HInv, TypeOK', ReadSnapshots PROVE HInv'
  <1>1. UNCHANGED <<snapshots, writer>> /\ compaction'.doomed = Doomed
    BY DEF ReadSnapshots
  <1>2. \A i \in Doomed : i \in Live /\ \E j \in Live : Before(i, j)
    BY DEF Doomed
  <1>3. Live' = Live /\ Recorded' = Recorded /\ Plain' = Plain
    BY <1>1 DEF Live, Recorded, Plain, Solvent
  <1>4. DoomedAreEarlier'
    <2>1. \A i, j \in Live : Before(i, j)' = Before(i, j)
      BY <1>1 DEF Before
    <2> QED BY <1>1, <1>2, <1>3, <2>1 DEF DoomedAreEarlier
  <1>5. \A w \in Writers : Waiting(w)' = Waiting(w)
    BY <1>1 DEF Waiting
  <1>6. RowsReached' /\ RowsCover' /\ RowsClimb'
    BY <1>1, <1>3 DEF HInv, RowsReached, RowsCover, RowsClimb
  <1>7. WritersReach'
    BY <1>1, <1>5 DEF HInv, WritersReach
  <1>8. WritersCover' /\ WritersClimb'
    BY <1>1, <1>3, <1>5 DEF HInv, WritersCover, WritersClimb
  <1> QED BY <1>4, <1>6, <1>7, <1>8 DEF HInv

\* What a deletion leaves of the rows: all but that some are marked.
LEMMA Deleted ==
  ASSUME TypeOK, DeleteSnapshots
  PROVE  /\ Len(snapshots') = Len(snapshots) /\ DOMAIN snapshots' = DOMAIN snapshots
         /\ Live' = Live \ compaction.doomed
         /\ \A i \in DOMAIN snapshots :
              /\ snapshots'[i].at = snapshots[i].at
              /\ snapshots'[i].equity = snapshots[i].equity
              /\ snapshots'[i].drawdown = snapshots[i].drawdown
              /\ snapshots'[i].late = snapshots[i].late
  <1> DEFINE n == Len(snapshots)
             Left(i) == [snapshots[i] EXCEPT !.live = @ /\ i \notin compaction.doomed]
  <1>1. n \in Nat /\ DOMAIN snapshots = 1..n
    BY Shapes
  <1>2. snapshots' = [i \in 1..n |-> Left(i)]
    BY <1>1 DEF DeleteSnapshots
  <1>3. ASSUME NEW i \in DOMAIN snapshots
        PROVE  /\ Left(i).at = snapshots[i].at
               /\ Left(i).equity = snapshots[i].equity
               /\ Left(i).drawdown = snapshots[i].drawdown
               /\ Left(i).late = snapshots[i].late
               /\ Left(i).live <=> snapshots[i].live /\ i \notin compaction.doomed
    <2>1. snapshots[i] \in SnapshotRow
      BY ReadsRows DEF TypeOK
    <2>2. DOMAIN snapshots[i] = {"at", "equity", "drawdown", "late", "live"}
      BY <2>1 DEF SnapshotRow
    <2> QED BY <2>2
  <1> HIDE DEF Left, n
  <1>4. DOMAIN snapshots' = 1..n /\ \A i \in 1..n : snapshots'[i] = Left(i)
    BY <1>2
  <1>5. Len(snapshots') = n
    BY <1>1, <1>2, <1>4
  <1>6. Live' = Live \ compaction.doomed
    BY <1>1, <1>3, <1>4 DEF Live
  <1> QED BY <1>1, <1>3, <1>4, <1>5, <1>6 DEF n

LEMMA DeleteSnapshotsH == ASSUME HInv, TypeOK', DeleteSnapshots PROVE HInv'
  <1>1. /\ writer' = writer /\ compaction'.doomed = {}
        /\ Len(snapshots') = Len(snapshots) /\ DOMAIN snapshots' = DOMAIN snapshots
        /\ Live' = Live \ compaction.doomed
        /\ \A i \in DOMAIN snapshots :
             /\ snapshots'[i].equity = snapshots[i].equity
             /\ snapshots'[i].drawdown = snapshots[i].drawdown
             /\ snapshots'[i].late = snapshots[i].late
    BY Deleted DEF HInv, DeleteSnapshots
  <1>2. Len(snapshots) \in Nat /\ DOMAIN snapshots = 1..Len(snapshots)
    BY Shapes DEF HInv
  <1>3. Timely(snapshots') = Timely(snapshots)
    BY <1>1 DEF Timely
  <1>4. Plain' => Plain
    BY <1>1, <1>3 DEF Plain, Solvent, Live
  <1>5. \A a, b \in DOMAIN snapshots : Gap(snapshots', a, b) = Gap(snapshots, a, b)
    BY <1>1 DEF Gap
  <1>6. \A w \in Writers : Waiting(w)' = Waiting(w)
    BY <1>1 DEF Waiting
  <1>7. ASSUME NEW k \in 0..Len(snapshots), NEW d
        PROVE  Reached(snapshots, k, d) => Reached(snapshots', k, d)
    BY <1>2, <1>5 DEF Reached
  <1>8. RowsReached'
    <2>1. \A i \in DOMAIN snapshots : i \in 0..Len(snapshots)
      BY <1>2
    <2> QED BY <1>1, <1>3, <1>7, <2>1 DEF HInv, RowsReached
  <1>9. WritersReach'
    <2>1. Len(snapshots) \in 0..Len(snapshots)
      BY <1>2
    <2> QED BY <1>1, <1>3, <1>6, <1>7, <2>1 DEF HInv, WritersReach
  <1>10. RowsCover'
    <2> SUFFICES ASSUME Plain, NEW a \in DOMAIN snapshots, NEW b \in DOMAIN snapshots, a <= b
                 PROVE  Gap(snapshots, a, b) <= Recorded'
      BY <1>1, <1>4, <1>5 DEF RowsCover
    <2>1. Recorded' = Recorded
      BY <1>1, <1>2 DEF Recorded
    <2> QED BY <2>1 DEF HInv, RowsCover
  <1>11. WritersCover'
    BY <1>1, <1>4, <1>5, <1>6 DEF HInv, WritersCover
  <1>12. RowsClimb'
    BY <1>1 DEF HInv, RowsClimb, Live
  <1>13. WritersClimb'
    BY <1>1, <1>6 DEF HInv, WritersClimb, Live
  <1>14. DoomedAreEarlier'
    BY <1>1 DEF DoomedAreEarlier
  <1> QED BY <1>8, <1>9, <1>10, <1>11, <1>12, <1>13, <1>14 DEF HInv

LEMMA ResetH == ASSUME HInv, TypeOK', Reset PROVE HInv'
  <1>1. snapshots' = <<>> /\ compaction'.doomed = {}
    <2>1. DOMAIN compaction = {"pc", "doomed"}
      BY DEF HInv, TypeOK, CompactionRow
    <2> QED BY <2>1 DEF Reset
  <1>2. DOMAIN snapshots' = {}
    BY <1>1
  <1>3. \A w \in Writers : ~Waiting(w)'
    <2> DEFINE torn == Tear({"payouts", "marks"})
    <2>1. writer' = [w \in Writers |->
                      [torn[w] EXCEPT !.late = @ \/ writer[w].pc = "insert"]]
      BY DEF Reset
    <2>2. torn \in [Writers -> WriterRow]
      BY TearType DEF HInv, TypeOK
    <2>3. WriterShape
      BY DEF HInv, TypeOK, WriterShape, WriterRow, Idle
    <2>4. \A w \in Writers : torn[w].pc = writer[w].pc /\ DOMAIN torn[w] = DOMAIN Idle
      BY <2>3, TearShape
    <2> HIDE DEF torn
    <2>5. ASSUME NEW w \in Writers PROVE ~Waiting(w)'
      <3>1. writer'[w] = [torn[w] EXCEPT !.late = @ \/ writer[w].pc = "insert"]
        BY <2>1
      <3>2. writer'[w].pc = writer[w].pc
        BY <2>4, <3>1 DEF Idle
      <3>3. writer'[w].late = (torn[w].late \/ writer[w].pc = "insert")
        BY <2>4, <3>1 DEF Idle
      <3> QED BY <3>2, <3>3 DEF Waiting
    <2> QED BY <2>5
  <1>4. RowsReached' /\ RowsCover' /\ RowsClimb' /\ DoomedAreEarlier'
    BY <1>1, <1>2 DEF RowsReached, RowsCover, RowsClimb, DoomedAreEarlier
  <1> QED BY <1>3, <1>4, Nobody DEF HInv

\* Every other step of a refresh lets nobody wait who did not before.
LEMMA OtherRefreshH ==
  ASSUME HInv, TypeOK', NEW w \in Writers,
         ReadFills(w) \/ ReadPayouts(w) \/ ReadMarks(w) \/ AbortRefresh(w)
  PROVE  HInv'
  <1>1. writer \in [Writers -> WriterRow] /\ UNCHANGED <<snapshots, compaction>>
    BY DEF HInv, TypeOK, ReadFills, ReadPayouts, ReadMarks, AbortRefresh
  <1>2. DOMAIN writer[w] = DOMAIN Idle
    BY <1>1 DEF WriterRow, Idle
  <1>3. \A v \in Writers \ {w} : writer'[v] = writer[v]
    BY <1>1 DEF ReadFills, ReadPayouts, ReadMarks, AbortRefresh
  <1>4. writer'[w].pc # "insert"
    <2>1. CASE ReadFills(w)
      BY <1>1, <1>2, <2>1 DEF ReadFills, Idle
    <2>2. CASE ReadPayouts(w)
      BY <1>1, <1>2, <2>2 DEF ReadPayouts, Idle
    <2>3. CASE ReadMarks(w)
      BY <1>1, <1>2, <2>3 DEF ReadMarks, Idle
    <2>4. CASE AbortRefresh(w)
      BY <1>1, <2>4 DEF AbortRefresh, Idle
    <2> QED BY <2>1, <2>2, <2>3, <2>4
  <1> QED BY <1>1, <1>3, <1>4, Quiet DEF Waiting

\* Fills, settlements, prices and the clock tear readings, and no drawdown.
LEMMA BooksH ==
  ASSUME HInv, TypeOK', NEW S, UNCHANGED <<snapshots, compaction>>,
         writer' = writer \/ writer' = Tear(S)
  PROVE  HInv'
  <1>1. \A w \in Writers : writer[w] \in WriterRow
    BY DEF HInv, TypeOK
  <1>2. ASSUME NEW w \in Writers
        PROVE  /\ writer'[w].pc = writer[w].pc
               /\ writer'[w].late = writer[w].late
               /\ writer'[w].drawdown = writer[w].drawdown
               /\ writer'[w].equity = writer[w].equity
    <2>1. DOMAIN writer[w] = DOMAIN Idle
      BY <1>1 DEF WriterRow, Idle
    <2>2. writer'[w] = writer[w] \/ writer'[w] = [writer[w] EXCEPT !.torn = TRUE]
      BY DEF Tear
    <2> QED BY <2>1, <2>2 DEF Idle
  <1> QED BY <1>2, Quiet DEF Waiting

LEMMA InitH == ASSUME Init PROVE HInv
  <1>1. TypeOK
    BY InitType
  <1>2. snapshots = <<>> /\ compaction.doomed = {} /\ DOMAIN snapshots = {}
    BY DEF Init
  <1>3. \A w \in Writers : ~Waiting(w)
    BY DEF Init, Waiting, Idle
  <1> QED BY <1>1, <1>2, <1>3
          DEF HInv, RowsReached, RowsCover, RowsClimb, DoomedAreEarlier,
              WritersReach, WritersCover, WritersClimb

\* Every step preserves it.
LEMMA NextH == ASSUME HInv, [Next]_vars PROVE HInv'
  <1>1. TypeOK'
    BY NextType DEF HInv
  <1>2. CASE \E w \in Writers : Refresh(w)
    BY <1>1, <1>2, OtherRefreshH, ReadPeakH, InsertSnapshotH DEF Refresh
  <1>3. CASE ReadSnapshots
    BY <1>1, <1>3, ReadSnapshotsH
  <1>4. CASE DeleteSnapshots
    BY <1>1, <1>4, DeleteSnapshotsH
  <1>5. CASE AbortCompaction
    <2>1. UNCHANGED <<snapshots, writer>> /\ compaction'.doomed = {}
      BY <1>5 DEF AbortCompaction
    <2>2. Live' = Live /\ Recorded' = Recorded /\ Plain' = Plain
      BY <2>1 DEF Live, Recorded, Plain, Solvent
    <2>3. \A w \in Writers : Waiting(w)' = Waiting(w)
      BY <2>1 DEF Waiting
    <2>4. RowsReached' /\ RowsCover' /\ RowsClimb' /\ DoomedAreEarlier'
      BY <2>1, <2>2 DEF HInv, RowsReached, RowsCover, RowsClimb, DoomedAreEarlier
    <2>5. WritersReach' /\ WritersCover' /\ WritersClimb'
      BY <2>1, <2>2, <2>3 DEF HInv, WritersReach, WritersCover, WritersClimb
    <2> QED BY <1>1, <2>4, <2>5 DEF HInv
  <1>6. CASE \E action \in {"buy", "sell"}, amount \in Amounts, price \in YesPrices :
               Fill(action, amount, price)
    <2>1. UNCHANGED <<snapshots, compaction>> /\ writer' = Tear({"payouts", "marks"})
      BY <1>6 DEF Fill
    <2> QED BY <1>1, <2>1, BooksH
  <1>7. CASE SettleRound
    <2>1. UNCHANGED <<snapshots, compaction>> /\ writer' = Tear({"marks"})
      BY <1>7 DEF SettleRound
    <2> QED BY <1>1, <2>1, BooksH
  <1>8. CASE Reset
    BY <1>1, <1>8, ResetH
  <1>9. CASE \/ AdvanceMarkets \/ Tick \/ UNCHANGED vars
             \/ \E outcome \in Outcomes : SetMarketOutcome(outcome)
             \/ \E price \in YesPrices : UpsertMarket(price)
    <2>1. UNCHANGED <<snapshots, compaction, writer>>
      BY <1>9 DEF AdvanceMarkets, Tick, vars, SetMarketOutcome, UpsertMarket
    <2> QED BY <1>1, <2>1, BooksH
  <1> QED BY <1>2, <1>3, <1>4, <1>5, <1>6, <1>7, <1>8, <1>9 DEF Next

THEOREM HInvariance == Spec => []HInv
  BY InitH, NextH, PTL DEF Spec

-----------------------------------------------------------------------------
(***************************************************************************)
(* What follows for drawdowns                                              *)
(***************************************************************************)
\* The falls that LargestFall compares.
Falls ==
  LET ids == DOMAIN snapshots
  IN  {Fall(snapshots[ij[1]].equity, snapshots[ij[2]].equity) :
         ij \in {pair \in ids \X ids : pair[1] <= pair[2]}}

LEMMA FallsAre ==
  ASSUME TypeOK, snapshots # <<>>
  PROVE  /\ IsFiniteSet(Falls) /\ Falls \in SUBSET Nat
         /\ \A a, b \in DOMAIN snapshots : a <= b => Gap(snapshots, a, b) \in Falls
         /\ \A f \in Falls : \E a, b \in DOMAIN snapshots :
              a <= b /\ f = Gap(snapshots, a, b)
         /\ LargestFall \in Falls /\ \A f \in Falls : f <= LargestFall
  <1> DEFINE n == Len(snapshots)
             ids == 1..n
             pairs == {pair \in ids \X ids : pair[1] <= pair[2]}
             fall == [ij \in pairs |-> Gap(snapshots, ij[1], ij[2])]
  <1>1. /\ n \in Nat /\ DOMAIN snapshots = ids
        /\ \A i \in ids : snapshots[i].equity \in Int
    BY Shapes
  <1>2. n # 0
    BY <1>1, EmptySeq DEF TypeOK
  <1>3. Falls = {fall[ij] : ij \in pairs}
    BY <1>1 DEF Falls, Gap
  <1>4. IsFiniteSet(pairs)
    <2>1. IsFiniteSet(ids)
      BY <1>1, FS_Interval
    <2>2. IsFiniteSet(ids \X ids)
      BY <2>1, FS_Product
    <2> QED BY <2>2, FS_Subset
  <1>5. IsFiniteSet(Falls)
    <2> HIDE DEF fall, pairs
    <2>1. IsFiniteSet({fall[ij] : ij \in pairs})
      BY <1>4, ImageFinite
    <2> QED BY <1>3, <2>1, Zenon
  <1>6. \A a, b \in ids : Gap(snapshots, a, b) \in Nat
    BY <1>1, FallNat DEF Gap
  <1>7. \A a, b \in ids : a <= b => Gap(snapshots, a, b) \in Falls
    <2> SUFFICES ASSUME NEW a \in ids, NEW b \in ids, a <= b
                 PROVE  Gap(snapshots, a, b) \in Falls
      OBVIOUS
    <2>1. <<a, b>> \in pairs
      OBVIOUS
    <2>2. fall[<<a, b>>] = Gap(snapshots, a, b)
      BY <2>1
    <2> QED BY <1>3, <2>1, <2>2
  <1>8. ASSUME NEW f \in Falls
        PROVE  \E a, b \in ids : a <= b /\ f = Gap(snapshots, a, b)
    <2>1. PICK ij \in pairs : f = fall[ij]
      BY <1>3
    <2>2. ij[1] \in ids /\ ij[2] \in ids /\ ij[1] <= ij[2]
      OBVIOUS
    <2> QED BY <2>1, <2>2
  <1>9. Falls \in SUBSET Nat
    BY <1>6, <1>8
  <1>10. Falls # {}
    BY <1>1, <1>2, <1>7
  <1>11. LargestFall = Max(Falls)
    BY DEF LargestFall, Falls
  <1>12. LargestFall \in Falls /\ \A f \in Falls : f <= LargestFall
    <2>1. Falls \in SUBSET Int
      BY <1>9
    <2> QED BY <1>5, <1>10, <1>11, <2>1, MaxIsGreatest
  <1> QED BY <1>1, <1>5, <1>7, <1>8, <1>9, <1>12

\* As long as refreshes do not overlap from the reading of the peak on, the
\* last recorded drawdown is a fall that happened, and the largest when nothing
\* was deleted and the team was never worth less than nothing:
\* maxDrawdownWithCurrent.
THEOREM DrawdownCorrect == Spec => []DrawdownIsLargestFall
  <1>1. ASSUME HInv PROVE DrawdownIsLargestFall
    <2> SUFFICES ASSUME Punctual
                 PROVE  /\ Recorded <= LargestFall
                        /\ Solvent /\ Live = DOMAIN snapshots => Recorded = LargestFall
      BY DEF DrawdownIsLargestFall
    <2> DEFINE n == Len(snapshots)
    <2>1. TypeOK /\ snapshots # <<>> /\ Timely(snapshots)
      BY <1>1 DEF HInv, Punctual, Timely
    <2>2. n \in Nat /\ DOMAIN snapshots = 1..n /\ n # 0
      BY <2>1, Shapes, EmptySeq DEF TypeOK
    <2>3. n \in DOMAIN snapshots
      BY <2>2
    <2>4. Recorded \in Falls
      <3>1. Reached(snapshots, n, Recorded)
        BY <1>1, <2>1, <2>3 DEF HInv, RowsReached, Recorded
      <3> QED BY <2>1, <2>2, <3>1, FallsAre DEF Reached
    <2>5. Recorded <= LargestFall
      BY <2>1, <2>4, FallsAre
    <2>6. ASSUME Solvent, Live = DOMAIN snapshots PROVE Recorded = LargestFall
      <3>1. Plain
        BY <2>1, <2>6 DEF Plain
      <3>2. \A f \in Falls : f <= Recorded
        BY <1>1, <2>1, <3>1, FallsAre DEF HInv, RowsCover
      <3>3. Falls \in SUBSET Int
        BY <2>1, FallsAre
      <3>4. Max(Falls) = Recorded
        BY <2>4, <3>2, <3>3, MaxIsUnique
      <3> QED BY <3>4 DEF LargestFall, Falls
    <2> QED BY <2>5, <2>6
  <1> QED BY <1>1, HInvariance, PTL

-----------------------------------------------------------------------------
(***************************************************************************)
(* What follows for compactions                                            *)
(***************************************************************************)
\* The latest row of a team is before no other.
LEMMA BeforeIsStrict ==
  ASSUME TypeOK, NEW i \in Live, NEW j \in Live, Before(i, j)
  PROVE  i # j /\ ~Before(j, i)
  <1>1. i \in Nat /\ j \in Nat /\ snapshots[i].at \in 0..MaxTime /\ snapshots[j].at \in 0..MaxTime
    <2>1. /\ snapshots \in Seq(SnapshotRow) /\ DOMAIN snapshots = 1..Len(snapshots)
          /\ i \in DOMAIN snapshots /\ j \in DOMAIN snapshots
      BY ReadsRows DEF TypeOK, Live
    <2>2. snapshots[i] \in SnapshotRow /\ snapshots[j] \in SnapshotRow
      BY <2>1, ReadsRows
    <2> QED BY <2>1, <2>2, RowFields
  <1>2. Rank[snapshots[i].at] \in Nat /\ Rank[snapshots[j].at] \in Nat
    BY <1>1, RankAssumption
  <1> QED BY <1>1, <1>2 DEF Before

\* Where the texts of the dates are in the order of the ids, the newest row is
\* not deleted, and no other becomes the newest.
LEMMA NewestStays ==
  ASSUME HInv, DeleteSnapshots, InOrder, Live # {}
  PROVE  /\ Newest \in Live /\ Newest \in Live'
         /\ \A i \in Live : i <= Newest
         /\ Newest' = Newest
  <1>1. TypeOK
    BY DEF HInv
  <1>2. IsFiniteSet(Live) /\ Live \in SUBSET Int
    BY <1>1, ReadsRows, Shapes DEF TypeOK
  <1>3. Newest \in Live /\ \A i \in Live : i <= Newest
    BY <1>2, MaxIsGreatest DEF Newest, MaxOr0
  <1>4. Newest \notin compaction.doomed
    <2> SUFFICES ASSUME Newest \in compaction.doomed PROVE FALSE
      OBVIOUS
    <2>1. PICK j \in Live : Before(Newest, j)
      BY DEF HInv, DoomedAreEarlier
    <2>2. j # Newest /\ ~Before(j, Newest)
      BY <1>1, <1>3, <2>1, BeforeIsStrict
    <2>3. j < Newest
      BY <1>2, <1>3, <2>2
    <2> QED BY <1>3, <2>2, <2>3 DEF InOrder
  <1>5. Live' = Live \ compaction.doomed
    BY <1>1, Deleted
  <1>6. Newest \in Live'
    BY <1>3, <1>4, <1>5
  <1>7. Newest' = Newest
    <2> DEFINE left == Live \ compaction.doomed
               m == Newest
    <2>1. m \in left /\ left \in SUBSET Int /\ \A i \in left : i <= m
      BY <1>2, <1>3, <1>4
    <2>2. Newest' = Max(left)
      BY <1>5, <2>1 DEF Newest, MaxOr0
    <2> HIDE DEF left, m
    <2>3. Max(left) = m
      BY <2>1, MaxIsUnique
    <2> QED BY <2>2, <2>3 DEF m
  <1> QED BY <1>3, <1>6, <1>7

\* A compaction leaves the row that the portfolio and the leaderboard show, as long
\* as the texts of the dates sort as the ids do: CompactSnapshots.
THEOREM NewestKept == Spec => CompactionKeepsNewest
  <1>1. ASSUME HInv, DeleteSnapshots, InOrder PROVE Newest' = Newest
    <2>1. CASE Live = {}
      <3>1. Live' = {}
        BY <1>1, <2>1, Deleted DEF HInv
      <3> QED BY <2>1, <3>1 DEF Newest, MaxOr0
    <2>2. CASE Live # {}
      BY <1>1, <2>2, NewestStays
    <2> QED BY <2>1, <2>2
  <1>2. HInv /\ [Next]_vars => [DeleteSnapshots /\ InOrder => Newest' = Newest]_vars
    BY <1>1
  <1> QED BY <1>2, HInvariance, PTL DEF Spec, CompactionKeepsNewest

\* And the largest drawdown that is left, as the newest row repeats it, if besides
\* no refresh was overtaken between the reading of its peak and its row.
THEOREM MaximumKept == Spec => CompactionKeepsMaximum
  <1>1. ASSUME HInv, DeleteSnapshots, InOrder, Punctual PROVE PreviousMax' = PreviousMax
    <2> DEFINE old == {snapshots[i].drawdown : i \in Live}
               new == {snapshots[i].drawdown : i \in Live \ compaction.doomed}
    <2>1. /\ DOMAIN snapshots' = DOMAIN snapshots /\ Live' = Live \ compaction.doomed
          /\ \A i \in DOMAIN snapshots : snapshots'[i].drawdown = snapshots[i].drawdown
      BY <1>1, Deleted DEF HInv
    <2>2. Live \in SUBSET (DOMAIN snapshots)
      BY DEF Live
    <2>3. PreviousMax = MaxOr0(old)
      BY DEF PreviousMax
    <2>4. PreviousMax' = MaxOr0(new)
      <3>1. PreviousMax' = MaxOr0({snapshots'[i].drawdown : i \in Live'})
        BY DEF PreviousMax
      <3>2. {snapshots'[i].drawdown : i \in Live'} = new
        BY <2>1, <2>2
      <3> QED BY <3>1, <3>2
    <2>5. CASE Live = {}
      <3>1. old = {} /\ new = {}
        BY <2>5
      <3> QED BY <2>3, <2>4, <3>1
    <2>6. CASE Live # {}
      <3> DEFINE m == Newest
                 d == snapshots[m].drawdown
      <3>1. m \in Live /\ m \in Live' /\ \A i \in Live : i <= m
        BY <1>1, <2>6, NewestStays
      <3>2. \A i \in Live : snapshots[i].drawdown \in Nat /\ i \in Nat
        BY <1>1, <2>2, Shapes DEF HInv
      <3> HIDE DEF m
      <3>3. ASSUME NEW i \in Live PROVE snapshots[i].drawdown <= d
        <4>1. CASE i = m
          BY <3>2, <4>1
        <4>2. CASE i < m
          BY <1>1, <2>2, <3>1, <4>2 DEF HInv, RowsClimb, Punctual, Live
        <4> QED BY <3>1, <3>2, <4>1, <4>2
      <3>4. d \in old /\ d \in new
        BY <2>1, <3>1
      <3>5. old \in SUBSET Int /\ new \in SUBSET Int
        BY <3>2
      <3>6. (\A x \in old : x <= d) /\ (\A x \in new : x <= d)
        BY <3>3
      <3> HIDE DEF old, new, d
      <3>7. Max(old) = d /\ Max(new) = d
        BY <3>4, <3>5, <3>6, MaxIsUnique
      <3> QED BY <2>3, <2>4, <3>4, <3>7 DEF MaxOr0
    <2> QED BY <2>5, <2>6
  <1>2. HInv /\ [Next]_vars =>
          [DeleteSnapshots /\ InOrder /\ Punctual => PreviousMax' = PreviousMax]_vars
    BY <1>1
  <1> QED BY <1>2, HInvariance, PTL DEF Spec, CompactionKeepsMaximum
=============================================================================
