----------------------------- MODULE Portfolio -----------------------------
(***************************************************************************)
(* The portfolio snapshots of one team in a round: what it is worth, how   *)
(* far it has fallen, and which of the rows a compaction leaves.           *)
(*                                                                         *)
(* The snapshot worker and the operator's settlements, exports and freezes *)
(* refresh a team in the same way, statement by statement: three sums, the *)
(* peak so far, and the insertion of a row.  Nothing keeps two of them     *)
(* apart, nor the fills, settlements and resets that happen meanwhile.     *)
(*                                                                         *)
(* Left out: the score snapshots, which are computed by the same reads,    *)
(* compacted by the same function and read by none of this; realized and   *)
(* unrealized profit; other teams, whose rows are read and bucketed apart; *)
(* positions other than in YES of one market.                              *)
(***************************************************************************)
EXTENDS Accounting, FiniteSetsExt, Sequences

CONSTANTS
  Writers,         \* the refreshes that can be underway at once
  InitialBalance,
  Amounts,         \* what fills may cost or yield
  YesPrices,       \* the prices the open market moves through or is seeded at
  Outcomes,        \* the outcomes the operator may announce
  KeepEvery,       \* the width of a bucket of a compaction
  Rank,            \* where the text of a time comes among the texts
  MaxFills,        \* bound: the team has no more fills
  MaxRows,         \* bound: no refresh starts when there are as many rows
  MaxOverlapped,   \* bound: nor beside another when there are as many
  MaxResolvedRows, \* bound: there are fewer, and one refresh at a time, when an
                   \* outcome is announced and a refresh starts after that
  MaxTime          \* bound: the clock goes no further

ASSUME PortfolioAssumption ==
  /\ InitialBalance \in Nat \ {0}
  /\ Amounts \subseteq Nat \ {0}
  /\ YesPrices \subseteq 1..(BPS - 1)
  /\ Outcomes \subseteq {"yes", "no"}
  /\ KeepEvery \in Nat \ {0}
  /\ {MaxFills, MaxRows, MaxOverlapped, MaxResolvedRows, MaxTime} \subseteq Nat

ASSUME RankAssumption ==
  /\ Rank \in [0..MaxTime -> Nat]
  /\ \A s, t \in 0..MaxTime : Rank[s] = Rank[t] => s = t

VARIABLES
  market,      \* the market's status and YES price, and its outcome
  books,       \* fills, settlements and positions
  snapshots,   \* portfolio_snapshots, by id from the last reset on; a row
               \* that a compaction deleted stays, marked
  writer,      \* the refreshes
  compaction,  \* the operator's compaction
  now

vars == <<market, books, snapshots, writer, compaction, now>>

MarketRow == [status: {"open", "resolved"}, yes: 0..BPS, outcome: {"none", "yes", "no"}]

\* fills: how many; cash: what they leave of the initial balance; payouts: the
\* sum of the settlements, settled: there is one; held: contract-cents of YES.
BooksRow == [fills: Nat, cash: Int, payouts: Nat, settled: BOOLEAN, held: Nat]

\* late: another portfolio snapshot, or a reset, came between the reading of
\* the peak and the insertion (history); live: not deleted.
SnapshotRow == [at: 0..MaxTime, equity: Int, drawdown: Nat, late: BOOLEAN,
                live: BOOLEAN]

\* The statement a refresh is at and what it has read; torn (history): the
\* sums it reads belong to no one moment.
WriterRow == [pc: {"idle", "payouts", "marks", "peak", "insert"},
              cash: Int, equity: Int, drawdown: Nat, at: 0..MaxTime,
              torn: BOOLEAN, late: BOOLEAN]

CompactionRow == [pc: {"idle", "delete"}, doomed: SUBSET Nat]

TypeOK ==
  /\ market \in MarketRow
  /\ books \in BooksRow
  /\ snapshots \in Seq(SnapshotRow)
  /\ writer \in [Writers -> WriterRow]
  /\ compaction \in CompactionRow
  /\ now \in 0..MaxTime

-----------------------------------------------------------------------------
(***************************************************************************)
(* What the statements read                                                *)
(***************************************************************************)
Live == {i \in DOMAIN snapshots : snapshots[i].live}

\* COALESCE(MAX(...), 0).
MaxOr0(S) == IF S = {} THEN 0 ELSE Max(S)

Peak        == MaxOr0({snapshots[i].equity   : i \in Live})
PreviousMax == MaxOr0({snapshots[i].drawdown : i \in Live})

\* The fall from a peak, in basis points of it.
Fall(peak, equity) ==
  IF peak > 0 /\ equity < peak THEN ((peak - equity) * BPS) \div peak ELSE 0

\* Variant: a recovery makes up for an earlier fall.
CurrentFall(equity) == Fall(Max({Peak, equity}), equity)

DrawdownWithCurrent(equity) == Max({PreviousMax, Fall(Max({Peak, equity}), equity)})

Equity == books.cash + books.payouts + MarkValue(books.held, market.yes)

-----------------------------------------------------------------------------
(***************************************************************************)
(* A refresh                                                               *)
(***************************************************************************)
Idle == [pc |-> "idle", cash |-> 0, equity |-> 0, drawdown |-> 0, at |-> 0,
         torn |-> FALSE, late |-> FALSE]

\* The writers at some statements, with a history flag raised.
Tear(statements) ==
  [w \in Writers |-> IF writer[w].pc \in statements
                     THEN [writer[w] EXCEPT !.torn = TRUE] ELSE writer[w]]

\* The first sum of CreatePortfolioSnapshot, over the fills.
ReadFills(w) ==
  /\ writer[w].pc = "idle"
  /\ Len(snapshots) < MaxRows
  /\ \/ \A v \in Writers : writer[v].pc = "idle"
     \/ Len(snapshots) < MaxOverlapped /\ market.outcome = "none"
  /\ Len(snapshots) < MaxResolvedRows \/ market.outcome = "none"
  /\ writer' = [writer EXCEPT ![w].pc = "payouts", ![w].cash = books.cash]
  /\ UNCHANGED <<market, books, snapshots, compaction, now>>

\* Variant: payouts are a profit and no cash.
ReadPayoutsAsProfit(w) ==
  /\ writer[w].pc = "payouts"
  /\ writer' = [writer EXCEPT ![w].pc = "marks"]
  /\ UNCHANGED <<market, books, snapshots, compaction, now>>

\* The second, over the settlements.
ReadPayouts(w) ==
  /\ writer[w].pc = "payouts"
  /\ writer' = [writer EXCEPT ![w].pc = "marks", ![w].cash = @ + books.payouts]
  /\ UNCHANGED <<market, books, snapshots, compaction, now>>

\* The third, over the positions and their markets.
ReadMarks(w) ==
  /\ writer[w].pc = "marks"
  /\ writer' = [writer EXCEPT ![w].pc = "peak", ![w].cash = 0, ![w].torn = FALSE,
       ![w].equity = writer[w].cash + MarkValue(books.held, market.yes)]
  /\ UNCHANGED <<market, books, snapshots, compaction, now>>

\* maxDrawdownWithCurrent; the row is dated before it waits for its insertion.
ReadPeak(w) ==
  /\ writer[w].pc = "peak"
  /\ writer' = [writer EXCEPT ![w].pc = "insert", ![w].at = now,
                  ![w].drawdown = DrawdownWithCurrent(writer[w].equity)]
  /\ UNCHANGED <<market, books, snapshots, compaction, now>>

InsertSnapshot(w) ==
  LET row == [at |-> writer[w].at, equity |-> writer[w].equity, live |-> TRUE,
              drawdown |-> writer[w].drawdown, late |-> writer[w].late]
  IN  /\ writer[w].pc = "insert"
      /\ snapshots' = Append(snapshots, row)
      /\ writer' = [v \in Writers |->
           IF v = w THEN Idle
           ELSE [writer[v] EXCEPT !.late = @ \/ writer[v].pc = "insert"]]
      /\ UNCHANGED <<market, books, compaction, now>>

\* An error, or the end of the process.
AbortRefresh(w) ==
  /\ writer[w].pc # "idle"
  /\ writer' = [writer EXCEPT ![w] = Idle]
  /\ UNCHANGED <<market, books, snapshots, compaction, now>>

-----------------------------------------------------------------------------
(***************************************************************************)
(* A compaction                                                            *)
(***************************************************************************)
\* ORDER BY created_at, id.  The dates are texts without trailing zeros, which
\* need not sort as the times do: .5 comes after .51.
Before(i, j) ==
  \/ Rank[snapshots[i].at] < Rank[snapshots[j].at]
  \/ snapshots[i].at = snapshots[j].at /\ i < j

SameBucket(i, j) ==
  snapshots[i].at \div KeepEvery = snapshots[j].at \div KeepEvery

\* Variant: the latest row is one of its bucket's.
DoomedWithLatest == {i \in Live : \E j \in Live : Before(j, i) /\ SameBucket(j, i)}

\* The latest row is kept, and of the others the first of each bucket.
Doomed ==
  LET others == {i \in Live : \E j \in Live : Before(i, j)}
  IN  {i \in others : \E j \in others : Before(j, i) /\ SameBucket(j, i)}

\* The SELECT.
ReadSnapshots ==
  /\ compaction.pc = "idle"
  /\ compaction' = [pc |-> "delete", doomed |-> Doomed]
  /\ UNCHANGED <<market, books, snapshots, writer, now>>

\* The DELETE of what was selected.
DeleteSnapshots ==
  /\ compaction.pc = "delete"
  /\ snapshots' = [i \in DOMAIN snapshots |->
       [snapshots[i] EXCEPT !.live = @ /\ i \notin compaction.doomed]]
  /\ compaction' = [pc |-> "idle", doomed |-> {}]
  /\ UNCHANGED <<market, books, writer, now>>

AbortCompaction ==
  /\ compaction.pc = "delete"
  /\ compaction' = [pc |-> "idle", doomed |-> {}]
  /\ UNCHANGED <<market, books, snapshots, writer, now>>

-----------------------------------------------------------------------------
(***************************************************************************)
(* The books                                                               *)
(***************************************************************************)
\* Variant: what is sold is not compared with the position.
CoveredAnyway(action, quantity) == TRUE

\* CreateFill refuses to sell what is not there.
Covered(action, quantity) == action = "sell" => quantity <= books.held

\* A fill tears the portfolios between the first and the third sum.
Fill(action, amount, price) ==
  LET quantity == QuantityForAmount(amount, price)
  IN  /\ books.fills < MaxFills
      /\ Covered(action, quantity)
      /\ books' = [books EXCEPT !.fills = @ + 1,
           !.cash = IF action = "buy" THEN @ - amount ELSE @ + amount,
           !.held = IF action = "buy" THEN @ + quantity ELSE @ - quantity]
      /\ writer' = Tear({"payouts", "marks"})
      /\ UNCHANGED <<market, snapshots, compaction, now>>

AdvanceMarkets ==
  /\ market.status = "open"
  /\ \E price \in YesPrices : market' = [market EXCEPT !.yes = price]
  /\ UNCHANGED <<books, snapshots, writer, compaction, now>>

\* The operator seeds the market once more.  Its outcome, if there is one, stays.
UpsertMarket(price) ==
  /\ market' = [market EXCEPT !.status = "open", !.yes = price]
  /\ UNCHANGED <<books, snapshots, writer, compaction, now>>

\* Announced for the first time or corrected.
SetMarketOutcome(outcome) ==
  /\ Len(snapshots) < MaxResolvedRows
  /\ \A v, w \in Writers : writer[v].pc # "idle" /\ writer[w].pc # "idle" => v = w
  /\ market' = [status |-> "resolved", yes |-> TerminalYesPrice(outcome), outcome |-> outcome]
  /\ UNCHANGED <<books, snapshots, writer, compaction, now>>

Payout == MarkValue(books.held, IF market.outcome = "yes" THEN BPS ELSE 0)

\* Variant: the position is paid for and stays.
SettleAndKeep ==
  /\ market.outcome # "none"
  /\ books.held > 0
  /\ ~books.settled
  /\ books' = [books EXCEPT !.payouts = @ + Payout, !.settled = TRUE]
  /\ writer' = Tear({"marks"})
  /\ UNCHANGED <<market, snapshots, compaction, now>>

\* A settlement turns the position into cash, which tears the portfolios
\* between the second and the third sum, and no other.
SettleRound ==
  /\ market.outcome # "none"
  /\ books.held > 0
  /\ ~books.settled
  /\ books' = [books EXCEPT !.payouts = @ + Payout, !.settled = TRUE, !.held = 0]
  /\ writer' = Tear({"marks"})
  /\ UNCHANGED <<market, snapshots, compaction, now>>

\* The reset of the team, or of the round.  Ids are not used again, so what a
\* compaction still wants to delete is gone for good.
Reset ==
  /\ books' = [fills |-> 0, cash |-> InitialBalance, payouts |-> 0,
               settled |-> FALSE, held |-> 0]
  /\ snapshots' = <<>>
  /\ compaction' = [compaction EXCEPT !.doomed = {}]
  /\ writer' = [w \in Writers |->
       [Tear({"payouts", "marks"})[w] EXCEPT !.late = @ \/ writer[w].pc = "insert"]]
  /\ UNCHANGED <<market, now>>

\* Bound: the clock moves once, by any distance.
Tick ==
  /\ now = 0
  /\ \E time \in 1..MaxTime : now' = time
  /\ UNCHANGED <<market, books, snapshots, writer, compaction>>

-----------------------------------------------------------------------------
Init ==
  /\ \E price \in YesPrices : market = [status |-> "open", yes |-> price, outcome |-> "none"]
  /\ books = [fills |-> 0, cash |-> InitialBalance, payouts |-> 0,
              settled |-> FALSE, held |-> 0]
  /\ snapshots = <<>>
  /\ writer = [w \in Writers |-> Idle]
  /\ compaction = [pc |-> "idle", doomed |-> {}]
  /\ now = 0

Refresh(w) ==
  \/ ReadFills(w)
  \/ ReadPayouts(w)
  \/ ReadMarks(w)
  \/ ReadPeak(w)
  \/ InsertSnapshot(w)
  \/ AbortRefresh(w)

Next ==
  \/ \E w \in Writers : Refresh(w)
  \/ ReadSnapshots
  \/ DeleteSnapshots
  \/ AbortCompaction
  \/ \E action \in {"buy", "sell"}, amount \in Amounts, price \in YesPrices :
       Fill(action, amount, price)
  \/ AdvanceMarkets
  \/ \E price \in YesPrices : UpsertMarket(price)
  \/ \E outcome \in Outcomes : SetMarketOutcome(outcome)
  \/ SettleRound
  \/ Reset
  \/ Tick

Spec == Init /\ [][Next]_vars

-----------------------------------------------------------------------------
(***************************************************************************)
(* Why untorn equities are real: the inductive invariant                   *)
(***************************************************************************)
\* What a refresh that was not torn has added up is what the books add up to.
Readings ==
  \A w \in Writers : ~writer[w].torn =>
    /\ writer[w].pc = "payouts" => writer[w].cash = books.cash
    /\ writer[w].pc = "marks"   => writer[w].cash = books.cash + books.payouts

\* A resolved market is marked at its outcome.
MarkedAtOutcome ==
  market.status = "resolved" =>
    market.outcome # "none" /\ market.yes = TerminalYesPrice(market.outcome)

\* The refreshes are records of one shape, whatever is in them.
WriterShape ==
  /\ DOMAIN writer = Writers
  /\ \A w \in Writers : DOMAIN writer[w] = DOMAIN Idle

\* What a refresh adds up, fills and settlements change.
BooksShape ==
  /\ DOMAIN books = {"fills", "cash", "payouts", "settled", "held"}
  /\ books.cash \in Int /\ books.payouts \in Nat /\ books.held \in Nat

IInv ==
  /\ market \in MarketRow
  /\ BooksShape
  /\ WriterShape
  /\ Readings
  /\ MarkedAtOutcome

-----------------------------------------------------------------------------
(***************************************************************************)
(* Properties                                                              *)
(***************************************************************************)
\* ComputePortfolio reads three sums in three statements.  What it makes of
\* them is what the team is worth at the moment of the last, whatever came
\* before, except for a fill after the first sum, a settlement after the
\* second, or a reset: prices that move, outcomes, corrected ones too, and
\* settlements between the first two do no harm.
UntornEquityIsReal ==
  [][\A w \in Writers : ReadMarks(w) /\ ~writer[w].torn => writer'[w].equity = Equity]_vars

\* A settlement of a resolved market pays a position what it was marked at: equity
\* does not move, whatever was announced, corrected, seeded once more or filled
\* before.  The code also settles a market that is open again at another price, since
\* it looks for an outcome only (Markets!OpenMarketsAreNotSettled): then the team
\* is paid by the outcome what was marked at the price, and its equity does move.
\* A market that is seeded with the status resolved is left out.
SettlementKeepsEquity ==
  [][SettleRound /\ market.status = "resolved" => Equity' = Equity]_vars

\* The greatest fall from a recorded equity to a later one, by its definition:
\* deleted rows were recorded, too.
LargestFall ==
  LET ids == DOMAIN snapshots
  IN  Max({Fall(snapshots[ij[1]].equity, snapshots[ij[2]].equity) :
             ij \in {pair \in ids \X ids : pair[1] <= pair[2]}})

\* There are portfolio snapshots, which were inserted one after the other.
Punctual == snapshots # <<>> /\ \A i \in DOMAIN snapshots : ~snapshots[i].late

Recorded == snapshots[Len(snapshots)].drawdown

\* No recorded equity is below nothing.  A team that overdrew can be worth less,
\* and then a fall from a lower peak is the larger part of that peak.
Solvent == \A i \in DOMAIN snapshots : snapshots[i].equity >= 0

\* The running peak and the running maximum of maxDrawdownWithCurrent give the
\* largest fall of all, as long as refreshes do not overlap from the reading
\* of the peak on.  Compactions can lose some of it, and add nothing.
DrawdownIsLargestFall ==
  Punctual =>
    /\ Recorded <= LargestFall
    /\ Solvent /\ Live = DOMAIN snapshots => Recorded = LargestFall

Newest == MaxOr0(Live)

\* The texts of the dates are in the order of the ids.
InOrder == \A i, j \in Live : i < j => Before(i, j)

\* The portfolio and the leaderboard show the row with the greatest id, and a
\* compaction keeps the one with the latest date.  It leaves what is shown
\* alone, also when rows come in between its two statements, as long as no
\* insertion waited for one with a later date, nor a text sorts too early.
CompactionKeepsNewest == [][DeleteSnapshots /\ InOrder => Newest' = Newest]_vars

\* The running maximum survives compactions, though the row it was first
\* reached in may not: the latest row repeats it.
CompactionKeepsMaximum ==
  [][DeleteSnapshots /\ InOrder /\ Punctual => PreviousMax' = PreviousMax]_vars
=============================================================================
