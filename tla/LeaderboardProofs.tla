-------------------------- MODULE LeaderboardProofs --------------------------
(***************************************************************************)
(* Theorems about Scoring, for all integers, and about Leaderboard, for    *)
(* every value of its constants: any number of requests and readers, any   *)
(* finite set of teams.                                                    *)
(***************************************************************************)
EXTENDS Leaderboard, FiniteInduction, TLAPS

\* Integer division, as far as the scores need it.
LEMMA DivisionBounds ==
  ASSUME NEW a \in Int, NEW b \in Nat \ {0}
  PROVE  a \div b \in Int /\ b * (a \div b) <= a /\ a < b * (a \div b) + b
BY Z3

\* Products grow by whole steps.
LEMMA ProductGrows ==
  ASSUME NEW b \in Nat \ {0}, NEW p \in Int, NEW q \in Int, p < q
  PROVE  b * p + b <= b * q
<1>1. b * (p + 1) <= b * q
  <2>1. b * (q - (p + 1)) >= 0
    BY Z3
  <2> QED BY <2>1, Z3
<1> QED BY <1>1, Z3

\* Quotients grow with what is divided.
LEMMA DivisionGrows ==
  ASSUME NEW a \in Int, NEW c \in Int, NEW b \in Nat \ {0}, a <= c
  PROVE  a \div b <= c \div b
<1> DEFINE p == a \div b
           q == c \div b
<1>1. /\ p \in Int /\ b * p <= a /\ a < b * p + b
      /\ q \in Int /\ b * q <= c /\ c < b * q + b
  BY DivisionBounds
<1>2. ASSUME q < p PROVE FALSE
  <2>1. b * q + b <= b * p
    BY <1>1, <1>2, ProductGrows
  <2>2. b * q \in Int /\ b * p \in Int
    BY <1>1
  <2> HIDE DEF p, q
  <2> QED BY <1>1, <2>1, <2>2
<1> HIDE DEF p, q
<1>3. p <= q
  BY <1>1, <1>2
<1> QED BY <1>3 DEF p, q

\* Go's quotient, too, is whole and grows with what is divided.
LEMMA QuotientInt ==
  ASSUME NEW a \in Int, NEW b \in Nat \ {0}
  PROVE  Quotient(a, b) \in Int
<1>1. a \div b \in Int /\ (-a) \div b \in Int
  BY DivisionBounds
<1> QED BY <1>1 DEF Quotient

\* They keep its sign.
LEMMA QuotientSign ==
  ASSUME NEW a \in Nat, NEW b \in Nat \ {0}
  PROVE  a \div b >= 0
<1>1. 0 \div b <= a \div b
  BY DivisionGrows
<1>2. 0 \div b = 0
  BY Z3
<1> QED BY <1>1, <1>2

\* It grows, whatever the signs.
LEMMA QuotientGrows ==
  ASSUME NEW a \in Int, NEW c \in Int, NEW b \in Nat \ {0}, a <= c
  PROVE  Quotient(a, b) <= Quotient(c, b)
<1>1. /\ a \div b \in Int /\ (-a) \div b \in Int
      /\ c \div b \in Int /\ (-c) \div b \in Int
  BY DivisionBounds
<1>2. CASE a >= 0
  BY <1>2, DivisionGrows DEF Quotient
<1>3. CASE a < 0 /\ c >= 0
  <2>1. (-a) \div b >= 0 /\ c \div b >= 0
    BY <1>3, QuotientSign
  <2> QED BY <1>1, <1>3, <2>1 DEF Quotient
<1>4. CASE c < 0
  <2>1. (-c) \div b <= (-a) \div b
    BY <1>4, DivisionGrows
  <2> QED BY <1>1, <1>4, <2>1 DEF Quotient
<1> QED BY <1>2, <1>3, <1>4

\* A score has a floor and a ceiling, and keeps the order of what it rates.
LEMMA ScoreRange ==
  ASSUME NEW v \in Int
  PROVE  Score(v) \in 0..100
BY DEF Score, Clamp

\* The order.
LEMMA ScoreGrows ==
  ASSUME NEW v \in Int, NEW w \in Int, v <= w
  PROVE  Score(v) <= Score(w)
BY DEF Score, Clamp

-----------------------------------------------------------------------------
\* The four parts that vary, each between 0 and 100.
LEMMA ReturnScoreRange ==
  ASSUME NEW start \in Nat \ {0}, NEW equity \in Int
  PROVE  ReturnScore(start, equity) \in 0..100
<1>1. ReturnBPS(start, equity) \in Int
  BY QuotientInt DEF ReturnBPS
<1>2. Quotient(ReturnBPS(start, equity), 100) \in Int
  BY <1>1, QuotientInt
<1> QED BY <1>2, ScoreRange DEF ReturnScore

\* The score of the risk.
LEMMA RiskScoreRange ==
  ASSUME NEW start \in Nat \ {0}, NEW drawdown \in Int, NEW exposure \in Int
  PROVE  RiskScore(start, drawdown, exposure) \in 0..100
<1>1. Quotient(drawdown, 100) \in Int /\ Quotient(exposure * 20, start) \in Int
  BY QuotientInt
<1> QED BY <1>1, ScoreRange DEF RiskScore

\* The score of the predictions.
LEMMA CalibrationScoreRange ==
  ASSUME NEW brier \in Int
  PROVE  CalibrationScore(brier) \in 0..100
<1>1. Quotient(brier, 100) \in Int
  BY QuotientInt
<1> QED BY <1>1, ScoreRange DEF CalibrationScore

\* The score of the orders.
LEMMA ExecutionScoreRange ==
  ASSUME NEW orders \in Int, NEW rejected \in Int, NEW slippage \in Int
  PROVE  ExecutionScore(orders, rejected, slippage) \in 0..100
<1>1. CASE orders <= 0
  BY <1>1 DEF ExecutionScore
<1>2. CASE orders > 0
  <2>1. Quotient(rejected * 100, orders) \in Int /\ Quotient(slippage, 50) \in Int
    BY <1>2, QuotientInt
  <2> QED BY <1>2, <2>1, ScoreRange DEF ExecutionScore
<1> QED BY <1>1, <1>2

\* The weighted sum of the parts, in per cent.
LEMMA Weighted ==
  ASSUME NEW sum \in Int, 1000 <= sum, sum <= 10000
  PROVE  Quotient(sum, 100) \in 10..100
<1>1. sum \div 100 \in 10..100
  BY Z3
<1>2. Quotient(sum, 100) = sum \div 100
  BY DEF Quotient
<1> QED BY <1>1, <1>2

\* A team's score lies between 10 and 100 whatever its books say - an initial
\* balance of zero or less, a loss of more than everything, more rejections than
\* orders (scoring.Compute): the cost score alone is worth 10.
THEOREM CompositeRange ==
  ASSUME NEW initial \in Int, NEW equity \in Int, NEW drawdown \in Int, NEW exposure \in Int,
         NEW brier \in Int, NEW orders \in Int, NEW rejected \in Int, NEW slippage \in Int
  PROVE  Composite(initial, equity, drawdown, exposure, brier, orders, rejected, slippage)
         \in 10..100
<1>1. PICK start \in Nat \ {0} : start = IF initial <= 0 THEN 1 ELSE initial
  OBVIOUS
<1>2. PICK r \in 0..100 : r = ReturnScore(start, equity)
  BY ReturnScoreRange
<1>3. PICK k \in 0..100 : k = RiskScore(start, drawdown, exposure)
  BY RiskScoreRange
<1>4. PICK c \in 0..100 : c = CalibrationScore(brier)
  BY CalibrationScoreRange
<1>5. PICK e \in 0..100 : e = ExecutionScore(orders, rejected, slippage)
  BY ExecutionScoreRange
<1>6. PICK sum \in Int : sum = 40 * r + 20 * k + 20 * c + 10 * e + 10 * CostScore
  BY SMT DEF CostScore
<1>7. Composite(initial, equity, drawdown, exposure, brier, orders, rejected, slippage)
      = Quotient(sum, 100)
  BY <1>1, <1>2, <1>3, <1>4, <1>5, <1>6 DEF Composite
<1>8. Quotient(sum, 100) \in 10..100
  <2>1. 1000 <= sum /\ sum <= 10000
    BY <1>6, SMT DEF CostScore
  <2> QED BY <2>1, Weighted
<1> QED BY <1>7, <1>8

\* Of two teams that differ only in their equity the richer one does not score
\* less (scoring.Compute), for all the truncating divisions on the way.
THEOREM CompositeGrowsWithEquity ==
  ASSUME NEW initial \in Int, NEW poor \in Int, NEW rich \in Int, poor <= rich,
         NEW drawdown \in Int, NEW exposure \in Int,
         NEW brier \in Int, NEW orders \in Int, NEW rejected \in Int, NEW slippage \in Int
  PROVE  Composite(initial, poor, drawdown, exposure, brier, orders, rejected, slippage)
         <= Composite(initial, rich, drawdown, exposure, brier, orders, rejected, slippage)
<1>1. PICK start \in Nat \ {0} : start = IF initial <= 0 THEN 1 ELSE initial
  OBVIOUS
<1>2. ReturnScore(start, poor) <= ReturnScore(start, rich)
  <2>1. /\ ReturnBPS(start, poor) \in Int /\ ReturnBPS(start, rich) \in Int
        /\ ReturnBPS(start, poor) <= ReturnBPS(start, rich)
    <3>1. (poor - start) * 10000 <= (rich - start) * 10000
      OBVIOUS
    <3> QED BY <3>1, QuotientInt, QuotientGrows DEF ReturnBPS
  <2>2. PICK p \in Int : p = Quotient(ReturnBPS(start, poor), 100)
    BY <2>1, QuotientInt
  <2>3. PICK q \in Int : q = Quotient(ReturnBPS(start, rich), 100)
    BY <2>1, QuotientInt
  <2>4. p <= q
    BY <2>1, <2>2, <2>3, QuotientGrows
  <2>5. Score(50 + p) <= Score(50 + q)
    BY <2>4, ScoreGrows
  <2> QED BY <2>2, <2>3, <2>5 DEF ReturnScore
<1>3. PICK a \in 0..100 : a = ReturnScore(start, poor)
  BY ReturnScoreRange
<1>4. PICK b \in 0..100 : b = ReturnScore(start, rich)
  BY ReturnScoreRange
<1>5. PICK k \in 0..100 : k = RiskScore(start, drawdown, exposure)
  BY RiskScoreRange
<1>6. PICK c \in 0..100 : c = CalibrationScore(brier)
  BY CalibrationScoreRange
<1>7. PICK e \in 0..100 : e = ExecutionScore(orders, rejected, slippage)
  BY ExecutionScoreRange
<1>8. PICK x \in Int : x = 40 * a + 20 * k + 20 * c + 10 * e + 10 * CostScore
  BY SMT DEF CostScore
<1>9. PICK y \in Int : y = 40 * b + 20 * k + 20 * c + 10 * e + 10 * CostScore
  BY SMT DEF CostScore
<1>10. Composite(initial, poor, drawdown, exposure, brier, orders, rejected, slippage)
       = Quotient(x, 100)
  BY <1>1, <1>3, <1>5, <1>6, <1>7, <1>8 DEF Composite
<1>11. Composite(initial, rich, drawdown, exposure, brier, orders, rejected, slippage)
       = Quotient(y, 100)
  BY <1>1, <1>4, <1>5, <1>6, <1>7, <1>9 DEF Composite
<1>12. x <= y
  BY <1>2, <1>3, <1>4, <1>8, <1>9 DEF CostScore
<1>13. Quotient(x, 100) <= Quotient(y, 100)
  BY <1>12, QuotientGrows
<1> QED BY <1>10, <1>11, <1>13

\* The square of a miss, in parts of the largest one.
Squared(miss, limit) == (miss * miss) \div limit

LEMMA SquareRange ==
  ASSUME NEW limit \in Nat \ {0}, NEW miss \in 0..limit
  PROVE  Squared(miss, limit) \in 0..limit
<1>1. PICK square \in Nat : square = miss * miss
  OBVIOUS
<1>2. PICK most \in Nat : most = limit * miss
  OBVIOUS
<1>3. miss * miss <= limit * miss
  BY Z3
<1>4. square \div limit <= most \div limit
  BY <1>1, <1>2, <1>3, DivisionGrows
<1>5. most \div limit = miss
  BY <1>2, Z3
<1>6. square \div limit \in Int /\ square \div limit >= 0
  BY DivisionBounds, QuotientSign
<1>7. PICK part \in Int : part = square \div limit
  BY <1>6
<1>8. part \in 0..limit
  BY <1>4, <1>5, <1>6, <1>7
<1>9. Squared(miss, limit) = part
  BY <1>1, <1>7 DEF Squared
<1> QED BY <1>8, <1>9

LEMMA MissRange ==
  ASSUME NEW limit \in Nat \ {0}, NEW miss \in Nat, miss <= limit
  PROVE  /\ Squared(miss, limit) \in Nat /\ Squared(miss, limit) <= limit
         /\ Squared(limit - miss, limit) \in Nat /\ Squared(limit - miss, limit) <= limit
<1>1. miss \in 0..limit /\ limit - miss \in 0..limit
  OBVIOUS
<1>2. Squared(miss, limit) \in 0..limit /\ Squared(limit - miss, limit) \in 0..limit
  BY <1>1, SquareRange, Zenon
<1>3. \A n \in 0..limit : n \in Nat /\ n <= limit
  OBVIOUS
<1> QED BY <1>2, <1>3, Zenon

\* The error of a prediction is at most that of certainty in the wrong outcome,
\* so its score reaches zero and the term does not leave the basis points
\* (Store.BrierScoreBPS).
THEOREM BrierErrorRange ==
  ASSUME NEW probability \in Nat, probability <= 10000, NEW hit \in BOOLEAN
  PROVE  BrierError(probability, hit) \in Nat /\ BrierError(probability, hit) <= 10000
<1>1. PICK limit \in Nat \ {0} : limit = 10000
  OBVIOUS
<1>2. probability <= limit
  BY <1>1
<1>3. /\ Squared(probability, limit) \in Nat /\ Squared(probability, limit) <= limit
      /\ Squared(limit - probability, limit) \in Nat
      /\ Squared(limit - probability, limit) <= limit
  BY <1>2, MissRange
<1>4. hit => BrierError(probability, hit) = Squared(limit - probability, limit)
  BY <1>1 DEF BrierError, Squared
<1>5. ~hit => BrierError(probability, hit) = Squared(probability, limit)
  BY <1>1 DEF BrierError, Squared
<1> QED BY <1>1, <1>3, <1>4, <1>5

-----------------------------------------------------------------------------
(***************************************************************************)
(* The inductive invariant of the board                                    *)
(***************************************************************************)
Began(q) == request[q].pc \notin {"idle", "aborted"}

\* A request that reads the books of a team.
Reads(q) == request[q].pc \in {"orders", "rejected", "insert"}

\* What a request does at which statement.
Stations(q) ==
  /\ request[q].pc = "idle" => request[q] = Idle
  /\ Reads(q) => request[q].team \in Teams
  /\ request[q].pc \in {"delete", "complete", "list", "bundle", "done"} =>
       request[q].todo = {}
  /\ request[q].pc \in {"list", "bundle"} => request[q].kind = "freeze"
  /\ request[q].pc = "complete" => request[q].kind = "complete"
  /\ request[q].pc = "delete" => request[q].kind \notin Silent
  /\ Began(q) /\ request[q].kind \in Silent => request[q].excused

\* What it has read is what there is, while nobody changes the team.
ReadingsHold(q) ==
  LET row == request[q]
  IN  Reads(q) /\ row.team \notin row.disturbed =>
        /\ row.reading.equity = books[row.team].equity
        /\ row.reading.exposure = books[row.team].exposure
        /\ row.pc \in {"rejected", "insert"} => row.reading.orders = books[row.team].orders
        /\ row.pc = "insert" => row.reading.rejected = books[row.team].rejected

\* A team it has been through is scored by its books, while nobody changes it.
Scored(t) == score[t] = Compute(books[t])

ScoresHold(q) ==
  LET row == request[q]
  IN  Began(q) => \A t \in row.scored \ row.disturbed :
        t \in row.todo \/ (Reads(q) /\ t = row.team) \/ Scored(t)

\* Who refreshes the scores answers for everyone on the board.
AnswersForAll(q) ==
  LET row == request[q]
  IN  Began(q) /\ row.kind \in {"settle", "complete", "freeze"} =>
        \A t \in Shown \ row.disturbed :
          \/ t \in row.scored
          \/ row.kind = "complete" /\ row.pc = "done" /\ ~teamActive[t]

\* The ranking by the books as they are.
TrueBoard == Board([t \in Teams |-> Compute(books[t])])

BoardHolds(q) ==
  request[q].pc = "bundle" /\ request[q].disturbed = {} => frozen.board = TrueBoard

\* Who was answered is seen, or excused: on the page in Redis, and on one that
\* is about to be stored there.
Answered == {q \in Requests : request[q].pc = "done"}

Shows(page) == \A q \in Answered \ page.saw : request[q].excused

PagesShow ==
  /\ cache.stored => Shows(cache)
  /\ \A r \in Readers :
       /\ reader[r].finished \subseteq Answered
       /\ reader[r].pc = "store" => Shows(reader[r].page)

\* What holds of every request, whatever the others do.
Sound(q) == Stations(q) /\ ReadingsHold(q) /\ ScoresHold(q) /\ AnswersForAll(q) /\ BoardHolds(q)

IInv ==
  /\ TypeOK
  /\ \A q \in Requests : Sound(q)
  /\ PagesShow
  /\ ReadYourWrites

-----------------------------------------------------------------------------
(***************************************************************************)
(* Types, and the rows of the requests                                     *)
(***************************************************************************)
\* A score that was computed is one, within 10 and 100.
LEMMA ComputeType ==
  ASSUME LeaderboardAssumption, NEW b \in BooksRow
  PROVE  Compute(b) \in ScoreRow
  <1> DEFINE c == Composite(InitialBalance, b.equity, 0, b.exposure, -1, b.orders, b.rejected, 0)
  <1>1. /\ b.equity \in Nat /\ b.exposure \in Nat /\ b.orders \in Nat /\ b.rejected \in Nat
        /\ InitialBalance \in Nat
    BY DEF BooksRow, LeaderboardAssumption
  <1>2. c \in 10..100
    <2>1. /\ InitialBalance \in Int /\ b.equity \in Int /\ b.exposure \in Int /\ b.orders \in Int
          /\ b.rejected \in Int /\ 0 \in Int /\ -1 \in Int
      BY <1>1
    <2> QED BY <2>1, CompositeRange, Zenon
  <1> HIDE DEF c
  <1>3. c \in 0..100
    BY <1>2
  <1>4. Compute(b) = [composite |-> c, equity |-> b.equity]
    BY DEF Compute, c
  <1> QED BY <1>1, <1>3, <1>4 DEF ScoreRow

\* It differs from that of a team that was never scored.
LEMMA ComputeIsScore ==
  ASSUME LeaderboardAssumption, NEW b \in BooksRow
  PROVE  Compute(b) # NoScore
  <1>1. b.equity \in Nat
    BY DEF BooksRow
  <1>2. Compute(b).equity = b.equity /\ NoScore.equity = -1
    BY DEF Compute, NoScore
  <1> QED BY <1>1, <1>2

\* The ranking is one: finitely many teams stand before another.
LEMMA BoardType ==
  ASSUME LeaderboardAssumption, TypeOK
  PROVE  Board(score) \in [Teams -> [rank: Nat, row: ScoreRow]]
  <1>1. ASSUME NEW t \in Teams
        PROVE  1 + Cardinality({u \in Shown : Beats(u, t, score)}) \in Nat
    <2>1. IsFiniteSet({u \in Shown : Beats(u, t, score)})
      BY FS_Subset DEF LeaderboardAssumption, Shown
    <2> QED BY <2>1, FS_CardinalityType
  <1>2. ASSUME NEW t \in Teams PROVE ShownScore(score[t]) \in ScoreRow
    BY DEF TypeOK, ScoreRow, ShownScore, LeaderboardAssumption
  <1>3. NoScore \in ScoreRow
    BY DEF ScoreRow
  <1> QED BY <1>1, <1>2, <1>3, Zenon DEF Board

\* Who is disturbed keeps the form of its row.
LEMMA DisturbType ==
  ASSUME TypeOK, NEW q \in Requests, NEW ts \in SUBSET Teams
  PROVE  Disturb(q, ts) \in [Requests -> RequestRow]
  <1>1. ASSUME NEW p \in Requests
        PROVE  [request[p] EXCEPT !.disturbed = @ \union ts] \in RequestRow
    <2>1. request[p] \in RequestRow
      BY DEF TypeOK
    <2>2. request[p].disturbed \union ts \in SUBSET Teams
      BY <2>1 DEF RequestRow
    <2> QED BY <2>1, <2>2, Zenon DEF RequestRow
  <1> QED BY <1>1, Zenon DEF Disturb, TypeOK

\* Where a request goes once its scores are in.
LEMMA OnwardType ==
  ASSUME NEW kind, NEW todo
  PROVE  Onward(kind, todo) \in {"portfolio", "list", "done", "delete"}
  BY DEF Onward

\* The row of a request that starts, and those of the others.
LEMMA BeginsRows ==
  ASSUME LeaderboardAssumption, TypeOK, NEW q \in Requests, Stations(q),
         NEW kind, NEW ts \in SUBSET Teams, NEW todo \in SUBSET Teams,
         Begins(q, kind, ts, todo)
  PROVE  /\ request' \in [Requests -> RequestRow]
         /\ request'[q] = [kind |-> kind, pc |-> Onward(kind, todo), todo |-> todo, team |-> 0,
                           reading |-> EmptyBooks, scored |-> todo, disturbed |-> {},
                           excused |-> kind \in Silent]
         /\ \A p \in Requests \ {q} : request'[p] = Disturb(q, ts)[p]
  <1> DEFINE D == Disturb(q, ts)
  <1>1. D \in [Requests -> RequestRow]
    BY DisturbType
  <1>2. request' = [D EXCEPT ![q].kind = kind, ![q].pc = Onward(kind, todo),
                             ![q].todo = todo, ![q].scored = todo,
                             ![q].excused = kind \in Silent]
    BY DEF Begins
  <1>3. D[q] = Idle
    BY DEF Disturb, Begins, Stations
  <1> HIDE DEF D
  <1>4. request'[q] = [D[q] EXCEPT !.kind = kind, !.pc = Onward(kind, todo), !.todo = todo,
                                   !.scored = todo, !.excused = kind \in Silent]
    BY <1>1, <1>2, Zenon
  <1>5. request'[q] = [kind |-> kind, pc |-> Onward(kind, todo), todo |-> todo, team |-> 0,
                       reading |-> EmptyBooks, scored |-> todo, disturbed |-> {},
                       excused |-> kind \in Silent]
    <2> DEFINE silent == kind \in Silent
               pc == Onward(kind, todo)
    <2> HIDE DEF silent, pc
    <2>1. request'[q] = [Idle EXCEPT !.kind = kind, !.pc = pc, !.todo = todo,
                                     !.scored = todo, !.excused = silent]
      BY <1>3, <1>4, Zenon DEF silent, pc
    <2>2. request'[q] = [kind |-> kind, pc |-> pc, todo |-> todo, team |-> 0,
                       reading |-> EmptyBooks, scored |-> todo, disturbed |-> {},
                       excused |-> silent]
      BY <2>1 DEF Idle
    <2> QED BY <2>2, Zenon DEF silent, pc
  <1>6. \A p \in Requests \ {q} : request'[p] = D[p]
    BY <1>1, <1>2
  <1>7. request'[q] \in RequestRow
    <2> DEFINE K == AllKinds \union {"none"}
               P == {"idle", "portfolio", "orders", "rejected", "insert", "delete",
                     "complete", "list", "bundle", "done", "aborted"}
               T == Teams \union {0}
               silent == kind \in Silent
    <2>1. kind \in K /\ 0 \in T
      BY DEF Begins, LeaderboardAssumption
    <2>2. EmptyBooks \in BooksRow
      BY DEF EmptyBooks, BooksRow, LeaderboardAssumption
    <2>3. Onward(kind, todo) \in P /\ {} \in SUBSET Teams /\ silent \in BOOLEAN
      BY OnwardType
    <2>4. RequestRow = [kind: K, pc: P, todo: SUBSET Teams, team: T, reading: BooksRow,
                        scored: SUBSET Teams, disturbed: SUBSET Teams, excused: BOOLEAN]
      BY Zenon DEF RequestRow
    <2>5. request'[q] = [kind |-> kind, pc |-> Onward(kind, todo), todo |-> todo, team |-> 0,
                         reading |-> EmptyBooks, scored |-> todo, disturbed |-> {},
                         excused |-> silent]
      BY <1>5, Zenon
    <2> HIDE DEF K, P, T, silent
    <2> QED BY <2>1, <2>2, <2>3, <2>4, <2>5, SMT
  <1>8. DOMAIN request' = Requests /\ request' = [p \in Requests |-> request'[p]]
    BY <1>1, <1>2
  <1>9. request' \in [Requests -> RequestRow]
    BY <1>1, <1>6, <1>7, <1>8
  <1> QED BY <1>5, <1>6, <1>9 DEF D

\* A step leaves what there is on the other teams.
Outside(ts) ==
  \A t \in Teams \ ts :
    /\ books'[t] = books[t] /\ score'[t] = score[t] /\ teamActive'[t] = teamActive[t]
    /\ t \in Shown' <=> t \in Shown

\* What a step of request q does to the others: it disturbs them, by what it does
\* to some teams.
Leaves(q, ts) ==
  /\ \A p \in Requests \ {q} : request'[p] = Disturb(q, ts)[p]
  /\ Outside(ts)

\* To disturb the others by nothing leaves them.
LEMMA DisturbNobody ==
  ASSUME TypeOK, NEW q \in Requests, NEW p \in Requests
  PROVE  Disturb(q, {})[p] = request[p]
  <1>1. request[p] \in RequestRow
    BY DEF TypeOK
  <1>2. [request[p] EXCEPT !.disturbed = @ \union {}] = request[p]
    BY <1>1 DEF RequestRow
  <1> QED BY <1>2, Zenon DEF Disturb

\* The steps of a request that change no table change nothing for the others.
LEMMA QuietLeaves ==
  ASSUME TypeOK, NEW q \in Requests, NEW r, request' = [request EXCEPT ![q] = r],
         UNCHANGED tables
  PROVE  Leaves(q, {})
  <1>1. \A p \in Requests \ {q} : request'[p] = Disturb(q, {})[p]
    BY DisturbNobody DEF TypeOK
  <1>2. Shown' = Shown
    BY DEF tables, Shown
  <1> QED BY <1>1, <1>2, Zenon DEF Leaves, Outside, tables

\* The row of a request that moves on.
LEMMA MovedType ==
  ASSUME TypeOK, NEW q \in Requests, NEW r \in RequestRow, request' = [request EXCEPT ![q] = r]
  PROVE  request' \in [Requests -> RequestRow] /\ request'[q] = r
  BY DEF TypeOK

\* The row of a request that has read a portfolio.
PortfolioRead(q, t) ==
  [request[q] EXCEPT !.pc = "orders", !.team = t, !.todo = @ \ {t},
                     !.reading.equity = books[t].equity,
                     !.reading.exposure = books[t].exposure]

\* Nothing else of the row changes.
LEMMA PortfolioReadRow ==
  ASSUME TypeOK, NEW q \in Requests, NEW t \in Teams, NEW r, r = PortfolioRead(q, t)
  PROVE  /\ r \in RequestRow
         /\ r.kind = request[q].kind /\ r.pc = "orders" /\ r.todo = request[q].todo \ {t}
         /\ r.team = t /\ r.scored = request[q].scored /\ r.disturbed = request[q].disturbed
         /\ r.excused = request[q].excused
         /\ r.reading.equity = books[t].equity /\ r.reading.exposure = books[t].exposure
  <1>1. request[q] \in RequestRow /\ books[t] \in BooksRow
    BY DEF TypeOK
  <1>2. /\ DOMAIN request[q] = DOMAIN Idle
        /\ DOMAIN request[q].reading = DOMAIN EmptyBooks
    BY <1>1, SMT DEF RequestRow, Idle, BooksRow, EmptyBooks
  <1>3. /\ r.kind = request[q].kind /\ r.pc = "orders" /\ r.todo = request[q].todo \ {t}
         /\ r.team = t /\ r.scored = request[q].scored /\ r.disturbed = request[q].disturbed
         /\ r.excused = request[q].excused
    BY <1>2, SMT DEF Idle, PortfolioRead
  <1>4. /\ r.reading.equity = books[t].equity /\ r.reading.exposure = books[t].exposure
    <2> DEFINE a == [request[q] EXCEPT !.pc = "orders", !.team = t, !.todo = @ \ {t}]
               b == [a EXCEPT !.reading = [@ EXCEPT !.equity = books[t].equity]]
    <2>1. r = [b EXCEPT !.reading = [@ EXCEPT !.exposure = books[t].exposure]]
      BY Zenon DEF PortfolioRead
    <2>2. DOMAIN a = DOMAIN Idle /\ a.reading = request[q].reading
      BY <1>2, SMT DEF Idle
    <2> HIDE DEF a
    <2>3. DOMAIN b = DOMAIN Idle /\ b.reading = [a.reading EXCEPT !.equity = books[t].equity]
      BY <2>2, Zenon DEF Idle
    <2> HIDE DEF b
    <2>4. r.reading = [b.reading EXCEPT !.exposure = books[t].exposure]
      BY <2>1, <2>3, Zenon DEF Idle
    <2>5. r.reading = [[request[q].reading EXCEPT !.equity = books[t].equity]
                          EXCEPT !.exposure = books[t].exposure]
      BY <2>2, <2>3, <2>4, Zenon
    <2>6. DOMAIN request[q].reading = {"equity", "exposure", "orders", "rejected"}
      BY <1>2, Zenon DEF EmptyBooks
    <2>7. "equity" # "exposure"
      OBVIOUS
    <2> QED BY <2>5, <2>6, <2>7, Zenon
  <1>5. r \in RequestRow
    BY <1>1, Zenon DEF RequestRow, BooksRow, PortfolioRead
  <1> QED BY <1>3, <1>4, <1>5

\* That has counted the orders,
OrdersCounted(q, t) ==
  [request[q] EXCEPT !.pc = "rejected", !.reading.orders = books[t].orders]

\* Nothing else of the row changes.
LEMMA OrdersCountedRow ==
  ASSUME TypeOK, NEW q \in Requests, NEW t \in Teams, NEW r, r = OrdersCounted(q, t)
  PROVE  /\ r \in RequestRow
         /\ r.kind = request[q].kind /\ r.pc = "rejected" /\ r.todo = request[q].todo
         /\ r.team = request[q].team
         /\ r.scored = request[q].scored /\ r.disturbed = request[q].disturbed
         /\ r.excused = request[q].excused
         /\ r.reading.equity = request[q].reading.equity
         /\ r.reading.exposure = request[q].reading.exposure
         /\ r.reading.orders = books[t].orders
  <1>1. request[q] \in RequestRow /\ books[t] \in BooksRow
    BY DEF TypeOK
  <1>2. /\ DOMAIN request[q] = DOMAIN Idle
        /\ DOMAIN request[q].reading = {"equity", "exposure", "orders", "rejected"}
    BY <1>1, SMT DEF RequestRow, Idle, BooksRow
  <1>3. /\ r.kind = request[q].kind /\ r.pc = "rejected" /\ r.todo = request[q].todo
         /\ r.team = request[q].team /\ r.scored = request[q].scored
         /\ r.disturbed = request[q].disturbed /\ r.excused = request[q].excused
    BY <1>2, SMT DEF Idle, OrdersCounted
  <1>4. r.reading = [request[q].reading EXCEPT !.orders = books[t].orders]
    BY <1>2, Zenon DEF Idle, OrdersCounted
  <1>5. /\ r.reading.equity = request[q].reading.equity
        /\ r.reading.exposure = request[q].reading.exposure
        /\ r.reading.orders = books[t].orders
    <2>1. "orders" # "equity" /\ "orders" # "exposure"
      OBVIOUS
    <2> QED BY <1>2, <1>4, <2>1, Zenon
  <1>6. r \in RequestRow
    BY <1>1, Zenon DEF RequestRow, BooksRow, OrdersCounted
  <1> QED BY <1>3, <1>5, <1>6

\* and the rejected ones.
RejectedCounted(q, t) ==
  [request[q] EXCEPT !.pc = "insert", !.reading.rejected = books[t].rejected]

\* Nothing else of the row changes.
LEMMA RejectedCountedRow ==
  ASSUME TypeOK, NEW q \in Requests, NEW t \in Teams, NEW r, r = RejectedCounted(q, t)
  PROVE  /\ r \in RequestRow
         /\ r.kind = request[q].kind /\ r.pc = "insert" /\ r.todo = request[q].todo
         /\ r.team = request[q].team
         /\ r.scored = request[q].scored /\ r.disturbed = request[q].disturbed
         /\ r.excused = request[q].excused
         /\ r.reading.equity = request[q].reading.equity
         /\ r.reading.exposure = request[q].reading.exposure
         /\ r.reading.orders = request[q].reading.orders
         /\ r.reading.rejected = books[t].rejected
  <1>1. request[q] \in RequestRow /\ books[t] \in BooksRow
    BY DEF TypeOK
  <1>2. /\ DOMAIN request[q] = DOMAIN Idle
        /\ DOMAIN request[q].reading = {"equity", "exposure", "orders", "rejected"}
    BY <1>1, SMT DEF RequestRow, Idle, BooksRow
  <1>3. /\ r.kind = request[q].kind /\ r.pc = "insert" /\ r.todo = request[q].todo
         /\ r.team = request[q].team /\ r.scored = request[q].scored
         /\ r.disturbed = request[q].disturbed /\ r.excused = request[q].excused
    BY <1>2, SMT DEF Idle, RejectedCounted
  <1>4. r.reading = [request[q].reading EXCEPT !.rejected = books[t].rejected]
    BY <1>2, Zenon DEF Idle, RejectedCounted
  <1>5. /\ r.reading.equity = request[q].reading.equity
        /\ r.reading.exposure = request[q].reading.exposure
        /\ r.reading.orders = request[q].reading.orders
        /\ r.reading.rejected = books[t].rejected
    <2>1. "rejected" # "equity" /\ "rejected" # "exposure" /\ "rejected" # "orders"
      OBVIOUS
    <2> QED BY <1>2, <1>4, <2>1, Zenon
  <1>6. r \in RequestRow
    BY <1>1, Zenon DEF RequestRow, BooksRow, RejectedCounted
  <1> QED BY <1>3, <1>5, <1>6

\* A statement with nothing to remember but where the request is, and whether
\* its change may go unseen.
MovedTo(q, pc, x) == [request[q] EXCEPT !.pc = pc, !.excused = x]

\* Nothing else of the row changes.
LEMMA MovedToRow ==
  ASSUME TypeOK, NEW q \in Requests, NEW pc, NEW x \in BOOLEAN, NEW r,
         pc \in {"list", "bundle", "delete", "complete", "done"}, r = MovedTo(q, pc, x)
  PROVE  /\ r \in RequestRow
         /\ r.kind = request[q].kind /\ r.pc = pc /\ r.todo = request[q].todo
         /\ r.team = request[q].team /\ r.reading = request[q].reading
         /\ r.scored = request[q].scored /\ r.disturbed = request[q].disturbed
         /\ r.excused = x
  <1>1. request[q] \in RequestRow
    BY DEF TypeOK
  <1>2. DOMAIN request[q] = DOMAIN Idle
    BY <1>1, SMT DEF RequestRow, Idle
  <1>3. pc \in {"idle", "portfolio", "orders", "rejected", "insert", "delete",
                "complete", "list", "bundle", "done", "aborted"}
    OBVIOUS
  <1>4. r \in RequestRow
    BY <1>1, <1>3, Zenon DEF RequestRow, MovedTo
  <1>5. /\ r.kind = request[q].kind /\ r.pc = pc /\ r.todo = request[q].todo
        /\ r.team = request[q].team /\ r.reading = request[q].reading
        /\ r.scored = request[q].scored /\ r.disturbed = request[q].disturbed
    BY <1>2, SMT DEF Idle, MovedTo
  <1>6. r.excused = x
    BY <1>2, Zenon DEF Idle, MovedTo
  <1> QED BY <1>4, <1>5, <1>6

\* To go on is to move with the excuse it has.
LEMMA GoesTo ==
  ASSUME TypeOK, NEW q \in Requests, NEW pc, Goes(q, pc)
  PROVE  request' = [request EXCEPT ![q] = MovedTo(q, pc, request[q].excused)]
  <1>1. request[q] \in RequestRow
    BY DEF TypeOK
  <1>2. DOMAIN request[q] = DOMAIN Idle
    BY <1>1, SMT DEF RequestRow, Idle
  <1>3. [request[q] EXCEPT !.pc = pc] = MovedTo(q, pc, request[q].excused)
    <2> DEFINE a == [request[q] EXCEPT !.pc = pc]
    <2>1. a = [f \in DOMAIN a |-> a[f]]
      OBVIOUS
    <2>2. a.excused = request[q].excused
      BY <1>2, Zenon DEF Idle
    <2>3. MovedTo(q, pc, request[q].excused) = [a EXCEPT !.excused = request[q].excused]
      BY Zenon DEF MovedTo
    <2> HIDE DEF a
    <2>4. [a EXCEPT !.excused = request[q].excused] = a
      BY <2>1, <2>2, Zenon
    <2> QED BY <2>3, <2>4 DEF a
  <1>4. request' = [request EXCEPT ![q] = [request[q] EXCEPT !.pc = pc]]
    BY Zenon DEF Goes
  <1> QED BY <1>3, <1>4

\* The score of a team is in.
ScoreInserted(q, pc) == [request[q] EXCEPT !.pc = pc, !.team = 0, !.reading = EmptyBooks]

\* The reading is forgotten.
LEMMA ScoreInsertedRow ==
  ASSUME LeaderboardAssumption, TypeOK, NEW q \in Requests, NEW pc, NEW r,
         pc \in {"portfolio", "list", "done", "delete"}, r = ScoreInserted(q, pc)
  PROVE  /\ r \in RequestRow
         /\ r.kind = request[q].kind /\ r.pc = pc /\ r.todo = request[q].todo
         /\ r.scored = request[q].scored /\ r.disturbed = request[q].disturbed
         /\ r.excused = request[q].excused
  <1>1. request[q] \in RequestRow
    BY DEF TypeOK
  <1>2. DOMAIN request[q] = DOMAIN Idle
    BY <1>1, SMT DEF RequestRow, Idle
  <1>3. /\ pc \in {"idle", "portfolio", "orders", "rejected", "insert", "delete",
                   "complete", "list", "bundle", "done", "aborted"}
        /\ 0 \in Teams \union {0}
        /\ EmptyBooks \in BooksRow
    BY DEF EmptyBooks, BooksRow, LeaderboardAssumption
  <1>4. r \in RequestRow
    BY <1>1, <1>3, Zenon DEF RequestRow, ScoreInserted
  <1> QED BY <1>2, <1>4, SMT DEF Idle, ScoreInserted

-----------------------------------------------------------------------------
(***************************************************************************)
(* What a request changes when it starts                                   *)
(***************************************************************************)
\* Whom the prices and the outcomes reach.
Holders == {t \in Teams : books[t].exposure > 0}

\* The part of TypeOK that is about the tables.
TablesType ==
  /\ status \in Statuses
  /\ teamActive \in [Teams -> BOOLEAN]
  /\ enrolled \in [Teams -> BOOLEAN]
  /\ books \in [Teams -> BooksRow]
  /\ score \in [Teams -> ScoreRow]

\* What every request that starts does: it changes some teams, and takes all
\* that are shown if it is one that refreshes the scores.
Starts(q, kind, ts, todo) ==
  /\ Begins(q, kind, ts, todo)
  /\ kind \in {"settle", "complete", "freeze"} => todo = Shown'
  /\ Outside(ts)
  /\ TablesType'
  /\ UNCHANGED <<cache, reader, frozen>>

\* The books of a team keep their form.
LEMMA BooksType ==
  ASSUME LeaderboardAssumption, TypeOK, NEW t \in Teams, NEW e \in Nat
  PROVE  /\ EmptyBooks \in BooksRow
         /\ [books[t] EXCEPT !.equity = e] \in BooksRow
         /\ [books[t] EXCEPT !.exposure = 0] \in BooksRow
         /\ [books[t] EXCEPT !.orders = @ + 1, !.rejected = @ + 1] \in BooksRow
         /\ [books[t] EXCEPT !.exposure = Stake, !.orders = @ + 1] \in BooksRow
  <1>1. books[t] \in BooksRow
    BY DEF TypeOK
  <1>2. EmptyBooks \in BooksRow
    BY DEF BooksRow, EmptyBooks, LeaderboardAssumption
  <1>3. [books[t] EXCEPT !.equity = e] \in BooksRow
    BY <1>1, Zenon DEF BooksRow
  <1>4. [books[t] EXCEPT !.exposure = 0] \in BooksRow
    BY <1>1 DEF BooksRow
  <1>5. books[t].orders + 1 \in Nat /\ books[t].rejected + 1 \in Nat /\ Stake \in Nat
    BY <1>1 DEF BooksRow, LeaderboardAssumption
  <1>6. [books[t] EXCEPT !.orders = @ + 1, !.rejected = @ + 1] \in BooksRow
    BY <1>1, <1>5, Zenon DEF BooksRow
  <1>7. [books[t] EXCEPT !.exposure = Stake, !.orders = @ + 1] \in BooksRow
    BY <1>1, <1>5, Zenon DEF BooksRow
  <1> QED BY <1>2, <1>3, <1>4, <1>6, <1>7

\* Who has nothing at risk is not touched by what prices do.
LEMMA NothingAtRisk ==
  ASSUME TypeOK, NEW t \in Teams \ Holders
  PROVE  [books[t] EXCEPT !.exposure = 0] = books[t]
  BY DEF TypeOK, BooksRow, Holders

\* Each of the requests does.
LEMMA StartEffect ==
  ASSUME LeaderboardAssumption, TypeOK, NEW q \in Requests, RequestStarts(q)
  PROVE  \E kind \in Kinds, ts \in SUBSET Teams, todo \in SUBSET Teams :
           Starts(q, kind, ts, todo)
  <1>s. books \in [Teams -> BooksRow]
        /\ score \in [Teams -> ScoreRow] /\ status \in Statuses
        /\ teamActive \in [Teams -> BOOLEAN] /\ enrolled \in [Teams -> BOOLEAN]
    BY DEF TypeOK
  <1>t. /\ Holders \in SUBSET Teams /\ ToScore \in SUBSET Teams
        /\ {} \in SUBSET Teams /\ Teams \in SUBSET Teams
        /\ \A t \in Teams : {t} \in SUBSET Teams
    BY DEF Holders, ToScore
  <1>k. ASSUME NEW kind, NEW ts, NEW todo, Begins(q, kind, ts, todo) PROVE kind \in Kinds
    BY <1>k DEF Begins
  <1>u. ASSUME UNCHANGED <<status, teamActive, enrolled>> PROVE Shown' = Shown
    BY <1>u DEF Shown
  <1>a. \A ts \in SUBSET Teams : ts = Teams => Outside(ts)
    BY DEF Outside
  <1>1. CASE Trade(q)
    <2>1. PICK t \in Teams : Trade(q)!(t)
      BY <1>1 DEF Trade
    <2>2. books' \in [Teams -> BooksRow]
      BY <1>s, <2>1, BooksType
    <2>3. Outside({t})
      BY <1>s, <1>u, <2>1 DEF Outside
    <2>4. TablesType'
      BY <1>s, <2>1, <2>2, Zenon DEF TablesType
    <2>5. Starts(q, "trade", {t}, {t})
      BY <2>1, <2>3, <2>4 DEF Starts
    <2> QED BY <1>k, <1>t, <2>1, <2>5
  <1>2. CASE Reject(q)
    <2>1. PICK t \in Teams : Reject(q)!(t)
      BY <1>2 DEF Reject
    <2>2. books' \in [Teams -> BooksRow]
      BY <1>s, <2>1, BooksType
    <2>3. Outside({t})
      BY <1>s, <1>u, <2>1 DEF Outside
    <2>4. TablesType'
      BY <1>s, <2>1, <2>2, Zenon DEF TablesType
    <2>5. Starts(q, "reject", {t}, {})
      BY <2>1, <2>3, <2>4 DEF Starts
    <2> QED BY <1>k, <1>t, <2>1, <2>5
  <1>3. CASE Resolve(q)
    <2>1. PICK e \in Equities : Resolve(q)!(e)
      BY <1>3 DEF Resolve
    <2>2. books' \in [Teams -> BooksRow]
      BY <1>s, <2>1, BooksType DEF LeaderboardAssumption
    <2>3. Outside(Holders)
      BY <1>s, <1>u, <2>1 DEF Outside, Holders
    <2>4. TablesType'
      BY <1>s, <2>1, <2>2, Zenon DEF TablesType
    <2>5. Starts(q, "resolve", Holders, {})
      BY <2>1, <2>3, <2>4 DEF Starts, Holders
    <2> QED BY <1>k, <1>t, <2>1, <2>5 DEF Starts
  <1>4. CASE Tick(q)
    <2>1. PICK e \in Equities : Tick(q)!(e)
      BY <1>4 DEF Tick
    <2>2. books' \in [Teams -> BooksRow]
      BY <1>s, <2>1, BooksType DEF LeaderboardAssumption
    <2>3. Outside(Holders)
      BY <1>s, <1>u, <2>1 DEF Outside, Holders
    <2>4. TablesType'
      BY <1>s, <2>1, <2>2, Zenon DEF TablesType
    <2>5. Starts(q, "tick", Holders, Teams)
      BY <2>1, <2>3, <2>4 DEF Starts, Holders
    <2> QED BY <1>k, <1>t, <2>1, <2>5 DEF Starts
  <1>5. CASE Settle(q)
    <2>1. PICK kind \in {"settle", "complete"} : Settle(q)!(kind)
      BY <1>5 DEF Settle
    <2>2. books' \in [Teams -> BooksRow]
      BY <1>s, <2>1, BooksType
    <2>3. Outside(Holders)
      BY <1>s, <1>u, <2>1, NothingAtRisk DEF Outside
    <2>4. TablesType'
      BY <1>s, <2>1, <2>2, Zenon DEF TablesType
    <2>5. ToScore = Shown'
      BY <1>u, <2>1 DEF ToScore, Shown
    <2>6. Starts(q, kind, Holders, ToScore)
      BY <2>1, <2>3, <2>4, <2>5 DEF Starts, Holders
    <2> QED BY <1>k, <1>t, <2>1, <2>6 DEF Starts
  <1>6. CASE Freeze(q)
    <2>1. Begins(q, "freeze", {}, ToScore) /\ UNCHANGED <<tables, cache, reader, frozen>>
      BY <1>6 DEF Freeze
    <2>3. Outside({})
      BY <1>u, <2>1 DEF Outside, tables
    <2>4. TablesType'
      BY <1>s, <2>1, Zenon DEF TablesType, tables
    <2>5. ToScore = Shown'
      BY <1>u, <2>1 DEF ToScore, Shown, tables
    <2>6. Starts(q, "freeze", {}, ToScore)
      BY <2>1, <2>3, <2>4, <2>5 DEF Starts
    <2> QED BY <1>k, <1>t, <2>1, <2>6
  <1>7. CASE PauseOrResumeTeam(q)
    <2>1. PICK t \in Teams : PauseOrResumeTeam(q)!(t)
      BY <1>7 DEF PauseOrResumeTeam
    <2>3. teamActive' \in [Teams -> BOOLEAN]
      BY <1>s, <2>1, Zenon
    <2>4. TablesType'
      BY <1>s, <2>1, <2>3, Zenon DEF TablesType
    <2>5. Starts(q, "team", Teams, {})
      BY <1>a, <1>t, <2>1, <2>4 DEF Starts
    <2> QED BY <1>k, <1>t, <2>1, <2>5
  <1>8. CASE SetRoundTeamStatus(q)
    <2>1. PICK t \in Teams : SetRoundTeamStatus(q)!(t)
      BY <1>8 DEF SetRoundTeamStatus
    <2>3. enrolled' \in [Teams -> BOOLEAN]
      BY <1>s, <2>1, Zenon
    <2>4. TablesType'
      BY <1>s, <2>1, <2>3, Zenon DEF TablesType
    <2>5. Starts(q, "enrollment", Teams, {})
      BY <1>a, <1>t, <2>1, <2>4 DEF Starts
    <2> QED BY <1>k, <1>t, <2>1, <2>5
  <1>9. CASE SetRoundStatus(q)
    <2>1. PICK s \in {"active", "completed"} : SetRoundStatus(q)!(s)
      BY <1>9 DEF SetRoundStatus
    <2>3. status' \in Statuses
      BY <2>1 DEF Statuses
    <2>4. TablesType'
      BY <1>s, <2>1, <2>3, Zenon DEF TablesType
    <2>5. Starts(q, "status", Teams, {})
      BY <1>a, <1>t, <2>1, <2>4 DEF Starts
    <2> QED BY <1>k, <1>t, <2>1, <2>5
  <1>10. CASE ResetTeam(q)
    <2>1. PICK t \in Teams : ResetTeam(q)!(t)
      BY <1>10 DEF ResetTeam
    <2>2. books' \in [Teams -> BooksRow] /\ score' \in [Teams -> ScoreRow]
      BY <1>s, <2>1, BooksType DEF Cleared, ScoreRow
    <2>3. Outside({t})
      BY <1>s, <1>u, <2>1 DEF Outside, Cleared
    <2>4. TablesType'
      BY <1>s, <2>1, <2>2, Zenon DEF TablesType
    <2>5. PICK kind \in {"reset_team", "reset_team_round"} : Begins(q, kind, {t}, {})
      BY <2>1
    <2>6. Starts(q, kind, {t}, {})
      BY <2>1, <2>3, <2>4, <2>5 DEF Starts
    <2> QED BY <1>k, <1>t, <2>5, <2>6
  <1>11. CASE ResetRound(q)
    <2>1. Begins(q, "reset_round", Teams, {}) /\ Cleared(Teams) /\ status' = "draft"
          /\ UNCHANGED <<teamActive, enrolled, cache, reader, frozen>>
      BY <1>11 DEF ResetRound
    <2>2. books' \in [Teams -> BooksRow] /\ score' \in [Teams -> ScoreRow]
      BY <1>s, <2>1, BooksType DEF Cleared, ScoreRow
    <2>3. status' \in Statuses
      BY <2>1 DEF Statuses
    <2>4. TablesType'
      BY <1>s, <2>1, <2>2, <2>3, Zenon DEF TablesType
    <2>5. Starts(q, "reset_round", Teams, {})
      BY <1>a, <1>t, <2>1, <2>4 DEF Starts
    <2> QED BY <1>k, <1>t, <2>1, <2>5
  <1> QED BY <1>1, <1>2, <1>3, <1>4, <1>5, <1>6, <1>7, <1>8, <1>9, <1>10, <1>11
          DEF RequestStarts

-----------------------------------------------------------------------------
(***************************************************************************)
(* The ranking, and the requests that are disturbed                        *)
(***************************************************************************)
\* The ranking depends on the scores of those who are shown.
LEMMA SameBoard ==
  ASSUME NEW s, NEW z, \A t \in Shown : s[t] = z[t]
  PROVE  Board(s) = Board(z)
  <1>1. ASSUME NEW t \in Shown
        PROVE  {u \in Shown : Beats(u, t, s)} = {u \in Shown : Beats(u, t, z)}
    <2>1. ASSUME NEW u \in Shown PROVE Beats(u, t, s) <=> Beats(u, t, z)
      BY Zenon DEF Beats
    <2> QED BY <2>1
  <1> QED BY <1>1, Zenon DEF Board

\* What is read off the tables of a board is the same when they are.
LEMMA BoardKept ==
  ASSUME Shown' = Shown, \A t \in Teams : books'[t] = books[t]
  PROVE  TrueBoard' = TrueBoard
  <1>1. [t \in Teams |-> Compute(books'[t])] = [t \in Teams |-> Compute(books[t])]
    BY Zenon
  <1> QED BY <1>1, Zenon DEF TrueBoard, Board

\* A freeze that was not disturbed has scored all that are shown.
LEMMA FreezeScored ==
  ASSUME NEW q \in Requests, Sound(q), request[q].pc \in {"list", "bundle"},
         request[q].disturbed = {}
  PROVE  Board(score) = TrueBoard
  <1>1. request[q].todo = {} /\ request[q].kind = "freeze" /\ Began(q) /\ ~Reads(q)
    BY DEF Sound, Stations, Began, Reads
  <1>2. \A t \in Shown : t \in request[q].scored
    BY <1>1 DEF Sound, AnswersForAll
  <1>3. \A t \in Shown : Scored(t)
    BY <1>1, <1>2 DEF Sound, ScoresHold
  <1>4. \A t \in Shown : score[t] = [u \in Teams |-> Compute(books[u])][t]
    BY <1>3 DEF Scored, Shown
  <1> QED BY <1>4, SameBoard DEF TrueBoard

\* The requests that are disturbed stay sound.
LEMMA OthersSound ==
  ASSUME TypeOK, NEW p \in Requests, Sound(p), NEW ts \in SUBSET Teams, Outside(ts),
         request'[p] = IF request[p].pc = "idle" THEN request[p]
                       ELSE [request[p] EXCEPT !.disturbed = @ \union ts],
         \/ frozen'.board = frozen.board
         \/ ts = {} /\ frozen'.board = Board(score)
  PROVE  Sound(p)'
  <1>0. request[p] \in RequestRow
    BY DEF TypeOK
  <1>1. CASE request[p].pc = "idle"
    BY <1>1 DEF Sound, Stations, ReadingsHold, ScoresHold, AnswersForAll, BoardHolds,
                   Reads, Began, Idle
  <1>2. CASE request[p].pc # "idle"
    <2>0. DOMAIN request[p] = DOMAIN Idle
      BY <1>0, SMT DEF RequestRow, Idle
    <2>1. /\ request'[p].kind = request[p].kind /\ request'[p].pc = request[p].pc
          /\ request'[p].todo = request[p].todo /\ request'[p].team = request[p].team
          /\ request'[p].reading = request[p].reading /\ request'[p].scored = request[p].scored
          /\ request'[p].disturbed = request[p].disturbed \union ts
          /\ request'[p].excused = request[p].excused
      BY <1>2, <2>0, SMT DEF Idle
    <2>2. request[p].scored \in SUBSET Teams
      BY <1>0 DEF RequestRow
    <2>3. Stations(p)'
      BY <1>2, <2>1 DEF Sound, Stations, Reads, Began
    <2>4. ReadingsHold(p)'
      BY <2>1 DEF Sound, Stations, ReadingsHold, Reads, Outside
    <2>5. ScoresHold(p)'
      <3>1. ASSUME NEW t \in Teams \ ts, Scored(t) PROVE Scored(t)'
        BY <3>1 DEF Scored, Outside
      <3> QED BY <2>1, <2>2, <3>1 DEF Sound, ScoresHold, Reads, Began
    <2>6. AnswersForAll(p)'
      <3>1. Shown' \in SUBSET Teams
        BY DEF Shown
      <3>2. ASSUME NEW t \in Shown' \ request'[p].disturbed
            PROVE  /\ t \in Shown \ request[p].disturbed
                   /\ teamActive'[t] = teamActive[t]
        BY <2>1, <3>1 DEF Outside
      <3> QED BY <2>1, <3>2 DEF Sound, AnswersForAll, Began
    <2>7. BoardHolds(p)'
      <3> SUFFICES ASSUME request'[p].pc = "bundle", request'[p].disturbed = {}
                   PROVE  frozen'.board = TrueBoard'
        BY DEF BoardHolds
      <3>1. ts = {} /\ request[p].pc = "bundle" /\ request[p].disturbed = {}
        BY <2>1
      <3>2. Shown' = Shown /\ \A t \in Teams : books'[t] = books[t]
        BY <3>1 DEF Outside, Shown
      <3>3. TrueBoard' = TrueBoard
        BY <3>2, BoardKept
      <3>4. frozen.board = TrueBoard
        BY <3>1 DEF Sound, BoardHolds
      <3>5. Board(score) = TrueBoard
        BY <3>1, FreezeScored
      <3> QED BY <3>3, <3>4, <3>5
    <2> QED BY <2>3, <2>4, <2>5, <2>6, <2>7 DEF Sound
  <1> QED BY <1>1, <1>2

-----------------------------------------------------------------------------
(***************************************************************************)
(* The steps of a request                                                  *)
(***************************************************************************)
\* What every step of a request does.
Disturbs(q, ts) ==
  /\ Leaves(q, ts)
  /\ \/ frozen'.board = frozen.board
     \/ ts = {} /\ frozen'.board = Board(score)

\* A request that is answered now is excused, if it leaves the page alone.
Answers(q) ==
  /\ request[q].pc # "done"
  /\ request'[q].pc = "done" => request'[q].excused
  /\ UNCHANGED <<cache, reader>>

\* A request that starts is sound.
LEMMA StartStep ==
  ASSUME LeaderboardAssumption, TypeOK, NEW q \in Requests, Sound(q), RequestStarts(q)
  PROVE  /\ TypeOK' /\ Sound(q)' /\ Answers(q)
         /\ \E ts \in SUBSET Teams : Disturbs(q, ts)
  <1>1. PICK kind \in Kinds, ts \in SUBSET Teams, todo \in SUBSET Teams : Starts(q, kind, ts, todo)
    BY StartEffect
  <1>2. /\ request' \in [Requests -> RequestRow]
        /\ request'[q] = [kind |-> kind, pc |-> Onward(kind, todo), todo |-> todo, team |-> 0,
                           reading |-> EmptyBooks, scored |-> todo, disturbed |-> {},
                           excused |-> kind \in Silent]
         /\ \A p \in Requests \ {q} : request'[p] = Disturb(q, ts)[p]
    BY <1>1, BeginsRows DEF Starts, Sound
  <1>3. /\ request'[q].kind = kind /\ request'[q].pc = Onward(kind, todo)
        /\ request'[q].todo = todo /\ request'[q].scored = todo
        /\ request'[q].disturbed = {} /\ request'[q].excused = (kind \in Silent)
    <2> DEFINE silent == kind \in Silent
    <2>1. request'[q] = [kind |-> kind, pc |-> Onward(kind, todo), todo |-> todo, team |-> 0,
                         reading |-> EmptyBooks, scored |-> todo, disturbed |-> {},
                         excused |-> silent]
      BY <1>2, Zenon
    <2> HIDE DEF silent
    <2>2. /\ request'[q].kind = kind /\ request'[q].pc = Onward(kind, todo)
          /\ request'[q].todo = todo /\ request'[q].scored = todo
          /\ request'[q].disturbed = {} /\ request'[q].excused = silent
      BY <2>1, SMT
    <2> QED BY <2>2, Zenon DEF silent
  <1>4. UNCHANGED <<cache, reader, frozen>>
    BY <1>1 DEF Starts
  <1>5. TypeOK'
    BY <1>1, <1>2, <1>4, Zenon DEF TypeOK, TablesType, Starts
  <1>6. /\ todo # {} => Onward(kind, todo) = "portfolio"
        /\ Onward(kind, todo) \in {"portfolio", "list", "done", "delete"}
        /\ Onward(kind, todo) = "list" => kind = "freeze"
        /\ Onward(kind, todo) = "done" => kind \in Silent
        /\ Onward(kind, todo) = "delete" => kind \notin Silent
    BY DEF Onward, Silent
  <1>7. Stations(q)'
    BY <1>3, <1>6 DEF Stations, Reads, Began
  <1>8. ReadingsHold(q)' /\ ScoresHold(q)' /\ BoardHolds(q)'
    BY <1>3, <1>6 DEF ReadingsHold, Reads, ScoresHold, Began, BoardHolds
  <1>9. AnswersForAll(q)'
    BY <1>1, <1>3 DEF Starts, AnswersForAll
  <1>10. Answers(q)
    <2>1. request[q].pc # "done"
      BY <1>1 DEF Starts, Begins
    <2> QED BY <1>3, <1>4, <1>6, <2>1 DEF Answers
  <1>11. Disturbs(q, ts)
    BY <1>1, <1>2, <1>4 DEF Disturbs, Leaves, Starts
  <1> QED BY <1>5, <1>7, <1>8, <1>9, <1>10, <1>11 DEF Sound

\* The steps that only read, or only end the request.
Quiet(q, r) ==
  /\ request' = [request EXCEPT ![q] = r]
  /\ UNCHANGED tables

\* They keep the types and leave the others alone.
LEMMA QuietStep ==
  ASSUME TypeOK, NEW q \in Requests, NEW r \in RequestRow, Quiet(q, r),
         frozen' \in FrozenRow, cache' \in PageRow, reader' \in [Readers -> ReaderRow],
         frozen'.board \in {frozen.board, Board(score)}
  PROVE  TypeOK' /\ Disturbs(q, {}) /\ request'[q] = r /\ Shown' = Shown
  <1>1. request' \in [Requests -> RequestRow] /\ request'[q] = r
    BY MovedType DEF Quiet
  <1>2. TypeOK'
    BY <1>1, Zenon DEF TypeOK, Quiet, tables
  <1>3. Leaves(q, {})
    BY QuietLeaves DEF Quiet
  <1>4. Disturbs(q, {})
    BY <1>3 DEF Disturbs
  <1>5. Shown' = Shown
    BY DEF Shown, Quiet, tables
  <1> QED BY <1>1, <1>2, <1>4, <1>5

\* What is read of a portfolio is what there is.
LEMMA ReadPortfolioStep ==
  ASSUME TypeOK, NEW q \in Requests, Sound(q), ReadPortfolio(q)
  PROVE  TypeOK' /\ Sound(q)' /\ Answers(q) /\ Disturbs(q, {})
  <1>1. PICK t \in request[q].todo : ReadPortfolio(q)!(t)
    BY DEF ReadPortfolio
  <1>2. t \in Teams
    BY DEF TypeOK, RequestRow
  <1>r. PICK r : r = PortfolioRead(q, t)
    OBVIOUS
  <1>3. request' = [request EXCEPT ![q] = r]
    <2> DEFINE one == [request EXCEPT ![q].pc = "orders", ![q].team = t, ![q].todo = @ \ {t}]
               a == [request[q] EXCEPT !.pc = "orders", !.team = t, !.todo = @ \ {t}]
    <2>1. request' = [one EXCEPT ![q].reading.equity = books[t].equity,
                                 ![q].reading.exposure = books[t].exposure]
      BY <1>1, Zenon
    <2>2. one = [request EXCEPT ![q] = a]
      BY Zenon
    <2>3. r = [a EXCEPT !.reading.equity = books[t].equity,
                        !.reading.exposure = books[t].exposure]
      BY <1>r, Zenon DEF PortfolioRead
    <2>4. q \in DOMAIN request
      BY DEF TypeOK
    <2> HIDE DEF one, a
    <2> QED BY <2>1, <2>2, <2>3, <2>4, Zenon
  <1>4. /\ r \in RequestRow
         /\ r.kind = request[q].kind /\ r.pc = "orders" /\ r.todo = request[q].todo \ {t}
         /\ r.team = t /\ r.scored = request[q].scored /\ r.disturbed = request[q].disturbed
         /\ r.excused = request[q].excused
         /\ r.reading.equity = books[t].equity /\ r.reading.exposure = books[t].exposure
    BY <1>2, <1>r, PortfolioReadRow
  <1>5. TypeOK' /\ Disturbs(q, {}) /\ request'[q] = r /\ Shown' = Shown
    <2>1. Quiet(q, r) /\ UNCHANGED <<cache, reader, frozen>>
      BY <1>1, <1>3, Zenon DEF Quiet
    <2>2. frozen' \in FrozenRow /\ cache' \in PageRow /\ reader' \in [Readers -> ReaderRow]
      BY <2>1 DEF TypeOK
    <2> QED BY <1>4, <2>1, <2>2, QuietStep
  <1>6. Answers(q)
    BY <1>1, <1>4, <1>5 DEF Answers
  <1>7. UNCHANGED <<teamActive, books, score>>
    BY <1>1 DEF tables
  <1>8. Stations(q)' /\ ReadingsHold(q)' /\ BoardHolds(q)'
    BY <1>1, <1>2, <1>4, <1>5, <1>7
       DEF Sound, Stations, ReadingsHold, BoardHolds, Reads, Began
  <1>9. ScoresHold(q)'
    BY <1>1, <1>4, <1>5, <1>7 DEF Sound, ScoresHold, Reads, Began, Scored
  <1>10. AnswersForAll(q)'
    BY <1>1, <1>4, <1>5, <1>7 DEF Sound, AnswersForAll, Began
  <1> QED BY <1>5, <1>6, <1>8, <1>9, <1>10 DEF Sound

\* The orders are counted.
LEMMA CountOrdersStep ==
  ASSUME TypeOK, NEW q \in Requests, Sound(q), CountOrders(q)
  PROVE  TypeOK' /\ Sound(q)' /\ Answers(q) /\ Disturbs(q, {})
  <1>t. PICK t : t = request[q].team
    OBVIOUS
  <1>r. PICK r : r = OrdersCounted(q, t)
    OBVIOUS
  <1>1. request[q].pc = "orders" /\ UNCHANGED <<tables, cache, reader, frozen>>
    BY DEF CountOrders
  <1>2. t \in Teams
    BY <1>1, <1>t DEF Sound, Stations, Reads
  <1>3. request' = [request EXCEPT ![q] = r]
    BY <1>r, <1>t, Zenon DEF CountOrders, OrdersCounted
  <1>4.  /\ r \in RequestRow
         /\ r.kind = request[q].kind /\ r.pc = "rejected" /\ r.todo = request[q].todo
         /\ r.team = t
         /\ r.scored = request[q].scored /\ r.disturbed = request[q].disturbed
         /\ r.excused = request[q].excused
         /\ r.reading.equity = request[q].reading.equity
         /\ r.reading.exposure = request[q].reading.exposure
         /\ r.reading.orders = books[t].orders
    BY <1>2, <1>r, <1>t, OrdersCountedRow
  <1>5. TypeOK' /\ Disturbs(q, {}) /\ request'[q] = r /\ Shown' = Shown
    BY <1>1, <1>3, <1>4, QuietStep DEF Quiet, TypeOK
  <1>6. Answers(q)
    BY <1>1, <1>4, <1>5 DEF Answers
  <1>7. UNCHANGED <<teamActive, books, score>>
    BY <1>1 DEF tables
  <1>8. Stations(q)' /\ ReadingsHold(q)' /\ BoardHolds(q)'
    BY <1>1, <1>2, <1>t, <1>4, <1>5, <1>7
       DEF Sound, Stations, ReadingsHold, BoardHolds, Reads, Began
  <1>9. ScoresHold(q)'
    BY <1>1, <1>t, <1>4, <1>5, <1>7 DEF Sound, ScoresHold, Reads, Began, Scored
  <1>10. AnswersForAll(q)'
    BY <1>1, <1>t, <1>4, <1>5, <1>7 DEF Sound, AnswersForAll, Began
  <1> QED BY <1>5, <1>6, <1>8, <1>9, <1>10 DEF Sound

\* So are the rejected ones; the reading is complete.
LEMMA CountRejectedStep ==
  ASSUME TypeOK, NEW q \in Requests, Sound(q), CountRejected(q)
  PROVE  TypeOK' /\ Sound(q)' /\ Answers(q) /\ Disturbs(q, {})
  <1>t. PICK t : t = request[q].team
    OBVIOUS
  <1>r. PICK r : r = RejectedCounted(q, t)
    OBVIOUS
  <1>1. request[q].pc = "rejected" /\ UNCHANGED <<tables, cache, reader, frozen>>
    BY DEF CountRejected
  <1>2. t \in Teams
    BY <1>1, <1>t DEF Sound, Stations, Reads
  <1>3. request' = [request EXCEPT ![q] = r]
    BY <1>r, <1>t, Zenon DEF CountRejected, RejectedCounted
  <1>4.  /\ r \in RequestRow
         /\ r.kind = request[q].kind /\ r.pc = "insert" /\ r.todo = request[q].todo
         /\ r.team = t
         /\ r.scored = request[q].scored /\ r.disturbed = request[q].disturbed
         /\ r.excused = request[q].excused
         /\ r.reading.equity = request[q].reading.equity
         /\ r.reading.exposure = request[q].reading.exposure
         /\ r.reading.orders = request[q].reading.orders
         /\ r.reading.rejected = books[t].rejected
    BY <1>2, <1>r, <1>t, RejectedCountedRow
  <1>5. TypeOK' /\ Disturbs(q, {}) /\ request'[q] = r /\ Shown' = Shown
    BY <1>1, <1>3, <1>4, QuietStep DEF Quiet, TypeOK
  <1>6. Answers(q)
    BY <1>1, <1>4, <1>5 DEF Answers
  <1>7. UNCHANGED <<teamActive, books, score>>
    BY <1>1 DEF tables
  <1>8. Stations(q)' /\ ReadingsHold(q)' /\ BoardHolds(q)'
    BY <1>1, <1>2, <1>t, <1>4, <1>5, <1>7
       DEF Sound, Stations, ReadingsHold, BoardHolds, Reads, Began
  <1>9. ScoresHold(q)'
    BY <1>1, <1>t, <1>4, <1>5, <1>7 DEF Sound, ScoresHold, Reads, Began, Scored
  <1>10. AnswersForAll(q)'
    BY <1>1, <1>t, <1>4, <1>5, <1>7 DEF Sound, AnswersForAll, Began
  <1> QED BY <1>5, <1>6, <1>8, <1>9, <1>10 DEF Sound

\* The score of what was read is the team's, if nobody changed it meanwhile.
LEMMA InsertScoreStep ==
  ASSUME LeaderboardAssumption, TypeOK, NEW q \in Requests, Sound(q), InsertScore(q)
  PROVE  /\ TypeOK' /\ Sound(q)' /\ Answers(q)
         /\ \E ts \in SUBSET Teams : Disturbs(q, ts)
  <1>t. PICK t : t = request[q].team
    OBVIOUS
  <1>p. PICK pc : pc = Onward(request[q].kind, request[q].todo)
    OBVIOUS
  <1>d. PICK D : D = Disturb(q, {t})
    OBVIOUS
  <1>r. PICK r : r = ScoreInserted(q, pc)
    OBVIOUS
  <1>1. /\ request[q].pc = "insert"
        /\ score' = [score EXCEPT ![t] = Compute(request[q].reading)]
        /\ request' = [D EXCEPT ![q].pc = pc, ![q].team = 0, ![q].reading = EmptyBooks]
        /\ UNCHANGED <<status, teamActive, enrolled, books, cache, reader, frozen>>
    BY <1>t, <1>p, <1>d, Zenon DEF InsertScore
  <1>2. t \in Teams /\ {t} \in SUBSET Teams
    BY <1>1, <1>t DEF Sound, Stations, Reads
  <1>3. D \in [Requests -> RequestRow] /\ D[q] = request[q]
    <2>1. D \in [Requests -> RequestRow]
      BY <1>2, <1>d, DisturbType
    <2>2. D[q] = request[q]
      BY <1>d, Zenon DEF Disturb
    <2> QED BY <2>1, <2>2
  <1>4. request' = [D EXCEPT ![q] = r]
    BY <1>1, <1>3, <1>r, Zenon DEF ScoreInserted
  <1>5. /\ pc \in {"portfolio", "list", "done", "delete"}
        /\ request[q].todo # {} => pc = "portfolio"
        /\ pc = "list" => request[q].kind = "freeze"
        /\ pc = "done" => request[q].kind \in Silent
        /\ pc = "delete" => request[q].kind \notin Silent
    BY <1>p DEF Onward, Silent
  <1>6.  /\ r \in RequestRow
         /\ r.kind = request[q].kind /\ r.pc = pc /\ r.todo = request[q].todo
         /\ r.scored = request[q].scored /\ r.disturbed = request[q].disturbed
         /\ r.excused = request[q].excused
    BY <1>5, <1>r, ScoreInsertedRow
  <1>7. /\ request' \in [Requests -> RequestRow] /\ request'[q] = r
        /\ \A p \in Requests \ {q} : request'[p] = Disturb(q, {t})[p]
    BY <1>3, <1>4, <1>6, <1>d
  <1>8. request[q].reading \in BooksRow /\ books[t] \in BooksRow
    BY <1>2 DEF TypeOK, RequestRow
  <1>9. score' \in [Teams -> ScoreRow]
    <2>1. Compute(request[q].reading) \in ScoreRow
      BY <1>8, ComputeType
    <2> QED BY <1>1, <2>1 DEF TypeOK
  <1>10. TypeOK'
    BY <1>1, <1>7, <1>9, Zenon DEF TypeOK
  <1>11. Shown' = Shown
    BY <1>1 DEF Shown
  <1>12. /\ score'[t] = Compute(request[q].reading)
         /\ \A u \in Teams \ {t} : score'[u] = score[u]
    BY <1>1, <1>2 DEF TypeOK
  <1>13. Disturbs(q, {t})
    BY <1>1, <1>7, <1>11, <1>12 DEF Disturbs, Leaves, Outside
  <1>14. Answers(q)
    BY <1>1, <1>5, <1>6, <1>7 DEF Answers, Sound, Stations, Began
  <1>15. Stations(q)'
    BY <1>1, <1>5, <1>6, <1>7 DEF Sound, Stations, Reads, Began
  <1>16. ReadingsHold(q)' /\ BoardHolds(q)'
    BY <1>5, <1>6, <1>7 DEF ReadingsHold, BoardHolds, Reads
  <1>17. ScoresHold(q)'
    <2> SUFFICES ASSUME NEW u \in request'[q].scored \ request'[q].disturbed,
                        u \notin request'[q].todo
                 PROVE  score'[u] = Compute(books'[u])
      BY Zenon DEF ScoresHold, Scored
    <2>0. /\ u \in request[q].scored \ request[q].disturbed /\ u \notin request[q].todo
          /\ books'[u] = books[u]
      BY <1>1, <1>6, <1>7
    <2>1. u \in Teams
      BY <2>0 DEF TypeOK, RequestRow
    <2>2. CASE u = t
      <3>1. request[q].reading = books[t]
        <4>1. /\ request[q].reading.equity = books[t].equity
              /\ request[q].reading.exposure = books[t].exposure
              /\ request[q].reading.orders = books[t].orders
              /\ request[q].reading.rejected = books[t].rejected
          BY <1>1, <1>t, <2>0, <2>2 DEF Sound, ReadingsHold, Reads
        <4> QED BY <1>8, <4>1 DEF BooksRow
      <3> QED BY <1>12, <2>0, <2>2, <3>1
    <2>3. CASE u # t
      BY <1>1, <1>t, <1>12, <2>0, <2>1, <2>3 DEF Sound, ScoresHold, Began, Scored
    <2> QED BY <2>2, <2>3
  <1>18. AnswersForAll(q)'
    BY <1>1, <1>5, <1>6, <1>7, <1>11 DEF Sound, AnswersForAll, Began
  <1> QED BY <1>2, <1>10, <1>13, <1>14, <1>15, <1>16, <1>17, <1>18 DEF Sound

\* The statements after the last score, but for the completion: the request
\* stays what it is, and moves on.
LEMMA Moved ==
  ASSUME TypeOK, NEW q \in Requests, Sound(q), NEW pc, NEW x \in BOOLEAN, NEW r,
         r = MovedTo(q, pc, x),
         \/ request[q].pc = "delete" /\ pc = AfterDelete(q)
         \/ request[q].pc = "list" /\ pc = "bundle" /\ x = request[q].excused
         \/ request[q].pc = "bundle" /\ pc = "done" /\ x = request[q].excused,
         Quiet(q, r),
         frozen' \in FrozenRow, cache' \in PageRow, reader' \in [Readers -> ReaderRow],
         frozen'.board = IF request[q].pc = "list" THEN Board(score) ELSE frozen.board
  PROVE  TypeOK' /\ Sound(q)' /\ Disturbs(q, {}) /\ request'[q] = r /\ r.pc = pc /\ r.excused = x
  <1>1. pc \in {"list", "bundle", "delete", "complete", "done"}
    BY DEF AfterDelete
  <1>2. /\ r \in RequestRow
         /\ r.kind = request[q].kind /\ r.pc = pc /\ r.todo = request[q].todo
         /\ r.team = request[q].team /\ r.reading = request[q].reading
         /\ r.scored = request[q].scored /\ r.disturbed = request[q].disturbed
         /\ r.excused = x
    BY <1>1, MovedToRow
  <1>3. TypeOK' /\ Disturbs(q, {}) /\ request'[q] = r /\ Shown' = Shown
    BY <1>2, QuietStep
  <1>4. UNCHANGED <<teamActive, books, score>>
    BY DEF tables, Quiet
  <1>5. /\ request[q].pc \in {"delete", "list", "bundle"}
        /\ request[q].pc = "delete" => pc \in {"done", "complete"}
        /\ pc = "complete" => request[q].kind = "complete"
        /\ request[q].pc = "list" => pc = "bundle"
        /\ request[q].pc = "bundle" => pc = "done"
        /\ pc = "bundle" => request[q].pc = "list"
        /\ request[q].pc # "delete" => x = request[q].excused
    BY DEF AfterDelete
  <1>6. Stations(q)'
    BY <1>2, <1>3, <1>5 DEF Sound, Stations, Reads, Began
  <1>7. ReadingsHold(q)'
    BY <1>2, <1>3, <1>5 DEF ReadingsHold, Reads
  <1>8. ScoresHold(q)'
    BY <1>2, <1>3, <1>4, <1>5 DEF Sound, ScoresHold, Reads, Began, Scored
  <1>9. AnswersForAll(q)'
    BY <1>2, <1>3, <1>4, <1>5 DEF Sound, AnswersForAll, Began
  <1>10. BoardHolds(q)'
    <2> SUFFICES ASSUME request'[q].pc = "bundle", request'[q].disturbed = {}
                 PROVE  frozen'.board = TrueBoard'
      BY DEF BoardHolds
    <2>1. request[q].pc = "list" /\ request[q].disturbed = {} /\ frozen'.board = Board(score)
      BY <1>2, <1>3, <1>5
    <2>2. Board(score) = TrueBoard
      BY <2>1, FreezeScored
    <2>3. TrueBoard' = TrueBoard
      BY <1>3, <1>4, BoardKept
    <2> QED BY <2>1, <2>2, <2>3
  <1> QED BY <1>2, <1>3, <1>6, <1>7, <1>8, <1>9, <1>10 DEF Sound

\* The page is deleted, or not: a step that may answer a request in earnest.
LEMMA DeletePageStep ==
  ASSUME TypeOK, NEW q \in Requests, Sound(q), DeletePage(q)
  PROVE  /\ TypeOK' /\ Sound(q)' /\ Disturbs(q, {})
         /\ reader' = reader
         /\ \/ cache' = NoPage
            \/ cache' = cache /\ request'[q].excused
         /\ request[q].pc # "done"
         /\ Overtaken(q) => request'[q].excused
  <1>1. PICK deleted \in BOOLEAN :
          /\ cache' = IF deleted THEN NoPage ELSE cache
          /\ request' = [request EXCEPT ![q].pc = AfterDelete(q),
                                        ![q].excused = Overtaken(q) \/ ~deleted]
    BY DEF DeletePage
  <1>2. request[q].pc = "delete" /\ UNCHANGED <<tables, reader, frozen>>
    BY DEF DeletePage
  <1>x. PICK x \in BOOLEAN : x = (Overtaken(q) \/ ~deleted)
    BY Zenon
  <1>p. PICK pc : pc = AfterDelete(q)
    OBVIOUS
  <1>r. PICK r : r = MovedTo(q, pc, x)
    OBVIOUS
  <1>3. request' = [request EXCEPT ![q] = r]
    BY <1>1, <1>x, <1>p, <1>r, Zenon DEF MovedTo
  <1>4. Quiet(q, r)
    BY <1>2, <1>3 DEF Quiet
  <1>5. frozen' \in FrozenRow /\ cache' \in PageRow /\ reader' \in [Readers -> ReaderRow]
    BY <1>1, <1>2, Zenon DEF TypeOK, NoPage, PageRow
  <1>6. /\ TypeOK' /\ Sound(q)' /\ Disturbs(q, {})
        /\ request'[q] = r /\ r.pc = pc /\ r.excused = x
    BY <1>2, <1>4, <1>5, <1>p, <1>r, Moved
  <1>7. /\ \/ cache' = NoPage
           \/ cache' = cache /\ request'[q].excused
        /\ Overtaken(q) => request'[q].excused
    BY <1>1, <1>6, <1>x, Zenon
  <1> QED BY <1>2, <1>6, <1>7

\* The ranking that is listed for a freeze is by the books.
LEMMA ListBoardStep ==
  ASSUME LeaderboardAssumption, TypeOK, NEW q \in Requests, Sound(q), ListBoard(q)
  PROVE  TypeOK' /\ Sound(q)' /\ Answers(q) /\ Disturbs(q, {})
  <1>1. /\ request[q].pc = "list" /\ Goes(q, "bundle") /\ UNCHANGED <<tables, cache, reader>>
        /\ frozen' = [frozen EXCEPT !.board = Board(score)]
    BY DEF ListBoard
  <1>x. PICK x \in BOOLEAN : x = request[q].excused
    BY Zenon DEF TypeOK, RequestRow
  <1>r. PICK r : r = MovedTo(q, "bundle", x)
    OBVIOUS
  <1>2. Quiet(q, r)
    BY <1>1, <1>x, <1>r, GoesTo DEF Quiet
  <1>3. frozen' \in FrozenRow /\ frozen'.board = Board(score)
    <2>1. frozen \in FrozenRow
      BY DEF TypeOK
    <2>2. Board(score) \in [Teams -> [rank: Nat, row: ScoreRow]]
      BY BoardType
    <2> QED BY <1>1, <2>1, <2>2, Zenon DEF FrozenRow
  <1>4. cache' \in PageRow /\ reader' \in [Readers -> ReaderRow]
    BY <1>1 DEF TypeOK
  <1>5. TypeOK' /\ Sound(q)' /\ Disturbs(q, {}) /\ request'[q] = r /\ r.pc = "bundle"
    BY <1>1, <1>2, <1>3, <1>4, <1>r, <1>x, Moved
  <1> QED BY <1>1, <1>5 DEF Answers

\* The bundles end a freeze.
LEMMA WriteBundlesStep ==
  ASSUME TypeOK, NEW q \in Requests, Sound(q), WriteBundles(q)
  PROVE  TypeOK' /\ Sound(q)' /\ Answers(q) /\ Disturbs(q, {})
  <1>1. /\ request[q].pc = "bundle" /\ Goes(q, "done") /\ UNCHANGED <<tables, cache, reader>>
        /\ frozen' = [frozen EXCEPT !.bundle = [t \in Teams |-> books[t].equity]]
    BY DEF WriteBundles
  <1>x. PICK x \in BOOLEAN : x = request[q].excused
    BY Zenon DEF TypeOK, RequestRow
  <1>r. PICK r : r = MovedTo(q, "done", x)
    OBVIOUS
  <1>2. Quiet(q, r)
    BY <1>1, <1>x, <1>r, GoesTo DEF Quiet
  <1>3. frozen' \in FrozenRow /\ frozen'.board = frozen.board
    <2>1. frozen \in FrozenRow
      BY DEF TypeOK
    <2>2. [t \in Teams |-> books[t].equity] \in [Teams -> Int]
      BY DEF TypeOK, BooksRow
    <2> QED BY <1>1, <2>1, <2>2 DEF FrozenRow
  <1>4. cache' \in PageRow /\ reader' \in [Readers -> ReaderRow]
    BY <1>1 DEF TypeOK
  <1>5. /\ TypeOK' /\ Sound(q)' /\ Disturbs(q, {}) /\ request'[q] = r /\ r.pc = "done"
        /\ r.excused = x
    BY <1>1, <1>2, <1>3, <1>4, <1>r, <1>x, Moved
  <1>6. request[q].excused
    BY <1>1 DEF Sound, Stations, Began, Silent
  <1> QED BY <1>1, <1>5, <1>6, <1>x DEF Answers

\* A trade that was not scored answers for no team, and is excused.
LEMMA AnswerUnscoredStep ==
  ASSUME LeaderboardAssumption, TypeOK, NEW q \in Requests, Sound(q), AnswerUnscored(q)
  PROVE  TypeOK' /\ Sound(q)' /\ Answers(q) /\ Disturbs(q, {})
  <1> DEFINE row == request[q]
  <1>r. PICK r : r = [row EXCEPT !.pc = "done", !.todo = {}, !.team = 0,
                                 !.reading = EmptyBooks, !.scored = {}, !.excused = TRUE]
    OBVIOUS
  <1>1. /\ row.kind = "trade" /\ row.pc \notin {"idle", "done", "aborted"}
        /\ UNCHANGED <<tables, cache, reader, frozen>>
        /\ request' = [request EXCEPT ![q] = r]
    BY <1>r, Zenon DEF AnswerUnscored
  <1>2. row \in RequestRow
    BY DEF TypeOK
  <1>3. /\ r \in RequestRow
        /\ r.kind = "trade" /\ r.pc = "done" /\ r.todo = {} /\ r.scored = {} /\ r.excused = TRUE
    <2>1. /\ "done" \in {"idle", "portfolio", "orders", "rejected", "insert", "delete",
                         "complete", "list", "bundle", "done", "aborted"}
          /\ {} \in SUBSET Teams /\ 0 \in Teams \union {0} /\ TRUE \in BOOLEAN
      OBVIOUS
    <2>2. EmptyBooks \in BooksRow
      BY DEF EmptyBooks, BooksRow, LeaderboardAssumption
    <2> HIDE DEF row
    <2>3. r \in RequestRow
      BY <1>r, <1>2, <2>1, <2>2, Zenon DEF RequestRow
    <2>4. r.pc = "done" /\ r.todo = {} /\ r.scored = {} /\ r.excused = TRUE
      BY <1>r, <1>2, Zenon DEF RequestRow
    <2>5. r.kind = row.kind
      BY <1>r, <1>2, Zenon DEF RequestRow
    <2> QED BY <1>1, <2>3, <2>4, <2>5 DEF row
  <1>4. Quiet(q, r)
    BY <1>1 DEF Quiet
  <1>5. TypeOK' /\ Disturbs(q, {}) /\ request'[q] = r
    BY <1>1, <1>3, <1>4, QuietStep DEF TypeOK
  <1>6. Stations(q)' /\ ReadingsHold(q)' /\ BoardHolds(q)'
    BY <1>3, <1>5 DEF Stations, ReadingsHold, BoardHolds, Reads, Began, Silent
  <1>7. ScoresHold(q)' /\ AnswersForAll(q)'
    BY <1>3, <1>5 DEF ScoresHold, AnswersForAll
  <1> QED BY <1>1, <1>3, <1>5, <1>6, <1>7 DEF Answers, Sound

\* Who gives up answers for nothing.
LEMMA AbortRequestStep ==
  ASSUME LeaderboardAssumption, TypeOK, NEW q \in Requests, Sound(q), AbortRequest(q)
  PROVE  TypeOK' /\ Sound(q)' /\ Answers(q) /\ Disturbs(q, {})
  <1>1. /\ request[q].pc \notin {"idle", "done", "aborted"}
        /\ UNCHANGED <<tables, cache, reader, frozen>>
        /\ request' = [request EXCEPT ![q] = [Idle EXCEPT !.pc = "aborted"]]
    BY DEF AbortRequest
  <1>r. PICK r : r = [Idle EXCEPT !.pc = "aborted"]
    OBVIOUS
  <1>2. r.pc = "aborted"
    BY <1>r DEF Idle
  <1>3. r \in RequestRow
    <2>1. Idle \in RequestRow
      <3>1. /\ "none" \in AllKinds \union {"none"} /\ 0 \in Teams \union {0}
            /\ EmptyBooks \in BooksRow
            /\ "idle" \in {"idle", "portfolio", "orders", "rejected", "insert", "delete",
                           "complete", "list", "bundle", "done", "aborted"}
        BY DEF EmptyBooks, BooksRow, LeaderboardAssumption
      <3> QED BY <3>1, SMT DEF RequestRow, Idle
    <2> QED BY <1>r, <2>1, Zenon DEF RequestRow
  <1>4. Quiet(q, r)
    BY <1>1, <1>r DEF Quiet
  <1>5. TypeOK' /\ Disturbs(q, {}) /\ request'[q] = r
    BY <1>1, <1>3, <1>4, QuietStep DEF TypeOK
  <1>6. Sound(q)'
    BY <1>2, <1>5 DEF Sound, Stations, ReadingsHold, ScoresHold, AnswersForAll, BoardHolds,
                      Reads, Began
  <1> QED BY <1>1, <1>2, <1>5, <1>6 DEF Answers

\* The completion shows the paused teams, whom nobody scored.
LEMMA CompleteRoundStep ==
  ASSUME LeaderboardAssumption, TypeOK, NEW q \in Requests, Sound(q), CompleteRound(q)
  PROVE  TypeOK' /\ Sound(q)' /\ Answers(q) /\ Disturbs(q, Teams)
  <1>d. PICK D : D = Disturb(q, Teams)
    OBVIOUS
  <1>x. PICK x \in BOOLEAN : x = TRUE
    OBVIOUS
  <1>r. PICK r : r = MovedTo(q, "done", x)
    OBVIOUS
  <1>1. /\ request[q].pc = "complete"
        /\ status' = "completed"
        /\ request' = [D EXCEPT ![q].pc = "done", ![q].excused = TRUE]
        /\ UNCHANGED <<teamActive, enrolled, books, score, cache, reader, frozen>>
    BY <1>d, Zenon DEF CompleteRound
  <1>2. D \in [Requests -> RequestRow] /\ D[q] = request[q]
    <2>1. D \in [Requests -> RequestRow]
      <3>1. Teams \in SUBSET Teams
        OBVIOUS
      <3> QED BY <1>d, <3>1, DisturbType
    <2>2. D[q] = request[q]
      BY <1>d, Zenon DEF Disturb
    <2> QED BY <2>1, <2>2
  <1>3. request' = [D EXCEPT ![q] = r]
    BY <1>1, <1>2, <1>r, <1>x, Zenon DEF MovedTo
  <1>4. /\ r \in RequestRow
         /\ r.kind = request[q].kind /\ r.pc = "done" /\ r.todo = request[q].todo
         /\ r.team = request[q].team /\ r.reading = request[q].reading
         /\ r.scored = request[q].scored /\ r.disturbed = request[q].disturbed
         /\ r.excused = x
    BY <1>r, MovedToRow
  <1>5. /\ request' \in [Requests -> RequestRow] /\ request'[q] = r
        /\ \A p \in Requests \ {q} : request'[p] = Disturb(q, Teams)[p]
    BY <1>2, <1>3, <1>4, <1>d
  <1>6. status' \in Statuses
    BY <1>1 DEF Statuses
  <1>7. TypeOK'
    BY <1>1, <1>5, <1>6, Zenon DEF TypeOK
  <1>8. Disturbs(q, Teams)
    BY <1>1, <1>5 DEF Disturbs, Leaves, Outside
  <1>9. Answers(q)
    BY <1>1, <1>4, <1>5, <1>x DEF Answers
  <1>10. Stations(q)'
    BY <1>x, <1>1, <1>4, <1>5 DEF Sound, Stations, Reads, Began
  <1>11. ReadingsHold(q)' /\ BoardHolds(q)'
    BY <1>4, <1>5 DEF ReadingsHold, BoardHolds, Reads
  <1>12. ScoresHold(q)'
    BY <1>1, <1>4, <1>5 DEF Sound, ScoresHold, Reads, Began, Scored
  <1>13. AnswersForAll(q)'
    <2>1. ASSUME NEW t \in Shown', teamActive[t] PROVE t \in Shown
      BY <1>1, <2>1 DEF Shown
    <2>2. request[q].kind = "complete" /\ Began(q)
      BY <1>1 DEF Sound, Stations, Began
    <2> QED BY <1>1, <1>4, <1>5, <2>1, <2>2 DEF Sound, AnswersForAll, Began
  <1> QED BY <1>7, <1>8, <1>9, <1>10, <1>11, <1>12, <1>13 DEF Sound

-----------------------------------------------------------------------------
(***************************************************************************)
(* The pages, and the steps of the readers                                 *)
(***************************************************************************)
\* Who was answered stays answered, with the excuse it had.
LEMMA AnsweredStay ==
  ASSUME TypeOK, NEW q \in Requests, NEW ts \in SUBSET Teams, Disturbs(q, ts),
         request[q].pc # "done"
  PROVE  /\ Answered \subseteq Answered' /\ Answered' \subseteq Answered \union {q}
         /\ \A p \in Answered : request'[p].excused = request[p].excused
  <1>1. ASSUME NEW p \in Requests \ {q}
        PROVE  /\ request'[p].pc = request[p].pc
               /\ request'[p].excused = request[p].excused
    <2>1. request'[p] = IF request[p].pc = "idle" THEN request[p]
                        ELSE [request[p] EXCEPT !.disturbed = @ \union ts]
      BY DEF Disturbs, Leaves, Disturb
    <2>2. DOMAIN request[p] = DOMAIN Idle
      BY SMT DEF TypeOK, RequestRow, Idle
    <2> QED BY <2>1, <2>2, SMT DEF Idle
  <1> QED BY <1>1 DEF Answered

\* A step of a request keeps the pages: whom it answers it excuses, or no page
\* is left that does not show it.
LEMMA PagesKept ==
  ASSUME TypeOK, NEW q \in Requests, NEW ts \in SUBSET Teams, Disturbs(q, ts),
         PagesShow, ReadYourWrites, request[q].pc # "done", reader' = reader,
         \/ cache' = NoPage
         \/ cache' = cache /\ (request'[q].pc = "done" => request'[q].excused),
         request'[q].pc = "done" /\ Overtaken(q) => request'[q].excused
  PROVE  PagesShow' /\ ReadYourWrites'
  <1>1. /\ Answered \subseteq Answered' /\ Answered' \subseteq Answered \union {q}
        /\ \A p \in Answered : request'[p].excused = request[p].excused
    BY AnsweredStay
  <1>2. ASSUME NEW page, Shows(page),
               q \in Answered' => q \in page.saw \/ request'[q].excused
        PROVE  \A p \in Answered' \ page.saw : request'[p].excused
    BY <1>1, <1>2, Zenon DEF Shows
  <1>3. q \in Answered' => request'[q].pc = "done"
    BY DEF Answered
  <1>4. cache'.stored => Shows(cache)'
    <2>1. CASE cache' = NoPage
      BY <2>1 DEF NoPage
    <2>2. CASE cache' = cache /\ (request'[q].pc = "done" => request'[q].excused)
      BY <1>2, <1>3, <2>2, Zenon DEF PagesShow, Shows
    <2> QED BY <2>1, <2>2
  <1>5. ASSUME NEW r \in Readers
        PROVE  /\ reader'[r].finished \subseteq Answered'
               /\ reader'[r].pc = "store" => Shows(reader[r].page)'
    <2>1. reader[r].finished \subseteq Answered
      BY DEF PagesShow
    <2>2. ASSUME reader[r].pc = "store"
          PROVE  \A p \in Answered' \ reader[r].page.saw : request'[p].excused
      <3>1. Shows(reader[r].page)
        BY <2>2 DEF PagesShow
      <3>2. q \in Answered' => q \in reader[r].page.saw \/ request'[q].excused
        BY <1>3, <2>2 DEF Overtaken
      <3> QED BY <1>2, <3>1, <3>2
    <2> QED BY <1>1, <2>1, <2>2 DEF Shows
  <1>6. PagesShow'
    BY <1>4, <1>5, Zenon DEF PagesShow
  <1>7. ReadYourWrites'
    BY <1>1, Zenon DEF ReadYourWrites, PagesShow
  <1> QED BY <1>6, <1>7

\* The steps of readers and of time leave the tables, the requests and the files.
LEMMA ReaderSound ==
  ASSUME UNCHANGED <<tables, request, frozen>>, NEW q \in Requests, Sound(q)
  PROVE  Sound(q)'
  BY DEF Sound, Stations, ReadingsHold, ScoresHold, AnswersForAll, BoardHolds, Reads, Began,
         Scored, Shown, TrueBoard, Board, tables

\* A page from Redis shows who was answered before it was asked for.
LEMMA GetPageStep ==
  ASSUME TypeOK, PagesShow, ReadYourWrites, NEW r \in Readers, GetPage(r)
  PROVE  TypeOK' /\ PagesShow' /\ ReadYourWrites'
  <1>1. PICK hit \in BOOLEAN :
          /\ hit => cache.stored
          /\ reader' = [reader EXCEPT ![r] =
               [pc       |-> IF hit THEN "done" ELSE "list",
                page     |-> IF hit THEN cache ELSE NoPage,
                finished |-> Answered]]
    BY Zenon DEF GetPage, Answered
  <1>2. UNCHANGED <<tables, request, cache, frozen>>
    BY DEF GetPage
  <1>c. PICK c : c = IF hit THEN cache ELSE NoPage
    OBVIOUS
  <1>p. PICK pc \in {"done", "list"} : pc = IF hit THEN "done" ELSE "list"
    OBVIOUS
  <1>3. reader' = [reader EXCEPT ![r] = [pc |-> pc, page |-> c, finished |-> Answered]]
    BY <1>1, <1>c, <1>p, Zenon
  <1>4. c \in PageRow
    BY <1>c, Zenon DEF TypeOK, NoPage, PageRow
  <1>5. /\ reader' \in [Readers -> ReaderRow]
        /\ reader'[r] = [pc |-> pc, page |-> c, finished |-> Answered]
        /\ \A s \in Readers \ {r} : reader'[s] = reader[s]
    <2>1. [pc |-> pc, page |-> c, finished |-> Answered] \in ReaderRow
      BY <1>4 DEF ReaderRow, Answered
    <2> QED BY <1>3, <2>1 DEF TypeOK
  <1>6. /\ reader'[r].pc = pc /\ reader'[r].page = c /\ reader'[r].finished = Answered
    BY <1>5
  <1>7. TypeOK'
    BY <1>2, <1>5, Zenon DEF TypeOK, tables
  <1>8. Answered' = Answered /\ \A p \in Requests : request'[p].excused = request[p].excused
    BY <1>2 DEF Answered
  <1>9. PagesShow'
    BY <1>2, <1>5, <1>6, <1>8 DEF PagesShow, Shows
  <1>10. ASSUME NEW s \in Readers, reader'[s].pc = "done",
                NEW p \in reader'[s].finished \ reader'[s].page.saw
         PROVE  request'[p].excused
    <2>1. CASE s = r
      <3>1. hit /\ c = cache
        BY <1>6, <1>p, <1>c, <1>10, <2>1
      <3>2. p \in Answered \ cache.saw
        BY <1>6, <1>10, <2>1, <3>1
      <3> QED BY <1>1, <1>2, <3>1, <3>2, Zenon DEF PagesShow, Shows
    <2>2. CASE s # r
      BY <1>2, <1>5, <1>10, <2>2, Zenon DEF ReadYourWrites
    <2> QED BY <2>1, <2>2
  <1>11. ReadYourWrites'
    BY <1>10, Zenon DEF ReadYourWrites
  <1> QED BY <1>7, <1>9, <1>11

\* So does one from the tables,
LEMMA ListLeaderboardStep ==
  ASSUME TypeOK, PagesShow, ReadYourWrites, NEW r \in Readers, ListLeaderboard(r)
  PROVE  TypeOK' /\ PagesShow' /\ ReadYourWrites'
  <1>1. /\ reader[r].pc = "list"
        /\ reader' = [reader EXCEPT ![r].pc = "store",
                                    ![r].page = [saw |-> Visible, stored |-> TRUE]]
        /\ UNCHANGED <<tables, request, cache, frozen>>
    BY DEF ListLeaderboard
  <1>c. PICK c : c = [saw |-> Visible, stored |-> TRUE]
    OBVIOUS
  <1>2. c \in PageRow /\ c.saw = Visible
    BY <1>c, Zenon DEF Visible, PageRow
  <1>3. /\ reader' \in [Readers -> ReaderRow]
        /\ reader'[r].pc = "store" /\ reader'[r].page = c
        /\ reader'[r].finished = reader[r].finished
        /\ \A s \in Readers \ {r} : reader'[s] = reader[s]
    <2>1. reader[r] \in ReaderRow
      BY DEF TypeOK
    <2> QED BY <1>1, <1>2, <1>c, <2>1 DEF TypeOK, ReaderRow
  <1>4. TypeOK'
    BY <1>1, <1>3, Zenon DEF TypeOK, tables
  <1>5. Answered' = Answered /\ \A p \in Requests : request'[p].excused = request[p].excused
    BY <1>1 DEF Answered
  <1>6. Answered \subseteq Visible
    BY DEF Answered, Visible
  <1>7. PagesShow'
    BY <1>1, <1>2, <1>3, <1>5, <1>6 DEF PagesShow, Shows
  <1>8. ReadYourWrites'
    BY <1>1, <1>3 DEF ReadYourWrites
  <1> QED BY <1>4, <1>7, <1>8

\* and one that is stored late, but for those excused for it.
LEMMA StorePageStep ==
  ASSUME TypeOK, PagesShow, ReadYourWrites, NEW r \in Readers, StorePage(r)
  PROVE  TypeOK' /\ PagesShow' /\ ReadYourWrites'
  <1>1. /\ reader[r].pc = "store"
        /\ cache' \in {cache, reader[r].page}
        /\ reader' = [reader EXCEPT ![r].pc = "done"]
        /\ UNCHANGED <<tables, request, frozen>>
    BY DEF StorePage
  <1>2. reader[r] \in ReaderRow
    BY DEF TypeOK
  <1>3. /\ reader' \in [Readers -> ReaderRow]
        /\ reader'[r].pc = "done" /\ reader'[r].page = reader[r].page
        /\ reader'[r].finished = reader[r].finished
        /\ \A s \in Readers \ {r} : reader'[s] = reader[s]
    BY <1>1, <1>2 DEF TypeOK, ReaderRow
  <1>4. cache' \in PageRow
    BY <1>1, <1>2 DEF TypeOK, ReaderRow
  <1>5. TypeOK'
    BY <1>1, <1>3, <1>4, Zenon DEF TypeOK, tables
  <1>6. Answered' = Answered /\ \A p \in Requests : request'[p].excused = request[p].excused
    BY <1>1 DEF Answered
  <1>7. Shows(reader[r].page)
    BY <1>1 DEF PagesShow
  <1>8. PagesShow'
    BY <1>1, <1>3, <1>6, <1>7 DEF PagesShow, Shows
  <1>9. ReadYourWrites'
    BY <1>1, <1>3, <1>6, <1>7 DEF ReadYourWrites, Shows, PagesShow
  <1> QED BY <1>5, <1>8, <1>9

\* The page expires.
LEMMA ExpireStep ==
  ASSUME TypeOK, PagesShow, ReadYourWrites, Expire
  PROVE  TypeOK' /\ PagesShow' /\ ReadYourWrites'
  <1>1. cache' = NoPage /\ UNCHANGED <<tables, request, reader, frozen>>
    BY DEF Expire
  <1>2. cache' \in PageRow /\ ~cache'.stored
    BY <1>1 DEF NoPage, PageRow
  <1>3. TypeOK'
    BY <1>1, <1>2, Zenon DEF TypeOK, tables
  <1>4. PagesShow' /\ ReadYourWrites'
    BY <1>1, <1>2 DEF PagesShow, Shows, Answered, ReadYourWrites
  <1> QED BY <1>3, <1>4

-----------------------------------------------------------------------------
(***************************************************************************)
(* The theorems                                                            *)
(***************************************************************************)
\* Every step of a request keeps every request sound, and the pages.
LEMMA RequestKeeps ==
  ASSUME LeaderboardAssumption, IInv, NEW q \in Requests,
         RequestStarts(q) \/ RequestStep(q) \/ AnswerUnscored(q) \/ AbortRequest(q)
  PROVE  IInv'
  <1>0. TypeOK /\ (\A p \in Requests : Sound(p)) /\ PagesShow /\ ReadYourWrites
    BY DEF IInv
  <1>1. /\ TypeOK' /\ Sound(q)'
        /\ \E ts \in SUBSET Teams : Disturbs(q, ts)
        /\ request[q].pc # "done" /\ reader' = reader
        /\ \/ cache' = NoPage
           \/ cache' = cache /\ (request'[q].pc = "done" => request'[q].excused)
        /\ request'[q].pc = "done" /\ Overtaken(q) => request'[q].excused
    <2>1. CASE DeletePage(q)
      BY <1>0, <2>1, DeletePageStep
    <2>2. CASE ~DeletePage(q)
      <3>0. {} \in SUBSET Teams /\ Teams \in SUBSET Teams
        OBVIOUS
      <3>1. /\ TypeOK' /\ Sound(q)' /\ Answers(q)
            /\ \E ts \in SUBSET Teams : Disturbs(q, ts)
        <4>1. CASE RequestStarts(q)
          BY <1>0, <4>1, StartStep
        <4>2. CASE InsertScore(q)
          BY <1>0, <4>2, InsertScoreStep
        <4>3. CASE CompleteRound(q)
          BY <1>0, <3>0, <4>3, CompleteRoundStep
        <4>4. CASE ReadPortfolio(q)
          BY <1>0, <3>0, <4>4, ReadPortfolioStep
        <4>5. CASE CountOrders(q)
          BY <1>0, <3>0, <4>5, CountOrdersStep
        <4>6. CASE CountRejected(q)
          BY <1>0, <3>0, <4>6, CountRejectedStep
        <4>7. CASE ListBoard(q)
          BY <1>0, <3>0, <4>7, ListBoardStep
        <4>8. CASE WriteBundles(q)
          BY <1>0, <3>0, <4>8, WriteBundlesStep
        <4>9. CASE AbortRequest(q)
          BY <1>0, <3>0, <4>9, AbortRequestStep
        <4>10. CASE AnswerUnscored(q)
          BY <1>0, <3>0, <4>10, AnswerUnscoredStep
        <4> QED BY <2>2, <4>1, <4>2, <4>3, <4>4, <4>5, <4>6, <4>7, <4>8, <4>9, <4>10
                DEF RequestStep
      <3> QED BY <3>1, Zenon DEF Answers
    <2> QED BY <2>1, <2>2
  <1>2. PICK ts \in SUBSET Teams : Disturbs(q, ts)
    BY <1>1
  <1>3. ASSUME NEW p \in Requests PROVE Sound(p)'
    <2>1. CASE p = q
      BY <1>1, <2>1
    <2>2. CASE p # q
      <3>1. /\ Outside(ts)
            /\ request'[p] = IF request[p].pc = "idle" THEN request[p]
                             ELSE [request[p] EXCEPT !.disturbed = @ \union ts]
            /\ \/ frozen'.board = frozen.board
               \/ ts = {} /\ frozen'.board = Board(score)
        BY <1>2, <2>2 DEF Disturbs, Leaves, Disturb
      <3> QED BY <1>0, <3>1, OthersSound
    <2> QED BY <2>1, <2>2
  <1>4. PagesShow' /\ ReadYourWrites'
    BY <1>0, <1>1, <1>2, PagesKept
  <1> QED BY <1>1, <1>3, <1>4 DEF IInv

\* The readers keep the invariant.
LEMMA ReaderKeeps ==
  ASSUME IInv, NEW r \in Readers, GetPage(r) \/ ReaderStep(r)
  PROVE  IInv'
  <1>0. TypeOK /\ (\A p \in Requests : Sound(p)) /\ PagesShow /\ ReadYourWrites
    BY DEF IInv
  <1>1. TypeOK' /\ PagesShow' /\ ReadYourWrites'
    BY <1>0, GetPageStep, ListLeaderboardStep, StorePageStep DEF ReaderStep
  <1>2. UNCHANGED <<tables, request, frozen>>
    BY DEF GetPage, ReaderStep, ListLeaderboard, StorePage
  <1>3. \A p \in Requests : Sound(p)'
    BY <1>0, <1>2, ReaderSound
  <1> QED BY <1>1, <1>3 DEF IInv

\* So does a step of nobody here.
LEMMA StutterKeeps ==
  ASSUME IInv, UNCHANGED vars
  PROVE  IInv'
  <1>0. TypeOK /\ (\A p \in Requests : Sound(p)) /\ PagesShow /\ ReadYourWrites
    BY DEF IInv
  <1>1. UNCHANGED <<tables, request, cache, reader, frozen>>
    BY DEF vars, tables
  <1>2. TypeOK' /\ PagesShow' /\ ReadYourWrites'
    BY <1>0, <1>1 DEF TypeOK, PagesShow, Shows, Answered, ReadYourWrites, tables
  <1>3. \A p \in Requests : Sound(p)'
    BY <1>0, <1>1, ReaderSound
  <1> QED BY <1>2, <1>3 DEF IInv

\* It holds at first.
LEMMA InitHolds == LeaderboardAssumption /\ Init => IInv
  <1> SUFFICES ASSUME LeaderboardAssumption, Init PROVE IInv
    OBVIOUS
  <1>1. EmptyBooks \in BooksRow
    BY DEF EmptyBooks, BooksRow, LeaderboardAssumption
  <1>2. Idle \in RequestRow
    <2>1. /\ "none" \in AllKinds \union {"none"} /\ 0 \in Teams \union {0}
          /\ "idle" \in {"idle", "portfolio", "orders", "rejected", "insert", "delete",
                         "complete", "list", "bundle", "done", "aborted"}
      OBVIOUS
    <2> QED BY <1>1, <2>1, SMT DEF RequestRow, Idle
  <1>3. NoScore \in ScoreRow
    BY DEF ScoreRow
  <1>4. NoPage \in PageRow /\ ~NoPage.stored
    BY SMT DEF PageRow, NoPage
  <1>5. NoReader \in ReaderRow
    BY <1>4 DEF ReaderRow, NoReader
  <1>6. frozen \in FrozenRow
    BY <1>3, SMT DEF Init, FrozenRow
  <1>7. /\ status \in Statuses
        /\ teamActive \in [Teams -> BOOLEAN] /\ enrolled \in [Teams -> BOOLEAN]
        /\ books \in [Teams -> BooksRow] /\ score \in [Teams -> ScoreRow]
        /\ request \in [Requests -> RequestRow] /\ cache \in PageRow
        /\ reader \in [Readers -> ReaderRow]
    BY <1>1, <1>2, <1>3, <1>4, <1>5, Zenon DEF Init, Statuses
  <1>8. TypeOK
    BY <1>6, <1>7, Zenon DEF TypeOK
  <1>9. ASSUME NEW q \in Requests PROVE Sound(q)
    <2>1. request[q] = Idle /\ request[q].pc = "idle"
      BY DEF Init, Idle
    <2> QED BY <2>1 DEF Sound, Stations, ReadingsHold, ScoresHold, AnswersForAll, BoardHolds,
                    Reads, Began
  <1>10. \A r \in Readers : reader[r].pc = "idle" /\ reader[r].finished = {}
    BY DEF Init, NoReader
  <1>11. PagesShow /\ ReadYourWrites
    BY <1>4, <1>10 DEF PagesShow, ReadYourWrites, Init
  <1> QED BY <1>8, <1>9, <1>11 DEF IInv

\* The invariant holds in every state, for any number of requests and readers, any
\* set of teams and any prices.
THEOREM Invariance == Spec => []IInv
  <1>1. Init => IInv
    BY InitHolds, LeaderboardAssumption
  <1>2. IInv /\ [Next]_vars => IInv'
    <2> SUFFICES ASSUME IInv, [Next]_vars PROVE IInv'
      OBVIOUS
    <2>1. CASE \E q \in Requests :
                 RequestStarts(q) \/ RequestStep(q) \/ AnswerUnscored(q) \/ AbortRequest(q)
      BY <2>1, RequestKeeps, LeaderboardAssumption
    <2>2. CASE \E r \in Readers : GetPage(r) \/ ReaderStep(r)
      BY <2>2, ReaderKeeps
    <2>3. CASE Expire
      <3>0. TypeOK /\ (\A p \in Requests : Sound(p)) /\ PagesShow /\ ReadYourWrites
        BY DEF IInv
      <3>1. TypeOK' /\ PagesShow' /\ ReadYourWrites'
        BY <2>3, <3>0, ExpireStep
      <3>2. UNCHANGED <<tables, request, frozen>>
        BY <2>3 DEF Expire
      <3>3. \A p \in Requests : Sound(p)'
        BY <3>0, <3>2, ReaderSound
      <3> QED BY <3>1, <3>3 DEF IInv
    <2>4. CASE UNCHANGED vars
      BY <2>4, StutterKeeps
    <2> QED BY <2>1, <2>2, <2>3, <2>4 DEF Next
  <1> QED BY <1>1, <1>2, PTL DEF Spec

\* Every state is typed: scores are between 0 and 100 and ranks are numbers
\* (scoring.Compute, Store.ListLeaderboard).
THEOREM TypeCorrect == Spec => []TypeOK
  <1>1. IInv => TypeOK
    BY DEF IInv
  <1> QED BY <1>1, Invariance, PTL

\* Who asks for the leaderboard after a request was answered sees what it changed,
\* but in the cases that ReadYourWrites lists: a request that deletes no page, a
\* delete that failed or was of another round's page, a page read before the change
\* and stored after the delete, a trade that was answered without a score, and the
\* completion of a round after the delete.  In all others the delete at the end of
\* the handlers is enough (Server.afterTrade, Server.invalidateLeaderboard).
THEOREM PageOwnWrites == Spec => []ReadYourWrites
  <1>1. IInv => ReadYourWrites
    BY DEF IInv
  <1> QED BY <1>1, Invariance, PTL

\* When a request is through, every team it answers for is scored by its books as
\* they are, unless something else changed or scored that team since; a trade whose
\* score could not be written answers for no team (Store.RefreshScore,
\* Store.RefreshRoundScores).
THEOREM DoneIsScored == Spec => []ScoredWhenDone
  <1>1. IInv => ScoredWhenDone
    <2> SUFFICES ASSUME IInv, NEW q \in Requests, request[q].pc = "done",
                        NEW t \in request[q].scored \ request[q].disturbed
                 PROVE  score[t] = Compute(books[t])
      BY DEF ScoredWhenDone
    <2>1. Stations(q) /\ ScoresHold(q)
      BY DEF IInv, Sound
    <2> QED BY <2>1 DEF Stations, ScoresHold, Reads, Began, Scored
  <1> QED BY <1>1, Invariance, PTL

\* After a settlement everyone on the board is scored by what was settled, but for
\* the paused teams of a completion (Server.settleRound).
THEOREM StandingsSettled == Spec => []SettledStandings
  <1>1. IInv => SettledStandings
    <2> SUFFICES ASSUME IInv, NEW q \in Requests, request[q].pc = "done",
                        request[q].kind \in {"settle", "complete"},
                        NEW t \in Shown \ request[q].disturbed
                 PROVE  \/ score[t] = Compute(books[t])
                        \/ request[q].kind = "complete" /\ ~teamActive[t]
      BY DEF SettledStandings
    <2>1. Stations(q) /\ ScoresHold(q) /\ AnswersForAll(q)
      BY DEF IInv, Sound
    <2> QED BY <2>1 DEF Stations, ScoresHold, AnswersForAll, Reads, Began, Scored
  <1> QED BY <1>1, Invariance, PTL

\* A freeze that nothing came in between of writes the ranking by the books as they
\* are, and its two files agree (Server.freezeLeaderboard).
THEOREM FreezeIsFinal == Spec => FrozenIsFinal
  <1>1. ASSUME LeaderboardAssumption, IInv, NEW q \in Requests, WriteBundles(q),
               request[q].disturbed = {}
        PROVE  /\ frozen'.board = Board([t \in Teams |-> Compute(books[t])])
               /\ \A t \in Shown : frozen'.board[t].row.equity = frozen'.bundle[t]
    <2>1. TypeOK /\ BoardHolds(q)
      BY <1>1 DEF IInv, Sound
    <2>2. /\ request[q].pc = "bundle"
          /\ frozen' = [frozen EXCEPT !.bundle = [t \in Teams |-> books[t].equity]]
      BY <1>1 DEF WriteBundles
    <2>3. /\ frozen'.board = frozen.board
          /\ frozen'.bundle = [t \in Teams |-> books[t].equity]
      BY <2>1, <2>2 DEF TypeOK, FrozenRow
    <2>4. frozen'.board = TrueBoard
      BY <1>1, <2>1, <2>2, <2>3 DEF BoardHolds
    <2>5. ASSUME NEW t \in Shown PROVE frozen'.board[t].row.equity = frozen'.bundle[t]
      <3>1. t \in Teams /\ books[t] \in BooksRow
        BY <2>1 DEF Shown, TypeOK
      <3>2. TrueBoard[t].row = ShownScore(Compute(books[t]))
        BY <3>1, Zenon DEF TrueBoard, Board
      <3>3. ShownScore(Compute(books[t])).equity = books[t].equity
        <4>1. Compute(books[t]) # NoScore
          BY <1>1, <3>1, ComputeIsScore
        <4> QED BY <4>1 DEF ShownScore, Compute
      <3> QED BY <2>3, <2>4, <3>1, <3>2, <3>3
    <2> QED BY <2>4, <2>5 DEF TrueBoard
  <1>2. IInv => \A q \in Requests :
          WriteBundles(q) /\ request[q].disturbed = {} =>
            /\ frozen'.board = Board([t \in Teams |-> Compute(books[t])])
            /\ \A t \in Shown : frozen'.board[t].row.equity = frozen'.bundle[t]
    BY <1>1, LeaderboardAssumption
  <1> QED BY <1>2, Invariance, PTL DEF FrozenIsFinal
=============================================================================
