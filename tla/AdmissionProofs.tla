--------------------------- MODULE AdmissionProofs ---------------------------
(***************************************************************************)
(* Theorems about Admission, for every value of its constants.             *)
(*                                                                         *)
(* Everything that happens to a row after its creation is one of a few     *)
(* moves (Moves), and no move adds to what the team has promised beyond    *)
(* its cash, to its pending orders or to its recent ones.  So one lemma    *)
(* (Preserved) serves all actions but Ask, which learns such a figure, and *)
(* CreateSubmitted, which spends one.                                      *)
(***************************************************************************)
EXTENDS Admission, FiniteInduction, SequenceTheorems, TLAPS

-----------------------------------------------------------------------------
(***************************************************************************)
(* The inductive invariant                                                 *)
(***************************************************************************)
Pendings == {"submitted", "open"}

\* A call between the creation of its order and the record of its dispatch.
Waiting(h) == handler[h].pc \in {"place", "dispatch"}

\* Its order is as it created it.
OrdersOwned ==
  \A h \in Handlers : Waiting(h) =>
    /\ handler[h].order \in DOMAIN orders
    /\ orders[handler[h].order].status = "submitted"
    /\ orders[handler[h].order].payload = handler[h].payload

\* It is nobody else's.
OrdersDiffer ==
  \A g, h \in Handlers : Waiting(g) /\ Waiting(h) /\ g # h =>
    handler[g].order # handler[h].order

\* A pending order has no fill.
PendingUnpriced == \A o \in Pending : orders[o].price = 0

\* Only a call in its check has answers; the reserve is the last of them.
AnswersInOrder ==
  \A h \in Handlers :
    /\ handler[h].pc # "check" => DOMAIN handler[h].answers = {}
    /\ Answered(h, "openBuyNotional") => DOMAIN handler[h].answers = Asked

\* Calls that counted less than the limit.
Cleared(question, limit) ==
  {h \in Handlers : Answered(h, question) /\ Known(h, question) < limit}

\* Each of them may still add one order to those there are.
RoomForCleared(count, question, limit) ==
  question \in Asked =>
    count + Cardinality(Cleared(question, limit)) <= limit + Cardinality(Handlers) - 1

\* Orders of the last minute that were let through.
Accepted == {o \in DOMAIN orders : orders[o].recent /\ orders[o].status # "rejected"}

\* A call that is not overtaken: the cash is at least what it read, and once it
\* knows the reserve, the team has not promised more beyond its cash than when
\* the call read the two.
ReadingsHold ==
  \A h \in Handlers \ overtaken : Answered(h, "cash") =>
    /\ ~Answered(h, "openBuyNotional") => Known(h, "cash") <= Cash
    /\ Answered(h, "openBuyNotional") =>
         Reserve - Cash <= Known(h, "openBuyNotional") - Known(h, "cash")

IInv ==
  /\ TypeOK
  /\ OrdersOwned
  /\ OrdersDiffer
  /\ PendingUnpriced
  /\ AnswersInOrder
  /\ RoomForCleared(Cardinality(Pending), "openOrders", MaxOpenOrders)
  /\ RoomForCleared(Cardinality(Accepted), "ordersLastMinute", MaxOrdersPerMinute)
  /\ ReadingsHold

-----------------------------------------------------------------------------
(***************************************************************************)
(* What rows add up to                                                     *)
(***************************************************************************)
\* The rows of a sequence, their positions and the fields of each.
LEMMA RowsTyped ==
  ASSUME NEW rows \in Seq(OrderRow)
  PROVE  /\ Len(rows) \in Nat /\ DOMAIN rows = 1..Len(rows) /\ IsFiniteSet(DOMAIN rows)
         /\ \A o \in DOMAIN rows : rows[o] \in OrderRow
  <1>1. Len(rows) \in Nat /\ DOMAIN rows = 1..Len(rows)
    BY LenProperties
  <1>2. IsFiniteSet(1..Len(rows))
    <2>1. PICK n \in Nat : n = Len(rows)
      BY <1>1
    <2>2. IsFiniteSet(1..n)
      BY FS_Interval
    <2> QED BY <2>1, <2>2
  <1>3. \A o \in 1..Len(rows) : rows[o] \in OrderRow
    BY ElementOfSeq
  <1> QED BY <1>1, <1>2, <1>3

LEMMA RowTyped ==
  ASSUME NEW row \in OrderRow
  PROVE  /\ row.payload \in Payload /\ row.payload \in Payloads
         /\ row.payload.amount \in Nat /\ row.payload.amount > 0
         /\ row.payload.action \in {"buy", "sell"}
         /\ row.price \in Nat /\ row.recent \in BOOLEAN
  <1>1. row.payload \in Payloads /\ row.price \in 0..BPS /\ row.recent \in BOOLEAN
    BY DEF OrderRow
  <1>2. row.payload \in Payload
    BY <1>1, AdmissionAssumption
  <1>3. row.payload.amount \in Nat \ {0} /\ row.payload.action \in {"buy", "sell"}
    BY <1>2 DEF Payload
  <1>4. row.price \in Nat
    <2>1. 0..BPS \subseteq Nat
      BY DEF BPS
    <2> QED BY <1>1, <2>1
  <1> QED BY <1>1, <1>2, <1>3, <1>4

\* What a row has cost the team, brought it, and may still cost it.
Spent(row)  == IF row.price > 0 /\ row.payload.action = "buy" THEN row.payload.amount ELSE 0
Earned(row) == IF row.price > 0 /\ row.payload.action = "sell" THEN row.payload.amount ELSE 0
Owed(row)   == IF row.status \in Pendings /\ row.payload.action = "buy"
               THEN row.payload.amount ELSE 0

\* What it has added to the cash, and to what is promised beyond the cash.
Net(row)   == Earned(row) - Spent(row)
Claim(row) == Owed(row) - Net(row)

\* They are integers.
LEMMA WeightsInt ==
  ASSUME NEW row \in OrderRow
  PROVE  /\ Spent(row) \in Int /\ Earned(row) \in Int /\ Owed(row) \in Int
         /\ Net(row) \in Int /\ Claim(row) \in Int
  <1>1. row.payload.amount \in Nat
    BY RowTyped
  <1>2. Spent(row) \in Int /\ Earned(row) \in Int /\ Owed(row) \in Int
    BY <1>1 DEF Spent, Earned, Owed
  <1> QED BY <1>2 DEF Net, Claim

\* Their sums over the rows.
NetOf(rows)   == SumFunctionOnSet([o \in DOMAIN rows |-> Net(rows[o])], DOMAIN rows)
ClaimOf(rows) == SumFunctionOnSet([o \in DOMAIN rows |-> Claim(rows[o])], DOMAIN rows)

LEMMA SumsInt ==
  ASSUME NEW rows \in Seq(OrderRow)
  PROVE  NetOf(rows) \in Int /\ ClaimOf(rows) \in Int
  <1> DEFINE n == [o \in DOMAIN rows |-> Net(rows[o])]
             c == [o \in DOMAIN rows |-> Claim(rows[o])]
  <1>1. /\ \A o \in DOMAIN rows : n[o] \in Int
        /\ \A o \in DOMAIN rows : c[o] \in Int
    BY RowsTyped, WeightsInt
  <1>2. IsFiniteSet(DOMAIN rows)
    BY RowsTyped
  <1> HIDE DEF n, c
  <1>3. SumFunctionOnSet(n, DOMAIN rows) \in Int /\ SumFunctionOnSet(c, DOMAIN rows) \in Int
    BY <1>1, <1>2, SumInt
  <1> QED BY <1>3 DEF n, c, NetOf, ClaimOf

\* The amounts of some rows, as Amount adds them up.
AmountOf(rows, ids) ==
  SumFunctionOnSet([o \in DOMAIN rows |-> rows[o].payload.amount], ids)

\* A weight that is the amount of some rows and nothing for the others adds up
\* to the amounts of those.
LEMMA AmountsAddUp ==
  ASSUME NEW rows \in Seq(OrderRow), NEW ids \in SUBSET DOMAIN rows, NEW w,
         \A o \in DOMAIN rows : w[o] = IF o \in ids THEN rows[o].payload.amount ELSE 0
  PROVE  SumFunctionOnSet(w, DOMAIN rows) = AmountOf(rows, ids)
  <1> DEFINE D == DOMAIN rows
             a == [o \in D |-> rows[o].payload.amount]
  <1>1. IsFiniteSet(D) /\ IsFiniteSet(ids)
    <2>1. IsFiniteSet(D)
      BY RowsTyped
    <2> QED BY <2>1, FS_Subset
  <1>2. \A o \in D : rows[o].payload.amount \in Int
    BY RowsTyped, RowTyped
  <1>3. (\A o \in D : w[o] \in Int) /\ \A o \in D \ ids : w[o] = 0
    BY <1>2
  <1>4. \A o \in ids : w[o] = a[o]
    OBVIOUS
  <1>5. ids \in SUBSET D
    OBVIOUS
  <1> HIDE DEF D, a
  <1>6. SumFunctionOnSet(w, D) = SumFunctionOnSet(w, ids)
    BY <1>1, <1>3, <1>5, SumSupport
  <1>7. SumFunctionOnSet(w, ids) = SumFunctionOnSet(a, ids)
    BY <1>1, <1>4, SumSame
  <1> QED BY <1>6, <1>7, Zenon DEF AmountOf, a, D

\* Cash and reserve, of any rows.
CashOf(rows) ==
  InitialBalance
    - AmountOf(rows, {o \in DOMAIN rows : rows[o].price > 0 /\ rows[o].payload.action = "buy"})
    + AmountOf(rows, {o \in DOMAIN rows : rows[o].price > 0 /\ rows[o].payload.action = "sell"})

ReserveOf(rows) ==
  AmountOf(rows, {o \in {r \in DOMAIN rows : rows[r].status \in Pendings} :
                    rows[o].payload.action = "buy"})

\* The cash is the initial balance and what the rows add to it; the reserve
\* beyond the cash is what they add to that.
LEMMA SumsTell ==
  ASSUME NEW rows \in Seq(OrderRow)
  PROVE  /\ CashOf(rows) = InitialBalance + NetOf(rows)
         /\ ReserveOf(rows) - CashOf(rows) = ClaimOf(rows) - InitialBalance
         /\ CashOf(rows) \in Int /\ ReserveOf(rows) \in Int
  <1> DEFINE D  == DOMAIN rows
             s  == [o \in D |-> Spent(rows[o])]
             e  == [o \in D |-> Earned(rows[o])]
             w  == [o \in D |-> Owed(rows[o])]
             n  == [o \in D |-> Net(rows[o])]
             c  == [o \in D |-> Claim(rows[o])]
             S(f) == SumFunctionOnSet(f, D)
             bought == {o \in D : rows[o].price > 0 /\ rows[o].payload.action = "buy"}
             sold   == {o \in D : rows[o].price > 0 /\ rows[o].payload.action = "sell"}
             owed   == {o \in {r \in D : rows[r].status \in Pendings} :
                          rows[o].payload.action = "buy"}
  <1>1. IsFiniteSet(D) /\ \A o \in D : rows[o] \in OrderRow
    BY RowsTyped
  <1>2. S(s) = AmountOf(rows, bought)
    <2>1. \A o \in D : s[o] = IF o \in bought THEN rows[o].payload.amount ELSE 0
      BY DEF Spent
    <2>2. bought \in SUBSET D
      OBVIOUS
    <2> HIDE DEF s, bought
    <2> QED BY <2>1, <2>2, AmountsAddUp
  <1>3. S(e) = AmountOf(rows, sold)
    <2>1. \A o \in D : e[o] = IF o \in sold THEN rows[o].payload.amount ELSE 0
      BY DEF Earned
    <2>2. sold \in SUBSET D
      OBVIOUS
    <2> HIDE DEF e, sold
    <2> QED BY <2>1, <2>2, AmountsAddUp
  <1>4. S(w) = AmountOf(rows, owed)
    <2>1. \A o \in D : w[o] = IF o \in owed THEN rows[o].payload.amount ELSE 0
      BY DEF Owed
    <2>2. owed \in SUBSET D
      OBVIOUS
    <2> HIDE DEF w, owed
    <2> QED BY <2>1, <2>2, AmountsAddUp
  <1>5. \A o \in D : /\ s[o] \in Int /\ e[o] \in Int /\ w[o] \in Int /\ n[o] \in Int
                     /\ c[o] \in Int /\ e[o] = n[o] + s[o] /\ w[o] = c[o] + n[o]
    <2>1. ASSUME NEW o \in D
          PROVE  /\ s[o] \in Int /\ e[o] \in Int /\ w[o] \in Int /\ n[o] \in Int
                 /\ c[o] \in Int /\ e[o] = n[o] + s[o] /\ w[o] = c[o] + n[o]
      <3>1. /\ Spent(rows[o]) \in Int /\ Earned(rows[o]) \in Int /\ Owed(rows[o]) \in Int
            /\ Net(rows[o]) = Earned(rows[o]) - Spent(rows[o])
            /\ Claim(rows[o]) = Owed(rows[o]) - Net(rows[o])
        BY <1>1, WeightsInt DEF Net, Claim
      <3> QED BY <3>1
    <2> QED BY <2>1
  <1>6. S(n) = NetOf(rows) /\ S(c) = ClaimOf(rows)
    BY Zenon DEF NetOf, ClaimOf
  <1>7. /\ CashOf(rows) = InitialBalance - AmountOf(rows, bought) + AmountOf(rows, sold)
        /\ ReserveOf(rows) = AmountOf(rows, owed)
    BY Zenon DEF CashOf, ReserveOf
  <1> HIDE DEF D, s, e, w, n, c, bought, sold, owed
  <1>8. S(e) = S(n) + S(s)
    BY <1>1, <1>5, SumPlus
  <1>9. S(w) = S(c) + S(n)
    BY <1>1, <1>5, SumPlus
  <1>10. S(s) \in Int /\ S(n) \in Int /\ S(c) \in Int
    <2>1. S(s) \in Int
      BY <1>1, <1>5, SumInt
    <2>2. S(n) \in Int
      BY <1>1, <1>5, SumInt
    <2>3. S(c) \in Int
      BY <1>1, <1>5, SumInt
    <2> QED BY <2>1, <2>2, <2>3
  <1>11. InitialBalance \in Int
    BY AdmissionAssumption
  <1> HIDE DEF S
  <1> QED BY <1>2, <1>3, <1>4, <1>6, <1>7, <1>8, <1>9, <1>10, <1>11

\* What an added row adds.
LEMMA SumsAppend ==
  ASSUME NEW rows \in Seq(OrderRow), NEW row \in OrderRow
  PROVE  /\ NetOf(Append(rows, row)) = NetOf(rows) + Net(row)
         /\ ClaimOf(Append(rows, row)) = ClaimOf(rows) + Claim(row)
  <1> DEFINE after == Append(rows, row)
             N  == Len(rows) + 1
             D  == DOMAIN rows
             A  == DOMAIN after
             n  == [o \in D |-> Net(rows[o])]
             c  == [o \in D |-> Claim(rows[o])]
             na == [o \in A |-> Net(after[o])]
             ca == [o \in A |-> Claim(after[o])]
  <1>1. /\ after \in Seq(OrderRow) /\ Len(after) = N
        /\ after[N] = row /\ \A o \in 1..Len(rows) : after[o] = rows[o]
    BY SMT
  <1>2. D = 1..Len(rows) /\ A = 1..N /\ Len(rows) \in Nat /\ IsFiniteSet(D) /\ IsFiniteSet(A)
    BY <1>1, RowsTyped
  <1>3. N \in A /\ A \ {N} = D
    <2>1. Len(rows) + 1 \in 1..(Len(rows) + 1)
          /\ (1..(Len(rows) + 1)) \ {Len(rows) + 1} = 1..Len(rows)
      <3>1. PICK k \in Nat : k = Len(rows)
        BY <1>2
      <3>2. k + 1 \in 1..(k + 1) /\ (1..(k + 1)) \ {k + 1} = 1..k
        OBVIOUS
      <3> QED BY <3>1, <3>2
    <2> QED BY <1>2, <2>1
  <1>4. /\ \A o \in A : na[o] \in Int /\ ca[o] \in Int
        /\ \A o \in D : n[o] = na[o] /\ c[o] = ca[o]
        /\ na[N] = Net(row) /\ ca[N] = Claim(row)
    <2>1. ASSUME NEW o \in A PROVE na[o] \in Int /\ ca[o] \in Int
      <3>1. after[o] \in OrderRow
        BY <1>1, RowsTyped
      <3> HIDE DEF A, after
      <3> QED BY <3>1, WeightsInt
    <2>2. ASSUME NEW o \in D PROVE n[o] = na[o] /\ c[o] = ca[o]
      <3>1. o \in A /\ after[o] = rows[o]
        BY <1>1, <1>2, <1>3
      <3> HIDE DEF A, D, after
      <3> QED BY <3>1
    <2>3. na[N] = Net(row) /\ ca[N] = Claim(row)
      <3> HIDE DEF A, D, after, N
      <3> QED BY <1>1, <1>3
    <2> HIDE DEF na, ca, n, c, A, D
    <2> QED BY <2>1, <2>2, <2>3
  <1>5. /\ SumFunctionOnSet(n, D) = NetOf(rows) /\ SumFunctionOnSet(c, D) = ClaimOf(rows)
        /\ SumFunctionOnSet(na, A) = NetOf(after) /\ SumFunctionOnSet(ca, A) = ClaimOf(after)
    BY Zenon DEF NetOf, ClaimOf
  <1> HIDE DEF na, ca, n, c, A, D, N
  <1>6. SumFunctionOnSet(na, A) = na[N] + SumFunctionOnSet(na, D)
    <2>1. SumFunctionOnSet(na, A) = na[N] + SumFunctionOnSet(na, A \ {N})
      BY <1>2, <1>3, <1>4, SumAdd
    <2> QED BY <1>3, <2>1, Zenon
  <1>7. SumFunctionOnSet(ca, A) = ca[N] + SumFunctionOnSet(ca, D)
    <2>1. SumFunctionOnSet(ca, A) = ca[N] + SumFunctionOnSet(ca, A \ {N})
      BY <1>2, <1>3, <1>4, SumAdd
    <2> QED BY <1>3, <2>1, Zenon
  <1>8. SumFunctionOnSet(n, D) = SumFunctionOnSet(na, D)
    BY <1>2, <1>4, SumSame
  <1>9. SumFunctionOnSet(c, D) = SumFunctionOnSet(ca, D)
    BY <1>2, <1>4, SumSame
  <1>10. NetOf(rows) \in Int /\ ClaimOf(rows) \in Int /\ Net(row) \in Int /\ Claim(row) \in Int
    BY SumsInt, WeightsInt
  <1> HIDE DEF after
  <1>11. NetOf(after) = NetOf(rows) + Net(row) /\ ClaimOf(after) = ClaimOf(rows) + Claim(row)
    BY <1>4, <1>5, <1>6, <1>7, <1>8, <1>9, <1>10
  <1> QED BY <1>11 DEF after

\* What may become of a row after its creation: it leaves the window of the
\* last minute; pending, it opens, fails or is canceled; or it is filled.
Moves(r, s) ==
  /\ s.payload = r.payload
  /\ s.recent => r.recent
  /\ s.status = "rejected" <=> r.status = "rejected"
  /\ \/ s.status = r.status /\ s.price = r.price
     \/ /\ r.status \in Pendings /\ r.price = 0
        /\ s.status \in {"open", "failed", "canceled"} /\ s.price = 0
     \/ /\ r.status \in Pendings /\ r.price = 0
        /\ s.status = "filled"

\* No move adds to the claim; only the fill of a buy takes from the cash.
LEMMA MovesWeigh ==
  ASSUME NEW r \in OrderRow, NEW s \in OrderRow, Moves(r, s)
  PROVE  /\ Claim(s) <= Claim(r)
         /\ r.payload.action # "buy" \/ s.price = r.price => Net(r) <= Net(s)
         /\ s.status \in Pendings => r.status \in Pendings
  <1> DEFINE amount == r.payload.amount
  <1>1. /\ amount \in Nat /\ r.payload.action \in {"buy", "sell"}
        /\ r.price \in Nat /\ s.price \in Nat /\ s.payload = r.payload
    BY RowTyped DEF Moves
  <1>2. s.status \in Pendings => r.status \in Pendings
    BY DEF Moves, Pendings
  <1>3. CASE s.status = r.status /\ s.price = r.price
    <2>1. Claim(s) = Claim(r) /\ Net(s) = Net(r)
      BY <1>1, <1>3 DEF Claim, Net, Owed, Earned, Spent
    <2> QED BY <1>2, <2>1, WeightsInt
  <1>4. CASE /\ r.status \in Pendings /\ r.price = 0
             /\ s.status \in {"open", "failed", "canceled"} /\ s.price = 0
    <2>1. Net(s) = 0 /\ Net(r) = 0
      BY <1>1, <1>4 DEF Net, Earned, Spent
    <2>2. Owed(s) <= Owed(r)
      BY <1>1, <1>4 DEF Owed
    <2>3. Owed(s) \in Int /\ Owed(r) \in Int
      BY WeightsInt
    <2> QED BY <1>2, <2>1, <2>2, <2>3 DEF Claim
  <1>5. CASE /\ r.status \in Pendings /\ r.price = 0
             /\ s.status = "filled"
    <2>1. Owed(s) = 0 /\ Net(r) = 0
      BY <1>1, <1>5 DEF Net, Earned, Spent, Owed, Pendings
    <2>2. Owed(r) = IF r.payload.action = "buy" THEN amount ELSE 0
      BY <1>5 DEF Owed
    <2>3. Net(s) = IF s.price = 0 THEN 0
                   ELSE IF r.payload.action = "buy" THEN 0 - amount ELSE amount
      BY <1>1, <1>5 DEF Net, Earned, Spent
    <2> HIDE DEF amount
    <2>4. Claim(s) <= Claim(r)
      BY <1>1, <2>1, <2>2, <2>3 DEF Claim
    <2> QED BY <1>1, <1>2, <1>5, <2>1, <2>3, <2>4
  <1> QED BY <1>3, <1>4, <1>5 DEF Moves

\* So it is with any number of moves.
LEMMA SumsMove ==
  ASSUME NEW rows \in Seq(OrderRow), NEW after \in Seq(OrderRow),
         Len(after) = Len(rows),
         \A o \in DOMAIN rows : Moves(rows[o], after[o])
  PROVE  /\ ClaimOf(after) <= ClaimOf(rows)
         /\ (\A o \in DOMAIN rows : rows[o].payload.action = "buy"
                                    => after[o].price = rows[o].price)
              => NetOf(rows) <= NetOf(after)
  <1> DEFINE D  == DOMAIN rows
             n  == [o \in D |-> Net(rows[o])]
             c  == [o \in D |-> Claim(rows[o])]
             na == [o \in D |-> Net(after[o])]
             ca == [o \in D |-> Claim(after[o])]
  <1>1. D = DOMAIN after /\ IsFiniteSet(D)
    BY RowsTyped
  <1>2. \A o \in D : rows[o] \in OrderRow /\ after[o] \in OrderRow
    BY <1>1, RowsTyped
  <1>3. /\ SumFunctionOnSet(n, D) = NetOf(rows) /\ SumFunctionOnSet(c, D) = ClaimOf(rows)
    BY Zenon DEF NetOf, ClaimOf
  <1>4. /\ SumFunctionOnSet(na, D) = NetOf(after) /\ SumFunctionOnSet(ca, D) = ClaimOf(after)
    BY <1>1, Zenon DEF NetOf, ClaimOf
  <1>5. \A o \in D : n[o] \in Int /\ na[o] \in Int /\ c[o] \in Int /\ ca[o] \in Int
    BY <1>2, WeightsInt
  <1>6. \A o \in D : ca[o] <= c[o]
    BY <1>2, MovesWeigh
  <1>7. ASSUME \A o \in DOMAIN rows : rows[o].payload.action = "buy"
                                      => after[o].price = rows[o].price
        PROVE  \A o \in D : n[o] <= na[o]
    BY <1>2, <1>7, MovesWeigh
  <1>8. ClaimOf(after) <= ClaimOf(rows)
    <2> HIDE DEF D, c, ca
    <2>1. SumFunctionOnSet(ca, D) <= SumFunctionOnSet(c, D)
      BY <1>1, <1>5, <1>6, SumMonotone
    <2> QED BY <1>3, <1>4, <2>1
  <1>9. ASSUME \A o \in DOMAIN rows : rows[o].payload.action = "buy"
                                      => after[o].price = rows[o].price
        PROVE  NetOf(rows) <= NetOf(after)
    <2>1. \A o \in D : n[o] <= na[o]
      BY <1>7, <1>9
    <2> HIDE DEF D, n, na
    <2>2. SumFunctionOnSet(n, D) <= SumFunctionOnSet(na, D)
      BY <1>1, <1>5, <2>1, SumMonotone
    <2> QED BY <1>3, <1>4, <2>2
  <1> QED BY <1>8, <1>9

-----------------------------------------------------------------------------
(***************************************************************************)
(* What a step has to keep                                                 *)
(***************************************************************************)
\* The cash and the reserve are those of the rows, before a step and after it.
LEMMA BooksAreOfRows ==
  /\ Cash = CashOf(orders) /\ Reserve = ReserveOf(orders)
  /\ Cash' = CashOf(orders') /\ Reserve' = ReserveOf(orders')
  <1>1. Cash = CashOf(orders) /\ Cash' = CashOf(orders')
    BY Zenon DEF Cash, CashOf, Amount, AmountOf, Bought, Sold
  <1>2. Reserve = ReserveOf(orders) /\ Reserve' = ReserveOf(orders')
    BY Zenon DEF Reserve, ReserveOf, Amount, AmountOf, Pending, Pendings
  <1> QED BY <1>1, <1>2

\* The fields of a call.
LEMMA HandlerTyped ==
  ASSUME TypeOK, NEW h \in Handlers
  PROVE  /\ handler[h].pc \in {"idle", "check", "place", "dispatch"}
         /\ handler[h].payload \in Payloads /\ handler[h].payload \in Payload
         /\ handler[h].order \in 0..MaxOrders /\ handler[h].price \in 0..BPS
         /\ DOMAIN handler[h].answers \subseteq Asked
         /\ \A question \in DOMAIN handler[h].answers : handler[h].answers[question] \in Int
         /\ handler[h].answers = [question \in DOMAIN handler[h].answers |->
                                    handler[h].answers[question]]
         /\ \E known \in SUBSET Asked : handler[h] \in HandlerRow(known)
  <1>1. PICK known \in SUBSET Asked : handler[h] \in HandlerRow(known)
    BY DEF TypeOK
  <1>2. /\ handler[h].pc \in {"idle", "check", "place", "dispatch"}
        /\ handler[h].payload \in Payloads /\ handler[h].answers \in [known -> Int]
        /\ handler[h].order \in 0..MaxOrders /\ handler[h].price \in 0..BPS
    BY <1>1 DEF HandlerRow
  <1>3. handler[h].payload \in Payload
    BY <1>2, AdmissionAssumption
  <1> QED BY <1>1, <1>2, <1>3

\* A call that is given another row of the right type.
LEMMA HandlerSet ==
  ASSUME TypeOK, NEW h \in Handlers, NEW known \in SUBSET Asked,
         NEW row \in HandlerRow(known), handler' = [handler EXCEPT ![h] = row]
  PROVE  /\ DOMAIN handler' = Handlers
         /\ \A g \in Handlers : \E k \in SUBSET Asked : handler'[g] \in HandlerRow(k)
         /\ handler'[h] = row
         /\ \A g \in Handlers \ {h} : handler'[g] = handler[g]
  <1>1. DOMAIN handler' = Handlers /\ handler'[h] = row
    BY DEF TypeOK
  <1>2. \A g \in Handlers \ {h} : handler'[g] = handler[g]
    BY DEF TypeOK
  <1>3. \A g \in Handlers : \E k \in SUBSET Asked : handler'[g] \in HandlerRow(k)
    BY <1>1, <1>2 DEF TypeOK
  <1> QED BY <1>1, <1>2, <1>3

\* A call that ends or begins has no answers.
LEMMA IdleTyped ==
  ASSUME NEW p \in Payloads
  PROVE  /\ Idle(p) \in HandlerRow({}) /\ Idle(p).pc = "idle"
         /\ DOMAIN Idle(p).answers = {}
         /\ [Idle(p) EXCEPT !.pc = "check"] \in HandlerRow({})
         /\ [Idle(p) EXCEPT !.pc = "check"].pc = "check"
         /\ DOMAIN [Idle(p) EXCEPT !.pc = "check"].answers = {}
  <1>1. <<>> \in [{} -> Int] /\ DOMAIN <<>> = {}
    BY SMT
  <1>2. 0 \in 0..MaxOrders /\ 0 \in 0..BPS
    BY AdmissionAssumption DEF BPS
  <1> QED BY <1>1, <1>2 DEF Idle, HandlerRow

\* The sets of orders and calls that are counted are finite.
LEMMA SetsFinite ==
  ASSUME TypeOK
  PROVE  /\ IsFiniteSet(Pending) /\ Cardinality(Pending) \in Nat
         /\ IsFiniteSet(Accepted) /\ Cardinality(Accepted) \in Nat
         /\ IsFiniteSet(Recent) /\ Cardinality(Recent) \in Nat
         /\ IsFiniteSet(Handlers) /\ Cardinality(Handlers) \in Nat
         /\ Cardinality(Handlers) > 0
  <1>1. IsFiniteSet(DOMAIN orders)
    BY RowsTyped DEF TypeOK
  <1>2. /\ Pending \in SUBSET DOMAIN orders /\ Accepted \in SUBSET DOMAIN orders
        /\ Recent \in SUBSET DOMAIN orders
    BY DEF Pending, Accepted, Recent
  <1>3. IsFiniteSet(Pending) /\ IsFiniteSet(Accepted) /\ IsFiniteSet(Recent)
    BY <1>1, <1>2, FS_Subset
  <1>4. IsFiniteSet(Handlers) /\ Handlers # {}
    BY AdmissionAssumption
  <1>5. Cardinality(Handlers) \in Nat /\ Cardinality(Handlers) # 0
    BY <1>4, FS_CardinalityType, FS_EmptySet
  <1> QED BY <1>3, <1>4, <1>5, FS_CardinalityType

\* Some calls are at most all calls.
LEMMA ClearedFinite ==
  ASSUME NEW C \in SUBSET Handlers
  PROVE  /\ IsFiniteSet(C) /\ Cardinality(C) \in Nat
         /\ Cardinality(C) <= Cardinality(Handlers)
  BY AdmissionAssumption, FS_Subset, FS_CardinalityType

\* A step after which the rows have moved.
LEMMA RowsMove ==
  ASSUME IInv, orders' \in Seq(OrderRow), Len(orders') = Len(orders),
         \A o \in DOMAIN orders : Moves(orders[o], orders'[o])
  PROVE  /\ Reserve' - Cash' <= Reserve - Cash
         /\ (\A o \in DOMAIN orders : orders[o].payload.action = "buy"
                                      => orders'[o].price = orders[o].price)
              => Cash <= Cash'
         /\ DOMAIN orders' = DOMAIN orders
         /\ Cardinality(Pending') <= Cardinality(Pending)
         /\ Cardinality(Accepted') <= Cardinality(Accepted)
         /\ PendingUnpriced'
  <1>1. orders \in Seq(OrderRow)
    BY DEF IInv, TypeOK
  <1>2. DOMAIN orders' = DOMAIN orders
    BY <1>1, RowsTyped
  <1>3. /\ ClaimOf(orders') <= ClaimOf(orders)
        /\ (\A o \in DOMAIN orders : orders[o].payload.action = "buy"
                                     => orders'[o].price = orders[o].price)
             => NetOf(orders) <= NetOf(orders')
    BY <1>1, SumsMove
  <1>4. /\ Cash = InitialBalance + NetOf(orders)
        /\ Reserve - Cash = ClaimOf(orders) - InitialBalance
        /\ Cash' = InitialBalance + NetOf(orders')
        /\ Reserve' - Cash' = ClaimOf(orders') - InitialBalance
    BY <1>1, SumsTell, BooksAreOfRows
  <1>5. /\ NetOf(orders) \in Int /\ NetOf(orders') \in Int
        /\ ClaimOf(orders) \in Int /\ ClaimOf(orders') \in Int /\ InitialBalance \in Int
    BY <1>1, SumsInt, AdmissionAssumption
  <1>6. Pending' \subseteq Pending
    <2>1. \A o \in DOMAIN orders : orders'[o].status \in Pendings => orders[o].status \in Pendings
      BY DEF Moves, Pendings
    <2> QED BY <1>2, <2>1 DEF Pending, Pendings
  <1>7. Accepted' \subseteq Accepted
    BY <1>2 DEF Accepted, Moves
  <1>8. Cardinality(Pending') <= Cardinality(Pending) /\ Cardinality(Accepted') <= Cardinality(Accepted)
    BY <1>6, <1>7, SetsFinite, FS_Subset DEF IInv
  <1>9. PendingUnpriced'
    <2>1. ASSUME NEW o \in Pending' PROVE orders'[o].price = 0
      <3>1. o \in Pending /\ orders[o].price = 0 /\ o \in DOMAIN orders
            /\ orders'[o].status \in Pendings
        BY <1>6, <2>1 DEF IInv, PendingUnpriced, Pending, Pendings
      <3> QED BY <3>1 DEF Moves, Pendings
    <2> QED BY <2>1 DEF PendingUnpriced
  <1>10. Reserve' - Cash' <= Reserve - Cash
    BY <1>3, <1>4, <1>5
  <1>11. (\A o \in DOMAIN orders : orders[o].payload.action = "buy"
                                   => orders'[o].price = orders[o].price) => Cash <= Cash'
    BY <1>3, <1>4, <1>5
  <1> QED BY <1>2, <1>8, <1>9, <1>10, <1>11

\* The calls that wait have waited before, for an order that has not changed.
LEMMA OwnersKeep ==
  ASSUME IInv, DOMAIN orders \subseteq DOMAIN orders',
         \A h \in Handlers : Waiting(h)' =>
           /\ Waiting(h)
           /\ handler'[h].order = handler[h].order
           /\ handler'[h].payload = handler[h].payload
           /\ orders'[handler[h].order].status = orders[handler[h].order].status
           /\ orders'[handler[h].order].payload = orders[handler[h].order].payload
  PROVE  OrdersOwned' /\ OrdersDiffer'
  BY DEF IInv, OrdersOwned, OrdersDiffer

\* The main lemma: a call that keeps its answers keeps its place and stays
\* overtaken, one that does not has none; nothing is promised beyond the cash
\* that was not before, and cash is only taken from calls that are overtaken;
\* there are no more pending or accepted orders than before.
LEMMA Preserved ==
  ASSUME IInv, TypeOK', OrdersOwned', OrdersDiffer', PendingUnpriced',
         Reserve' - Cash' <= Reserve - Cash,
         Cash <= Cash' \/ KnowCashOnly \subseteq overtaken',
         Cardinality(Pending') <= Cardinality(Pending),
         Cardinality(Accepted') <= Cardinality(Accepted),
         \A h \in Handlers :
           \/ /\ handler'[h].answers = handler[h].answers
              /\ handler'[h].pc = handler[h].pc
              /\ h \in overtaken => h \in overtaken'
           \/ DOMAIN handler'[h].answers = {}
  PROVE  IInv'
  <1>1. AnswersInOrder'
    BY DEF IInv, AnswersInOrder, Answered
  <1>2. ASSUME NEW question, NEW limit
        PROVE  /\ Cleared(question, limit)' \subseteq Cleared(question, limit)
               /\ Cardinality(Cleared(question, limit)') <= Cardinality(Cleared(question, limit))
               /\ Cardinality(Cleared(question, limit)') \in Nat
               /\ Cardinality(Cleared(question, limit)) \in Nat
    <2>1. Cleared(question, limit)' \subseteq Cleared(question, limit)
      BY DEF Cleared, Answered, Known
    <2>2. Cleared(question, limit) \in SUBSET Handlers
      BY DEF Cleared
    <2>3. IsFiniteSet(Cleared(question, limit)) /\ IsFiniteSet(Cleared(question, limit)')
      BY <2>1, <2>2, ClearedFinite
    <2> QED BY <2>1, <2>3, FS_Subset, FS_CardinalityType
  <1>3. /\ Cardinality(Pending) \in Nat /\ Cardinality(Pending') \in Nat
        /\ Cardinality(Accepted) \in Nat /\ Cardinality(Accepted') \in Nat
        /\ Cardinality(Handlers) \in Nat /\ MaxOpenOrders \in Nat /\ MaxOrdersPerMinute \in Nat
    <2>1. IsFiniteSet(Pending') /\ IsFiniteSet(Accepted')
      <3>1. IsFiniteSet(DOMAIN orders')
        BY RowsTyped DEF TypeOK
      <3>2. Pending' \in SUBSET DOMAIN orders' /\ Accepted' \in SUBSET DOMAIN orders'
        BY DEF Pending, Accepted
      <3> QED BY <3>1, <3>2, FS_Subset
    <2> QED BY <2>1, SetsFinite, FS_CardinalityType, AdmissionAssumption DEF IInv
  <1>4. RoomForCleared(Cardinality(Pending), "openOrders", MaxOpenOrders)'
    BY <1>2, <1>3 DEF IInv, RoomForCleared
  <1>5. RoomForCleared(Cardinality(Accepted), "ordersLastMinute", MaxOrdersPerMinute)'
    BY <1>2, <1>3 DEF IInv, RoomForCleared
  <1>6. ReadingsHold'
    <2>1. SUFFICES ASSUME NEW h \in Handlers, h \notin overtaken', Answered(h, "cash")'
                   PROVE  /\ ~Answered(h, "openBuyNotional")' => Known(h, "cash")' <= Cash'
                          /\ Answered(h, "openBuyNotional")' =>
                               Reserve' - Cash' <= Known(h, "openBuyNotional")' - Known(h, "cash")'
      BY DEF ReadingsHold
    <2>2. handler'[h].answers = handler[h].answers /\ h \notin overtaken
      BY <2>1 DEF Answered
    <2>3. /\ Answered(h, "cash") /\ Known(h, "cash")' = Known(h, "cash")
          /\ Known(h, "openBuyNotional")' = Known(h, "openBuyNotional")
          /\ Answered(h, "openBuyNotional")' <=> Answered(h, "openBuyNotional")
      BY <2>1, <2>2 DEF Answered, Known
    <2>4. Known(h, "cash") \in Int
          /\ (Answered(h, "openBuyNotional") => Known(h, "openBuyNotional") \in Int)
      BY <2>3, HandlerTyped DEF IInv, Answered, Known
    <2>5. Cash \in Int /\ Cash' \in Int /\ Reserve \in Int /\ Reserve' \in Int
      BY SumsTell, BooksAreOfRows DEF IInv, TypeOK
    <2>6. ~Answered(h, "openBuyNotional") => h \in KnowCashOnly
      BY <2>3 DEF KnowCashOnly
    <2>7. ~Answered(h, "openBuyNotional") => Cash <= Cash' /\ Known(h, "cash") <= Cash
      BY <2>1, <2>2, <2>3, <2>6 DEF IInv, ReadingsHold
    <2>8. Answered(h, "openBuyNotional") =>
            Reserve - Cash <= Known(h, "openBuyNotional") - Known(h, "cash")
      BY <2>1, <2>2, <2>3 DEF IInv, ReadingsHold
    <2>9. ASSUME ~Answered(h, "openBuyNotional") PROVE Known(h, "cash") <= Cash'
      BY <2>4, <2>5, <2>7, <2>9
    <2>10. ASSUME Answered(h, "openBuyNotional")
           PROVE  Reserve' - Cash' <= Known(h, "openBuyNotional") - Known(h, "cash")
      <3>1. ASSUME NEW r \in Int, NEW c \in Int, NEW m \in Int, NEW n \in Int,
                   NEW a \in Int, NEW b \in Int, r - c <= m - n, m - n <= a - b
            PROVE  r - c <= a - b
        BY <3>1
      <3> QED BY <2>4, <2>5, <2>8, <2>10, <3>1
    <2> QED BY <2>3, <2>9, <2>10
  <1> QED BY <1>1, <1>4, <1>5, <1>6 DEF IInv

-----------------------------------------------------------------------------
(***************************************************************************)
(* The steps, one lemma for each                                           *)
(***************************************************************************)
\* The rows have not changed.
LEMMA RowsSame ==
  ASSUME IInv, orders' = orders
  PROVE  /\ orders' \in Seq(OrderRow)
         /\ Reserve' - Cash' <= Reserve - Cash /\ Cash <= Cash'
         /\ Cardinality(Pending') <= Cardinality(Pending)
         /\ Cardinality(Accepted') <= Cardinality(Accepted)
         /\ PendingUnpriced'
  <1>1. orders' \in Seq(OrderRow) /\ Len(orders') = Len(orders)
    BY DEF IInv, TypeOK
  <1>2. \A o \in DOMAIN orders : Moves(orders[o], orders'[o]) /\ orders'[o].price = orders[o].price
    BY DEF Moves
  <1> QED BY <1>1, <1>2, RowsMove

\* One row has moved.
LEMMA OneRowMoves ==
  ASSUME IInv, NEW o \in DOMAIN orders, NEW row \in OrderRow, Moves(orders[o], row),
         orders' = [orders EXCEPT ![o] = row]
  PROVE  /\ orders' \in Seq(OrderRow) /\ DOMAIN orders' = DOMAIN orders
         /\ orders'[o] = row /\ \A r \in DOMAIN orders \ {o} : orders'[r] = orders[r]
         /\ Reserve' - Cash' <= Reserve - Cash
         /\ row.payload.action # "buy" \/ row.price = orders[o].price => Cash <= Cash'
         /\ Cardinality(Pending') <= Cardinality(Pending)
         /\ Cardinality(Accepted') <= Cardinality(Accepted)
         /\ PendingUnpriced'
  <1>1. orders \in Seq(OrderRow) /\ o \in 1..Len(orders)
    BY RowsTyped DEF IInv, TypeOK
  <1>2. /\ orders' \in Seq(OrderRow) /\ Len(orders') = Len(orders)
        /\ \A r \in 1..Len(orders) : orders'[r] = IF r = o THEN row ELSE orders[r]
    BY <1>1, ExceptSeq
  <1>3. DOMAIN orders = 1..Len(orders)
    BY <1>1, RowsTyped
  <1>4. \A r \in DOMAIN orders : Moves(orders[r], orders'[r])
    BY <1>2, <1>3 DEF Moves
  <1>5. row.payload.action # "buy" \/ row.price = orders[o].price =>
          \A r \in DOMAIN orders : orders[r].payload.action = "buy"
                                   => orders'[r].price = orders[r].price
    <2>1. row.payload = orders[o].payload
      BY DEF Moves
    <2> QED BY <1>2, <1>3, <2>1
  <1>6. /\ Reserve' - Cash' <= Reserve - Cash
        /\ (\A r \in DOMAIN orders : orders[r].payload.action = "buy"
                                     => orders'[r].price = orders[r].price)
             => Cash <= Cash'
        /\ DOMAIN orders' = DOMAIN orders
        /\ Cardinality(Pending') <= Cardinality(Pending)
        /\ Cardinality(Accepted') <= Cardinality(Accepted)
        /\ PendingUnpriced'
    BY <1>2, <1>4, RowsMove
  <1> QED BY <1>1, <1>2, <1>3, <1>5, <1>6

\* No call waits that has not waited before, and no row has changed.
LEMMA OwnersSame ==
  ASSUME IInv, orders' = orders,
         \A h \in Handlers : Waiting(h)' =>
           /\ Waiting(h)
           /\ handler'[h].order = handler[h].order
           /\ handler'[h].payload = handler[h].payload
  PROVE  OrdersOwned' /\ OrdersDiffer'
  BY OwnersKeep

\* A price in range is a price or none.
LEMMA ZeroAdded ==
  ASSUME NEW limit \in Nat
  PROVE  0 \in 0..limit /\ \A x \in 1..limit : x \in 0..limit
  OBVIOUS

\* Both outcomes of a market have a price in range.
LEMMA PriceMirrored ==
  ASSUME NEW limit \in Nat, NEW x \in 1..(limit - 1)
  PROVE  x \in 1..limit /\ limit - x \in 1..limit
  OBVIOUS

\* A price is a number of basis points, and so is what the worker makes of it.
LEMMA PriceTyped ==
  ASSUME TypeOK, NEW p \in Payload
  PROVE  /\ PriceOf(p) \in 1..BPS /\ Bid(PriceOf(p)) \in 1..BPS
         /\ PriceOf(p) \in Int /\ PriceOf(p) > 0
  <1>1. p.market \in Markets
    BY DEF Payload
  <1>2. yes[p.market] \in YesPrices
    BY <1>1 DEF TypeOK
  <1>3. PICK y \in 1..(BPS - 1) : y = yes[p.market]
    BY <1>2, AdmissionAssumption
  <1>4. PriceOf(p) = OutcomePrice(y, p.outcome)
    BY <1>3 DEF PriceOf
  <1>5. OutcomePrice(y, p.outcome) \in 1..BPS
    <2>1. BPS \in Nat
      BY DEF BPS
    <2>2. y \in 1..BPS /\ BPS - y \in 1..BPS
      BY <2>1, PriceMirrored, Zenon
    <2> QED BY <2>2, Zenon DEF OutcomePrice
  <1>6. ASSUME NEW x \in 1..BPS PROVE Bid(x) \in 1..BPS /\ x \in Int /\ x > 0
    <2>1. BPS \in Nat /\ x \in Int /\ 1 <= x /\ x <= BPS
      <3>1. BPS \in Nat
        BY DEF BPS
      <3> QED BY <3>1
    <2>2. Bid(x) \in Int /\ 1 <= Bid(x) /\ Bid(x) <= BPS
      BY <2>1 DEF Bid, BPS
    <2>3. ASSUME NEW n \in Int, 1 <= n, n <= BPS PROVE n \in 1..BPS /\ n > 0
      BY <2>1, <2>3
    <2> QED BY <2>1, <2>2, <2>3
  <1> QED BY <1>4, <1>5, <1>6

\* A fill that goes through leaves natural quantities.
LEMMA ApplyFillTyped ==
  ASSUME NEW held \in [Holding -> Nat], NEW p \in Payload, NEW price, CanApply(held, p, price),
         price \in 1..BPS
  PROVE  ApplyFill(held, p, price) \in [Holding -> Nat]
  <1> DEFINE quantity == QuantityForAmount(p.amount, price)
             hp == HoldingOf(p)
  <1>1. p.market \in Markets /\ p.outcome \in Outcomes /\ p.amount \in Nat
        /\ p.action \in {"buy", "sell"}
    BY DEF Payload
  <1>2. hp \in Holding
    BY <1>1 DEF HoldingOf, Holding
  <1>3. quantity \in Nat
    <2>1. ASSUME NEW a \in Nat, NEW b \in 1..BPS PROVE QuantityForAmount(a, b) \in Nat
      <3>1. (a * BPS) \in Nat /\ b \in Nat /\ b > 0
        BY DEF BPS
      <3>2. (a * BPS) \div b \in Nat
        BY <3>1, SMT
      <3> QED BY <3>1, <3>2 DEF QuantityForAmount
    <2> QED BY <1>1, <2>1
  <1>4. p.action = "sell" => quantity <= held[hp]
    BY DEF CanApply
  <1>5. ApplyFill(held, p, price) =
          [held EXCEPT ![hp] = IF p.action = "buy" THEN @ + quantity ELSE @ - quantity]
    BY DEF ApplyFill
  <1> HIDE DEF quantity, hp
  <1>6. held[hp] \in Nat
    BY <1>2
  <1>7. (IF p.action = "buy" THEN held[hp] + quantity ELSE held[hp] - quantity) \in Nat
    BY <1>1, <1>3, <1>4, <1>6
  <1> QED BY <1>2, <1>5, <1>7

LEMMA InitIInv == ASSUME Init PROVE IInv
  <1>1. PICK p \in Payloads : handler = [h \in Handlers |-> Idle(p)]
    BY DEF Init
  <1>2. \A h \in Handlers : handler[h] = Idle(p) /\ handler[h].pc = "idle"
                            /\ DOMAIN handler[h].answers = {} /\ handler[h] \in HandlerRow({})
    BY <1>1, IdleTyped
  <1>3. orders \in Seq(OrderRow) /\ DOMAIN orders = {}
    <2>1. orders = <<>>
      BY DEF Init
    <2> QED BY <2>1, EmptySeq, SMT
  <1>4. TypeOK
    <2>1. positions \in [Holding -> Nat] /\ overtaken \subseteq Handlers /\ yes \in [Markets -> YesPrices]
      BY DEF Init
    <2>2. DOMAIN handler = Handlers
      BY <1>1
    <2>3. \A h \in Handlers : \E known \in SUBSET Asked : handler[h] \in HandlerRow(known)
      <3>1. {} \in SUBSET Asked
        OBVIOUS
      <3> QED BY <1>2, <3>1
    <2> QED BY <1>3, <2>1, <2>2, <2>3 DEF TypeOK
  <1>5. OrdersOwned /\ OrdersDiffer
    BY <1>2 DEF OrdersOwned, OrdersDiffer, Waiting
  <1>6. Pending = {} /\ Accepted = {} /\ PendingUnpriced
    BY <1>3 DEF Pending, Accepted, PendingUnpriced
  <1>7. \A h \in Handlers : \A question : ~Answered(h, question)
    BY <1>2 DEF Answered
  <1>8. AnswersInOrder /\ ReadingsHold
    BY <1>2, <1>7 DEF AnswersInOrder, ReadingsHold
  <1>9. \A question, limit : Cleared(question, limit) = {}
    BY <1>7 DEF Cleared
  <1>10. Cardinality({}) = 0 /\ Cardinality(Handlers) \in Nat /\ Cardinality(Handlers) > 0
    BY <1>4, SetsFinite, FS_EmptySet
  <1>11. RoomForCleared(Cardinality(Pending), "openOrders", MaxOpenOrders)
    BY <1>6, <1>9, <1>10, AdmissionAssumption DEF RoomForCleared
  <1>12. RoomForCleared(Cardinality(Accepted), "ordersLastMinute", MaxOrdersPerMinute)
    BY <1>6, <1>9, <1>10, AdmissionAssumption DEF RoomForCleared
  <1> QED BY <1>4, <1>5, <1>6, <1>8, <1>11, <1>12 DEF IInv

LEMMA ReceiveIInv ==
  ASSUME IInv, NEW h \in Handlers, NEW p \in Payloads, Receive(h, p)
  PROVE  IInv'
  <1>1. PICK row \in HandlerRow({}) :
          /\ row = [Idle(p) EXCEPT !.pc = "check"] /\ row.pc = "check" /\ DOMAIN row.answers = {}
    BY IdleTyped
  <1>2. /\ handler' = [handler EXCEPT ![h] = row] /\ overtaken' = overtaken \ {h}
        /\ yes' = yes /\ orders' = orders /\ positions' = positions
    BY <1>1 DEF Receive
  <1>3. TypeOK
    BY DEF IInv
  <1>4. /\ DOMAIN handler' = Handlers /\ handler'[h] = row
        /\ \A g \in Handlers : \E k \in SUBSET Asked : handler'[g] \in HandlerRow(k)
        /\ \A g \in Handlers \ {h} : handler'[g] = handler[g]
    BY <1>2, <1>3, HandlerSet
  <1>5. TypeOK'
    BY <1>2, <1>3, <1>4 DEF TypeOK
  <1>6. OrdersOwned' /\ OrdersDiffer'
    <2>1. \A g \in Handlers : Waiting(g)' => g # h
      BY <1>1, <1>4 DEF Waiting
    <2>2. \A g \in Handlers : Waiting(g)' => /\ Waiting(g)
                                             /\ handler'[g].order = handler[g].order
                                             /\ handler'[g].payload = handler[g].payload
      BY <1>4, <2>1 DEF Waiting
    <2> QED BY <1>2, <2>2, OwnersSame
  <1>7. \A g \in Handlers :
           \/ /\ handler'[g].answers = handler[g].answers
              /\ handler'[g].pc = handler[g].pc
              /\ g \in overtaken => g \in overtaken'
           \/ DOMAIN handler'[g].answers = {}
    BY <1>1, <1>2, <1>4
  <1> QED BY <1>2, <1>5, <1>6, <1>7, RowsSame, Preserved

LEMMA AbortIInv ==
  ASSUME IInv, NEW h \in Handlers, Abort(h)
  PROVE  IInv'
  <1>1. TypeOK
    BY DEF IInv
  <1>2. PICK row \in HandlerRow({}) :
          /\ row = Idle(handler[h].payload) /\ row.pc = "idle" /\ DOMAIN row.answers = {}
    BY <1>1, HandlerTyped, IdleTyped
  <1>3. /\ handler' = [handler EXCEPT ![h] = row] /\ overtaken' = overtaken
        /\ yes' = yes /\ orders' = orders /\ positions' = positions
    BY <1>1, <1>2 DEF Abort, TypeOK
  <1>4. /\ DOMAIN handler' = Handlers /\ handler'[h] = row
        /\ \A g \in Handlers : \E k \in SUBSET Asked : handler'[g] \in HandlerRow(k)
        /\ \A g \in Handlers \ {h} : handler'[g] = handler[g]
    BY <1>1, <1>3, HandlerSet
  <1>5. TypeOK'
    BY <1>1, <1>3, <1>4 DEF TypeOK
  <1>6. OrdersOwned' /\ OrdersDiffer'
    <2>1. \A g \in Handlers : Waiting(g)' => g # h
      BY <1>2, <1>4 DEF Waiting
    <2>2. \A g \in Handlers : Waiting(g)' => /\ Waiting(g)
                                             /\ handler'[g].order = handler[g].order
                                             /\ handler'[g].payload = handler[g].payload
      BY <1>4, <2>1 DEF Waiting
    <2> QED BY <1>3, <2>2, OwnersSame
  <1>7. \A g \in Handlers :
           \/ /\ handler'[g].answers = handler[g].answers
              /\ handler'[g].pc = handler[g].pc
              /\ g \in overtaken => g \in overtaken'
           \/ DOMAIN handler'[g].answers = {}
    BY <1>2, <1>3, <1>4
  <1> QED BY <1>3, <1>5, <1>6, <1>7, RowsSame, Preserved

\* The calls go on as they were.
LEMMA CallsSame ==
  ASSUME IInv, handler' = handler, overtaken \subseteq overtaken'
  PROVE  \A g \in Handlers :
           \/ /\ handler'[g].answers = handler[g].answers
              /\ handler'[g].pc = handler[g].pc
              /\ g \in overtaken => g \in overtaken'
           \/ DOMAIN handler'[g].answers = {}
  OBVIOUS

LEMMA CancelOrderIInv ==
  ASSUME IInv, NEW o \in DOMAIN orders, CancelOrder(o)
  PROVE  IInv'
  <1>1. orders[o] \in OrderRow
    BY RowsTyped DEF IInv, TypeOK
  <1>2. o \in Pending /\ orders[o].price = 0 /\ orders[o].status = "open"
    BY DEF CancelOrder, Pending, IInv, PendingUnpriced
  <1>3. PICK row : row = [orders[o] EXCEPT !.status = "canceled"]
    OBVIOUS
  <1>4. /\ row \in OrderRow /\ row.status = "canceled" /\ row.price = orders[o].price
        /\ row.payload = orders[o].payload /\ row.recent = orders[o].recent
    BY <1>1, <1>3 DEF OrderRow
  <1>5. Moves(orders[o], row)
    BY <1>2, <1>4 DEF Moves, Pendings
  <1>6. /\ orders' = [orders EXCEPT ![o] = row] /\ overtaken' = overtaken
        /\ yes' = yes /\ handler' = handler /\ positions' = positions
    BY <1>3 DEF CancelOrder
  <1>7. /\ orders' \in Seq(OrderRow) /\ DOMAIN orders' = DOMAIN orders
        /\ orders'[o] = row /\ \A r \in DOMAIN orders \ {o} : orders'[r] = orders[r]
        /\ Reserve' - Cash' <= Reserve - Cash
        /\ Cash <= Cash'
        /\ Cardinality(Pending') <= Cardinality(Pending)
        /\ Cardinality(Accepted') <= Cardinality(Accepted)
        /\ PendingUnpriced'
    BY <1>4, <1>5, <1>6, OneRowMoves
  <1>8. TypeOK'
    BY <1>6, <1>7 DEF IInv, TypeOK
  <1>9. OrdersOwned' /\ OrdersDiffer'
    <2>1. \A h \in Handlers : Waiting(h) => handler[h].order \in DOMAIN orders \ {o}
      BY <1>2 DEF IInv, OrdersOwned
    <2> QED BY <1>6, <1>7, <2>1, OwnersKeep DEF Waiting
  <1> QED BY <1>6, <1>7, <1>8, <1>9, CallsSame, Preserved

LEMMA LeaveWindowIInv ==
  ASSUME IInv, NEW o \in DOMAIN orders, LeaveWindow(o)
  PROVE  IInv'
  <1>1. orders[o] \in OrderRow
    BY RowsTyped DEF IInv, TypeOK
  <1>2. PICK row : row = [orders[o] EXCEPT !.recent = FALSE]
    OBVIOUS
  <1>3. /\ row \in OrderRow /\ row.status = orders[o].status /\ row.price = orders[o].price
        /\ row.payload = orders[o].payload /\ row.recent = FALSE
    BY <1>1, <1>2 DEF OrderRow
  <1>4. Moves(orders[o], row)
    BY <1>3 DEF Moves
  <1>5. /\ orders' = [orders EXCEPT ![o] = row] /\ overtaken' = overtaken
        /\ yes' = yes /\ handler' = handler /\ positions' = positions
    BY <1>2 DEF LeaveWindow
  <1>6. /\ orders' \in Seq(OrderRow) /\ DOMAIN orders' = DOMAIN orders
        /\ orders'[o] = row /\ \A r \in DOMAIN orders \ {o} : orders'[r] = orders[r]
        /\ Reserve' - Cash' <= Reserve - Cash
        /\ Cash <= Cash'
        /\ Cardinality(Pending') <= Cardinality(Pending)
        /\ Cardinality(Accepted') <= Cardinality(Accepted)
        /\ PendingUnpriced'
    BY <1>3, <1>4, <1>5, OneRowMoves
  <1>7. TypeOK'
    BY <1>5, <1>6 DEF IInv, TypeOK
  <1>8. OrdersOwned' /\ OrdersDiffer'
    <2>1. \A h \in Handlers : Waiting(h) => handler[h].order \in DOMAIN orders
      BY DEF IInv, OrdersOwned
    <2>2. \A r \in DOMAIN orders : /\ orders'[r].status = orders[r].status
                                   /\ orders'[r].payload = orders[r].payload
      BY <1>3, <1>6
    <2> QED BY <1>5, <1>6, <2>1, <2>2, OwnersKeep DEF Waiting
  <1> QED BY <1>5, <1>6, <1>7, <1>8, CallsSame, Preserved

LEMMA AdvanceMarketsIInv ==
  ASSUME IInv, AdvanceMarkets
  PROVE  IInv'
  <1>1. /\ orders' = orders /\ overtaken' = overtaken /\ handler' = handler
        /\ positions' = positions /\ yes' \in [Markets -> YesPrices]
    BY DEF AdvanceMarkets
  <1>2. TypeOK'
    BY <1>1 DEF IInv, TypeOK
  <1>3. OrdersOwned' /\ OrdersDiffer'
    BY <1>1, OwnersSame DEF Waiting
  <1> QED BY <1>1, <1>2, <1>3, CallsSame, RowsSame, Preserved

\* A call ends with a move of its order's row.
LEMMA OrderEnds ==
  ASSUME IInv, NEW h \in Handlers, Waiting(h),
         NEW row \in OrderRow, Moves(orders[handler[h].order], row),
         orders' = [orders EXCEPT ![handler[h].order] = row],
         handler' = [handler EXCEPT ![h] = Idle(handler[h].payload)],
         yes' = yes, positions' \in [Holding -> Nat],
         overtaken \subseteq overtaken', overtaken' \subseteq Handlers,
         \/ handler[h].payload.action # "buy"
         \/ row.price = orders[handler[h].order].price
         \/ KnowCashOnly \subseteq overtaken'
  PROVE  IInv'
  <1> DEFINE o == handler[h].order
  <1>1. TypeOK
    BY DEF IInv
  <1>2. o \in DOMAIN orders /\ orders[o].payload = handler[h].payload
    BY DEF IInv, OrdersOwned
  <1>3. row.payload = handler[h].payload
    BY <1>2 DEF Moves
  <1>4. PICK idle \in HandlerRow({}) :
          /\ idle = Idle(handler[h].payload) /\ idle.pc = "idle" /\ DOMAIN idle.answers = {}
    BY <1>1, HandlerTyped, IdleTyped
  <1>5. handler' = [handler EXCEPT ![h] = idle]
    BY <1>4
  <1>6. /\ DOMAIN handler' = Handlers /\ handler'[h] = idle
        /\ \A g \in Handlers : \E k \in SUBSET Asked : handler'[g] \in HandlerRow(k)
        /\ \A g \in Handlers \ {h} : handler'[g] = handler[g]
    BY <1>1, <1>4, <1>5, HandlerSet
  <1>7. /\ orders' \in Seq(OrderRow) /\ DOMAIN orders' = DOMAIN orders
        /\ orders'[o] = row /\ \A r \in DOMAIN orders \ {o} : orders'[r] = orders[r]
        /\ Reserve' - Cash' <= Reserve - Cash
        /\ row.payload.action # "buy" \/ row.price = orders[o].price => Cash <= Cash'
        /\ Cardinality(Pending') <= Cardinality(Pending)
        /\ Cardinality(Accepted') <= Cardinality(Accepted)
        /\ PendingUnpriced'
    BY <1>2, OneRowMoves
  <1>8. TypeOK'
    BY <1>1, <1>6, <1>7 DEF TypeOK
  <1>9. OrdersOwned' /\ OrdersDiffer'
    <2>1. \A g \in Handlers : Waiting(g)' => g # h /\ Waiting(g)
      BY <1>4, <1>6 DEF Waiting
    <2>2. \A g \in Handlers \ {h} : Waiting(g) => handler[g].order \in DOMAIN orders \ {o}
      BY DEF IInv, OrdersOwned, OrdersDiffer
    <2> HIDE DEF o
    <2> QED BY <1>6, <1>7, <2>1, <2>2, OwnersKeep
  <1>10. \A g \in Handlers :
           \/ /\ handler'[g].answers = handler[g].answers
              /\ handler'[g].pc = handler[g].pc
              /\ g \in overtaken => g \in overtaken'
           \/ DOMAIN handler'[g].answers = {}
    BY <1>4, <1>6
  <1>11. Cash <= Cash' \/ KnowCashOnly \subseteq overtaken'
    BY <1>3, <1>7
  <1> QED BY <1>7, <1>8, <1>9, <1>10, <1>11, Preserved

LEMMA PlaceAtVenueIInv ==
  ASSUME IInv, NEW h \in Handlers, PlaceAtVenue(h)
  PROVE  IInv'
  <1> DEFINE p == handler[h].payload
             o == handler[h].order
             keeps == \A g \in Handlers :
                        \/ /\ handler'[g].answers = handler[g].answers
                           /\ handler'[g].pc = handler[g].pc
                           /\ g \in overtaken => g \in overtaken'
                        \/ DOMAIN handler'[g].answers = {}
  <1>1. TypeOK
    BY DEF IInv
  <1>2. /\ handler[h].pc = "place" /\ yes' = yes /\ positions' = positions
        /\ overtaken' = overtaken /\ Waiting(h)
    BY DEF PlaceAtVenue, Waiting
  <1>3. /\ o \in DOMAIN orders /\ orders[o].status = "submitted"
        /\ DOMAIN handler[h].answers = {}
    BY <1>2 DEF IInv, OrdersOwned, AnswersInOrder
  <1>4. CASE /\ handler' = [handler EXCEPT ![h].pc = "dispatch",
                   ![h].price = IF Crosses(p, PriceOf(p)) THEN PriceOf(p) ELSE 0]
             /\ orders' = orders
    <2> DEFINE price == IF Crosses(p, PriceOf(p)) THEN PriceOf(p) ELSE 0
    <2>1. price \in 0..BPS
      <3>1. PriceOf(p) \in 1..BPS
        BY <1>1, HandlerTyped, PriceTyped
      <3>2. 0 \in 0..BPS /\ \A x \in 1..BPS : x \in 0..BPS
        <4>1. BPS \in Nat
          BY DEF BPS
        <4> QED BY <4>1, ZeroAdded, Zenon
      <3> HIDE DEF p
      <3> QED BY <3>1, <3>2, Zenon
    <2> HIDE DEF price
    <2>2. PICK row : row = [handler[h] EXCEPT !.pc = "dispatch", !.price = price]
      OBVIOUS
    <2>3. PICK known \in SUBSET Asked : handler[h] \in HandlerRow(known)
      BY <1>1, HandlerTyped
    <2>4. /\ row \in HandlerRow(known) /\ row.pc = "dispatch"
          /\ row.answers = handler[h].answers
          /\ row.order = handler[h].order /\ row.payload = handler[h].payload
      BY <2>1, <2>2, <2>3 DEF HandlerRow
    <2>5. handler' = [handler EXCEPT ![h] = row]
      BY <1>4, <2>2 DEF price
    <2>6. /\ DOMAIN handler' = Handlers /\ handler'[h] = row
          /\ \A g \in Handlers : \E k \in SUBSET Asked : handler'[g] \in HandlerRow(k)
          /\ \A g \in Handlers \ {h} : handler'[g] = handler[g]
      BY <1>1, <2>4, <2>5, HandlerSet
    <2>7. TypeOK'
      BY <1>1, <1>2, <1>4, <2>6 DEF TypeOK
    <2>8. OrdersOwned' /\ OrdersDiffer'
      <3>1. \A g \in Handlers : Waiting(g)' => /\ Waiting(g)
                                               /\ handler'[g].order = handler[g].order
                                               /\ handler'[g].payload = handler[g].payload
        BY <1>2, <2>4, <2>6 DEF Waiting
      <3> QED BY <1>4, <3>1, OwnersSame
    <2>9. keeps
      BY <1>2, <1>3, <2>4, <2>6
    <2> QED BY <1>4, <2>7, <2>8, <2>9, RowsSame, Preserved
  <1>5. CASE /\ orders' = [orders EXCEPT ![handler[h].order].status = "failed"]
             /\ handler' = [handler EXCEPT ![h] = Idle(@.payload)]
    <2>1. orders[o] \in OrderRow /\ orders[o].price = 0
      BY <1>1, <1>3, RowsTyped DEF TypeOK, Pending, IInv, PendingUnpriced
    <2>2. PICK r : r = [orders[o] EXCEPT !.status = "failed"]
      OBVIOUS
    <2>3. /\ r \in OrderRow /\ r.status = "failed" /\ r.price = orders[o].price
          /\ r.payload = orders[o].payload /\ r.recent = orders[o].recent
      BY <2>1, <2>2 DEF OrderRow
    <2>4. Moves(orders[o], r)
      BY <1>3, <2>1, <2>3 DEF Moves, Pendings
    <2>5. /\ orders' = [orders EXCEPT ![o] = r]
          /\ handler' = [handler EXCEPT ![h] = Idle(handler[h].payload)]
      BY <1>1, <1>5, <2>2 DEF TypeOK
    <2>6. positions' \in [Holding -> Nat] /\ overtaken' \subseteq Handlers
      BY <1>1, <1>2 DEF TypeOK
    <2> QED BY <1>2, <2>3, <2>4, <2>5, <2>6, OrderEnds
  <1> QED BY <1>4, <1>5 DEF PlaceAtVenue

LEMMA RecordDispatchIInv ==
  ASSUME IInv, NEW h \in Handlers, RecordDispatch(h)
  PROVE  IInv'
  <1> DEFINE p == handler[h].payload
             o == handler[h].order
             price == handler[h].price
  <1>1. TypeOK
    BY DEF IInv
  <1>2. /\ handler[h].pc = "dispatch" /\ yes' = yes /\ Waiting(h)
        /\ handler' = [handler EXCEPT ![h] = Idle(handler[h].payload)]
    BY DEF RecordDispatch, Waiting
  <1>3. /\ o \in DOMAIN orders /\ orders[o].status = "submitted"
        /\ orders[o].payload = p
        /\ orders[o] \in OrderRow /\ orders[o].price = 0
    BY <1>1, <1>2, RowsTyped DEF IInv, OrdersOwned, TypeOK, Pending, PendingUnpriced
  <1>4. p \in Payload /\ price \in 0..BPS /\ overtaken \subseteq Handlers
        /\ positions \in [Holding -> Nat]
    BY <1>1, HandlerTyped DEF TypeOK
  <1>5. CASE /\ price = 0
             /\ orders' = [orders EXCEPT ![o].status = "open"]
             /\ UNCHANGED <<positions, overtaken>>
    <2>1. PICK r : r = [orders[o] EXCEPT !.status = "open"]
      OBVIOUS
    <2>2. /\ r \in OrderRow /\ r.status = "open" /\ r.price = orders[o].price
          /\ r.payload = orders[o].payload /\ r.recent = orders[o].recent
      BY <1>3, <2>1 DEF OrderRow
    <2>3. Moves(orders[o], r)
      BY <1>3, <2>2 DEF Moves, Pendings
    <2>4. orders' = [orders EXCEPT ![o] = r]
      BY <1>5, <2>1
    <2> QED BY <1>2, <1>4, <1>5, <2>2, <2>3, <2>4, OrderEnds
  <1>6. CASE /\ price > 0
             /\ CanApply(positions, p, price)
             /\ orders' = [orders EXCEPT ![o].status = "filled", ![o].price = price]
             /\ positions' = ApplyFill(positions, p, price)
             /\ overtaken' = IF p.action = "buy"
                             THEN overtaken \cup KnowCashOnly ELSE overtaken
    <2>1. price \in 1..BPS
      <3>1. ASSUME NEW n \in 0..BPS, n > 0 PROVE n \in 1..BPS
        BY <3>1 DEF BPS
      <3> QED BY <1>4, <1>6, <3>1
    <2>2. positions' \in [Holding -> Nat]
      <3> HIDE DEF p, price
      <3> QED BY <1>4, <1>6, <2>1, ApplyFillTyped
    <2>3. PICK r : r = [orders[o] EXCEPT !.status = "filled", !.price = price]
      OBVIOUS
    <2>4. /\ r \in OrderRow /\ r.status = "filled" /\ r.price = price
          /\ r.payload = orders[o].payload /\ r.recent = orders[o].recent
      BY <1>3, <1>4, <2>3 DEF OrderRow
    <2>5. Moves(orders[o], r)
      BY <1>3, <2>4 DEF Moves, Pendings
    <2>6. orders' = [orders EXCEPT ![o] = r]
      BY <1>3, <1>6, <2>3 DEF IInv, TypeOK
    <2>7. /\ overtaken \subseteq overtaken' /\ overtaken' \subseteq Handlers
          /\ p.action # "buy" \/ KnowCashOnly \subseteq overtaken'
      <3>1. KnowCashOnly \subseteq Handlers
        BY DEF KnowCashOnly
      <3> QED BY <1>4, <1>6, <3>1
    <2> QED BY <1>2, <2>2, <2>4, <2>5, <2>6, <2>7, OrderEnds
  <1>7. CASE UNCHANGED <<orders, positions, overtaken>>
    <2>1. Moves(orders[o], orders[o])
      BY DEF Moves
    <2>2. orders' = [orders EXCEPT ![o] = orders[o]]
      <3>1. orders \in [1..Len(orders) -> OrderRow]
        BY <1>1, LenProperties DEF TypeOK
      <3> QED BY <1>3, <1>7, <3>1
    <2> QED BY <1>2, <1>3, <1>4, <1>7, <2>1, <2>2, OrderEnds
  <1> QED BY <1>5, <1>6, <1>7 DEF RecordDispatch

\* The books that the worker's transaction can have made of the present ones:
\* each row is as it was, or was open and has moved.
MovedBooks ==
  {books \in [orders: Seq(OrderRow), positions: [Holding -> Nat]] :
     /\ Len(books.orders) = Len(orders)
     /\ \A o \in DOMAIN orders :
          \/ books.orders[o] = orders[o]
          \/ orders[o].status = "open" /\ Moves(orders[o], books.orders[o])}

\* The next order's turn leaves such books.
LEMMA FillOneMoves ==
  ASSUME IInv, NEW books \in MovedBooks, NEW o \in 1..Len(orders)
  PROVE  FillOne(books, o) \in MovedBooks
  <1> DEFINE p == books.orders[o].payload
             price == IF p.action = "sell" THEN Bid(PriceOf(p)) ELSE PriceOf(p)
  <1>1. TypeOK
    BY DEF IInv
  <1>2. /\ books \in [orders: Seq(OrderRow), positions: [Holding -> Nat]]
        /\ books.orders \in Seq(OrderRow) /\ books.positions \in [Holding -> Nat]
        /\ Len(books.orders) = Len(orders)
        /\ \A n \in DOMAIN orders :
             \/ books.orders[n] = orders[n]
             \/ orders[n].status = "open" /\ Moves(orders[n], books.orders[n])
    BY DEF MovedBooks
  <1>3. DOMAIN orders = 1..Len(orders) /\ DOMAIN books.orders = 1..Len(orders)
        /\ orders[o] \in OrderRow /\ books.orders[o] \in OrderRow
    BY <1>1, <1>2, RowsTyped DEF TypeOK
  <1>4. p \in Payload
    BY <1>3, RowTyped
  <1>5. price \in 1..BPS
    <2> HIDE DEF p
    <2> QED BY <1>1, <1>4, PriceTyped
  <1>6. ASSUME books.orders[o].status = "open"
        PROVE  /\ orders[o].status = "open" /\ orders[o].price = 0
               /\ books.orders[o].price = 0 /\ books.orders[o].payload = orders[o].payload
               /\ books.orders[o].recent => orders[o].recent
    <2>1. orders[o].status = "open"
      BY <1>2, <1>3, <1>6
    <2>2. orders[o].price = 0
      BY <1>3, <2>1 DEF IInv, PendingUnpriced, Pending
    <2>3. books.orders[o] = orders[o] \/ Moves(orders[o], books.orders[o])
      BY <1>2, <1>3
    <2> QED BY <1>6, <2>1, <2>2, <2>3 DEF Moves
  <1>7. ASSUME NEW row \in OrderRow, NEW held \in [Holding -> Nat],
               orders[o].status = "open", Moves(orders[o], row),
               NEW b, b = [orders |-> [books.orders EXCEPT ![o] = row], positions |-> held]
        PROVE  b \in MovedBooks
    <2>1. /\ [books.orders EXCEPT ![o] = row] \in Seq(OrderRow)
          /\ Len([books.orders EXCEPT ![o] = row]) = Len(orders)
          /\ \A n \in 1..Len(orders) :
               [books.orders EXCEPT ![o] = row][n] = IF n = o THEN row ELSE books.orders[n]
      BY <1>2, ExceptSeq
    <2>2. \A n \in DOMAIN orders :
             \/ b.orders[n] = orders[n]
             \/ orders[n].status = "open" /\ Moves(orders[n], b.orders[n])
      BY <1>2, <1>3, <1>7, <2>1
    <2>3. b \in [orders: Seq(OrderRow), positions: [Holding -> Nat]] /\ Len(b.orders) = Len(orders)
      BY <1>7, <2>1
    <2> QED BY <2>2, <2>3 DEF MovedBooks
  <1>8. CASE books.orders[o].status # "open" \/ ~Crosses(p, price)
    BY <1>8 DEF FillOne
  <1>9. CASE /\ books.orders[o].status = "open" /\ Crosses(p, price)
             /\ CanApply(books.positions, p, price)
    <2>1. PICK row : row = [books.orders[o] EXCEPT !.status = "filled", !.price = price]
      OBVIOUS
    <2>2. price \in 0..BPS
      <3> HIDE DEF price
      <3> QED BY <1>5 DEF BPS
    <2> HIDE DEF price
    <2>3. /\ row \in OrderRow /\ row.status = "filled"
          /\ row.payload = books.orders[o].payload /\ row.recent = books.orders[o].recent
      BY <1>3, <2>1, <2>2 DEF OrderRow
    <2>4. Moves(orders[o], row)
      BY <1>6, <1>9, <2>3 DEF Moves, Pendings
    <2>5. ApplyFill(books.positions, p, price) \in [Holding -> Nat]
      <3> HIDE DEF p
      <3> QED BY <1>2, <1>4, <1>5, <1>9, ApplyFillTyped
    <2>6. FillOne(books, o) =
            [orders    |-> [books.orders EXCEPT ![o] = row],
             positions |-> ApplyFill(books.positions, p, price)]
      <3>1. FillOne(books, o) =
              [orders    |-> [books.orders EXCEPT ![o].status = "filled", ![o].price = price],
               positions |-> ApplyFill(books.positions, p, price)]
        BY <1>9 DEF FillOne, price
      <3>2. [books.orders EXCEPT ![o].status = "filled", ![o].price = price] =
            [books.orders EXCEPT ![o] = row]
        <4>1. books.orders \in [1..Len(books.orders) -> OrderRow]
          BY <1>2, LenProperties
        <4> QED BY <1>3, <2>1, <4>1
      <3> QED BY <3>1, <3>2
    <2> QED BY <1>6, <1>7, <1>9, <2>3, <2>4, <2>5, <2>6
  <1>10. CASE /\ books.orders[o].status = "open" /\ Crosses(p, price)
              /\ ~CanApply(books.positions, p, price)
    <2>1. PICK row : row = [books.orders[o] EXCEPT !.status = "failed"]
      OBVIOUS
    <2> HIDE DEF price
    <2>2. /\ row \in OrderRow /\ row.status = "failed" /\ row.price = books.orders[o].price
          /\ row.payload = books.orders[o].payload /\ row.recent = books.orders[o].recent
      BY <1>3, <2>1 DEF OrderRow
    <2>3. Moves(orders[o], row)
      BY <1>6, <1>10, <2>2 DEF Moves, Pendings
    <2>4. FillOne(books, o) =
            [orders |-> [books.orders EXCEPT ![o] = row], positions |-> books.positions]
      <3>1. FillOne(books, o) = [books EXCEPT !.orders[o].status = "failed"]
        BY <1>10 DEF FillOne, price
      <3>2. [books EXCEPT !.orders[o].status = "failed"] =
            [books EXCEPT !.orders = [books.orders EXCEPT ![o] = row]]
        BY <1>2, <2>1
      <3>3. [books EXCEPT !.orders = [books.orders EXCEPT ![o] = row]] =
            [orders |-> [books.orders EXCEPT ![o] = row], positions |-> books.positions]
        <4>1. ASSUME NEW rows
              PROVE  [books EXCEPT !.orders = rows] =
                     [orders |-> rows, positions |-> books.positions]
          <5>1. PICK heads, held : books = [orders |-> heads, positions |-> held]
            BY <1>2
          <5> QED BY <5>1
        <4> QED BY <4>1
      <3> QED BY <3>1, <3>2, <3>3
    <2> QED BY <1>2, <1>6, <1>7, <1>10, <2>2, <2>3, <2>4
  <1> QED BY <1>8, <1>9, <1>10

\* So do all of them.
LEMMA AfterFillingMoves == ASSUME IInv PROVE AfterFilling[Len(orders)] \in MovedBooks
  <1> DEFINE N == Len(orders)
             first == [orders |-> orders, positions |-> positions]
             step == [x \in (1..N) \X MovedBooks |-> FillOne(x[2], x[1])]
             IsIt(f) == f = [n \in 0..N |-> IF n = 0 THEN first ELSE FillOne(f[n - 1], n)]
  <1>1. N \in Nat
    BY RowsTyped DEF IInv, TypeOK
  <1>2. first \in MovedBooks
    BY DEF MovedBooks, IInv, TypeOK
  <1>3. step \in [(1..N) \X MovedBooks -> MovedBooks]
    BY FillOneMoves
  <1>4. PICK f \in [0..N -> MovedBooks] :
          f = [n \in 0..N |-> IF n = 0 THEN first ELSE step[<<n, f[n - 1]>>]]
    <2> HIDE DEF N, first, step
    <2>1. \E f \in [0..N -> MovedBooks] : Recursive(N, first, step, f)
      BY <1>1, <1>2, <1>3, RecursionExists
    <2> QED BY <2>1 DEF Recursive
  <1>5. IsIt(f)
    <2>1. ASSUME NEW n \in 0..N, n # 0
          PROVE  step[<<n, f[n - 1]>>] = FillOne(f[n - 1], n)
      <3> HIDE DEF N
      <3>1. n \in 1..N /\ n - 1 \in 0..N
        BY <1>1, <2>1
      <3>2. f[n - 1] \in MovedBooks
        BY <3>1
      <3> QED BY <3>1, <3>2
    <2> HIDE DEF N, first, step
    <2> QED BY <1>4, <2>1
  <1>6. AfterFilling = CHOOSE g : IsIt(g)
    BY DEF AfterFilling
  <1>7. IsIt(AfterFilling)
    <2> HIDE DEF IsIt
    <2> QED BY <1>5, <1>6
  <1> HIDE DEF first, N
  <1>8. /\ AfterFilling[0] = first
        /\ \A n \in 1..N : AfterFilling[n] = FillOne(AfterFilling[n - 1], n)
    BY <1>1, <1>7
  <1>9. \A n \in 0..N : AfterFilling[n] \in MovedBooks
    <2> DEFINE Bad == {n \in 0..N : AfterFilling[n] \notin MovedBooks}
    <2> SUFFICES ASSUME Bad # {} PROVE FALSE
      OBVIOUS
    <2>1. PICK n \in Bad : \A k \in Bad : n <= k
      <3>1. Bad \in SUBSET Nat
        BY <1>1
      <3> HIDE DEF Bad
      <3> QED BY <3>1, LeastElement
    <2>2. n \in 0..N /\ n # 0
      BY <1>2, <1>8
    <2>3. n \in 1..N /\ n - 1 \in 0..N /\ ~(n <= n - 1)
      BY <1>1, <2>2
    <2>4. AfterFilling[n - 1] \in MovedBooks
      BY <2>1, <2>3
    <2>5. FillOne(AfterFilling[n - 1], n) \in MovedBooks
      BY <2>3, <2>4, FillOneMoves DEF N
    <2> QED BY <1>8, <2>3, <2>5
  <1>10. N \in 0..N
    BY <1>1
  <1> QED BY <1>9, <1>10 DEF N

LEMMA FillOpenOrdersIInv ==
  ASSUME IInv, FillOpenOrders
  PROVE  IInv'
  <1>1. PICK books \in MovedBooks : books = AfterFilling[Len(orders)]
    BY AfterFillingMoves
  <1>2. /\ orders' = books.orders /\ positions' = books.positions
        /\ overtaken' = IF \E o \in DOMAIN orders : /\ orders'[o].price # orders[o].price
                                                    /\ orders[o].payload.action = "buy"
                        THEN overtaken \cup KnowCashOnly ELSE overtaken
        /\ yes' = yes /\ handler' = handler
    BY <1>1 DEF FillOpenOrders
  <1>3. /\ orders' \in Seq(OrderRow) /\ positions' \in [Holding -> Nat]
        /\ Len(orders') = Len(orders)
        /\ \A o \in DOMAIN orders :
             \/ orders'[o] = orders[o]
             \/ orders[o].status = "open" /\ Moves(orders[o], orders'[o])
    BY <1>2 DEF MovedBooks
  <1>4. \A o \in DOMAIN orders : Moves(orders[o], orders'[o])
    BY <1>3 DEF Moves
  <1>5. /\ Reserve' - Cash' <= Reserve - Cash
        /\ (\A o \in DOMAIN orders : orders[o].payload.action = "buy"
                                     => orders'[o].price = orders[o].price)
             => Cash <= Cash'
        /\ DOMAIN orders' = DOMAIN orders
        /\ Cardinality(Pending') <= Cardinality(Pending)
        /\ Cardinality(Accepted') <= Cardinality(Accepted)
        /\ PendingUnpriced'
    BY <1>3, <1>4, RowsMove
  <1>6. Cash <= Cash' \/ KnowCashOnly \subseteq overtaken'
    BY <1>2, <1>5
  <1>7. overtaken \subseteq overtaken' /\ overtaken' \subseteq Handlers
    BY <1>2 DEF IInv, TypeOK, KnowCashOnly
  <1>8. TypeOK'
    BY <1>2, <1>3, <1>7 DEF IInv, TypeOK
  <1>9. OrdersOwned' /\ OrdersDiffer'
    <2>1. \A h \in Handlers : Waiting(h) =>
            handler[h].order \in DOMAIN orders /\ orders'[handler[h].order] = orders[handler[h].order]
      BY <1>3 DEF IInv, OrdersOwned
    <2> QED BY <1>2, <1>5, <2>1, OwnersKeep DEF Waiting
  <1> QED BY <1>2, <1>5, <1>6, <1>7, <1>8, <1>9, CallsSame, Preserved

\* Every answer is an integer.
LEMMA ExposureInt ==
  ASSUME TypeOK, NEW holdings \in SUBSET Holding, IsFiniteSet(holdings)
  PROVE  Exposure(holdings) \in Int
  <1> DEFINE mark == [h \in Holding |-> MarkValue(positions[h], OutcomePrice(yes[h[1]], h[2]))]
  <1>1. ASSUME NEW h \in Holding PROVE mark[h] \in Int
    <2>1. h[1] \in Markets /\ h[2] \in Outcomes /\ positions[h] \in Nat
      BY DEF Holding, TypeOK
    <2>2. yes[h[1]] \in YesPrices
      BY <2>1 DEF TypeOK
    <2>3. PICK y \in Int : y = yes[h[1]]
      <3>1. 1..(BPS - 1) \subseteq Int
        OBVIOUS
      <3>2. yes[h[1]] \in Int
        BY <2>2, <3>1, AdmissionAssumption
      <3> QED BY <3>2
    <2>4. OutcomePrice(y, h[2]) \in Int
      BY DEF OutcomePrice, BPS
    <2>5. ASSUME NEW a \in Nat, NEW b \in Int PROVE MarkValue(a, b) \in Int
      BY SMT DEF MarkValue, BPS
    <2>6. MarkValue(positions[h], OutcomePrice(yes[h[1]], h[2])) \in Int
      BY <2>1, <2>3, <2>4, <2>5
    <2> QED BY <2>6
  <1>2. Exposure(holdings) = SumFunctionOnSet(mark, holdings)
    BY Zenon DEF Exposure
  <1> HIDE DEF mark
  <1>3. SumFunctionOnSet(mark, holdings) \in Int
    BY <1>1, SumInt
  <1> QED BY <1>2, <1>3

LEMMA AnswerInt ==
  ASSUME TypeOK, NEW p \in Payload, NEW question \in Asked
  PROVE  Answer(question, p) \in Int
  <1>1. p.market \in Markets /\ p.outcome \in Outcomes
    BY DEF Payload
  <1>2. Cardinality(Pending) \in Int /\ Cardinality(Recent) \in Int
    BY SetsFinite
  <1>3. Cash \in Int /\ Reserve \in Int
    BY SumsTell, BooksAreOfRows DEF TypeOK
  <1>4. positions[HoldingOf(p)] \in Int
    BY <1>1 DEF TypeOK, Holding, HoldingOf
  <1>5. IsFiniteSet(Outcomes) /\ IsFiniteSet(Markets) /\ IsFiniteSet({p.market})
    <2>1. Outcomes = {"yes"} \cup {"no"}
      BY DEF Outcomes
    <2>2. IsFiniteSet({"yes"}) /\ IsFiniteSet({"no"}) /\ IsFiniteSet({p.market})
      BY FS_Singleton
    <2>3. IsFiniteSet({"yes"} \cup {"no"})
      BY <2>2, FS_Union
    <2> QED BY <2>1, <2>2, <2>3, AdmissionAssumption
  <1>6. Exposure(Holding) \in Int
    <2>1. IsFiniteSet(Markets \X Outcomes)
      BY <1>5, FS_Product
    <2> QED BY <2>1, ExposureInt DEF Holding
  <1>7. Exposure({p.market} \X Outcomes) \in Int
    <2>1. IsFiniteSet({p.market} \X Outcomes)
      BY <1>5, FS_Product
    <2>2. {p.market} \X Outcomes \subseteq Holding
      BY <1>1 DEF Holding
    <2> QED BY <2>1, <2>2, ExposureInt
  <1>8. question \in {"openOrders", "ordersLastMinute", "marketExposure",
                      "totalExposure", "sellable", "cash", "openBuyNotional"}
    BY AdmissionAssumption
  <1> QED BY <1>2, <1>3, <1>4, <1>6, <1>7, <1>8 DEF Answer

\* One call more has counted, and less than the limit.
LEMMA RoomAsked ==
  ASSUME TypeOK, NEW question \in Asked, NEW limit \in Nat, NEW count \in Nat, NEW h \in Handlers,
         RoomForCleared(count, question, limit),
         ~Answered(h, question),
         Known(h, question)' \in Int, count <= Known(h, question)',
         \A g \in Handlers \ {h} : handler'[g] = handler[g]
  PROVE  count + Cardinality(Cleared(question, limit)') <= limit + Cardinality(Handlers) - 1
  <1> DEFINE C == Cleared(question, limit)
             D == {g \in Handlers : Answered(g, question)' /\ Known(g, question)' < limit}
  <1>1. C \in SUBSET Handlers /\ D \in SUBSET Handlers /\ Cleared(question, limit)' = D
    BY DEF Cleared
  <1>2. /\ Cardinality(C) \in Nat /\ Cardinality(D) \in Nat /\ IsFiniteSet(C)
        /\ Cardinality(D) <= Cardinality(Handlers) /\ Cardinality(Handlers) \in Nat
    BY <1>1, ClearedFinite, SetsFinite
  <1>3. CASE Known(h, question)' < limit
    BY <1>1, <1>2, <1>3
  <1>4. CASE ~(Known(h, question)' < limit)
    <2>1. D \subseteq C
      <3>1. ASSUME NEW g \in D PROVE g \in C
        <4>1. g \in Handlers /\ g # h
          BY <1>4, <3>1
        <4>2. handler'[g] = handler[g]
          BY <4>1
        <4> QED BY <3>1, <4>2 DEF Cleared, Answered, Known
      <3> QED BY <3>1
    <2>2. Cardinality(D) <= Cardinality(C)
      BY <1>2, <2>1, FS_Subset
    <2>3. count + Cardinality(C) <= limit + Cardinality(Handlers) - 1
      BY DEF RoomForCleared
    <2> HIDE DEF C, D
    <2> QED BY <1>1, <1>2, <2>2, <2>3
  <1> QED BY <1>3, <1>4

LEMMA AskIInv ==
  ASSUME IInv, NEW h \in Handlers, Ask(h)
  PROVE  IInv'
  <1> DEFINE D == DOMAIN handler[h].answers
             p == handler[h].payload
             left == {i \in DOMAIN Questions : Questions[i] \in Asked /\ Questions[i] \notin D}
  <1>1. TypeOK
    BY DEF IInv
  <1>2. PICK next \in left :
          /\ \A i \in left : next <= i
          /\ handler' = [handler EXCEPT ![h].answers =
               [question \in DOMAIN @ \cup {Questions[next]} |->
                  IF question \in DOMAIN @ THEN @[question]
                  ELSE Answer(question, handler[h].payload)]]
    BY DEF Ask, Answered
  <1>3. /\ handler[h].pc = "check" /\ yes' = yes /\ orders' = orders
        /\ positions' = positions /\ overtaken' = overtaken
    BY DEF Ask
  <1> DEFINE q == Questions[next]
             answers == [question \in D \cup {q} |->
                           IF question \in D THEN handler[h].answers[question]
                           ELSE Answer(question, p)]
  <1>4. q \in Asked /\ q \notin D /\ D \subseteq Asked /\ p \in Payload
    BY <1>1, HandlerTyped
  <1>5. answers \in [D \cup {q} -> Int] /\ answers[q] = Answer(q, p)
        /\ \A question \in D : answers[question] = handler[h].answers[question]
    <2>1. \A question \in D : handler[h].answers[question] \in Int
      BY <1>1, HandlerTyped
    <2>2. Answer(q, p) \in Int
      <3> HIDE DEF q, p
      <3> QED BY <1>1, <1>4, AnswerInt
    <2> HIDE DEF q, p, D
    <2> QED BY <1>4, <2>1, <2>2
  <1>6. PICK row : row = [handler[h] EXCEPT !.answers = answers]
    OBVIOUS
  <1>7. handler' = [handler EXCEPT ![h] = row]
    BY <1>2, <1>6
  <1> HIDE DEF answers
  <1>8. /\ row \in HandlerRow(D \cup {q}) /\ row.pc = "check"
        /\ row.answers = answers /\ DOMAIN row.answers = D \cup {q}
    <2>1. PICK known \in SUBSET Asked : handler[h] \in HandlerRow(known)
      BY <1>1, HandlerTyped
    <2> HIDE DEF q, D
    <2> QED BY <1>3, <1>5, <1>6, <2>1 DEF HandlerRow
  <1> HIDE DEF q, D, p, left
  <1>9. /\ DOMAIN handler' = Handlers /\ handler'[h] = row
        /\ \A g \in Handlers : \E k \in SUBSET Asked : handler'[g] \in HandlerRow(k)
        /\ \A g \in Handlers \ {h} : handler'[g] = handler[g]
    BY <1>1, <1>4, <1>7, <1>8, HandlerSet
  <1>10. TypeOK'
    BY <1>1, <1>3, <1>9 DEF TypeOK
  <1>11. OrdersOwned' /\ OrdersDiffer'
    <2>1. \A g \in Handlers : Waiting(g)' => g # h
      BY <1>8, <1>9 DEF Waiting
    <2>2. \A g \in Handlers : Waiting(g)' => /\ Waiting(g)
                                             /\ handler'[g].order = handler[g].order
                                             /\ handler'[g].payload = handler[g].payload
      BY <1>9, <2>1 DEF Waiting
    <2> QED BY <1>3, <2>2, OwnersSame
  <1>12. PendingUnpriced' /\ Pending' = Pending /\ Accepted' = Accepted
         /\ Cash' = Cash /\ Reserve' = Reserve
    BY <1>3, BooksAreOfRows DEF IInv, PendingUnpriced, Pending, Accepted
  <1>13. "openBuyNotional" \notin D
    <2>1. Answered(h, "openBuyNotional") => D = Asked
      BY DEF IInv, AnswersInOrder, D
    <2> QED BY <1>4, <2>1 DEF Answered, D
  <1>14. q = "openBuyNotional" => D \cup {q} = Asked
    <2> SUFFICES ASSUME q = "openBuyNotional", NEW a \in Asked PROVE a \in D \cup {q}
      BY <1>4
    <2>1. next = 7 /\ DOMAIN Questions = 1..7
      <3>1. next \in 1..7 /\ DOMAIN Questions = 1..7
        BY DEF left, Questions
      <3> QED BY <3>1 DEF q, Questions
    <2>2. PICK i \in 1..7 : Questions[i] = a
      <3>1. a \in {"openOrders", "ordersLastMinute", "marketExposure",
                   "totalExposure", "sellable", "cash", "openBuyNotional"}
        BY AdmissionAssumption
      <3> QED BY <3>1 DEF Questions
    <2>3. CASE i \in left
      BY <1>2, <2>1, <2>2, <2>3 DEF q
    <2>4. CASE i \notin left
      BY <2>1, <2>2, <2>4 DEF left
    <2> QED BY <2>3, <2>4
  <1>15. AnswersInOrder'
    <2>1. ASSUME NEW g \in Handlers
          PROVE  /\ handler'[g].pc # "check" => DOMAIN handler'[g].answers = {}
                 /\ "openBuyNotional" \in DOMAIN handler'[g].answers
                      => DOMAIN handler'[g].answers = Asked
      <3>1. CASE g = h
        BY <1>8, <1>9, <1>13, <1>14, <3>1
      <3>2. CASE g # h
        BY <1>9, <3>2 DEF IInv, AnswersInOrder, Answered
      <3> QED BY <3>1, <3>2
    <2> QED BY <2>1 DEF AnswersInOrder, Answered
  <1>16. ASSUME NEW question, question \in D \/ question \notin D \cup {q}, NEW limit
         PROVE  Cleared(question, limit)' = Cleared(question, limit)
    <2>1. \A g \in Handlers : Answered(g, question)' = Answered(g, question)
      BY <1>8, <1>9, <1>16 DEF Answered, D
    <2>2. \A g \in Handlers : Answered(g, question) => Known(g, question)' = Known(g, question)
      BY <1>5, <1>8, <1>9, <1>16 DEF Answered, Known, D
    <2> QED BY <2>1, <2>2 DEF Cleared
  <1>17. Known(h, q)' = Answer(q, p)
    BY <1>5, <1>8, <1>9 DEF Known
  <1>18. RoomForCleared(Cardinality(Pending), "openOrders", MaxOpenOrders)'
    <2>1. CASE q # "openOrders"
      <3>1. Cleared("openOrders", MaxOpenOrders)' = Cleared("openOrders", MaxOpenOrders)
        BY <1>16, <2>1
      <3> QED BY <1>12, <3>1 DEF IInv, RoomForCleared
    <2>2. CASE q = "openOrders"
      <3>1. Known(h, "openOrders")' = Cardinality(Pending)
        BY <1>17, <2>2 DEF Answer
      <3>2. ~Answered(h, "openOrders") /\ "openOrders" \in Asked
        BY <1>4, <2>2 DEF Answered, D
      <3>3. Cardinality(Pending) \in Nat /\ MaxOpenOrders \in Nat
            /\ RoomForCleared(Cardinality(Pending), "openOrders", MaxOpenOrders)
        BY <1>1, SetsFinite, AdmissionAssumption DEF IInv
      <3>4. Cardinality(Pending) + Cardinality(Cleared("openOrders", MaxOpenOrders)')
              <= MaxOpenOrders + Cardinality(Handlers) - 1
        BY <1>1, <1>9, <3>1, <3>2, <3>3, RoomAsked
      <3> QED BY <1>12, <3>4 DEF RoomForCleared
    <2> QED BY <2>1, <2>2
  <1>19. RoomForCleared(Cardinality(Accepted), "ordersLastMinute", MaxOrdersPerMinute)'
    <2>1. CASE q # "ordersLastMinute"
      <3>1. Cleared("ordersLastMinute", MaxOrdersPerMinute)' = Cleared("ordersLastMinute", MaxOrdersPerMinute)
        BY <1>16, <2>1
      <3> QED BY <1>12, <3>1 DEF IInv, RoomForCleared
    <2>2. CASE q = "ordersLastMinute"
      <3>1. Known(h, "ordersLastMinute")' = Cardinality(Recent)
        BY <1>17, <2>2 DEF Answer
      <3>2. ~Answered(h, "ordersLastMinute") /\ "ordersLastMinute" \in Asked
        BY <1>4, <2>2 DEF Answered, D
      <3>3. Cardinality(Accepted) \in Nat /\ MaxOrdersPerMinute \in Nat /\ Cardinality(Recent) \in Nat
            /\ RoomForCleared(Cardinality(Accepted), "ordersLastMinute", MaxOrdersPerMinute)
        BY <1>1, SetsFinite, AdmissionAssumption DEF IInv
      <3>4. Cardinality(Accepted) <= Cardinality(Recent)
        <4>1. Accepted \subseteq Recent
          BY DEF Accepted, Recent
        <4> QED BY <1>1, <4>1, SetsFinite, FS_Subset
      <3>5. Cardinality(Accepted) + Cardinality(Cleared("ordersLastMinute", MaxOrdersPerMinute)')
              <= MaxOrdersPerMinute + Cardinality(Handlers) - 1
        BY <1>1, <1>9, <3>1, <3>2, <3>3, <3>4, RoomAsked
      <3> QED BY <1>12, <3>5 DEF RoomForCleared
    <2> QED BY <2>1, <2>2
  <1>20. ReadingsHold'
    <2>1. ASSUME NEW g \in Handlers, g \notin overtaken, Answered(g, "cash")'
          PROVE  /\ ~Answered(g, "openBuyNotional")' => Known(g, "cash")' <= Cash
                 /\ Answered(g, "openBuyNotional")' =>
                      Reserve - Cash <= Known(g, "openBuyNotional")' - Known(g, "cash")'
      <3>0. Cash \in Int /\ Reserve \in Int
        BY <1>1, SumsTell, BooksAreOfRows DEF TypeOK
      <3>1. CASE g # h
        <4>1. handler'[g] = handler[g]
          BY <1>9, <3>1
        <4> QED BY <2>1, <4>1 DEF IInv, ReadingsHold, Answered, Known
      <3>2. CASE g = h /\ q = "cash"
        <4>1. Known(h, "cash")' = Cash
          BY <1>17, <3>2 DEF Answer
        <4>2. ~Answered(h, "openBuyNotional")'
          BY <1>8, <1>9, <1>13, <3>2 DEF Answered
        <4> QED BY <3>0, <3>2, <4>1, <4>2
      <3>3. CASE g = h /\ q = "openBuyNotional"
        <4>1. Known(h, "openBuyNotional")' = Reserve
          BY <1>17, <3>3 DEF Answer
        <4>2. Answered(h, "openBuyNotional")'
          BY <1>8, <1>9, <3>3 DEF Answered
        <4>3. "cash" \in D
          BY <1>8, <1>9, <2>1, <3>3 DEF Answered
        <4>4. Answered(h, "cash") /\ ~Answered(h, "openBuyNotional") /\ Known(h, "cash")' = Known(h, "cash")
          BY <1>5, <1>8, <1>9, <1>13, <4>3 DEF Answered, Known, D
        <4>5. Known(h, "cash") <= Cash /\ Known(h, "cash") \in Int
          BY <1>1, <2>1, <3>3, <4>4, HandlerTyped DEF IInv, ReadingsHold, Answered, Known
        <4>6. Reserve - Cash <= Reserve - Known(h, "cash")
          BY <3>0, <4>5
        <4> QED BY <3>3, <4>1, <4>2, <4>4, <4>6
      <3>4. CASE g = h /\ q # "cash" /\ q # "openBuyNotional"
        <4>1. "cash" \in D /\ ~Answered(h, "openBuyNotional")'
          BY <1>8, <1>9, <1>13, <2>1, <3>4 DEF Answered
        <4>2. Answered(h, "cash") /\ ~Answered(h, "openBuyNotional") /\ Known(h, "cash")' = Known(h, "cash")
          BY <1>5, <1>8, <1>9, <1>13, <4>1 DEF Answered, Known, D
        <4>3. Known(h, "cash") <= Cash
          BY <2>1, <3>4, <4>2 DEF IInv, ReadingsHold
        <4> QED BY <3>4, <4>1, <4>2, <4>3
      <3> QED BY <3>1, <3>2, <3>3, <3>4
    <2> QED BY <1>3, <1>12, <2>1 DEF ReadingsHold
  <1> QED BY <1>10, <1>11, <1>12, <1>15, <1>18, <1>19, <1>20 DEF IInv

\* A row is added, of the call's own payload and without a fill.
LEMMA RowAdded ==
  ASSUME TypeOK, NEW h \in Handlers, NEW status \in {"submitted", "rejected"},
         orders' = Append(orders, NewRow(h, status))
  PROVE  /\ orders' \in Seq(OrderRow) /\ DOMAIN orders' = DOMAIN orders \cup {Len(orders) + 1}
         /\ Len(orders) \in Nat /\ Len(orders) + 1 \notin DOMAIN orders
         /\ orders'[Len(orders) + 1] = NewRow(h, status)
         /\ \A o \in DOMAIN orders : orders'[o] = orders[o]
         /\ NewRow(h, status) \in OrderRow
         /\ NewRow(h, status).status = status /\ NewRow(h, status).price = 0
         /\ NewRow(h, status).payload = handler[h].payload
         /\ NetOf(orders') = NetOf(orders)
         /\ ClaimOf(orders') = ClaimOf(orders)
              + IF status = "submitted" /\ handler[h].payload.action = "buy"
                THEN handler[h].payload.amount ELSE 0
  <1>1. PICK row : row = NewRow(h, status)
    OBVIOUS
  <1>2. /\ row \in OrderRow /\ row.status = status /\ row.price = 0
        /\ row.payload = handler[h].payload
    <2>1. handler[h].payload \in Payloads
      BY HandlerTyped
    <2>2. 0 \in 0..BPS
      BY DEF BPS
    <2> QED BY <1>1, <2>1, <2>2 DEF NewRow, OrderRow
  <1>3. orders \in Seq(OrderRow)
    BY DEF TypeOK
  <1>4. Len(orders) \in Nat /\ DOMAIN orders = 1..Len(orders)
    BY <1>3, RowsTyped
  <1>5. /\ orders' = Append(orders, row) /\ orders' \in Seq(OrderRow)
        /\ Len(orders') = Len(orders) + 1
        /\ orders'[Len(orders) + 1] = row
        /\ \A o \in 1..Len(orders) : orders'[o] = orders[o]
    BY <1>1, <1>2, <1>3, SMT
  <1>6. DOMAIN orders' = DOMAIN orders \cup {Len(orders) + 1} /\ Len(orders) + 1 \notin DOMAIN orders
    <2>1. DOMAIN orders' = 1..(Len(orders) + 1)
      BY <1>5, RowsTyped
    <2>2. PICK n \in Nat : n = Len(orders)
      BY <1>4
    <2>3. 1..(n + 1) = (1..n) \cup {n + 1} /\ n + 1 \notin 1..n
      OBVIOUS
    <2> QED BY <1>4, <2>1, <2>2, <2>3
  <1>7. /\ NetOf(orders') = NetOf(orders) + Net(row)
        /\ ClaimOf(orders') = ClaimOf(orders) + Claim(row)
    BY <1>2, <1>3, <1>5, SumsAppend
  <1>8. Net(row) = 0 /\ row.payload.amount \in Nat
    BY <1>2, RowTyped DEF Net, Earned, Spent
  <1>9. Claim(row) = IF status = "submitted" /\ handler[h].payload.action = "buy"
                     THEN handler[h].payload.amount ELSE 0
    BY <1>2, <1>8 DEF Claim, Owed, Pendings
  <1>10. NetOf(orders) \in Int
    BY <1>3, SumsInt
  <1>11. NetOf(orders') = NetOf(orders)
    BY <1>7, <1>8, <1>10
  <1> QED BY <1>1, <1>2, <1>4, <1>5, <1>6, <1>7, <1>9, <1>11

LEMMA CreateRejectedIInv ==
  ASSUME IInv, NEW h \in Handlers, CreateRejected(h)
  PROVE  IInv'
  <1> DEFINE N == Len(orders) + 1
  <1>1. TypeOK
    BY DEF IInv
  <1>2. PICK row \in HandlerRow({}) :
          /\ row = Idle(handler[h].payload) /\ row.pc = "idle" /\ DOMAIN row.answers = {}
    BY <1>1, HandlerTyped, IdleTyped
  <1>3. /\ handler' = [handler EXCEPT ![h] = row] /\ overtaken' = overtaken
        /\ yes' = yes /\ positions' = positions
        /\ orders' = Append(orders, NewRow(h, "rejected"))
    BY <1>1, <1>2 DEF CreateRejected, TypeOK
  <1>4. /\ DOMAIN handler' = Handlers /\ handler'[h] = row
        /\ \A g \in Handlers : \E k \in SUBSET Asked : handler'[g] \in HandlerRow(k)
        /\ \A g \in Handlers \ {h} : handler'[g] = handler[g]
    BY <1>1, <1>2, <1>3, HandlerSet
  <1>5. /\ orders' \in Seq(OrderRow) /\ DOMAIN orders' = DOMAIN orders \cup {N}
        /\ N \notin DOMAIN orders /\ orders'[N].status = "rejected"
        /\ \A o \in DOMAIN orders : orders'[o] = orders[o]
        /\ NetOf(orders') = NetOf(orders) /\ ClaimOf(orders') = ClaimOf(orders) + 0
    BY <1>1, <1>3, RowAdded
  <1> HIDE DEF N
  <1>6. TypeOK'
    BY <1>1, <1>3, <1>4, <1>5 DEF TypeOK
  <1>7. OrdersOwned' /\ OrdersDiffer'
    <2>1. \A g \in Handlers : Waiting(g)' => g # h
      BY <1>2, <1>4 DEF Waiting
    <2>2. \A g \in Handlers : Waiting(g)' =>
             /\ Waiting(g)
             /\ handler'[g].order = handler[g].order
             /\ handler'[g].payload = handler[g].payload
             /\ handler[g].order \in DOMAIN orders
      BY <1>4, <2>1 DEF Waiting, IInv, OrdersOwned
    <2> QED BY <1>5, <2>2, OwnersKeep
  <1>8. Pending' = Pending /\ Accepted' = Accepted
    BY <1>5 DEF Pending, Accepted
  <1>9. PendingUnpriced'
    BY <1>5, <1>8 DEF IInv, PendingUnpriced, Pending
  <1>10. Reserve' - Cash' <= Reserve - Cash /\ Cash <= Cash'
    <2>1. /\ Cash = InitialBalance + NetOf(orders)
          /\ Reserve - Cash = ClaimOf(orders) - InitialBalance
          /\ Cash' = InitialBalance + NetOf(orders')
          /\ Reserve' - Cash' = ClaimOf(orders') - InitialBalance
      BY <1>1, <1>5, SumsTell, BooksAreOfRows DEF TypeOK
    <2>2. NetOf(orders) \in Int /\ ClaimOf(orders) \in Int /\ InitialBalance \in Int
      BY <1>1, SumsInt, AdmissionAssumption DEF TypeOK
    <2> QED BY <1>5, <2>1, <2>2
  <1>11. \A g \in Handlers :
           \/ /\ handler'[g].answers = handler[g].answers
              /\ handler'[g].pc = handler[g].pc
              /\ g \in overtaken => g \in overtaken'
           \/ DOMAIN handler'[g].answers = {}
    BY <1>2, <1>3, <1>4
  <1>12. Cardinality(Pending') <= Cardinality(Pending) /\ Cardinality(Accepted') <= Cardinality(Accepted)
    BY <1>1, <1>8, SetsFinite
  <1> QED BY <1>6, <1>7, <1>9, <1>10, <1>11, <1>12, Preserved

\* A call that was cleared adds its order and is not cleared any more.
LEMMA RoomTaken ==
  ASSUME TypeOK, NEW question, NEW limit \in Nat, NEW count \in Nat, NEW after \in Nat,
         NEW h \in Handlers,
         RoomForCleared(count, question, limit),
         question \in Asked => h \in Cleared(question, limit),
         after <= count + 1,
         DOMAIN handler'[h].answers = {},
         \A g \in Handlers \ {h} : handler'[g] = handler[g]
  PROVE  question \in Asked =>
           after + Cardinality(Cleared(question, limit)') <= limit + Cardinality(Handlers) - 1
  <1> SUFFICES ASSUME question \in Asked
               PROVE  after + Cardinality(Cleared(question, limit)')
                        <= limit + Cardinality(Handlers) - 1
    OBVIOUS
  <1> DEFINE C == Cleared(question, limit)
             D == {g \in Handlers : Answered(g, question)' /\ Known(g, question)' < limit}
  <1>1. C \in SUBSET Handlers /\ D \in SUBSET Handlers /\ Cleared(question, limit)' = D /\ h \in C
    BY DEF Cleared
  <1>2. D \subseteq C \ {h}
    <2>1. ASSUME NEW g \in D PROVE g \in C \ {h}
      <3>1. g \in Handlers /\ g # h
        BY <2>1 DEF Answered
      <3>2. handler'[g] = handler[g]
        BY <3>1
      <3> QED BY <2>1, <3>1, <3>2 DEF Cleared, Answered, Known
    <2> QED BY <2>1
  <1> HIDE DEF C, D
  <1>3. /\ IsFiniteSet(C) /\ Cardinality(C) \in Nat /\ Cardinality(D) \in Nat
        /\ Cardinality(Handlers) \in Nat
    BY <1>1, ClearedFinite, SetsFinite
  <1>4. IsFiniteSet(C \ {h}) /\ Cardinality(C \ {h}) = Cardinality(C) - 1
    BY <1>1, <1>3, FS_RemoveElement
  <1>5. Cardinality(D) <= Cardinality(C \ {h})
    BY <1>2, <1>4, FS_Subset
  <1>6. count + Cardinality(C) <= limit + Cardinality(Handlers) - 1
    BY DEF RoomForCleared, C
  <1> QED BY <1>1, <1>3, <1>4, <1>5, <1>6

\* What admission tells of the readings: the counts are under their limits, and
\* the cash covers the reserve and a buy.
LEMMA AdmittedReadings ==
  ASSUME TypeOK, NEW h \in Handlers, Decided(h), Admits(h)
  PROVE  /\ "openOrders" \in Asked => h \in Cleared("openOrders", MaxOpenOrders)
         /\ "ordersLastMinute" \in Asked => h \in Cleared("ordersLastMinute", MaxOrdersPerMinute)
         /\ handler[h].payload.action = "buy" /\ {"cash", "openBuyNotional"} \subseteq Asked =>
              /\ Answered(h, "cash") /\ Answered(h, "openBuyNotional")
              /\ handler[h].payload.amount + Known(h, "openBuyNotional") <= Known(h, "cash")
  BY DEF Decided, Admits, Cleared, Under, Affords, Answered

\* An admitted buy is promised beyond the cash, and nothing else changes.
LEMMA CreateSubmittedCosts ==
  ASSUME TypeOK, NEW h \in Handlers, CreateSubmitted(h)
  PROVE  /\ Cash' = Cash /\ Cash \in Int /\ Reserve \in Int /\ Reserve' \in Int
         /\ handler[h].payload.amount \in Nat
         /\ Reserve' - Cash' = Reserve - Cash + IF handler[h].payload.action = "buy"
                                                THEN handler[h].payload.amount ELSE 0
  <1> DEFINE p == handler[h].payload
             cost == IF p.action = "buy" THEN p.amount ELSE 0
  <1>1. /\ orders' \in Seq(OrderRow)
        /\ NetOf(orders') = NetOf(orders) /\ ClaimOf(orders') = ClaimOf(orders) + cost
    BY RowAdded DEF CreateSubmitted
  <1>2. /\ Cash = InitialBalance + NetOf(orders)
        /\ Reserve - Cash = ClaimOf(orders) - InitialBalance
        /\ Cash' = InitialBalance + NetOf(orders')
        /\ Reserve' - Cash' = ClaimOf(orders') - InitialBalance
        /\ Cash \in Int /\ Reserve \in Int /\ Reserve' \in Int
    BY <1>1, SumsTell, BooksAreOfRows DEF TypeOK
  <1>3. NetOf(orders) \in Int /\ ClaimOf(orders) \in Int /\ InitialBalance \in Int
    BY SumsInt, AdmissionAssumption DEF TypeOK
  <1>4. p.amount \in Nat /\ cost \in Int
    <2>1. p.amount \in Nat
      BY HandlerTyped DEF Payload
    <2> QED BY <2>1
  <1> HIDE DEF cost
  <1>5. Cash' = Cash /\ Reserve' - Cash' = Reserve - Cash + cost
    BY <1>1, <1>2, <1>3, <1>4
  <1> QED BY <1>2, <1>4, <1>5 DEF cost

LEMMA CreateSubmittedIInv ==
  ASSUME IInv, NEW h \in Handlers, CreateSubmitted(h)
  PROVE  IInv'
  <1> DEFINE N == Len(orders) + 1
             p == handler[h].payload
             cost == IF p.action = "buy" THEN p.amount ELSE 0
  <1>1. TypeOK
    BY DEF IInv
  <1>2. /\ Decided(h) /\ Admits(h) /\ Len(orders) < MaxOrders
        /\ yes' = yes /\ positions' = positions
        /\ orders' = Append(orders, NewRow(h, "submitted"))
        /\ overtaken' = IF p.action = "buy" THEN overtaken \cup (KnowReserve \ {h}) ELSE overtaken
        /\ handler' = [handler EXCEPT ![h].pc = "place", ![h].answers = <<>>, ![h].order = N]
    BY DEF CreateSubmitted
  <1>3. /\ orders' \in Seq(OrderRow) /\ DOMAIN orders' = DOMAIN orders \cup {N}
        /\ Len(orders) \in Nat /\ N \notin DOMAIN orders
        /\ orders'[N].status = "submitted" /\ orders'[N].price = 0 /\ orders'[N].payload = p
        /\ \A o \in DOMAIN orders : orders'[o] = orders[o]
        /\ NetOf(orders') = NetOf(orders) /\ ClaimOf(orders') = ClaimOf(orders) + cost
    BY <1>1, <1>2, RowAdded
  <1>4. PICK row : row = [handler[h] EXCEPT !.pc = "place", !.answers = <<>>, !.order = N]
    OBVIOUS
  <1>5. /\ row \in HandlerRow({}) /\ row.pc = "place" /\ DOMAIN row.answers = {}
        /\ row.order = N /\ row.payload = p
    <2>1. PICK known \in SUBSET Asked : handler[h] \in HandlerRow(known)
      BY <1>1, HandlerTyped
    <2>2. <<>> \in [{} -> Int] /\ DOMAIN <<>> = {}
      BY SMT
    <2>3. N \in 0..MaxOrders
      BY <1>2, <1>3, AdmissionAssumption
    <2> HIDE DEF N
    <2> QED BY <1>4, <2>1, <2>2, <2>3 DEF HandlerRow
  <1>6. handler' = [handler EXCEPT ![h] = row]
    BY <1>1, <1>2, <1>4 DEF TypeOK
  <1> HIDE DEF N
  <1>7. /\ DOMAIN handler' = Handlers /\ handler'[h] = row
        /\ \A g \in Handlers : \E k \in SUBSET Asked : handler'[g] \in HandlerRow(k)
        /\ \A g \in Handlers \ {h} : handler'[g] = handler[g]
    BY <1>1, <1>5, <1>6, HandlerSet
  <1>8. overtaken \subseteq overtaken' /\ overtaken' \subseteq Handlers
    BY <1>1, <1>2 DEF TypeOK, KnowReserve
  <1>9. TypeOK'
    BY <1>1, <1>2, <1>3, <1>7, <1>8 DEF TypeOK
  <1>10. OrdersOwned'
    <2>1. ASSUME NEW g \in Handlers, Waiting(g)'
          PROVE  /\ handler'[g].order \in DOMAIN orders'
                 /\ orders'[handler'[g].order].status = "submitted"
                 /\ orders'[handler'[g].order].payload = handler'[g].payload
      <3>1. CASE g = h
        BY <1>3, <1>5, <1>7, <3>1
      <3>2. CASE g # h
        BY <1>3, <1>7, <2>1, <3>2 DEF IInv, OrdersOwned, Waiting
      <3> QED BY <3>1, <3>2
    <2> QED BY <2>1 DEF OrdersOwned
  <1>11. OrdersDiffer'
    <2>1. \A g \in Handlers \ {h} : Waiting(g)' => handler'[g].order # N
      BY <1>3, <1>7 DEF IInv, OrdersOwned, Waiting
    <2>2. \A f, g \in Handlers \ {h} : Waiting(f)' /\ Waiting(g)' /\ f # g
                                       => handler'[f].order # handler'[g].order
      BY <1>7 DEF IInv, OrdersDiffer, Waiting
    <2> QED BY <1>5, <1>7, <2>1, <2>2 DEF OrdersDiffer
  <1>12. Pending' = Pending \cup {N} /\ Accepted' \subseteq Accepted \cup {N}
    BY <1>3 DEF Pending, Accepted
  <1>13. PendingUnpriced'
    <2>1. \A o \in Pending : o \in DOMAIN orders
      BY DEF Pending
    <2> QED BY <1>3, <1>12, <2>1 DEF IInv, PendingUnpriced
  <1>14. /\ Cardinality(Pending') \in Nat /\ Cardinality(Pending') <= Cardinality(Pending) + 1
         /\ Cardinality(Accepted') \in Nat /\ Cardinality(Accepted') <= Cardinality(Accepted) + 1
         /\ Cardinality(Pending) \in Nat /\ Cardinality(Accepted) \in Nat
    <2>1. /\ IsFiniteSet(Pending) /\ Cardinality(Pending) \in Nat
          /\ IsFiniteSet(Accepted) /\ Cardinality(Accepted) \in Nat
      BY <1>1, SetsFinite
    <2>2. /\ IsFiniteSet(Pending \cup {N}) /\ Cardinality(Pending \cup {N}) <= Cardinality(Pending) + 1
          /\ IsFiniteSet(Accepted \cup {N}) /\ Cardinality(Accepted \cup {N}) <= Cardinality(Accepted) + 1
      <3>1. ASSUME NEW S, IsFiniteSet(S), Cardinality(S) \in Nat
            PROVE  IsFiniteSet(S \cup {N}) /\ Cardinality(S \cup {N}) <= Cardinality(S) + 1
        <4>1. /\ IsFiniteSet(S \cup {N})
              /\ Cardinality(S \cup {N}) = IF N \in S THEN Cardinality(S) ELSE Cardinality(S) + 1
          BY <3>1, FS_AddElement, Zenon
        <4> QED BY <3>1, <4>1
      <3> QED BY <2>1, <3>1
    <2>3. IsFiniteSet(Accepted') /\ Cardinality(Accepted') <= Cardinality(Accepted \cup {N})
      BY <1>12, <2>2, FS_Subset
    <2>4. /\ Cardinality(Accepted \cup {N}) \in Nat /\ Cardinality(Accepted') \in Nat
          /\ Cardinality(Pending \cup {N}) \in Nat
      BY <2>2, <2>3, FS_CardinalityType
    <2> QED BY <1>12, <2>1, <2>2, <2>3, <2>4
  <1>15. /\ "openOrders" \in Asked => h \in Cleared("openOrders", MaxOpenOrders)
         /\ "ordersLastMinute" \in Asked => h \in Cleared("ordersLastMinute", MaxOrdersPerMinute)
    BY <1>1, <1>2, AdmittedReadings
  <1>16. MaxOpenOrders \in Nat /\ MaxOrdersPerMinute \in Nat /\ DOMAIN handler'[h].answers = {}
    BY <1>5, <1>7, AdmissionAssumption
  <1>17. RoomForCleared(Cardinality(Pending), "openOrders", MaxOpenOrders)'
    <2>1. RoomForCleared(Cardinality(Pending), "openOrders", MaxOpenOrders)
      BY DEF IInv
    <2>2. "openOrders" \in Asked =>
            Cardinality(Pending') + Cardinality(Cleared("openOrders", MaxOpenOrders)')
              <= MaxOpenOrders + Cardinality(Handlers) - 1
      BY <1>1, <1>7, <1>14, <1>15, <1>16, <2>1, RoomTaken
    <2> QED BY <2>2 DEF RoomForCleared
  <1>18. RoomForCleared(Cardinality(Accepted), "ordersLastMinute", MaxOrdersPerMinute)'
    <2>1. RoomForCleared(Cardinality(Accepted), "ordersLastMinute", MaxOrdersPerMinute)
      BY DEF IInv
    <2>2. "ordersLastMinute" \in Asked =>
            Cardinality(Accepted') + Cardinality(Cleared("ordersLastMinute", MaxOrdersPerMinute)')
              <= MaxOrdersPerMinute + Cardinality(Handlers) - 1
      BY <1>1, <1>7, <1>14, <1>15, <1>16, <2>1, RoomTaken
    <2> QED BY <2>2 DEF RoomForCleared
  <1>19. AnswersInOrder'
    <2>1. ASSUME NEW g \in Handlers
          PROVE  /\ handler'[g].pc # "check" => DOMAIN handler'[g].answers = {}
                 /\ "openBuyNotional" \in DOMAIN handler'[g].answers
                      => DOMAIN handler'[g].answers = Asked
      <3>1. CASE g = h
        BY <1>16, <3>1
      <3>2. CASE g # h
        BY <1>7, <3>2 DEF IInv, AnswersInOrder, Answered
      <3> QED BY <3>1, <3>2
    <2> QED BY <2>1 DEF AnswersInOrder, Answered
  <1>20. Cash' = Cash /\ Reserve' - Cash' = Reserve - Cash + cost /\ Cash \in Int /\ Reserve \in Int
    BY <1>1, CreateSubmittedCosts
  <1>21. ReadingsHold'
    <2>1. ASSUME NEW g \in Handlers, g \notin overtaken', Answered(g, "cash")'
          PROVE  /\ ~Answered(g, "openBuyNotional")' => Known(g, "cash")' <= Cash'
                 /\ Answered(g, "openBuyNotional")' =>
                      Reserve' - Cash' <= Known(g, "openBuyNotional")' - Known(g, "cash")'
      <3>1. g # h
        BY <1>16, <2>1 DEF Answered
      <3>2. handler'[g] = handler[g] /\ g \notin overtaken
        BY <1>7, <1>8, <2>1, <3>1
      <3>3. Answered(g, "openBuyNotional") => p.action # "buy"
        <4>1. Answered(g, "openBuyNotional") => Decided(g)
          BY DEF IInv, AnswersInOrder, Decided, Answered
        <4> QED BY <1>2, <2>1, <3>1, <4>1 DEF KnowReserve
      <3>4. Answered(g, "openBuyNotional") => Reserve' - Cash' = Reserve - Cash
        BY <1>20, <3>3
      <3>5. /\ ~Answered(g, "openBuyNotional") => Known(g, "cash") <= Cash
            /\ Answered(g, "openBuyNotional") =>
                 Reserve - Cash <= Known(g, "openBuyNotional") - Known(g, "cash")
        BY <2>1, <3>2 DEF IInv, ReadingsHold, Answered
      <3> QED BY <1>20, <3>2, <3>4, <3>5 DEF Answered, Known
    <2> QED BY <2>1 DEF ReadingsHold
  <1> QED BY <1>9, <1>10, <1>11, <1>13, <1>17, <1>18, <1>19, <1>21 DEF IInv

\* Every step preserves the invariant.
LEMMA NextIInv == ASSUME IInv, [Next]_vars PROVE IInv'
  <1>1. CASE UNCHANGED vars
    <2> USE <1>1 DEF vars
    <2>1. TypeOK'
      BY DEF IInv, TypeOK
    <2>2. OrdersOwned' /\ OrdersDiffer'
      BY OwnersSame DEF Waiting
    <2> QED BY <2>1, <2>2, CallsSame, RowsSame, Preserved
  <1>2. ASSUME NEW h \in Handlers, Handle(h) PROVE IInv'
    <2>1. CASE \E p \in Payloads : Receive(h, p)
      BY <2>1, ReceiveIInv
    <2>2. CASE Ask(h)
      BY <2>2, AskIInv
    <2>3. CASE CreateSubmitted(h)
      BY <2>3, CreateSubmittedIInv
    <2>4. CASE CreateRejected(h)
      BY <2>4, CreateRejectedIInv
    <2>5. CASE PlaceAtVenue(h)
      BY <2>5, PlaceAtVenueIInv
    <2>6. CASE RecordDispatch(h)
      BY <2>6, RecordDispatchIInv
    <2>7. CASE Abort(h)
      BY <2>7, AbortIInv
    <2> QED BY <1>2, <2>1, <2>2, <2>3, <2>4, <2>5, <2>6, <2>7 DEF Handle
  <1>3. CASE \E o \in DOMAIN orders : CancelOrder(o) \/ LeaveWindow(o)
    BY <1>3, CancelOrderIInv, LeaveWindowIInv
  <1>4. CASE AdvanceMarkets
    BY <1>4, AdvanceMarketsIInv
  <1>5. CASE FillOpenOrders
    BY <1>5, FillOpenOrdersIInv
  <1> QED BY <1>1, <1>2, <1>3, <1>4, <1>5 DEF Next

-----------------------------------------------------------------------------
(***************************************************************************)
(* The theorems                                                            *)
(***************************************************************************)
\* The invariant holds in every reachable state.
THEOREM Invariance == Spec => []IInv
  <1>1. Init => IInv
    BY InitIInv
  <1>2. IInv /\ [Next]_vars => IInv'
    BY NextIInv
  <1> QED BY <1>1, <1>2, PTL DEF Spec

\* The rows, the positions (never negative: no sell is filled beyond what is
\* held) and the calls keep their types.
THEOREM TypeCorrect == Spec => []TypeOK
  <1>1. IInv => TypeOK
    BY DEF IInv
  <1> QED BY <1>1, Invariance, PTL

\* When the team's open orders are counted at all, concurrency exceeds their
\* limit by no more than the number of concurrent calls less one, for any
\* number of calls, orders and interleavings.
THEOREM OpenOrdersStayBounded ==
  ASSUME "openOrders" \in Asked
  PROVE  Spec => []OpenOrdersBounded
  <1>1. ASSUME IInv PROVE OpenOrdersBounded
    <2>1. Cardinality(Pending) + Cardinality(Cleared("openOrders", MaxOpenOrders))
            <= MaxOpenOrders + Cardinality(Handlers) - 1
      BY <1>1 DEF IInv, RoomForCleared
    <2>2. Cardinality(Cleared("openOrders", MaxOpenOrders)) \in Nat
      <3>1. Cleared("openOrders", MaxOpenOrders) \in SUBSET Handlers
        BY DEF Cleared
      <3> QED BY <3>1, ClearedFinite
    <2>3. Cardinality(Pending) \in Nat /\ Cardinality(Handlers) \in Nat /\ MaxOpenOrders \in Nat
      BY <1>1, SetsFinite, AdmissionAssumption DEF IInv
    <2> QED BY <2>1, <2>2, <2>3 DEF OpenOrdersBounded
  <1> QED BY <1>1, Invariance, PTL

\* The same for the orders that were let through in the last minute.
THEOREM AcceptedRateStaysBounded ==
  ASSUME "ordersLastMinute" \in Asked
  PROVE  Spec => []AcceptedRateBounded
  <1>1. ASSUME IInv PROVE AcceptedRateBounded
    <2>1. Cardinality(Accepted) + Cardinality(Cleared("ordersLastMinute", MaxOrdersPerMinute))
            <= MaxOrdersPerMinute + Cardinality(Handlers) - 1
      BY <1>1 DEF IInv, RoomForCleared
    <2>2. Cardinality(Cleared("ordersLastMinute", MaxOrdersPerMinute)) \in Nat
      <3>1. Cleared("ordersLastMinute", MaxOrdersPerMinute) \in SUBSET Handlers
        BY DEF Cleared
      <3> QED BY <3>1, ClearedFinite
    <2>3. Cardinality(Accepted) \in Nat /\ Cardinality(Handlers) \in Nat /\ MaxOrdersPerMinute \in Nat
      BY <1>1, SetsFinite, AdmissionAssumption DEF IInv
    <2>4. Cardinality(Accepted) <= MaxOrdersPerMinute + Cardinality(Handlers) - 1
      BY <2>1, <2>2, <2>3
    <2> QED BY <2>4 DEF AcceptedRateBounded, Accepted
  <1> QED BY <1>1, Invariance, PTL

\* The check reads cash and reserve in two statements and does not look again,
\* and yet an admitted buy leaves the cash for all pending buys, unless another
\* buy of the team was paid for between the two readings or created after them.
THEOREM AdmittedStaysAffordable ==
  ASSUME {"cash", "openBuyNotional"} \subseteq Asked
  PROVE  Spec => AdmittedIsAffordable
  <1>1. ASSUME IInv, NEW h \in Handlers \ overtaken, CreateSubmitted(h),
               handler[h].payload.action = "buy"
        PROVE  Reserve' <= Cash'
    <2>1. TypeOK /\ Decided(h) /\ Admits(h)
      BY <1>1 DEF IInv, CreateSubmitted
    <2>2. /\ Answered(h, "cash") /\ Answered(h, "openBuyNotional")
          /\ handler[h].payload.amount + Known(h, "openBuyNotional") <= Known(h, "cash")
      BY <1>1, <2>1, AdmittedReadings
    <2>3. Reserve - Cash <= Known(h, "openBuyNotional") - Known(h, "cash")
      BY <1>1, <2>2 DEF IInv, ReadingsHold
    <2>4. Known(h, "cash") \in Int /\ Known(h, "openBuyNotional") \in Int
      BY <1>1, <2>1, <2>2, HandlerTyped DEF Known, Answered
    <2>5. /\ Cash' = Cash /\ Cash \in Int /\ Reserve \in Int /\ Reserve' \in Int
          /\ handler[h].payload.amount \in Nat
          /\ Reserve' - Cash' = Reserve - Cash + handler[h].payload.amount
      BY <1>1, <2>1, CreateSubmittedCosts
    <2> QED BY <2>2, <2>3, <2>4, <2>5
  <1>2. IInv => [\A h \in Handlers \ overtaken :
                   CreateSubmitted(h) /\ handler[h].payload.action = "buy"
                     => Reserve' <= Cash']_vars
    BY <1>1
  <1> QED BY <1>2, Invariance, PTL DEF AdmittedIsAffordable

=============================================================================
