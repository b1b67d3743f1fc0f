---------------------------- MODULE MCAdmission ----------------------------
(***************************************************************************)
(* Small instances of Admission.                                           *)
(***************************************************************************)
EXTENDS Admission, TLC

CONSTANTS m1

\* Three cents' worth, at up to 50%.
Buy3 == [market |-> m1, action |-> "buy", outcome |-> "yes", amount |-> 3, limit |-> 5000]

\* Some of what it gives at 40%, at 39% and more.
Sell2 == [Buy3 EXCEPT !.action = "sell", !.amount = 2, !.limit = 3900]

BuyAndSell == {Buy3, Sell2}
TwoPrices  == {4000, 6000}

Interchangeable == Permutations(Handlers)
=============================================================================
