----------------------------- MODULE MCMarkets -----------------------------
(***************************************************************************)
(* A small instance of Markets: prices by hand, zero and a closed market   *)
(* among them, and a path that comes down to the limit of the buys.        *)
(***************************************************************************)
EXTENDS Markets

TwoMarkets == {1, 2}

Path == <<60, 50>>

SomeInputs == {[status |-> "open", price |-> 60, path |-> Path],
               [status |-> "open", price |-> 0, path |-> <<>>],
               [status |-> "closed", price |-> 60, path |-> <<>>]}
=============================================================================
