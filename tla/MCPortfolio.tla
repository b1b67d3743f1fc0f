---------------------------- MODULE MCPortfolio ----------------------------
(***************************************************************************)
(* A small instance of Portfolio.                                          *)
(***************************************************************************)
EXTENDS Portfolio, TLC

TwoPrices == {4000, 8000}

\* As .5Z sorts after .51Z.
MixedOrder == [t \in 0..MaxTime |-> CASE t = 0 -> 1 [] t = 1 -> 0 [] OTHER -> t]

Interchangeable == Permutations(Writers)
=============================================================================
