--------------------------- MODULE MCRoundControl ---------------------------
(***************************************************************************)
(* Small instances of RoundControl.                                        *)
(***************************************************************************)
EXTENDS RoundControl, TLC

CONSTANTS t1, a1, a2

\* One agent, or two of one team.
OneAgent == a1 :> t1
SameTeam == a1 :> t1 @@ a2 :> t1

Interchangeable == Permutations(Calls) \cup Permutations(Requests)
=============================================================================
