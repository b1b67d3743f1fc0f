--------------------------- MODULE MCLeaderboard ---------------------------
(***************************************************************************)
(* A small instance of Leaderboard.                                        *)
(***************************************************************************)
EXTENDS Leaderboard

TwoTeams == {1, 2}
=============================================================================
