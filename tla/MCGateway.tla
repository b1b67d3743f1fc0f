----------------------------- MODULE MCGateway -----------------------------
(***************************************************************************)
(* A small instance of Gateway: an order and a heartbeat.                  *)
(***************************************************************************)
EXTENDS Gateway

CONSTANTS o1, h1

SomeCalls == {o1, h1}
=============================================================================
