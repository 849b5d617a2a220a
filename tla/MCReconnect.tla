------------------------------ MODULE MCReconnect ------------------------------
(* An instance of Reconnect for TLC.                                       *)
EXTENDS Reconnect

CONSTANTS c1, c2, c3
ThreeCalls == {c1, c2, c3}
=============================================================================
