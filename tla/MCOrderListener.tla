---------------------------- MODULE MCOrderListener ----------------------------
(* An instance of OrderListener for TLC.                                   *)
EXTENDS OrderListener

CONSTANTS w1, w2
TwoWorkers == {w1, w2}
=============================================================================
