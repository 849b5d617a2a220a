----------------------------- MODULE MCRelayCluster -----------------------------
(* Instances of RelayCluster small enough for TLC.                         *)
EXTENDS RelayCluster

CONSTANTS n1, n2

TwoNodes == {n1, n2}
=============================================================================
