------------------------------ MODULE MCTxOutbox ------------------------------
(* Instances of TxOutbox small enough for TLC.                             *)
EXTENDS TxOutbox, TLC

CONSTANTS r1, r2, w1, w2

TwoRequests == {r1, r2}
OneWorker == {w1}
TwoWorkers == {w1, w2}
BothContracts == Kinds
BlogContractOnly == {"BlogCreated"}

AllAlike == Permutations(TwoRequests) \cup Permutations(TwoWorkers)
=============================================================================
