------------------------------ MODULE MCOrderSaga ------------------------------
(* Instances of OrderSaga small enough for TLC.                            *)
EXTENDS OrderSaga

CONSTANTS o1, o2, p1

TwoOrders == {o1, o2}
OnePage == {p1}
=============================================================================
