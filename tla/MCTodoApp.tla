------------------------------- MODULE MCTodoApp -------------------------------
(* Instances of TodoApp small enough for TLC.                              *)
EXTENDS TodoApp, TLC

CONSTANTS u1, u2, t1, t2, c1, c2

TwoUsers == {u1, u2}
OneTab == {t1}
TwoTabs == {t1, t2}
TwoConnections == {c1, c2}
OneTitle == {"Buy milk"}
OneSeed == <<[user |-> u1, title |-> "Walk the dog"]>>
TwoSeeds == <<[user |-> u1, title |-> "Walk the dog"], [user |-> u2, title |-> "Book flights"]>>

Alike == Permutations(TwoConnections) \cup Permutations(TwoTabs)
=============================================================================
