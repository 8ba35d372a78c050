----------------------------- MODULE MCDecisions -----------------------------
(* Small instances of Decisions for TLC: two choices, offered in either order
   (a reordered list is a different question). *)
EXTENDS Decisions, TLC

CONSTANTS d1, d2, d3, p1, p2, p3, yes, no

TwoOrders == {<<yes, no>>, <<no, yes>>}
OneOrder == {<<yes, no>>}

\* Ids of decisions and of executions are drawn at random and compared only.
Symmetry == Permutations(Decision) \cup Permutations(Proc)
=============================================================================
