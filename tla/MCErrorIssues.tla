---------------------------- MODULE MCErrorIssues ----------------------------
(* Small instances of ErrorIssues, and of the desk it writes on, for TLC. *)
EXTENDS ErrorIssues, TLC

CONSTANTS p1, p2, p3, e1, c1, t1

CardOfPrint(e) == [kind |-> "upsert", id |-> e, title |-> t1, status |-> "pending"]

\* An agent writes a card of its own without a status; the error's is removed.
SmallWrites ==
  { [kind |-> "upsert", id |-> c1, title |-> t1, status |-> None],
    [kind |-> "remove", id |-> e1] }

Symmetry == Permutations(Proc)
=============================================================================
