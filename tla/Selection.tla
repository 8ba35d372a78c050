------------------------------ MODULE Selection ------------------------------
(* The elements of a sequence that are in a set, in their order: what filter    *)
(* leaves of an array.  SelectSeq is the same with a test in place of the set;  *)
(* a set is what the theorems about it can quantify over (SelectionTheorems).   *)
EXTENDS Integers, Sequences

Kept(s, S) ==
  LET upTo[i \in 0..Len(s)] ==
        IF i = 0 THEN <<>>
        ELSE IF s[i] \in S THEN Append(upTo[i - 1], s[i])
        ELSE upTo[i - 1]
  IN  upTo[Len(s)]
=============================================================================
