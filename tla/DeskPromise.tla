----------------------------- MODULE DeskPromise -----------------------------
(* What the desk promises to those who write on it side by side: each write is *)
(* applied at one moment, to the board of that moment, and once; who is told   *)
(* that it was written, it was; who is told that others were always faster, it *)
(* was not.                                                                    *)
EXTENDS DeskCards

CONSTANT Proc

VARIABLES
  row,   \* the board, or None
  want,  \* of each writer: its write, or None
  fate,  \* of each writer: what became of it
  told   \* of each writer: the answer to its last write

vars == <<row, want, fate, told>>

Init ==
  /\ row = None
  /\ want = [p \in Proc |-> None]
  /\ fate = [p \in Proc |-> "none"]
  /\ told = [p \in Proc |-> "nothing"]

Ask(p) ==
  /\ fate[p] = "none"
  /\ \E w \in Write : want' = [want EXCEPT ![p] = w]
  /\ fate' = [fate EXCEPT ![p] = "asked"]
  /\ UNCHANGED <<row, told>>

Apply(p) ==
  /\ fate[p] = "asked"
  /\ fate' = [fate EXCEPT ![p] = "applied"]
  /\ row'.at \in Nat
  /\ row' = Applied(BoardOf(row, row'.at), want[p], row'.at)
  /\ UNCHANGED <<want, told>>

Answer(p, a) ==
  /\ fate[p] # "none"
  /\ a = "ok" => fate[p] = "applied"
  /\ a = "conflict" => fate[p] = "asked"
  /\ told' = [told EXCEPT ![p] = a]
  /\ fate' = [fate EXCEPT ![p] = "none"]
  /\ want' = [want EXCEPT ![p] = None]
  /\ UNCHANGED row

\* The writer is gone before it is answered.
Drop(p) ==
  /\ fate[p] # "none"
  /\ fate' = [fate EXCEPT ![p] = "none"]
  /\ want' = [want EXCEPT ![p] = None]
  /\ UNCHANGED <<row, told>>

Clear ==
  /\ row' # row
  /\ row'.at \in Nat
  /\ row' = Empty(row'.at)
  /\ UNCHANGED <<want, fate, told>>

Next ==
  \/ Clear
  \/ \E p \in Proc : Ask(p) \/ Apply(p) \/ Drop(p)
                    \/ \E a \in {"ok", "conflict", "error"} : Answer(p, a)

Spec == Init /\ [][Next]_vars
=============================================================================
