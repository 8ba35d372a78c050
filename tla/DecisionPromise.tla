--------------------------- MODULE DecisionPromise ---------------------------
(***************************************************************************)
(* What a question to the owner promises: it is asked once, and it ends in *)
(* one of two ways for good, answered with one choice or retired because a *)
(* newer question took its place (routes/decisions.ts).                    *)
(***************************************************************************)

CONSTANTS Decision, Choice

VARIABLES outcome, answer

Init ==
  /\ outcome = [d \in Decision |-> "unasked"]
  /\ answer = [d \in Decision |-> {}]

Ask(d) ==
  /\ outcome[d] = "unasked"
  /\ outcome' = [outcome EXCEPT ![d] = "asked"]
  /\ UNCHANGED answer

Accept(d, c) ==
  /\ outcome[d] = "asked"
  /\ outcome' = [outcome EXCEPT ![d] = "answered"]
  /\ answer' = [answer EXCEPT ![d] = {c}]

Retire(d) ==
  /\ outcome[d] = "asked"
  /\ outcome' = [outcome EXCEPT ![d] = "retired"]
  /\ UNCHANGED answer

Next == \E d \in Decision : Ask(d) \/ Retire(d) \/ \E c \in Choice : Accept(d, c)

Spec == Init /\ [][Next]_<<outcome, answer>>
=============================================================================
