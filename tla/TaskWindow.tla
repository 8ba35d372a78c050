----------------------------- MODULE TaskWindow -----------------------------
(***************************************************************************)
(* What a batch of delegated tasks promises its parent, whatever the       *)
(* admission does inside (delegate-serial.ts).  The window is halved or    *)
(* widened by one up to Widest, and a task is launched only where all that *)
(* run with it fit in the window: after a halving nothing starts until     *)
(* enough of those that run have ended.  A task that has been answered     *)
(* never runs again.                                                       *)
(***************************************************************************)
EXTENDS Naturals, FiniteSets

CONSTANTS Task, Widest

VARIABLES running, answered, width, launches

Init ==
  /\ width = Widest
  /\ running \subseteq Task
  /\ Cardinality(running) <= width
  /\ launches = [i \in Task |-> IF i \in running THEN 1 ELSE 0]
  /\ answered = {}

Halved == IF width <= 1 THEN 1 ELSE width \div 2
Resize == width' \in {width, Halved} \/ (width < Widest /\ width' = width + 1)

\* The tasks a step launches, once each; the others that run ran before.
Launched == {i \in Task : launches'[i] # launches[i]}
Start ==
  /\ launches' = [i \in Task |-> launches[i] + IF i \in Launched THEN 1 ELSE 0]
  /\ Launched \subseteq running' /\ running' \subseteq running \cup Launched
  /\ Launched # {} => Cardinality(running') <= width \/ Cardinality(running') <= width'

\* Tasks that stop may be answered, once and for all.
Stop ==
  /\ answered \subseteq answered' /\ answered' \subseteq Task
  /\ running' \cap answered' = {}

Next == Resize /\ Start /\ Stop

Spec == Init /\ [][Next]_<<running, answered, width, launches>>
=============================================================================
