---------------------------- MODULE MCSessionTurns ----------------------------
(* Small instances of SessionTurns for TLC. *)
EXTENDS SessionTurns

CONSTANTS m1, m2
=============================================================================
