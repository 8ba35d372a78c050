------------------------------ MODULE MCPiChat ------------------------------
(* Small instances of PiChat for TLC. *)
EXTENDS PiChat
=============================================================================
