-------------------------- MODULE MCDelegateWindow --------------------------
(* Small instances of DelegateWindow for TLC. *)
EXTENDS DelegateWindow
=============================================================================
