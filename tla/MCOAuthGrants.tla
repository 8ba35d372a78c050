---------------------------- MODULE MCOAuthGrants ----------------------------
(* Small instances of OAuthGrants for TLC. *)
EXTENDS OAuthGrants, TLC

CONSTANTS f1, f2, c1, c2

Symmetry == Permutations(Flow) \union Permutations(Caller)
=============================================================================
