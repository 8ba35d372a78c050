---------------------------- MODULE MCMachineHost ----------------------------
(* Small instances of MachineHost for TLC: two laptops, or one that comes
   back, with catalogs that differ. *)
EXTENDS MachineHost

CONSTANTS k1, k2, k3, c1, c2, c3, a, b

TwoCatalogs == {{a}, {b}}
=============================================================================
