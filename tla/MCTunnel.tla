------------------------------ MODULE MCTunnel ------------------------------
(***************************************************************************)
(* Tunnel on small instances.                                              *)
(***************************************************************************)
EXTENDS Tunnel, TLC

CONSTANTS r1, r2, a1, a2

NoSequences == {}

Symmetry == Permutations({r1, r2}) \cup Permutations({a1, a2})
=============================================================================
