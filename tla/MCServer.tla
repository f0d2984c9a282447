------------------------------ MODULE MCServer ------------------------------
(***************************************************************************)
(* Server on small instances.                                              *)
(***************************************************************************)
EXTENDS Server, TLC

CONSTANTS r1, r2, a1, a2

\* Session packets behind the ALOHA: none, or one that is repeated.
NoSequences == {}
OneSequence == {2}

Symmetry == Permutations({r1, r2}) \cup Permutations({a1, a2})
=============================================================================
