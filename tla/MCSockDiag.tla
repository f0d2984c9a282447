----------------------------- MODULE MCSockDiag -----------------------------
(***************************************************************************)
(* SockDiag for TLC.                                                       *)
(***************************************************************************)
EXTENDS SockDiag
=============================================================================
