---------------------------- MODULE MCKeepalive -----------------------------
(***************************************************************************)
(* Keepalive for TLC, with the code's periods of 10, 10 and 30 seconds in  *)
(* units of two seconds.                                                   *)
(***************************************************************************)
EXTENDS Keepalive
=============================================================================
