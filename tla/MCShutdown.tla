----------------------------- MODULE MCShutdown -----------------------------
(***************************************************************************)
(* Shutdown for TLC: the server and the client, with failing system calls. *)
(***************************************************************************)
EXTENDS Shutdown
=============================================================================
