---------------------------- MODULE MCServerApp ----------------------------
(***************************************************************************)
(* ServerApp for TLC: one application thread, connections as model values. *)
(***************************************************************************)
EXTENDS ServerApp

CONSTANT main
=============================================================================
