---------------------------- MODULE MCTcpClient ----------------------------
(***************************************************************************)
(* TcpClient for TLC: the application thread as a model value.             *)
(***************************************************************************)
EXTENDS TcpClient

CONSTANT main
=============================================================================
