--------------------------- MODULE MCClientServer ---------------------------
(***************************************************************************)
(* ClientServer for TLC: one connection, one thread besides the library's  *)
(* in each program.                                                        *)
(***************************************************************************)
EXTENDS ClientServer

CONSTANTS main, user
=============================================================================
