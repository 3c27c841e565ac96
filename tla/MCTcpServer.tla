---------------------------- MODULE MCTcpServer ----------------------------
(***************************************************************************)
(* TcpServer for TLC: descriptors 3, 4, ... as a process with its standard *)
(* streams open gets them, connections and application threads as model    *)
(* values.  Connections are interchangeable.                               *)
(***************************************************************************)
EXTENDS TcpServer, TLC

CONSTANTS main, worker

Symmetry == Permutations(Conns)
=============================================================================
