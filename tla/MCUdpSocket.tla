---------------------------- MODULE MCUdpSocket ----------------------------
(***************************************************************************)
(* UdpSocket for TLC: no streams, two destinations, application threads as *)
(* model values.                                                           *)
(***************************************************************************)
EXTENDS UdpSocket

CONSTANTS main, worker, group, host
=============================================================================
