------------------------------- MODULE Session -------------------------------
(***************************************************************************)
(* What a connection-oriented server promises its application, without     *)
(* threads, locks, descriptor tables or buffers.  Each connection is       *)
(* announced at most once and under a handle that is free.  The server     *)
(* looks at one connection at a time, one the application has, and what it *)
(* finds there it tells the application in a callback of its own.  The     *)
(* application may drop the connection in between: it then hears of it     *)
(* once more, by a handle that means no other connection, and never again. *)
(***************************************************************************)
EXTENDS Integers

CONSTANTS
  Handles,   (* names under which the application has connections          *)
  NoHandle,  (* none of them                                               *)
  Conns,     (* connections that may be made                               *)
  NoConn     (* no connection                                              *)

VARIABLES
  register,  (* handle -> the connection the application has, or NoConn    *)
  phase,     (* connection -> "fresh", "open", "ending" (closed, and the   *)
             (* application has still to be told) or "over"                *)
  inbound,   (* connection -> data received and not yet taken              *)
  event      (* the connection looked at, by handle, and what the          *)
             (* application is to hear: "data", "end", or a "look" so far  *)

NoEvent == [handle |-> NoHandle, conn |-> NoConn, what |-> "nothing"]

vars == <<register, phase, inbound, event>>

Init ==
  /\ register = [h \in Handles |-> NoConn]
  /\ phase = [c \in Conns |-> "fresh"]
  /\ inbound = [c \in Conns |-> 0]
  /\ event = NoEvent

Announce(h, c) ==
  /\ event = NoEvent
  /\ register[h] = NoConn /\ phase[c] = "fresh"
  /\ register' = [register EXCEPT ![h] = c]
  /\ phase' = [phase EXCEPT ![c] = "open"]
  /\ UNCHANGED <<inbound, event>>

Arrive(c) ==
  /\ phase[c] \in {"fresh", "open"}
  /\ inbound' = [inbound EXCEPT ![c] = @ + 1]
  /\ UNCHANGED <<register, phase, event>>

(* The server looks at a connection the application has.                   *)
Attend(h) ==
  /\ event = NoEvent
  /\ register[h] # NoConn /\ phase[register[h]] = "open"
  /\ event' = [handle |-> h, conn |-> register[h], what |-> "look"]
  /\ UNCHANGED <<register, phase, inbound>>

Looking == event.what = "look"

(* It finds data: some of those received, while the connection is open.    *)
FindData ==
  /\ Looking
  /\ IF phase[event.conn] = "open"
     THEN \E n \in 0..(inbound[event.conn] - 1) :
            inbound' = [inbound EXCEPT ![event.conn] = n]
     ELSE UNCHANGED inbound
  /\ event' = [event EXCEPT !.what = "data"]
  /\ UNCHANGED <<register, phase>>

FindEnd ==
  /\ Looking
  /\ event' = [event EXCEPT !.what = "end"]
  /\ UNCHANGED <<register, phase, inbound>>

FindNothing ==
  /\ Looking
  /\ event' = NoEvent
  /\ UNCHANGED <<register, phase, inbound>>

(* The handle of the event still means its connection, or means nothing    *)
(* since the application dropped it.                                       *)
HandleHonest == register[event.handle] \in {event.conn, NoConn}

(* The application hears of data.                                          *)
Hear ==
  /\ event.what = "data" /\ HandleHonest
  /\ event' = NoEvent
  /\ UNCHANGED <<register, phase, inbound>>

(* It hears of the end of a connection, which is closed by then.           *)
HearEnd ==
  /\ event.what = "end" /\ HandleHonest
  /\ phase[event.conn] \in {"ending", "over"}
  /\ register' = [register EXCEPT ![event.handle] = NoConn]
  /\ phase' = [phase EXCEPT ![event.conn] = "over"]
  /\ event' = NoEvent
  /\ UNCHANGED inbound

(* A connection is closed: one the application has is withdrawn later, one *)
(* that was never announced is over.  What was not taken is dropped.       *)
End(c) ==
  /\ phase[c] \in {"fresh", "open"}
  /\ phase' = [phase EXCEPT ![c] = IF @ = "open" THEN "ending" ELSE "over"]
  /\ inbound' = [inbound EXCEPT ![c] = 0]
  /\ UNCHANGED <<register, event>>

(* The application drops a connection, whatever the server is looking at.  *)
Withdraw(h) ==
  /\ register[h] # NoConn /\ phase[register[h]] = "ending"
  /\ phase' = [phase EXCEPT ![register[h]] = "over"]
  /\ register' = [register EXCEPT ![h] = NoConn]
  /\ UNCHANGED <<inbound, event>>

(* All connections the application has end at once, with some of those it  *)
(* was never told of; nothing is left for it to hear.                      *)
Shutdown(waiting) ==
  LET gone == waiting \cup {register[h] : h \in Handles} IN
  /\ event = NoEvent
  /\ \A c \in waiting : phase[c] = "fresh"
  /\ register' = [h \in Handles |-> NoConn]
  /\ phase' = [c \in Conns |-> IF c \in gone THEN "over" ELSE phase[c]]
  /\ inbound' = [c \in Conns |-> IF c \in gone THEN 0 ELSE inbound[c]]
  /\ UNCHANGED event

Next ==
  \/ \E c \in Conns : Arrive(c) \/ End(c)
  \/ \E h \in Handles : Attend(h) \/ Withdraw(h) \/ \E c \in Conns : Announce(h, c)
  \/ FindData \/ FindEnd \/ FindNothing \/ Hear \/ HearEnd
  \/ \E waiting \in SUBSET Conns : Shutdown(waiting)

Spec == Init /\ [][Next]_vars
=============================================================================
