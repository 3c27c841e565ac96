----------------------------- MODULE SocketCore -----------------------------
(***************************************************************************)
(* The socket calls of SocketCore.h: each method passes straight through   *)
(* to the operating system, so this module is the kernel as the library    *)
(* meets it.  It keeps the descriptor table of the process and, for every  *)
(* TCP connection a peer may make, the kernel's side of it.  A payload is  *)
(* a count of unread or unsent chunks; bytes are never looked at.          *)
(***************************************************************************)
EXTENDS Integers, FiniteSets

CONSTANTS
  Fds,         (* descriptor numbers the process may use (its fd limit)    *)
  Conns,       (* connections that peers may make, one identity each       *)
  MaxUnread,   (* bound: chunks waiting in a connection's receive buffer   *)
  SndCap,      (* bound: chunks a connection's send buffer holds           *)
  MaxForeign   (* bound: descriptors other code of the process opens       *)

(* What a descriptor can refer to besides a connection: nothing, a socket  *)
(* that is not listening, the accept socket, a file of other code.         *)
Files == {"free", "sock", "listen", "foreign"}
NoConn == "none"

ASSUME KernelAssumption ==
  /\ Fds \subseteq Nat
  /\ Conns \cap (Files \cup {NoConn}) = {}
  /\ MaxUnread \in Nat /\ SndCap \in Nat /\ MaxForeign \in Nat

VARIABLES
  fdt,      (* the descriptor table: descriptor -> what it refers to       *)
  stage,    (* connection -> "new", "queued" or "syn" (connect() is under  *)
            (* way) before it is "open", and "closed" here                 *)
  peer,     (* connection -> the peer is "up", sent "fin", or sent "rst"   *)
  unread,   (* connection -> chunks received and not yet read              *)
  outq      (* connection -> chunks sent and not yet taken by the peer     *)

kernelVars == <<fdt, stage, peer, unread, outq>>
streamVars == <<stage, peer, unread, outq>>

KernelInit ==
  /\ fdt = [f \in Fds |-> "free"]
  /\ stage = [c \in Conns |-> "new"]
  /\ peer = [c \in Conns |-> "up"]
  /\ unread = [c \in Conns |-> 0]
  /\ outq = [c \in Conns |-> 0]

KernelTypeOK ==
  /\ fdt \in [Fds -> Files \cup Conns]
  /\ stage \in [Conns -> {"new", "queued", "syn", "open", "closed"}]
  /\ peer \in [Conns -> {"up", "fin", "rst"}]
  /\ unread \in [Conns -> 0..MaxUnread]
  /\ outq \in [Conns -> 0..SndCap]

(* POSIX gives out the lowest descriptor number that is not open.          *)
LowestFree(f) == fdt[f] = "free" /\ \A g \in Fds : g < f => fdt[g] # "free"

Listening == \E f \in Fds : fdt[f] = "listen"

(* The descriptors select() reports for reading: a queued connection on    *)
(* the accept socket; data, end of stream or an error on a connection.     *)
Readable(f) ==
  \/ fdt[f] = "listen" /\ \E c \in Conns : stage[c] = "queued"
  \/ fdt[f] \in Conns /\ (unread[fdt[f]] > 0 \/ peer[fdt[f]] # "up")

(* recv() on a connection: data first; then an end of stream, for ever;    *)
(* a reset is reported once as an error and is an end of stream after it.  *)
RecvData(c) ==
  /\ unread[c] > 0
  /\ \E n \in 0..(unread[c] - 1) : unread' = [unread EXCEPT ![c] = n]
  /\ UNCHANGED <<fdt, stage, peer, outq>>
RecvEof(c) == unread[c] = 0 /\ peer[c] = "fin" /\ UNCHANGED kernelVars
RecvErr(c) ==
  /\ unread[c] = 0 /\ peer[c] = "rst"
  /\ peer' = [peer EXCEPT ![c] = "fin"]
  /\ UNCHANGED <<fdt, stage, unread, outq>>

(* send() on descriptor f, whose caller sees success or failure: it blocks *)
(* while the send buffer is full or the connection is being made; a        *)
(* failure may leave a part of the data in the buffer.                     *)
Send(f, success) ==
  /\ \/ /\ fdt[f] \in Conns /\ stage[fdt[f]] # "syn"
        /\ peer[fdt[f]] # "rst" /\ outq[fdt[f]] < SndCap
        /\ outq' = [outq EXCEPT ![fdt[f]] = @ + 1]
     \/ /\ \/ ~success /\ (fdt[f] \in Conns => peer[fdt[f]] # "up")
           \/ success /\ fdt[f] = "foreign"
        /\ UNCHANGED outq
  /\ UNCHANGED <<fdt, stage, peer, unread>>

(* socket() gives out a descriptor.                                        *)
Socket(f) ==
  /\ LowestFree(f)
  /\ fdt' = [fdt EXCEPT ![f] = "sock"]
  /\ UNCHANGED streamVars

(* connect() makes connection c of the socket under f and waits until it   *)
(* is established or refused; a second connect() on the socket waits for   *)
(* the same connection.  A refusal leaves an unconnected socket.  Once the *)
(* connection is no longer being made, by another call's doing, the kernel *)
(* has nothing more to do.                                                 *)
Connect(f, c) ==
  \/ /\ fdt[f] = "sock" /\ stage[c] = "new"
     /\ fdt' = [fdt EXCEPT ![f] = c]
     /\ stage' = [stage EXCEPT ![c] = "syn"]
     /\ UNCHANGED <<peer, unread, outq>>
  \/ fdt[f] = c /\ stage[c] = "syn" /\ UNCHANGED kernelVars

Establish(c) ==
  /\ stage' = [stage EXCEPT ![c] = IF @ = "syn" THEN "open" ELSE @]
  /\ UNCHANGED <<fdt, peer, unread, outq>>

Refuse(c) ==
  IF stage[c] = "syn"
  THEN /\ fdt' = [f \in Fds |-> IF fdt[f] = c THEN "sock" ELSE fdt[f]]
       /\ stage' = [stage EXCEPT ![c] = "closed"]
       /\ UNCHANGED <<peer, unread, outq>>
  ELSE UNCHANGED kernelVars

(* accept() on the accept socket takes a queued connection c and gives it  *)
(* descriptor f.                                                           *)
Accept(c, f) ==
  /\ stage[c] = "queued" /\ LowestFree(f)
  /\ fdt' = [fdt EXCEPT ![f] = c]
  /\ stage' = [stage EXCEPT ![c] = "open"]
  /\ UNCHANGED <<peer, unread, outq>>

(* close() of a set of descriptors; closing the accept socket resets the   *)
(* connections still in its queue.  What was received and not read is      *)
(* lost; what was sent is still on its way to the peer.                    *)
Close(S) ==
  LET gone == {c \in Conns : \/ \E f \in S : fdt[f] = c
                             \/ stage[c] = "queued" /\ \E f \in S : fdt[f] = "listen"}
  IN /\ fdt' = [f \in Fds |-> IF f \in S THEN "free" ELSE fdt[f]]
     /\ stage' = [c \in Conns |-> IF c \in gone THEN "closed" ELSE stage[c]]
     /\ unread' = [c \in Conns |-> IF c \in gone THEN 0 ELSE unread[c]]
     /\ UNCHANGED <<peer, outq>>

-----------------------------------------------------------------------------
(* The peers, and other code of the same process.                          *)

PeerConnect(c) ==
  /\ stage[c] = "new" /\ Listening
  /\ stage' = [stage EXCEPT ![c] = "queued"]
  /\ UNCHANGED <<fdt, peer, unread, outq>>

PeerSend(c) ==
  /\ stage[c] \in {"queued", "open"} /\ peer[c] = "up" /\ unread[c] < MaxUnread
  /\ unread' = [unread EXCEPT ![c] = @ + 1]
  /\ UNCHANGED <<fdt, stage, peer, outq>>

PeerRead(c) ==
  /\ outq[c] > 0 /\ peer[c] # "rst"
  /\ outq' = [outq EXCEPT ![c] = @ - 1]
  /\ UNCHANGED <<fdt, stage, peer, unread>>

PeerClose(c, how) ==
  /\ stage[c] \in {"queued", "open"} /\ peer[c] = "up"
  /\ peer' = [peer EXCEPT ![c] = how]
  /\ UNCHANGED <<fdt, stage, unread, outq>>

ForeignOpen(f) ==
  /\ LowestFree(f)
  /\ Cardinality({g \in Fds : fdt[g] = "foreign"}) < MaxForeign
  /\ fdt' = [fdt EXCEPT ![f] = "foreign"]
  /\ UNCHANGED streamVars

ForeignClose(f) ==
  /\ fdt[f] = "foreign"
  /\ fdt' = [fdt EXCEPT ![f] = "free"]
  /\ UNCHANGED streamVars

Peers == \E c \in Conns :
  PeerConnect(c) \/ PeerSend(c) \/ PeerRead(c) \/ PeerClose(c, "fin") \/ PeerClose(c, "rst")
=============================================================================
