---------------------------- MODULE ClientServer ----------------------------
(***************************************************************************)
(* The two programs connected: serverApp.cpp in one process and            *)
(* clientApp.cpp in another, each with its own kernel, and a network       *)
(* between the two ends of their connection.  What the send buffer of one  *)
(* end holds is what the receive buffer of the other gets.                 *)
(***************************************************************************)
EXTENDS ServerApp

CONSTANTS
  FdsOfClient,    (* descriptor numbers of the client's process            *)
  ClientThreads,  (* its application threads                               *)
  ClientOwner,    (* its main thread                                       *)
  ClientForeign   (* bound: descriptors other code of the client opens     *)

VARIABLES
  c_fdt, c_stage, c_peer, c_unread, c_outq,
  c_m_sockfd, c_m_stop, c_m_thread, c_pc, c_fd, c_dial, c_gone, c_session, c_connects,
  c_alive, c_app

(* What ClientApp assumes of its constants.                                *)
ASSUME SystemAssumption ==
  /\ ClientOwner \in ClientThreads /\ "ReceiveTask" \notin ClientThreads
  /\ FdsOfClient \subseteq Nat /\ ClientForeign \in Nat

Client == INSTANCE ClientApp WITH
  Fds <- FdsOfClient, MaxForeign <- ClientForeign,
  AppThreads <- ClientThreads, Owner <- ClientOwner,
  AppCalls <- {"connectTo", "sendMsg", "finish"}, CbCalls <- {}, MaxConnects <- 1,
  fdt <- c_fdt, stage <- c_stage, peer <- c_peer, unread <- c_unread, outq <- c_outq,
  m_sockfd <- c_m_sockfd, m_stop <- c_m_stop, m_thread <- c_m_thread,
  pc <- c_pc, fd <- c_fd, dial <- c_dial, gone <- c_gone, session <- c_session,
  connects <- c_connects, alive <- c_alive, app <- c_app

clientKernel == <<c_fdt, c_stage, c_peer, c_unread, c_outq>>
clientProgram ==
  <<c_m_sockfd, c_m_stop, c_m_thread, c_pc, c_fd, c_dial, c_gone, c_session, c_connects,
    c_alive, c_app>>
clientVars == <<clientKernel, clientProgram>>
serverProgram == <<lifecycle, table, locals, m_fds, m_mutex, pc, appVars>>
serverVars == allVars
systemVars == <<serverVars, clientVars>>

SystemInit == AppInit /\ Client!AppInit

ServerSide(A) == A /\ UNCHANGED clientVars
ClientSide(A) == A /\ UNCHANGED serverVars

-----------------------------------------------------------------------------
(* The network.  What is outside the two kernels never changes here.       *)

Wire(A) == A /\ UNCHANGED <<serverProgram, clientProgram>>

(* A connect() that succeeds queues the connection on the accept socket.   *)
Connects(c) ==
  /\ \E t \in Client!Threads : Client!Connected(t, c)
  /\ PeerConnect(c)
  /\ UNCHANGED serverProgram

(* To the server: data; and when the client's end is closed, an end of     *)
(* stream after all that was sent, or a reset that overtakes it.           *)
Up(c) ==
  \/ Client!PeerRead(c) /\ PeerSend(c)
  \/ /\ c_stage[c] = "closed"
     /\ (c_outq[c] = 0 /\ PeerClose(c, "fin")) \/ PeerClose(c, "rst")
     /\ UNCHANGED clientKernel

(* The same to the client.                                                 *)
Down(c) ==
  \/ PeerRead(c) /\ Client!PeerSend(c)
  \/ /\ stage[c] = "closed"
     /\ (outq[c] = 0 /\ Client!PeerClose(c, "fin")) \/ Client!PeerClose(c, "rst")
     /\ UNCHANGED kernelVars

-----------------------------------------------------------------------------
(* The system.                                                             *)

ServerMain == Main \/ AppContinue(Owner)

SystemNext ==
  \/ ServerSide(Program)
  \/ ClientSide(Client!Program) \/ ClientSide(Client!Foreign)
  \/ \E c \in Conns : Connects(c)
  \/ \E c \in Conns : Wire(Up(c)) \/ Wire(Down(c))
  \/ ~Running /\ Client!Over /\ UNCHANGED systemVars

(* The threads of both programs go on when they can, and the network       *)
(* carries data and ends each way.  Neither user need type anything.       *)
SystemSpec ==
  /\ SystemInit /\ [][SystemNext]_systemVars
  /\ SF_systemVars(ServerSide(ServerThread)) /\ SF_systemVars(ServerSide(ServerMain))
  /\ WF_systemVars(ClientSide(Client!Receiver)) /\ WF_systemVars(ClientSide(Client!Main))
  /\ \A c \in Conns : WF_systemVars(Wire(Up(c))) /\ WF_systemVars(Wire(Down(c)))

-----------------------------------------------------------------------------
(* Every send() returns, on both sides.  A server that sends holds its     *)
(* mutexes, so its serverTask may be unable to read what a client that is  *)
(* sending too has written; the client's receive thread, which never       *)
(* sends, is what keeps the two from waiting for each other for ever.      *)
SendersNeverStall ==
  /\ Sending ~> ~Sending
  /\ Client!At(ClientOwner, "send") ~> ~Client!At(ClientOwner, "send")

(* When the client program ends, however it ends, the server program drops *)
(* its client for good: nobody is listed and no connection stays open,     *)
(* unless the server is quitting or is ended itself.                       *)
ClientEndSeen ==
  Client!Over ~>
    ~alive \/ ~Serving \/ [](app_clients = {} /\ \A c \in Conns : stage[c] # "open")

(* The client program ends when its user quits, and when the server closes *)
(* the connection or ends.                                                 *)
ClientEnds ==
  \A c \in Conns :
    c_app = "quit" \/ (c_stage[c] = "open" /\ stage[c] = "closed") ~> Client!Over

(* The client program never writes to a descriptor of other code.          *)
SendReachesServer == Client!SendReachesServer
=============================================================================
