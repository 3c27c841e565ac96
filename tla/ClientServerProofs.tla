------------------------- MODULE ClientServerProofs -------------------------
(***************************************************************************)
(* Theorems about the two programs connected.  The network is, to each of  *)
(* them, a part of its environment: what is proved of the server program   *)
(* alone holds beside the client, and the client's main thread, the only   *)
(* one that changes its socket or sends on it, sends to the server.        *)
(***************************************************************************)
EXTENDS ClientServer, ServerAppProofs

USE DEF NoConn, NoThread, Srv, INVALID_SOCKET,
        Client!Rcv, Client!INVALID_SOCKET, Client!NoConn

(* The threads of the client program and its socket: only the main thread  *)
(* calls the client, so what it sends on is the m_sockfd it has read, and  *)
(* it is in finish() while m_sockfd names a socket it has closed.          *)
ClientPlaces ==
  /\ c_fdt \in [FdsOfClient -> Files \cup Conns]
  /\ c_pc \in [Client!Threads -> Client!CallPoints \cup Client!TaskPoints \cup {"idle"}]
  /\ c_fd \in [Client!Threads -> FdsOfClient \cup {INVALID_SOCKET}]
  /\ c_dial \in [Client!Threads -> Conns \cup {NoConn}]
  /\ c_m_sockfd \in FdsOfClient \cup {INVALID_SOCKET}
  /\ \A t \in ClientThreads \ {ClientOwner} : c_pc[t] = "idle"
  /\ c_pc[Client!Rcv] \in Client!TaskPoints
  /\ c_m_sockfd # INVALID_SOCKET =>
       c_fdt[c_m_sockfd] \in Conns \cup {"sock"} \/ c_pc[ClientOwner] = "reset"
  /\ c_pc[ClientOwner] = "send" => c_fd[ClientOwner] = c_m_sockfd

(* The inductive invariant of the client, while it runs.                   *)
ClientInv == c_alive => ClientPlaces

(* It holds when the client's main() begins.                               *)
LEMMA ClientInit == Client!AppInit => ClientInv
  BY KernelAssumption, SystemAssumption
     DEF Client!AppInit, Client!Init, Client!KernelInit, Client!Threads, Client!CallPoints,
         Client!TaskPoints, Client!Connecting, Client!Closing, Files, ClientInv, ClientPlaces

(* A step of the client program that does not end it.                      *)
LEMMA ClientProgramStep ==
  ASSUME ClientPlaces, c_alive, c_alive', Client!Program
  PROVE  ClientPlaces'
  <1> USE KernelAssumption, SystemAssumption
      DEF ClientPlaces, Client!Threads, Client!CallPoints, Client!TaskPoints,
          Client!Connecting, Client!Closing, Files, Client!kernelVars, Client!streamVars, Client!members, Client!shared,
          Client!At, Client!Go, Client!Back, Client!MayCall
  <1>1. ~Client!GiveUp /\ ~Client!MainReturns /\ ~Client!BrokenPipe /\ ~Client!onDisconnect
    BY DEF Client!GiveUp, Client!MainReturns, Client!BrokenPipe, Client!onDisconnect, Client!Exit
  <1>2. CASE Client!Construct
    BY <1>2 DEF Client!Construct, Client!connectTo
  <1>3. ASSUME NEW t \in {ClientOwner, Client!Rcv}, Client!AppContinue(t) PROVE ClientPlaces'
    <2>1. CASE Client!ConnectNoSocket(t)
      BY <2>1 DEF Client!ConnectNoSocket
    <2>2. CASE Client!ConnectFails(t)
      BY <2>2 DEF Client!ConnectFails
    <2>3. ASSUME NEW f \in FdsOfClient, Client!ConnectSocket(t, f) PROVE ClientPlaces'
      BY <2>3 DEF Client!ConnectSocket, Client!Socket, Client!LowestFree
    <2>4. CASE Client!SendOnFd(t)
      <3>1. c_fdt' = c_fdt
        BY <2>4 DEF Client!SendOnFd, Client!Send
      <3> QED
        BY <2>4, <3>1 DEF Client!SendOnFd
    <2>5. CASE Client!FinishJoin(t)
      BY <2>5 DEF Client!FinishJoin
    <2>6. CASE Client!FinishTest(t)
      BY <2>6 DEF Client!FinishTest
    <2>7. CASE Client!FinishClose(t)
      BY <2>7 DEF Client!FinishClose, Client!Close
    <2>8. CASE Client!FinishReset(t)
      BY <2>8 DEF Client!FinishReset
    <2>9. CASE Client!ConnectRead(t)
      BY <2>9 DEF Client!ConnectRead
    <2>10. ASSUME NEW c \in Conns, Client!ConnectStarts(t, c) PROVE ClientPlaces'
      BY <2>10 DEF Client!ConnectStarts, Client!Connect
    <2>11. CASE Client!ConnectRefused(t)
      <3>1. \A f \in FdsOfClient : c_fdt'[f] = c_fdt[f] \/ (c_fdt[f] \in Conns /\ c_fdt'[f] = "sock")
        BY <2>11 DEF Client!ConnectRefused, Client!Refuse
      <3>2. c_fdt' \in [FdsOfClient -> Files \cup Conns]
        BY <2>11 DEF Client!ConnectRefused, Client!Refuse
      <3> QED
        BY <2>11, <3>1, <3>2 DEF Client!ConnectRefused
    <2> QED
      BY <1>3, <2>1, <2>2, <2>3, <2>4, <2>5, <2>6, <2>7, <2>8, <2>9, <2>10, <2>11
         DEF Client!AppContinue
  <1>4. CASE Client!SendLine
    BY <1>4 DEF Client!SendLine, Client!MainAt, Client!sendMsg
  <1>5. CASE Client!Quit
    BY <1>5 DEF Client!Quit, Client!finish
  <1>6. CASE Client!ReceiveTask
    <2>1. CASE Client!Recv \/ Client!RecvWakes
      <3>1. PICK f \in FdsOfClient \cup {INVALID_SOCKET} : Client!RecvOn(f)
        BY <2>1 DEF Client!Recv, Client!RecvWakes
      <3>2. c_fdt' = c_fdt /\ \E l \in {"callback", "lost"} : c_pc' = [c_pc EXCEPT ![Client!Rcv] = l]
        BY <3>1 DEF Client!RecvOn, Client!RecvData, Client!RecvEof, Client!RecvErr, Client!AfterRecv
      <3>3. UNCHANGED <<c_fd, c_dial, c_m_sockfd>>
        BY <2>1 DEF Client!Recv, Client!RecvWakes
      <3> QED
        BY <3>2, <3>3
    <2> QED
      BY <1>6, <2>1
         DEF Client!ReceiveTask, Client!LoopTest, Client!SelectArgs, Client!Select, Client!FdIsset,
             Client!RecvBlocks, Client!publishDisconnected
  <1>7. CASE Client!onReceiveData
    BY <1>7 DEF Client!onReceiveData, Client!CallbackReturns
  <1>8. CASE Client!Launch
    BY <1>8 DEF Client!Launch, Client!ConnectThread
  <1> QED
    BY <1>1, <1>2, <1>3, <1>4, <1>5, <1>6, <1>7, <1>8
       DEF Client!Program, Client!Main, Client!User, Client!Receiver

(* A client that has ended stays ended, and what is not a step of its      *)
(* program changes no more than the other end's data and other code's      *)
(* descriptors.                                                            *)
LEMMA ClientStep == ClientInv /\ [SystemNext]_systemVars => ClientInv'
  <1> SUFFICES ASSUME ClientInv, [SystemNext]_systemVars, c_alive' PROVE ClientPlaces'
    BY DEF ClientInv
  <1> USE DEF clientVars, clientKernel, clientProgram
  <1>1. CASE UNCHANGED clientVars
    BY <1>1 DEF ClientInv, ClientPlaces
  <1>2. CASE Client!Program
    <2>1. c_alive
      BY <1>2
         DEF Client!Program, Client!Main, Client!User, Client!Receiver, Client!BrokenPipe,
             Client!Construct, Client!GiveUp, Client!MainReturns, Client!MainAt,
             Client!SendLine, Client!Quit, Client!finish, Client!MayCall, Client!AppContinue,
             Client!ConnectNoSocket, Client!ConnectFails, Client!ConnectSocket,
             Client!ConnectRead, Client!ConnectStarts, Client!ConnectRefused, Client!Launch,
             Client!ConnectThread, Client!SendOnFd, Client!FinishJoin, Client!FinishTest,
             Client!FinishClose, Client!FinishReset, Client!ReceiveTask, Client!LoopTest,
             Client!SelectArgs, Client!Select, Client!FdIsset, Client!Recv, Client!RecvBlocks,
             Client!RecvWakes, Client!publishDisconnected, Client!onReceiveData, Client!onDisconnect,
             Client!CallbackReturns, Client!At
    <2> QED
      BY <1>2, <2>1, ClientProgramStep DEF ClientInv
  <1>3. CASE Client!Foreign
    <2>1. PICK f \in FdsOfClient : Client!ForeignOpen(f) \/ Client!ForeignClose(f)
      BY <1>3 DEF Client!Foreign
    <2>2. /\ c_alive /\ c_fdt[f] \in {"free", "foreign"}
          /\ \E x \in {"free", "foreign"} : c_fdt' = [c_fdt EXCEPT ![f] = x]
      BY <1>3, <2>1
         DEF Client!Foreign, Client!ForeignOpen, Client!ForeignClose, Client!LowestFree
    <2>3. UNCHANGED <<c_pc, c_fd, c_dial, c_m_sockfd>>
      BY <1>3 DEF Client!Foreign, Client!members
    <2> QED
      BY <2>2, <2>3, KernelAssumption DEF ClientInv, ClientPlaces, Files
  <1>4. ASSUME NEW c \in Conns, NEW t \in Client!Threads, Client!Connected(t, c)
        PROVE  ClientPlaces'
    <2>1. /\ c_alive /\ c_pc[t] = "connecting" /\ c_pc' = [c_pc EXCEPT ![t] = "thread"]
          /\ UNCHANGED <<c_fdt, c_fd, c_dial, c_m_sockfd>>
      BY <1>4 DEF Client!Connected, Client!ConnectEstablished, Client!Establish, Client!At,
                  Client!Go, Client!members
    <2>2. t = ClientOwner
      BY <2>1 DEF ClientInv, ClientPlaces, Client!Threads, Client!TaskPoints
    <2> QED
      BY <2>1, <2>2, SystemAssumption
         DEF ClientInv, ClientPlaces, Client!Threads, Client!CallPoints, Client!TaskPoints,
             Client!Connecting
  <1>5. ASSUME NEW c \in Conns, Wire(Up(c)) \/ Wire(Down(c)) PROVE ClientPlaces'
    <2>1. UNCHANGED <<c_fdt, c_pc, c_fd, c_dial, c_m_sockfd, c_alive>>
      BY <1>5 DEF Wire, Up, Down, Client!PeerRead, Client!PeerSend, Client!PeerClose
    <2> QED
      BY <2>1 DEF ClientInv, ClientPlaces
  <1> QED
    BY <1>1, <1>2, <1>3, <1>4, <1>5
       DEF SystemNext, ServerSide, ClientSide, Connects, systemVars

(* To the server program, a step of the system is one of its own steps, a  *)
(* step of its peer, or no step at all.                                    *)
LEMMA ServerStep == AppInv /\ [SystemNext]_systemVars => AppInv'
  <1> SUFFICES ASSUME AppInv, [SystemNext]_systemVars PROVE AppInv'
    OBVIOUS
  <1>1. CASE Program \/ UNCHANGED serverVars
    BY <1>1, AppInvStep DEF AppNext, serverVars
  <1>2. ASSUME NEW c \in Conns, Connects(c) \/ Wire(Up(c)) \/ Wire(Down(c)) PROVE AppInv'
    <2>1. UNCHANGED serverProgram
      BY <1>2 DEF Connects, Wire
    <2>2. UNCHANGED <<lifecycle, table, locals, m_fds, m_mutex, pc, alive>> /\ UNCHANGED appVars
      BY <2>1 DEF serverProgram, lifecycle
    <2>3. Peers \/ UNCHANGED kernelVars
      BY <1>2 DEF Connects, Wire, Up, Down, Peers
    <2>4. CASE UNCHANGED kernelVars
      BY <2>2, <2>4, AppInvStep DEF allVars, vars, shared
    <2>5. CASE Peers /\ alive
      <3>1. Environment
        BY <2>2, <2>5 DEF Environment
      <3>2. Inv /\ Informed /\ AppParts
        BY <2>5 DEF AppInv
      <3>3. Inv' /\ Informed'
        BY <3>1, <3>2, InvStep, InformedStep DEF Next
      <3>4. AppParts'
        BY <2>2, <2>5, <3>1, <3>2, EnvironmentStep
      <3> QED
        BY <3>3, <3>4 DEF AppInv
    <2> QED
      BY <2>2, <2>3, <2>4, <2>5 DEF AppInv
  <1> QED
    BY <1>1, <1>2 DEF SystemNext, ServerSide, ClientSide, systemVars

-----------------------------------------------------------------------------
(* Both invariants hold throughout.                                        *)
THEOREM SystemInvariance == SystemSpec => [](AppInv /\ ClientInv)
  <1>1. SystemInit => AppInv /\ ClientInv
    BY AppInitInv, ClientInit DEF SystemInit
  <1>2. AppInv /\ ClientInv /\ [SystemNext]_systemVars => (AppInv /\ ClientInv)'
    BY ClientStep, ServerStep
  <1> QED
    BY <1>1, <1>2, PTL DEF SystemSpec

(* The client program never writes to a descriptor of other code: sendMsg()*)
(* uses the m_sockfd it has read without any lock, and that stays the      *)
(* program's own socket until send() has been called.                      *)
THEOREM ClientSendsToServer == SystemSpec => []SendReachesServer
  <1>1. ClientInv => SendReachesServer
    BY KernelAssumption, SystemAssumption
       DEF ClientInv, ClientPlaces, SendReachesServer, Client!SendReachesServer, Client!At,
           Client!Threads, Client!TaskPoints, Files
  <1> QED
    BY <1>1, SystemInvariance, PTL

(* The server program beside a client program keeps its list of clients,   *)
(* the order of its locks and the descriptor of a client it sends to.      *)
THEOREM ServerBesideClient ==
  SystemSpec => [](ListsItsClients /\ NoLockCycle /\ SendKeepsItsNumber)
  <1>1. AppInv => ListsItsClients
    BY DEF AppInv, AppParts, ListsItsClients
  <1>2. AppInv => NoLockCycle
    BY AppExcludesCycle
  <1>3. AppInv => SendKeepsItsNumber
    BY AppKeepsNumber
  <1> QED
    BY <1>1, <1>2, <1>3, SystemInvariance, PTL
=============================================================================
