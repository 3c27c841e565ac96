-------------------------- MODULE TcpClientProofs --------------------------
(***************************************************************************)
(* Theorems about TcpClient, for every set of descriptors, connections and *)
(* application threads, every choice of calls and every bound.             *)
(***************************************************************************)
EXTENDS TcpClient, TLAPS

USE DEF NoConn, Rcv, INVALID_SOCKET

(* A socket of the client is open under descriptor f.                      *)
Ours(f) == fdt[f] \notin {"free", "foreign"}

(* Who is where.  Only its owner and the callbacks of the receive thread   *)
(* connect and finish; the thread exists exactly when it is joinable, and  *)
(* has been joined when the owner closes the socket.                       *)
ThreadRoles ==
  /\ \A t \in AppThreads : pc[t] \in CallPoints \cup {"idle"}
  /\ \A t \in AppThreads \ {Owner} : pc[t] \in {"idle", "send"}
  /\ pc[Rcv] \in TaskPoints \cup (CallPoints \ {"join"})
  /\ m_thread <=> pc[Rcv] # "none"
  /\ pc[Owner] \in Closing => pc[Rcv] = "none"

(* A connectTo() or finish() under way has ended the session.              *)
SessionGivenUp ==
  \A t \in Threads : pc[t] \in Connecting \cup {"join"} \cup Closing => session = NoConn

(* The socket that finish() is about to close is still open, since only    *)
(* one thread at a time is past join().                                    *)
ClosingOurs == \A t \in Threads : pc[t] = "closing" => fd[t] \in Fds /\ Ours(fd[t])

(* A thread that waits in connect() waits for a connection.                *)
DialKnown == \A t \in Threads : pc[t] = "connecting" => dial[t] \in Conns

(* While there is no receive thread nobody takes the socket from a         *)
(* connectTo() under way.                                                  *)
DialHeld ==
  pc[Rcv] = "none" =>
    /\ pc[Owner] = "setup" => m_sockfd \in Fds /\ fdt[m_sockfd] = "sock"
    /\ pc[Owner] = "connect" =>
         m_sockfd \in Fds /\ fd[Owner] = m_sockfd /\ fdt[m_sockfd] = "sock"
    /\ pc[Owner] \in {"connecting", "thread"} =>
         /\ m_sockfd \in Fds /\ fd[Owner] = m_sockfd
         /\ dial[Owner] \in Conns /\ fdt[m_sockfd] = dial[Owner]

(* The end of the connection has set m_stop before it is published.        *)
EndStops == gone \/ pc[Rcv] = "lost" => m_stop

(* The owner is in connect() on descriptor f, or just back from it.        *)
OwnerDials(f) ==
  /\ fd[Owner] = f
  /\ \/ pc[Owner] = "thread"
     \/ /\ pc[Owner] = "connecting"
        /\ fdt[f] = dial[Owner] /\ dial[Owner] \in Conns /\ stage[dial[Owner]] = "syn"

(* The socket select() has found ready is ready until recv() is called,    *)
(* and so is the one that a connectTo() has put in its place, until it is  *)
(* in connect().                                                           *)
FoundReady ==
  /\ alive /\ m_sockfd # INVALID_SOCKET
  /\ pc[Rcv] = "recv" \/ (pc[Rcv] = "isset" /\ fd[Rcv] = m_sockfd)
  => Ready(m_sockfd) \/ OwnerDials(m_sockfd)

(* A recv() that waits is about a socket without a session.                *)
BlockedDials ==
  alive /\ pc[Rcv] = "blocked" =>
    /\ session = NoConn
    /\ fd[Rcv] \in Fds /\ fdt[fd[Rcv]] \in Conns \cup {"sock"}
    /\ Ready(fd[Rcv]) \/ OwnerDials(fd[Rcv])

(* The first connectTo() makes at most one socket, the one in m_sockfd,    *)
(* before there is a receive thread.                                       *)
OneSocket ==
  /\ connects = 0 => /\ pc[Rcv] = "none" /\ pc[Owner] \notin Connecting
                     /\ \A f \in Fds : ~Ours(f)
  /\ connects = 1 =>
       /\ pc[Rcv] \notin Connecting /\ (pc[Owner] \in Connecting => pc[Rcv] = "none")
       /\ \A f \in Fds : Ours(f) => f = m_sockfd
       /\ pc[Owner] = "create" \/ (\E t \in Threads : pc[t] = "reset") =>
            \A f \in Fds : ~Ours(f)
       /\ \A t \in Threads : pc[t] = "closing" => fd[t] = m_sockfd

(* The inductive invariant.                                                *)
Roles == ThreadRoles /\ SessionGivenUp /\ EndStops /\ DialKnown
Owned == SockfdOwned /\ ClosingOurs /\ DialHeld
Held == SessionHeld /\ DisconnectHonest /\ FoundReady /\ BlockedDials
Inv == TypeOK /\ Roles /\ Owned /\ Held /\ OneSocket

(* The invariant holds before connectTo() is called.                       *)
LEMMA InitInv == Init => Inv
  <1> SUFFICES ASSUME Init PROVE Inv
    OBVIOUS
  <1> USE KernelAssumption, ClientAssumption
      DEF Init, KernelInit, Threads, Connecting, Closing, CallPoints, TaskPoints
  <1>1. TypeOK
    <2>1. KernelTypeOK
      BY DEF KernelTypeOK, Files
    <2>2. /\ pc \in [Threads -> CallPoints \cup TaskPoints \cup {"idle"}]
          /\ fd \in [Threads -> Fds \cup {INVALID_SOCKET}] /\ connects \in 0..MaxConnects
          /\ dial \in [Threads -> Conns \cup {NoConn}]
      OBVIOUS
    <2> QED
      BY <2>1, <2>2 DEF TypeOK
  <1>2. Roles
    BY DEF Roles, ThreadRoles, SessionGivenUp, EndStops, DialKnown
  <1>3. Owned
    BY DEF Owned, SockfdOwned, ClosingOurs, DialHeld
  <1>4. Held
    BY DEF Held, SessionHeld, DisconnectHonest, FoundReady, BlockedDials, At
  <1>5. OneSocket
    BY DEF OneSocket, Ours, Files
  <1> QED
    BY <1>1, <1>2, <1>3, <1>4, <1>5 DEF Inv

(* A step of Next is a step of one of its actions.                         *)
LEMMA NextCases ==
  ASSUME Next
  PROVE  \/ \E t \in Threads : Call(t) \/ Continue(t)
         \/ ReceiveTask \/ FdMacroAborts \/ CallbackReturns
         \/ Environment
         \/ UNCHANGED vars
  BY DEF Next, Rest

(* recv() leaves the descriptor table alone and ends in a callback or in   *)
(* the end of the connection.                                              *)
LEMMA RecvEffect ==
  ASSUME TypeOK, Recv \/ RecvWakes
  PROVE  /\ alive /\ UNCHANGED <<fdt, stage, m_sockfd, m_thread, session, connects, alive>>
         /\ UNCHANGED <<fd, dial, gone>>
         /\ pc[Rcv] \in {"recv", "blocked"}
         /\ \E ok \in BOOLEAN : /\ pc' = [pc EXCEPT ![Rcv] = IF ok THEN "callback" ELSE "lost"]
                                /\ m_stop' = (m_stop \/ ~ok)
  <1>1. /\ alive /\ UNCHANGED <<m_sockfd, m_thread, session, connects, alive, fd, dial, gone>>
        /\ pc[Rcv] \in {"recv", "blocked"}
    BY DEF Recv, RecvWakes, At
  <1>2. PICK f : RecvOn(f)
    BY DEF Recv, RecvWakes
  <1>3. UNCHANGED <<fdt, stage>> /\ \E ok \in BOOLEAN : AfterRecv(ok)
    BY <1>2 DEF RecvOn, RecvData, RecvEof, RecvErr, kernelVars
  <1> QED
    BY <1>1, <1>3 DEF AfterRecv, Go

(* The peers and other code leave the client's sockets alone.              *)
LEMMA EnvironmentEffect ==
  ASSUME TypeOK, Environment
  PROVE  /\ UNCHANGED <<m_sockfd, m_stop, m_thread, session, connects, alive, pc, fd, dial, gone>>
         /\ \A f \in Fds : Ours(f) => fdt'[f] = fdt[f]
         /\ \A f \in Fds : Ours(f)' => Ours(f)
         /\ \A c \in Conns : stage[c] = "syn" => stage'[c] = "syn"
  <1> USE KernelAssumption
      DEF Ours, TypeOK, KernelTypeOK, Files, streamVars, Environment, members
  <1>1. UNCHANGED <<m_sockfd, m_stop, m_thread, session, connects, alive, pc, fd, dial, gone>>
    OBVIOUS
  <1>2. CASE Peers
    <2>1. UNCHANGED fdt
      BY <1>2 DEF Peers, PeerConnect, PeerSend, PeerRead, PeerClose
    <2>2. \A c \in Conns : stage[c] = "syn" => stage'[c] = "syn"
      BY <1>2 DEF Peers, PeerConnect, PeerSend, PeerRead, PeerClose
    <2> QED
      BY <1>1, <2>1, <2>2
  <1>3. ASSUME NEW g \in Fds, ForeignOpen(g) \/ ForeignClose(g)
        PROVE  /\ \A f \in Fds : Ours(f) => fdt'[f] = fdt[f]
               /\ \A f \in Fds : Ours(f)' => Ours(f)
               /\ UNCHANGED stage
    BY <1>3 DEF ForeignOpen, ForeignClose, LowestFree
  <1> QED
    BY <1>1, <1>2, <1>3

-----------------------------------------------------------------------------
(* Type correctness.                                                       *)

(* The peers and other code keep the types of the kernel's state.          *)
LEMMA EnvironmentType ==
  ASSUME KernelTypeOK, Peers \/ \E f \in Fds : ForeignOpen(f) \/ ForeignClose(f)
  PROVE  KernelTypeOK'
  <1> USE KernelAssumption DEF KernelTypeOK, Files, streamVars
  <1>1. ASSUME NEW c \in Conns, PeerConnect(c) PROVE KernelTypeOK'
    BY <1>1 DEF PeerConnect
  <1>2. ASSUME NEW c \in Conns, PeerSend(c) PROVE KernelTypeOK'
    BY <1>2 DEF PeerSend
  <1>3. ASSUME NEW c \in Conns, PeerRead(c) PROVE KernelTypeOK'
    BY <1>3 DEF PeerRead
  <1>4. ASSUME NEW c \in Conns, PeerClose(c, "fin") \/ PeerClose(c, "rst")
        PROVE  KernelTypeOK'
    BY <1>4 DEF PeerClose
  <1>5. ASSUME NEW f \in Fds, ForeignOpen(f) \/ ForeignClose(f) PROVE KernelTypeOK'
    BY <1>5 DEF ForeignOpen, ForeignClose
  <1> QED
    BY <1>1, <1>2, <1>3, <1>4, <1>5 DEF Peers

(* So does a recv().                                                       *)
LEMMA RecvType ==
  ASSUME KernelTypeOK, NEW c \in Conns, RecvData(c) \/ RecvEof(c) \/ RecvErr(c)
  PROVE  KernelTypeOK'
  <1> USE KernelAssumption DEF KernelTypeOK, kernelVars
  <1>1. CASE RecvData(c)
    <2>1. PICK n \in 0..(unread[c] - 1) : unread' = [unread EXCEPT ![c] = n]
      BY <1>1 DEF RecvData
    <2>2. n \in 0..MaxUnread
      BY <2>1
    <2> QED
      BY <1>1, <2>1, <2>2 DEF RecvData
  <1>2. CASE RecvEof(c)
    BY <1>2 DEF RecvEof
  <1>3. CASE RecvErr(c)
    BY <1>3 DEF RecvErr
  <1> QED
    BY <1>1, <1>2, <1>3

(* Every step keeps the types.                                             *)
LEMMA TypeStep ==
  ASSUME TypeOK, DialKnown, [Next]_vars
  PROVE  TypeOK'
  <1> USE KernelAssumption, ClientAssumption
      DEF TypeOK, KernelTypeOK, Files, Connecting, Closing, CallPoints, TaskPoints, Threads,
          kernelVars, streamVars, members, shared, vars, At, Go, Back, MayCall
  <1>1. ASSUME NEW t \in Threads, Call(t) PROVE TypeOK'
    <2>1. CASE connectTo(t)
      BY <2>1 DEF connectTo
    <2>2. CASE sendMsg(t)
      BY <2>2 DEF sendMsg
    <2>3. CASE finish(t)
      BY <2>3 DEF finish
    <2> QED
      BY <1>1, <2>1, <2>2, <2>3 DEF Call
  <1>2. ASSUME NEW t \in Threads, Continue(t) PROVE TypeOK'
    <2>1. CASE ConnectNoSocket(t)
      BY <2>1 DEF ConnectNoSocket
    <2>2. CASE ConnectFails(t)
      BY <2>2 DEF ConnectFails
    <2>3. CASE ConnectRead(t)
      BY <2>3 DEF ConnectRead
    <2>4. CASE ConnectForeign(t)
      BY <2>4 DEF ConnectForeign
    <2>5. ASSUME NEW f \in Fds, ConnectSocket(t, f) PROVE TypeOK'
      BY <2>5 DEF ConnectSocket, Socket
    <2>6. ASSUME NEW c \in Conns, ConnectStarts(t, c) PROVE TypeOK'
      BY <2>6 DEF ConnectStarts, Connect
    <2>7. CASE ConnectEstablished(t)
      <3>1. dial[t] \in Conns
        BY <2>7 DEF ConnectEstablished, DialKnown
      <3> QED
        BY <2>7, <3>1 DEF ConnectEstablished, Establish
    <2>8. CASE ConnectRefused(t)
      <3>1. dial[t] \in Conns
        BY <2>8 DEF ConnectRefused, DialKnown
      <3>2. KernelTypeOK'
        BY <2>8, <3>1 DEF ConnectRefused, Refuse
      <3> QED
        BY <2>8, <3>2 DEF ConnectRefused
    <2>9. CASE ConnectThread(t)
      <3>1. m_thread' \in BOOLEAN /\ alive' \in BOOLEAN /\ UNCHANGED kernelVars
        BY <2>9 DEF ConnectThread
      <3>4. session' \in Conns \cup {NoConn}
        <4>1. session' = session \/ session' = dial[t]
          BY <2>9 DEF ConnectThread
        <4> QED
          BY <4>1
      <3>2. pc' = pc \/ pc' = [pc EXCEPT ![t] = Back(t), ![Rcv] = "loop"]
        BY <2>9 DEF ConnectThread
      <3>3. pc' \in [Threads -> CallPoints \cup TaskPoints \cup {"idle"}]
        <4>1. Back(t) \in {"callback", "idle"}
          OBVIOUS
        <4> QED
          BY <3>2, <4>1
      <3> QED
        BY <2>9, <3>1, <3>3, <3>4 DEF ConnectThread
    <2>10. CASE SendOnFd(t)
      BY <2>10 DEF SendOnFd, Send
    <2>11. CASE FinishJoin(t)
      BY <2>11 DEF FinishJoin
    <2>12. CASE FinishTest(t)
      BY <2>12 DEF FinishTest
    <2>13. CASE FinishClose(t)
      BY <2>13 DEF FinishClose, Close
    <2>14. CASE FinishReset(t)
      BY <2>14 DEF FinishReset
    <2> QED
      BY <1>2, <2>1, <2>2, <2>3, <2>4, <2>5, <2>6, <2>7, <2>8,
         <2>9, <2>10, <2>11, <2>12, <2>13, <2>14 DEF Continue
  <1>3. CASE ReceiveTask
    <2>1. CASE LoopTest
      BY <2>1 DEF LoopTest
    <2>2. CASE SelectArgs
      BY <2>2 DEF SelectArgs
    <2>3. CASE Select
      BY <2>3 DEF Select
    <2>4. CASE FdIsset
      BY <2>4 DEF FdIsset
    <2>5. CASE Recv
      <3>1. KernelTypeOK'
        BY <2>5, RecvType DEF Recv, RecvOn
      <3>2. /\ m_stop' \in BOOLEAN
            /\ pc' \in [Threads -> CallPoints \cup TaskPoints \cup {"idle"}]
        BY <2>5, RecvEffect
      <3> QED
        BY <2>5, <3>1, <3>2 DEF Recv
    <2>6. CASE RecvBlocks
      BY <2>6 DEF RecvBlocks
    <2>7. CASE RecvWakes
      <3>1. KernelTypeOK'
        BY <2>7, RecvType DEF RecvWakes, RecvOn
      <3>2. /\ m_stop' \in BOOLEAN
            /\ pc' \in [Threads -> CallPoints \cup TaskPoints \cup {"idle"}]
        BY <2>7, RecvEffect
      <3> QED
        BY <2>7, <3>1, <3>2 DEF RecvWakes
    <2>8. CASE publishDisconnected
      BY <2>8 DEF publishDisconnected
    <2> QED
      BY <1>3, <2>1, <2>2, <2>3, <2>4, <2>5, <2>6, <2>7, <2>8 DEF ReceiveTask
  <1>4. CASE FdMacroAborts
    BY <1>4 DEF FdMacroAborts
  <1>5. CASE CallbackReturns
    BY <1>5 DEF CallbackReturns
  <1>6. CASE Environment
    <2>1. KernelTypeOK'
      BY <1>6, EnvironmentType DEF Environment
    <2> QED
      BY <1>6, <2>1 DEF Environment
  <1>7. CASE UNCHANGED vars
    BY <1>7
  <1> QED
    BY <1>1, <1>2, <1>3, <1>4, <1>5, <1>6, <1>7, NextCases
-----------------------------------------------------------------------------
(* Who is where, and whose the socket is.                                  *)

(* Every step keeps Roles.                                                 *)
LEMMA RolesStep ==
  ASSUME TypeOK, Roles, [Next]_vars
  PROVE  Roles'
  <1> USE KernelAssumption, ClientAssumption
      DEF Roles, ThreadRoles, SessionGivenUp, EndStops, DialKnown, TypeOK,
          Connecting, Closing, CallPoints, TaskPoints, Threads, kernelVars, members, shared, vars,
          At, Go, Back, MayCall
  <1>1. ASSUME NEW t \in Threads, Call(t) PROVE Roles'
    <2>1. CASE connectTo(t)
      BY <2>1 DEF connectTo
    <2>2. CASE sendMsg(t)
      BY <2>2 DEF sendMsg
    <2>3. CASE finish(t)
      BY <2>3 DEF finish
    <2> QED
      BY <1>1, <2>1, <2>2, <2>3 DEF Call
  <1>2. ASSUME NEW t \in Threads, Continue(t) PROVE Roles'
    <2>1. CASE ConnectNoSocket(t)
      BY <2>1 DEF ConnectNoSocket
    <2>2. CASE ConnectFails(t)
      BY <2>2 DEF ConnectFails
    <2>3. CASE ConnectRead(t)
      BY <2>3 DEF ConnectRead
    <2>4. CASE ConnectForeign(t)
      BY <2>4 DEF ConnectForeign
    <2>5. ASSUME NEW f \in Fds, ConnectSocket(t, f) PROVE Roles'
      BY <2>5 DEF ConnectSocket, Socket
    <2>6. ASSUME NEW c \in Conns, ConnectStarts(t, c) PROVE Roles'
      BY <2>6 DEF ConnectStarts, Connect
    <2>7. CASE ConnectEstablished(t)
      BY <2>7 DEF ConnectEstablished, Establish
    <2>8. CASE ConnectRefused(t)
      BY <2>8 DEF ConnectRefused, Refuse
    <2>9. CASE ConnectThread(t)
      <3>1. pc[t] = "thread" /\ UNCHANGED <<m_stop, gone>>
            /\ dial' = [dial EXCEPT ![t] = NoConn]
        BY <2>9 DEF ConnectThread
      <3>2. CASE m_thread
        <4>1. UNCHANGED <<m_thread, session, pc>>
          BY <2>9, <3>2 DEF ConnectThread
        <4> QED
          BY <3>1, <4>1
      <3>3. CASE ~m_thread
        <4>1. m_thread' = TRUE /\ pc' = [pc EXCEPT ![t] = Back(t), ![Rcv] = "loop"]
          BY <2>9, <3>3 DEF ConnectThread
        <4>2. t = Owner /\ pc[Rcv] = "none"
          BY <3>1, <3>3
        <4> QED
          BY <3>1, <4>1, <4>2
      <3> QED
        BY <3>2, <3>3
    <2>10. CASE SendOnFd(t)
      BY <2>10 DEF SendOnFd, Send
    <2>11. CASE FinishJoin(t)
      BY <2>11 DEF FinishJoin
    <2>12. CASE FinishTest(t)
      BY <2>12 DEF FinishTest
    <2>13. CASE FinishClose(t)
      BY <2>13 DEF FinishClose, Close
    <2>14. CASE FinishReset(t)
      BY <2>14 DEF FinishReset
    <2> QED
      BY <1>2, <2>1, <2>2, <2>3, <2>4, <2>5, <2>6, <2>7, <2>8,
         <2>9, <2>10, <2>11, <2>12, <2>13, <2>14 DEF Continue
  <1>3. CASE ReceiveTask
    <2>1. CASE LoopTest
      BY <2>1 DEF LoopTest
    <2>2. CASE SelectArgs
      BY <2>2 DEF SelectArgs
    <2>3. CASE Select
      BY <2>3 DEF Select
    <2>4. CASE FdIsset
      BY <2>4 DEF FdIsset
    <2>5. CASE Recv
      BY <2>5, RecvEffect
    <2>6. CASE RecvBlocks
      BY <2>6 DEF RecvBlocks
    <2>7. CASE RecvWakes
      BY <2>7, RecvEffect
    <2>8. CASE publishDisconnected
      BY <2>8 DEF publishDisconnected
    <2> QED
      BY <1>3, <2>1, <2>2, <2>3, <2>4, <2>5, <2>6, <2>7, <2>8 DEF ReceiveTask
  <1>4. CASE FdMacroAborts
    BY <1>4 DEF FdMacroAborts
  <1>5. CASE CallbackReturns
    BY <1>5 DEF CallbackReturns
  <1>6. CASE Environment
    BY <1>6, EnvironmentEffect
  <1>7. CASE UNCHANGED vars
    BY <1>7
  <1> QED
    BY <1>1, <1>2, <1>3, <1>4, <1>5, <1>6, <1>7, NextCases

(* Every step keeps Owned.                                                 *)
LEMMA OwnedStep ==
  ASSUME TypeOK, Roles, Owned, [Next]_vars
  PROVE  Owned'
  <1> USE KernelAssumption, ClientAssumption
      DEF Roles, ThreadRoles, DialKnown, Owned, SockfdOwned, ClosingOurs, DialHeld, Ours,
          TypeOK, KernelTypeOK, Files, Connecting, Closing, CallPoints, TaskPoints, Threads,
          kernelVars, streamVars, members, shared, vars, At, Go, Back, MayCall
  <1>1. ASSUME NEW t \in Threads, Call(t) PROVE Owned'
    <2>1. CASE connectTo(t)
      BY <2>1 DEF connectTo
    <2>2. CASE sendMsg(t)
      BY <2>2 DEF sendMsg
    <2>3. CASE finish(t)
      BY <2>3 DEF finish
    <2> QED
      BY <1>1, <2>1, <2>2, <2>3 DEF Call
  <1>2. ASSUME NEW t \in Threads, Continue(t) PROVE Owned'
    <2>1. CASE ConnectNoSocket(t)
      BY <2>1 DEF ConnectNoSocket
    <2>2. CASE ConnectFails(t)
      BY <2>2 DEF ConnectFails
    <2>3. CASE ConnectRead(t)
      BY <2>3 DEF ConnectRead
    <2>4. CASE ConnectForeign(t)
      BY <2>4 DEF ConnectForeign
    <2>5. ASSUME NEW f \in Fds, ConnectSocket(t, f) PROVE Owned'
      BY <2>5 DEF ConnectSocket, Socket
    <2>6. ASSUME NEW c \in Conns, ConnectStarts(t, c) PROVE Owned'
      <3>1. /\ pc[t] = "connect" /\ fd[t] \in Fds
            /\ pc' = [pc EXCEPT ![t] = "connecting"] /\ dial' = [dial EXCEPT ![t] = c]
            /\ fdt' = [fdt EXCEPT ![fd[t]] = c] /\ UNCHANGED <<m_sockfd, fd>>
        BY <2>6 DEF ConnectStarts, Connect
      <3>2. Ours(fd[t])
        BY <2>6 DEF ConnectStarts, Connect
      <3>3. SockfdOwned'
        BY <3>1
      <3>4. ClosingOurs'
        BY <3>1, <3>2
      <3>5. DialHeld'
        BY <3>1
      <3> QED
        BY <3>3, <3>4, <3>5
    <2>7. CASE ConnectEstablished(t)
      BY <2>7 DEF ConnectEstablished, Establish
    <2>8. CASE ConnectRefused(t)
      <3>1. /\ pc[t] = "connecting" /\ pc' = [pc EXCEPT ![t] = Back(t)]
            /\ UNCHANGED m_sockfd /\ fd' = [fd EXCEPT ![t] = INVALID_SOCKET]
        BY <2>8 DEF ConnectRefused
      <3>2. \A f \in Fds : fdt'[f] = fdt[f] \/ (fdt[f] \in Conns /\ fdt'[f] = "sock")
        BY <2>8 DEF ConnectRefused, Refuse
      <3>3. SockfdOwned'
        BY <3>1, <3>2
      <3>4. DialHeld'
        BY <3>1
      <3>5. ASSUME NEW u \in Threads, pc'[u] = "closing" PROVE (fd[u] \in Fds /\ Ours(fd[u]))'
        <4>1. PICK g \in Fds : g = fd[u] /\ Ours(g)
          BY <3>1, <3>5
        <4>2. Ours(g)'
          BY ONLY <3>2, <4>1 DEF Ours
        <4>3. fd'[u] = g
          BY <3>1, <3>5, <4>1
        <4> QED
          BY ONLY <4>1, <4>2, <4>3 DEF Ours
      <3> QED
        BY <3>3, <3>4, <3>5
    <2>9. CASE ConnectThread(t)
      <3>1. pc[t] = "thread" /\ UNCHANGED <<m_sockfd, fdt>>
            /\ fd' = [fd EXCEPT ![t] = INVALID_SOCKET]
        BY <2>9 DEF ConnectThread
      <3>2. CASE m_thread
        <4>1. UNCHANGED pc
          BY <2>9, <3>2 DEF ConnectThread
        <4> QED
          BY <3>1, <3>2, <4>1
      <3>3. CASE ~m_thread
        <4>1. pc' = [pc EXCEPT ![t] = Back(t), ![Rcv] = "loop"]
          BY <2>9, <3>3 DEF ConnectThread
        <4>2. pc'[Rcv] = "loop" /\ t = Owner
          BY <3>1, <3>3, <4>1
        <4> QED
          BY <3>1, <3>3, <4>1, <4>2
      <3> QED
        BY <3>2, <3>3
    <2>10. CASE SendOnFd(t)
      BY <2>10 DEF SendOnFd, Send
    <2>11. CASE FinishJoin(t)
      BY <2>11 DEF FinishJoin
    <2>12. CASE FinishTest(t)
      BY <2>12 DEF FinishTest
    <2>13. CASE FinishClose(t)
      BY <2>13 DEF FinishClose, Close
    <2>14. CASE FinishReset(t)
      BY <2>14 DEF FinishReset
    <2> QED
      BY <1>2, <2>1, <2>2, <2>3, <2>4, <2>5, <2>6, <2>7, <2>8,
         <2>9, <2>10, <2>11, <2>12, <2>13, <2>14 DEF Continue
  <1>3. CASE ReceiveTask
    <2>1. CASE LoopTest
      BY <2>1 DEF LoopTest
    <2>2. CASE SelectArgs
      BY <2>2 DEF SelectArgs
    <2>3. CASE Select
      BY <2>3 DEF Select
    <2>4. CASE FdIsset
      BY <2>4 DEF FdIsset
    <2>5. CASE Recv
      BY <2>5, RecvEffect
    <2>6. CASE RecvBlocks
      BY <2>6 DEF RecvBlocks
    <2>7. CASE RecvWakes
      BY <2>7, RecvEffect
    <2>8. CASE publishDisconnected
      BY <2>8 DEF publishDisconnected
    <2> QED
      BY <1>3, <2>1, <2>2, <2>3, <2>4, <2>5, <2>6, <2>7, <2>8 DEF ReceiveTask
  <1>4. CASE FdMacroAborts
    BY <1>4 DEF FdMacroAborts
  <1>5. CASE CallbackReturns
    BY <1>5 DEF CallbackReturns
  <1>6. CASE Environment
    <2>1. UNCHANGED <<m_sockfd, pc, fd, dial>> /\ \A f \in Fds : Ours(f) => fdt'[f] = fdt[f]
      BY <1>6, EnvironmentEffect
    <2>2. SockfdOwned'
      BY <2>1
    <2>3. ASSUME NEW u \in Threads, pc'[u] = "closing" PROVE (fd[u] \in Fds /\ Ours(fd[u]))'
      <3>1. PICK g \in Fds : g = fd[u] /\ Ours(g)
        BY <2>1, <2>3
      <3> QED
        BY ONLY <2>1, <3>1 DEF Ours
    <2>4. DialHeld'
      BY <2>1
    <2> QED
      BY <2>2, <2>3, <2>4
  <1>7. CASE UNCHANGED vars
    BY <1>7
  <1> QED
    BY <1>1, <1>2, <1>3, <1>4, <1>5, <1>6, <1>7, NextCases
-----------------------------------------------------------------------------
(* The session and what the receive thread does with it.                   *)

(* A recv() of the receive thread ends in a callback or in the end of the  *)
(* connection; the session's end is only taken from its own socket.        *)
LEMMA RecvHeld ==
  ASSUME TypeOK, Roles, Held, Recv \/ RecvWakes
  PROVE  Held'
  <1> USE KernelAssumption, ClientAssumption
      DEF TypeOK, KernelTypeOK, Files, Threads, At, Go
  <1>1. /\ alive /\ pc[Rcv] \in {"recv", "blocked"}
        /\ UNCHANGED <<m_sockfd, m_thread, session, alive, fdt>>
    BY RecvEffect
  <1>2. PICK ok \in BOOLEAN : /\ pc' = [pc EXCEPT ![Rcv] = IF ok THEN "callback" ELSE "lost"]
                              /\ m_stop' = (m_stop \/ ~ok)
    BY RecvEffect
  <1>3. SessionHeld'
    BY <1>1, <1>2 DEF Held, SessionHeld
  <1>4. FoundReady' /\ BlockedDials'
    BY <1>1, <1>2 DEF FoundReady, BlockedDials
  <1>5. DisconnectHonest'
    <2> SUFFICES ASSUME pc'[Rcv] = "lost", session # NoConn PROVE peer'[session] # "up"
      BY <1>1 DEF DisconnectHonest
    <2>1. session \in Conns /\ m_sockfd \in Fds /\ fdt[m_sockfd] = session
      BY <1>1 DEF Held, SessionHeld
    <2>2. RecvOn(m_sockfd)
      BY <1>1 DEF Recv, RecvWakes, Held, BlockedDials
    <2>3. ~AfterRecv(TRUE)
      BY DEF AfterRecv
    <2>4. RecvEof(session) \/ RecvErr(session)
      BY <2>1, <2>2, <2>3 DEF RecvOn
    <2> QED
      BY <2>1, <2>4 DEF RecvEof, RecvErr, kernelVars
  <1> QED
    BY <1>3, <1>4, <1>5 DEF Held

(* Every step keeps Held.                                                  *)
LEMMA HeldStep ==
  ASSUME TypeOK, Roles, Owned, Held, [Next]_vars
  PROVE  Held'
  <1> USE KernelAssumption, ClientAssumption
      DEF Roles, ThreadRoles, SessionGivenUp, EndStops, DialKnown, Held, SessionHeld,
          DisconnectHonest, FoundReady, BlockedDials, OwnerDials, Ours,
          TypeOK, KernelTypeOK, Files, Connecting, Closing, CallPoints, TaskPoints, Threads,
          kernelVars, streamVars, members, shared, vars, At, Go, Back, MayCall, Ready, Readable
  <1>1. ASSUME NEW t \in Threads, Call(t) PROVE Held'
    <2>1. CASE connectTo(t)
      BY <2>1 DEF connectTo
    <2>2. CASE sendMsg(t)
      BY <2>2 DEF sendMsg
    <2>3. CASE finish(t)
      BY <2>3 DEF finish
    <2> QED
      BY <1>1, <2>1, <2>2, <2>3 DEF Call
  <1>2. ASSUME NEW t \in Threads, Continue(t) PROVE Held'
    <2>1. CASE ConnectNoSocket(t)
      BY <2>1 DEF ConnectNoSocket
    <2>2. CASE ConnectFails(t)
      BY <2>2 DEF ConnectFails
    <2>3. CASE ConnectRead(t)
      BY <2>3 DEF ConnectRead
    <2>4. CASE ConnectForeign(t)
      BY <2>4 DEF ConnectForeign
    <2>5. ASSUME NEW f \in Fds, ConnectSocket(t, f) PROVE Held'
      BY <2>5 DEF ConnectSocket, Socket
    <2>6. ASSUME NEW c \in Conns, ConnectStarts(t, c) PROVE Held'
      <3>1. /\ pc[t] = "connect" /\ fd[t] \in Fds
            /\ pc' = [pc EXCEPT ![t] = "connecting"] /\ dial' = [dial EXCEPT ![t] = c]
            /\ fdt' = [fdt EXCEPT ![fd[t]] = c] /\ stage' = [stage EXCEPT ![c] = "syn"]
            /\ UNCHANGED <<m_sockfd, fd, peer, unread, session>>
            /\ stage[c] # "queued"
        BY <2>6 DEF ConnectStarts, Connect
      <3>2. session = NoConn
        BY <3>1
      <3>3. t \in {Owner, Rcv}
        BY <3>1
      <3>4. CASE t = Rcv
        BY <3>1, <3>2, <3>4
      <3>5. CASE t = Owner
        <4>1. OwnerDials(fd[t])'
          BY <3>1, <3>5
        <4>2. \A f \in Fds : f # fd[t] /\ Ready(f) => Ready(f)'
          BY <3>1
        <4>3. \A f \in Fds : ~OwnerDials(f)
          BY <3>1, <3>5
        <4>4. UNCHANGED alive /\ pc'[Rcv] = pc[Rcv]
          BY <2>6, <3>1, <3>5 DEF ConnectStarts
        <4>5. FoundReady'
          BY <3>1, <4>1, <4>2, <4>3, <4>4
        <4>6. \A f \in Fds : Ours(f) => Ours(f)'
          BY <3>1
        <4>7. BlockedDials'
          BY <3>1, <4>1, <4>2, <4>3, <4>4, <4>6
        <4> QED
          BY <3>1, <3>2, <4>5, <4>7
      <3> QED
        BY <3>3, <3>4, <3>5
    <2>7. CASE ConnectEstablished(t)
      BY <2>7 DEF ConnectEstablished, Establish
    <2>8. CASE ConnectRefused(t)
      <3>1. /\ pc[t] = "connecting" /\ dial[t] \in Conns
            /\ pc' = [pc EXCEPT ![t] = Back(t)]
            /\ UNCHANGED <<m_sockfd, peer, unread, session, alive>>
        BY <2>8 DEF ConnectRefused, Refuse
      <3>2. \A u \in Threads : u # t => fd'[u] = fd[u]
        BY <2>8 DEF ConnectRefused
      <3>3. \A f \in Fds : fdt'[f] = fdt[f] \/ (fdt[f] \in Conns /\ fdt'[f] = "sock")
        BY <2>8, <3>1 DEF ConnectRefused, Refuse
      <3>4. session = NoConn /\ t \in {Owner, Rcv}
        BY <3>1
      <3>5. CASE t = Rcv
        BY <3>1, <3>4, <3>5
      <3>6. CASE t = Owner
        <4>6. \A c \in Conns : stage[c] = "queued" => stage'[c] = "queued"
          BY <2>8, <3>1 DEF ConnectRefused, Refuse
        <4>1. \A f \in Fds : Ready(f) => Ready(f)'
          BY <3>1, <3>3, <4>6
        <4>2. \A f \in Fds : OwnerDials(f) => Ready(f)'
          BY <2>8, <3>1, <3>6 DEF ConnectRefused, Refuse
        <4>3. pc'[Rcv] = pc[Rcv] /\ fd'[Rcv] = fd[Rcv]
          BY <3>1, <3>2, <3>6
        <4>4. FoundReady'
          BY <3>1, <4>1, <4>2, <4>3
        <4>5. BlockedDials'
          <5> SUFFICES ASSUME alive', pc'[Rcv] = "blocked" PROVE BlockedDials'
            OBVIOUS
          <5>1. /\ fd[Rcv] \in Fds /\ fdt[fd[Rcv]] \in Conns \cup {"sock"}
                /\ Ready(fd[Rcv]) \/ OwnerDials(fd[Rcv])
            BY <3>1, <4>3
          <5>2. Ready(fd[Rcv])'
            <6>1. PICK g \in Fds : g = fd[Rcv]
              BY <5>1
            <6>2. Ready(g) \/ OwnerDials(g)
              BY <5>1, <6>1
            <6>3. Ready(g)'
              BY ONLY <4>1, <4>2, <6>2
            <6> QED
              BY <4>3, <6>1, <6>3
          <5>3. fdt'[fd[Rcv]] \in Conns \cup {"sock"}
            BY <3>3, <5>1
          <5> QED
            BY <3>1, <3>4, <4>3, <5>1, <5>2, <5>3
        <4> QED
          BY <3>1, <3>4, <4>4, <4>5
      <3> QED
        BY <3>4, <3>5, <3>6
    <2>9. CASE ConnectThread(t)
      <3>1. CASE m_thread
        <4>1. alive' = FALSE
          BY <2>9, <3>1 DEF ConnectThread
        <4> QED
          BY <4>1
      <3>2. CASE ~m_thread
        <4>1. /\ m_thread' = TRUE /\ pc' = [pc EXCEPT ![t] = Back(t), ![Rcv] = "loop"]
              /\ session' = dial[t] /\ UNCHANGED <<m_sockfd, fdt>>
              /\ pc[t] = "thread"
          BY <2>9, <3>2 DEF ConnectThread
        <4>2. pc'[Rcv] = "loop"
          BY <4>1
        <4>3. t = Owner /\ pc[Rcv] = "none"
          BY <3>2, <4>1
        <4>4. m_sockfd \in Fds /\ fdt[m_sockfd] = dial[t]
          BY <4>1, <4>3 DEF Owned, DialHeld
        <4> QED
          BY <4>1, <4>2, <4>4
      <3> QED
        BY <3>1, <3>2
    <2>10. CASE SendOnFd(t)
      BY <2>10 DEF SendOnFd, Send
    <2>11. CASE FinishJoin(t)
      BY <2>11 DEF FinishJoin
    <2>12. CASE FinishTest(t)
      BY <2>12 DEF FinishTest
    <2>13. CASE FinishClose(t)
      BY <2>13 DEF FinishClose, Close
    <2>14. CASE FinishReset(t)
      BY <2>14 DEF FinishReset
    <2> QED
      BY <1>2, <2>1, <2>2, <2>3, <2>4, <2>5, <2>6, <2>7, <2>8,
         <2>9, <2>10, <2>11, <2>12, <2>13, <2>14 DEF Continue
  <1>3. CASE ReceiveTask
    <2>1. CASE LoopTest
      BY <2>1 DEF LoopTest
    <2>2. CASE SelectArgs
      BY <2>2 DEF SelectArgs
    <2>3. CASE Select
      BY <2>3 DEF Select
    <2>4. CASE FdIsset
      BY <2>4 DEF FdIsset
    <2>5. CASE Recv
      BY <2>5, RecvHeld
    <2>6. CASE RecvBlocks
      BY <2>6 DEF RecvBlocks
    <2>7. CASE RecvWakes
      BY <2>7, RecvHeld
    <2>8. CASE publishDisconnected
      BY <2>8 DEF publishDisconnected
    <2> QED
      BY <1>3, <2>1, <2>2, <2>3, <2>4, <2>5, <2>6, <2>7, <2>8 DEF ReceiveTask
  <1>4. CASE FdMacroAborts
    BY <1>4 DEF FdMacroAborts
  <1>5. CASE CallbackReturns
    BY <1>5 DEF CallbackReturns
  <1>6. CASE Environment
    <2>1. /\ UNCHANGED <<m_sockfd, m_stop, m_thread, session, alive, pc, fd, dial>>
          /\ \A f \in Fds : Ours(f) => fdt'[f] = fdt[f]
          /\ \A c \in Conns : stage[c] = "syn" => stage'[c] = "syn"
      BY <1>6, EnvironmentEffect
    <2>2. \A c \in Conns : /\ peer[c] # "up" => peer'[c] # "up"
                           /\ unread[c] > 0 => unread'[c] > 0
      <3>1. ASSUME NEW d \in Conns, PeerSend(d)
            PROVE  peer' = peer /\ \A c \in Conns : unread[c] > 0 => unread'[c] > 0
        BY <3>1 DEF PeerSend
      <3>2. ASSUME NEW d \in Conns, PeerClose(d, "fin") \/ PeerClose(d, "rst")
            PROVE  unread' = unread /\ \A c \in Conns : peer[c] # "up" => peer'[c] # "up"
        BY <3>2 DEF PeerClose
      <3> QED
        BY <1>6, <3>1, <3>2 DEF Environment, Peers, PeerConnect, PeerRead, ForeignOpen, ForeignClose
    <2>3. \A f \in Fds : fdt[f] \in Conns \cup {"sock"} /\ Ready(f) => Ready(f)'
      BY <2>1, <2>2
    <2>4. \A f \in Fds : Ours(f) /\ OwnerDials(f) => OwnerDials(f)'
      BY <2>1
    <2>5. SessionHeld' /\ DisconnectHonest'
      BY <2>1, <2>2
    <2>6. FoundReady'
      <3>1. /\ alive /\ m_sockfd # INVALID_SOCKET /\ pc[Rcv] \in {"recv", "isset"}
            => fdt[m_sockfd] \in Conns \cup {"sock"}
        BY DEF Owned, SockfdOwned
      <3> QED
        BY <2>1, <2>3, <2>4, <3>1
    <2>7. BlockedDials'
      <3> SUFFICES ASSUME alive', pc'[Rcv] = "blocked" PROVE BlockedDials'
        OBVIOUS
      <3>1. /\ session = NoConn /\ fd[Rcv] \in Fds /\ fdt[fd[Rcv]] \in Conns \cup {"sock"}
            /\ Ready(fd[Rcv]) \/ OwnerDials(fd[Rcv])
        BY <2>1
      <3>2. Ours(fd[Rcv])
        BY <3>1
      <3>3. PICK g \in Fds : g = fd[Rcv]
        BY <3>1
      <3>4. (Ready(g) \/ OwnerDials(g))'
        BY <2>3, <2>4, <3>1, <3>2, <3>3
      <3>5. session' = NoConn /\ fd'[Rcv] = g /\ fdt'[g] \in Conns \cup {"sock"}
        BY <2>1, <3>1, <3>2, <3>3
      <3> QED
        BY ONLY <3>3, <3>4, <3>5 DEF BlockedDials
    <2> QED
      BY <2>5, <2>6, <2>7
  <1>7. CASE UNCHANGED vars
    BY <1>7
  <1> QED
    BY <1>1, <1>2, <1>3, <1>4, <1>5, <1>6, <1>7, NextCases

(* Every step keeps OneSocket.                                             *)
LEMMA OneSocketStep ==
  ASSUME TypeOK, Roles, OneSocket, [Next]_vars
  PROVE  OneSocket'
  <1> USE KernelAssumption, ClientAssumption
      DEF OneSocket, Ours, Roles, ThreadRoles, DialKnown, TypeOK, KernelTypeOK, Files,
          Connecting, Closing, CallPoints, TaskPoints, Threads, kernelVars, streamVars,
          members, shared, vars, At, Go, Back, MayCall
  <1>1. ASSUME NEW t \in Threads, Call(t) PROVE OneSocket'
    <2>1. CASE connectTo(t)
      BY <2>1 DEF connectTo
    <2>2. CASE sendMsg(t)
      BY <2>2 DEF sendMsg
    <2>3. CASE finish(t)
      BY <2>3 DEF finish
    <2> QED
      BY <1>1, <2>1, <2>2, <2>3 DEF Call
  <1>2. ASSUME NEW t \in Threads, Continue(t) PROVE OneSocket'
    <2>1. CASE ConnectNoSocket(t)
      BY <2>1 DEF ConnectNoSocket
    <2>2. CASE ConnectFails(t)
      BY <2>2 DEF ConnectFails
    <2>3. CASE ConnectRead(t)
      BY <2>3 DEF ConnectRead
    <2>4. CASE ConnectForeign(t)
      BY <2>4 DEF ConnectForeign
    <2>5. ASSUME NEW f \in Fds, ConnectSocket(t, f) PROVE OneSocket'
      BY <2>5 DEF ConnectSocket, Socket
    <2>6. ASSUME NEW c \in Conns, ConnectStarts(t, c) PROVE OneSocket'
      BY <2>6 DEF ConnectStarts, Connect
    <2>7. CASE ConnectEstablished(t)
      BY <2>7 DEF ConnectEstablished, Establish
    <2>8. CASE ConnectRefused(t)
      BY <2>8 DEF ConnectRefused, Refuse
    <2>9. CASE ConnectThread(t)
      <3>1. /\ pc[t] = "thread" /\ UNCHANGED <<m_sockfd, fdt, connects>>
            /\ fd' = [fd EXCEPT ![t] = INVALID_SOCKET]
        BY <2>9 DEF ConnectThread
      <3>2. CASE m_thread
        <4>1. UNCHANGED pc
          BY <2>9, <3>2 DEF ConnectThread
        <4> QED
          BY <3>1, <4>1
      <3>3. CASE ~m_thread
        <4>1. pc' = [pc EXCEPT ![t] = Back(t), ![Rcv] = "loop"]
          BY <2>9, <3>3 DEF ConnectThread
        <4>2. t = Owner /\ pc[Rcv] = "none" /\ pc'[Owner] = "idle"
          BY <3>1, <3>3, <4>1
        <4>3. \A u \in Threads : pc'[u] \in {"reset", "closing"} => pc'[u] = pc[u] /\ u # t
          BY <3>1, <4>1
        <4> QED
          BY <3>1, <4>1, <4>2, <4>3
      <3> QED
        BY <3>2, <3>3
    <2>10. CASE SendOnFd(t)
      BY <2>10 DEF SendOnFd, Send
    <2>11. CASE FinishJoin(t)
      BY <2>11 DEF FinishJoin
    <2>12. CASE FinishTest(t)
      BY <2>12 DEF FinishTest
    <2>13. CASE FinishClose(t)
      BY <2>13 DEF FinishClose, Close
    <2>14. CASE FinishReset(t)
      BY <2>14 DEF FinishReset
    <2> QED
      BY <1>2, <2>1, <2>2, <2>3, <2>4, <2>5, <2>6, <2>7, <2>8,
         <2>9, <2>10, <2>11, <2>12, <2>13, <2>14 DEF Continue
  <1>3. CASE ReceiveTask
    <2>1. CASE LoopTest
      BY <2>1 DEF LoopTest
    <2>2. CASE SelectArgs
      BY <2>2 DEF SelectArgs
    <2>3. CASE Select
      BY <2>3 DEF Select
    <2>4. CASE FdIsset
      BY <2>4 DEF FdIsset
    <2>5. CASE Recv
      BY <2>5, RecvEffect
    <2>6. CASE RecvBlocks
      BY <2>6 DEF RecvBlocks
    <2>7. CASE RecvWakes
      BY <2>7, RecvEffect
    <2>8. CASE publishDisconnected
      BY <2>8 DEF publishDisconnected
    <2> QED
      BY <1>3, <2>1, <2>2, <2>3, <2>4, <2>5, <2>6, <2>7, <2>8 DEF ReceiveTask
  <1>4. CASE FdMacroAborts
    BY <1>4 DEF FdMacroAborts
  <1>5. CASE CallbackReturns
    BY <1>5 DEF CallbackReturns
  <1>6. CASE Environment
    BY <1>6, EnvironmentEffect
  <1>7. CASE UNCHANGED vars
    BY <1>7
  <1> QED
    BY <1>1, <1>2, <1>3, <1>4, <1>5, <1>6, <1>7, NextCases

(* The invariant is inductive.                                             *)
LEMMA InvStep == Inv /\ [Next]_vars => Inv'
  BY TypeStep, RolesStep, OwnedStep, HeldStep, OneSocketStep DEF Inv, Roles

-----------------------------------------------------------------------------
(* The invariant holds throughout every behaviour.                         *)
THEOREM Invariance == Spec => []Inv
  BY InitInv, InvStep, PTL DEF Spec

(* The members of TcpClient and the local state of its threads keep their  *)
(* types.                                                                  *)
THEOREM TypeCorrect == Spec => []TypeOK
  BY Invariance, PTL DEF Inv

(* No sequence of connectTo() calls, failures and finish() calls, from any *)
(* thread, leaves a stale number in m_sockfd: it names a closed socket     *)
(* only inside finish(), between Close() and the reset.                    *)
THEOREM SocketOwned == Spec => []SockfdOwned
  BY Invariance, PTL DEF Inv, Owned

(* The connection that connectTo() has reported stays the one m_sockfd     *)
(* names, with a receive thread at work, until the application gives it up.*)
THEOREM SessionKept == Spec => []SessionHeld
  BY Invariance, PTL DEF Inv, Held

(* recv() of the receive thread only waits for a connect() of the owner,   *)
(* although connectTo() may have replaced the socket since select().       *)
THEOREM RecvWaits == Spec => []RecvWaitsForConnect
  <1>1. Inv => RecvWaitsForConnect
    BY DEF Inv, Held, BlockedDials, OwnerDials, RecvWaitsForConnect, At
  <1> QED
    BY <1>1, Invariance, PTL

(* onDisconnect() is only called for a server that has gone.               *)
THEOREM DisconnectsHonest == Spec => []DisconnectHonest
  BY Invariance, PTL DEF Inv, Held

(* finish() never closes a descriptor of other code.                       *)
THEOREM OnlyOwnClosed == Spec => ClosesOnlyItsOwn
  <1> DEFINE Keeps == pc' # pc => \A f \in Fds : fdt[f] = "foreign" => fdt'[f] = "foreign"
  <1>1. ASSUME Inv, Next PROVE Keeps
    <2> SUFFICES ASSUME NEW f \in Fds, fdt[f] = "foreign", fdt'[f] # "foreign", pc' # pc
                 PROVE  FALSE
      OBVIOUS
    <2> USE KernelAssumption, ClientAssumption DEF Inv, TypeOK, KernelTypeOK, Files
    <2>1. ASSUME NEW t \in Threads, FinishClose(t) PROVE FALSE
      BY <1>1, <2>1 DEF FinishClose, Close, At, Owned, ClosingOurs, Ours
    <2>2. ASSUME NEW t \in Threads, NEW g \in Fds, ConnectSocket(t, g) PROVE FALSE
      BY <1>1, <2>2 DEF ConnectSocket, Socket, LowestFree
    <2>3. ASSUME NEW t \in Threads, NEW c \in Conns, ConnectStarts(t, c) PROVE FALSE
      BY <1>1, <2>3 DEF ConnectStarts, Connect, kernelVars
    <2>4. ASSUME NEW t \in Threads, ConnectEstablished(t) PROVE FALSE
      BY <1>1, <2>4 DEF ConnectEstablished, Establish
    <2>5. ASSUME NEW t \in Threads, ConnectRefused(t) PROVE FALSE
      <3>1. dial[t] \in Conns
        BY <1>1, <2>5 DEF ConnectRefused, At, Roles, DialKnown
      <3> QED
        BY <1>1, <2>5, <3>1 DEF ConnectRefused, Refuse, kernelVars
    <2>6. ASSUME NEW t \in Threads, Call(t) \/ Continue(t) PROVE FALSE
      BY <2>1, <2>2, <2>3, <2>4, <2>5, <2>6
         DEF Call, Continue, connectTo, sendMsg, finish, ConnectNoSocket, ConnectFails,
             ConnectRead, ConnectForeign, ConnectThread, SendOnFd, FinishJoin, FinishTest,
             FinishReset, Send, shared, kernelVars
    <2>7. ~(Recv \/ RecvWakes)
      BY <1>1, RecvEffect DEF Inv
    <2>8. ~(ReceiveTask \/ FdMacroAborts \/ CallbackReturns)
      BY <2>7 DEF ReceiveTask, FdMacroAborts, CallbackReturns, LoopTest, SelectArgs, Select,
             FdIsset, RecvBlocks, publishDisconnected, shared, kernelVars
    <2> QED
      BY <1>1, <2>6, <2>8, NextCases DEF Environment, vars
  <1>2. Inv /\ [Next]_vars => [Keeps]_vars
    BY <1>1
  <1> QED
    BY <1>2, Invariance, PTL DEF Spec, ClosesOnlyItsOwn

(* When finish() returns after one connectTo(), successful or not, no      *)
(* socket of the client is left open.                                      *)
THEOREM FinishReleases == Spec => FinishReleasesAll
  <1> DEFINE Releases ==
        \A t \in Threads : At(t, "reset") /\ pc'[t] # "reset" /\ connects = 1 =>
          \A f \in Fds : fdt'[f] \in {"free", "foreign"}
  <1>1. ASSUME Inv, Next PROVE Releases
    <2> SUFFICES ASSUME NEW t \in Threads, pc[t] = "reset", pc'[t] # "reset", connects = 1,
                        NEW f \in Fds
                 PROVE  fdt'[f] \in {"free", "foreign"}
      BY DEF At
    <2> USE KernelAssumption, ClientAssumption DEF Inv, TypeOK, Threads
    <2>1. fdt[f] \in {"free", "foreign"}
      BY <1>1 DEF OneSocket, Ours
    <2>2. ASSUME NEW u \in Threads, Call(u) PROVE UNCHANGED fdt
      BY <2>2 DEF Call, connectTo, sendMsg, finish, shared, kernelVars
    <2>3. ASSUME NEW u \in Threads, Continue(u) PROVE UNCHANGED fdt
      <3>1. CASE ConnectThread(u) \/ FinishJoin(u) \/ FinishReset(u)
        BY <3>1 DEF ConnectThread, FinishJoin, FinishReset, kernelVars
      <3>2. ASSUME ~(ConnectThread(u) \/ FinishJoin(u) \/ FinishReset(u)) PROVE FALSE
        BY <1>1, <2>3, <3>2
           DEF Continue, ConnectNoSocket, ConnectFails, ConnectRead, ConnectForeign,
               ConnectSocket, ConnectStarts, ConnectEstablished, ConnectRefused, SendOnFd,
               FinishTest, FinishClose, At, Go
      <3> QED
        BY <3>1, <3>2
    <2>4. CASE ReceiveTask \/ FdMacroAborts \/ CallbackReturns
      <3>1. CASE Recv \/ RecvWakes
        BY <1>1, <3>1, RecvEffect
      <3>2. CASE ~(Recv \/ RecvWakes)
        BY <2>1, <2>4, <3>2
           DEF ReceiveTask, FdMacroAborts, CallbackReturns, LoopTest, SelectArgs, Select, FdIsset,
               RecvBlocks, publishDisconnected, shared, kernelVars
      <3> QED
        BY <3>1, <3>2
    <2> QED
      BY <1>1, <2>1, <2>2, <2>3, <2>4, NextCases DEF Environment, vars
  <1>2. Inv /\ [Next]_vars => [Releases]_vars
    BY <1>1
  <1> QED
    BY <1>2, Invariance, PTL DEF Spec, FinishReleasesAll
=============================================================================
