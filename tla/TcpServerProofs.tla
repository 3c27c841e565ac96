-------------------------- MODULE TcpServerProofs --------------------------
(***************************************************************************)
(* Theorems about TcpServer, for every set of descriptors, connections and *)
(* application threads and every bound.                                    *)
(***************************************************************************)
EXTENDS TcpServer, TLAPS

(* The inductive invariant.                                                *)
Inv == TypeOK /\ Ownership /\ HandleOwnsSocket

USE DEF NoConn, NoThread, Srv, INVALID_SOCKET

(* The invariant holds before start() is called.                           *)
LEMMA InitInv == Init => Inv
  <1> SUFFICES ASSUME Init PROVE Inv
    OBVIOUS
  <1> USE KernelAssumption, ServerAssumption DEF Init, KernelInit
  <1>1. TypeOK
    <2>1. KernelTypeOK
      BY DEF KernelTypeOK, Files
    <2>2. pc \in [Threads -> Points]
      BY DEF Points, LoopPoints
    <2>3. m_isConnected \in [Conns -> BOOLEAN] /\ starts \in 0..MaxStarts
      OBVIOUS
    <2> QED
      BY <2>1, <2>2, <2>3 DEF TypeOK
  <1>2. Ownership
    BY DEF Ownership, ConnectionOnce, SockfdOpen, LockHeld, AcceptedIsNew, ThreadRoles,
           Registered, LoopPoints, CallPoints, DeletePoints, Threads, Files
  <1>3. HandleOwnsSocket
    BY DEF HandleOwnsSocket, Registered
  <1> QED
    BY <1>1, <1>2, <1>3 DEF Inv

(* A step of Next is a step of one of its actions.                         *)
LEMMA NextCases ==
  ASSUME Next
  PROVE  \/ start
         \/ \E t \in Threads : Call(t) \/ Continue(t)
         \/ serverTask \/ RecvWakesLate \/ CallbackReturns
         \/ Environment
         \/ UNCHANGED vars
  BY DEF Next, Rest

-----------------------------------------------------------------------------
(* Reception: recv() leaves the descriptor table alone, and what follows   *)
(* it only moves serverTask.                                               *)

Outcomes == {"data", "eof", "err"}

(* Whatever recv() returns, the kernel's state keeps its type and no       *)
(* connection changes hands.                                               *)
LEMMA RecvOnKernel ==
  ASSUME TypeOK, NEW c, RecvOn(c)
  PROVE  KernelTypeOK' /\ UNCHANGED <<fdt, stage>> /\ \E o \in Outcomes : AfterRecv(o)
  <1> USE DEF TypeOK, KernelTypeOK, kernelVars, Outcomes
  <1>1. CASE RecvData(c) /\ AfterRecv("data")
    <2>1. PICK n \in 0..(unread[c] - 1) : unread' = [unread EXCEPT ![c] = n]
      BY <1>1 DEF RecvData
    <2>2. c \in Conns => n \in 0..MaxUnread
      BY <2>1, KernelAssumption
    <2>3. unread' \in [Conns -> 0..MaxUnread]
      BY <2>1, <2>2
    <2> QED
      BY <1>1, <2>3 DEF RecvData
  <1>2. CASE RecvEof(c) /\ AfterRecv("eof")
    BY <1>2 DEF RecvEof
  <1>3. CASE RecvErr(c) /\ AfterRecv("err")
    BY <1>3 DEF RecvErr
  <1> QED
    BY <1>1, <1>2, <1>3 DEF RecvOn

(* A step of serverTask out of "recv" or "blocked" is a kernel step that   *)
(* keeps the descriptor table, followed by AfterRecv.                      *)
LEMMA RecvStep ==
  ASSUME TypeOK, RecvClient \/ RecvWakes \/ RecvWakesLate
  PROVE  /\ pc[Srv] \in {"recv", "blocked"}
         /\ KernelTypeOK' /\ UNCHANGED <<fdt, stage>> /\ \E o \in Outcomes : AfterRecv(o)
  <1>1. CASE RecvClient
    <2> DEFINE file == fdt[hnd[Srv]]
    <2>1. CASE file \in Conns /\ RecvOn(file)
      BY <1>1, <2>1, RecvOnKernel DEF RecvClient, At
    <2>2. CASE UNCHANGED kernelVars /\ \E o \in Outcomes : AfterRecv(o)
      BY <1>1, <2>2 DEF RecvClient, At, kernelVars, TypeOK, KernelTypeOK
    <2> QED
      BY <1>1, <2>1, <2>2 DEF RecvClient, Outcomes
  <1>2. CASE RecvWakes
    BY <1>2, RecvOnKernel DEF RecvWakes, At
  <1>3. CASE RecvWakesLate
    BY <1>3 DEF RecvWakesLate, At, kernelVars, TypeOK, KernelTypeOK, Outcomes
  <1> QED
    BY <1>1, <1>2, <1>3

-----------------------------------------------------------------------------
(* Type correctness.                                                       *)

(* Every step of the library and of its surroundings keeps the types.      *)
LEMMA TypeStep ==
  ASSUME TypeOK, Ownership, [Next]_vars
  PROVE  TypeOK'
  <1> USE KernelAssumption, ServerAssumption
      DEF TypeOK, KernelTypeOK, Files, Points, LoopPoints, CallPoints, DeletePoints, Threads,
          kernelVars, streamVars, lifecycle, table, locals, shared, vars, Registered,
          At, Go, Back, Forget, MayCall, Lock, Unlock, FD_SET, FD_CLR
  <1>1. ASSUME KernelTypeOK', NEW o \in Outcomes, AfterRecv(o) PROVE TypeOK'
    <2>1. m_isConnected' \in [Conns -> BOOLEAN]
      BY <1>1 DEF AfterRecv
    <2> QED
      BY <1>1, <2>1 DEF AfterRecv, AfterRecvPoint, Outcomes
  <1>2. CASE start
    <2>1. CASE StartNoSocket
      <3>1. started' \in BOOLEAN
        BY <2>1 DEF StartNoSocket
      <3> QED
        BY <2>1, <3>1 DEF StartNoSocket, StartCall
    <2>2. ASSUME NEW f \in Fds, StartSetupFails(f) PROVE TypeOK'
      <3>1. started' \in BOOLEAN
        BY <2>2 DEF StartSetupFails
      <3> QED
        BY <2>2, <3>1 DEF StartSetupFails, StartCall, LowestFree
    <2>3. ASSUME NEW f \in Fds, StartSucceeds(f) PROVE TypeOK'
      <3>1. KernelTypeOK' /\ m_sockfd' \in Fds /\ m_fds' \subseteq Fds /\ starts' \in 0..MaxStarts
        BY <2>3 DEF StartSucceeds, StartCall
      <3>2. m_thread' \in BOOLEAN /\ started' \in BOOLEAN /\ alive' \in BOOLEAN
        BY <2>3 DEF StartSucceeds
      <3>3. pc' \in [Threads -> Points]
        BY <2>3 DEF StartSucceeds
      <3> QED
        BY <2>3, <3>1, <3>2, <3>3 DEF StartSucceeds, StartCall
    <2> QED
      BY <1>2, <2>1, <2>2, <2>3 DEF start
  <1>3. CASE \E t \in Threads : Call(t)
    <2>1. ASSUME NEW t \in Threads, NEW h \in Fds, DeleteCall(t, h) PROVE TypeOK'
      BY <2>1 DEF DeleteCall, deleteClient
    <2>2. ASSUME NEW t \in Threads, NEW h \in Fds, sendClientMessage(t, h) PROVE
          TypeOK'
      BY <2>2 DEF sendClientMessage
    <2>3. ASSUME NEW t \in Threads, sendBcast(t) PROVE TypeOK'
      BY <2>3 DEF sendBcast
    <2>4. ASSUME NEW t \in Threads, finish(t) PROVE TypeOK'
      BY <2>4 DEF finish
    <2> QED
      BY <1>3, <2>1, <2>2, <2>3, <2>4 DEF Call
  <1>4. CASE \E t \in Threads : Continue(t)
    <2>1. ASSUME NEW t \in Threads, DeleteClose(t) PROVE TypeOK'
      BY <2>1 DEF DeleteClose, Close
    <2>2. ASSUME NEW t \in Threads, DeleteClrRead(t) PROVE TypeOK'
      BY <2>2 DEF DeleteClrRead
    <2>3. ASSUME NEW t \in Threads, DeleteClrWrite(t) PROVE TypeOK'
      BY <2>3 DEF DeleteClrWrite
    <2>4. ASSUME NEW t \in Threads, DeleteErase(t) PROVE TypeOK'
      BY <2>4 DEF DeleteErase
    <2>5. ASSUME NEW t \in Threads, BcastSend(t) PROVE TypeOK'
      <3>1. KernelTypeOK'
        BY <2>5 DEF BcastSend, Send
      <3>2. todo' \subseteq Fds
        BY <2>5 DEF BcastSend
      <3> QED
        BY <2>5, <3>1, <3>2 DEF BcastSend
    <2>6. ASSUME NEW t \in Threads, ClientSendMsg(t) PROVE TypeOK'
      BY <2>6 DEF ClientSendMsg, Send
    <2>7. ASSUME NEW t \in Threads, FinishJoin(t) PROVE TypeOK'
      BY <2>7 DEF FinishJoin
    <2>8. ASSUME NEW t \in Threads, FinishClose(t) PROVE TypeOK'
      BY <2>8 DEF FinishClose, Close, OwnedFds
    <2> QED
      BY <1>4, <2>1, <2>2, <2>3, <2>4, <2>5, <2>6, <2>7, <2>8 DEF Continue
  <1>5. CASE serverTask
    <2>1. CASE LoopTest
      BY <2>1 DEF LoopTest
    <2>2. CASE CopyFds
      BY <2>2 DEF CopyFds
    <2>3. CASE findMaxFd
      BY <2>3 DEF findMaxFd
    <2>4. CASE Select
      BY <2>4 DEF Select, Ready
    <2>5. CASE ScanEnds
      BY <2>5 DEF ScanEnds
    <2>6. ASSUME NEW f \in Fds, ScanNext(f) PROVE TypeOK'
      BY <2>6 DEF ScanNext
    <2>7. CASE RecvClient
      BY <2>7, RecvStep, <1>1
    <2>8. CASE RecvBlocks
      BY <2>8 DEF RecvBlocks
    <2>9. CASE RecvWakes
      BY <2>9, RecvStep, <1>1
    <2>10. CASE DeleteGone
      BY <2>10 DEF DeleteGone, deleteClient
    <2>11. CASE publishDisconnected
      BY <2>11 DEF publishDisconnected
    <2>12. CASE AcceptFails
      BY <2>12 DEF AcceptFails
    <2>13. ASSUME NEW c \in Conns, NEW f \in Fds, AcceptClient(c, f) PROVE TypeOK'
      BY <2>13 DEF AcceptClient, Accept, LowestFree
    <2>14. CASE EmplaceClient
      <3>1. CASE hnd[Srv] \in Registered
        BY <2>14, <3>1 DEF EmplaceClient
      <3>2. CASE hnd[Srv] \notin Registered
        <4>1. m_isConnected' \in [Conns -> BOOLEAN]
          <5>1. m_isConnected' = [m_isConnected EXCEPT ![ptr[Srv]] = TRUE]
            BY <2>14, <3>2 DEF EmplaceClient
          <5> QED
            BY <5>1
        <4> QED
          BY <2>14, <3>2, <4>1 DEF EmplaceClient
      <3> QED
        BY <3>1, <3>2
    <2>15. CASE FdSetRead
      BY <2>15 DEF FdSetRead
    <2>16. CASE FdSetWrite
      BY <2>16 DEF FdSetWrite, Ownership, AcceptedIsNew
    <2>17. CASE publishClientConnect
      BY <2>17 DEF publishClientConnect
    <2>18. CASE publishClientMsg
      BY <2>18 DEF publishClientMsg
    <2> QED
      BY <1>5, <2>1, <2>2, <2>3, <2>4, <2>5, <2>6, <2>7, <2>8, <2>9, <2>10, <2>11, <2>12,
      <2>13, <2>14, <2>15, <2>16, <2>17, <2>18 DEF serverTask
  <1>6. CASE RecvWakesLate
    BY <1>6, RecvStep, <1>1
  <1>7. CASE CallbackReturns
    BY <1>7 DEF CallbackReturns
  <1>8. CASE Environment
    <2>1. KernelTypeOK'
      <3>1. ASSUME NEW c \in Conns, PeerConnect(c) PROVE KernelTypeOK'
        BY <3>1 DEF PeerConnect
      <3>2. ASSUME NEW c \in Conns, PeerSend(c) PROVE KernelTypeOK'
        BY <3>2 DEF PeerSend
      <3>3. ASSUME NEW c \in Conns, PeerRead(c) PROVE KernelTypeOK'
        BY <3>3 DEF PeerRead
      <3>4. ASSUME NEW c \in Conns, PeerClose(c, "fin") \/ PeerClose(c, "rst")
            PROVE  KernelTypeOK'
        BY <3>4 DEF PeerClose
      <3>5. ASSUME NEW f \in Fds, ForeignOpen(f) \/ ForeignClose(f) PROVE KernelTypeOK'
        BY <3>5 DEF ForeignOpen, ForeignClose
      <3> QED
        BY <1>8, <3>1, <3>2, <3>3, <3>4, <3>5 DEF Environment, Peers
    <2> QED
      BY <1>8, <2>1 DEF Environment
  <1>9. CASE UNCHANGED vars
    BY <1>9
  <1> QED
    BY <1>2, <1>3, <1>4, <1>5, <1>6, <1>7, <1>8, <1>9, NextCases

-----------------------------------------------------------------------------
(* Ownership.                                                              *)

Owned == Ownership /\ HandleOwnsSocket

(* A step inside the loop of serverTask that touches neither the           *)
(* descriptor table nor the register keeps the invariant.                  *)
LEMMA LoopStep ==
  ASSUME TypeOK, Owned, NEW l \in LoopPoints \ {"none", "emplace"},
         pc[Srv] \in LoopPoints \ {"none"},
         pc' = [pc EXCEPT ![Srv] = l],
         UNCHANGED <<fdt, stage, m_clients, m_mutex, m_sockfd, m_thread>>,
         \A t \in AppThreads : hnd'[t] = hnd[t],
         l \in {"fdset", "fdsetW", "connect"} => hnd'[Srv] \in Fds
  PROVE  Owned'
  <1> USE KernelAssumption, ServerAssumption
      DEF Owned, Ownership, TypeOK, KernelTypeOK, Threads, Registered, LoopPoints, DeletePoints
  <1>1. ConnectionOnce' /\ SockfdOpen'
    BY DEF ConnectionOnce, SockfdOpen
  <1>2. LockHeld'
    BY DEF LockHeld
  <1>3. AcceptedIsNew'
    BY DEF AcceptedIsNew
  <1>4. ThreadRoles'
    BY DEF ThreadRoles, CallPoints
  <1>5. HandleOwnsSocket'
    BY DEF HandleOwnsSocket
  <1> QED
    BY <1>1, <1>2, <1>3, <1>4, <1>5

(* Each attempt of start() keeps the invariant.                            *)
LEMMA StartOwned ==
  ASSUME TypeOK, Owned, start
  PROVE  Owned'
  <1> USE KernelAssumption, ServerAssumption
      DEF Owned, Ownership, ConnectionOnce, SockfdOpen, LockHeld, AcceptedIsNew, ThreadRoles,
          HandleOwnsSocket, TypeOK, KernelTypeOK, Files, Threads, Registered, LoopPoints,
          CallPoints, DeletePoints, kernelVars, streamVars, table, locals, At, StartCall
  <1>1. CASE StartNoSocket
    BY <1>1 DEF StartNoSocket
  <1>2. ASSUME NEW f \in Fds, StartSetupFails(f) PROVE Owned'
    BY <1>2 DEF StartSetupFails, LowestFree
  <1>3. ASSUME NEW f \in Fds, StartSucceeds(f) PROVE Owned'
    <2>1. /\ fdt[f] = "free" /\ fdt' = [fdt EXCEPT ![f] = "listen"] /\ m_sockfd' = f
          /\ UNCHANGED <<stage, m_clients, m_mutex, hnd, ptr>>
      BY <1>3 DEF StartSucceeds, LowestFree
    <2>2. CASE m_thread
      <3>1. UNCHANGED <<m_thread, pc>>
        BY <1>3, <2>2 DEF StartSucceeds
      <3> QED
        BY <2>1, <3>1
    <2>3. CASE ~m_thread
      <3>1. m_thread' = TRUE /\ pc' = [pc EXCEPT ![Srv] = "loop"]
        BY <1>3, <2>3 DEF StartSucceeds, Go
      <3>2. pc[Srv] = "none" /\ pc[Owner] = "idle"
        BY <1>3, <2>3 DEF StartSucceeds
      <3>3. ConnectionOnce' /\ SockfdOpen'
        BY <2>1
      <3>4. LockHeld' /\ ThreadRoles'
        BY <2>1, <3>1, <3>2
      <3>5. AcceptedIsNew' /\ HandleOwnsSocket'
        BY <2>1, <3>1, <3>2
      <3> QED
        BY <3>3, <3>4, <3>5
    <2> QED
      BY <2>2, <2>3
  <1> QED
    BY <1>1, <1>2, <1>3 DEF start

(* Calling a public operation keeps the invariant.                         *)
LEMMA CallOwned ==
  ASSUME TypeOK, Owned, NEW t \in Threads, Call(t)
  PROVE  Owned'
  <1> USE KernelAssumption, ServerAssumption
      DEF Owned, Ownership, ConnectionOnce, SockfdOpen, LockHeld, AcceptedIsNew, ThreadRoles,
          HandleOwnsSocket, TypeOK, KernelTypeOK, Files, Threads, Registered, LoopPoints,
          CallPoints, DeletePoints, kernelVars, lifecycle, table, locals, shared,
          At, Go, Back, Forget, MayCall, Lock, Unlock
  <1>1. ASSUME NEW h \in Fds, DeleteCall(t, h) PROVE Owned'
    BY <1>1 DEF DeleteCall, deleteClient
  <1>2. ASSUME NEW h \in Fds, sendClientMessage(t, h) PROVE Owned'
    BY <1>2 DEF sendClientMessage
  <1>3. CASE sendBcast(t)
    BY <1>3 DEF sendBcast
  <1>4. CASE finish(t)
    BY <1>4 DEF finish
  <1> QED
    BY <1>1, <1>2, <1>3, <1>4 DEF Call

(* What deleteClient() closes is the connection of the handle it was       *)
(* given, which no other descriptor refers to and serverTask has not just  *)
(* accepted; nobody else is inside deleteClient().                         *)
LEMMA DeletesItsOwn ==
  ASSUME TypeOK, Owned, NEW t \in Threads, pc[t] = "delClose"
  PROVE  /\ hnd[t] \in Fds /\ m_clients[hnd[t]] \in Conns
         /\ fdt[hnd[t]] = m_clients[hnd[t]]
         /\ \A u \in Threads : u # t => pc[u] \notin DeletePoints
         /\ \A f \in Fds : f # hnd[t] => fdt[f] # m_clients[hnd[t]]
         /\ pc[Srv] = "emplace" => hnd[Srv] # hnd[t]
  <1>1. pc[t] \in DeletePoints
    BY DEF DeletePoints
  <1>2. m_mutex = t /\ hnd[t] \in Registered
    BY <1>1 DEF Owned, Ownership, LockHeld
  <1>3. \A u \in Threads : u # t => pc[u] \notin DeletePoints
    BY <1>2 DEF Owned, Ownership, LockHeld
  <1>4. hnd[t] \in Fds /\ m_clients[hnd[t]] \in Conns
    BY <1>2 DEF Registered, TypeOK
  <1>5. fdt[hnd[t]] = m_clients[hnd[t]]
    BY <1>2, <1>3 DEF Owned, HandleOwnsSocket
  <1>6. \A f \in Fds : f # hnd[t] => fdt[f] # m_clients[hnd[t]]
    BY <1>4, <1>5 DEF Owned, Ownership, ConnectionOnce
  <1>7. pc[Srv] = "emplace" => hnd[Srv] # hnd[t]
    BY <1>4, <1>5 DEF Owned, Ownership, AcceptedIsNew
  <1> QED
    BY <1>3, <1>4, <1>5, <1>6, <1>7

(* So does every later step of an operation.  deleteClient() closes the    *)
(* socket of the handle it was given, which is not the one serverTask has  *)
(* just accepted; finish() closes sockets when serverTask has ended or is  *)
(* the caller.                                                             *)
LEMMA ContinueOwned ==
  ASSUME TypeOK, Owned, NEW t \in Threads, Continue(t)
  PROVE  Owned'
  <1> USE KernelAssumption, ServerAssumption
      DEF Owned, Ownership, ConnectionOnce, SockfdOpen, LockHeld, AcceptedIsNew, ThreadRoles,
          HandleOwnsSocket, TypeOK, KernelTypeOK, Files, Threads, Registered, LoopPoints,
          CallPoints, DeletePoints, kernelVars, lifecycle, table, locals, shared,
          At, Go, Back, Forget, MayCall, Lock, Unlock
  <1>1. CASE DeleteClose(t)
    <2> DEFINE own == m_clients[hnd[t]]
    <2>1. /\ pc[t] = "delClose" /\ pc' = [pc EXCEPT ![t] = "delClr"]
          /\ UNCHANGED <<m_clients, m_sockfd, m_thread, m_mutex, hnd, ptr>>
      BY <1>1 DEF DeleteClose
    <2>2. hnd[t] \in Fds /\ own \in Conns
      BY <2>1, DeletesItsOwn
    <2>3. \A u \in Threads : u # t => pc[u] \notin DeletePoints
      BY <2>1, DeletesItsOwn
    <2>4. fdt[hnd[t]] = own
      BY <2>1, DeletesItsOwn
    <2>5. fdt' = [f \in Fds |-> IF f = hnd[t] THEN "free" ELSE fdt[f]]
      BY <1>1, <2>2 DEF DeleteClose, Close
    <2>6. stage' = [c \in Conns |-> IF c = own THEN "closed" ELSE stage[c]]
      <3>1. own # "listen"
        BY <2>2
      <3> QED
        BY <1>1, <2>4, <3>1 DEF DeleteClose, Close
    <2> HIDE DEF own
    <2>7. ConnectionOnce'
      <3>1. \A f \in Fds : fdt'[f] \in Conns => fdt'[f] = fdt[f] /\ f # hnd[t]
        BY <2>5
      <3>2. \A f \in Fds : f # hnd[t] => fdt[f] # own
        BY <2>1, DeletesItsOwn DEF own
      <3>3. \A f \in Fds : fdt'[f] \in Conns => stage'[fdt'[f]] = "open"
        BY <2>6, <3>1, <3>2
      <3>4. \A h \in Registered' : stage'[m_clients'[h]] \in {"open", "closed"}
        BY <2>1, <2>6
      <3> QED
        BY <3>1, <3>3, <3>4
    <2>8. SockfdOpen'
      BY <2>1, <2>2, <2>4, <2>5
    <2>9. LockHeld' /\ ThreadRoles'
      BY <2>1, <2>2, <2>3
    <2>10. AcceptedIsNew'
      <3>1. pc[Srv] = "emplace" => hnd[Srv] # hnd[t]
        BY <2>1, DeletesItsOwn
      <3>2. pc'[Srv] \in {pc[Srv], "delClr"}
        BY <2>1
      <3> QED
        BY <2>1, <2>5, <3>1, <3>2
    <2>11. HandleOwnsSocket'
      BY <2>1, <2>2, <2>3, <2>5
    <2> QED
      BY <2>7, <2>8, <2>9, <2>10, <2>11
  <1>2. CASE DeleteClrRead(t)
    BY <1>2 DEF DeleteClrRead
  <1>3. CASE DeleteClrWrite(t)
    BY <1>3 DEF DeleteClrWrite
  <1>4. CASE DeleteErase(t)
    BY <1>4 DEF DeleteErase
  <1>5. CASE BcastSend(t)
    <2>1. UNCHANGED <<fdt, stage>>
      BY <1>5 DEF BcastSend, Send
    <2> QED
      BY <1>5, <2>1 DEF BcastSend
  <1>6. CASE ClientSendMsg(t)
    <2>1. UNCHANGED <<fdt, stage>>
      BY <1>6 DEF ClientSendMsg, Send
    <2> QED
      BY <1>6, <2>1 DEF ClientSendMsg
  <1>7. CASE FinishJoin(t)
    BY <1>7 DEF FinishJoin
  <1>8. CASE FinishClose(t)
    BY <1>8 DEF FinishClose, Close, OwnedFds
  <1> QED
    BY <1>1, <1>2, <1>3, <1>4, <1>5, <1>6, <1>7, <1>8 DEF Continue

(* So does every step of serverTask: a connection is accepted under a      *)
(* descriptor that was free, and registered under it while it is new.      *)
LEMMA ServerOwned ==
  ASSUME TypeOK, Owned, serverTask \/ RecvWakesLate \/ CallbackReturns
  PROVE  Owned'
  <1> USE KernelAssumption, ServerAssumption
      DEF Owned, Ownership, ConnectionOnce, SockfdOpen, LockHeld, AcceptedIsNew, ThreadRoles,
          HandleOwnsSocket, TypeOK, KernelTypeOK, Files, Threads, Registered, LoopPoints,
          CallPoints, DeletePoints, kernelVars, lifecycle, table, locals, shared,
          At, Go, Back, Forget, MayCall, Lock, Unlock
  <1>1. CASE RecvClient \/ RecvWakes \/ RecvWakesLate
    <2>1. PICK o \in Outcomes : AfterRecv(o)
      BY <1>1, RecvStep
    <2>2. AfterRecvPoint(o) \in {"publish", "eof", "scan"}
      BY DEF AfterRecvPoint, Outcomes
    <2>3. pc[Srv] \in {"recv", "blocked"} /\ UNCHANGED <<fdt, stage>>
      BY <1>1, RecvStep
    <2> QED
      BY <2>1, <2>2, <2>3, LoopStep DEF AfterRecv
  <1>2. CASE LoopTest
    BY <1>2, LoopStep DEF LoopTest
  <1>3. CASE CopyFds
    BY <1>3, LoopStep DEF CopyFds
  <1>4. CASE findMaxFd
    BY <1>4, LoopStep DEF findMaxFd
  <1>5. CASE Select
    BY <1>5, LoopStep DEF Select
  <1>6. CASE ScanEnds
    BY <1>6, LoopStep DEF ScanEnds
  <1>7. ASSUME NEW f \in Fds, ScanNext(f) PROVE Owned'
    BY <1>7, LoopStep DEF ScanNext
  <1>8. CASE RecvBlocks
    BY <1>8, LoopStep DEF RecvBlocks
  <1>9. CASE DeleteGone
    BY <1>9 DEF DeleteGone, deleteClient
  <1>10. CASE publishDisconnected
    BY <1>10, LoopStep DEF publishDisconnected
  <1>11. CASE AcceptFails
    BY <1>11, LoopStep DEF AcceptFails
  <1>12. ASSUME NEW c \in Conns, NEW f \in Fds, AcceptClient(c, f) PROVE Owned'
    BY <1>12 DEF AcceptClient, Accept, LowestFree
  <1>13. CASE EmplaceClient
    BY <1>13 DEF EmplaceClient
  <1>14. CASE FdSetRead
    BY <1>14, LoopStep DEF FdSetRead
  <1>15. CASE FdSetWrite
    BY <1>15, LoopStep DEF FdSetWrite
  <1>16. CASE publishClientConnect
    BY <1>16, LoopStep DEF publishClientConnect
  <1>17. CASE CallbackReturns
    BY <1>17, LoopStep DEF CallbackReturns
  <1>18. CASE publishClientMsg
    BY <1>18, LoopStep DEF publishClientMsg
  <1> QED
    BY <1>1, <1>2, <1>3, <1>4, <1>5, <1>6, <1>7, <1>8, <1>9, <1>10, <1>11, <1>12, <1>13,
       <1>14, <1>15, <1>16, <1>17, <1>18 DEF serverTask

(* Peers and other code of the process keep it too: they touch only        *)
(* connections not yet accepted and descriptors of their own.              *)
LEMMA EnvironmentOwned ==
  ASSUME TypeOK, Owned, Environment
  PROVE  Owned'
  <1> USE KernelAssumption, ServerAssumption
      DEF Owned, Ownership, ConnectionOnce, SockfdOpen, LockHeld, AcceptedIsNew, ThreadRoles,
          HandleOwnsSocket, TypeOK, KernelTypeOK, Files, Threads, Registered,
          streamVars, lifecycle, table, locals
  <1>1. UNCHANGED <<m_clients, m_sockfd, m_thread, m_mutex, pc, hnd, ptr>>
    BY DEF Environment
  <1>2. CASE Peers
    <2>1. fdt' = fdt /\ \A c \in Conns : stage[c] # "new" => stage'[c] = stage[c]
      BY <1>2 DEF Peers, PeerConnect, PeerSend, PeerRead, PeerClose
    <2> QED
      BY <1>1, <2>1
  <1>3. ASSUME NEW f \in Fds, ForeignOpen(f) \/ ForeignClose(f) PROVE Owned'
    <2>1. /\ fdt[f] \in {"free", "foreign"} /\ stage' = stage
          /\ \E x \in {"free", "foreign"} : fdt' = [fdt EXCEPT ![f] = x]
      BY <1>3 DEF ForeignOpen, ForeignClose, LowestFree
    <2> QED
      BY <1>1, <2>1
  <1> QED
    BY <1>2, <1>3 DEF Environment

(* The invariant is inductive.                                             *)
LEMMA InvStep == Inv /\ [Next]_vars => Inv'
  <1> SUFFICES ASSUME Inv, [Next]_vars PROVE Inv'
    OBVIOUS
  <1>1. TypeOK /\ Owned
    BY DEF Inv, Owned
  <1>2. TypeOK'
    BY <1>1, TypeStep DEF Owned
  <1>3. CASE UNCHANGED vars
    BY <1>1, <1>3
       DEF Inv, vars, shared, locals, kernelVars, lifecycle, table, TypeOK, KernelTypeOK, Ownership,
           ConnectionOnce, SockfdOpen, LockHeld, AcceptedIsNew, ThreadRoles, HandleOwnsSocket,
           Registered
  <1>4. CASE Next
    <2>1. UNCHANGED vars \/ Owned'
      BY <1>1, <1>4, NextCases, StartOwned, CallOwned, ContinueOwned, ServerOwned,
         EnvironmentOwned
    <2> QED
      BY <1>2, <1>3, <2>1 DEF Inv, Owned
  <1> QED
    BY <1>3, <1>4

-----------------------------------------------------------------------------
(* The invariant holds throughout every behaviour.                         *)
THEOREM Invariance == Spec => []Inv
  BY InitInv, InvStep, PTL DEF Spec

(* The members of TcpServer and the local state of its threads keep their  *)
(* types; in particular only descriptors ever enter m_fds.                 *)
THEOREM TypeCorrect == Spec => []TypeOK
  BY Invariance, PTL DEF Inv

(* A handle in m_clients is the descriptor of its own connection, except   *)
(* inside deleteClient().                                                  *)
THEOREM HandlesOwnSockets == Spec => []HandleOwnsSocket
  BY Invariance, PTL DEF Inv

(* The descriptor table, m_clients, m_mutex and the threads' positions     *)
(* agree throughout: a connection has one descriptor, m_mutex is held by   *)
(* the thread inside deleteClient() or sendBcast() and by nobody else, and *)
(* only serverTask runs its loop.                                          *)
THEOREM OwnershipKept == Spec => []Ownership
  <1>1. Inv => Ownership
    BY DEF Inv
  <1> QED
    BY <1>1, Invariance, PTL

(* Under the lock, the handle serverTask is about to register is free.     *)
LEMMA EmplaceFresh == Inv => NewClientRegistered
  BY ServerAssumption
     DEF Inv, TypeOK, Ownership, LockHeld, AcceptedIsNew, HandleOwnsSocket, NewClientRegistered,
         Registered, At, Threads

(* The emplace() of serverTask is never a silent no-op.                    *)
THEOREM EmplaceInserts == Spec => []NewClientRegistered
  BY EmplaceFresh, Invariance, PTL

(* deleteClient() and finish() never close a descriptor of other code.     *)
THEOREM OnlyOwnClosed == Spec => ClosesOnlyItsOwn
  <1> DEFINE Keeps == pc' # pc => \A f \in Fds : fdt[f] = "foreign" => fdt'[f] = "foreign"
  <1>1. ASSUME Inv, Next PROVE Keeps
    <2> SUFFICES ASSUME NEW f \in Fds, fdt[f] = "foreign", fdt'[f] # "foreign", pc' # pc
                 PROVE  FALSE
      OBVIOUS
    <2> USE KernelAssumption, ServerAssumption DEF Inv, TypeOK, KernelTypeOK, Files, Threads
    <2>1. CASE start
      BY <1>1, <2>1 DEF start, StartNoSocket, StartSetupFails, StartSucceeds, LowestFree, kernelVars
    <2>2. ASSUME NEW t \in Threads, Call(t) PROVE FALSE
      BY <2>2 DEF Call, DeleteCall, deleteClient, sendClientMessage, sendBcast, finish,
                  shared, kernelVars
    <2>3. ASSUME NEW t \in Threads, Continue(t) PROVE FALSE
      <3>1. CASE DeleteClose(t)
        <4>1. pc[t] = "delClose" /\ f = hnd[t]
          BY <3>1 DEF DeleteClose, Close, At
        <4>2. fdt[f] \in Conns
          BY <1>1, <4>1, DeletesItsOwn DEF Owned
        <4> QED
          BY <4>2
      <3>2. CASE FinishClose(t)
        <4>1. m_mutex = NoThread /\ f \in OwnedFds
          BY <3>2 DEF FinishClose, Close
        <4>2. \A u \in Threads : pc[u] \notin DeletePoints
          BY <1>1, <4>1 DEF Ownership, LockHeld
        <4> QED
          BY <1>1, <4>1, <4>2 DEF OwnedFds, Registered, HandleOwnsSocket, Ownership, SockfdOpen
      <3> QED
        BY <2>3, <3>1, <3>2
           DEF Continue, DeleteClrRead, DeleteClrWrite, DeleteErase, BcastSend, ClientSendMsg,
               FinishJoin, Send, shared, kernelVars
    <2>4. CASE serverTask \/ RecvWakesLate \/ CallbackReturns
      <3>1. CASE RecvClient \/ RecvWakes \/ RecvWakesLate
        BY <1>1, <3>1, RecvStep
      <3>2. CASE \E c \in Conns, g \in Fds : AcceptClient(c, g)
        BY <1>1, <3>2 DEF AcceptClient, Accept, LowestFree
      <3> QED
        BY <2>4, <3>1, <3>2
           DEF serverTask, CallbackReturns, LoopTest, CopyFds, findMaxFd, Select, ScanEnds,
               ScanNext, RecvBlocks, publishClientMsg, DeleteGone, deleteClient, publishDisconnected,
               AcceptFails, EmplaceClient, FdSetRead, FdSetWrite, publishClientConnect, shared,
               kernelVars
    <2>5. CASE Environment
      BY <2>5 DEF Environment
    <2> QED
      BY <1>1, <2>1, <2>2, <2>3, <2>4, <2>5, NextCases DEF vars
  <1>2. Inv /\ [Next]_vars => [Keeps]_vars
    BY <1>1
  <1> QED
    BY <1>2, Invariance, PTL DEF Spec, ClosesOnlyItsOwn
=============================================================================
