------------------------- MODULE TcpServerUseProofs -------------------------
(***************************************************************************)
(* What TcpServer guarantees to an application that keeps to a discipline: *)
(* it calls start() once, or leaves deleteClient() to the callbacks, or    *)
(* does not send from its own threads.  Each theorem names the discipline  *)
(* it needs; without it the property may fail (a descriptor is leaked, the *)
(* wrong client is sent to, recv() waits, an update of m_fds is lost).     *)
(***************************************************************************)
EXTENDS SessionProofs, FiniteSetTheorems

USE DEF NoConn, NoThread, Srv, INVALID_SOCKET

(* The disciplines.                                                        *)
StartsOnce == MaxStarts <= 1
DeletesInCallbacks == "deleteClient" \notin AppCalls
SendsInCallbacks == "sendClientMessage" \notin AppCalls
FinishesOutside == "finish" \notin CbCalls
NoOtherDescriptors == MaxForeign = 0 /\ IsFiniteSet(Fds)

(* start() opens at most one socket, on a free descriptor, and starts      *)
(* serverTask if there is none.                                            *)
LEMMA StartAdds ==
  ASSUME Inv, start
  PROVE  /\ starts = 0 \/ ~StartsOnce
         /\ starts' > 0
         /\ UNCHANGED <<stage, peer, unread, outq, m_clients, hnd, ptr, word, read_set, m_mutex>>
         /\ \/ fdt' = fdt
            \/ \E f \in Fds, x \in {"sock", "listen"} :
                 LowestFree(f) /\ m_sockfd' = f /\ fdt' = [fdt EXCEPT ![f] = x]
         /\ \/ pc' = pc
            \/ /\ pc[Srv] = "none" /\ pc' = [pc EXCEPT ![Srv] = "loop"]
               /\ m_sockfd' \in Fds /\ m_fds' = {m_sockfd'}
  BY ServerAssumption
     DEF Inv, TypeOK, Ownership, ThreadRoles, StartsOnce, start, StartNoSocket, StartSetupFails,
         StartSucceeds, StartCall, Go, FD_SET, kernelVars, streamVars, table, locals

-----------------------------------------------------------------------------
(* finish() releases every descriptor.                                     *)

(* Every socket of the server is the accept socket in m_sockfd, a client's *)
(* in m_clients, or the one serverTask is about to register.               *)
Accounted ==
  /\ starts = 0 => /\ pc[Srv] = "none"
                   /\ \A f \in Fds : fdt[f] \in {"free", "foreign"}
  /\ \A f \in Fds : fdt[f] \in {"sock", "listen"} => f = m_sockfd
  /\ \A f \in Fds :
       fdt[f] \in Conns => f \in Registered \/ (pc[Srv] = "emplace" /\ hnd[Srv] = f)

(* start() is called once, before there is any socket.                     *)
LEMMA StartAccounted ==
  ASSUME StartsOnce, Inv, Accounted, start
  PROVE  Accounted'
  <1> USE KernelAssumption, ServerAssumption
      DEF StartsOnce, Accounted, Inv, TypeOK, KernelTypeOK, Files, Registered, StartCall,
          kernelVars, streamVars, table, locals, Go
  <1>1. starts = 0 /\ starts' # 0
    BY DEF start, StartNoSocket, StartSetupFails, StartSucceeds
  <1>2. CASE StartNoSocket
    BY <1>1, <1>2 DEF StartNoSocket
  <1>3. ASSUME NEW f \in Fds, StartSetupFails(f) PROVE Accounted'
    BY <1>1, <1>3 DEF StartSetupFails
  <1>4. ASSUME NEW f \in Fds, StartSucceeds(f) PROVE Accounted'
    BY <1>1, <1>4 DEF StartSucceeds
  <1> QED
    BY <1>2, <1>3, <1>4 DEF start

(* An operation closes a client's socket before it forgets the client.     *)
LEMMA ContinueAccounted ==
  ASSUME Inv, Informed, Accounted, NEW t \in Threads, Continue(t)
  PROVE  Accounted'
  <1> USE KernelAssumption, ServerAssumption
      DEF Accounted, Inv, TypeOK, KernelTypeOK, Files, Threads, Registered, DeletePoints,
          Ownership, LockHeld, ThreadRoles, LoopPoints, CallPoints,
          kernelVars, lifecycle, table, locals, shared, At, Go, Back, Forget, Unlock
  <1>1. CASE DeleteClose(t)
    <2>1. /\ pc[t] = "delClose" /\ pc' = [pc EXCEPT ![t] = "delClr"]
          /\ UNCHANGED <<m_clients, hnd, starts, m_sockfd>>
      BY <1>1 DEF DeleteClose
    <2>2. fdt' = [f \in Fds |-> IF f = hnd[t] THEN "free" ELSE fdt[f]]
      BY <1>1 DEF DeleteClose, Close
    <2> QED
      BY <2>1, <2>2
  <1>2. CASE DeleteClrRead(t)
    BY <1>2 DEF DeleteClrRead
  <1>3. CASE DeleteClrWrite(t)
    BY <1>3 DEF DeleteClrWrite
  <1>4. CASE DeleteErase(t)
    <2>1. /\ pc[t] = "delErase" /\ hnd[t] \in Fds
          /\ m_clients' = [m_clients EXCEPT ![hnd[t]] = NoConn]
          /\ UNCHANGED <<fdt, starts, m_sockfd>>
      BY <1>4 DEF DeleteErase
    <2>2. \/ t = Srv /\ hnd' = hnd /\ pc' = [pc EXCEPT ![Srv] = IF eof THEN "gone" ELSE "callback"]
          \/ t # Srv /\ hnd'[Srv] = hnd[Srv] /\ pc'[Srv] = pc[Srv]
      BY <1>4 DEF DeleteErase
    <2>3. fdt[hnd[t]] \in Conns => pc[Srv] = "emplace" /\ hnd[Srv] = hnd[t]
      BY <2>1 DEF Informed, Deleting
    <2> QED
      BY <2>1, <2>2, <2>3
  <1>5. CASE BcastSend(t)
    <2>1. UNCHANGED fdt
      BY <1>5 DEF BcastSend, Send
    <2> QED
      BY <1>5, <2>1 DEF BcastSend
  <1>6. CASE ClientSendMsg(t)
    <2>1. UNCHANGED fdt
      BY <1>6 DEF ClientSendMsg, Send
    <2> QED
      BY <1>6, <2>1 DEF ClientSendMsg
  <1>7. CASE FinishJoin(t)
    BY <1>7 DEF FinishJoin
  <1>8. CASE FinishClose(t)
    <2>1. /\ pc[t] = "closeAll" /\ pc' = [pc EXCEPT ![t] = Back(t)] /\ starts' = starts
          /\ fdt' = [f \in Fds |-> IF f \in OwnedFds THEN "free" ELSE fdt[f]]
      BY <1>8 DEF FinishClose, Close
    <2>2. pc[Srv] \in {"none", "closeAll"} /\ (pc[Srv] = "none" => pc'[Srv] = "none")
      BY <2>1
    <2> QED
      BY <2>1, <2>2 DEF OwnedFds
  <1> QED
    BY <1>1, <1>2, <1>3, <1>4, <1>5, <1>6, <1>7, <1>8 DEF Continue

(* serverTask registers what it has accepted.                              *)
LEMMA ServerAccounted ==
  ASSUME Inv, Accounted, serverTask \/ RecvWakesLate \/ CallbackReturns
  PROVE  Accounted'
  <1> USE KernelAssumption, ServerAssumption
      DEF Accounted, Inv, TypeOK, KernelTypeOK, Files, Threads, Registered,
          kernelVars, lifecycle, table, locals, shared, At, Go, Back
  <1>1. CASE RecvClient \/ RecvWakes \/ RecvWakesLate
    <2>1. PICK o \in Outcomes : AfterRecv(o)
      BY <1>1, RecvStep
    <2>2. pc[Srv] \in {"recv", "blocked"} /\ UNCHANGED fdt
      BY <1>1, RecvStep
    <2> QED
      BY <2>1, <2>2 DEF AfterRecv
  <1>2. ASSUME NEW c \in Conns, NEW f \in Fds, AcceptClient(c, f) PROVE Accounted'
    BY <1>2 DEF AcceptClient, Accept
  <1>3. CASE EmplaceClient
    BY <1>3 DEF EmplaceClient, Ownership, AcceptedIsNew
  <1>4. CASE DeleteGone
    BY <1>4 DEF DeleteGone, deleteClient
  <1>5. CASE \/ LoopTest \/ CopyFds \/ findMaxFd \/ Select \/ ScanEnds \/ RecvBlocks
             \/ \E f \in Fds : ScanNext(f)
    BY <1>5 DEF LoopTest, CopyFds, findMaxFd, Select, ScanEnds, ScanNext, RecvBlocks
  <1>6. CASE \/ publishClientMsg \/ publishDisconnected \/ AcceptFails \/ FdSetRead \/ FdSetWrite
             \/ publishClientConnect \/ CallbackReturns
    BY <1>6 DEF publishClientMsg, publishDisconnected, AcceptFails, FdSetRead, FdSetWrite,
                publishClientConnect, CallbackReturns
  <1> QED
    BY <1>1, <1>2, <1>3, <1>4, <1>5, <1>6 DEF serverTask

(* Every step keeps the account.                                           *)
LEMMA AccountedStep ==
  ASSUME StartsOnce, Inv, Informed, Accounted, [Next]_vars
  PROVE  Accounted'
  <1> USE DEF kernelVars, lifecycle, table, locals, shared
  <1>1. CASE UNCHANGED vars
    BY <1>1 DEF Accounted, Registered, vars
  <1>2. ASSUME NEW t \in Threads, Call(t) PROVE Accounted'
    BY <1>2, ServerAssumption
       DEF Accounted, Registered, Call, DeleteCall, deleteClient, sendClientMessage, sendBcast,
           finish, MayCall, At, Go, Back, Threads, Inv, TypeOK
  <1>3. CASE Environment
    <2>1. UNCHANGED <<m_clients, pc, hnd, starts, m_sockfd>>
      BY <1>3 DEF Environment
    <2>2. \A f \in Fds : fdt'[f] \in {fdt[f], "free", "foreign"}
      <3> USE KernelAssumption DEF Inv, TypeOK, KernelTypeOK
      <3>1. CASE Peers
        BY <3>1 DEF Peers, PeerConnect, PeerSend, PeerRead, PeerClose
      <3>2. CASE \E f \in Fds : ForeignOpen(f) \/ ForeignClose(f)
        BY <3>2 DEF ForeignOpen, ForeignClose
      <3> QED
        BY <1>3, <3>1, <3>2 DEF Environment
    <2> QED
      BY <2>1, <2>2, KernelAssumption DEF Accounted, Registered, Files
  <1> QED
    BY <1>1, <1>2, <1>3, NextCases, StartAccounted, ContinueAccounted, ServerAccounted

(* A thread leaves a send() or the last part of finish() by completing it. *)
LEMMA Completes ==
  ASSUME Inv, Next, NEW t \in Threads, pc'[t] # pc[t]
  PROVE  /\ pc[t] = "closeAll" => FinishClose(t)
         /\ pc[t] = "send" => ClientSendMsg(t)
  <1> SUFFICES ASSUME pc[t] \in {"closeAll", "send"}
               PROVE  FinishClose(t) \/ ClientSendMsg(t)
    BY DEF FinishClose, ClientSendMsg, At
  <1> USE ServerAssumption
      DEF Inv, TypeOK, Threads, At, Go, Ownership, ThreadRoles, LoopPoints, shared, locals, vars
  <1>1. ~start
    BY DEF start, StartNoSocket, StartSetupFails, StartSucceeds
  <1>2. ASSUME NEW u \in Threads, Call(u) PROVE FALSE
    BY <1>2 DEF Call, DeleteCall, deleteClient, sendClientMessage, sendBcast, finish, MayCall
  <1>3. ASSUME NEW u \in Threads, Continue(u) PROVE FinishClose(t) \/ ClientSendMsg(t)
    BY <1>3 DEF Continue, DeleteClose, DeleteClrRead, DeleteClrWrite, DeleteErase, BcastSend,
                ClientSendMsg, FinishJoin, FinishClose
  <1>4. ~(RecvClient \/ RecvWakes \/ RecvWakesLate)
    <2>1. ASSUME NEW o \in Outcomes, AfterRecv(o), pc[Srv] \in {"recv", "blocked"} PROVE FALSE
      BY <2>1 DEF AfterRecv
    <2> QED
      BY <2>1, RecvStep
  <1>5. ~(serverTask \/ CallbackReturns)
    BY <1>4
       DEF serverTask, LoopTest, CopyFds, findMaxFd, Select, ScanEnds, ScanNext, RecvBlocks,
           DeleteGone, deleteClient, publishDisconnected, AcceptFails, AcceptClient, EmplaceClient,
           FdSetRead, FdSetWrite, publishClientConnect, publishClientMsg, CallbackReturns
  <1>6. ~Environment
    BY DEF Environment
  <1> QED
    BY <1>1, <1>2, <1>3, <1>4, <1>5, <1>6, NextCases

(* When finish() returns, every descriptor that start() or accept() opened *)
(* is closed, if start() is called once: whatever threads and callbacks    *)
(* delete, and even if finish() is called from a callback too.             *)
THEOREM FinishReleases ==
  ASSUME StartsOnce
  PROVE  Spec => FinishReleasesAll
  <1> DEFINE Released ==
        \A t \in Threads : At(t, "closeAll") /\ pc'[t] # "closeAll" =>
          \A f \in Fds : fdt'[f] \in {"free", "foreign"}
  <1>1. Init => Accounted
    BY KernelAssumption, ServerAssumption
       DEF Init, KernelInit, Accounted, Threads, Files
  <1>2. Inv /\ Informed /\ Accounted /\ [Next]_vars => Accounted'
    BY AccountedStep
  <1>3. ASSUME Inv, Accounted, Next PROVE Released
    <2> SUFFICES ASSUME NEW t \in Threads, pc[t] = "closeAll", pc'[t] # "closeAll", NEW f \in Fds
                 PROVE  fdt'[f] \in {"free", "foreign"}
      BY DEF At
    <2>1. fdt' = [g \in Fds |-> IF g \in OwnedFds THEN "free" ELSE fdt[g]]
      BY <1>3, Completes DEF FinishClose, Close
    <2>2. pc[Srv] # "emplace"
      BY <1>3, ServerAssumption DEF Inv, Ownership, ThreadRoles, Threads
    <2> QED
      BY <1>3, <2>1, <2>2, KernelAssumption
         DEF Accounted, OwnedFds, Inv, TypeOK, KernelTypeOK, Files
  <1>4. Inv /\ Informed /\ Accounted /\ [Next]_vars => [Released]_vars
    BY <1>3
  <1> QED
    BY <1>1, <1>2, <1>4, InformedAlways, PTL DEF Spec, FinishReleasesAll

-----------------------------------------------------------------------------
(* A Client that a callback uses is not deleted under it.                  *)

(* Clients are deleted by serverTask alone.                                *)
OnlyServerDeletes == \A t \in AppThreads : pc[t] \notin DeletePoints

(* No step of another thread begins a deletion.                            *)
LEMMA DeletesStep ==
  ASSUME DeletesInCallbacks, Inv, OnlyServerDeletes, [Next]_vars
  PROVE  OnlyServerDeletes'
  <1> SUFFICES ASSUME NEW t \in AppThreads, pc'[t] \in DeletePoints, pc[t] \notin DeletePoints
               PROVE  FALSE
    BY DEF OnlyServerDeletes
  <1> USE ServerAssumption
      DEF Inv, TypeOK, Threads, DeletePoints, At, Go, Back, shared, locals, vars
  <1>1. ~start
    BY DEF start, StartNoSocket, StartSetupFails, StartSucceeds
  <1>2. ASSUME NEW u \in Threads, Call(u) PROVE FALSE
    BY <1>2 DEF DeletesInCallbacks, Call, DeleteCall, deleteClient, sendClientMessage, sendBcast,
                finish, MayCall
  <1>3. ASSUME NEW u \in Threads, Continue(u) PROVE FALSE
    BY <1>3 DEF OnlyServerDeletes, Continue, DeleteClose, DeleteClrRead, DeleteClrWrite,
                DeleteErase, BcastSend, ClientSendMsg, FinishJoin, FinishClose
  <1>4. ~(RecvClient \/ RecvWakes \/ RecvWakesLate)
    <2>1. ASSUME NEW o \in Outcomes, AfterRecv(o) PROVE FALSE
      BY <2>1 DEF AfterRecv
    <2> QED
      BY <2>1, RecvStep
  <1>5. ~(serverTask \/ CallbackReturns)
    BY <1>4
       DEF serverTask, LoopTest, CopyFds, findMaxFd, Select, ScanEnds, ScanNext, RecvBlocks,
           DeleteGone, deleteClient, publishDisconnected, AcceptFails, AcceptClient, EmplaceClient,
           FdSetRead, FdSetWrite, publishClientConnect, publishClientMsg, CallbackReturns
  <1>6. ~Environment /\ ~UNCHANGED vars
    BY DEF Environment
  <1> QED
    BY <1>1, <1>2, <1>3, <1>4, <1>5, <1>6, NextCases

(* sendClientMessage() of a callback uses a Client that is still there.    *)
SendsToItsClient ==
  /\ \A t \in AppThreads : pc[t] # "send"
  /\ pc[Srv] = "send" => /\ hnd[Srv] \in Fds /\ ptr[Srv] \in Conns
                         /\ m_clients[hnd[Srv]] = ptr[Srv] /\ fdt[hnd[Srv]] = ptr[Srv]

(* It stays there: only serverTask could delete it, and finish() waits for *)
(* serverTask.                                                             *)
LEMMA SendsStep ==
  ASSUME SendsInCallbacks, Inv, OnlyServerDeletes, SendsToItsClient, [Next]_vars
  PROVE  SendsToItsClient'
  <1> USE KernelAssumption, ServerAssumption
      DEF Inv, TypeOK, KernelTypeOK, Files, Threads, DeletePoints, LoopPoints, CallPoints,
          Ownership, ThreadRoles, Registered, SendsToItsClient, OnlyServerDeletes,
          kernelVars, streamVars, lifecycle, table, shared, locals, vars, At, Go, Back, Forget
  <1>1. CASE start
    <2>1. /\ UNCHANGED <<m_clients, hnd, ptr>>
          /\ pc' = pc \/ (pc[Srv] = "none" /\ pc' = [pc EXCEPT ![Srv] = "loop"])
      BY <1>1, StartAdds
    <2>2. \A f \in Fds : fdt[f] # "free" => fdt'[f] = fdt[f]
      BY <1>1, StartAdds DEF LowestFree
    <2>3. pc[Srv] = "send" => fdt[hnd[Srv]] # "free" /\ hnd[Srv] \in Fds
      OBVIOUS
    <2>4. CASE pc' = pc
      BY <2>1, <2>2, <2>3, <2>4
    <2>5. CASE pc[Srv] = "none" /\ pc' = [pc EXCEPT ![Srv] = "loop"]
      <3>1. pc'[Srv] = "loop" /\ \A t \in AppThreads : pc'[t] = pc[t]
        BY <2>5
      <3> QED
        BY <3>1
    <2> QED
      BY <2>1, <2>4, <2>5
  <1>2. ASSUME NEW t \in Threads, Call(t) PROVE SendsToItsClient'
    <2>1. ASSUME NEW h \in Fds, sendClientMessage(t, h) PROVE SendsToItsClient'
      BY <2>1 DEF sendClientMessage, MayCall, SendsInCallbacks, HandleOwnsSocket, LockHeld
    <2>2. ASSUME NEW h \in Fds, DeleteCall(t, h) PROVE SendsToItsClient'
      BY <2>2 DEF DeleteCall, deleteClient, MayCall
    <2>3. CASE sendBcast(t)
      BY <2>3 DEF sendBcast, MayCall
    <2>4. CASE finish(t)
      BY <2>4 DEF finish, MayCall
    <2> QED
      BY <1>2, <2>1, <2>2, <2>3, <2>4 DEF Call
  <1>3. ASSUME NEW t \in Threads, Continue(t) PROVE SendsToItsClient'
    <2>1. CASE DeleteClose(t) \/ DeleteClrRead(t) \/ DeleteClrWrite(t) \/ DeleteErase(t)
      BY <2>1 DEF DeleteClose, DeleteClrRead, DeleteClrWrite, DeleteErase
    <2>2. CASE BcastSend(t)
      <3>1. UNCHANGED fdt
        BY <2>2 DEF BcastSend, Send
      <3> QED
        BY <2>2, <3>1 DEF BcastSend
    <2>3. CASE ClientSendMsg(t)
      BY <2>3 DEF ClientSendMsg
    <2>4. CASE FinishJoin(t)
      BY <2>4 DEF FinishJoin
    <2>5. CASE FinishClose(t)
      BY <2>5 DEF FinishClose
    <2> QED
      BY <1>3, <2>1, <2>2, <2>3, <2>4, <2>5 DEF Continue
  <1>4. CASE serverTask \/ RecvWakesLate \/ CallbackReturns
    <2>1. CASE RecvClient \/ RecvWakes \/ RecvWakesLate
      <3>1. ASSUME NEW o \in Outcomes, AfterRecv(o) PROVE SendsToItsClient'
        BY <3>1 DEF AfterRecv, AfterRecvPoint, Outcomes
      <3> QED
        BY <2>1, <3>1, RecvStep
    <2> QED
      BY <1>4, <2>1
         DEF serverTask, LoopTest, CopyFds, findMaxFd, Select, ScanEnds, ScanNext, RecvBlocks,
             DeleteGone, deleteClient, publishDisconnected, AcceptFails, AcceptClient,
             EmplaceClient, FdSetRead, FdSetWrite, publishClientConnect, publishClientMsg,
             CallbackReturns
  <1>5. CASE Environment
    <2>1. UNCHANGED <<m_clients, pc, hnd, ptr>>
      BY <1>5 DEF Environment
    <2>2. \A f \in Fds : fdt[f] \in Conns => fdt'[f] = fdt[f]
      <3>1. CASE Peers
        BY <3>1 DEF Peers, PeerConnect, PeerSend, PeerRead, PeerClose
      <3>2. ASSUME NEW g \in Fds, ForeignOpen(g) \/ ForeignClose(g)
            PROVE  \A f \in Fds : fdt[f] \in Conns => fdt'[f] = fdt[f]
        BY <3>2 DEF ForeignOpen, ForeignClose, LowestFree
      <3> QED
        BY <1>5, <3>1, <3>2 DEF Environment
    <2> QED
      BY <2>1, <2>2
  <1>6. CASE UNCHANGED vars
    BY <1>6
  <1> QED
    BY <1>1, <1>2, <1>3, <1>4, <1>5, <1>6, NextCases

(* sendClientMessage() sends to the client it looked up, or to nobody, if  *)
(* only callbacks call it and deleteClient(): although it uses the Client  *)
(* after it has released the lock, and finish() may be under way.          *)
THEOREM SendsReach ==
  ASSUME DeletesInCallbacks, SendsInCallbacks
  PROVE  Spec => SendReachesItsClient
  <1> DEFINE Both == OnlyServerDeletes /\ SendsToItsClient
  <1> DEFINE Reaches ==
        \A t \in Threads, c \in Conns :
          At(t, "send") /\ pc'[t] # "send" /\ outq'[c] > outq[c] => c = ptr[t]
  <1>1. Init => Both
    BY ServerAssumption DEF Init, OnlyServerDeletes, SendsToItsClient, Threads, DeletePoints
  <1>2. Inv /\ Both /\ [Next]_vars => Both'
    BY DeletesStep, SendsStep
  <1>3. ASSUME Inv, Both, Next PROVE Reaches
    <2> SUFFICES ASSUME NEW t \in Threads, pc[t] = "send", pc'[t] # "send",
                        NEW c \in Conns, outq'[c] > outq[c]
                 PROVE  c = ptr[t]
      BY DEF At
    <2>1. t = Srv /\ ClientSendMsg(Srv)
      BY <1>3, Completes DEF SendsToItsClient, Threads
    <2>2. PICK success \in BOOLEAN : Send(hnd[Srv], success)
      BY <1>3, <2>1 DEF ClientSendMsg, Sockfd, SendsToItsClient
    <2> QED
      BY <1>3, <2>1, <2>2, KernelAssumption
         DEF Send, SendsToItsClient, Inv, TypeOK, KernelTypeOK
  <1>4. Inv /\ Both /\ [Next]_vars => [Reaches]_vars
    BY <1>3
  <1> QED
    BY <1>1, <1>2, <1>4, Invariance, PTL DEF Spec, SendReachesItsClient

-----------------------------------------------------------------------------
(* m_fds is exact.                                                         *)

Watched == {m_sockfd} \cup Registered

(* The descriptor that serverTask has registered and not yet added, or has *)
(* removed and not yet erased, is the only difference.                     *)
WatchSetFollows ==
  /\ pc[Srv] # "closeAll"
  /\ starts = 0 => pc[Srv] = "none" /\ Registered = {}
  /\ m_sockfd \notin Registered
  /\ pc[Srv] # "none" =>
       m_fds = IF pc[Srv] \in {"fdset", "fdsetW", "delErase"} THEN Watched \ {hnd[Srv]}
               ELSE Watched
  /\ pc[Srv] \in {"fdsetW", "delClrW"} => word[Srv] = m_fds
  /\ pc[Srv] \in {"fdset", "fdsetW"} => hnd[Srv] \in Registered

(* start() makes the set, and finish() waits for serverTask, so serverTask *)
(* alone changes it and what it should be.                                 *)
LEMMA WatchStep ==
  ASSUME StartsOnce, FinishesOutside, Inv, OnlyServerDeletes, WatchSetFollows, [Next]_vars
  PROVE  WatchSetFollows'
  <1> USE KernelAssumption, ServerAssumption
      DEF Inv, TypeOK, KernelTypeOK, Files, Threads, DeletePoints, LoopPoints, CallPoints,
          Ownership, ThreadRoles, LockHeld, Registered, WatchSetFollows, Watched, OnlyServerDeletes,
          kernelVars, lifecycle, table, shared, locals, At, Go, Back, Forget, FD_SET, FD_CLR
  <1>1. CASE start
    <2>1. starts = 0 /\ starts' > 0 /\ UNCHANGED m_clients
      BY <1>1, StartAdds
    <2>2. CASE pc' = pc
      BY <1>1, <2>1, <2>2, StartAdds
    <2>3. CASE pc' = [pc EXCEPT ![Srv] = "loop"] /\ m_fds' = {m_sockfd'}
      BY <2>1, <2>3
    <2> QED
      BY <1>1, <2>2, <2>3, StartAdds
  <1>2. ASSUME NEW t \in Threads, Call(t) PROVE WatchSetFollows'
    <2>1. ASSUME NEW h \in Fds, sendClientMessage(t, h) PROVE WatchSetFollows'
      BY <2>1 DEF sendClientMessage, MayCall
    <2>2. ASSUME NEW h \in Fds, DeleteCall(t, h) PROVE WatchSetFollows'
      BY <2>2 DEF DeleteCall, deleteClient, MayCall
    <2>3. CASE sendBcast(t)
      BY <2>3 DEF sendBcast, MayCall
    <2>4. CASE finish(t)
      BY <2>4 DEF finish, MayCall, FinishesOutside
    <2> QED
      BY <1>2, <2>1, <2>2, <2>3, <2>4 DEF Call
  <1>3. ASSUME NEW t \in Threads, Continue(t) PROVE WatchSetFollows'
    <2>1. CASE DeleteClose(t)
      BY <2>1 DEF DeleteClose
    <2>2. CASE DeleteClrRead(t)
      BY <2>2 DEF DeleteClrRead
    <2>3. CASE DeleteClrWrite(t)
      BY <2>3 DEF DeleteClrWrite
    <2>4. CASE DeleteErase(t)
      BY <2>4 DEF DeleteErase
    <2>5. CASE BcastSend(t)
      BY <2>5 DEF BcastSend
    <2>6. CASE ClientSendMsg(t)
      BY <2>6 DEF ClientSendMsg
    <2>7. CASE FinishJoin(t)
      BY <2>7 DEF FinishJoin
    <2>8. CASE FinishClose(t)
      BY <2>8 DEF FinishClose
    <2> QED
      BY <1>3, <2>1, <2>2, <2>3, <2>4, <2>5, <2>6, <2>7, <2>8 DEF Continue
  <1>4. CASE serverTask \/ RecvWakesLate \/ CallbackReturns
    <2>1. CASE RecvClient \/ RecvWakes \/ RecvWakesLate
      <3>1. ASSUME NEW o \in Outcomes, AfterRecv(o), pc[Srv] \in {"recv", "blocked"}
            PROVE  WatchSetFollows'
        BY <3>1 DEF AfterRecv, AfterRecvPoint, Outcomes
      <3> QED
        BY <2>1, <3>1, RecvStep
    <2>2. CASE EmplaceClient
      <3>1. /\ pc[Srv] = "emplace" /\ m_mutex = NoThread /\ hnd[Srv] \in Fds /\ ptr[Srv] \in Conns
            /\ pc' = [pc EXCEPT ![Srv] = "fdset"]
            /\ UNCHANGED <<m_fds, m_sockfd, hnd, word, starts>>
        BY <2>2 DEF EmplaceClient, AcceptedIsNew
      <3>2. fdt[hnd[Srv]] = ptr[Srv] /\ hnd[Srv] # m_sockfd
        BY <3>1 DEF AcceptedIsNew, SockfdOpen
      <3>3. hnd[Srv] \notin Registered
        BY <2>2, EmplaceFresh DEF NewClientRegistered, EmplaceClient
      <3>4. Registered' = Registered \cup {hnd[Srv]}
        <4>1. m_clients' = [m_clients EXCEPT ![hnd[Srv]] = ptr[Srv]]
          BY <2>2, <3>3 DEF EmplaceClient
        <4>2. ptr[Srv] # NoConn
          BY <3>1
        <4> HIDE DEF Inv, WatchSetFollows, OnlyServerDeletes
        <4>3. m_clients \in [Fds -> Conns \cup {NoConn}]
          BY DEF Inv
        <4> QED
          BY <3>1, <4>1, <4>2, <4>3
      <3>5. m_fds = {m_sockfd} \cup Registered /\ m_sockfd \notin Registered /\ starts # 0
        BY <3>1
      <3> HIDE DEF Registered
      <3> QED
        BY <3>1, <3>2, <3>3, <3>4, <3>5
    <2>3. CASE FdSetRead \/ FdSetWrite
      BY <2>3 DEF FdSetRead, FdSetWrite
    <2>4. CASE DeleteGone
      BY <2>4 DEF DeleteGone, deleteClient
    <2>5. CASE \/ LoopTest \/ CopyFds \/ findMaxFd \/ Select \/ ScanEnds \/ RecvBlocks
               \/ \E f \in Fds : ScanNext(f)
      BY <2>5 DEF LoopTest, CopyFds, findMaxFd, Select, ScanEnds, ScanNext, RecvBlocks
    <2>6. CASE \/ publishClientMsg \/ publishDisconnected \/ AcceptFails \/ publishClientConnect
               \/ CallbackReturns \/ \E c \in Conns, f \in Fds : AcceptClient(c, f)
      BY <2>6 DEF publishClientMsg, publishDisconnected, AcceptFails, AcceptClient,
                  publishClientConnect, CallbackReturns
    <2> QED
      BY <1>4, <2>1, <2>2, <2>3, <2>4, <2>5, <2>6 DEF serverTask
  <1>5. CASE Environment \/ UNCHANGED vars
    BY <1>5 DEF Environment, vars
  <1> QED
    BY <1>1, <1>2, <1>3, <1>4, <1>5, NextCases

(* Between two rounds of serverTask m_fds is the accept socket and the     *)
(* clients' sockets, if start() is called once, deleteClient() only from   *)
(* callbacks and finish() not from them; sends may come from anywhere.     *)
THEOREM WatchesExactly ==
  ASSUME StartsOnce, DeletesInCallbacks, FinishesOutside
  PROVE  Spec => []WatchSetExact
  <1> DEFINE Both == OnlyServerDeletes /\ WatchSetFollows
  <1>1. Init => Both
    BY ServerAssumption, KernelAssumption
       DEF Init, OnlyServerDeletes, WatchSetFollows, Registered, Threads, DeletePoints
  <1>2. Inv /\ Both /\ [Next]_vars => Both'
    BY DeletesStep, WatchStep
  <1>3. Both => WatchSetExact
    BY DEF WatchSetFollows, WatchSetExact, Watched, At
  <1> QED
    BY <1>1, <1>2, <1>3, Invariance, PTL DEF Spec

-----------------------------------------------------------------------------
(* serverTask never waits in recv().                                       *)

(* A client socket with something to read.                                 *)
Loaded(f) == fdt[f] \in Conns /\ (unread[fdt[f]] > 0 \/ peer[fdt[f]] # "up")

BeforeScan == {"none", "exit", "loop", "copy", "max", "select"}

(* The accept socket has the lowest number, so the scan comes to it first: *)
(* a connection is accepted before any callback of this round could have   *)
(* freed a descriptor that is still to be looked at.                       *)
AcceptsFirst ==
  /\ \A f \in Fds : fdt[f] # "foreign"
  /\ starts = 0 => pc[Srv] = "none" /\ \A f \in Fds : fdt[f] = "free"
  /\ \A f \in Fds : fdt[f] = "listen" => \A g \in Fds : f <= g
  /\ pc[Srv] = "scan" =>
       \A f, g \in read_set : fdt[f] = "listen" => fdt[g] # "free"
  /\ pc[Srv] = "accept" =>
       /\ hnd[Srv] \in Fds
       /\ fdt[hnd[Srv]] = "listen" => \A g \in read_set : fdt[g] # "free"
  /\ pc[Srv] \notin BeforeScan \cup {"scan"} => \A f \in read_set : fdt[f] # "listen"

(* What is still to be looked at and has a client is ready, and so is what *)
(* serverTask is about to receive on.                                      *)
ScansReady ==
  /\ pc[Srv] \in {"recv", "emplace"} => hnd[Srv] \in Fds \ read_set
  /\ pc[Srv] \notin BeforeScan =>
       \A f \in read_set : f \in Registered =>
         Loaded(f) \/ (pc[Srv] \in DeletePoints /\ hnd[Srv] = f)
  /\ pc[Srv] = "recv" => Loaded(hnd[Srv])
  /\ pc[Srv] # "blocked"

(* Nobody else has a descriptor.                                           *)
LEMMA NobodyOpens ==
  ASSUME NoOtherDescriptors, NEW f \in Fds
  PROVE  ~ForeignOpen(f)
  <1> DEFINE others == {g \in Fds : fdt[g] = "foreign"}
  <1>1. Cardinality(others) \in Nat
    BY FS_Subset, FS_CardinalityType DEF NoOtherDescriptors
  <1> HIDE DEF others
  <1>2. ~(Cardinality(others) < MaxForeign)
    BY <1>1 DEF NoOtherDescriptors
  <1> QED
    BY <1>2 DEF ForeignOpen, others

(* start() makes the accept socket while every descriptor is free.         *)
LEMMA StartFirst ==
  ASSUME StartsOnce, Inv, AcceptsFirst, ScansReady, start
  PROVE  AcceptsFirst' /\ ScansReady'
  <1> USE DEF Inv, TypeOK, KernelTypeOK, Files, Threads, BeforeScan
  <1>1. /\ starts = 0 /\ starts' > 0 /\ pc[Srv] = "none" /\ pc'[Srv] \in BeforeScan
        /\ \A f \in Fds : fdt[f] = "free"
    BY StartAdds DEF AcceptsFirst
  <1>2. CASE fdt' = fdt
    BY <1>1, <1>2 DEF AcceptsFirst, ScansReady, DeletePoints
  <1>3. ASSUME NEW f \in Fds, NEW x \in {"sock", "listen"}, LowestFree(f),
               fdt' = [fdt EXCEPT ![f] = x]
        PROVE  AcceptsFirst' /\ ScansReady'
    <2>1. \A g \in Fds : f <= g
      BY <1>1, <1>3, KernelAssumption DEF LowestFree
    <2> QED
      BY <1>1, <1>3, <2>1 DEF AcceptsFirst, ScansReady, DeletePoints
  <1> QED
    BY <1>2, <1>3, StartAdds

(* A call changes no socket; a callback's deleteClient() names the handle  *)
(* that may be closed before it is erased.                                 *)
LEMMA CallFirst ==
  ASSUME Inv, AcceptsFirst, ScansReady, NEW t \in Threads, Call(t)
  PROVE  AcceptsFirst' /\ ScansReady'
  <1> USE KernelAssumption, ServerAssumption
      DEF Inv, TypeOK, KernelTypeOK, Files, Threads, DeletePoints, BeforeScan, Registered, Loaded,
          Ownership, ThreadRoles, LoopPoints, CallPoints,
          AcceptsFirst, ScansReady, kernelVars, lifecycle, table, shared, At, Go, Back, MayCall
  <1>1. ASSUME NEW h \in Fds, sendClientMessage(t, h) PROVE AcceptsFirst' /\ ScansReady'
    BY <1>1 DEF sendClientMessage
  <1>2. ASSUME NEW h \in Fds, DeleteCall(t, h) PROVE AcceptsFirst' /\ ScansReady'
    BY <1>2 DEF DeleteCall, deleteClient
  <1>3. CASE sendBcast(t)
    BY <1>3 DEF sendBcast
  <1>4. CASE finish(t)
    BY <1>4 DEF finish, locals
  <1> QED
    BY <1>1, <1>2, <1>3, <1>4 DEF Call

(* Only serverTask frees a descriptor while it scans, and then it has the  *)
(* accept socket behind it.                                                *)
LEMMA ContinueFirst ==
  ASSUME Inv, OnlyServerDeletes, AcceptsFirst, ScansReady, NEW t \in Threads, Continue(t)
  PROVE  AcceptsFirst' /\ ScansReady'
  <1> USE KernelAssumption, ServerAssumption
      DEF Inv, TypeOK, KernelTypeOK, Files, Threads, DeletePoints, BeforeScan, Registered, Loaded,
          Ownership, ThreadRoles, LoopPoints, CallPoints, OnlyServerDeletes,
          AcceptsFirst, ScansReady, kernelVars, lifecycle, table, locals, shared, At, Go, Back,
          Forget, Unlock
  <1>1. CASE DeleteClose(t)
    <2>1. /\ pc[t] = "delClose" /\ t = Srv /\ pc' = [pc EXCEPT ![Srv] = "delClr"]
          /\ UNCHANGED <<m_clients, hnd, read_set, starts, peer>>
      BY <1>1 DEF DeleteClose, Close
    <2>2. hnd[Srv] \in Fds /\ fdt[hnd[Srv]] \in Conns
      BY <2>1, DeletesItsOwn DEF Owned
    <2>3. fdt' = [f \in Fds |-> IF f = hnd[Srv] THEN "free" ELSE fdt[f]]
      BY <1>1, <2>1 DEF DeleteClose, Close
    <2>4. \A c \in Conns : c # fdt[hnd[Srv]] => unread'[c] = unread[c]
      BY <1>1, <2>1, <2>2 DEF DeleteClose, Close
    <2>5. AcceptsFirst'
      BY <2>1, <2>3
    <2>6. \A f \in Fds : f # hnd[Srv] /\ Loaded(f) => Loaded(f)'
      <3> SUFFICES ASSUME NEW f \in Fds, f # hnd[Srv], Loaded(f) PROVE Loaded(f)'
        OBVIOUS
      <3>1. fdt'[f] = fdt[f] /\ fdt[f] \in Conns /\ fdt[f] # fdt[hnd[Srv]]
        BY <2>2, <2>3 DEF ConnectionOnce
      <3>2. unread'[fdt[f]] = unread[fdt[f]] /\ peer' = peer
        BY <2>1, <2>4, <3>1
      <3> QED
        BY <3>1, <3>2
    <2> HIDE DEF Loaded
    <2>7. ScansReady'
      BY <2>1, <2>6
    <2> QED
      BY <2>5, <2>7
  <1>2. CASE DeleteClrRead(t)
    BY <1>2 DEF DeleteClrRead
  <1>3. CASE DeleteClrWrite(t)
    BY <1>3 DEF DeleteClrWrite
  <1>4. CASE DeleteErase(t)
    BY <1>4 DEF DeleteErase
  <1>5. CASE BcastSend(t)
    <2>1. UNCHANGED <<fdt, unread, peer>>
      BY <1>5 DEF BcastSend, Send
    <2> QED
      BY <1>5, <2>1 DEF BcastSend
  <1>6. CASE ClientSendMsg(t)
    <2>1. UNCHANGED <<fdt, unread, peer>>
      BY <1>6 DEF ClientSendMsg, Send
    <2> QED
      BY <1>6, <2>1 DEF ClientSendMsg
  <1>7. CASE FinishJoin(t)
    BY <1>7 DEF FinishJoin
  <1>8. CASE FinishClose(t)
    BY <1>8 DEF FinishClose, Close
  <1> QED
    BY <1>1, <1>2, <1>3, <1>4, <1>5, <1>6, <1>7, <1>8 DEF Continue

(* The scan takes the accept socket first and keeps what is ready.         *)
LEMMA ScanFirst ==
  ASSUME Inv, OnlyServerDeletes, AcceptsFirst, ScansReady, NEW f \in Fds, ScanNext(f)
  PROVE  AcceptsFirst' /\ ScansReady'
  <1> USE KernelAssumption, ServerAssumption
      DEF Inv, TypeOK, KernelTypeOK, Threads, BeforeScan, kernelVars, lifecycle, table, shared,
          At, Go
  <1>1. /\ pc[Srv] = "scan" /\ m_mutex = NoThread /\ f \in read_set /\ read_set' = read_set \ {f}
        /\ \A g \in read_set : f <= g
        /\ pc' = [pc EXCEPT ![Srv] = IF f \in Registered THEN "recv" ELSE "accept"]
        /\ hnd' = [hnd EXCEPT ![Srv] = f]
        /\ UNCHANGED <<fdt, unread, peer, m_clients, starts>>
    BY DEF ScanNext
  <1>2. \A g \in read_set : fdt[g] = "listen" => g = f
    BY <1>1 DEF AcceptsFirst
  <1>3. /\ pc'[Srv] = IF f \in Registered THEN "recv" ELSE "accept"
        /\ hnd'[Srv] = f
    BY <1>1
  <1>4. AcceptsFirst'
    BY <1>1, <1>2, <1>3 DEF AcceptsFirst
  <1>5. f \in Registered => Loaded(f)
    BY <1>1 DEF ScansReady, DeletePoints
  <1>6. \A g \in read_set : g \in Registered => Loaded(g)
    BY <1>1 DEF ScansReady, DeletePoints
  <1>7. Registered' = Registered /\ \A g \in Fds : Loaded(g)' <=> Loaded(g)
    BY <1>1 DEF Registered, Loaded
  <1>8. ScansReady'
    BY <1>1, <1>3, <1>5, <1>6, <1>7 DEF ScansReady
  <1> QED
    BY <1>4, <1>8

(* select() leaves what is ready, and fails if anything is closed.         *)
LEMMA SelectFirst ==
  ASSUME Inv, OnlyServerDeletes, AcceptsFirst, ScansReady, Select
  PROVE  AcceptsFirst' /\ ScansReady'
  <1> USE KernelAssumption, ServerAssumption
      DEF Inv, TypeOK, KernelTypeOK, Threads, BeforeScan, kernelVars, lifecycle, table, shared,
          At, Go
  <1>1. /\ pc[Srv] = "select" /\ UNCHANGED <<fdt, unread, peer, m_clients, starts, hnd>>
        /\ pc' = [pc EXCEPT ![Srv] = IF read_set' = {} THEN "loop" ELSE "scan"]
    BY DEF Select
  <1>2. /\ read_set' \subseteq Fds
        /\ \A g \in read_set' : fdt[g] # "free" /\ Readable(g)
    BY DEF Select, Ready, AcceptsFirst
  <1>3. pc'[Srv] \in {"loop", "scan"}
    BY <1>1
  <1>4. AcceptsFirst'
    BY <1>1, <1>2, <1>3 DEF AcceptsFirst
  <1>5. \A t \in Threads : pc[t] \notin DeletePoints
    BY <1>1 DEF OnlyServerDeletes, DeletePoints
  <1>6. \A g \in Registered : fdt[g] \in Conns
    BY <1>5 DEF HandleOwnsSocket, Registered
  <1>7. \A g \in read_set' : g \in Registered => Loaded(g)
    BY <1>2, <1>6 DEF Readable, Loaded, Files
  <1>8. Registered' = Registered /\ \A g \in Fds : Loaded(g)' <=> Loaded(g)
    BY <1>1 DEF Registered, Loaded
  <1>9. ScansReady'
    BY <1>1, <1>2, <1>3, <1>7, <1>8 DEF ScansReady
  <1> QED
    BY <1>4, <1>9

(* recv() is called on a socket that has something to read, and takes      *)
(* nothing from another.                                                   *)
LEMMA RecvFirst ==
  ASSUME Inv, AcceptsFirst, ScansReady, RecvClient \/ RecvWakes \/ RecvWakesLate
  PROVE  AcceptsFirst' /\ ScansReady'
  <1> USE KernelAssumption, ServerAssumption DEF Inv, TypeOK, KernelTypeOK, Threads
  <1> DEFINE file == fdt[hnd[Srv]]
  <1>1. RecvClient /\ pc[Srv] = "recv"
    BY DEF ScansReady, RecvClient, RecvWakes, RecvWakesLate, At
  <1>2. hnd[Srv] \in Fds \ read_set /\ file \in Conns
    BY <1>1 DEF ScansReady, Loaded
  <1>3. RecvOn(file)
    BY <1>1, <1>2 DEF RecvClient, Files
  <1>4. PICK o \in Outcomes : AfterRecv(o)
    BY <1>1, RecvStep
  <1>5. /\ pc'[Srv] \in {"publish", "eof", "scan"}
        /\ UNCHANGED <<m_clients, read_set, starts>>
    BY <1>4 DEF AfterRecv, AfterRecvPoint, Outcomes, Go, lifecycle
  <1>6. UNCHANGED fdt
    BY <1>1, RecvStep
  <1>7. AcceptsFirst'
    BY <1>1, <1>5, <1>6 DEF AcceptsFirst, BeforeScan
  <1>8. /\ \A c \in Conns : c # file => unread'[c] = unread[c]
        /\ \A c \in Conns : peer[c] # "up" => peer'[c] # "up"
    BY <1>2, <1>3 DEF RecvOn, RecvData, RecvEof, RecvErr, kernelVars
  <1>9. ASSUME NEW f \in read_set, Loaded(f) PROVE Loaded(f)'
    <2>1. f \in Fds /\ fdt[f] \in Conns /\ fdt[f] # file
      BY <1>2, <1>9 DEF Loaded, Ownership, ConnectionOnce
    <2> QED
      BY <1>6, <1>8, <1>9, <2>1 DEF Loaded
  <1>10. Registered' = Registered
    BY <1>5 DEF Registered
  <1>11. \A f \in read_set : f \in Registered => Loaded(f)
    BY <1>1 DEF ScansReady, BeforeScan, DeletePoints
  <1>12. ScansReady'
    BY <1>5, <1>9, <1>10, <1>11 DEF ScansReady
  <1> QED
    BY <1>7, <1>12

(* The rest of serverTask.  What it accepts gets a number that is not left *)
(* to be looked at.                                                        *)
LEMMA ServerFirst ==
  ASSUME Inv, OnlyServerDeletes, AcceptsFirst, ScansReady,
         serverTask \/ RecvWakesLate \/ CallbackReturns
  PROVE  AcceptsFirst' /\ ScansReady'
  <1> USE KernelAssumption, ServerAssumption
      DEF Inv, TypeOK, KernelTypeOK, Files, Threads, DeletePoints, BeforeScan, Registered,
          AcceptsFirst, ScansReady, kernelVars, lifecycle, table, locals, shared, At, Go, Back
  <1>1. ASSUME NEW c \in Conns, NEW f \in Fds, AcceptClient(c, f) PROVE AcceptsFirst' /\ ScansReady'
    <2>1. /\ pc[Srv] = "accept" /\ fdt[hnd[Srv]] = "listen" /\ fdt[f] = "free"
          /\ fdt' = [fdt EXCEPT ![f] = c]
          /\ UNCHANGED <<unread, peer, read_set, m_clients, starts>>
      BY <1>1 DEF AcceptClient, Accept, LowestFree
    <2>2. pc'[Srv] = "emplace" /\ hnd'[Srv] = f
      BY <1>1 DEF AcceptClient
    <2>3. f \notin read_set
      BY <2>1
    <2>4. AcceptsFirst'
      BY <2>1, <2>2, <2>3
    <2>5. \A g \in read_set : Loaded(g) => Loaded(g)'
      BY <2>1, <2>3 DEF Loaded
    <2> QED
      BY <2>1, <2>2, <2>3, <2>4, <2>5
  <1>2. CASE EmplaceClient
    <2>1. /\ pc[Srv] = "emplace" /\ pc'[Srv] = "fdset"
          /\ UNCHANGED <<fdt, unread, peer, read_set, starts>>
      BY <1>2 DEF EmplaceClient
    <2>2. \A g \in read_set : m_clients'[g] = m_clients[g]
      BY <1>2, <2>1 DEF EmplaceClient
    <2>3. \A g \in Fds : Loaded(g)' <=> Loaded(g)
      BY <2>1 DEF Loaded
    <2> QED
      BY <2>1, <2>2, <2>3
  <1> USE DEF Loaded
  <1>3. CASE DeleteGone
    BY <1>3 DEF DeleteGone, deleteClient
  <1>4. CASE RecvBlocks
    BY <1>4 DEF RecvBlocks, Readable
  <1>5. CASE LoopTest \/ CopyFds \/ findMaxFd \/ ScanEnds
    BY <1>5 DEF LoopTest, CopyFds, findMaxFd, ScanEnds
  <1>6. CASE \/ publishClientMsg \/ publishDisconnected \/ AcceptFails \/ CallbackReturns
             \/ FdSetRead \/ FdSetWrite \/ publishClientConnect
    <2>1. UNCHANGED <<fdt, unread, peer, read_set, m_clients, starts>>
      BY <1>6 DEF publishClientMsg, publishDisconnected, AcceptFails, CallbackReturns,
                  FdSetRead, FdSetWrite, publishClientConnect
    <2>2. /\ pc[Srv] \in {"publish", "gone", "accept", "callback", "fdset", "fdsetW", "connect"}
          /\ pc'[Srv] \in {"callback", "scan", "fdsetW", "connect"}
      BY <1>6 DEF publishClientMsg, publishDisconnected, AcceptFails, CallbackReturns,
                  FdSetRead, FdSetWrite, publishClientConnect
    <2>3. pc[Srv] = "accept" =>
            fdt[hnd[Srv]] # "listen" \/ \A g \in Fds : fdt[g] # "free"
      BY <1>6 DEF publishClientMsg, publishDisconnected, AcceptFails, CallbackReturns,
                  FdSetRead, FdSetWrite, publishClientConnect
    <2>4. \A f, g \in read_set : fdt[f] = "listen" => fdt[g] # "free"
      BY <2>2, <2>3
    <2>5. AcceptsFirst'
      BY <2>1, <2>2, <2>4
    <2>6. \A g \in Fds : Loaded(g)' <=> Loaded(g)
      BY <2>1
    <2>7. ScansReady'
      BY <2>1, <2>2, <2>6
    <2> QED
      BY <2>5, <2>7
  <1> QED
    BY <1>1, <1>2, <1>3, <1>4, <1>5, <1>6, ScanFirst, SelectFirst, RecvFirst DEF serverTask

(* Every step keeps the order of the scan.                                 *)
LEMMA FirstStep ==
  ASSUME StartsOnce, NoOtherDescriptors, Inv, OnlyServerDeletes, AcceptsFirst, ScansReady,
         [Next]_vars
  PROVE  AcceptsFirst' /\ ScansReady'
  <1> USE DEF Registered, Loaded, kernelVars, lifecycle, table, locals, shared
  <1>1. CASE UNCHANGED vars
    BY <1>1 DEF AcceptsFirst, ScansReady, vars
  <1>2. CASE Environment
    <2>1. UNCHANGED <<pc, hnd, read_set, m_clients, starts>>
      BY <1>2 DEF Environment
    <2>2. Peers
      BY <1>2, NobodyOpens DEF Environment, ForeignClose, AcceptsFirst
    <2>3. fdt' = fdt
      BY <2>2 DEF Peers, PeerConnect, PeerSend, PeerRead, PeerClose
    <2>4. \A c \in Conns : /\ unread[c] > 0 => unread'[c] > 0
                           /\ peer[c] # "up" => peer'[c] # "up"
      BY <2>2, KernelAssumption
         DEF Peers, PeerConnect, PeerSend, PeerRead, PeerClose, Inv, TypeOK, KernelTypeOK
    <2>5. ASSUME NEW f \in Fds, Loaded(f) PROVE Loaded(f)'
      BY <2>3, <2>4, <2>5
    <2> HIDE DEF Loaded
    <2> QED
      BY <2>1, <2>3, <2>5 DEF AcceptsFirst, ScansReady, Inv, TypeOK
  <1> QED
    BY <1>1, <1>2, NextCases, StartFirst, CallFirst, ContinueFirst, ServerFirst

(* serverTask never waits in recv(), if start() is called once,            *)
(* deleteClient() only from callbacks, and the process opens no other      *)
(* descriptors, so that the accept socket has the lowest number.           *)
THEOREM RecvReturns ==
  ASSUME StartsOnce, DeletesInCallbacks, NoOtherDescriptors
  PROVE  Spec => []RecvNeverBlocks
  <1> DEFINE All == OnlyServerDeletes /\ AcceptsFirst /\ ScansReady
  <1>1. Init => All
    BY ServerAssumption, KernelAssumption
       DEF Init, KernelInit, OnlyServerDeletes, AcceptsFirst, ScansReady, Threads, DeletePoints,
           BeforeScan
  <1>2. Inv /\ All /\ [Next]_vars => All'
    BY DeletesStep, FirstStep
  <1>3. All => RecvNeverBlocks
    BY DEF ScansReady, RecvNeverBlocks, At
  <1> QED
    BY <1>1, <1>2, <1>3, Invariance, PTL DEF Spec
=============================================================================
