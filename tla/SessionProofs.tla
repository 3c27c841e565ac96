---------------------------- MODULE SessionProofs ----------------------------
(***************************************************************************)
(* TcpServer keeps its application informed: the register the callbacks    *)
(* build is in step with m_clients, data come under the right handle, and  *)
(* every step is a step of Session.  Proved for every set of descriptors,  *)
(* connections and threads and every choice of calls.                      *)
(***************************************************************************)
EXTENDS TcpServerProofs

USE DEF NoConn, NoThread, Srv, INVALID_SOCKET

(* serverTask reports the end of a client it has found closed: the handle  *)
(* it reports is no longer registered.                                     *)
Reporting ==
  /\ eof => pc[Srv] \in {"eof", "gone"} \cup DeletePoints
  /\ pc[Srv] \in {"eof", "gone"} => eof
  /\ pc[Srv] = "gone" => m_clients[hnd[Srv]] = NoConn

(* serverTask holds a Client from the lookup to the callback.              *)
Holds == pc[Srv] \in {"recv", "blocked", "publish"} \/ eof

(* The descriptor it works on is still that of the Client it looked up, or *)
(* the connection has been closed under it and the number has not been     *)
(* given to another one; the application has the connection under that     *)
(* handle or not at all, and nothing else under it.                        *)
Receiving ==
  Holds =>
    /\ hnd[Srv] \in Fds /\ ptr[Srv] \in Conns
    /\ \/ fdt[hnd[Srv]] = ptr[Srv] /\ m_clients[hnd[Srv]] = ptr[Srv]
       \/ fdt[hnd[Srv]] \notin Conns /\ stage[ptr[Srv]] = "closed"
    /\ m_clients[hnd[Srv]] \in {ptr[Srv], NoConn} /\ view[hnd[Srv]] \in {ptr[Srv], NoConn}
    /\ \A g \in Fds : view[g] = ptr[Srv] => g = hnd[Srv]

(* After the Close() of deleteClient() the connection is over, and a new   *)
(* one that gets the descriptor waits for the lock to be registered.       *)
Deleting ==
  \A t \in Threads : pc[t] \in DeletePoints \ {"delClose"} =>
    /\ stage[m_clients[hnd[t]]] = "closed"
    /\ fdt[hnd[t]] \in Conns => pc[Srv] = "emplace" /\ hnd[Srv] = hnd[t]

(* No connection has two handles, in the server or in the application.     *)
HandlesOnce ==
  /\ \A g, h \in Registered : m_clients[g] = m_clients[h] => g = h
  /\ \A g, h \in Fds : view[g] # NoConn /\ view[g] = view[h] => g = h

(* The inductive invariant, on top of Inv.                                 *)
Informed == Reporting /\ Receiving /\ Deleting /\ HandlesOnce /\ RegisterInStep

(* It holds before start() is called.                                      *)
LEMMA InitInformed == Init => Informed
  <1> SUFFICES ASSUME Init PROVE Informed
    OBVIOUS
  <1> USE KernelAssumption, ServerAssumption
      DEF Init, KernelInit, Threads, DeletePoints, Registered
  <1>1. Reporting /\ Receiving
    BY DEF Reporting, Receiving, Holds
  <1>2. Deleting /\ HandlesOnce /\ RegisterInStep
    BY DEF Deleting, HandlesOnce, RegisterInStep
  <1> QED
    BY <1>1, <1>2 DEF Informed

(* Calling an operation changes neither the sockets nor the register.      *)
LEMMA CallInformed ==
  ASSUME Inv, Informed, NEW t \in Threads, Call(t)
  PROVE  Informed'
  <1> USE KernelAssumption, ServerAssumption
      DEF Inv, Informed, Reporting, Receiving, Deleting, HandlesOnce, RegisterInStep,
          Holds, Ownership, ThreadRoles, LockHeld, TypeOK, KernelTypeOK, Files, Threads,
          Registered, LoopPoints, CallPoints, DeletePoints, kernelVars, lifecycle, table, locals,
          shared, At, Go, Back, Forget, MayCall, Lock, Unlock
  <1>1. ASSUME NEW h \in Fds, DeleteCall(t, h) PROVE Informed'
    BY <1>1 DEF DeleteCall, deleteClient
  <1>2. ASSUME NEW h \in Fds, sendClientMessage(t, h) PROVE Informed'
    BY <1>2 DEF sendClientMessage
  <1>3. CASE sendBcast(t)
    BY <1>3 DEF sendBcast
  <1>4. CASE finish(t)
    BY <1>4 DEF finish
  <1> QED
    BY <1>1, <1>2, <1>3, <1>4 DEF Call

(* start() only adds the accept socket.                                    *)
LEMMA StartInformed ==
  ASSUME Inv, Informed, start
  PROVE  Informed'
  <1> USE KernelAssumption, ServerAssumption
      DEF Inv, Informed, Reporting, Receiving, Deleting, HandlesOnce, RegisterInStep,
          Holds, Ownership, ThreadRoles, LockHeld, TypeOK, KernelTypeOK, Files, Threads,
          Registered, LoopPoints, CallPoints, DeletePoints, kernelVars, streamVars, table, locals,
          At, Go, StartCall
  <1>1. CASE StartNoSocket
    BY <1>1 DEF StartNoSocket
  <1>2. ASSUME NEW f \in Fds, StartSetupFails(f) PROVE Informed'
    BY <1>2 DEF StartSetupFails, LowestFree
  <1>3. ASSUME NEW f \in Fds, StartSucceeds(f) PROVE Informed'
    <2>1. /\ fdt[f] = "free" /\ fdt' = [fdt EXCEPT ![f] = "listen"]
          /\ UNCHANGED <<stage, m_clients, view, hnd, ptr, eof>>
      BY <1>3 DEF StartSucceeds, LowestFree
    <2>2. pc' = pc \/ (pc[Srv] = "none" /\ pc' = [pc EXCEPT ![Srv] = "loop"])
      BY <1>3 DEF StartSucceeds
    <2> QED
      BY <2>1, <2>2
  <1> QED
    BY <1>1, <1>2, <1>3 DEF start

(* deleteClient() ends a connection before the handle is forgotten, and    *)
(* finish() forgets all of them together.                                  *)
LEMMA ContinueInformed ==
  ASSUME Inv, Informed, NEW t \in Threads, Continue(t)
  PROVE  Informed'
  <1> USE KernelAssumption, ServerAssumption
      DEF Inv, Informed, Reporting, Receiving, Deleting, HandlesOnce, RegisterInStep,
          Holds, Ownership, ThreadRoles, LockHeld, TypeOK, KernelTypeOK, Files, Threads,
          Registered, LoopPoints, CallPoints, DeletePoints, kernelVars, lifecycle, table, locals,
          shared, At, Go, Back, Forget, Lock, Unlock
  <1>1. CASE DeleteClose(t)
    <2> DEFINE own == m_clients[hnd[t]]
    <2>1. /\ pc[t] = "delClose" /\ pc' = [pc EXCEPT ![t] = "delClr"]
          /\ UNCHANGED <<m_clients, view, hnd, ptr, eof>>
      BY <1>1 DEF DeleteClose
    <2>2. /\ hnd[t] \in Fds /\ own \in Conns /\ fdt[hnd[t]] = own
          /\ \A u \in Threads : u # t => pc[u] \notin DeletePoints
          /\ pc[Srv] = "emplace" => hnd[Srv] # hnd[t]
      BY <2>1, DeletesItsOwn DEF Owned
    <2>3. fdt' = [f \in Fds |-> IF f = hnd[t] THEN "free" ELSE fdt[f]]
      BY <1>1, <2>2 DEF DeleteClose, Close
    <2>4. stage' = [c \in Conns |-> IF c = own THEN "closed" ELSE stage[c]]
      BY <1>1, <2>2 DEF DeleteClose, Close
    <2> HIDE DEF own
    <2>5. HandlesOnce' /\ RegisterInStep'
      BY <2>1
    <2>6. /\ pc'[Srv] = pc[Srv] \/ (t = Srv /\ pc'[Srv] = "delClr")
          /\ pc'[Srv] = "gone" => pc[Srv] = "gone"
          /\ Reporting'
      BY <2>1
    <2>7. Deleting'
      BY <2>1, <2>2, <2>3, <2>4 DEF own
    <2>8. Receiving'
      <3>1. CASE Holds
        <4>1. /\ hnd[Srv] \in Fds /\ ptr[Srv] \in Conns
              /\ \/ fdt[hnd[Srv]] = ptr[Srv] /\ m_clients[hnd[Srv]] = ptr[Srv]
                 \/ fdt[hnd[Srv]] \notin Conns /\ stage[ptr[Srv]] = "closed"
          BY <3>1
        <4>2. \/ fdt'[hnd[Srv]] = ptr[Srv] /\ m_clients[hnd[Srv]] = ptr[Srv]
              \/ fdt'[hnd[Srv]] \notin Conns /\ stage'[ptr[Srv]] = "closed"
          BY <2>2, <2>3, <2>4, <4>1 DEF own
        <4> QED
          BY <2>1, <3>1, <4>2
      <3>2. CASE ~Holds
        BY <2>1, <2>6, <3>2
      <3> QED
        BY <3>1, <3>2
    <2> QED
      BY <2>5, <2>6, <2>7, <2>8
  <1>2. CASE DeleteClrRead(t)
    BY <1>2 DEF DeleteClrRead
  <1>3. CASE DeleteClrWrite(t)
    BY <1>3 DEF DeleteClrWrite
  <1>4. CASE DeleteErase(t)
    <2>1. /\ pc[t] = "delErase" /\ hnd[t] \in Registered
          /\ \A u \in Threads : u # t => pc[u] \notin DeletePoints
      BY <1>4 DEF DeleteErase
    <2>2. /\ m_clients' = [m_clients EXCEPT ![hnd[t]] = NoConn]
          /\ UNCHANGED <<fdt, stage, ptr, eof>>
      BY <1>4 DEF DeleteErase
    <2>3. /\ t = Srv => pc' = [pc EXCEPT ![Srv] = IF eof THEN "gone" ELSE "callback"] /\ hnd' = hnd
          /\ t # Srv => pc' = [pc EXCEPT ![t] = "idle"] /\ hnd' = [hnd EXCEPT ![t] = INVALID_SOCKET]
      BY <1>4 DEF DeleteErase
    <2>4. view' = IF t = Srv /\ eof THEN view ELSE [view EXCEPT ![hnd[t]] = NoConn]
      BY <1>4 DEF DeleteErase
    <2>5. Deleting' /\ HandlesOnce'
      BY <2>1, <2>2, <2>3, <2>4
    <2>6. /\ pc'[Srv] = pc[Srv] \/ (t = Srv /\ pc'[Srv] = IF eof THEN "gone" ELSE "callback")
          /\ hnd'[Srv] = hnd[Srv]
          /\ \A h \in Fds : view'[h] \in {view[h], NoConn} /\ m_clients'[h] \in {m_clients[h], NoConn}
      BY <2>1, <2>2, <2>3, <2>4
    <2>7. RegisterInStep'
      BY <2>1, <2>2, <2>3, <2>4
    <2>8. Reporting'
      <3>1. CASE t = Srv
        BY <2>1, <2>2, <2>3, <3>1
      <3>2. CASE t # Srv
        <4>1. pc'[Srv] = pc[Srv] /\ eof' = eof
          BY <2>2, <2>3, <3>2
        <4>2. pc[Srv] = "gone" => hnd[Srv] \in Fds /\ m_clients[hnd[Srv]] = NoConn
          OBVIOUS
        <4>3. pc'[Srv] = "gone" => m_clients'[hnd'[Srv]] = NoConn
          <5> HIDE DEF Inv, Informed
          <5>1. hnd'[Srv] = hnd[Srv] /\ \A h \in Fds : m_clients'[h] \in {m_clients[h], NoConn}
            BY <2>6
          <5> QED
            BY <4>1, <4>2, <5>1
        <4> QED
          BY <4>1, <4>3
      <3> QED
        BY <3>1, <3>2
    <2>9. Receiving'
      <3>1. Holds' => Holds
        BY <2>2, <2>6
      <3>2. CASE Holds
        <4>1. /\ hnd[Srv] \in Fds /\ ptr[Srv] \in Conns
              /\ \/ fdt[hnd[Srv]] = ptr[Srv] /\ m_clients[hnd[Srv]] = ptr[Srv]
                 \/ fdt[hnd[Srv]] \notin Conns /\ stage[ptr[Srv]] = "closed"
          BY <3>2
        <4>2. fdt[hnd[t]] \notin Conns
          BY <2>1, <3>2
        <4>3. fdt[hnd[Srv]] = ptr[Srv] => m_clients'[hnd[Srv]] = m_clients[hnd[Srv]]
          BY <2>1, <2>2, <4>1, <4>2
        <4>4. /\ m_clients[hnd[Srv]] \in {ptr[Srv], NoConn} /\ view[hnd[Srv]] \in {ptr[Srv], NoConn}
              /\ \A g \in Fds : view[g] = ptr[Srv] => g = hnd[Srv]
          BY <3>2
        <4> HIDE DEF Inv, Informed
        <4>5. UNCHANGED <<fdt, stage, ptr>> /\ hnd'[Srv] = hnd[Srv]
          BY <2>2, <2>6
        <4>6. \A h \in Fds : view'[h] \in {view[h], NoConn} /\ m_clients'[h] \in {m_clients[h], NoConn}
          BY <2>6
        <4>7. \A g \in Fds : view'[g] = ptr[Srv] => g = hnd[Srv]
          BY <4>1, <4>4, <4>6
        <4>8. \/ fdt[hnd[Srv]] = ptr[Srv] /\ m_clients'[hnd[Srv]] = ptr[Srv]
              \/ fdt[hnd[Srv]] \notin Conns /\ stage[ptr[Srv]] = "closed"
          BY <4>1, <4>3
        <4>9. m_clients'[hnd[Srv]] \in {ptr[Srv], NoConn} /\ view'[hnd[Srv]] \in {ptr[Srv], NoConn}
          BY <4>1, <4>4, <4>6
        <4> QED
          BY <4>1, <4>5, <4>7, <4>8, <4>9
      <3>3. CASE ~Holds
        BY <3>1, <3>3
      <3> QED
        BY <3>2, <3>3
    <2> QED
      BY <2>5, <2>7, <2>8, <2>9
  <1>5. CASE BcastSend(t)
    <2>1. UNCHANGED <<fdt, stage>>
      BY <1>5 DEF BcastSend, Send
    <2> QED
      BY <1>5, <2>1 DEF BcastSend
  <1>6. CASE ClientSendMsg(t)
    <2>1. UNCHANGED <<fdt, stage>>
      BY <1>6 DEF ClientSendMsg, Send
    <2> QED
      BY <1>6, <2>1 DEF ClientSendMsg
  <1>7. CASE FinishJoin(t)
    BY <1>7 DEF FinishJoin
  <1>8. CASE FinishClose(t)
    BY <1>8 DEF FinishClose, Close, OwnedFds
  <1> QED
    BY <1>1, <1>2, <1>3, <1>4, <1>5, <1>6, <1>7, <1>8 DEF Continue

(* serverTask looks a Client up while nobody deletes it, registers what it *)
(* has accepted before it tells, and tells after it has deleted.           *)
LEMMA ServerInformed ==
  ASSUME Inv, Informed, serverTask \/ RecvWakesLate \/ CallbackReturns
  PROVE  Informed'
  <1> USE KernelAssumption, ServerAssumption
      DEF Inv, Informed, Reporting, Receiving, Deleting, HandlesOnce, RegisterInStep,
          Holds, Ownership, ThreadRoles, LockHeld, TypeOK, KernelTypeOK, Files, Threads,
          Registered, LoopPoints, CallPoints, DeletePoints, kernelVars, lifecycle, table, locals,
          shared, At, Go, Back, Forget, Lock, Unlock
  <1>1. CASE RecvClient \/ RecvWakes \/ RecvWakesLate
    <2>1. PICK o \in Outcomes : AfterRecv(o)
      BY <1>1, RecvStep
    <2>2. pc[Srv] \in {"recv", "blocked"} /\ UNCHANGED <<fdt, stage>>
      BY <1>1, RecvStep
    <2>3. pc' = [pc EXCEPT ![Srv] = AfterRecvPoint(o)] /\ eof' = (o = "eof")
      BY <2>1 DEF AfterRecv
    <2>4. /\ UNCHANGED <<m_clients, view>>
          /\ hnd' = IF o = "err" THEN [hnd EXCEPT ![Srv] = INVALID_SOCKET] ELSE hnd
          /\ o # "err" => ptr' = ptr
      BY <2>1 DEF AfterRecv
    <2>5. /\ \A t \in AppThreads : pc'[t] = pc[t] /\ hnd'[t] = hnd[t]
          /\ pc'[Srv] = AfterRecvPoint(o) /\ pc'[Srv] \in {"publish", "eof", "scan"}
          /\ Holds' => o # "err"
          /\ pc'[Srv] = "eof" <=> eof'
      <3> HIDE DEF Inv, Informed
      <3>1. pc \in [Threads -> Points] /\ hnd \in [Threads -> Fds \cup {INVALID_SOCKET}]
        BY DEF Inv
      <3>2. /\ pc'[Srv] = AfterRecvPoint(o)
            /\ \A t \in AppThreads : pc'[t] = pc[t] /\ hnd'[t] = hnd[t]
        BY <2>3, <2>4, <3>1
      <3>3. CASE o = "err"
        <4>1. ~eof' /\ o # "eof"
          BY <2>3, <3>3
        <4>2. pc'[Srv] = "scan"
          BY <3>2, <3>3 DEF AfterRecvPoint
        <4> QED
          BY <3>2, <3>3, <4>1, <4>2
      <3>4. CASE o = "eof"
        BY <2>3, <3>2, <3>4 DEF AfterRecvPoint
      <3>5. CASE o = "data"
        <4>1. ~eof' /\ o # "eof"
          BY <2>3, <3>5
        <4>2. pc'[Srv] = "publish"
          BY <3>2, <3>5 DEF AfterRecvPoint
        <4> QED
          BY <3>2, <3>5, <4>1, <4>2
      <3> QED
        BY <3>2, <3>3, <3>4, <3>5 DEF Outcomes
    <2>6. Reporting' /\ HandlesOnce' /\ RegisterInStep'
      BY <2>2, <2>4, <2>5
    <2>7. Receiving'
      BY <2>2, <2>4, <2>5
    <2>8. Deleting'
      BY <2>2, <2>4, <2>5
    <2> QED
      BY <2>6, <2>7, <2>8
  <1>2. CASE LoopTest
    BY <1>2 DEF LoopTest
  <1>3. CASE CopyFds
    BY <1>3 DEF CopyFds
  <1>4. CASE findMaxFd
    BY <1>4 DEF findMaxFd
  <1>5. CASE Select
    BY <1>5 DEF Select
  <1>6. CASE ScanEnds
    BY <1>6 DEF ScanEnds
  <1>7. ASSUME NEW f \in Fds, ScanNext(f) PROVE Informed'
    BY <1>7 DEF ScanNext, HandleOwnsSocket
  <1>8. CASE RecvBlocks
    BY <1>8 DEF RecvBlocks
  <1>9. CASE DeleteGone
    <2>1. /\ pc[Srv] = "eof" /\ m_mutex = NoThread
          /\ UNCHANGED <<fdt, stage, m_clients, view, ptr, eof>>
      BY <1>9 DEF DeleteGone, deleteClient
    <2>2. CASE hnd[Srv] \in Registered
      <3>1. pc' = [pc EXCEPT ![Srv] = "delClose"] /\ hnd' = [hnd EXCEPT ![Srv] = hnd[Srv]]
        BY <1>9, <2>2 DEF DeleteGone, deleteClient
      <3> QED
        BY <2>1, <3>1
    <2>3. CASE hnd[Srv] \notin Registered
      <3>1. pc' = [pc EXCEPT ![Srv] = IF eof THEN "gone" ELSE "callback"] /\ hnd' = hnd
        BY <1>9, <2>3 DEF DeleteGone, deleteClient
      <3>2. view[hnd[Srv]] = NoConn
        BY <2>1, <2>3
      <3> QED
        BY <2>1, <2>3, <3>1, <3>2
    <2> QED
      BY <2>2, <2>3
  <1>10. CASE publishDisconnected
    BY <1>10 DEF publishDisconnected
  <1>11. CASE AcceptFails
    BY <1>11 DEF AcceptFails
  <1>12. ASSUME NEW c \in Conns, NEW f \in Fds, AcceptClient(c, f) PROVE Informed'
    BY <1>12 DEF AcceptClient, Accept, LowestFree
  <1>13. CASE EmplaceClient
    BY <1>13 DEF EmplaceClient, AcceptedIsNew
  <1>14. CASE FdSetRead
    BY <1>14 DEF FdSetRead
  <1>15. CASE FdSetWrite
    BY <1>15 DEF FdSetWrite
  <1>16. CASE publishClientConnect
    BY <1>16 DEF publishClientConnect
  <1>17. CASE CallbackReturns
    BY <1>17 DEF CallbackReturns
  <1>18. CASE publishClientMsg
    BY <1>18 DEF publishClientMsg
  <1> QED
    BY <1>1, <1>2, <1>3, <1>4, <1>5, <1>6, <1>7, <1>8, <1>9, <1>10, <1>11, <1>12, <1>13,
       <1>14, <1>15, <1>16, <1>17, <1>18 DEF serverTask

(* Peers and other code of the process change neither.                     *)
LEMMA EnvironmentInformed ==
  ASSUME Inv, Informed, Environment
  PROVE  Informed'
  <1> USE KernelAssumption, ServerAssumption
      DEF Inv, Informed, Reporting, Receiving, Deleting, HandlesOnce, RegisterInStep,
          Holds, TypeOK, KernelTypeOK, Files, Threads, Registered, DeletePoints,
          streamVars, lifecycle, table, locals
  <1>1. UNCHANGED <<m_clients, view, pc, hnd, ptr, eof>>
    BY DEF Environment
  <1>2. CASE Peers
    <2>1. fdt' = fdt /\ \A c \in Conns : stage[c] # "new" => stage'[c] = stage[c]
      BY <1>2 DEF Peers, PeerConnect, PeerSend, PeerRead, PeerClose
    <2>2. \A c \in Conns : stage[c] = "closed" => stage'[c] = "closed"
      BY <2>1
    <2>3. pc[Srv] = "gone" => view[hnd[Srv]] \in Conns \cup {NoConn}
      OBVIOUS
    <2>4. Reporting'
      BY <1>1, <2>2, <2>3
    <2>5. Receiving'
      BY <1>1, <2>1
    <2>6. Deleting'
      <3>1. \A t \in Threads : pc[t] \in DeletePoints => m_clients[hnd[t]] \in Conns
        <4> HIDE DEF Informed
        <4>1. LockHeld /\ m_clients \in [Fds -> Conns \cup {NoConn}]
          BY DEF Ownership
        <4> HIDE DEF Inv
        <4> QED
          BY <4>1 DEF LockHeld
      <3> QED
        BY <1>1, <2>1, <2>2, <3>1
    <2>7. HandlesOnce' /\ RegisterInStep'
      BY <1>1
    <2> QED
      BY <2>4, <2>5, <2>6, <2>7
  <1>3. ASSUME NEW f \in Fds, ForeignOpen(f) \/ ForeignClose(f) PROVE Informed'
    <2>1. /\ fdt[f] \in {"free", "foreign"} /\ stage' = stage
          /\ \E x \in {"free", "foreign"} : fdt' = [fdt EXCEPT ![f] = x]
      BY <1>3 DEF ForeignOpen, ForeignClose, LowestFree
    <2> QED
      BY <1>1, <2>1 DEF Ownership, LockHeld
  <1> QED
    BY <1>2, <1>3 DEF Environment
(* The invariant is inductive together with Inv.                           *)
LEMMA InformedStep == Inv /\ Informed /\ [Next]_vars => Informed'
  <1> SUFFICES ASSUME Inv, Informed, [Next]_vars PROVE Informed'
    OBVIOUS
  <1>1. CASE UNCHANGED vars
    BY <1>1
       DEF Informed, Reporting, Receiving, Holds, Deleting, HandlesOnce, RegisterInStep, Registered,
           vars, shared, locals, kernelVars, lifecycle, table
  <1>2. CASE Next
    BY <1>1, <1>2, NextCases, StartInformed, CallInformed, ContinueInformed, ServerInformed,
       EnvironmentInformed
  <1> QED
    BY <1>1, <1>2

-----------------------------------------------------------------------------
(* Both invariants hold throughout every behaviour.                        *)
THEOREM InformedAlways == Spec => [](Inv /\ Informed)
  BY InitInv, InvStep, InitInformed, InformedStep, PTL DEF Spec

(* What onClientConnect() and onClientDisconnect() have told the           *)
(* application is what m_clients holds, except for the client that         *)
(* serverTask is about to announce or to report as gone.                   *)
THEOREM RegisterFollows == Spec => []RegisterInStep
  BY InformedAlways, PTL DEF Informed

(* The connection a recv() of serverTask takes data from is the one that   *)
(* the application and m_clients have under the handle.                    *)
LEMMA RecvAttributed ==
  ASSUME Inv, Informed, NEW c \in Conns, RecvClient \/ RecvWakes \/ RecvWakesLate,
         unread'[c] # unread[c]
  PROVE  /\ RecvData(c) /\ stage[c] = "open"
         /\ hnd[Srv] \in Fds /\ view[hnd[Srv]] = c /\ m_clients[hnd[Srv]] = c
  <1> USE KernelAssumption, ServerAssumption DEF Inv, TypeOK, KernelTypeOK
  <1>1. pc[Srv] \in {"recv", "blocked"}
    BY RecvStep
  <1>2. /\ hnd[Srv] \in Fds /\ ptr[Srv] \in Conns
        /\ \/ fdt[hnd[Srv]] = ptr[Srv] /\ m_clients[hnd[Srv]] = ptr[Srv]
           \/ fdt[hnd[Srv]] \notin Conns /\ stage[ptr[Srv]] = "closed"
    BY <1>1 DEF Informed, Receiving, Holds
  <1>3. \A h \in Fds : view[h] = m_clients[h]
    BY <1>1 DEF Informed, RegisterInStep
  <1>4. ASSUME NEW d \in Conns, RecvOn(d) PROVE RecvData(c) /\ d = c
    BY <1>4 DEF RecvOn, RecvData, RecvEof, RecvErr, kernelVars
  <1>5. RecvData(c) /\ fdt[hnd[Srv]] = c
    <2>1. CASE RecvClient
      BY <1>2, <1>4, <2>1 DEF RecvClient, kernelVars
    <2>2. CASE RecvWakes
      BY <1>2, <1>4, <2>2 DEF RecvWakes
    <2>3. CASE RecvWakesLate
      BY <2>3 DEF RecvWakesLate, kernelVars
    <2> QED
      BY <2>1, <2>2, <2>3
  <1> QED
    BY <1>2, <1>3, <1>5 DEF Ownership, ConnectionOnce

(* Data are handed to onReceiveClientData() under the handle by which the  *)
(* application knows the connection, whatever was deleted, closed or given *)
(* a descriptor again since select() reported it.                          *)
THEOREM DataAttributed == Spec => DataAttribution
  <1> DEFINE Attributed ==
        \A c \in Conns :
          stage'[c] = "open" /\ unread'[c] < unread[c] =>
            hnd[Srv] \in Fds /\ view[hnd[Srv]] = c /\ m_clients[hnd[Srv]] = c
  <1>1. ASSUME Inv, Informed, Next PROVE Attributed
    <2> SUFFICES ASSUME NEW c \in Conns, stage'[c] = "open", unread'[c] < unread[c]
                 PROVE  hnd[Srv] \in Fds /\ view[hnd[Srv]] = c /\ m_clients[hnd[Srv]] = c
      OBVIOUS
    <2>1. unread[c] \in Nat /\ unread'[c] # unread[c]
      BY <1>1, KernelAssumption DEF Inv, TypeOK, KernelTypeOK
    <2>2. ~start
      BY <2>1 DEF start, StartNoSocket, StartSetupFails, StartSucceeds, kernelVars, streamVars
    <2>3. ASSUME NEW t \in Threads PROVE ~Call(t)
      BY <2>1 DEF Call, DeleteCall, deleteClient, sendClientMessage, sendBcast, finish,
                  shared, kernelVars
    <2>4. ASSUME NEW t \in Threads PROVE ~Continue(t)
      <3>1. ASSUME NEW S, Close(S) PROVE FALSE
        BY <2>1, <3>1 DEF Close
      <3> QED
        BY <2>1, <3>1
           DEF Continue, DeleteClose, DeleteClrRead, DeleteClrWrite, DeleteErase, BcastSend,
               ClientSendMsg, FinishJoin, FinishClose, Send, shared, kernelVars
    <2>5. ~Environment
      <3>1. ASSUME NEW d \in Conns PROVE ~PeerSend(d)
        BY <1>1, <2>1, KernelAssumption DEF PeerSend, Inv, TypeOK, KernelTypeOK
      <3> QED
        BY <2>1, <3>1
           DEF Environment, Peers, PeerConnect, PeerRead, PeerClose, ForeignOpen,
               ForeignClose, streamVars
    <2>6. RecvClient \/ RecvWakes \/ RecvWakesLate
      BY <1>1, <2>1, <2>2, <2>3, <2>4, <2>5, NextCases
         DEF serverTask, CallbackReturns, LoopTest, CopyFds, findMaxFd, Select, ScanEnds,
             ScanNext, RecvBlocks, publishClientMsg, DeleteGone, deleteClient, publishDisconnected,
             AcceptFails, AcceptClient, Accept, EmplaceClient, FdSetRead, FdSetWrite, publishClientConnect,
             vars, shared, kernelVars
    <2> QED
      BY <1>1, <2>1, <2>6, RecvAttributed
  <1>2. Inv /\ Informed /\ [Next]_vars => [Attributed]_vars
    BY <1>1
  <1> QED
    BY <1>2, InformedAlways, PTL DEF Spec, DataAttribution
-----------------------------------------------------------------------------
(* The refinement: each step of the server is a step of Session or none.   *)

(* The server begins where Session does.                                   *)
LEMMA RefinesInit == Init => Abstract!Init
  <1> SUFFICES ASSUME Init PROVE Abstract!Init
    OBVIOUS
  <1> USE KernelAssumption, ServerAssumption DEF Init, KernelInit
  <1>1. \A c \in Conns : Phase(c) = "fresh"
    BY DEF Phase
  <1>2. Found = "nothing"
    BY DEF Found, Threads
  <1>3. Event = Abstract!NoEvent
    BY <1>2 DEF Event, Abstract!NoEvent
  <1> QED
    BY <1>1, <1>3 DEF Abstract!Init

(* What serverTask has found, in terms of what it holds.                   *)
LEMMA FoundHeld ==
  /\ Found \in {"look", "data", "end", "nothing"}
  /\ Found = "nothing" <=> ~Holds
  /\ Found = "nothing" => Event = Abstract!NoEvent
  BY DEF Found, Holds, Event, Abstract!NoEvent

LEMMA FoundNext ==
  /\ Holds' <=> (pc'[Srv] \in {"recv", "blocked", "publish"} \/ eof')
  /\ Found' = "nothing" <=> ~Holds'
  /\ Found' = "nothing" => Event' = Abstract!NoEvent
  BY DEF Found, Holds, Event, Abstract!NoEvent

(* The event is the same as long as serverTask stays where it is, or holds *)
(* nothing.                                                                *)
LEMMA EventKept ==
  ASSUME \/ ~Holds /\ ~Holds'
         \/ Found' = Found /\ hnd'[Srv] = hnd[Srv] /\ ptr'[Srv] = ptr[Srv]
  PROVE  Event' = Event
  <1>1. CASE ~Holds /\ ~Holds'
    BY <1>1, FoundHeld, FoundNext
  <1>2. CASE Found' = Found /\ hnd'[Srv] = hnd[Srv] /\ ptr'[Srv] = ptr[Srv]
    BY <1>2 DEF Event
  <1> QED
    BY <1>1, <1>2

(* A step that tells the application nothing, reads nothing and closes     *)
(* nothing is no step of Session.                                          *)
LEMMA Hidden ==
  ASSUME UNCHANGED <<view, unread, Event>>,
         \A c \in Conns : stage'[c] = "closed" <=> stage[c] = "closed"
  PROVE  UNCHANGED Abstract!vars
  <1>1. \A c \in Conns : Phase(c)' = Phase(c)
    BY DEF Phase
  <1> QED
    BY <1>1 DEF Abstract!vars

(* The close of a connection that is not yet over is its End.              *)
LEMMA EndStep ==
  ASSUME NEW c \in Conns, stage[c] # "closed", UNCHANGED <<view, Event>>,
         stage' = [d \in Conns |-> IF d = c THEN "closed" ELSE stage[d]],
         unread \in [Conns -> Nat],
         unread' = [d \in Conns |-> IF d = c THEN 0 ELSE unread[d]]
  PROVE  Abstract!End(c)
  <1>1. Phase(c) \in {"fresh", "open"}
    BY DEF Phase
  <1>2. Phase(c)' = IF Phase(c) = "open" THEN "ending" ELSE "over"
    BY DEF Phase
  <1>3. \A d \in Conns : d # c => Phase(d)' = Phase(d)
    BY DEF Phase
  <1> QED
    BY <1>1, <1>2, <1>3 DEF Abstract!End

(* Forgetting the handle of a closed connection: it was ending if the      *)
(* application had it, and is over.                                        *)
LEMMA ForgetStep ==
  ASSUME TypeOK, NEW h \in Fds, NEW c \in Conns, view[h] \in {c, NoConn}, stage[c] = "closed",
         \A g \in Fds : view[g] = c => g = h,
         view' = [view EXCEPT ![h] = NoConn], UNCHANGED stage
  PROVE  /\ Phase(c) = IF view[h] = c THEN "ending" ELSE "over"
         /\ [d \in Conns |-> Phase(d)'] = [[d \in Conns |-> Phase(d)] EXCEPT ![c] = "over"]
  <1> USE KernelAssumption DEF TypeOK, KernelTypeOK
  <1>1. Phase(c) = IF view[h] = c THEN "ending" ELSE "over"
    BY DEF Phase
  <1>2. Phase(c)' = "over"
    BY DEF Phase
  <1>3. \A d \in Conns : d # c => Phase(d)' = Phase(d)
    BY DEF Phase
  <1> QED
    BY <1>1, <1>2, <1>3

(* It is the application's Withdraw.                                       *)
LEMMA WithdrawStep ==
  ASSUME TypeOK, HandlesOnce, NEW h \in Fds, NEW c \in Conns, view[h] = c, stage[c] = "closed",
         view' = [view EXCEPT ![h] = NoConn], UNCHANGED <<stage, unread, Event>>
  PROVE  Abstract!Withdraw(h)
  <1>1. \A g \in Fds : view[g] = c => g = h
    BY KernelAssumption DEF HandlesOnce
  <1>2. /\ Phase(c) = "ending"
        /\ [d \in Conns |-> Phase(d)'] = [[d \in Conns |-> Phase(d)] EXCEPT ![c] = "over"]
    BY <1>1, ForgetStep
  <1> QED
    BY <1>2, KernelAssumption DEF Abstract!Withdraw

(* Telling the application of a connection it does not have, under a       *)
(* handle it does not use, is its Announce.                                *)
LEMMA AnnounceStep ==
  ASSUME TypeOK, NEW h \in Fds, NEW c \in Conns, view[h] = NoConn, stage[c] # "closed",
         \A g \in Fds : view[g] # c, ~Holds, ~Holds',
         view' = [view EXCEPT ![h] = c], UNCHANGED <<stage, unread>>
  PROVE  Abstract!Announce(h, c)
  <1> USE KernelAssumption DEF TypeOK, KernelTypeOK
  <1>1. Phase(c) = "fresh" /\ Phase(c)' = "open"
    BY DEF Phase
  <1>2. \A d \in Conns : d # c => Phase(d)' = Phase(d)
    BY DEF Phase
  <1>3. Event = Abstract!NoEvent /\ Event' = Event
    BY FoundHeld, FoundNext
  <1> QED
    BY <1>1, <1>2, <1>3 DEF Abstract!Announce

(* The lookup of a registered client is an Attend: the application has it, *)
(* and it is open.                                                         *)
LEMMA AttendStep ==
  ASSUME Inv, Informed, NEW f \in Fds, ScanNext(f), f \in Registered
  PROVE  Abstract!Attend(f)
  <1> USE KernelAssumption, ServerAssumption DEF Inv, TypeOK, KernelTypeOK
  <1>1. /\ pc[Srv] = "scan" /\ m_mutex = NoThread /\ pc' = [pc EXCEPT ![Srv] = "recv"]
        /\ hnd' = [hnd EXCEPT ![Srv] = f] /\ ptr' = [ptr EXCEPT ![Srv] = m_clients[f]]
        /\ UNCHANGED <<view, stage, unread, eof>>
    BY DEF ScanNext, At, Go, shared, kernelVars, table
  <1>2. view[f] = m_clients[f] /\ m_clients[f] \in Conns
    BY <1>1 DEF Informed, RegisterInStep, Registered
  <1>3. fdt[f] = m_clients[f]
    BY <1>1 DEF HandleOwnsSocket, Ownership, LockHeld, Registered
  <1>4. Phase(m_clients[f]) = "open"
    BY <1>2, <1>3 DEF Phase, Ownership, ConnectionOnce
  <1>5. \A d \in Conns : Phase(d)' = Phase(d)
    BY <1>1 DEF Phase
  <1>6. ~Holds
    BY <1>1 DEF Holds, Informed, Reporting, DeletePoints
  <1>7. Found' = "look" /\ hnd'[Srv] = f /\ ptr'[Srv] = view[f]
    BY <1>1, <1>2 DEF Found, Threads
  <1>8. /\ Event = Abstract!NoEvent
        /\ Event' = [handle |-> f, conn |-> view[f], what |-> "look"]
    BY <1>6, <1>7, FoundHeld DEF Event
  <1> QED
    BY <1>1, <1>2, <1>4, <1>5, <1>8 DEF Abstract!Attend

(* What recv() returns: data of the connection, which is open and which    *)
(* the application has; whatever comes after it was closed; an end of      *)
(* stream; or an error.                                                    *)
LEMMA RecvResults ==
  ASSUME Inv, Informed, RecvClient \/ RecvWakes \/ RecvWakesLate
  PROVE  \/ RecvData(ptr[Srv]) /\ AfterRecv("data") /\ Phase(ptr[Srv]) = "open"
         \/ unread' = unread /\ AfterRecv("data") /\ Phase(ptr[Srv]) # "open"
         \/ unread' = unread /\ (AfterRecv("eof") \/ AfterRecv("err"))
  <1> USE KernelAssumption DEF Inv, TypeOK, KernelTypeOK
  <1> DEFINE c == ptr[Srv]
             h == hnd[Srv]
  <1>1. pc[Srv] \in {"recv", "blocked"}
    BY RecvStep
  <1>2. /\ h \in Fds /\ c \in Conns
        /\ \/ fdt[h] = c /\ m_clients[h] = c
           \/ fdt[h] \notin Conns /\ stage[c] = "closed"
    BY <1>1 DEF Informed, Receiving, Holds
  <1>3. fdt[h] = c => Phase(c) = "open"
    <2>1. fdt[h] = c => stage[c] = "open"
      BY <1>2 DEF Ownership, ConnectionOnce
    <2>2. view[h] = m_clients[h]
      BY <1>1, <1>2 DEF Informed, RegisterInStep
    <2> QED
      BY <1>2, <2>1, <2>2 DEF Phase
  <1>4. stage[c] = "closed" => Phase(c) # "open"
    BY DEF Phase
  <1>5. ASSUME RecvOn(c)
        PROVE  \/ RecvData(c) /\ AfterRecv("data")
               \/ unread' = unread /\ (AfterRecv("eof") \/ AfterRecv("err"))
    BY <1>5 DEF RecvOn, RecvEof, RecvErr, kernelVars
  <1>6. CASE RecvClient
    <2>1. CASE fdt[h] \in Conns
      BY <1>2, <1>3, <1>5, <1>6, <2>1 DEF RecvClient, Files
    <2>2. CASE fdt[h] \notin Conns
      BY <1>2, <1>4, <1>6, <2>2 DEF RecvClient, kernelVars
    <2> QED
      BY <2>1, <2>2
  <1>7. CASE RecvWakes
    BY <1>2, <1>3, <1>5, <1>7 DEF RecvWakes
  <1>8. CASE RecvWakesLate
    BY <1>4, <1>8 DEF RecvWakesLate, kernelVars
  <1> QED
    BY <1>6, <1>7, <1>8

(* So it is what Session finds.                                            *)
LEMMA FindStep ==
  ASSUME Inv, Informed, RecvClient \/ RecvWakes \/ RecvWakesLate
  PROVE  Abstract!Next
  <1> USE KernelAssumption, ServerAssumption DEF Inv, TypeOK, KernelTypeOK
  <1> DEFINE c == ptr[Srv]
             h == hnd[Srv]
  <1>1. pc[Srv] \in {"recv", "blocked"} /\ stage' = stage /\ view' = view
    BY RecvStep DEF AfterRecv
  <1>2. h \in Fds /\ c \in Conns
    BY <1>1 DEF Informed, Receiving, Holds
  <1>3. Event = [handle |-> h, conn |-> c, what |-> "look"]
    BY <1>1 DEF Event, Found
  <1>4. \A d \in Conns : Phase(d)' = Phase(d)
    BY <1>1 DEF Phase
  <1>5. [d \in Conns |-> Phase(d)'] = [d \in Conns |-> Phase(d)]
    BY <1>4
  <1>6. ASSUME AfterRecv("data") PROVE Event' = [Event EXCEPT !.what = "data"]
    <2>1. pc'[Srv] = "publish" /\ hnd' = hnd /\ ptr' = ptr
      BY <1>6 DEF AfterRecv, AfterRecvPoint, Go, Threads
    <2> QED
      BY <1>3, <2>1 DEF Event, Found
  <1>7. CASE RecvData(c) /\ AfterRecv("data") /\ Phase(c) = "open"
    <2>1. PICK n \in 0..(unread[c] - 1) : unread' = [unread EXCEPT ![c] = n]
      BY <1>7 DEF RecvData
    <2> HIDE DEF c, h
    <2>2. Abstract!FindData
      BY <1>1, <1>2, <1>3, <1>5, <1>6, <1>7, <2>1 DEF Abstract!FindData, Abstract!Looking
    <2> QED
      BY <2>2 DEF Abstract!Next
  <1>8. CASE unread' = unread /\ AfterRecv("data") /\ Phase(c) # "open"
    <2> HIDE DEF c, h
    <2>1. Abstract!FindData
      BY <1>1, <1>2, <1>3, <1>5, <1>6, <1>8 DEF Abstract!FindData, Abstract!Looking
    <2> QED
      BY <2>1 DEF Abstract!Next
  <1>9. CASE unread' = unread /\ AfterRecv("eof")
    <2>1. pc'[Srv] = "eof" /\ eof' /\ hnd' = hnd /\ ptr' = ptr
      BY <1>9 DEF AfterRecv, AfterRecvPoint, Go, Threads
    <2>2. Event' = [Event EXCEPT !.what = "end"]
      BY <1>3, <2>1 DEF Event, Found
    <2>3. Abstract!FindEnd
      BY <1>1, <1>3, <1>5, <1>9, <2>2 DEF Abstract!FindEnd, Abstract!Looking
    <2> QED
      BY <2>3 DEF Abstract!Next
  <1>10. CASE unread' = unread /\ AfterRecv("err")
    <2>1. pc'[Srv] = "scan" /\ ~eof'
      BY <1>10 DEF AfterRecv, AfterRecvPoint, Go, Threads
    <2>2. Event' = Abstract!NoEvent
      BY <2>1, FoundNext
    <2>3. Abstract!FindNothing
      BY <1>1, <1>3, <1>5, <1>10, <2>2 DEF Abstract!FindNothing, Abstract!Looking
    <2> QED
      BY <2>3 DEF Abstract!Next
  <1> QED
    BY <1>7, <1>8, <1>9, <1>10, RecvResults

(* Calls and later steps of an operation leave what serverTask has found:  *)
(* only an operation of its own callbacks uses its variables, and then it  *)
(* holds no Client.                                                        *)
LEMMA EventOfCall ==
  ASSUME Inv, Informed, NEW t \in Threads, Call(t) \/ Continue(t)
  PROVE  Event' = Event
  <1> USE ServerAssumption
      DEF Inv, TypeOK, Threads, At, Go, DeletePoints, CallPoints, shared, locals, lifecycle, table
  <1>1. CASE t # Srv /\ pc'[Srv] = pc[Srv]
    <2>1. hnd'[Srv] = hnd[Srv] /\ ptr'[Srv] = ptr[Srv] /\ eof' = eof
      BY <1>1
         DEF Call, DeleteCall, deleteClient, sendClientMessage, sendBcast, finish, Continue,
             DeleteClose, DeleteClrRead, DeleteClrWrite, DeleteErase, BcastSend, ClientSendMsg,
             FinishJoin, FinishClose, Forget
    <2>2. Found' = Found
      BY <1>1, <2>1 DEF Found
    <2> QED
      BY <2>1, <2>2, EventKept
  <1>2. CASE t # Srv /\ pc'[Srv] # pc[Srv]
    <2>1. pc[Srv] = "exit" /\ pc'[Srv] = "none" /\ eof' = eof
      BY <1>2
         DEF Call, DeleteCall, deleteClient, sendClientMessage, sendBcast, finish, Continue,
             DeleteClose, DeleteClrRead, DeleteClrWrite, DeleteErase, BcastSend, ClientSendMsg,
             FinishJoin, FinishClose
    <2>2. ~Holds /\ ~Holds'
      BY <2>1 DEF Holds, Informed, Reporting
    <2> QED
      BY <2>2, EventKept
  <1>3. CASE t = Srv
    <2>1. /\ pc[Srv] \in {"callback"} \cup CallPoints /\ eof' = eof
          /\ pc'[Srv] \in {"callback", "gone"} \cup CallPoints
      BY <1>3
         DEF Call, DeleteCall, deleteClient, sendClientMessage, sendBcast, finish, MayCall, Continue,
             DeleteClose, DeleteClrRead, DeleteClrWrite, DeleteErase, BcastSend, ClientSendMsg,
             FinishJoin, FinishClose, Back
    <2>2. CASE ~eof
      <3>1. ~Holds /\ ~Holds'
        BY <2>1, <2>2 DEF Holds
      <3> QED
        BY <3>1, EventKept
    <2>3. CASE eof
      <3>1. pc[Srv] \in DeletePoints
        BY <2>1, <2>3 DEF Informed, Reporting
      <3>2. hnd'[Srv] = hnd[Srv] /\ ptr'[Srv] = ptr[Srv]
        BY <1>3, <3>1
           DEF Call, DeleteCall, sendClientMessage, sendBcast, finish, MayCall, Continue,
               DeleteClose, DeleteClrRead, DeleteClrWrite, DeleteErase, BcastSend, ClientSendMsg,
               FinishJoin, FinishClose, Forget
      <3>3. Found = "end" /\ Found' = "end"
        BY <2>1, <2>3, <3>1 DEF Found
      <3> QED
        BY <3>2, <3>3, EventKept
    <2> QED
      BY <2>2, <2>3
  <1> QED
    BY <1>1, <1>2, <1>3

(* finish() closes what it has, the connections that wait to be accepted   *)
(* too, and leaves the application without clients: a Shutdown.            *)
LEMMA ShutdownStep ==
  ASSUME Inv, Informed, NEW t \in Threads, FinishClose(t)
  PROVE  \E waiting \in SUBSET Conns : Abstract!Shutdown(waiting)
  <1> USE KernelAssumption, ServerAssumption DEF Inv, TypeOK, KernelTypeOK, Files
  <1> DEFINE told == {view[h] : h \in Fds}
             ended == {c \in Conns : \/ \E f \in OwnedFds : fdt[f] = c
                                     \/ stage[c] = "queued" /\ \E f \in OwnedFds : fdt[f] = "listen"}
             waiting == ended \ told
  <1>1. /\ pc[t] = "closeAll" /\ m_mutex = NoThread /\ view' = [h \in Fds |-> NoConn]
        /\ stage' = [c \in Conns |-> IF c \in ended THEN "closed" ELSE stage[c]]
        /\ unread' = [c \in Conns |-> IF c \in ended THEN 0 ELSE unread[c]]
    BY DEF FinishClose, Close, At
  <1>2. \A h \in Fds : view[h] = m_clients[h]
    BY <1>1 DEF Informed, RegisterInStep, Ownership, ThreadRoles, Threads
  <1>3. \A h \in Registered : fdt[h] = m_clients[h]
    BY <1>1 DEF HandleOwnsSocket, Ownership, LockHeld
  <1>4. \A h \in Fds : view[h] # NoConn => view[h] \in ended
    BY <1>2, <1>3 DEF OwnedFds, Registered
  <1>5. \A c \in waiting : stage[c] = "queued"
    BY <1>2, <1>3 DEF OwnedFds, Registered, Ownership, SockfdOpen
  <1>6. \A c \in waiting : Phase(c) = "fresh"
    BY <1>5 DEF Phase
  <1>7. \A c \in ended : Phase(c)' = "over"
    BY <1>1 DEF Phase
  <1>8. \A c \in Conns : c \notin ended => Phase(c)' = Phase(c)
    BY <1>1, <1>4 DEF Phase
  <1>9. \A c \in Conns : c \in ended <=> c \in waiting \cup told
    BY <1>4
  <1> HIDE DEF waiting, ended
  <1>10. waiting \in SUBSET Conns
    BY DEF waiting, ended
  <1>11. Event = Abstract!NoEvent /\ Event' = Event
    <2>1. pc[Srv] \in {"none", "closeAll"}
      BY <1>1 DEF Ownership, ThreadRoles, Threads
    <2>2. ~Holds
      BY <2>1 DEF Holds, Informed, Reporting, DeletePoints
    <2> QED
      BY <2>2, FoundHeld, EventOfCall DEF Continue
  <1>12. Abstract!Shutdown(waiting)
    BY <1>1, <1>6, <1>7, <1>8, <1>9, <1>10, <1>11 DEF Abstract!Shutdown
  <1> QED
    BY <1>10, <1>12
(* Every later step of an operation: deleteClient() ends a connection and  *)
(* withdraws it, finish() shuts down, the others are hidden.               *)
LEMMA RefinesContinue ==
  ASSUME Inv, Informed, NEW t \in Threads, Continue(t)
  PROVE  Abstract!Next \/ UNCHANGED Abstract!vars
  <1> USE KernelAssumption, ServerAssumption DEF Inv, TypeOK, KernelTypeOK
  <1>0. Event' = Event
    BY EventOfCall
  <1>1. CASE DeleteClose(t)
    <2> DEFINE own == m_clients[hnd[t]]
    <2>1. hnd[t] \in Fds /\ own \in Conns /\ fdt[hnd[t]] = own
      BY <1>1, DeletesItsOwn DEF DeleteClose, At, Owned
    <2>2. hnd[t] \in Fds /\ own \in Conns /\ fdt[hnd[t]] = own /\ stage[own] = "open"
      BY <2>1 DEF Ownership, ConnectionOnce
    <2>3. /\ stage' = [d \in Conns |-> IF d = own THEN "closed" ELSE stage[d]]
          /\ unread' = [d \in Conns |-> IF d = own THEN 0 ELSE unread[d]]
          /\ view' = view
      BY <1>1, <2>2 DEF DeleteClose, Close, table, Files
    <2>4. unread \in [Conns -> Nat]
      OBVIOUS
    <2> HIDE DEF own
    <2>5. Abstract!End(own)
      BY <1>0, <2>2, <2>3, <2>4, EndStep
    <2> QED
      BY <2>2, <2>5 DEF Abstract!Next
  <1>2. CASE DeleteErase(t)
    <2>1. /\ pc[t] = "delErase" /\ UNCHANGED <<stage, unread>>
          /\ view' = IF t = Srv /\ eof THEN view ELSE [view EXCEPT ![hnd[t]] = NoConn]
      BY <1>2 DEF DeleteErase, At, kernelVars
    <2>2. /\ hnd[t] \in Fds /\ m_clients[hnd[t]] \in Conns /\ view[hnd[t]] \in Conns \cup {NoConn}
          /\ stage[m_clients[hnd[t]]] = "closed"
      <3>1. pc[t] \in DeletePoints \ {"delClose"}
        BY <2>1 DEF DeletePoints
      <3>2. hnd[t] \in Registered
        BY <3>1 DEF Ownership, LockHeld
      <3>3. stage[m_clients[hnd[t]]] = "closed"
        BY <3>1 DEF Informed, Deleting
      <3> QED
        BY <3>2, <3>3 DEF Registered
    <2>3. view[hnd[t]] # NoConn => view[hnd[t]] = m_clients[hnd[t]]
      <3>1. RegisterInStep
        BY DEF Informed
      <3> HIDE DEF Inv
      <3> QED
        BY <2>2, <3>1 DEF RegisterInStep
    <2>4. CASE view' = view
      BY <1>0, <2>1, <2>4, Hidden
    <2>5. CASE view[hnd[t]] = NoConn
      BY <2>1, <2>2, <2>4, <2>5
    <2>6. CASE view[hnd[t]] # NoConn /\ view' = [view EXCEPT ![hnd[t]] = NoConn]
      <3>1. Abstract!Withdraw(hnd[t])
        BY <1>0, <2>1, <2>2, <2>3, <2>6, WithdrawStep DEF Informed
      <3> QED
        BY <2>2, <3>1 DEF Abstract!Next
    <2> QED
      BY <2>1, <2>4, <2>5, <2>6
  <1>3. CASE FinishClose(t)
    BY <1>3, ShutdownStep DEF Abstract!Next
  <1>4. CASE \/ DeleteClrRead(t) \/ DeleteClrWrite(t) \/ BcastSend(t) \/ ClientSendMsg(t)
             \/ FinishJoin(t)
    <2>1. UNCHANGED <<view, unread, stage>>
      BY <1>4
         DEF DeleteClrRead, DeleteClrWrite, BcastSend, ClientSendMsg, FinishJoin, Send,
             shared, kernelVars, table
    <2> QED
      BY <1>0, <2>1, Hidden
  <1> QED
    BY <1>1, <1>2, <1>3, <1>4 DEF Continue

(* onReceiveClientData() is where the application hears of data: under a   *)
(* handle that means the connection they came from, or nothing.            *)
LEMMA HearStep ==
  ASSUME Inv, Informed, publishClientMsg
  PROVE  Abstract!Hear
  <1> USE KernelAssumption, ServerAssumption DEF Inv, TypeOK, KernelTypeOK
  <1>1. /\ pc[Srv] = "publish" /\ pc' = [pc EXCEPT ![Srv] = "callback"] /\ eof' = eof
        /\ UNCHANGED <<view, unread, stage>>
    BY DEF publishClientMsg, At, Go, shared, kernelVars, table
  <1>2. view[hnd[Srv]] \in {ptr[Srv], NoConn}
    BY <1>1 DEF Informed, Receiving, Holds
  <1>3. Event = [handle |-> hnd[Srv], conn |-> ptr[Srv], what |-> "data"]
    BY <1>1 DEF Event, Found
  <1>4. Event' = Abstract!NoEvent
    <2>1. ~eof
      BY <1>1 DEF Informed, Reporting, DeletePoints
    <2>2. ~Holds'
      BY <1>1, <2>1, FoundNext DEF Threads
    <2> QED
      BY <2>2, FoundNext
  <1>5. \A d \in Conns : Phase(d)' = Phase(d)
    BY <1>1 DEF Phase
  <1> QED
    BY <1>1, <1>2, <1>3, <1>4, <1>5 DEF Abstract!Hear, Abstract!HandleHonest

(* onClientDisconnect() is where it hears of the end of a connection: the  *)
(* socket is closed by then, by serverTask or by another thread.           *)
LEMMA HearEndStep ==
  ASSUME Inv, Informed, publishDisconnected
  PROVE  Abstract!HearEnd
  <1> USE KernelAssumption, ServerAssumption DEF Inv, TypeOK, KernelTypeOK
  <1> DEFINE c == ptr[Srv]
             h == hnd[Srv]
  <1>1. /\ pc[Srv] = "gone" /\ pc' = [pc EXCEPT ![Srv] = "callback"] /\ ~eof'
        /\ view' = [view EXCEPT ![h] = NoConn] /\ UNCHANGED <<unread, stage>>
    BY DEF publishDisconnected, At, Go, kernelVars
  <1>2. eof /\ m_clients[h] = NoConn
    BY <1>1 DEF Informed, Reporting
  <1>3. /\ h \in Fds /\ c \in Conns /\ stage[c] = "closed" /\ view[h] \in {c, NoConn}
        /\ \A g \in Fds : view[g] = c => g = h
    BY <1>2 DEF Informed, Receiving, Holds
  <1>4. Event = [handle |-> h, conn |-> c, what |-> "end"]
    BY <1>1, <1>2 DEF Event, Found
  <1>5. Event' = Abstract!NoEvent
    <2>1. ~Holds'
      BY <1>1, FoundNext DEF Threads
    <2> QED
      BY <2>1, FoundNext
  <1> HIDE DEF c, h
  <1>6. /\ Phase(c) \in {"ending", "over"}
        /\ [d \in Conns |-> Phase(d)'] = [[d \in Conns |-> Phase(d)] EXCEPT ![c] = "over"]
    <2> HIDE DEF Inv, TypeOK
    <2>1. TypeOK
      BY DEF Inv
    <2>2. Phase(c) = IF view[h] = c THEN "ending" ELSE "over"
      BY <1>1, <1>3, <2>1, ForgetStep
    <2>3. [d \in Conns |-> Phase(d)'] = [[d \in Conns |-> Phase(d)] EXCEPT ![c] = "over"]
      BY <1>1, <1>3, <2>1, ForgetStep
    <2> QED
      BY <2>2, <2>3
  <1> QED
    BY <1>1, <1>3, <1>4, <1>5, <1>6 DEF Abstract!HearEnd, Abstract!HandleHonest

(* The steps of serverTask: it looks at a client, finds what recv() gives, *)
(* tells the application, and the rest is hidden.                          *)
LEMMA RefinesServer ==
  ASSUME Inv, Informed, serverTask \/ RecvWakesLate \/ CallbackReturns
  PROVE  Abstract!Next \/ UNCHANGED Abstract!vars
  <1> USE KernelAssumption, ServerAssumption DEF Inv, TypeOK, KernelTypeOK, Threads
  <1>1. CASE RecvClient \/ RecvWakes \/ RecvWakesLate
    BY <1>1, FindStep
  <1>2. CASE publishDisconnected
    BY <1>2, HearEndStep DEF Abstract!Next
  <1>3. CASE publishClientConnect
    <2>1. /\ pc[Srv] = "connect" /\ m_mutex = NoThread /\ UNCHANGED <<stage, unread>>
          /\ view' = IF hnd[Srv] \in Registered
                     THEN [view EXCEPT ![hnd[Srv]] = m_clients[hnd[Srv]]] ELSE view
      BY <1>3 DEF publishClientConnect, At, kernelVars
    <2>0. ~Holds /\ ~Holds'
      BY <1>3, <2>1
         DEF publishClientConnect, At, Go, locals, Holds, Informed, Reporting, DeletePoints
    <2>2. CASE view' = view
      BY <2>0, <2>1, <2>2, EventKept, Hidden
    <2>3. CASE view' # view
      <3> DEFINE h == hnd[Srv]
                 c == m_clients[h]
      <3>1. h \in Registered /\ h \in Fds /\ c \in Conns /\ view' = [view EXCEPT ![h] = c]
        BY <2>1, <2>3 DEF Registered
      <3>2. view[h] = NoConn
        <4>1. view[h] = c => view' = view
          BY <3>1
        <4>2. view[h] # c
          BY <2>3, <4>1
        <4> QED
          BY <2>1, <3>1, <4>2 DEF Informed, RegisterInStep, Registered
      <3>3. fdt[h] = c
        BY <2>1, <3>1 DEF HandleOwnsSocket, Ownership, LockHeld
      <3>4. stage[c] = "open"
        BY <3>1, <3>3 DEF Ownership, ConnectionOnce
      <3>5. \A g \in Fds : view[g] # c
        <4>1. \A g \in Fds : view[g] \in {m_clients[g], NoConn}
          BY <2>1 DEF Informed, RegisterInStep
        <4>2. \A g \in Fds : g # h => m_clients[g] # c
          BY <3>1 DEF Informed, HandlesOnce, Registered
        <4>3. c # NoConn
          BY <3>1
        <4> QED
          BY <3>2, <4>1, <4>2, <4>3
      <3> HIDE DEF h, c
      <3>6. Abstract!Announce(h, c)
        BY <2>0, <2>1, <3>1, <3>2, <3>4, <3>5, AnnounceStep
      <3> QED
        BY <3>1, <3>6 DEF Abstract!Next
    <2> QED
      BY <2>2, <2>3
  <1>4. ASSUME NEW c \in Conns, NEW f \in Fds, AcceptClient(c, f) PROVE UNCHANGED Abstract!vars
    <2>1. /\ UNCHANGED <<view, unread>>
          /\ \A d \in Conns : stage'[d] = "closed" <=> stage[d] = "closed"
      BY <1>4 DEF AcceptClient, Accept, table
    <2>2. ~Holds /\ ~Holds'
      BY <1>4 DEF AcceptClient, At, Go, Holds, Informed, Reporting, DeletePoints
    <2> QED
      BY <2>1, <2>2, EventKept, Hidden
  <1>5. CASE publishClientMsg
    BY <1>5, HearStep DEF Abstract!Next
  <1>6. ASSUME NEW f \in Fds, ScanNext(f)
        PROVE  Abstract!Next \/ UNCHANGED Abstract!vars
    <2>1. CASE f \in Registered
      BY <1>6, <2>1, AttendStep DEF Abstract!Next
    <2>2. CASE f \notin Registered
      <3>1. ~Holds /\ ~Holds' /\ UNCHANGED <<view, unread, stage>>
        BY <1>6, <2>2
           DEF ScanNext, At, Go, shared, kernelVars, table, Holds, Informed, Reporting,
               DeletePoints
      <3> QED
        BY <3>1, EventKept, Hidden
    <2> QED
      BY <2>1, <2>2
  <1>7. CASE DeleteGone
    <2>1. /\ pc[Srv] = "eof" /\ pc'[Srv] \in {"delClose", "gone"} /\ eof /\ eof' = eof
          /\ hnd'[Srv] = hnd[Srv] /\ ptr' = ptr /\ UNCHANGED <<view, unread, stage>>
      BY <1>7
         DEF DeleteGone, deleteClient, At, Go, Back, kernelVars, table, Informed, Reporting
    <2>2. Event' = Event
      <3>1. Found = "end" /\ Found' = "end"
        BY <2>1 DEF Found
      <3> QED
        BY <2>1, <3>1, EventKept
    <2> QED
      BY <2>1, <2>2, Hidden
  <1>8. CASE RecvBlocks
    <2>1. /\ pc[Srv] = "recv" /\ pc'[Srv] = "blocked" /\ hnd' = hnd /\ ptr' = ptr
          /\ UNCHANGED <<view, unread, stage>>
      BY <1>8 DEF RecvBlocks, At, Go, shared, locals, kernelVars, table
    <2>2. Event' = Event
      <3>1. Found = "look" /\ Found' = "look"
        BY <2>1 DEF Found
      <3> QED
        BY <2>1, <3>1, EventKept
    <2> QED
      BY <2>1, <2>2, Hidden
  <1>9. CASE \/ LoopTest \/ CopyFds \/ findMaxFd \/ Select \/ ScanEnds \/ AcceptFails
             \/ EmplaceClient \/ FdSetRead \/ FdSetWrite \/ CallbackReturns
    <2>1. /\ pc[Srv] \notin {"recv", "blocked", "publish", "eof", "gone"} \cup DeletePoints
          /\ pc'[Srv] \notin {"recv", "blocked", "publish"} /\ eof' = eof
          /\ UNCHANGED <<view, unread, stage>>
      BY <1>9
         DEF LoopTest, CopyFds, findMaxFd, Select, ScanEnds, AcceptFails, EmplaceClient,
             FdSetRead, FdSetWrite, CallbackReturns, At, Go, DeletePoints, shared, locals,
             kernelVars, table
    <2>2. ~Holds /\ ~Holds'
      BY <2>1 DEF Holds, Informed, Reporting
    <2> QED
      BY <2>1, <2>2, EventKept, Hidden
  <1> QED
    BY <1>1, <1>2, <1>3, <1>4, <1>5, <1>6, <1>7, <1>8, <1>9 DEF serverTask

(* The peers: data arrive for connections that are not over.               *)
LEMMA RefinesEnvironment ==
  ASSUME Inv, Informed, Environment
  PROVE  Abstract!Next \/ UNCHANGED Abstract!vars
  <1> USE KernelAssumption DEF Inv, TypeOK, KernelTypeOK
  <1>1. view' = view
    BY DEF Environment, table
  <1>0. Event' = Event
    <2>1. pc' = pc /\ hnd' = hnd /\ ptr' = ptr /\ eof' = eof
      BY DEF Environment, locals
    <2>2. Found' = Found
      BY <2>1 DEF Found
    <2> QED
      BY <2>1, <2>2, EventKept
  <1>2. ASSUME NEW c \in Conns, PeerSend(c) PROVE Abstract!Next
    <2>1. Phase(c) \in {"fresh", "open"}
      BY <1>2 DEF PeerSend, Phase
    <2>2. \A d \in Conns : Phase(d)' = Phase(d)
      BY <1>1, <1>2 DEF PeerSend, Phase
    <2>3. Abstract!Arrive(c)
      BY <1>0, <1>1, <1>2, <2>1, <2>2 DEF Abstract!Arrive, PeerSend
    <2> QED
      BY <2>3 DEF Abstract!Next
  <1>3. ASSUME NEW c \in Conns,
               PeerConnect(c) \/ PeerRead(c) \/ PeerClose(c, "fin") \/ PeerClose(c, "rst")
        PROVE  UNCHANGED Abstract!vars
    BY <1>0, <1>1, <1>3, Hidden DEF PeerConnect, PeerRead, PeerClose
  <1>4. ASSUME NEW f \in Fds, ForeignOpen(f) \/ ForeignClose(f) PROVE UNCHANGED Abstract!vars
    BY <1>0, <1>1, <1>4, Hidden DEF ForeignOpen, ForeignClose, streamVars
  <1> QED
    BY <1>2, <1>3, <1>4 DEF Environment, Peers

(* Every step of the server maps to a step of Session or to no change.     *)
LEMMA RefinesStep == Inv /\ Informed /\ [Next]_vars => [Abstract!Next]_(Abstract!vars)
  <1> SUFFICES ASSUME Inv, Informed, [Next]_vars
               PROVE  Abstract!Next \/ UNCHANGED Abstract!vars
    OBVIOUS
  <1>1. CASE start \/ (\E t \in Threads : Call(t)) \/ UNCHANGED vars
    <2>1. UNCHANGED <<view, unread, stage>>
      BY <1>1
         DEF start, StartNoSocket, StartSetupFails, StartSucceeds, StartCall, streamVars, Call,
             DeleteCall, deleteClient, sendClientMessage, sendBcast, finish, vars, shared,
             kernelVars, table
    <2>2. Event' = Event
      <3>1. CASE start
        <4>1. (~Holds /\ ~Holds') \/ UNCHANGED <<pc, hnd, ptr, eof>>
          BY <3>1
             DEF start, StartNoSocket, StartSetupFails, StartSucceeds, StartCall, locals, Go,
                 Inv, Ownership, ThreadRoles, Holds, Informed, Reporting, DeletePoints, TypeOK,
                 Threads
        <4>2. UNCHANGED <<pc, hnd, ptr, eof>> => Found' = Found
          BY DEF Found
        <4> QED
          BY <4>1, <4>2, EventKept
      <3>2. CASE UNCHANGED vars
        <4>1. UNCHANGED <<pc, hnd, ptr, eof>>
          BY <3>2 DEF vars, locals
        <4>2. Found' = Found
          BY <4>1 DEF Found
        <4> QED
          BY <4>1, <4>2, EventKept
      <3> QED
        BY <1>1, <3>1, <3>2, EventOfCall
    <2> QED
      BY <2>1, <2>2, Hidden
  <1> QED
    BY <1>1, NextCases, RefinesContinue, RefinesServer, RefinesEnvironment

(* The server implements Session: whatever its threads, callbacks and      *)
(* peers do, a connection is announced once and under a free handle, a     *)
(* callback is about a connection the application had when the server      *)
(* looked at it and by a handle that means no other, and one that the      *)
(* application has dropped is heard of at most once more.                  *)
THEOREM ServerImplementsSession == Spec => ImplementsSession
  BY RefinesInit, RefinesStep, InformedAlways, PTL DEF Spec, ImplementsSession, Abstract!Spec
=============================================================================
