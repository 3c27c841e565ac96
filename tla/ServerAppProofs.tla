-------------------------- MODULE ServerAppProofs --------------------------
(***************************************************************************)
(* Theorems about the server program: its two mutexes and its list of      *)
(* clients, for every set of descriptors, connections and threads.  They   *)
(* rest on the theorems about its TcpServer, of which every step of the    *)
(* program is a step unless it ends the program.                           *)
(***************************************************************************)
EXTENDS ServerApp, SessionProofs

USE DEF NoConn, NoThread, Srv, INVALID_SOCKET

(* Where the two threads can be: the main thread calls nothing but the     *)
(* sends, with ServerApp's mutex in its hands, and finish(); serverTask    *)
(* deletes only clients whose peer has closed, and no callback calls the   *)
(* server.                                                                 *)
Places ==
  /\ \A t \in AppThreads \ {Owner} : pc[t] = "idle"
  /\ pc[Owner] \in {"idle", "bcast", "send", "join", "closeAll"}
  /\ app \in {"sendAll", "sendOne", "sending"} => app_mutex = Owner
  /\ pc[Owner] \in {"bcast", "send"} => app = "sending"
  /\ pc[Owner] \in {"join", "closeAll"} => app = "finishing"
  /\ pc[Srv] \in LoopPoints \cup DeletePoints
  /\ pc[Srv] \in DeletePoints \cup {"eof", "gone"} => eof

(* Before the constructor starts the server there is nobody to list.       *)
NobodyYet == app = "construct" => app_clients = {} /\ Registered = {} /\ pc[Srv] = "none"

(* A callback inserts a handle that is registered and erases one that is   *)
(* not; a client stays registered until it has been announced.             *)
Upcalls ==
  /\ upcall \in {"none", "insert", "erase"}
  /\ upcall # "none" => pc[Srv] = "callback" /\ hnd[Srv] \in Fds
  /\ upcall = "insert" => hnd[Srv] \in Registered
  /\ upcall = "erase" => hnd[Srv] \notin Registered
  /\ pc[Srv] \in {"fdset", "fdsetW", "connect"} => hnd[Srv] \in Registered

(* The descriptor the main thread sends on is that of its client, or the   *)
(* client is closed and serverTask has not got past its callback.          *)
NumberHeld ==
  pc[Owner] = "send" =>
    /\ hnd[Owner] \in Fds
    /\ \/ fdt[hnd[Owner]] = ptr[Owner]
       \/ /\ fdt[hnd[Owner]] \notin Conns
          /\ \/ pc[Srv] \in (DeletePoints \ {"delClose"}) \cup {"gone"}
             \/ pc[Srv] = "callback" /\ upcall # "none"

(* What the program adds to the server's invariant.                        *)
AppParts == Places /\ NobodyYet /\ Upcalls /\ ListsItsClients /\ NumberHeld

(* The inductive invariant, while the program runs.                        *)
AppInv == alive => Inv /\ Informed /\ AppParts

(* The invariant holds when main() begins.                                 *)
LEMMA AppInitInv == AppInit => AppInv
  <1> SUFFICES ASSUME AppInit PROVE AppInv
    OBVIOUS
  <1>1. Inv /\ Informed
    BY InitInv, InitInformed DEF AppInit
  <1>2. AppParts
    BY KernelAssumption, ServerAssumption
       DEF AppInit, Init, KernelInit, AppParts, Places, NobodyYet, Upcalls,
           ListsItsClients, NumberHeld, Serving, Registered, Threads, LoopPoints, DeletePoints
  <1> QED
    BY <1>1, <1>2 DEF AppInv

(* A step that does not end the program is a step of the running program:  *)
(* of the main thread alone, of the server with the program around it, or  *)
(* of the environment.                                                     *)
LEMMA AppCases ==
  ASSUME AppNext, alive'
  PROVE  \/ UNCHANGED allVars
         \/ alive /\ (\/ SendMsgLocks \/ SendMsgUnlocks \/ Quit \/ DestructorClears
                      \/ DestroyMembers \/ MainReturns \/ UpdateClients)
         \/ alive /\ Next /\ (\/ Construct \/ SendMsgCalls \/ DestroyServer
                              \/ AppContinue(Owner) \/ AppContinue(Srv)
                              \/ AppServerTask \/ AppCallbackReturns
                              \/ Environment /\ UNCHANGED appVars)
  <1> USE ServerAssumption DEF Threads
  <1>1. ~Dies
    BY DEF Dies
  <1>2. Construct => alive /\ Next
    BY DEF Construct, MainAt, At, Next
  <1>3. SendMsgCalls => alive /\ Next
    BY DEF SendMsgCalls, MainAt, At, Next, Call, sendClientMessage, Registered
  <1>4. DestroyServer => alive /\ Next
    BY DEF DestroyServer, finish, MayCall, At, Next, Call
  <1>5. ASSUME NEW t \in Threads, AppContinue(t) PROVE alive /\ Next
    BY <1>5 DEF AppContinue, Next, Continue, DeleteClose, DeleteClrRead, DeleteClrWrite,
                DeleteErase, BcastSend, ClientSendMsg, FinishJoin, FinishClose, At
  <1>6. AppServerTask => alive /\ Next
    <2>1. serverTask \/ RecvWakesLate => alive
      BY DEF serverTask, RecvWakesLate, LoopTest, CopyFds, findMaxFd, Select, ScanEnds, ScanNext,
             RecvClient, RecvBlocks, RecvWakes, DeleteGone, publishDisconnected, AcceptFails,
             AcceptClient, EmplaceClient, FdSetRead, FdSetWrite, publishClientConnect,
             publishClientMsg, At
    <2> QED
      BY <2>1 DEF AppServerTask, Next
  <1>7. AppCallbackReturns => alive /\ Next
    BY DEF AppCallbackReturns, CallbackReturns, At, Next
  <1>8. Running /\ Environment => alive /\ Next
    BY DEF Running, Next
  <1>9. SendMsgLocks \/ SendMsgUnlocks \/ Quit \/ DestructorClears \/ DestroyMembers
          \/ MainReturns \/ UpdateClients => alive
    BY DEF SendMsgLocks, SendMsgUnlocks, Quit, DestructorClears, DestroyMembers, MainReturns,
           UpdateClients, MainAt, At
  <1> QED
    BY <1>1, <1>2, <1>3, <1>4, <1>5, <1>6, <1>7, <1>8, <1>9
       DEF AppNext, Program, Main, User, ServerThread, BrokenPipe, ShortCommand, UseDestroyed

(* The steps of the main thread and of the callbacks that do not involve   *)
(* the server.                                                             *)
LEMMA OwnStep ==
  ASSUME Inv, Informed, AppParts, alive,
         \/ SendMsgLocks \/ SendMsgUnlocks \/ Quit \/ DestructorClears
         \/ DestroyMembers \/ MainReturns \/ UpdateClients
  PROVE  UNCHANGED vars /\ AppParts'
  <1> USE ServerAssumption
      DEF AppParts, Places, NobodyYet, Upcalls, ListsItsClients, NumberHeld, Serving, MainAt, At,
          vars, shared, locals, kernelVars, lifecycle, table, Registered
  <1>1. CASE SendMsgLocks
    BY <1>1 DEF SendMsgLocks
  <1>2. CASE SendMsgUnlocks
    BY <1>2 DEF SendMsgUnlocks
  <1>3. CASE Quit
    BY <1>3 DEF Quit
  <1>4. CASE DestructorClears
    BY <1>4 DEF DestructorClears
  <1>5. CASE DestroyMembers
    BY <1>5 DEF DestroyMembers
  <1>6. CASE MainReturns
    BY <1>6 DEF MainReturns
  <1>7. CASE UpdateClients
    <2>1. /\ pc[Srv] = "callback" /\ upcall # "none" /\ app_mutex = NoThread
          /\ UNCHANGED <<vars, app, app_mutex>> /\ upcall' = "none" /\ app_clients' = Updated
      BY <1>7 DEF UpdateClients
    <2>2. UNCHANGED <<fdt, m_clients, pc, hnd, ptr, eof, alive>>
      BY <2>1
    <2>3. pc[Owner] # "send" /\ Owner # NoThread
      BY <2>1 DEF Threads
    <2>4. Places' /\ NobodyYet' /\ Upcalls' /\ NumberHeld'
      BY <2>1, <2>2, <2>3
    <2>5. ListsItsClients'
      BY <2>1, <2>2 DEF Updated
    <2> QED
      BY <2>1, <2>4, <2>5
  <1> QED
    BY <1>1, <1>2, <1>3, <1>4, <1>5, <1>6, <1>7

(* The main thread calls the server.                                       *)
LEMMA MainCallStep ==
  ASSUME Inv, Informed, AppParts, alive, Construct \/ SendMsgCalls \/ DestroyServer
  PROVE  alive' => AppParts'
  <1> USE KernelAssumption, ServerAssumption
      DEF AppParts, Places, NobodyYet, Upcalls, ListsItsClients, NumberHeld, Serving, MainAt, At,
          Inv, TypeOK, KernelTypeOK, Files, Threads, LoopPoints, DeletePoints, Ownership, LockHeld,
          shared, locals, kernelVars, streamVars, lifecycle, table, Registered, Go, MayCall, Lock
  <1>1. CASE Construct
    <2>1. /\ app = "construct" /\ pc[Owner] = "idle" /\ app' = "prompt"
          /\ UNCHANGED <<app_mutex, app_clients, upcall>> /\ start
      BY <1>1 DEF Construct
    <2>2. /\ UNCHANGED <<m_clients, hnd, ptr, eof>>
          /\ pc' = pc \/ (pc[Srv] = "none" /\ pc' = [pc EXCEPT ![Srv] = "loop"])
      BY <2>1 DEF start, StartNoSocket, StartSetupFails, StartSucceeds, StartCall
    <2> QED
      BY <2>1, <2>2
  <1>2. CASE SendMsgCalls
    <2>1. CASE sendBcast(Owner)
      BY <1>2, <2>1 DEF SendMsgCalls, sendBcast
    <2>2. ASSUME NEW h \in app_clients, sendClientMessage(Owner, h) PROVE AppParts'
      BY <1>2, <2>2 DEF SendMsgCalls, sendClientMessage, HandleOwnsSocket
    <2> QED
      BY <1>2, <2>1, <2>2 DEF SendMsgCalls
  <1>3. CASE DestroyServer
    BY <1>3 DEF DestroyServer, finish
  <1> QED
    BY <1>1, <1>2, <1>3

(* An operation of the server goes on: the send of the main thread, the    *)
(* deletion of a client whose peer has closed, or the destructor.          *)
LEMMA ContinueStep ==
  ASSUME Inv, Informed, AppParts, alive, NEW t \in {Owner, Srv}, AppContinue(t)
  PROVE  AppParts'
  <1> USE KernelAssumption, ServerAssumption
      DEF AppParts, Places, NobodyYet, Upcalls, ListsItsClients, NumberHeld, Serving, At,
          Inv, TypeOK, KernelTypeOK, Files, Threads, LoopPoints, DeletePoints, Ownership, LockHeld,
          shared, locals, kernelVars, lifecycle, table, Registered, Go, Back, Forget, Unlock
  <1>1. UNCHANGED appVars /\ Continue(t)
    BY DEF AppContinue
  <1>2. UNCHANGED <<app, app_mutex, app_clients, upcall>>
    BY <1>1 DEF appVars
  <1>3. CASE DeleteClose(t)
    <2>1. /\ pc[t] = "delClose" /\ pc' = [pc EXCEPT ![t] = "delClr"]
          /\ UNCHANGED <<m_clients, hnd, ptr, eof, alive>> /\ t = Srv
      BY <1>3 DEF DeleteClose
    <2>2. hnd[Srv] \in Fds
      BY <2>1
    <2>3. fdt' = [f \in Fds |-> IF f = hnd[Srv] THEN "free" ELSE fdt[f]]
      BY <1>3, <2>1, <2>2 DEF DeleteClose, Close
    <2> QED
      BY <1>2, <2>1, <2>2, <2>3
  <1>4. CASE DeleteClrRead(t)
    BY <1>2, <1>4 DEF DeleteClrRead
  <1>5. CASE DeleteClrWrite(t)
    BY <1>2, <1>5 DEF DeleteClrWrite
  <1>6. CASE DeleteErase(t)
    <2>1. /\ pc[t] = "delErase" /\ t = Srv /\ eof /\ pc' = [pc EXCEPT ![Srv] = "gone"]
          /\ m_clients' = [m_clients EXCEPT ![hnd[Srv]] = NoConn]
          /\ UNCHANGED <<fdt, hnd, ptr, eof, alive>>
      BY <1>6 DEF DeleteErase
    <2> QED
      BY <1>2, <2>1
  <1>7. CASE BcastSend(t)
    <2>1. UNCHANGED <<fdt, m_clients, hnd, ptr, eof, alive>> /\ pc[t] = "bcast" /\ t = Owner
      BY <1>7 DEF BcastSend, Send
    <2>2. pc' = pc \/ pc' = [pc EXCEPT ![Owner] = "idle"]
      BY <1>7, <2>1 DEF BcastSend
    <2> QED
      BY <1>2, <2>1, <2>2
  <1>8. CASE ClientSendMsg(t)
    <2>1. /\ UNCHANGED <<fdt, m_clients, eof, alive>> /\ pc[t] = "send" /\ t = Owner
          /\ pc' = [pc EXCEPT ![Owner] = "idle"] /\ hnd' = [hnd EXCEPT ![Owner] = INVALID_SOCKET]
      BY <1>8 DEF ClientSendMsg, Send
    <2> QED
      BY <1>2, <2>1
  <1>9. CASE FinishJoin(t)
    BY <1>2, <1>9 DEF FinishJoin
  <1>10. CASE FinishClose(t)
    <2>1. /\ pc[t] = "closeAll" /\ t = Owner /\ pc[Srv] = "none"
          /\ pc' = [pc EXCEPT ![Owner] = "idle"] /\ UNCHANGED <<hnd, ptr, eof, alive>>
      BY <1>10 DEF FinishClose, ThreadRoles
    <2> QED
      BY <1>2, <2>1
  <1> QED
    BY <1>1, <1>3, <1>4, <1>5, <1>6, <1>7, <1>8, <1>9, <1>10 DEF Continue

(* serverTask goes on, and may begin a callback.  It accepts nobody while  *)
(* a callback is due, so it gives no closed client's descriptor away under *)
(* a send.                                                                 *)
LEMMA ServerTaskStep ==
  ASSUME Inv, Informed, AppParts, alive, AppServerTask \/ AppCallbackReturns
  PROVE  AppParts'
  <1> USE KernelAssumption, ServerAssumption
      DEF AppParts, Places, NobodyYet, Upcalls, ListsItsClients, NumberHeld, Serving, At,
          Inv, TypeOK, KernelTypeOK, Files, Threads, LoopPoints, DeletePoints, Ownership, LockHeld,
          shared, locals, kernelVars, lifecycle, table, Registered, Go, Back
  <1>1. CASE AppCallbackReturns
    BY <1>1 DEF AppCallbackReturns, CallbackReturns, appVars
  <1>2. CASE AppServerTask
    <2> DEFINE due == CASE pc[Srv] = "gone" -> "erase"
                        [] pc[Srv] = "connect" /\ hnd[Srv] \in Registered -> "insert"
                        [] OTHER -> "none"
    <2>1. UNCHANGED <<app, app_mutex, app_clients>> /\ upcall' = due
      BY <1>2 DEF AppServerTask
    <2>2. pc[Srv] \notin {"gone", "connect"} => upcall' = "none"
      BY <2>1
    <2>3. CASE RecvClient \/ RecvWakes \/ RecvWakesLate
      <3>1. PICK o \in Outcomes : AfterRecv(o)
        BY <2>3, RecvStep
      <3>2. pc[Srv] \in {"recv", "blocked"} /\ UNCHANGED fdt
        BY <2>3, RecvStep
      <3>3. pc' = [pc EXCEPT ![Srv] = AfterRecvPoint(o)] /\ eof' = (o = "eof")
        BY <3>1 DEF AfterRecv
      <3>4. /\ UNCHANGED <<m_clients, alive>>
            /\ ptr' = IF o = "err" THEN [ptr EXCEPT ![Srv] = NoConn] ELSE ptr
            /\ hnd' = IF o = "err" THEN [hnd EXCEPT ![Srv] = INVALID_SOCKET] ELSE hnd
        BY <3>1 DEF AfterRecv
      <3>5. pc'[Srv] \in {"publish", "eof", "scan"} /\ \A t \in AppThreads : pc'[t] = pc[t]
        BY <3>3 DEF AfterRecvPoint, Outcomes
      <3>6. upcall' = "none" /\ upcall = "none" /\ hnd'[Owner] = hnd[Owner] /\ ptr'[Owner] = ptr[Owner]
        BY <2>2, <3>2, <3>4
      <3>7. Places'
        <4>1. pc'[Srv] = "eof" => eof'
          BY <3>3 DEF AfterRecvPoint, Outcomes
        <4>2. pc'[Owner] = pc[Owner]
          BY <3>5
        <4> QED
          BY <2>1, <3>5, <4>1, <4>2
      <3>8. NobodyYet' /\ Upcalls'
        BY <2>1, <3>2, <3>4, <3>5, <3>6
      <3>9. ListsItsClients'
        BY <2>1, <3>2, <3>4, <3>6
      <3>10. NumberHeld'
        BY <3>2, <3>5, <3>6
      <3> QED
        BY <3>7, <3>8, <3>9, <3>10
    <2>4. CASE LoopTest
      BY <2>1, <2>2, <2>4 DEF LoopTest
    <2>5. CASE CopyFds
      BY <2>1, <2>2, <2>5 DEF CopyFds
    <2>6. CASE findMaxFd
      BY <2>1, <2>2, <2>6 DEF findMaxFd
    <2>7. CASE Select
      BY <2>1, <2>2, <2>7 DEF Select
    <2>8. CASE ScanEnds
      BY <2>1, <2>2, <2>8 DEF ScanEnds
    <2>9. ASSUME NEW f \in Fds, ScanNext(f) PROVE AppParts'
      BY <2>1, <2>2, <2>9 DEF ScanNext
    <2>10. CASE RecvBlocks
      BY <2>1, <2>2, <2>10 DEF RecvBlocks
    <2>11. CASE DeleteGone
      BY <2>1, <2>2, <2>11 DEF DeleteGone, deleteClient, Lock
    <2>12. CASE publishDisconnected
      <3>1. /\ pc[Srv] = "gone" /\ upcall' = "erase" /\ pc' = [pc EXCEPT ![Srv] = "callback"]
            /\ UNCHANGED <<fdt, m_clients, hnd, alive>>
            /\ ptr' = [ptr EXCEPT ![Srv] = NoConn]
        BY <2>1, <2>12 DEF publishDisconnected
      <3>2. hnd[Srv] \in Fds \ Registered
        BY <3>1 DEF Informed, Reporting, Receiving, Holds
      <3> QED
        BY <2>1, <3>1, <3>2
    <2>13. CASE AcceptFails
      BY <2>1, <2>2, <2>13 DEF AcceptFails
    <2>14. ASSUME NEW c \in Conns, NEW f \in Fds, AcceptClient(c, f) PROVE AppParts'
      BY <2>1, <2>2, <2>14 DEF AcceptClient, Accept, LowestFree
    <2>15. CASE EmplaceClient
      BY <2>1, <2>2, <2>15 DEF EmplaceClient, AcceptedIsNew
    <2>16. CASE FdSetRead
      BY <2>1, <2>2, <2>16 DEF FdSetRead
    <2>17. CASE FdSetWrite
      BY <2>1, <2>2, <2>17 DEF FdSetWrite
    <2>18. CASE publishClientConnect
      BY <2>1, <2>18 DEF publishClientConnect, AcceptedIsNew
    <2>19. CASE publishClientMsg
      BY <2>1, <2>2, <2>19 DEF publishClientMsg
    <2> QED
      BY <1>2, <2>3, <2>4, <2>5, <2>6, <2>7, <2>8, <2>9, <2>10, <2>11, <2>12, <2>13, <2>14,
         <2>15, <2>16, <2>17, <2>18, <2>19 DEF AppServerTask, serverTask
  <1> QED
    BY <1>1, <1>2

(* Peers and other code of the process change no register, and give no     *)
(* number to a connection.                                                 *)
LEMMA EnvironmentStep ==
  ASSUME Inv, Informed, AppParts, alive, Environment, UNCHANGED appVars
  PROVE  AppParts'
  <1> USE KernelAssumption, ServerAssumption
      DEF AppParts, Places, NobodyYet, Upcalls, ListsItsClients, NumberHeld, Serving,
          Inv, TypeOK, KernelTypeOK, Files, Threads, LoopPoints, DeletePoints, Registered
  <1>1. /\ UNCHANGED <<app, app_mutex, app_clients, upcall>>
        /\ UNCHANGED <<m_clients, pc, hnd, ptr, eof, alive>>
    BY DEF Environment, lifecycle, table, locals, appVars
  <1>2. \A f \in Fds : fdt'[f] = fdt[f] \/ (fdt[f] \in Files /\ fdt'[f] \in Files)
    <2>1. CASE Peers
      BY <2>1 DEF Peers, PeerConnect, PeerSend, PeerRead, PeerClose
    <2>2. ASSUME NEW f \in Fds, ForeignOpen(f) \/ ForeignClose(f)
          PROVE  fdt[f] \in Files /\ \E x \in Files : fdt' = [fdt EXCEPT ![f] = x]
      BY <2>2 DEF ForeignOpen, ForeignClose, LowestFree
    <2> QED
      BY <2>1, <2>2 DEF Environment
  <1>3. NumberHeld'
    <2> SUFFICES ASSUME pc[Owner] = "send" PROVE NumberHeld'
      BY <1>1
    <2>1. hnd[Owner] \in Fds /\ ptr[Owner] \in Conns \cup {NoConn}
      OBVIOUS
    <2>2. CASE fdt[hnd[Owner]] = ptr[Owner]
      <3>1. fdt[hnd[Owner]] \notin Files
        BY <2>1, <2>2
      <3>2. fdt'[hnd[Owner]] = fdt[hnd[Owner]]
        BY <1>2, <2>1, <3>1
      <3> QED
        BY <1>1, <2>1, <2>2, <3>2
    <2>3. CASE fdt[hnd[Owner]] \notin Conns
      <3>1. fdt'[hnd[Owner]] \notin Conns
        BY <1>2, <2>1, <2>3
      <3> QED
        BY <1>1, <2>1, <2>2, <2>3, <3>1
    <2> QED
      BY <2>2, <2>3
  <1>4. Places' /\ NobodyYet' /\ Upcalls' /\ ListsItsClients'
    BY <1>1
  <1> QED
    BY <1>3, <1>4

(* Every step of the program keeps the invariant, or ends the program.     *)
LEMMA AppInvStep == AppInv /\ [AppNext]_allVars => AppInv'
  <1> SUFFICES ASSUME AppInv, [AppNext]_allVars, alive'
               PROVE  Inv' /\ Informed' /\ AppParts'
    BY DEF AppInv
  <1>1. CASE UNCHANGED allVars
    <2>1. UNCHANGED vars /\ UNCHANGED <<app, app_mutex, app_clients, upcall>>
      BY <1>1 DEF allVars, appVars
    <2>2. UNCHANGED <<fdt, m_clients, pc, hnd, ptr, eof, alive>>
      BY <2>1 DEF vars, shared, locals, kernelVars, lifecycle, table
    <2>3. Inv /\ Informed /\ AppParts
      BY <2>2 DEF AppInv
    <2>4. Inv' /\ Informed'
      BY <2>1, <2>3, InvStep, InformedStep
    <2>5. AppParts'
      BY <2>1, <2>2, <2>3
         DEF AppParts, Places, NobodyYet, Upcalls, ListsItsClients, NumberHeld, Serving, Registered
    <2> QED
      BY <2>4, <2>5
  <1>2. CASE AppNext /\ ~UNCHANGED allVars
    <2>1. alive /\ Inv /\ Informed /\ AppParts
      BY <1>2, AppCases DEF AppInv
    <2>2. CASE \/ SendMsgLocks \/ SendMsgUnlocks \/ Quit \/ DestructorClears
               \/ DestroyMembers \/ MainReturns \/ UpdateClients
      BY <2>1, <2>2, OwnStep, InvStep, InformedStep
    <2>3. CASE Next /\ (\/ Construct \/ SendMsgCalls \/ DestroyServer
                        \/ AppContinue(Owner) \/ AppContinue(Srv)
                        \/ AppServerTask \/ AppCallbackReturns
                        \/ Environment /\ UNCHANGED appVars)
      <3>1. Inv' /\ Informed'
        BY <2>1, <2>3, InvStep, InformedStep
      <3>2. AppParts'
        BY <2>1, <2>3, MainCallStep, ContinueStep, ServerTaskStep, EnvironmentStep
      <3> QED
        BY <3>1, <3>2
    <2> QED
      BY <1>2, <2>2, <2>3, AppCases
  <1> QED
    BY <1>1, <1>2

-----------------------------------------------------------------------------
(* What follows from the invariant.  serverTask makes every callback       *)
(* without the server's mutex.                                             *)
LEMMA AppExcludesCycle == AppInv => NoLockCycle
  BY ServerAssumption DEF AppInv, Inv, Ownership, LockHeld, DeletePoints, Threads, NoLockCycle, At

(* While a send is under way the number is the client's or nobody's.       *)
LEMMA AppKeepsNumber == AppInv => SendKeepsItsNumber
  BY DEF AppInv, AppParts, NumberHeld, SendKeepsItsNumber, At

(* While the program runs, what is proved of its server and what the       *)
(* program adds to it hold.                                                *)
THEOREM AppInvariance == AppSpec => []AppInv
  BY AppInitInv, AppInvStep, PTL DEF AppSpec

(* The handles a user can send to are those of the server's clients, but   *)
(* for the one serverTask is announcing or withdrawing: the set that       *)
(* onClientConnect() and onClientDisconnect() keep under ServerApp's mutex *)
(* follows m_clients, which changes under another one.                     *)
THEOREM ClientsListed == AppSpec => []ListsItsClients
  <1>1. AppInv => ListsItsClients
    BY DEF AppInv, AppParts, ListsItsClients
  <1> QED
    BY <1>1, AppInvariance, PTL

(* The main thread, which takes ServerApp's mutex and then the server's,   *)
(* and a callback, which waits for ServerApp's mutex, never wait for each  *)
(* other: serverTask makes every callback without the server's mutex.      *)
THEOREM LocksAcyclic == AppSpec => []NoLockCycle
  BY AppExcludesCycle, AppInvariance, PTL

(* A send of the main thread never goes out on the descriptor of another   *)
(* client than the one it looked up, although sendClientMessage() uses the *)
(* Client after it has released the server's mutex: ServerApp's mutex      *)
(* keeps serverTask in the callback that withdraws the client.             *)
THEOREM NumberKept == AppSpec => []SendKeepsItsNumber
  BY AppKeepsNumber, AppInvariance, PTL
=============================================================================
