-------------------------- MODULE UdpSocketProofs --------------------------
(***************************************************************************)
(* Theorems about UdpSocket, for every set of descriptors, destinations    *)
(* and application threads, every choice of calls and every bound.         *)
(***************************************************************************)
EXTENDS UdpSocket, TLAPS

USE DEF Rcv, INVALID_SOCKET

(* Who is where.  Only its owner and the callbacks of the receive thread   *)
(* finish; the thread exists exactly when it is joinable, and has been     *)
(* joined when the owner closes the socket.                                *)
ThreadRoles ==
  /\ pc[Rcv] \in TaskPoints \cup {"send"} \cup Closing
  /\ \A t \in AppThreads \ {Owner} : pc[t] \in {"idle", "send"}
  /\ m_thread <=> pc[Rcv] # "none"
  /\ pc[Owner] \in Closing => pc[Rcv] = "none"

(* The socket that finish() is about to close is still open, since only    *)
(* one thread at a time is past join().                                    *)
ClosingOurs == \A t \in Threads : pc[t] = "closing" => fd[t] \in Fds /\ fdt[fd[t]] = "sock"

(* A start under way has ended the session; once it has got past the point *)
(* at which it sets m_sockaddr, m_sockaddr is the destination it was asked *)
(* for.  Only startUnicast() without a remote host is asked for none.      *)
StartUnderWay ==
  /\ pc[Owner] \in Starting => session = NoSession
  /\ pc[Owner] = "lookup" => want.op = "startUnicastRemote"
  /\ pc[Owner] = "group" => m_sockaddr = want.dest
  /\ pc[Owner] = "thread" => m_sockaddr = want.dest \/ want.op = "startUnicast"
  /\ pc[Owner] \in {"create", "setup"} /\ want.op = "startUnicastRemote" => m_sockaddr = want.dest
  /\ want.op \in {"startMcast", "startUnicastRemote", "startUnicast"}
  /\ want.op = "startUnicast" => want.dest = NoDest

(* The inductive invariant.                                                *)
Inv == TypeOK /\ ThreadRoles /\ FdOwned /\ ClosingOurs /\ StartUnderWay /\ DestinationKept

(* The invariant holds before the socket is started.                       *)
LEMMA InitInv == Init => Inv
  <1> SUFFICES ASSUME Init PROVE Inv
    OBVIOUS
  <1> USE KernelAssumption, UdpAssumption DEF Init, KernelInit, Threads, Starting, Closing, CallPoints, TaskPoints
  <1>1. TypeOK
    <2>1. KernelTypeOK /\ inbox \in [Fds -> 0..MaxUnread] /\ bound \subseteq Fds
      BY DEF KernelTypeOK, Files
    <2>2. /\ pc \in [Threads -> CallPoints \cup TaskPoints \cup {"idle"}]
          /\ fd \in [Threads -> Fds \cup {INVALID_SOCKET}] /\ starts \in 0..MaxStarts
      OBVIOUS
    <2>3. want \in [op : Operations, dest : Dests \cup {NoDest}]
      BY DEF Operations
    <2> QED
      BY <2>1, <2>2, <2>3 DEF TypeOK
  <1>2. ThreadRoles /\ FdOwned /\ ClosingOurs /\ StartUnderWay /\ DestinationKept
    BY DEF ThreadRoles, FdOwned, ClosingOurs, StartUnderWay, DestinationKept
  <1> QED
    BY <1>1, <1>2 DEF Inv

(* A step of Next is a step of one of its actions.                         *)
LEMMA NextCases ==
  ASSUME Next
  PROVE  \/ start \/ StartStep
         \/ \E t \in Threads : Call(t) \/ Continue(t)
         \/ ReceiveTask \/ FdMacroAborts \/ CallbackReturns
         \/ Environment
         \/ UNCHANGED vars
  BY DEF Next, Rest

(* Starting keeps the invariant: a new socket is the one in m_fd, and      *)
(* m_sockaddr is set before the session begins.                            *)
LEMMA StartInv ==
  ASSUME Inv, start \/ StartStep
  PROVE  Inv'
  <1> USE KernelAssumption, UdpAssumption
      DEF Inv, TypeOK, KernelTypeOK, Files, ThreadRoles, FdOwned, ClosingOurs,
          StartUnderWay, DestinationKept, Starting, Closing, CallPoints, TaskPoints, Operations, Threads, kernelVars, streamVars, net, members,
          ghosts, vars, At, Go, MayCall, StartCall
  <1>1. CASE startUnicast
    BY <1>1 DEF startUnicast
  <1>2. ASSUME NEW d \in Dests, startMcast(d) PROVE Inv'
    BY <1>2 DEF startMcast
  <1>3. ASSUME NEW d \in Dests, startUnicastRemote(d) PROVE Inv'
    BY <1>3 DEF startUnicastRemote
  <1>4. CASE LookupFails
    BY <1>4 DEF LookupFails
  <1>5. CASE LookupSucceeds
    BY <1>5 DEF LookupSucceeds
  <1>6. CASE CreateFails
    BY <1>6 DEF CreateFails
  <1>7. CASE SetupFails
    BY <1>7 DEF SetupFails
  <1>8. CASE BindFd
    BY <1>8 DEF BindFd
  <1>9. CASE JoinGroup
    BY <1>9 DEF JoinGroup
  <1>10. CASE StartThread
    <2>1. /\ pc[Owner] = "thread"
          /\ UNCHANGED <<net, m_fd, m_sockaddr, m_stop, want, starts, fd>>
      BY <1>10 DEF StartThread
    <2>2. CASE m_thread
      <3>1. alive' = FALSE /\ UNCHANGED <<m_thread, session, pc>>
        BY <1>10, <2>2 DEF StartThread
      <3>2. TypeOK'
        BY <2>1, <3>1
      <3>3. ThreadRoles' /\ FdOwned' /\ ClosingOurs' /\ StartUnderWay' /\ DestinationKept'
        BY <2>1, <3>1
      <3> QED
        BY <3>2, <3>3
    <2>3. CASE ~m_thread
      <3>1. /\ m_thread' = TRUE /\ session' = want.dest /\ UNCHANGED alive
            /\ pc' = [pc EXCEPT ![Owner] = "idle", ![Rcv] = "loop"]
        BY <1>10, <2>3 DEF StartThread
      <3>2. m_sockaddr = want.dest \/ want.dest = NoDest
        BY <2>1
      <3>3. TypeOK'
        BY <2>1, <3>1
      <3>4. ThreadRoles' /\ StartUnderWay' /\ DestinationKept'
        BY <2>1, <3>1, <3>2
      <3>5. FdOwned' /\ ClosingOurs'
        BY <2>1, <2>3, <3>1
      <3> QED
        BY <3>3, <3>4, <3>5
    <2> QED
      BY <2>2, <2>3
  <1>11. ASSUME NEW f \in Fds, Create(f) PROVE Inv'
    BY <1>11 DEF Create, Socket, LowestFree
  <1> QED
    BY <1>1, <1>2, <1>3, <1>4, <1>5, <1>6, <1>7, <1>8, <1>9, <1>10, <1>11 DEF start, StartStep

(* So do sending and finishing.                                            *)
LEMMA CallInv ==
  ASSUME Inv, NEW t \in Threads, Call(t) \/ Continue(t)
  PROVE  Inv'
  <1> USE KernelAssumption, UdpAssumption
      DEF Inv, TypeOK, KernelTypeOK, Files, ThreadRoles, FdOwned, ClosingOurs,
          StartUnderWay, DestinationKept, Starting, Closing, CallPoints, TaskPoints, Operations, Threads, kernelVars, net, members,
          ghosts, vars, At, Go, Back, MayCall
  <1>1. CASE sendMsg(t)
    BY <1>1 DEF sendMsg
  <1>2. CASE finish(t)
    BY <1>2 DEF finish
  <1>3. CASE SendTo(t)
    BY <1>3 DEF SendTo
  <1>4. CASE FinishJoin(t)
    <2>1. TypeOK'
      BY <1>4 DEF FinishJoin
    <2>2. ThreadRoles' /\ FdOwned' /\ ClosingOurs' /\ StartUnderWay' /\ DestinationKept'
      BY <1>4 DEF FinishJoin
    <2> QED
      BY <2>1, <2>2
  <1>5. CASE FinishTest(t)
    BY <1>5 DEF FinishTest
  <1>6. CASE FinishClose(t)
    <2>1. TypeOK'
      <3>1. KernelTypeOK'
        BY <1>6 DEF FinishClose, Close
      <3>2. inbox' \in [Fds -> 0..MaxUnread] /\ bound' \subseteq Fds
        <4>1. inbox' = [inbox EXCEPT ![fd[t]] = 0] /\ bound' = bound \ {fd[t]}
          BY <1>6 DEF FinishClose
        <4>2. 0 \in 0..MaxUnread
          OBVIOUS
        <4> QED
          BY ONLY Inv, <4>1, <4>2 DEF Inv, TypeOK
      <3> QED
        BY <1>6, <3>1, <3>2 DEF FinishClose
    <2>2. ThreadRoles' /\ StartUnderWay' /\ DestinationKept'
      BY <1>6 DEF FinishClose
    <2>3. FdOwned'
      BY <1>6 DEF FinishClose, Close
    <2>4. ClosingOurs'
      BY <1>6 DEF FinishClose, Close
    <2> QED
      BY <2>1, <2>2, <2>3, <2>4
  <1>7. CASE FinishReset(t)
    BY <1>7 DEF FinishReset
  <1> QED
    BY <1>1, <1>2, <1>3, <1>4, <1>5, <1>6, <1>7 DEF Call, Continue

(* So do the receive thread and its callbacks.                             *)
LEMMA ReceiveInv ==
  ASSUME Inv, ReceiveTask \/ FdMacroAborts \/ CallbackReturns
  PROVE  Inv'
  <1> USE KernelAssumption, UdpAssumption
      DEF Inv, TypeOK, KernelTypeOK, Files, ThreadRoles, FdOwned, ClosingOurs,
          StartUnderWay, DestinationKept, Starting, Closing, CallPoints, TaskPoints, Operations, Threads, kernelVars, net, members,
          ghosts, vars, At, Go, Step
  <1>1. ASSUME NEW f \in Fds, Take(f), pc[Rcv] \in {"recv", "blocked"} PROVE Inv'
    BY <1>1 DEF Take, Ready
  <1>2. CASE LoopTest
    BY <1>2 DEF LoopTest
  <1>3. CASE FdSet
    BY <1>3 DEF FdSet
  <1>4. CASE Select
    BY <1>4 DEF Select
  <1>5. CASE FdIsset
    BY <1>5 DEF FdIsset
  <1>6. CASE Recv
    <2>1. CASE m_fd # INVALID_SOCKET
      <3>1. m_fd \in Fds /\ Take(m_fd) /\ pc[Rcv] = "recv"
        BY <1>6, <2>1 DEF Recv
      <3> QED
        BY <1>1, <3>1
    <2>2. CASE m_fd = INVALID_SOCKET
      <3>1. Step("loop") /\ UNCHANGED fd /\ pc[Rcv] = "recv"
        BY <1>6, <2>2 DEF Recv
      <3> QED
        BY <3>1
    <2> QED
      BY <2>1, <2>2
  <1>7. CASE RecvBlocks
    BY <1>7 DEF RecvBlocks
  <1>8. CASE RecvWakes
    BY <1>1, <1>8 DEF RecvWakes, Take, Ready
  <1>9. CASE FdMacroAborts
    <2>1. TypeOK'
      BY <1>9 DEF FdMacroAborts
    <2>2. ThreadRoles' /\ FdOwned' /\ ClosingOurs' /\ StartUnderWay' /\ DestinationKept'
      BY <1>9 DEF FdMacroAborts
    <2> QED
      BY <2>1, <2>2
  <1>10. CASE CallbackReturns
    BY <1>10 DEF CallbackReturns
  <1>11. CASE SelectArgs
    BY <1>11 DEF SelectArgs
  <1> QED
    BY <1>11, <1>2, <1>3, <1>4, <1>5, <1>6, <1>7, <1>8, <1>9, <1>10 DEF ReceiveTask

(* So do datagrams that arrive and other code of the process.              *)
LEMMA EnvironmentInv ==
  ASSUME Inv, Environment
  PROVE  Inv'
  <1> USE KernelAssumption, UdpAssumption
      DEF Inv, TypeOK, KernelTypeOK, Files, ThreadRoles, FdOwned, ClosingOurs,
          StartUnderWay, DestinationKept, Starting, Closing, TaskPoints, Threads, kernelVars, streamVars, members, ghosts
  <1>1. UNCHANGED <<members, ghosts, pc, fd>>
    BY DEF Environment
  <1>2. ASSUME NEW f \in Fds, Arrives(f) PROVE Inv'
    BY <1>1, <1>2 DEF Arrives
  <1>3. ASSUME NEW f \in Fds, ForeignOpen(f) \/ ForeignClose(f), UNCHANGED <<inbox, bound>>
        PROVE  Inv'
    <2>1. /\ KernelTypeOK' /\ UNCHANGED streamVars
          /\ \A g \in Fds : fdt[g] = "sock" => fdt'[g] = "sock"
      BY <1>3 DEF ForeignOpen, ForeignClose, LowestFree
    <2>2. TypeOK' /\ ThreadRoles' /\ StartUnderWay' /\ DestinationKept'
      BY <1>1, <1>3, <2>1
    <2>3. FdOwned'
      BY <1>1, <1>3, <2>1
    <2>4. ClosingOurs'
      BY <1>1, <2>1
    <2> QED
      BY <2>2, <2>3, <2>4
  <1> QED
    BY <1>2, <1>3 DEF Environment

(* The invariant is inductive.                                             *)
LEMMA InvStep == Inv /\ [Next]_vars => Inv'
  <1> SUFFICES ASSUME Inv, [Next]_vars PROVE Inv'
    OBVIOUS
  <1>1. CASE UNCHANGED vars
    BY <1>1
       DEF Inv, TypeOK, KernelTypeOK, ThreadRoles, FdOwned, ClosingOurs, StartUnderWay,
           DestinationKept, vars, net, members, ghosts, kernelVars
  <1> QED
    BY <1>1, NextCases, StartInv, CallInv, ReceiveInv, EnvironmentInv

-----------------------------------------------------------------------------
(* The invariant holds throughout every behaviour.                         *)
THEOREM Invariance == Spec => []Inv
  BY InitInv, InvStep, PTL DEF Spec

(* The members of UdpSocket and the local state of its threads keep their  *)
(* types.                                                                  *)
THEOREM TypeCorrect == Spec => []TypeOK
  BY Invariance, PTL DEF Inv

(* No sequence of starts, failures and finish() calls leaves a stale       *)
(* number in m_fd: it names a closed socket only inside finish(), between  *)
(* Close() and the reset.  No number that has been closed stays bound.     *)
THEOREM SocketOwned == Spec => []FdOwned
  BY Invariance, PTL DEF Inv

(* A socket that was started for a group or a remote host sends there,     *)
(* whatever starts failed or succeeded before.                             *)
THEOREM SendsToItsDestination == Spec => []DestinationKept
  BY Invariance, PTL DEF Inv

(* finish() never closes a descriptor of other code.                       *)
THEOREM OnlyOwnClosed == Spec => ClosesOnlyItsOwn
  <1> DEFINE Keeps == pc' # pc => \A f \in Fds : fdt[f] = "foreign" => fdt'[f] = "foreign"
  <1>1. ASSUME Inv, Next PROVE Keeps
    <2> SUFFICES ASSUME NEW f \in Fds, fdt[f] = "foreign", fdt'[f] # "foreign", pc' # pc
                 PROVE  FALSE
      OBVIOUS
    <2> USE KernelAssumption, UdpAssumption DEF Inv, TypeOK, KernelTypeOK, kernelVars, net
    <2>1. ASSUME NEW t \in Threads, Call(t) \/ Continue(t) PROVE FALSE
      BY <1>1, <2>1 DEF Call, Continue, sendMsg, finish, SendTo, FinishJoin, FinishTest,
                        FinishClose, FinishReset, Close, ClosingOurs, At
    <2>2. ASSUME NEW g \in Fds, Create(g) PROVE FALSE
      BY <1>1, <2>2 DEF Create, Socket, LowestFree
    <2>3. CASE start \/ StartStep
      BY <2>2, <2>3
         DEF start, StartStep, startUnicast, startMcast, startUnicastRemote, StartCall, LookupFails,
             LookupSucceeds, CreateFails, SetupFails, BindFd, JoinGroup, StartThread
    <2>4. ~(ReceiveTask \/ FdMacroAborts \/ CallbackReturns)
      BY DEF ReceiveTask, FdMacroAborts, CallbackReturns, LoopTest, FdSet, SelectArgs, Select, FdIsset,
             Recv, RecvBlocks, RecvWakes, Take, Step
    <2> QED
      BY <1>1, <2>1, <2>3, <2>4, NextCases DEF Environment, vars
  <1>2. Inv /\ [Next]_vars => [Keeps]_vars
    BY <1>1
  <1> QED
    BY <1>2, Invariance, PTL DEF Spec, ClosesOnlyItsOwn
=============================================================================
