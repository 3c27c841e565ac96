------------------------------ MODULE UdpSocket ------------------------------
(***************************************************************************)
(* The UdpSocket class of UdpSocket.h with the name lookup of AddrLookup.h:*)
(* three ways to start a datagram socket, its receive thread, and the      *)
(* threads and callbacks of the application.  SocketCore gives the         *)
(* descriptor table; its streams are not used.                             *)
(***************************************************************************)
EXTENDS SocketCore

CONSTANTS
  AppThreads,  (* threads of the application                               *)
  Owner,       (* the one that starts the socket and calls finish()        *)
  AppCalls,    (* operations the application's threads call                *)
  CbCalls,     (* operations called from inside a callback                 *)
  Dests,       (* destinations: multicast groups and remote hosts          *)
  MaxStarts    (* bound: calls of startMcast() and startUnicast()          *)

Rcv == "ReceiveTask"
Threads == AppThreads \cup {Rcv}
INVALID_SOCKET == -1
NoDest == "no destination"     (* m_sockaddr.sin_port is 0                 *)
NoSession == "not started"
Operations == {"startMcast", "startUnicastRemote", "startUnicast", "sendMsg", "finish"}
Starting == {"lookup", "create", "setup", "group", "thread"}
Closing == {"close", "closing", "reset"}
CallPoints == Starting \cup {"send", "join"} \cup Closing
TaskPoints == {"none", "loop", "fdset", "nfds", "select", "isset", "recv", "blocked", "callback",
               "exit"}

ASSUME UdpAssumption ==
  /\ Owner \in AppThreads /\ Rcv \notin AppThreads
  /\ AppCalls \subseteq Operations /\ CbCalls \subseteq {"sendMsg", "finish"}
  /\ NoDest \notin Dests /\ NoSession \notin Dests
  /\ MaxStarts \in Nat

VARIABLES
  inbox,       (* descriptor -> datagrams waiting on its socket            *)
  bound,       (* the descriptors of bound sockets                         *)
  m_fd,        (* the socket, or INVALID_SOCKET                            *)
  m_sockaddr,  (* where sendMsg() sends to, or NoDest                      *)
  m_stop,
  m_thread,    (* m_thread.joinable()                                      *)
  pc,          (* thread -> where it is                                    *)
  fd,          (* thread -> the descriptor it has read from m_fd           *)
  want,        (* the start under way: which one, to which destination     *)
  session,     (* what the last successful start was asked to send to,     *)
               (* until finish() or another start                          *)
  starts,      (* calls of a start operation so far                        *)
  alive        (* the process has not been terminated                      *)

net == <<kernelVars, inbox, bound>>
members == <<m_fd, m_sockaddr, m_stop, m_thread>>
ghosts == <<want, session, starts, alive>>
vars == <<net, members, ghosts, pc, fd>>

Init ==
  /\ KernelInit
  /\ inbox = [f \in Fds |-> 0] /\ bound = {}
  /\ m_fd = INVALID_SOCKET /\ m_sockaddr = NoDest /\ m_stop = FALSE /\ m_thread = FALSE
  /\ pc = [t \in Threads |-> IF t = Rcv THEN "none" ELSE "idle"]
  /\ fd = [t \in Threads |-> INVALID_SOCKET]
  /\ want = [op |-> "startUnicast", dest |-> NoDest]
  /\ session = NoSession /\ starts = 0 /\ alive = TRUE

At(t, l) == alive /\ pc[t] = l
Go(t, l) == pc' = [pc EXCEPT ![t] = l]
Back(t) == IF t = Rcv THEN "callback" ELSE "idle"

(* t is about to call a public operation.                                  *)
MayCall(t, op) ==
  \/ t \in AppThreads /\ At(t, "idle") /\ op \in AppCalls
  \/ t = Rcv /\ At(t, "callback") /\ op \in CbCalls

-----------------------------------------------------------------------------
(* The start operations.  A failure after Socket() leaves the new socket   *)
(* open and in m_fd, and leaves m_sockaddr as it is by then.               *)

StartCall(op, d) ==
  /\ MayCall(Owner, op) /\ starts < MaxStarts
  /\ starts' = starts + 1
  /\ want' = [op |-> op, dest |-> d] /\ session' = NoSession
  /\ UNCHANGED <<net, m_fd, m_stop, m_thread, alive, fd>>

startMcast(d) ==
  /\ StartCall("startMcast", d)
  /\ Go(Owner, "create")
  /\ UNCHANGED m_sockaddr

startUnicast ==
  /\ StartCall("startUnicast", NoDest)
  /\ Go(Owner, "create")
  /\ UNCHANGED m_sockaddr

(* startUnicast() with a remote host clears m_sockaddr and looks the host  *)
(* up; if Initialize() fails it does not come so far.                      *)
startUnicastRemote(d) ==
  /\ StartCall("startUnicastRemote", d)
  /\ \/ Go(Owner, "lookup") /\ m_sockaddr' = NoDest
     \/ Go(Owner, "idle") /\ UNCHANGED m_sockaddr

LookupFails ==
  /\ At(Owner, "lookup")
  /\ Go(Owner, "idle")
  /\ UNCHANGED <<net, members, ghosts, fd>>

(* Mutant of LookupSucceeds: the port of the destination is not stored.    *)
LookupWithoutPort ==
  /\ At(Owner, "lookup")
  /\ Go(Owner, "create")
  /\ UNCHANGED <<net, members, ghosts, fd>>

LookupSucceeds ==
  /\ At(Owner, "lookup")
  /\ m_sockaddr' = want.dest
  /\ Go(Owner, "create")
  /\ UNCHANGED <<net, m_fd, m_stop, m_thread, ghosts, fd>>

(* Initialize() fails, or Socket() does and m_fd becomes INVALID_SOCKET.   *)
CreateFails ==
  /\ At(Owner, "create")
  /\ m_fd' \in {m_fd, INVALID_SOCKET}
  /\ Go(Owner, "idle")
  /\ UNCHANGED <<net, m_sockaddr, m_stop, m_thread, ghosts, fd>>

Create(f) ==
  /\ At(Owner, "create")
  /\ Socket(f)
  /\ m_fd' = f
  /\ Go(Owner, "setup")
  /\ UNCHANGED <<inbox, bound, m_sockaddr, m_stop, m_thread, ghosts, fd>>

(* SetSockOpt() or Bind() fails, or joining the multicast group does.      *)
SetupFails ==
  /\ At(Owner, "setup") \/ At(Owner, "group")
  /\ Go(Owner, "idle")
  /\ UNCHANGED <<net, members, ghosts, fd>>

(* Bind() of m_fd, which may be a file of other code by now if a callback  *)
(* calls finish().  startMcast() goes on to store the group in m_sockaddr. *)
BindFd ==
  /\ At(Owner, "setup") /\ m_fd # INVALID_SOCKET /\ fdt[m_fd] # "free"
  /\ bound' = IF fdt[m_fd] = "sock" THEN bound \cup {m_fd} ELSE bound
  /\ IF want.op = "startMcast"
     THEN m_sockaddr' = want.dest /\ Go(Owner, "group")
     ELSE UNCHANGED m_sockaddr /\ Go(Owner, "thread")
  /\ UNCHANGED <<kernelVars, inbox, m_fd, m_stop, m_thread, ghosts, fd>>

JoinGroup ==
  /\ At(Owner, "group") /\ m_fd # INVALID_SOCKET /\ fdt[m_fd] # "free"
  /\ Go(Owner, "thread")
  /\ UNCHANGED <<net, members, ghosts, fd>>

(* The receive thread starts; assigning to a joinable std::thread          *)
(* terminates the process.                                                 *)
StartThread ==
  /\ At(Owner, "thread")
  /\ IF m_thread
     THEN alive' = FALSE /\ UNCHANGED <<m_thread, session, pc>>
     ELSE /\ m_thread' = TRUE /\ session' = want.dest
          /\ pc' = [pc EXCEPT ![Owner] = "idle", ![Rcv] = "loop"]
          /\ UNCHANGED alive
  /\ UNCHANGED <<net, m_fd, m_sockaddr, m_stop, want, starts, fd>>

-----------------------------------------------------------------------------
(* sendMsg(): without a destination it reports success and does nothing.   *)
(* Otherwise m_fd is read and a datagram sent on it.                       *)

sendMsg(t) ==
  /\ MayCall(t, "sendMsg") /\ m_sockaddr # NoDest
  /\ fd' = [fd EXCEPT ![t] = m_fd]
  /\ Go(t, "send")
  /\ UNCHANGED <<net, members, ghosts>>

(* A datagram leaves no trace in the process, whether it was sent or not.  *)
SendTo(t) ==
  /\ At(t, "send")
  /\ fd' = [fd EXCEPT ![t] = INVALID_SOCKET]
  /\ Go(t, Back(t))
  /\ UNCHANGED <<net, members, ghosts>>

-----------------------------------------------------------------------------
(* finish(): in a callback join() throws, which is swallowed.              *)

finish(t) ==
  /\ MayCall(t, "finish") /\ t \in {Owner, Rcv}
  /\ m_stop' = TRUE /\ session' = NoSession
  /\ Go(t, IF m_thread /\ t # Rcv THEN "join" ELSE "close")
  /\ UNCHANGED <<net, m_fd, m_sockaddr, m_thread, want, starts, alive, fd>>

FinishJoin(t) ==
  /\ At(t, "join") /\ At(Rcv, "exit")
  /\ m_thread' = FALSE
  /\ pc' = [pc EXCEPT ![t] = "close", ![Rcv] = "none"]
  /\ UNCHANGED <<net, m_fd, m_sockaddr, m_stop, ghosts, fd>>

(* The test of m_fd and its read as the argument of Close(); the two are   *)
(* one step, since a Close(INVALID_SOCKET) does nothing.                   *)
FinishTest(t) ==
  /\ At(t, "close")
  /\ IF m_fd = INVALID_SOCKET
     THEN Go(t, "reset") /\ UNCHANGED fd
     ELSE Go(t, "closing") /\ fd' = [fd EXCEPT ![t] = m_fd]
  /\ UNCHANGED <<net, members, ghosts>>

FinishClose(t) ==
  /\ At(t, "closing")
  /\ Close({fd[t]})
  /\ bound' = bound \ {fd[t]}
  /\ inbox' = [inbox EXCEPT ![fd[t]] = 0]
  /\ Go(t, "reset")
  /\ UNCHANGED <<members, ghosts, fd>>

(* Mutants of FinishReset: m_fd keeps its value; it is assigned the result *)
(* of Close().                                                             *)
CloseKeepsFd(t) ==
  /\ At(t, "reset")
  /\ fd' = [fd EXCEPT ![t] = INVALID_SOCKET]
  /\ Go(t, Back(t))
  /\ UNCHANGED <<net, members, ghosts>>
CloseResult(t) ==
  /\ At(t, "reset")
  /\ m_fd' = IF fd[t] = INVALID_SOCKET THEN INVALID_SOCKET ELSE 0
  /\ fd' = [fd EXCEPT ![t] = INVALID_SOCKET]
  /\ Go(t, Back(t))
  /\ UNCHANGED <<net, m_sockaddr, m_stop, m_thread, ghosts>>

(* Until here m_fd still names the closed socket, whose number may by now  *)
(* be another file's.                                                      *)
FinishReset(t) ==
  /\ At(t, "reset")
  /\ m_fd' = INVALID_SOCKET
  /\ fd' = [fd EXCEPT ![t] = INVALID_SOCKET]
  /\ Go(t, Back(t))
  /\ UNCHANGED <<net, m_sockaddr, m_stop, m_thread, ghosts>>

-----------------------------------------------------------------------------
(* ReceiveTask()                                                           *)

Step(l) == Go(Rcv, l) /\ UNCHANGED <<net, members, ghosts>>

(* Mutant of LoopTest: m_stop is not looked at.                            *)
LoopForever == At(Rcv, "loop") /\ Step("fdset") /\ UNCHANGED fd

(* Without a socket the loop spins until it is stopped.                    *)
LoopTest ==
  /\ At(Rcv, "loop") /\ (m_stop \/ m_fd # INVALID_SOCKET)
  /\ Step(IF m_stop THEN "exit" ELSE "fdset")
  /\ UNCHANGED fd

FdSet ==
  /\ At(Rcv, "fdset")
  /\ fd' = [fd EXCEPT ![Rcv] = m_fd]
  /\ Step("nfds")

(* The number of descriptors for select() to look at is m_fd + 1, read     *)
(* anew; with fewer than the one in the set, or none in it, select() times *)
(* out.                                                                    *)
SelectArgs ==
  /\ At(Rcv, "nfds")
  /\ Step(IF fd[Rcv] # INVALID_SOCKET /\ fd[Rcv] <= m_fd THEN "select" ELSE "loop")
  /\ UNCHANGED fd

Ready(f) == f \in bound /\ inbox[f] > 0

Select ==
  /\ At(Rcv, "select")
  /\ Step(IF Ready(fd[Rcv]) THEN "isset" ELSE "loop")
  /\ UNCHANGED fd

FdIsset ==
  /\ At(Rcv, "isset")
  /\ Step(IF m_fd = fd[Rcv] THEN "recv" ELSE "loop")
  /\ UNCHANGED fd

(* FD_SET and FD_ISSET on INVALID_SOCKET reach outside the set: no socket  *)
(* is added or found, or a fortified build aborts.                         *)
FdMacroAborts ==
  /\ \/ At(Rcv, "nfds") /\ fd[Rcv] = INVALID_SOCKET
     \/ At(Rcv, "isset") /\ m_fd = INVALID_SOCKET
  /\ alive' = FALSE
  /\ UNCHANGED <<net, members, want, session, starts, pc, fd>>

(* recv() takes one datagram, an empty one too, and it is published.       *)
Take(f) ==
  /\ Ready(f)
  /\ inbox' = [inbox EXCEPT ![f] = @ - 1]
  /\ Go(Rcv, "callback")
  /\ UNCHANGED <<kernelVars, bound, members, ghosts, fd>>

(* Mutant of Recv: the result is not used.                                 *)
RecvIgnored == At(Rcv, "recv") /\ Step("loop") /\ UNCHANGED fd

(* recv() on m_fd, read once more: with INVALID_SOCKET it fails and the    *)
(* loop goes on.                                                           *)
Recv ==
  /\ At(Rcv, "recv")
  /\ \/ m_fd # INVALID_SOCKET /\ Take(m_fd)
     \/ m_fd = INVALID_SOCKET /\ Step("loop") /\ UNCHANGED fd

(* A start replaced the socket since select(): recv() waits on the new one.*)
RecvBlocks ==
  /\ At(Rcv, "recv") /\ m_fd # INVALID_SOCKET /\ ~Ready(m_fd)
  /\ fd' = [fd EXCEPT ![Rcv] = m_fd]
  /\ Step("blocked")

RecvWakes == At(Rcv, "blocked") /\ Take(fd[Rcv])

CallbackReturns == At(Rcv, "callback") /\ Step("loop") /\ UNCHANGED fd

-----------------------------------------------------------------------------
(* The specification.                                                      *)

Call(t) == sendMsg(t) \/ finish(t)

start == startUnicast \/ \E d \in Dests : startMcast(d) \/ startUnicastRemote(d)

StartStep ==
  \/ LookupFails \/ LookupSucceeds \/ CreateFails \/ SetupFails
  \/ BindFd \/ JoinGroup \/ StartThread
  \/ \E f \in Fds : Create(f)

Continue(t) ==
  SendTo(t) \/ FinishJoin(t) \/ FinishTest(t) \/ FinishClose(t) \/ FinishReset(t)

ReceiveTask ==
  \/ LoopTest \/ FdSet \/ SelectArgs \/ Select \/ FdIsset
  \/ Recv \/ RecvBlocks \/ RecvWakes

(* A datagram arrives on a bound socket.                                   *)
Arrives(f) ==
  /\ f \in bound /\ inbox[f] < MaxUnread
  /\ inbox' = [inbox EXCEPT ![f] = @ + 1]
  /\ UNCHANGED <<kernelVars, bound>>

Environment ==
  /\ alive
  /\ \E f \in Fds :
       \/ Arrives(f)
       \/ (ForeignOpen(f) \/ ForeignClose(f)) /\ UNCHANGED <<inbox, bound>>
  /\ UNCHANGED <<members, ghosts, pc, fd>>

(* The process has been terminated, or nothing is under way in it.         *)
Rest ==
  /\ \/ ~alive
     \/ pc[Rcv] \in {"none", "exit"} /\ \A t \in AppThreads : At(t, "idle")
  /\ UNCHANGED vars

Next ==
  \/ start \/ StartStep
  \/ \E t \in Threads : Call(t) \/ Continue(t)
  \/ ReceiveTask \/ FdMacroAborts \/ CallbackReturns
  \/ Environment
  \/ Rest

Spec == Init /\ [][Next]_vars

(* Threads that can go on do, and callbacks return.                        *)
Fairness ==
  /\ WF_vars(ReceiveTask)
  /\ SF_vars(CallbackReturns)
  /\ WF_vars(StartStep)
  /\ \A t \in Threads : WF_vars(Continue(t))

FairSpec == Spec /\ Fairness

-----------------------------------------------------------------------------
(* Type correctness of the class's members, the threads and the network.   *)
TypeOK ==
  /\ KernelTypeOK
  /\ inbox \in [Fds -> 0..MaxUnread] /\ bound \subseteq Fds
  /\ m_fd \in Fds \cup {INVALID_SOCKET}
  /\ m_sockaddr \in Dests \cup {NoDest}
  /\ m_stop \in BOOLEAN /\ m_thread \in BOOLEAN /\ alive \in BOOLEAN
  /\ pc \in [Threads -> CallPoints \cup TaskPoints \cup {"idle"}]
  /\ fd \in [Threads -> Fds \cup {INVALID_SOCKET}]
  /\ want \in [op : Operations, dest : Dests \cup {NoDest}]
  /\ session \in Dests \cup {NoDest, NoSession}
  /\ starts \in 0..MaxStarts

(* m_fd is INVALID_SOCKET or an open socket of the class, and what is      *)
(* bound is open, however starts, their failures and finish() follow each  *)
(* other: m_fd only names a closed socket, or whatever has its number by   *)
(* then, while the finish() that closed it has not reset it yet.           *)
FdOwned ==
  /\ m_fd # INVALID_SOCKET =>
       \/ fdt[m_fd] = "sock"
       \/ \E t \in Threads : pc[t] = "reset" /\ fd[t] = m_fd
  /\ \A f \in bound : fdt[f] = "sock"

(* No step of the class closes a descriptor of other code.                 *)
ClosesOnlyItsOwn ==
  [][pc' # pc => \A f \in Fds : fdt[f] = "foreign" => fdt'[f] = "foreign"]_vars

(* A socket started for a destination sends there, whatever starts failed  *)
(* before.                                                                 *)
DestinationKept == session \in Dests => m_sockaddr = session

(* A socket started as server-only has no destination.                     *)
ServerOnlySendsNothing == session = NoDest => m_sockaddr = NoDest

(* A datagram that waits on the started socket is delivered, unless the    *)
(* socket is finished or replaced or m_stop was set before it started.     *)
DeliveredUntilStop ==
  session # NoSession /\ ~m_stop /\ inbox[m_fd] > 0
    ~> session = NoSession \/ (m_fd # INVALID_SOCKET /\ inbox[m_fd] = 0)

(* finish() returns, unless the thread waits for ever in recv() on a       *)
(* socket that another start has put in the place of the one select()      *)
(* reported, or has come to abort on one that a failed start has removed.  *)
FinishReturns == At(Owner, "join") ~> ~alive \/ At(Owner, "idle") \/ []At(Rcv, "blocked")
=============================================================================
