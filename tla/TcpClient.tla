------------------------------ MODULE TcpClient ------------------------------
(***************************************************************************)
(* The TcpClient class of TcpClient.h: the receive thread (ReceiveTask),   *)
(* its callbacks and the application's threads.  Nothing is protected by a *)
(* mutex and m_sockfd is a plain integer, so every read of it that another *)
(* thread may overtake is a step of its own.                               *)
(***************************************************************************)
EXTENDS SocketCore

CONSTANTS
  AppThreads,  (* threads of the application                               *)
  Owner,       (* the one that calls connectTo() and finish()              *)
  AppCalls,    (* operations the application's threads call                *)
  CbCalls,     (* operations called from inside a callback                 *)
  MaxConnects  (* bound: calls of connectTo()                              *)

Rcv == "ReceiveTask"
Threads == AppThreads \cup {Rcv}
INVALID_SOCKET == -1
Operations == {"connectTo", "sendMsg", "finish"}
Connecting == {"create", "setup", "connect", "connecting", "thread"}
Closing == {"close", "closing", "reset"}
CallPoints == Connecting \cup {"send", "join"} \cup Closing
TaskPoints == {"none", "loop", "nfds", "select", "isset", "recv", "blocked", "lost", "callback",
               "exit"}

ASSUME ClientAssumption ==
  /\ Owner \in AppThreads /\ Rcv \notin AppThreads
  /\ AppCalls \subseteq Operations /\ CbCalls \subseteq Operations
  /\ MaxConnects \in Nat

VARIABLES
  m_sockfd,   (* the client's socket, or INVALID_SOCKET                    *)
  m_stop,
  m_thread,   (* m_thread.joinable()                                       *)
  pc,         (* thread -> where it is                                     *)
  fd,         (* thread -> the descriptor it has read from m_sockfd        *)
  dial,       (* thread -> the connection its connect() makes, or NoConn   *)
  gone,       (* the callback under way is onDisconnect()                  *)
  session,    (* the connection the application believes it has, or NoConn *)
  connects,   (* calls of connectTo() so far                               *)
  alive       (* the process has not been terminated                       *)

members == <<m_sockfd, m_stop, m_thread, session, connects, alive>>
shared == <<kernelVars, members>>
vars == <<shared, pc, fd, dial, gone>>

Init ==
  /\ KernelInit
  /\ m_sockfd = INVALID_SOCKET /\ m_stop = FALSE /\ m_thread = FALSE
  /\ pc = [t \in Threads |-> IF t = Rcv THEN "none" ELSE "idle"]
  /\ fd = [t \in Threads |-> INVALID_SOCKET] /\ dial = [t \in Threads |-> NoConn]
  /\ gone = FALSE /\ session = NoConn /\ connects = 0 /\ alive = TRUE

At(t, l) == alive /\ pc[t] = l
Go(t, l) == pc' = [pc EXCEPT ![t] = l]

(* Where an operation called by t returns to.                              *)
Back(t) == IF t = Rcv THEN "callback" ELSE "idle"

(* t is about to call a public operation.                                  *)
MayCall(t, op) ==
  \/ t \in AppThreads /\ At(t, "idle") /\ op \in AppCalls
  \/ t = Rcv /\ At(t, "callback") /\ op \in CbCalls

-----------------------------------------------------------------------------
(* connectTo(): the application gives up what it had.  A failure after     *)
(* socket() leaves the new socket open and in m_sockfd.                    *)

connectTo(t) ==
  /\ MayCall(t, "connectTo") /\ t \in {Owner, Rcv} /\ connects < MaxConnects
  /\ m_sockfd' = INVALID_SOCKET
  /\ session' = NoConn /\ connects' = connects + 1
  /\ Go(t, "create")
  /\ UNCHANGED <<kernelVars, m_stop, m_thread, alive, fd, dial, gone>>

(* Initialize() or Socket() fails.                                         *)
ConnectNoSocket(t) ==
  /\ At(t, "create")
  /\ Go(t, Back(t))
  /\ UNCHANGED <<shared, fd, dial, gone>>

ConnectSocket(t, f) ==
  /\ At(t, "create")
  /\ Socket(f)
  /\ m_sockfd' = f
  /\ Go(t, "setup")
  /\ UNCHANGED <<m_stop, m_thread, session, connects, alive, fd, dial, gone>>

(* SetSockOpt(), lookupHost() or Connect() fails.                          *)
ConnectFails(t) ==
  /\ At(t, "setup") \/ At(t, "connect")
  /\ Go(t, Back(t))
  /\ fd' = [fd EXCEPT ![t] = INVALID_SOCKET]
  /\ UNCHANGED <<shared, dial, gone>>

(* m_sockfd is read as the argument of Connect().                          *)
ConnectRead(t) ==
  /\ At(t, "setup")
  /\ fd' = [fd EXCEPT ![t] = m_sockfd]
  /\ Go(t, "connect")
  /\ UNCHANGED <<shared, dial, gone>>

ConnectStarts(t, c) ==
  /\ At(t, "connect") /\ fd[t] \in Fds
  /\ Connect(fd[t], c)
  /\ dial' = [dial EXCEPT ![t] = c]
  /\ Go(t, "connecting")
  /\ UNCHANGED <<members, fd, gone>>

(* The socket has been closed since and its number is a file of other      *)
(* code, on which connect() may succeed.                                   *)
ConnectForeign(t) ==
  /\ At(t, "connect") /\ fd[t] \in Fds /\ fdt[fd[t]] = "foreign"
  /\ Go(t, "thread")
  /\ UNCHANGED <<shared, fd, dial, gone>>

(* connect() returns.                                                      *)
ConnectEstablished(t) ==
  /\ At(t, "connecting")
  /\ Establish(dial[t])
  /\ Go(t, "thread")
  /\ UNCHANGED <<members, fd, dial, gone>>

ConnectRefused(t) ==
  /\ At(t, "connecting")
  /\ Refuse(dial[t])
  /\ fd' = [fd EXCEPT ![t] = INVALID_SOCKET] /\ dial' = [dial EXCEPT ![t] = NoConn]
  /\ Go(t, Back(t))
  /\ UNCHANGED <<members, gone>>

(* The receive thread starts; assigning to a joinable std::thread          *)
(* terminates the process.                                                 *)
ConnectThread(t) ==
  /\ At(t, "thread")
  /\ IF m_thread
     THEN alive' = FALSE /\ UNCHANGED <<m_thread, session, pc>>
     ELSE /\ m_thread' = TRUE /\ session' = dial[t]
          /\ pc' = [pc EXCEPT ![t] = Back(t), ![Rcv] = "loop"]
          /\ UNCHANGED alive
  /\ fd' = [fd EXCEPT ![t] = INVALID_SOCKET] /\ dial' = [dial EXCEPT ![t] = NoConn]
  /\ UNCHANGED <<kernelVars, m_sockfd, m_stop, connects, gone>>

-----------------------------------------------------------------------------
(* sendMsg(): m_sockfd is read, then send() is called on what was read.    *)

sendMsg(t) ==
  /\ MayCall(t, "sendMsg")
  /\ fd' = [fd EXCEPT ![t] = m_sockfd]
  /\ Go(t, "send")
  /\ UNCHANGED <<shared, dial, gone>>

SendOnFd(t) ==
  /\ At(t, "send")
  /\ \/ fd[t] = INVALID_SOCKET /\ UNCHANGED kernelVars
     \/ fd[t] \in Fds /\ \E success \in BOOLEAN : Send(fd[t], success)
  /\ fd' = [fd EXCEPT ![t] = INVALID_SOCKET]
  /\ Go(t, Back(t))
  /\ UNCHANGED <<members, dial, gone>>

-----------------------------------------------------------------------------
(* finish(): in a callback join() throws, which is swallowed.              *)

finish(t) ==
  /\ MayCall(t, "finish") /\ t \in {Owner, Rcv}
  /\ m_stop' = TRUE /\ session' = NoConn
  /\ Go(t, IF m_thread /\ t # Rcv THEN "join" ELSE "close")
  /\ UNCHANGED <<kernelVars, m_sockfd, m_thread, connects, alive, fd, dial, gone>>

FinishJoin(t) ==
  /\ At(t, "join") /\ At(Rcv, "exit")
  /\ m_thread' = FALSE
  /\ pc' = [pc EXCEPT ![t] = "close", ![Rcv] = "none"]
  /\ UNCHANGED <<kernelVars, m_sockfd, m_stop, session, connects, alive, fd, dial, gone>>

(* Mutant of FinishTest: nothing is closed after an end of the connection. *)
CloseUnlessGone(t) ==
  /\ At(t, "close")
  /\ IF m_sockfd = INVALID_SOCKET \/ gone
     THEN Go(t, "reset") /\ UNCHANGED fd
     ELSE Go(t, "closing") /\ fd' = [fd EXCEPT ![t] = m_sockfd]
  /\ UNCHANGED <<shared, dial, gone>>

(* The test of m_sockfd and its read as the argument of Close(); the two   *)
(* are one step, since a Close(INVALID_SOCKET) does nothing.               *)
FinishTest(t) ==
  /\ At(t, "close")
  /\ IF m_sockfd = INVALID_SOCKET
     THEN Go(t, "reset") /\ UNCHANGED fd
     ELSE Go(t, "closing") /\ fd' = [fd EXCEPT ![t] = m_sockfd]
  /\ UNCHANGED <<shared, dial, gone>>

FinishClose(t) ==
  /\ At(t, "closing")
  /\ Close({fd[t]})
  /\ Go(t, "reset")
  /\ UNCHANGED <<members, fd, dial, gone>>

(* Mutants of FinishReset: m_sockfd keeps its value; it is assigned the    *)
(* result of Close().                                                      *)
CloseKeepsSockfd(t) ==
  /\ At(t, "reset")
  /\ fd' = [fd EXCEPT ![t] = INVALID_SOCKET]
  /\ Go(t, Back(t))
  /\ UNCHANGED <<shared, dial, gone>>
CloseResult(t) ==
  /\ At(t, "reset")
  /\ m_sockfd' = IF fd[t] = INVALID_SOCKET THEN INVALID_SOCKET ELSE 0
  /\ fd' = [fd EXCEPT ![t] = INVALID_SOCKET]
  /\ Go(t, Back(t))
  /\ UNCHANGED <<kernelVars, m_stop, m_thread, session, connects, alive, dial, gone>>

(* Until here m_sockfd still names the closed socket, whose number may by  *)
(* now be another file's.                                                  *)
FinishReset(t) ==
  /\ At(t, "reset")
  /\ m_sockfd' = INVALID_SOCKET
  /\ fd' = [fd EXCEPT ![t] = INVALID_SOCKET]
  /\ Go(t, Back(t))
  /\ UNCHANGED <<kernelVars, m_stop, m_thread, session, connects, alive, dial, gone>>

-----------------------------------------------------------------------------
(* ReceiveTask()                                                           *)

(* Mutant of LoopTest: m_stop is not looked at.                            *)
LoopForever ==
  /\ At(Rcv, "loop")
  /\ Go(Rcv, "nfds")
  /\ fd' = [fd EXCEPT ![Rcv] = m_sockfd]
  /\ UNCHANGED <<shared, dial, gone>>

(* m_stop is tested and FD_SET reads m_sockfd.                             *)
LoopTest ==
  /\ At(Rcv, "loop")
  /\ IF m_stop THEN Go(Rcv, "exit") /\ UNCHANGED fd
     ELSE Go(Rcv, "nfds") /\ fd' = [fd EXCEPT ![Rcv] = m_sockfd]
  /\ UNCHANGED <<shared, dial, gone>>

(* The number of descriptors for select() to look at is m_sockfd + 1, read *)
(* anew; with fewer than the one in the set, or none in it, select() times *)
(* out.                                                                    *)
SelectArgs ==
  /\ At(Rcv, "nfds")
  /\ Go(Rcv, IF fd[Rcv] # INVALID_SOCKET /\ fd[Rcv] <= m_sockfd THEN "select" ELSE "loop")
  /\ UNCHANGED <<shared, fd, dial, gone>>

(* An unconnected socket is always ready, to report that it is one.        *)
Ready(f) == fdt[f] = "sock" \/ Readable(f)

(* Mutant of Select: a timeout is taken for data.                          *)
SelectUntested ==
  /\ At(Rcv, "select")
  /\ Go(Rcv, "isset")
  /\ UNCHANGED <<shared, fd, dial, gone>>

Select ==
  /\ At(Rcv, "select")
  /\ Go(Rcv, IF Ready(fd[Rcv]) THEN "isset" ELSE "loop")
  /\ UNCHANGED <<shared, fd, dial, gone>>

(* Mutant of FdIsset: the test is inverted.                                *)
IssetInverted ==
  /\ At(Rcv, "isset")
  /\ Go(Rcv, IF m_sockfd = fd[Rcv] THEN "loop" ELSE "recv")
  /\ UNCHANGED <<shared, fd, dial, gone>>

(* FD_ISSET looks m_sockfd up again.                                       *)
FdIsset ==
  /\ At(Rcv, "isset")
  /\ Go(Rcv, IF m_sockfd = fd[Rcv] THEN "recv" ELSE "loop")
  /\ UNCHANGED <<shared, fd, dial, gone>>

(* FD_SET and FD_ISSET on INVALID_SOCKET reach outside the set: no socket  *)
(* is added or found, or a fortified build aborts.                         *)
FdMacroAborts ==
  /\ \/ At(Rcv, "nfds") /\ fd[Rcv] = INVALID_SOCKET
     \/ At(Rcv, "isset") /\ m_sockfd = INVALID_SOCKET
  /\ alive' = FALSE
  /\ UNCHANGED <<kernelVars, m_sockfd, m_stop, m_thread, session, connects, pc, fd, dial, gone>>

(* Mutants of AfterRecv: every result is an end of the connection; the end *)
(* stops the thread without publishDisconnected(), or leaves the loop      *)
(* before anything is done.                                                *)
AlwaysLost(ok) == Go(Rcv, "lost") /\ m_stop' = TRUE
LostSilently(ok) == Go(Rcv, IF ok THEN "callback" ELSE "loop") /\ m_stop' = (m_stop \/ ~ok)
LostUnmarked(ok) == Go(Rcv, IF ok THEN "callback" ELSE "exit") /\ UNCHANGED m_stop

(* Data go to onReceiveData(); anything else is the end of the connection. *)
AfterRecv(ok) == Go(Rcv, IF ok THEN "callback" ELSE "lost") /\ m_stop' = (m_stop \/ ~ok)

(* recv() on descriptor f returns.  It fails on INVALID_SOCKET and on an   *)
(* unconnected socket.                                                     *)
RecvOn(f) ==
  LET file == IF f \in Fds THEN fdt[f] ELSE "free" IN
  \/ file \in Conns /\ RecvData(file) /\ AfterRecv(TRUE)
  \/ file \in Conns /\ (RecvEof(file) \/ RecvErr(file)) /\ AfterRecv(FALSE)
  \/ file \in Files /\ UNCHANGED kernelVars /\ AfterRecv(FALSE)

(* recv() on m_sockfd, read once more.                                     *)
Recv ==
  /\ At(Rcv, "recv")
  /\ RecvOn(m_sockfd)
  /\ UNCHANGED <<m_sockfd, m_thread, session, connects, alive, fd, dial, gone>>

(* recv() waits on a connection that has nothing to read or that connect() *)
(* is still making.                                                        *)
RecvBlocks ==
  /\ At(Rcv, "recv") /\ m_sockfd \in Fds
  /\ fdt[m_sockfd] \in Conns /\ ~Readable(m_sockfd)
  /\ fd' = [fd EXCEPT ![Rcv] = m_sockfd]
  /\ Go(Rcv, "blocked")
  /\ UNCHANGED <<shared, dial, gone>>

RecvWakes ==
  /\ At(Rcv, "blocked")
  /\ RecvOn(fd[Rcv])
  /\ UNCHANGED <<m_sockfd, m_thread, session, connects, alive, fd, dial, gone>>

publishDisconnected ==
  /\ At(Rcv, "lost")
  /\ session' = NoConn /\ gone' = TRUE
  /\ Go(Rcv, "callback")
  /\ UNCHANGED <<kernelVars, m_sockfd, m_stop, m_thread, connects, alive, fd, dial>>

(* onDisconnect() is the last callback of the thread.                      *)
CallbackReturns ==
  /\ At(Rcv, "callback")
  /\ Go(Rcv, IF gone THEN "exit" ELSE "loop")
  /\ gone' = FALSE
  /\ UNCHANGED <<shared, fd, dial>>

-----------------------------------------------------------------------------
(* The specification.                                                      *)

Call(t) == connectTo(t) \/ sendMsg(t) \/ finish(t)

Continue(t) ==
  \/ ConnectNoSocket(t) \/ ConnectFails(t) \/ ConnectRead(t) \/ ConnectForeign(t)
  \/ \E f \in Fds : ConnectSocket(t, f)
  \/ \E c \in Conns : ConnectStarts(t, c)
  \/ ConnectEstablished(t) \/ ConnectRefused(t) \/ ConnectThread(t)
  \/ SendOnFd(t)
  \/ FinishJoin(t) \/ FinishTest(t) \/ FinishClose(t) \/ FinishReset(t)

ReceiveTask ==
  \/ LoopTest \/ SelectArgs \/ Select \/ FdIsset
  \/ Recv \/ RecvBlocks \/ RecvWakes \/ publishDisconnected

Environment ==
  /\ alive
  /\ Peers \/ \E f \in Fds : ForeignOpen(f) \/ ForeignClose(f)
  /\ UNCHANGED <<members, pc, fd, dial, gone>>

(* The process has been terminated, or nothing is under way in it.         *)
Rest ==
  /\ \/ ~alive
     \/ pc[Rcv] \in {"none", "exit"} /\ \A t \in AppThreads : At(t, "idle")
  /\ UNCHANGED vars

Next ==
  \/ \E t \in Threads : Call(t) \/ Continue(t)
  \/ ReceiveTask \/ FdMacroAborts \/ CallbackReturns
  \/ Environment
  \/ Rest

Spec == Init /\ [][Next]_vars

(* Threads that can go on do, and callbacks return.  Nothing is assumed of *)
(* the server or of what the application calls.                            *)
Fairness ==
  /\ WF_vars(ReceiveTask)
  /\ SF_vars(CallbackReturns)
  /\ \A t \in Threads : WF_vars(Continue(t))

FairSpec == Spec /\ Fairness

-----------------------------------------------------------------------------
(* Type correctness of the class's members, the threads and the kernel.    *)
TypeOK ==
  /\ KernelTypeOK
  /\ m_sockfd \in Fds \cup {INVALID_SOCKET}
  /\ m_stop \in BOOLEAN /\ m_thread \in BOOLEAN /\ gone \in BOOLEAN /\ alive \in BOOLEAN
  /\ pc \in [Threads -> CallPoints \cup TaskPoints \cup {"idle"}]
  /\ fd \in [Threads -> Fds \cup {INVALID_SOCKET}] /\ dial \in [Threads -> Conns \cup {NoConn}]
  /\ session \in Conns \cup {NoConn}
  /\ connects \in 0..MaxConnects

(* m_sockfd is INVALID_SOCKET or a socket of the client that is still      *)
(* open, however connectTo(), its failures, finish() and callbacks that    *)
(* call them follow each other: it only names a closed socket, or whatever *)
(* has its number by then, while the finish() that closed it has not reset *)
(* it yet.                                                                 *)
SockfdOwned ==
  m_sockfd # INVALID_SOCKET =>
    \/ fdt[m_sockfd] \in Conns \cup {"sock"}
    \/ \E t \in Threads : pc[t] = "reset" /\ fd[t] = m_sockfd

(* No step of the client closes a descriptor of other code.                *)
ClosesOnlyItsOwn ==
  [][pc' # pc => \A f \in Fds : fdt[f] = "foreign" => fdt'[f] = "foreign"]_vars

(* The connection the application believes it has is the one m_sockfd      *)
(* names, and its receive thread is at work unless it has been stopped.    *)
SessionHeld ==
  alive /\ session # NoConn =>
    /\ m_sockfd # INVALID_SOCKET /\ fdt[m_sockfd] = session
    /\ m_stop \/ (m_thread /\ pc[Rcv] \notin {"none", "exit"})

(* The receive thread only waits in recv() while the owner's connectTo()   *)
(* has the socket in connect(), or is about to be terminated for starting  *)
(* a second thread: otherwise there is something to read or recv() fails,  *)
(* although m_sockfd is read four times on the way to it.                  *)
RecvWaitsForConnect ==
  At(Rcv, "blocked") =>
    \/ Ready(fd[Rcv])
    \/ pc[Owner] \in {"connecting", "thread"} /\ fd[Owner] = fd[Rcv]

(* onDisconnect() is only called for a server that has gone, or for a      *)
(* socket the application has given up by calling connectTo() again.       *)
DisconnectHonest ==
  At(Rcv, "lost") /\ session # NoConn => peer[session] # "up"

(* sendMsg() never writes to a descriptor of other code.                   *)
SendReachesServer ==
  \A t \in Threads : At(t, "send") /\ fd[t] # INVALID_SOCKET => fdt[fd[t]] # "foreign"

(* The receive thread waits in a sendMsg() that a callback has called.     *)
CallbackSends == At(Rcv, "send")

(* When finish() returns, the socket of the one connectTo() that preceded  *)
(* it is closed.                                                           *)
FinishReleasesAll ==
  [][\A t \in Threads : At(t, "reset") /\ pc'[t] # "reset" /\ connects = 1 =>
       \A f \in Fds : fdt'[f] \in {"free", "foreign"}]_vars

(* finish() returns, unless the process is terminated or a callback is     *)
(* held up by a server that does not read: the receive thread comes to its *)
(* shutdown check.                                                         *)
FinishReturns == At(Owner, "join") ~> At(Owner, "idle") \/ ~alive \/ []CallbackSends

(* What the server sends on the connection connectTo() has reported is     *)
(* delivered, unless the application gives the connection up first or its  *)
(* callback is held up; while neither finish() nor the end of an earlier   *)
(* connection has set m_stop, which connectTo() never clears.  (A session  *)
(* is given up before there is another one.)                               *)
DeliveredUntilStop ==
  session # NoConn /\ ~m_stop /\ unread[session] > 0
    ~> session = NoConn \/ unread[session] = 0 \/ []CallbackSends

(* Under the conditions of DeliveredUntilStop the application is told that *)
(* the server has gone.                                                    *)
DisconnectTold ==
  session # NoConn /\ ~m_stop /\ peer[session] # "up"
    ~> session = NoConn \/ peer[session] = "up" \/ []CallbackSends
=============================================================================
