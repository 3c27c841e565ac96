------------------------------ MODULE TcpServer ------------------------------
(***************************************************************************)
(* The TcpServer class of TcpServer.h: the server thread (serverTask), the *)
(* callbacks it makes into the application, and the application's threads, *)
(* all of which may call the public operations.  Each thread has a program *)
(* counter; a step is what the code does between two points at which       *)
(* another thread can see or change what it uses.  A section under m_mutex *)
(* is one step when nothing reads its intermediate states without the lock *)
(* and several steps when something does (deleteClient, sendBcast).        *)
(*                                                                         *)
(* A Client object is named by the connection it was created for: a        *)
(* pointer c into m_clients is dangling once no handle maps to c.          *)
(***************************************************************************)
EXTENDS SocketCore

CONSTANTS
  AppThreads,  (* threads of the application                               *)
  Owner,       (* the one that calls start() and finish()                  *)
  AppCalls,    (* operations the application's threads call                *)
  CbCalls,     (* operations called from inside a callback                 *)
  MaxStarts    (* bound: calls of start()                                  *)

Srv == "serverTask"
Threads == AppThreads \cup {Srv}
NoThread == "nobody"
INVALID_SOCKET == -1
(* The points between two steps of a thread: of serverTask, and of an      *)
(* operation under way.                                                    *)
LoopPoints == {"none", "loop", "copy", "max", "select", "scan", "recv", "blocked", "publish",
               "eof", "gone", "accept", "emplace", "fdset", "fdsetW", "connect", "callback", "exit"}
DeletePoints == {"delClose", "delClr", "delClrW", "delErase"}
CallPoints == DeletePoints \cup {"bcast", "send", "join", "closeAll"}
Points == LoopPoints \cup CallPoints \cup {"idle"}

Operations == {"deleteClient", "sendBcast", "sendClientMessage", "finish"}

ASSUME ServerAssumption ==
  /\ Owner \in AppThreads
  /\ Srv \notin AppThreads /\ NoThread \notin Threads
  /\ AppCalls \subseteq Operations /\ CbCalls \subseteq Operations
  /\ MaxStarts \in Nat

VARIABLES
  m_sockfd,       (* the accept socket, or INVALID_SOCKET                  *)
  m_fds,          (* the descriptors select() watches                      *)
  m_stop,
  m_clients,      (* handle -> the connection of its Client, or NoConn     *)
  m_isConnected,  (* Client::m_isConnected                                 *)
  m_mutex,        (* the thread that holds it, or NoThread                 *)
  m_thread,       (* m_thread.joinable()                                   *)
  pc,             (* thread -> where it is; Srv is at "none" before start  *)
  hnd,            (* thread -> the fd or handle it works on                *)
  ptr,            (* thread -> its Client pointer                          *)
  word,           (* thread -> m_fds as read by FD_SET or FD_CLR           *)
  read_set,       (* select()'s set: what serverTask has still to look at  *)
  todo,           (* the clients sendBcast() has not reached yet           *)
  eof,            (* serverTask is in the deleteClient() of a closed peer  *)
  view,           (* the application's register: handle -> connection      *)
  starts,         (* calls of start() so far                               *)
  started,        (* the last start() returned success, and finish() has   *)
                  (* not been called since                                 *)
  alive           (* std::terminate() has not been called                  *)

lifecycle == <<m_sockfd, m_stop, m_thread, starts, started, alive>>
table == <<m_clients, m_isConnected, view>>
locals == <<hnd, ptr, word, read_set, todo, eof>>
shared == <<kernelVars, lifecycle, table, m_fds, m_mutex>>
vars == <<shared, locals, pc>>

Init ==
  /\ KernelInit
  /\ m_sockfd = INVALID_SOCKET /\ m_fds = {} /\ m_stop = FALSE
  /\ m_clients = [h \in Fds |-> NoConn]
  /\ m_isConnected = [c \in Conns |-> FALSE]
  /\ m_mutex = NoThread /\ m_thread = FALSE
  /\ pc = [t \in Threads |-> IF t = Srv THEN "none" ELSE "idle"]
  /\ hnd = [t \in Threads |-> INVALID_SOCKET]
  /\ ptr = [t \in Threads |-> NoConn]
  /\ word = [t \in Threads |-> {}]
  /\ read_set = {} /\ todo = {} /\ eof = FALSE
  /\ view = [h \in Fds |-> NoConn]
  /\ starts = 0 /\ started = FALSE /\ alive = TRUE

Registered == {h \in Fds : m_clients[h] # NoConn}

(* Thread t of the running process is at a point, and goes to another.     *)
At(t, l) == alive /\ pc[t] = l
Go(t, l) == pc' = [pc EXCEPT ![t] = l]

(* Mutant of Back: publishDisconnected() does not follow deleteClient().   *)
BackSilently(t) == IF t # Srv THEN "idle" ELSE "callback"

(* Where an operation called by t returns to: an application thread, the   *)
(* disconnect path of serverTask, or the callback that called it.          *)
Back(t) == IF t # Srv THEN "idle" ELSE IF eof THEN "gone" ELSE "callback"

(* Thread t returns with its local handle: only serverTask has a use for   *)
(* the handle after the call.                                              *)
Forget(t) == hnd' = IF t = Srv THEN hnd ELSE [hnd EXCEPT ![t] = INVALID_SOCKET]

(* t is about to call a public operation.                                  *)
MayCall(t, op) ==
  \/ t \in AppThreads /\ At(t, "idle") /\ op \in AppCalls
  \/ t = Srv /\ At(t, "callback") /\ op \in CbCalls

(* Mutant of Lock: the lock_guard is missing.                              *)
NoLock(t) == UNCHANGED m_mutex

Lock(t) == m_mutex = NoThread /\ m_mutex' = t
Unlock == m_mutex' = NoThread

(* Mutants of FD_SET and FD_CLR: the call is missing.                      *)
NoSet(f, fds) == fds
NoClear(f, fds) == fds

FD_SET(f, fds) == fds \cup {f}
FD_CLR(f, fds) == fds \ {f}

-----------------------------------------------------------------------------
(* start()                                                                 *)

StartCall ==
  /\ At(Owner, "idle") /\ starts < MaxStarts
  /\ starts' = starts + 1
  /\ UNCHANGED <<table, locals, m_stop, m_mutex>>

(* Initialize() fails and nothing changes, or socket() fails and m_sockfd  *)
(* becomes INVALID_SOCKET.                                                 *)
StartNoSocket ==
  /\ StartCall
  /\ m_sockfd' \in {m_sockfd, INVALID_SOCKET}
  /\ started' = FALSE
  /\ UNCHANGED <<kernelVars, m_fds, m_thread, pc, alive>>

(* setsockopt(), bind() or listen() fails: the new socket stays open.      *)
StartSetupFails(f) ==
  /\ StartCall
  /\ LowestFree(f)
  /\ fdt' = [fdt EXCEPT ![f] = "sock"]
  /\ m_sockfd' = f
  /\ started' = FALSE
  /\ UNCHANGED <<streamVars, m_fds, m_thread, pc, alive>>

(* Success: m_fds is reset to the accept socket and the thread started.    *)
(* Assigning to a joinable std::thread terminates the process.             *)
StartSucceeds(f) ==
  /\ StartCall
  /\ LowestFree(f)
  /\ fdt' = [fdt EXCEPT ![f] = "listen"]
  /\ m_sockfd' = f /\ m_fds' = FD_SET(f, {})
  /\ IF m_thread
     THEN alive' = FALSE /\ started' = FALSE /\ UNCHANGED <<m_thread, pc>>
     ELSE m_thread' = TRUE /\ started' = TRUE /\ Go(Srv, "loop") /\ UNCHANGED alive
  /\ UNCHANGED streamVars

start == StartNoSocket \/ \E f \in Fds : StartSetupFails(f) \/ StartSucceeds(f)

-----------------------------------------------------------------------------
(* deleteClient(): close the socket, take it out of m_fds, erase it.  The  *)
(* lock is held throughout, but serverTask reads and writes m_fds and the  *)
(* kernel's table without it, so the three are steps of their own, and     *)
(* FD_CLR is a read and a write of the set.                                *)

deleteClient(t, h) ==
  /\ m_mutex = NoThread
  /\ IF h \in Registered
     THEN /\ Lock(t)
          /\ hnd' = [hnd EXCEPT ![t] = h]
          /\ Go(t, "delClose")
     ELSE /\ Go(t, Back(t))
          /\ UNCHANGED <<m_mutex, hnd>>
  /\ UNCHANGED <<kernelVars, lifecycle, table, m_fds, ptr, word, read_set, todo, eof>>

DeleteCall(t, h) == MayCall(t, "deleteClient") /\ deleteClient(t, h)

DeleteClose(t) ==
  /\ At(t, "delClose")
  /\ Close({hnd[t]})
  /\ Go(t, "delClr")
  /\ UNCHANGED <<lifecycle, table, locals, m_fds, m_mutex>>

DeleteClrRead(t) ==
  /\ At(t, "delClr")
  /\ word' = [word EXCEPT ![t] = m_fds]
  /\ Go(t, "delClrW")
  /\ UNCHANGED <<shared, hnd, ptr, read_set, todo, eof>>

DeleteClrWrite(t) ==
  /\ At(t, "delClrW")
  /\ m_fds' = FD_CLR(hnd[t], word[t])
  /\ word' = [word EXCEPT ![t] = {}]
  /\ Go(t, "delErase")
  /\ UNCHANGED <<kernelVars, lifecycle, table, m_mutex, hnd, ptr, read_set, todo, eof>>

(* Mutant of DeleteErase: the lock is not released.                        *)
EraseKeepsLock(t) ==
  /\ At(t, "delErase")
  /\ m_clients' = [m_clients EXCEPT ![hnd[t]] = NoConn]
  /\ view' = IF t = Srv /\ eof THEN view ELSE [view EXCEPT ![hnd[t]] = NoConn]
  /\ Forget(t) /\ Go(t, Back(t))
  /\ UNCHANGED <<kernelVars, lifecycle, m_fds, m_isConnected, m_mutex>>
  /\ UNCHANGED <<ptr, word, read_set, todo, eof>>

(* The application forgets a client it deletes itself; the server's own    *)
(* deletion reaches it through onClientDisconnect().                       *)
DeleteErase(t) ==
  /\ At(t, "delErase")
  /\ m_clients' = [m_clients EXCEPT ![hnd[t]] = NoConn]
  /\ view' = IF t = Srv /\ eof THEN view ELSE [view EXCEPT ![hnd[t]] = NoConn]
  /\ Unlock
  /\ Forget(t) /\ Go(t, Back(t))
  /\ UNCHANGED <<kernelVars, lifecycle, m_fds, m_isConnected, ptr, word, read_set, todo, eof>>

-----------------------------------------------------------------------------
(* sendBcast(): under the lock, one send() per client in the unspecified   *)
(* order of the map, up to the first failure.                              *)

sendBcast(t) ==
  /\ MayCall(t, "sendBcast") /\ Lock(t)
  /\ todo' = Registered
  /\ Go(t, "bcast")
  /\ UNCHANGED <<kernelVars, lifecycle, table, m_fds, hnd, ptr, word, read_set, eof>>

BcastSend(t) ==
  /\ At(t, "bcast")
  /\ \/ /\ todo = {}
        /\ todo' = {} /\ UNCHANGED kernelVars
     \/ \E h \in todo, success \in BOOLEAN :
          /\ Send(h, success)
          /\ todo' = IF success THEN todo \ {h} ELSE {}
  /\ IF todo' = {} THEN Unlock /\ Go(t, Back(t)) ELSE UNCHANGED <<m_mutex, pc>>
  /\ UNCHANGED <<lifecycle, table, m_fds, hnd, ptr, word, read_set, eof>>

-----------------------------------------------------------------------------
(* sendClientMessage(): the Client is looked up under the lock and used    *)
(* after it is released.  An unknown handle is an error and changes        *)
(* nothing.                                                                *)

sendClientMessage(t, h) ==
  /\ MayCall(t, "sendClientMessage") /\ m_mutex = NoThread
  /\ h \in Registered
  /\ hnd' = [hnd EXCEPT ![t] = h]
  /\ ptr' = [ptr EXCEPT ![t] = m_clients[h]]
  /\ Go(t, "send")
  /\ UNCHANGED <<shared, word, read_set, todo, eof>>

(* Mutant of Sockfd: the constructor of Client leaves m_sockfd unset.      *)
AnySockfd(t, f) == TRUE

(* The m_sockfd that t reads through its Client pointer: the handle while  *)
(* the Client exists, and anything once it has been freed.                 *)
Sockfd(t, f) == m_clients[hnd[t]] = ptr[t] => f = hnd[t]

(* Client::sendMsg(); with INVALID_SOCKET in a freed Client it does        *)
(* nothing.                                                                *)
ClientSendMsg(t) ==
  /\ At(t, "send")
  /\ \/ \E f \in Fds, success \in BOOLEAN : Sockfd(t, f) /\ Send(f, success)
     \/ m_clients[hnd[t]] # ptr[t] /\ UNCHANGED kernelVars
  /\ ptr' = [ptr EXCEPT ![t] = NoConn]
  /\ Forget(t) /\ Go(t, Back(t))
  /\ UNCHANGED <<lifecycle, table, m_fds, m_mutex, word, read_set, todo, eof>>

-----------------------------------------------------------------------------
(* finish(): stop the thread and wait for it, then close every socket.     *)
(* Called from a callback, join() throws and the exception is swallowed.   *)

finish(t) ==
  /\ MayCall(t, "finish") /\ t \in {Owner, Srv}
  /\ m_stop' = TRUE /\ started' = FALSE
  /\ Go(t, IF m_thread /\ t # Srv THEN "join" ELSE "closeAll")
  /\ UNCHANGED <<kernelVars, table, locals, m_sockfd, m_fds, m_mutex, m_thread, starts, alive>>

FinishJoin(t) ==
  /\ At(t, "join") /\ At(Srv, "exit")
  /\ m_thread' = FALSE
  /\ pc' = [pc EXCEPT ![t] = "closeAll", ![Srv] = "none"]
  /\ UNCHANGED <<kernelVars, table, locals, m_fds, m_mutex>>
  /\ UNCHANGED <<m_sockfd, m_stop, starts, started, alive>>

(* Mutants of OwnedFds: the accept socket is left open; every descriptor   *)
(* in m_fds is closed.                                                     *)
ClientFds == Registered
WatchedFds == m_fds

(* The descriptors finish() closes.                                        *)
OwnedFds == Registered \cup ({m_sockfd} \ {INVALID_SOCKET})

(* Mutant of FinishClose: m_clients is not cleared.                        *)
CloseKeepsClients(t) ==
  /\ At(t, "closeAll") /\ m_mutex = NoThread
  /\ Close(OwnedFds)
  /\ m_sockfd' = INVALID_SOCKET
  /\ Go(t, Back(t))
  /\ UNCHANGED <<table, locals, m_fds, m_stop, m_mutex, m_thread, starts, started, alive>>

FinishClose(t) ==
  /\ At(t, "closeAll") /\ m_mutex = NoThread
  /\ Close(OwnedFds)
  /\ m_sockfd' = INVALID_SOCKET
  /\ m_clients' = [h \in Fds |-> NoConn]
  /\ view' = [h \in Fds |-> NoConn]
  /\ Go(t, Back(t))
  /\ UNCHANGED <<locals, m_fds, m_stop, m_isConnected, m_mutex, m_thread, starts, started, alive>>

-----------------------------------------------------------------------------
(* serverTask(): the select() loop.                                        *)

(* Mutant of LoopTest: m_stop is not looked at.                            *)
LoopForever ==
  /\ At(Srv, "loop")
  /\ Go(Srv, "copy")
  /\ UNCHANGED <<shared, locals>>

LoopTest ==
  /\ At(Srv, "loop")
  /\ Go(Srv, IF m_stop THEN "exit" ELSE "copy")
  /\ UNCHANGED <<shared, locals>>

CopyFds ==
  /\ At(Srv, "copy")
  /\ read_set' = m_fds
  /\ Go(Srv, "max")
  /\ UNCHANGED <<shared, hnd, ptr, word, todo, eof>>

(* Another thread is changing m_clients; findMaxFd() does not take the     *)
(* lock and may then read anything.                                        *)
TableRace == \E t \in AppThreads : At(t, "delErase")

(* findMaxFd() bounds what select() and the scan look at: the descriptors  *)
(* up to the largest of the accept socket's and the clients'.              *)
findMaxFd ==
  /\ At(Srv, "max")
  /\ \E top \in Fds \cup {INVALID_SOCKET} :
       /\ \/ TableRace
          \/ /\ top \in Registered \cup {m_sockfd}
             /\ \A g \in Registered \cup {m_sockfd} : g <= top
       /\ read_set' = {f \in read_set : f <= top}
  /\ Go(Srv, "select")
  /\ UNCHANGED <<shared, hnd, ptr, word, todo, eof>>

(* Mutant of Ready: the scan does not look at what select() reported.      *)
Everything(fds) == fds

Ready(fds) == {f \in fds : Readable(f)}

(* select() fails on a closed descriptor and times out when none is ready. *)
(* Descriptors of other code may be ready or not.                          *)
Select ==
  /\ At(Srv, "select")
  /\ \/ /\ \E f \in read_set : fdt[f] = "free"
        /\ read_set' = {}
     \/ /\ \A f \in read_set : fdt[f] # "free"
        /\ \E other \in SUBSET {f \in read_set : fdt[f] = "foreign"} :
             read_set' = Ready(read_set) \cup other
  /\ Go(Srv, IF read_set' = {} THEN "loop" ELSE "scan")
  /\ UNCHANGED <<shared, hnd, ptr, word, todo, eof>>

ScanEnds ==
  /\ At(Srv, "scan") /\ read_set = {}
  /\ Go(Srv, "loop")
  /\ UNCHANGED <<shared, locals>>

(* The next ready descriptor in increasing order: a client's if m_clients  *)
(* has it, and taken for the accept socket if not.                         *)
ScanNext(f) ==
  /\ At(Srv, "scan") /\ m_mutex = NoThread
  /\ f \in read_set /\ \A g \in read_set : f <= g
  /\ read_set' = read_set \ {f}
  /\ hnd' = [hnd EXCEPT ![Srv] = f]
  /\ ptr' = [ptr EXCEPT ![Srv] = m_clients[f]]
  /\ Go(Srv, IF f \in Registered THEN "recv" ELSE "accept")
  /\ UNCHANGED <<shared, word, todo, eof>>

(* recv() returned less than 1.                                            *)
Lost(outcome) == outcome # "data"

(* Mutant of AfterRecvPoint: an end of stream is handled like an error.    *)
EofIsError(outcome) == IF outcome = "data" THEN "publish" ELSE "scan"

AfterRecvPoint(outcome) ==
  CASE outcome = "data" -> "publish" [] outcome = "eof" -> "eof" [] outcome = "err" -> "scan"

(* What follows a recv(): data are to be published; otherwise the Client   *)
(* is marked, and after an end of stream to be deleted.  The Client may be *)
(* gone by now; no later Client can be at its address yet, because only    *)
(* this thread makes them.  The pointer is kept, without being used, until *)
(* the application hears of the client.                                    *)
AfterRecv(outcome) ==
  /\ Go(Srv, AfterRecvPoint(outcome))
  /\ m_isConnected' = IF Lost(outcome) THEN [m_isConnected EXCEPT ![ptr[Srv]] = FALSE]
                      ELSE m_isConnected
  /\ ptr' = IF outcome = "err" THEN [ptr EXCEPT ![Srv] = NoConn] ELSE ptr
  /\ hnd' = IF outcome = "err" THEN [hnd EXCEPT ![Srv] = INVALID_SOCKET] ELSE hnd
  /\ eof' = (outcome = "eof")
  /\ UNCHANGED <<lifecycle, m_fds, m_clients, m_mutex, view, word, read_set, todo>>

RecvOn(c) ==
  \/ RecvData(c) /\ AfterRecv("data")
  \/ RecvEof(c) /\ AfterRecv("eof")
  \/ RecvErr(c) /\ AfterRecv("err")

(* recv() on the descriptor as it is now: an error if it was closed in the *)
(* meantime, anything if other code has it.                                *)
RecvClient ==
  LET file == fdt[hnd[Srv]] IN
  /\ At(Srv, "recv")
  /\ \/ file \in Conns /\ RecvOn(file)
     \/ file \in Files /\ UNCHANGED kernelVars /\ AfterRecv("err")
     \/ file = "foreign" /\ UNCHANGED kernelVars /\ AfterRecv("data")
     \/ file = "foreign" /\ UNCHANGED kernelVars /\ AfterRecv("eof")

(* The socket is a blocking one: with nothing to read, recv() waits; on a  *)
(* file of other code it may wait.                                         *)
RecvBlocks ==
  /\ At(Srv, "recv")
  /\ \/ fdt[hnd[Srv]] \in Conns /\ ~Readable(hnd[Srv])
     \/ fdt[hnd[Srv]] = "foreign"
  /\ Go(Srv, "blocked")
  /\ UNCHANGED <<shared, locals>>

RecvWakes ==
  /\ At(Srv, "blocked") /\ stage[ptr[Srv]] = "open"
  /\ RecvOn(ptr[Srv])

(* deleteClient() does not wake it; the peer of the closed socket may, or  *)
(* whoever writes to the other code's file.                                *)
RecvWakesLate ==
  /\ At(Srv, "blocked") /\ stage[ptr[Srv]] = "closed"
  /\ UNCHANGED kernelVars
  /\ \E outcome \in {"data", "eof", "err"} : AfterRecv(outcome)

(* onReceiveClientData(): the application hears of the data, under the     *)
(* handle, whether or not it still has the client.                         *)
publishClientMsg ==
  /\ At(Srv, "publish")
  /\ ptr' = [ptr EXCEPT ![Srv] = NoConn]
  /\ Go(Srv, "callback")
  /\ UNCHANGED <<shared, hnd, word, read_set, todo, eof>>

(* Mutant of DeleteGone: the end is reported without deleteClient().       *)
ReportGone ==
  /\ At(Srv, "eof")
  /\ Go(Srv, "gone")
  /\ UNCHANGED <<shared, locals>>

DeleteGone == At(Srv, "eof") /\ deleteClient(Srv, hnd[Srv])

(* onClientDisconnect(): the application erases the handle.                *)
publishDisconnected ==
  /\ At(Srv, "gone")
  /\ eof' = FALSE
  /\ view' = [view EXCEPT ![hnd[Srv]] = NoConn]
  /\ ptr' = [ptr EXCEPT ![Srv] = NoConn]
  /\ Go(Srv, "callback")
  /\ UNCHANGED <<kernelVars, lifecycle, m_fds, m_clients, m_isConnected, m_mutex>>
  /\ UNCHANGED <<hnd, word, read_set, todo>>

(* Mutants of AcceptFails: the result of accept() is not tested; a failure *)
(* ends serverTask.                                                        *)
AcceptUntested ==
  /\ At(Srv, "accept")
  /\ fdt[hnd[Srv]] # "listen" \/ \A f \in Fds : fdt[f] # "free"
  /\ hnd' = [hnd EXCEPT ![Srv] = INVALID_SOCKET]
  /\ Go(Srv, "fdset")
  /\ UNCHANGED <<shared, ptr, word, read_set, todo, eof>>

AcceptFatal ==
  /\ At(Srv, "accept")
  /\ fdt[hnd[Srv]] # "listen" \/ \A f \in Fds : fdt[f] # "free"
  /\ hnd' = [hnd EXCEPT ![Srv] = INVALID_SOCKET]
  /\ read_set' = {}
  /\ Go(Srv, "exit")
  /\ UNCHANGED <<shared, ptr, word, todo, eof>>

(* accept() fails on anything but the accept socket, and when the process  *)
(* has no descriptor left.                                                 *)
AcceptFails ==
  /\ At(Srv, "accept")
  /\ \/ fdt[hnd[Srv]] # "listen"
     \/ \A f \in Fds : fdt[f] # "free"
  /\ hnd' = [hnd EXCEPT ![Srv] = INVALID_SOCKET]
  /\ Go(Srv, "scan")
  /\ UNCHANGED <<shared, ptr, word, read_set, todo, eof>>

AcceptClient(c, f) ==
  /\ At(Srv, "accept") /\ fdt[hnd[Srv]] = "listen"
  /\ Accept(c, f)
  /\ hnd' = [hnd EXCEPT ![Srv] = f]
  /\ ptr' = [ptr EXCEPT ![Srv] = c]
  /\ Go(Srv, "emplace")
  /\ UNCHANGED <<lifecycle, table, m_fds, m_mutex, word, read_set, todo, eof>>

(* emplace() does nothing when the handle is already in the map.           *)
EmplaceClient ==
  /\ At(Srv, "emplace") /\ m_mutex = NoThread
  /\ IF hnd[Srv] \in Registered
     THEN UNCHANGED <<m_clients, m_isConnected>>
     ELSE /\ m_clients' = [m_clients EXCEPT ![hnd[Srv]] = ptr[Srv]]
          /\ m_isConnected' = [m_isConnected EXCEPT ![ptr[Srv]] = TRUE]
  /\ Go(Srv, "fdset")
  /\ UNCHANGED <<kernelVars, lifecycle, locals, m_fds, m_mutex, view>>

(* FD_SET, outside the lock: a read and a write of the set.                *)
FdSetRead ==
  /\ At(Srv, "fdset")
  /\ word' = [word EXCEPT ![Srv] = m_fds]
  /\ Go(Srv, "fdsetW")
  /\ UNCHANGED <<shared, hnd, ptr, read_set, todo, eof>>

(* Mutant of FdSetWrite: publishClientConnect() does not follow it.        *)
FdSetUnpublished ==
  /\ At(Srv, "fdsetW")
  /\ m_fds' = FD_SET(hnd[Srv], word[Srv])
  /\ word' = [word EXCEPT ![Srv] = {}]
  /\ Go(Srv, "scan")
  /\ UNCHANGED <<kernelVars, lifecycle, table, m_mutex, hnd, ptr, read_set, todo, eof>>

FdSetWrite ==
  /\ At(Srv, "fdsetW")
  /\ m_fds' = FD_SET(hnd[Srv], word[Srv])
  /\ word' = [word EXCEPT ![Srv] = {}]
  /\ Go(Srv, "connect")
  /\ UNCHANGED <<kernelVars, lifecycle, table, m_mutex, hnd, ptr, read_set, todo, eof>>

(* onClientConnect(): the application registers the handle if              *)
(* getClientInfo() knows it.                                               *)
publishClientConnect ==
  /\ At(Srv, "connect") /\ m_mutex = NoThread
  /\ view' = IF hnd[Srv] \in Registered
             THEN [view EXCEPT ![hnd[Srv]] = m_clients[hnd[Srv]]] ELSE view
  /\ Go(Srv, "callback")
  /\ UNCHANGED <<kernelVars, lifecycle, locals, m_fds, m_clients, m_isConnected, m_mutex>>

CallbackReturns ==
  /\ At(Srv, "callback")
  /\ ptr' = [ptr EXCEPT ![Srv] = NoConn]
  /\ hnd' = [hnd EXCEPT ![Srv] = INVALID_SOCKET]
  /\ Go(Srv, "scan")
  /\ UNCHANGED <<shared, word, read_set, todo, eof>>

-----------------------------------------------------------------------------
(* The specification.                                                      *)

(* An operation is called; one that was called goes on.                    *)
Call(t) ==
  \/ \E h \in Fds : DeleteCall(t, h) \/ sendClientMessage(t, h)
  \/ sendBcast(t)
  \/ finish(t)

Continue(t) ==
  \/ DeleteClose(t) \/ DeleteClrRead(t) \/ DeleteClrWrite(t) \/ DeleteErase(t)
  \/ BcastSend(t)
  \/ ClientSendMsg(t)
  \/ FinishJoin(t) \/ FinishClose(t)

serverTask ==
  \/ LoopTest \/ CopyFds \/ findMaxFd \/ Select \/ ScanEnds
  \/ \E f \in Fds : ScanNext(f)
  \/ RecvClient \/ RecvBlocks \/ RecvWakes \/ publishClientMsg
  \/ DeleteGone \/ publishDisconnected
  \/ AcceptFails \/ \E c \in Conns, f \in Fds : AcceptClient(c, f)
  \/ EmplaceClient \/ FdSetRead \/ FdSetWrite \/ publishClientConnect

Environment ==
  /\ Peers \/ \E f \in Fds : ForeignOpen(f) \/ ForeignClose(f)
  /\ UNCHANGED <<lifecycle, table, locals, m_fds, m_mutex, pc>>

(* The process has been terminated, or nothing is under way in it.         *)
Rest ==
  /\ \/ ~alive
     \/ pc[Srv] \in {"none", "exit"} /\ \A t \in AppThreads : At(t, "idle")
  /\ UNCHANGED vars

Next ==
  \/ start
  \/ \E t \in Threads : Call(t) \/ Continue(t)
  \/ serverTask \/ RecvWakesLate \/ CallbackReturns
  \/ Environment
  \/ Rest

Spec == Init /\ [][Next]_vars

(* Every thread that can go on does, callbacks return, and a thread that   *)
(* waits for m_mutex gets it when it is free again and again.  Nothing is  *)
(* assumed of the peers, or that the application calls anything.           *)
Fairness ==
  /\ SF_vars(serverTask)
  /\ SF_vars(CallbackReturns)
  /\ \A t \in Threads : SF_vars(Continue(t))

FairSpec == Spec /\ Fairness

-----------------------------------------------------------------------------
(* Type correctness of the class's members, the threads and the kernel.    *)
TypeOK ==
  /\ KernelTypeOK
  /\ m_sockfd \in Fds \cup {INVALID_SOCKET}
  /\ m_fds \subseteq Fds /\ read_set \subseteq Fds /\ todo \subseteq Fds
  /\ m_clients \in [Fds -> Conns \cup {NoConn}]
  /\ view \in [Fds -> Conns \cup {NoConn}]
  /\ m_isConnected \in [Conns -> BOOLEAN]
  /\ m_mutex \in Threads \cup {NoThread}
  /\ m_stop \in BOOLEAN /\ m_thread \in BOOLEAN /\ eof \in BOOLEAN
  /\ started \in BOOLEAN /\ alive \in BOOLEAN
  /\ pc \in [Threads -> Points]
  /\ hnd \in [Threads -> Fds \cup {INVALID_SOCKET}]
  /\ ptr \in [Threads -> Conns \cup {NoConn}]
  /\ word \in [Threads -> SUBSET Fds]
  /\ starts \in 0..MaxStarts

(* A registered handle is the descriptor of its own client's connection,   *)
(* except between the Close() and the erase() of deleteClient(), whoever   *)
(* calls it and whatever descriptors are opened and closed meanwhile.      *)
HandleOwnsSocket ==
  \A h \in Registered :
    \/ fdt[h] = m_clients[h]
    \/ \E t \in Threads : pc[t] \in DeletePoints \ {"delClose"} /\ hnd[t] = h

(* The inductive strengthening of HandleOwnsSocket: how the descriptor     *)
(* table, the register, the lock and the threads' positions agree.         *)

(* A connection has at most one descriptor, from its accept() on, and is   *)
(* not in m_clients before that.                                           *)
ConnectionOnce ==
  /\ \A f, g \in Fds : fdt[f] \in Conns /\ fdt[f] = fdt[g] => f = g
  /\ \A f \in Fds : fdt[f] \in Conns => stage[fdt[f]] = "open"
  /\ \A h \in Registered : stage[m_clients[h]] \in {"open", "closed"}

(* m_sockfd is an open socket that start() made, or INVALID_SOCKET.        *)
SockfdOpen == m_sockfd # INVALID_SOCKET => fdt[m_sockfd] \in {"sock", "listen"}

(* m_mutex is held exactly by the thread that is inside deleteClient() or  *)
(* sendBcast(), and what deleteClient() works on stays registered.         *)
LockHeld ==
  \A t \in Threads :
    /\ m_mutex = t <=> pc[t] \in DeletePoints \cup {"bcast"}
    /\ pc[t] \in DeletePoints => hnd[t] \in Registered

(* What serverTask has accepted and is about to register is new.           *)
AcceptedIsNew ==
  /\ pc[Srv] \in {"emplace", "fdset", "fdsetW", "connect"} => hnd[Srv] \in Fds
  /\ pc[Srv] = "emplace" => /\ ptr[Srv] \in Conns /\ fdt[hnd[Srv]] = ptr[Srv]
                            /\ \A h \in Fds : m_clients[h] # ptr[Srv]

(* Only serverTask is inside the loop and only its owner joins it; nobody  *)
(* else closes all sockets while it runs.                                  *)
ThreadRoles ==
  /\ \A t \in AppThreads : pc[t] \in CallPoints \cup {"idle"}
  /\ \A t \in AppThreads : pc[t] \in {"join", "closeAll"} => t = Owner
  /\ pc[Srv] \in LoopPoints \cup (CallPoints \ {"join"})
  /\ ~m_thread \/ pc[Owner] = "closeAll" => pc[Srv] = "none"

Ownership == ConnectionOnce /\ SockfdOpen /\ LockHeld /\ AcceptedIsNew /\ ThreadRoles

(* The emplace() of serverTask always inserts: a descriptor that accept()  *)
(* has reused is no longer registered once the lock is held.               *)
NewClientRegistered ==
  At(Srv, "emplace") /\ m_mutex = NoThread => hnd[Srv] \notin Registered

(* No step of the library closes a descriptor of other code: a handle or   *)
(* the accept socket is closed once, however deleteClient(), finish() and  *)
(* reuse of descriptor numbers interleave.                                 *)
ClosesOnlyItsOwn ==
  [][pc' # pc => \A f \in Fds : fdt[f] = "foreign" => fdt'[f] = "foreign"]_vars

(* What the application learnt from its callbacks and its own deletions is *)
(* what the server has registered, except for a client that serverTask is  *)
(* about to announce or to report as gone.                                 *)
RegisterInStep ==
  \A h \in Fds :
    \/ view[h] = m_clients[h]
    \/ hnd[Srv] = h /\ view[h] = NoConn /\ pc[Srv] \in {"fdset", "fdsetW", "connect"}
    \/ hnd[Srv] = h /\ m_clients[h] = NoConn /\ pc[Srv] = "gone"

(* Data are delivered under the handle by which the application knows the  *)
(* connection they came from.                                              *)
DataAttribution ==
  [][\A c \in Conns :
       stage'[c] = "open" /\ unread'[c] < unread[c] =>
         hnd[Srv] \in Fds /\ view[hnd[Srv]] = c /\ m_clients[hnd[Srv]] = c]_vars

(* sendClientMessage() sends to the client it looked up, or to nobody.     *)
SendReachesItsClient ==
  [][\A t \in Threads, c \in Conns :
       At(t, "send") /\ pc'[t] # "send" /\ outq'[c] > outq[c] => c = ptr[t]]_vars

(* Between two rounds of serverTask m_fds is the accept socket and the     *)
(* sockets of the clients: each is watched, and nothing else is.           *)
WatchSetExact ==
  At(Srv, "loop") /\ m_mutex = NoThread => m_fds = {m_sockfd} \cup Registered

(* serverTask never waits in recv(): it is called on a client socket that  *)
(* has something to read.                                                  *)
RecvNeverBlocks == ~At(Srv, "blocked")

(* When finish() returns, every descriptor that start() or accept() opened *)
(* has been closed.                                                        *)
FinishReleasesAll ==
  [][\A t \in Threads : At(t, "closeAll") /\ pc'[t] # "closeAll" =>
       \A f \in Fds : fdt'[f] \in {"free", "foreign"}]_vars

(* finish() returns: the server thread comes to its shutdown check.        *)
FinishReturns == At(Owner, "join") ~> At(Owner, "idle")

(* Once start() has reported success and until finish() is called, a       *)
(* connection that waits on the accept socket is taken and announced.      *)
StartedServes ==
  \A c \in Conns :
    alive /\ started /\ stage[c] = "queued"
      ~> ~alive \/ ~started \/ \E h \in Fds : view[h] = c

(* The same until m_stop is set for the first time, unless the process     *)
(* comes to be out of descriptors for good because of clients that stay:   *)
(* an accept() that fails for lack of one is tried again.                  *)
ServesUntilStop ==
  LET Full == \A f \in Fds : fdt[f] # "free" /\ (fdt[f] \in Conns => peer[fdt[f]] = "up")
  IN \A c \in Conns :
       started /\ ~m_stop /\ stage[c] = "queued"
         ~> m_stop \/ (\E h \in Fds : view[h] = c) \/ []Full

(* The application is told that a client's peer has gone, by an end of     *)
(* stream or by a reset, unless it drops the client or the server itself.  *)
DisconnectNoticed ==
  \A c \in Conns : peer[c] # "up" /\ stage[c] = "open" ~> \A h \in Fds : view[h] # c
-----------------------------------------------------------------------------
(* The refinement: the register is what the application has been told, a   *)
(* connection is over when it is closed and the application knows, and the *)
(* event is what serverTask holds between select() and the callback.       *)

Phase(c) ==
  LET told == \E h \in Fds : view[h] = c
  IN IF stage[c] = "closed" THEN IF told THEN "ending" ELSE "over"
     ELSE IF told THEN "open" ELSE "fresh"

Found ==
  IF pc[Srv] \in {"recv", "blocked"} THEN "look"
  ELSE IF pc[Srv] = "publish" THEN "data"
  ELSE IF eof THEN "end" ELSE "nothing"

Event ==
  [handle |-> IF Found = "nothing" THEN INVALID_SOCKET ELSE hnd[Srv],
   conn |-> IF Found = "nothing" THEN NoConn ELSE ptr[Srv],
   what |-> Found]

Abstract == INSTANCE Session WITH
  Handles <- Fds,
  NoHandle <- INVALID_SOCKET,
  register <- view,
  phase <- [c \in Conns |-> Phase(c)],
  inbound <- unread,
  event <- Event

(* The server implements Session: whatever threads and callbacks do, a     *)
(* connection is announced once, under a handle the application has no     *)
(* other client for; a callback is about a connection the application had  *)
(* when select() reported it, and its handle means no other connection; a  *)
(* client the application has deleted is heard of at most once more.       *)
ImplementsSession == Abstract!Spec
=============================================================================
