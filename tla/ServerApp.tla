------------------------------ MODULE ServerApp ------------------------------
(***************************************************************************)
(* The server program of serverApp.cpp: the ServerApp object composed with *)
(* its TcpServer.  The main thread (Owner) reads commands and sends; the   *)
(* callbacks run on serverTask; both use ServerApp's m_mutex and           *)
(* m_clients, here app_mutex and app_clients.  Every step of the program   *)
(* that involves the server is a step of TcpServer with what the           *)
(* application does at that point added.                                   *)
(***************************************************************************)
EXTENDS TcpServer

VARIABLES
  app,          (* where the main thread is in the program                 *)
  app_mutex,    (* ServerApp::m_mutex                                      *)
  app_clients,  (* ServerApp::m_clients                                    *)
  upcall        (* what the callback under way has to do to m_clients      *)

appVars == <<app, app_mutex, app_clients, upcall>>
allVars == <<vars, appVars>>

AppInit ==
  /\ Init
  /\ app = "construct" /\ app_mutex = NoThread /\ app_clients = {} /\ upcall = "none"

MainAt(a) == app = a /\ At(Owner, "idle")

(* The program is ended from outside or by an error: its threads are gone  *)
(* and the kernel closes its descriptors.                                  *)
Dies ==
  /\ alive' = FALSE
  /\ pc' = [t \in Threads |-> IF t = Srv THEN "none" ELSE "idle"]
  /\ Close(Fds)
  /\ UNCHANGED <<m_sockfd, m_stop, m_thread, starts, started>>
  /\ UNCHANGED <<table, m_fds, m_mutex, locals, appVars>>

-----------------------------------------------------------------------------
(* The main thread.                                                        *)

(* The constructor starts the server; a failure is only reported.          *)
Construct ==
  /\ MainAt("construct") /\ start
  /\ app' = "prompt"
  /\ UNCHANGED <<app_mutex, app_clients, upcall>>

(* A command that is read as a number or a B and has fewer than two        *)
(* characters: substr() throws and nobody catches it.                      *)
ShortCommand ==
  /\ MainAt("prompt")
  /\ Dies

(* sendMsg() takes the mutex: index 0 is a broadcast, any other the handle *)
(* of a client in the set; an index that is not in it changes nothing.     *)
SendMsgLocks ==
  /\ MainAt("prompt") /\ app_mutex = NoThread
  /\ app_mutex' = Owner
  /\ app' \in {"sendAll"} \cup {a \in {"sendOne"} : app_clients # {}}
  /\ UNCHANGED <<vars, app_clients, upcall>>

SendMsgCalls ==
  /\ \/ MainAt("sendAll") /\ sendBcast(Owner)
     \/ MainAt("sendOne") /\ \E h \in app_clients : sendClientMessage(Owner, h)
  /\ app' = "sending"
  /\ UNCHANGED <<app_mutex, app_clients, upcall>>

(* The call has returned, or the server no longer has the client.          *)
SendMsgUnlocks ==
  /\ \/ MainAt("sending")
     \/ MainAt("sendOne") /\ m_mutex = NoThread /\ ~(app_clients \subseteq Registered)
  /\ app_mutex' = NoThread /\ app' = "prompt"
  /\ UNCHANGED <<vars, app_clients, upcall>>

(* send() to a peer that is gone raises SIGPIPE, which ends the program.   *)
BrokenPipe ==
  /\ \E f \in Fds : /\ fdt[f] \in Conns /\ peer[fdt[f]] # "up"
                    /\ \/ At(Owner, "bcast") /\ f \in todo
                       \/ At(Owner, "send") /\ Sockfd(Owner, f)
  /\ Dies

Quit ==
  /\ MainAt("prompt")
  /\ app' = "quit"
  /\ UNCHANGED <<vars, app_mutex, app_clients, upcall>>

(* Mutant of DestructorClears: the lock is held to the end.                *)
DestructorHoldsLock ==
  /\ MainAt("quit") /\ app_mutex = NoThread
  /\ app_clients' = {} /\ app_mutex' = Owner
  /\ app' = "cleared"
  /\ UNCHANGED <<vars, upcall>>

(* ~ServerApp() clears the set under the lock.  Then its members are       *)
(* destroyed, last declared first: m_mutex and m_clients, and only then    *)
(* the server, whose destructor calls finish().                            *)
DestructorClears ==
  /\ MainAt("quit") /\ app_mutex = NoThread
  /\ app_clients' = {}
  /\ app' = "cleared"
  /\ UNCHANGED <<vars, app_mutex, upcall>>

DestroyMembers ==
  /\ MainAt("cleared")
  /\ app_clients' = {}
  /\ app' = "destroyed"
  /\ UNCHANGED <<vars, app_mutex, upcall>>

DestroyServer ==
  /\ app = "destroyed" /\ finish(Owner)
  /\ app' = "finishing"
  /\ UNCHANGED <<app_mutex, app_clients, upcall>>

MainReturns ==
  /\ MainAt("finishing")
  /\ app' = "end"
  /\ UNCHANGED <<vars, app_mutex, app_clients, upcall>>

-----------------------------------------------------------------------------
(* The callbacks, on serverTask.                                           *)

(* A step of serverTask, which may begin onClientConnect() (a client that  *)
(* getClientInfo() knows is to be inserted) or onClientDisconnect().       *)
AppServerTask ==
  /\ serverTask \/ RecvWakesLate
  /\ upcall' = CASE pc[Srv] = "gone" -> "erase"
                 [] pc[Srv] = "connect" /\ hnd[Srv] \in Registered -> "insert"
                 [] OTHER -> "none"
  /\ UNCHANGED <<app, app_mutex, app_clients>>

(* Mutant of Updated: onClientDisconnect() erases nothing.                 *)
InsertOnly == IF upcall = "insert" THEN app_clients \cup {hnd[Srv]} ELSE app_clients

Updated == IF upcall = "insert" THEN app_clients \cup {hnd[Srv]} ELSE app_clients \ {hnd[Srv]}

(* Mutant of UpdateClients: the callback does not take the mutex.          *)
UpdateUnlocked ==
  /\ At(Srv, "callback") /\ upcall # "none"
  /\ app_clients' = Updated /\ upcall' = "none"
  /\ UNCHANGED <<vars, app, app_mutex>>

(* Under m_mutex the callback inserts or erases the handle.                *)
UpdateClients ==
  /\ At(Srv, "callback") /\ upcall # "none" /\ app_mutex = NoThread
  /\ app_clients' = Updated /\ upcall' = "none"
  /\ UNCHANGED <<vars, app, app_mutex>>

(* The members it uses have been destroyed: it may go on as if they had    *)
(* not, or the program may crash.                                          *)
UseDestroyed ==
  /\ At(Srv, "callback") /\ upcall # "none" /\ app \in {"destroyed", "finishing"}
  /\ Dies

AppCallbackReturns == upcall = "none" /\ CallbackReturns /\ UNCHANGED appVars

-----------------------------------------------------------------------------
(* The program.                                                            *)

AppContinue(t) == Continue(t) /\ UNCHANGED appVars

Main ==
  \/ Construct \/ SendMsgCalls \/ SendMsgUnlocks
  \/ DestructorClears \/ DestroyMembers \/ DestroyServer \/ MainReturns

User == ShortCommand \/ SendMsgLocks \/ Quit

ServerThread == AppServerTask \/ AppContinue(Srv) \/ UpdateClients \/ AppCallbackReturns

Running == alive /\ app # "end"

Program ==
  \/ Main \/ User \/ BrokenPipe
  \/ AppContinue(Owner)
  \/ ServerThread \/ UseDestroyed

AppNext ==
  \/ Program
  \/ Running /\ Environment /\ UNCHANGED appVars
  \/ ~Running /\ UNCHANGED allVars

(* Both threads go on when they can; one that waits for a mutex gets it    *)
(* when it is free again and again.  The user need not type anything, and  *)
(* nothing is assumed of the peers.                                        *)
AppSpec ==
  /\ AppInit /\ [][AppNext]_allVars
  /\ SF_allVars(ServerThread)
  /\ SF_allVars(Main \/ AppContinue(Owner))

-----------------------------------------------------------------------------
Serving == app \in {"prompt", "sendAll", "sendOne", "sending"}

(* The handles a user can send to are those of the clients the server has, *)
(* except for one whose connect or disconnect callback is still to come or *)
(* to finish.                                                              *)
ListsItsClients ==
  alive /\ Serving => \A h \in Fds :
    \/ h \in app_clients <=> h \in Registered
    \/ hnd[Srv] = h /\ (pc[Srv] \in {"gone", "fdset", "fdsetW", "connect"} \/ upcall # "none")

(* The main thread and serverTask never wait for each other's mutex: a     *)
(* callback that waits for ServerApp's mutex does not hold the server's,   *)
(* which the holder of ServerApp's mutex may be waiting for.               *)
NoLockCycle ==
  ~ /\ app_mutex = Owner /\ m_mutex = Srv
    /\ At(Srv, "callback") /\ upcall # "none"

(* While the main thread sends to a client, the client's descriptor is not *)
(* given to another one, even if serverTask has deleted the client by      *)
(* then: its callback waits for the mutex that sendMsg() holds, so the     *)
(* server accepts nobody before send() has returned.                       *)
SendKeepsItsNumber ==
  At(Owner, "send") => fdt[hnd[Owner]] \notin Conns \ {ptr[Owner]}

(* The main thread is inside a send().                                     *)
Sending == At(Owner, "send") \/ At(Owner, "bcast")

(* Quitting ends the program, normally or by the use of a destroyed        *)
(* member: the destructors neither deadlock with a callback nor wait for   *)
(* ever for serverTask.                                                    *)
QuitEnds == app = "quit" ~> app = "end" \/ ~alive

(* A client that waits to be accepted comes to be one the user can send    *)
(* to, unless the program ends or the main thread is in a send() that      *)
(* never returns, with the mutexes in its hands.                           *)
ClientListed ==
  \A c \in Conns :
    stage[c] = "queued" ~>
      (\E h \in app_clients : view[h] = c) \/ ~Serving \/ ~alive \/ []Sending
=============================================================================
