------------------------------ MODULE ClientApp ------------------------------
(***************************************************************************)
(* The client program of clientApp.cpp: the ClientApp object composed with *)
(* its TcpClient.  The main thread (Owner) connects, sends what the user   *)
(* types and destroys the client on "quit"; onDisconnect(), on the receive *)
(* thread, ends the program.                                               *)
(***************************************************************************)
EXTENDS TcpClient

VARIABLE app   (* where the program is                                     *)

allVars == <<vars, app>>

(* The program is over: it ended itself, or a signal ended it.             *)
Over == app \in {"exited", "killed"}

AppInit == Init /\ app = "construct"

MainAt(a) == app = a /\ At(Owner, "idle")

(* The process ends and the kernel closes its descriptors.                 *)
Exit(how) ==
  /\ app' = how /\ alive' = FALSE
  /\ Close(Fds)
  /\ UNCHANGED <<m_sockfd, m_stop, m_thread, session, connects, pc, fd, dial, gone>>

-----------------------------------------------------------------------------
(* The main thread.                                                        *)

Construct ==
  /\ MainAt("construct") /\ connectTo(Owner)
  /\ app' = "connecting"

(* connect() returns success: the connection is made.                      *)
Connected(t, c) == dial[t] = c /\ ConnectEstablished(t) /\ UNCHANGED app

(* connectTo() starts the receive thread and returns success.              *)
Launch == ConnectThread(Owner) /\ app' = "prompt"

(* connectTo() has returned a failure: the constructor calls exit(1).      *)
GiveUp == MainAt("connecting") /\ Exit("exited")

SendLine == MainAt("prompt") /\ sendMsg(Owner) /\ UNCHANGED app

(* "quit": delete app, whose TcpClient calls finish() as it is destroyed.  *)
Quit ==
  /\ app = "prompt" /\ finish(Owner)
  /\ app' = "quit"

MainReturns == MainAt("quit") /\ Exit("exited")

(* send() to a server that is gone may raise SIGPIPE, which ends the       *)
(* program.                                                                *)
BrokenPipe ==
  /\ \E t \in Threads : /\ At(t, "send") /\ fd[t] \in Fds
                        /\ fdt[fd[t]] \in Conns /\ peer[fdt[fd[t]]] # "up"
  /\ Exit("killed")

-----------------------------------------------------------------------------
(* The callbacks.                                                          *)

(* Mutant of onDisconnect: it calls finish() and lets the user go on.      *)
FinishHere ==
  /\ At(Rcv, "callback") /\ gone
  /\ IF m_sockfd = INVALID_SOCKET
     THEN CallbackReturns
     ELSE /\ Go(Rcv, "close") /\ m_stop' = TRUE /\ session' = NoConn
          /\ UNCHANGED <<kernelVars, m_sockfd, m_thread, connects, alive, fd, dial, gone>>
  /\ UNCHANGED app

(* onDisconnect() calls exit(0).                                           *)
onDisconnect ==
  /\ At(Rcv, "callback") /\ gone
  /\ Exit("exited")

onReceiveData == ~gone /\ CallbackReturns /\ UNCHANGED app

-----------------------------------------------------------------------------
(* The program.                                                            *)

(* An operation of the client that a thread has called goes on.  Nobody    *)
(* closes m_sockfd under connectTo(), so ConnectForeign is not among its   *)
(* steps.                                                                  *)
AppContinue(t) ==
  /\ \/ ConnectNoSocket(t) \/ ConnectFails(t) \/ \E f \in Fds : ConnectSocket(t, f)
     \/ ConnectRead(t) \/ ConnectRefused(t) \/ \E c \in Conns : ConnectStarts(t, c)
     \/ SendOnFd(t)
     \/ FinishJoin(t) \/ FinishTest(t) \/ FinishClose(t) \/ FinishReset(t)
  /\ UNCHANGED app

Main == Construct \/ Launch \/ GiveUp \/ MainReturns \/ AppContinue(Owner)

User == SendLine \/ Quit

(* m_sockfd is a socket as long as this program's receive thread runs, so  *)
(* FdMacroAborts is not among its steps.                                   *)
Receiver ==
  \/ ReceiveTask /\ UNCHANGED app
  \/ onReceiveData \/ onDisconnect \/ AppContinue(Rcv)

Program == Main \/ User \/ Receiver \/ BrokenPipe

(* Other code of the process.                                              *)
Foreign ==
  /\ alive /\ \E f \in Fds : ForeignOpen(f) \/ ForeignClose(f)
  /\ UNCHANGED <<members, pc, fd, dial, gone, app>>
=============================================================================
