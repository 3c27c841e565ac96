\* Server program and client program over one connection: commands and sends on both
\* sides, and either program ends.
SPECIFICATION SystemSpec
CONSTANTS
  Fds = {3, 4}
  Conns = {c1}
  MaxUnread = 1
  SndCap = 1
  MaxForeign = 0
  main = main
  user = user
  AppThreads = {main}
  Owner = main
  AppCalls = {"sendBcast", "sendClientMessage", "finish"}
  CbCalls = {}
  MaxStarts = 1
  FdsOfClient = {3}
  ClientThreads = {user}
  ClientOwner = user
  ClientForeign = 1
INVARIANT SendReachesServer
PROPERTIES
  SendersNeverStall
  ClientEndSeen
  ClientEnds
