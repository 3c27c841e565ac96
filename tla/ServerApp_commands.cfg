\* The server program with two clients: commands, callbacks and the destructors.
SPECIFICATION AppSpec
CONSTANTS
  Fds = {3, 4, 5}
  Conns = {c1, c2}
  MaxUnread = 1
  SndCap = 1
  MaxForeign = 0
  main = main
  AppThreads = {main}
  Owner = main
  AppCalls = {"sendBcast", "sendClientMessage", "finish"}
  CbCalls = {}
  MaxStarts = 1
INVARIANTS
  ListsItsClients
  NoLockCycle
  SendKeepsItsNumber
PROPERTIES
  QuitEnds
  ClientListed
