\* Progress with callbacks that delete clients, and more connections than descriptors:
\* accept() fails until a client is closed.
SPECIFICATION FairSpec
CONSTANTS
  Fds = {3, 4}
  Conns = {c1, c2, c3}
  MaxUnread = 1
  SndCap = 1
  MaxForeign = 0
  main = main
  worker = worker
  AppThreads = {main}
  Owner = main
  AppCalls = {"finish"}
  CbCalls = {"deleteClient"}
  MaxStarts = 1
PROPERTIES
  FinishReturns
  ServesUntilStop
  DisconnectNoticed
