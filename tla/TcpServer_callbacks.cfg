\* One application thread; everything but start() and finish() is called from callbacks.
SPECIFICATION Spec
CONSTANTS
  Fds = {3, 4, 5}
  Conns = {c1, c2, c3}
  MaxUnread = 1
  SndCap = 1
  MaxForeign = 0
  main = main
  worker = worker
  AppThreads = {main}
  Owner = main
  AppCalls = {"finish"}
  CbCalls = {"deleteClient", "sendClientMessage", "sendBcast"}
  MaxStarts = 1
SYMMETRY Symmetry
INVARIANTS
  TypeOK
  WatchSetExact
  RecvNeverBlocks
PROPERTIES
  SendReachesItsClient
  FinishReleasesAll
