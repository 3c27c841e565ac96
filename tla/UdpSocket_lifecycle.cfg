\* Two starts of any kind, in any order with the other calls of two threads and of callbacks.
SPECIFICATION FairSpec
CONSTANTS
  Fds = {3, 4, 5}
  Conns = {}
  MaxUnread = 1
  SndCap = 1
  MaxForeign = 1
  main = main
  worker = worker
  group = group
  host = host
  Dests = {group, host}
  AppThreads = {main, worker}
  Owner = main
  AppCalls = {"startMcast", "startUnicastRemote", "startUnicast", "sendMsg", "finish"}
  CbCalls = {"sendMsg", "finish"}
  MaxStarts = 2
INVARIANTS
  TypeOK
  FdOwned
  DestinationKept
PROPERTIES
  ClosesOnlyItsOwn
  DeliveredUntilStop
  FinishReturns
