\* Any order of calls from the owner and from callbacks, with two connectTo().
SPECIFICATION FairSpec
CONSTANTS
  Fds = {3, 4}
  Conns = {c1, c2}
  MaxUnread = 1
  SndCap = 1
  MaxForeign = 1
  main = main
  AppThreads = {main}
  Owner = main
  AppCalls = {"connectTo", "sendMsg", "finish"}
  CbCalls = {"connectTo", "sendMsg", "finish"}
  MaxConnects = 2
INVARIANTS
  TypeOK
  SockfdOwned
  SessionHeld
  RecvWaitsForConnect
  DisconnectHonest
PROPERTIES
  ClosesOnlyItsOwn
  FinishReleasesAll
  FinishReturns
  DeliveredUntilStop
  DisconnectTold
