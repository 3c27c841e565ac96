\* sendBcast() to a peer that stops reading, then finish().
SPECIFICATION FairSpec
CONSTANTS
  Fds = {3, 4}
  Conns = {c1}
  MaxUnread = 1
  SndCap = 1
  MaxForeign = 0
  main = main
  worker = worker
  AppThreads = {main, worker}
  Owner = main
  AppCalls = {"sendBcast", "finish"}
  CbCalls = {}
  MaxStarts = 1
PROPERTY FinishReturns
