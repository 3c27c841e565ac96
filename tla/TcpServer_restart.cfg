\* start() after finish().
SPECIFICATION FairSpec
CONSTANTS
  Fds = {3, 4}
  Conns = {c1}
  MaxUnread = 1
  SndCap = 1
  MaxForeign = 0
  main = main
  worker = worker
  AppThreads = {main}
  Owner = main
  AppCalls = {"finish"}
  CbCalls = {}
  MaxStarts = 2
PROPERTY StartedServes
