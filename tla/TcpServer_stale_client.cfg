\* sendClientMessage() from a thread while clients come and go.
SPECIFICATION Spec
CONSTANTS
  Fds = {3, 4}
  Conns = {c1, c2}
  MaxUnread = 1
  SndCap = 1
  MaxForeign = 0
  main = main
  worker = worker
  AppThreads = {main, worker}
  Owner = main
  AppCalls = {"sendClientMessage"}
  CbCalls = {}
  MaxStarts = 1
PROPERTY SendReachesItsClient
