\* A server-only socket started after another start failed.
SPECIFICATION Spec
CONSTANTS
  Fds = {3, 4, 5}
  Conns = {}
  MaxUnread = 1
  SndCap = 1
  MaxForeign = 0
  main = main
  worker = worker
  group = group
  host = host
  Dests = {group, host}
  AppThreads = {main}
  Owner = main
  AppCalls = {"startMcast", "startUnicastRemote", "startUnicast", "sendMsg", "finish"}
  CbCalls = {}
  MaxStarts = 2
INVARIANT ServerOnlySendsNothing
