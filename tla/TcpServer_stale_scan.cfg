\* A callback deletes a client that select() has just reported.
SPECIFICATION Spec
CONSTANTS
  Fds = {3, 4, 5}
  Conns = {c1, c2, c3}
  MaxUnread = 1
  SndCap = 1
  MaxForeign = 1
  main = main
  worker = worker
  AppThreads = {main}
  Owner = main
  AppCalls = {}
  CbCalls = {"deleteClient"}
  MaxStarts = 1
SYMMETRY Symmetry
INVARIANT RecvNeverBlocks
