\* Two application threads that delete clients, finish() from a callback, foreign descriptors.
SPECIFICATION Spec
CONSTANTS
  Fds = {3, 4, 5}
  Conns = {c1, c2}
  MaxUnread = 1
  SndCap = 1
  MaxForeign = 1
  main = main
  worker = worker
  AppThreads = {main, worker}
  Owner = main
  AppCalls = {"deleteClient", "finish"}
  CbCalls = {"finish"}
  MaxStarts = 1
SYMMETRY Symmetry
INVARIANTS
  HandleOwnsSocket
  Ownership
  NewClientRegistered
  RegisterInStep
PROPERTIES
  ClosesOnlyItsOwn
  DataAttribution
  ImplementsSession
