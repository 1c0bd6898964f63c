\* One connection and two workers: what must happen in the end.
CONSTANTS
  f1 = f1
  f2 = f2
  w1 = w1
  w2 = w2
  NoFd = NoFd
  Listen = Listen
  Fds = {f1}
  Workers = {w1, w2}
  ReplyLen = 1
  MaxBacklog = 1
  MaxOwed = 2
  MayBlock = {}
SPECIFICATION Spec
INVARIANTS
  OneOwner
PROPERTIES
  RefusedCloses
  AbandonedCloses
  ImplementsSessions
  ActiveWorkerDrains
