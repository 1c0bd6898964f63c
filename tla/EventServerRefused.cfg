\* One connection, one worker: a client that goes on after a refusal.
CONSTANTS
  f1 = f1
  f2 = f2
  w1 = w1
  w2 = w2
  NoFd = NoFd
  Listen = Listen
  Fds = {f1}
  Workers = {w1}
  ReplyLen = 1
  MaxBacklog = 1
  MaxOwed = 2
  MayBlock = {}
SPECIFICATION Spec
INVARIANTS
  Undisturbed
