\* Two connections and one worker: every interleaving, safety only.
CONSTANTS
  f1 = f1
  f2 = f2
  w1 = w1
  w2 = w2
  NoFd = NoFd
  Listen = Listen
  Fds = {f1, f2}
  Workers = {w1}
  ReplyLen = 1
  MaxBacklog = 1
  MaxOwed = 2
  MayBlock = {f1}
SPECIFICATION Spec
INVARIANTS
  OneOwner
  ReplyArmed
  ConnectionCount
  Attended
PROPERTIES
  KeepsSessions
