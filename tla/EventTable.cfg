\* Every backend.  Two sockets have a place everywhere, one is MAX_EVENTS and
\* one lies beyond it.  A maxfd that is 7 at the start is too much for select.
CONSTANTS
  Sockets = {0, 2, 4, 5}
  Listen = 1
  MaxEvents = 4
  SetSize = 3
  Backends = {"epoll", "select", "kqueue"}
  Garbage = {0, 2, 7}
  ReadsFirst = TRUE
SPECIFICATION Spec
INVARIANTS
  TableAgrees
  NoStaleEvent
PROPERTIES
  PollMissesNothing
