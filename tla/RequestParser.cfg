\* Requests in pieces that end where an item ends, lines in any pieces; and any
\* bytes in any pieces, mistakes and refusals included.
CONSTANTS
  Clients <- Everything
  Nonsense = Nonsense
  MaxBulks = 8
  MaxCommand = 24
  Word = 256
SPECIFICATION Spec
INVARIANTS
  InBounds
  AsMeant
PROPERTIES
  RefusedForGood
\* A request that is complete is not parsed again.
CHECK_DEADLOCK FALSE
