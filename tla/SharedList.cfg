\* Two threads share a list of up to three items; a walk removes all it meets,
\* or keeps some.
CONSTANTS
  Items = {p, q, r}
  Null = Null
  Data = {d, e}
  Kept = {d}
  Threads = {a, b}
SPECIFICATION SharedSpec
INVARIANTS
  Exclusive
  Ring
PROPERTIES
  WalkReturns
  ImplementsDeque
