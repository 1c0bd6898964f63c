\* A multi-bulk request in any pieces: bytes get lost.
CONSTANTS
  Clients <- ByteClients
  Nonsense = Nonsense
  MaxBulks = 8
  MaxCommand = 24
  Word = 256
SPECIFICATION Spec
INVARIANTS
  AsMeant
\* A request that is complete is not parsed again.
CHECK_DEADLOCK FALSE
