\* Two tables, one with generated numbers; up to three rows of up to three
\* values for up to three names, or eight; seq has two places, so that it is
\* overrun by three names, and eight are refused.  The server may die of a command: see TypeOK.
CONSTANTS
  t = t
  n = n
  a = a
  ab = ab
  b = b
  x = x
  Tables = {t, n}
  AutoIncrement = {n}
  Names = {a, ab, b, x}
  FieldCount = 3
  Begins <- MCBegins
  Called <- MCCalled
  SeqSize = 2
  Keys = 2
  Requests <- MCRequests
SPECIFICATION Spec
INVARIANTS
  NamesAreOpen
  AccessUnderLock
  NothingLocked
  InsertIsAtomic
  SafeWhenWellFormed
  ValuesWhereNamed
CHECK_DEADLOCK FALSE
