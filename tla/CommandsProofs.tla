---------------------------- MODULE CommandsProofs ---------------------------
(***************************************************************************)
(* The safety of Commands for any tables, fields, names and commands.      *)
(*                                                                         *)
(* The invariant follows the phases of a command.  Its parts do not depend *)
(* on one another, but for the types, and are proved one by one.           *)
(***************************************************************************)
EXTENDS Commands, FiniteSetTheorems, TLAPS

-----------------------------------------------------------------------------
(* The least and the greatest of a set of numbers exist: the intervals from  *)
(* 0 to its members are well founded by inclusion.                           *)
LEMMA LeastIs ==
  ASSUME NEW S \in SUBSET Nat, S # {}
  PROVE  Least(S) \in S /\ \A j \in S : Least(S) <= j
<1> DEFINE T == {0 .. y : y \in S}
<1>1. T \subseteq FiniteSubsetsOf(Nat) /\ T # {}
  <2>1. ASSUME NEW y \in S PROVE 0 .. y \in FiniteSubsetsOf(Nat)
    <3>1. 0 .. y \subseteq Nat /\ 0 \in Int /\ y \in Int
      OBVIOUS
    <3>2. IsFiniteSet(0 .. y)
      BY <3>1, FS_Interval
    <3> QED BY <3>1, <3>2 DEF FiniteSubsetsOf
  <2> QED BY <2>1
<1>2. PICK u \in T : \A v \in T : <<v, u>> \notin StrictSubsetOrdering(Nat)
  <2> HIDE DEF T
  <2> QED BY <1>1, FS_StrictSubsetOrderingWellFounded, WFMin
<1>3. PICK x \in S : u = 0 .. x
  OBVIOUS
<1>4. ASSUME NEW y \in S PROVE x <= y
  <2>1. SUFFICES ASSUME y < x PROVE FALSE
    OBVIOUS
  <2>2. 0 .. y \subseteq 0 .. x /\ 0 .. y # 0 .. x
    BY <2>1, x \in 0 .. x, x \notin 0 .. y
  <2>3. 0 .. y \in SUBSET Nat /\ 0 .. x \in SUBSET Nat
    OBVIOUS
  <2>4. <<0 .. y, 0 .. x>> \in StrictSubsetOrdering(Nat)
    BY <2>2, <2>3 DEF StrictSubsetOrdering
  <2>5. 0 .. y \in T
    OBVIOUS
  <2> QED BY <2>4, <2>5, <1>2, <1>3
<1> QED BY <1>4 DEF Least

LEMMA GreatestIs ==
  ASSUME NEW n \in Nat, NEW S \in SUBSET (1 .. n), S # {}
  PROVE  Greatest(S) \in S /\ \A j \in S : Greatest(S) >= j
<1> DEFINE T == {n - i : i \in S}
<1>1. T \in SUBSET Nat /\ T # {}
  <2>1. \A i \in S : n - i \in Nat
    OBVIOUS
  <2> QED BY <2>1
<1>2. Least(T) \in T /\ \A j \in T : Least(T) <= j
  <2> HIDE DEF T
  <2> QED BY <1>1, LeastIs
<1>3. PICK x \in S : Least(T) = n - x
  BY <1>2
<1>4. \A y \in S : x >= y
  <2> TAKE y \in S
  <2>1. n - x <= n - y
    BY <1>2, <1>3
  <2> QED BY <2>1
<1> QED BY <1>4 DEF Greatest

(* The names that are found all stand for a field.                           *)
LEMMA KnownIs ==
  ASSUME NEW names \in Seq(Names)
  PROVE  /\ Known(names) \in 0 .. Len(names)
         /\ \A i \in 1 .. Known(names) : Match(names[i]) \in Fields
<1> DEFINE lost == {i \in DOMAIN names : Begins[names[i]] = {}}
<1>0. DOMAIN names = 1 .. Len(names) /\ Len(names) \in Nat
  OBVIOUS
<1>1. ASSUME NEW name \in Names, Begins[name] # {} PROVE Match(name) \in Fields
  <2>1. Begins[name] \in SUBSET Nat /\ Begins[name] \subseteq Fields
    BY FieldsAssumption DEF Fields
  <2> QED BY <1>1, <2>1, LeastIs DEF Match
<1>2. CASE lost = {}
  <2>1. Known(names) = Len(names)
    BY <1>2 DEF Known
  <2>2. \A i \in 1 .. Len(names) : Begins[names[i]] # {} /\ names[i] \in Names
    BY <1>0, <1>2
  <2> QED BY <1>0, <1>1, <2>1, <2>2
<1>3. CASE lost # {}
  <2>1. Known(names) = Least(lost) - 1
    BY <1>3 DEF Known
  <2>2. lost \in SUBSET Nat
    BY <1>0
  <2>3. Least(lost) \in lost /\ \A j \in lost : Least(lost) <= j
    <3> HIDE DEF lost
    <3> QED BY <1>3, <2>2, LeastIs
  <2>4. Least(lost) \in 1 .. Len(names)
    BY <1>0, <2>3
  <2>5. ASSUME NEW i \in 1 .. Known(names) PROVE Match(names[i]) \in Fields
    <3>1. i \in DOMAIN names /\ ~ (Least(lost) <= i)
      BY <1>0, <2>1, <2>4
    <3>2. i \notin lost
      <4> HIDE DEF lost
      <4> QED BY <2>3, <3>1
    <3>3. names[i] \in Names
      BY <3>1
    <3> QED BY <1>1, <3>1, <3>2, <3>3
  <2>6. Known(names) \in 0 .. Len(names)
    BY <1>0, <2>1, <2>4
  <2> QED BY <2>5, <2>6
<1> QED BY <1>2, <1>3

-----------------------------------------------------------------------------
(* What the types leave open: the command is one that has arrived, and the   *)
(* worker is in the function for its kind.                                   *)
KindInv ==
  /\ cmd \in Requests
  /\ pc \in {"fields", "write"} => cmd.kind = "insert"
  /\ pc \in {"index", "read"} => cmd.kind = "get"

TypeInv == TypeOK /\ KindInv

LEMMA FillType ==
  ASSUME TypeInv, ~InsertDone, FillRecord
  PROVE  record' \in [Fields -> Nat]
<1>1. left \in 1 .. Len(cmd.rows) /\ Len(cmd.rows) \in Nat /\ cmd.rows \in Seq(Nat)
  BY DEF TypeInv, TypeOK, InsertDone, Command
<1>2. Values \in Nat
  <2>1. cmd.rows[Len(cmd.rows) - left + 1] \in Nat
    BY <1>1
  <2> QED BY <2>1 DEF Values, StoredValues, TypeInv, TypeOK
<1>3. PICK t \in Targets(Values) :
        record' = [f \in Fields |->
                     LET at == {i \in 1 .. Values : t[i] = f}
                     IN  IF at = {} THEN Emptied[f] ELSE Greatest(at)]
  BY DEF FillRecord
<1>4. ASSUME NEW f \in Fields PROVE record'[f] \in Nat
  <2> DEFINE at == {i \in 1 .. Values : t[i] = f}
  <2>1. CASE at = {}
    BY <1>3, <2>1 DEF Emptied, Empty
  <2>2. CASE at # {}
    <3>1. Greatest(at) \in at
      <4>1. at \in SUBSET (1 .. Values)
        OBVIOUS
      <4> HIDE DEF at
      <4> QED BY <1>2, <2>2, <4>1, GreatestIs
    <3> QED BY <1>3, <2>2, <3>1
  <2> QED BY <2>1, <2>2
<1> QED BY <1>3, <1>4

LEMMA TypeStep ==
  ASSUME TypeInv, [Next]_vars
  PROVE  TypeInv'
<1> USE DEF TypeInv, TypeOK, KindInv, Goto
<1>1. CASE Begin
  <2>1. cmd' \in Command /\ Len(cmd'.rows) \in Nat
    BY <1>1, RequestsAssumption DEF Begin, Command
  <2>2. /\ seq' \in Seq(Fields) /\ filenum' \in Int /\ idx' \in Int
        /\ left' \in 0 .. Len(cmd'.rows) /\ record' \in [Fields -> Nat]
    BY <1>1, <2>1 DEF Begin, Empty
  <2> QED BY <1>1, <2>1, <2>2 DEF Begin, tabs, locks
<1>2. CASE OpenTable
  <2>1. cmd.table \in Tables /\ cmd.kind \in Kinds
    BY DEF Command
  <2> QED BY <1>2, <2>1 DEF OpenTable, found, locks, rows, Kinds
<1>3. CASE OpenFails
  BY <1>3 DEF OpenFails, found, tabs, locks, rows
<1>4. ASSUME ParseFields(cmd.names)
      PROVE  seq' \in Seq(Fields) /\ filenum' \in Int
  <2>1. cmd.names \in Seq(Names) /\ Len(cmd.names) \in Nat
    BY DEF Command
  <2>2. /\ Known(cmd.names) \in Nat
        /\ \A i \in 1 .. Known(cmd.names) : Match(cmd.names[i]) \in Fields
    <3>1. /\ Known(cmd.names) \in 0 .. Len(cmd.names)
          /\ \A i \in 1 .. Known(cmd.names) : Match(cmd.names[i]) \in Fields
      BY <2>1, KnownIs, Zenon
    <3> QED BY <2>1, <3>1
  <2>3. [i \in 1 .. Known(cmd.names) |-> Match(cmd.names[i])] \in Seq(Fields)
    BY <2>2
  <2> QED BY <1>4, <2>1, <2>3 DEF ParseFields
<1>5. CASE FieldsTaken
  BY <1>4, <1>5 DEF FieldsTaken, tabs, locks, rows
<1>6. CASE FieldsRefused
  BY <1>4, <1>6 DEF FieldsRefused, CloseTables, locks, rows
<1>7. CASE FieldsOverrun
  BY <1>7 DEF FieldsOverrun, found, tabs, locks, rows
<1>8. ASSUME idx' \in OpenIndex(cmd.index) PROVE idx' \in Int
  BY <1>8, FieldsAssumption DEF OpenIndex, Named, Unknown, Command
<1>9. CASE IndexFound
  BY <1>8, <1>9 DEF IndexFound, tabs, locks, rows
<1>10. CASE IndexUnknown
  BY <1>8, <1>10 DEF IndexUnknown, tabs, locks, rows
<1>11. CASE LockTables
  <2>1. cmd.kind \in Kinds /\ locked' \subseteq Tables
    BY <1>11 DEF LockTables, PassedTables, Command
  <2> QED BY <1>11, <2>1 DEF LockTables, found, tabs, rows, Kinds
<1>12. CASE LockFails \/ LockGarbage
  <2>1. cmd.kind \in Kinds
    BY DEF Command
  <2> QED BY <1>12, <2>1 DEF LockFails, LockGarbage, found, tabs, locks, rows, Kinds
<1>13. CASE InsertRow
  <2>1. record' \in [Fields -> Nat] /\ left \in 1 .. Len(cmd.rows)
    BY <1>13, FillType DEF InsertRow, InsertDone
  <2>2. left' \in 0 .. Len(cmd.rows) /\ undecided' \in Nat
    BY <1>13, <2>1 DEF InsertRow
  <2>3. failed' \in BOOLEAN
    BY <1>13 DEF InsertRow
  <2> QED BY <1>13, <2>1, <2>2, <2>3 DEF InsertRow, found, tabs, locks
<1>14. CASE InsertFails
  <2>1. record' \in [Fields -> Nat] /\ left \in 1 .. Len(cmd.rows)
    BY <1>14, FillType DEF InsertFails, InsertDone
  <2> QED BY <1>14, <2>1 DEF InsertFails, found, tabs, locks
<1>15. CASE RowAstray
  BY <1>15 DEF RowAstray, found, tabs, locks, rows
<1>16. CASE EndInsert
  BY <1>16 DEF EndInsert, found, tabs, locks, rows
<1>17. CASE Read \/ ReadAstray
  BY <1>17 DEF Read, ReadAstray, found, tabs, locks, rows
<1>18. CASE UnlockTables
  <2>1. stored' \in Nat
    BY <1>18 DEF UnlockTables, Decide, Keep
  <2> QED BY <1>18, <2>1 DEF UnlockTables, Release, found, tabs
<1>19. CASE NothingToUnlock
  BY <1>19 DEF NothingToUnlock, found, tabs, locks, rows
<1>20. CASE Answer
  BY <1>20 DEF Answer, CloseTables, found, locks, rows
<1>21. CASE UNCHANGED vars
  BY <1>21 DEF vars, found, tabs, locks, rows
<1> QED
  BY <1>1, <1>2, <1>3, <1>5, <1>6, <1>7, <1>9, <1>10, <1>11, <1>12, <1>13,
     <1>14, <1>15, <1>16, <1>17, <1>18, <1>19, <1>20, <1>21 DEF Next

-----------------------------------------------------------------------------
(* There is a lock from LockTables to UnlockTables, and nothing is locked    *)
(* without it.                                                               *)
LockInv ==
  /\ pc \notin {"write", "read", "unlock", "astray"} => ~lock
  /\ ~lock => locked = {}

(* The table of the command is open while the command is executed.           *)
TableInv == pc \in {"fields", "index", "lock", "write", "read"} => cmd.table \in opentabs

TableParts == NamesAreOpen /\ LockInv /\ TableInv /\ AccessUnderLock

LEMMA TableStep ==
  ASSUME TableParts, [Next]_vars
  PROVE  TableParts'
<1> USE DEF TableParts, NamesAreOpen, LockInv, TableInv, AccessUnderLock, Goto
<1>1. CASE Begin
  BY <1>1 DEF Begin, tabs, locks
<1>2. CASE OpenTable
  BY <1>2 DEF OpenTable, locks
<1>3. CASE OpenFails
  BY <1>3 DEF OpenFails, tabs, locks
<1>4. CASE FieldsTaken \/ FieldsOverrun
  BY <1>4 DEF FieldsTaken, FieldsOverrun, tabs, locks
<1>5. CASE FieldsRefused
  BY <1>5 DEF FieldsRefused, CloseTables, locks
<1>6. CASE IndexFound \/ IndexUnknown
  BY <1>6 DEF IndexFound, IndexUnknown, tabs, locks
<1>7. CASE LockTables
  <2>1. Cardinality(opentabs) = 1 => locked' = opentabs
    BY <1>7 DEF LockTables, PassedTables
  <2> QED BY <1>7, <2>1 DEF LockTables, tabs
<1>8. CASE LockFails \/ LockGarbage
  BY <1>8 DEF LockFails, LockGarbage, tabs, locks
<1>9. CASE InsertRow \/ InsertFails
  BY <1>9 DEF InsertRow, InsertFails, tabs, locks
<1>10. CASE RowAstray \/ EndInsert \/ Read \/ ReadAstray
  BY <1>10 DEF RowAstray, EndInsert, Read, ReadAstray, tabs, locks
<1>11. CASE UnlockTables
  BY <1>11 DEF UnlockTables, Release, tabs
<1>12. CASE NothingToUnlock
  BY <1>12 DEF NothingToUnlock, tabs, locks
<1>13. CASE Answer
  BY <1>13 DEF Answer, CloseTables, locks
<1>14. CASE UNCHANGED vars
  BY <1>14 DEF vars, tabs, locks
<1> QED
  BY <1>1, <1>2, <1>3, <1>4, <1>5, <1>6, <1>7, <1>8, <1>9, <1>10, <1>11, <1>12,
     <1>13, <1>14 DEF Next

-----------------------------------------------------------------------------
(* How many rows have been written and kept, from one phase to the next.     *)
RowInv ==
  LET total == Len(cmd.rows) IN
  /\ pc \in {"open", "fields", "index", "lock"} =>
       left = total /\ undecided = 0 /\ stored = 0 /\ ~failed
  /\ pc = "write" => stored = 0 /\ (~failed => undecided + left = total)
  /\ pc = "read" => undecided = 0 /\ stored = 0
  /\ pc = "unlock" => stored = 0 /\ (~failed => undecided = total)
  /\ pc \in {"close", "idle"} => undecided = 0 /\ stored \in {0, total}
  /\ pc = "close" => (failed => stored = 0)
  /\ pc = "idle" /\ reply \in {"err", "number"} => stored = 0

LEMMA RowStep ==
  ASSUME TypeInv, RowInv, [Next]_vars
  PROVE  RowInv'
<1> USE DEF RowInv, Goto
<1>0. /\ Len(cmd.rows) \in Nat /\ left \in Nat /\ undecided \in Nat
      /\ pc \in {"index", "read"} => Len(cmd.rows) = 0
      /\ cmd.kind = "get" => Len(cmd.rows) = 0
  <2>1. cmd.rows \in Seq(Nat) /\ (cmd.kind = "get" => cmd.rows = <<>>)
    BY RequestsAssumption DEF TypeInv, TypeOK, KindInv, Command
  <2>2. Len(cmd.rows) \in Nat /\ (cmd.kind = "get" => Len(cmd.rows) = 0)
    BY <2>1
  <2> QED BY <2>2 DEF TypeInv, TypeOK, KindInv
<1>1. CASE Begin
  BY <1>1 DEF Begin
<1>2. CASE OpenTable \/ OpenFails
  BY <1>2 DEF OpenTable, OpenFails, rows
<1>3. CASE FieldsTaken \/ FieldsRefused \/ FieldsOverrun
  BY <1>3 DEF FieldsTaken, FieldsRefused, FieldsOverrun, rows
<1>4. CASE IndexFound \/ IndexUnknown
  BY <1>4 DEF IndexFound, IndexUnknown, rows
<1>5. CASE LockTables \/ LockFails \/ LockGarbage
  BY <1>0, <1>5 DEF LockTables, LockFails, LockGarbage, rows
<1>6. CASE InsertRow \/ InsertFails
  <2>1. failed' = TRUE \/ undecided' + left' = undecided + left
    BY <1>0, <1>6 DEF InsertRow, InsertFails
  <2>2. ~failed /\ pc' = pc /\ UNCHANGED <<stored, cmd>>
    BY <1>6 DEF InsertRow, InsertFails, InsertDone
  <2>3. pc = "write"
    BY <1>6 DEF InsertRow, InsertFails
  <2> QED BY <2>1, <2>2, <2>3
<1>7. CASE EndInsert
  BY <1>0, <1>7 DEF EndInsert, InsertDone, rows
<1>8. CASE RowAstray \/ ReadAstray
  BY <1>8 DEF RowAstray, ReadAstray, rows
<1>9. CASE Read
  BY <1>0, <1>9 DEF Read, rows
<1>10. CASE UnlockTables
  BY <1>0, <1>10 DEF UnlockTables, Decide, Keep
<1>11. CASE NothingToUnlock
  BY <1>11 DEF NothingToUnlock, rows
<1>12. CASE Answer
  BY <1>0, <1>12 DEF Answer, rows
<1>13. CASE UNCHANGED vars
  BY <1>13 DEF vars, rows
<1> QED
  BY <1>1, <1>2, <1>3, <1>4, <1>5, <1>6, <1>7, <1>8, <1>9, <1>10, <1>11, <1>12,
     <1>13 DEF Next

-----------------------------------------------------------------------------
(* What is known of seq and idx between their filling and their use.         *)
PlaceInv ==
  /\ pc \in {"lock", "write"} /\ cmd.kind = "insert" /\ Parsed(cmd.names) =>
       /\ filenum = Len(cmd.names)
       /\ seq = [i \in 1 .. Len(cmd.names) |-> Match(cmd.names[i])]
  /\ pc \in {"lock", "read"} /\ cmd.kind = "get" /\ cmd.index \in Nat =>
       idx = cmd.index

PlaceParts == PlaceInv /\ SafeWhenWellFormed

(* The names of a well formed command are found, and fit in seq.             *)
LEMMA WellFormedParses ==
  ASSUME NEW names \in Seq(Names), Len(names) <= SeqSize,
         \A i \in DOMAIN names : Begins[names[i]] # {}
  PROVE  Parsed(names) /\ ~Overruns(names)
<1>1. Known(names) = Len(names)
  BY DEF Known
<1>2. Len(names) \in Nat /\ ~TooMany(names)
  BY FieldsAssumption DEF TooMany
<1> QED BY <1>1, <1>2, FieldsAssumption DEF Parsed, Overruns

LEMMA PlaceStep ==
  ASSUME TypeInv, PlaceParts, [Next]_vars
  PROVE  PlaceParts'
<1> USE DEF PlaceParts, PlaceInv, SafeWhenWellFormed, Goto
<1>0. cmd.names \in Seq(Names) /\ Len(cmd.names) \in Nat /\ cmd \in Command
  BY DEF TypeInv, TypeOK, Command
<1>a. WellFormed(cmd) => Parsed(cmd.names) /\ ~Overruns(cmd.names)
  BY <1>0, WellFormedParses DEF WellFormed
<1>1. CASE Begin \/ OpenTable \/ OpenFails
  BY <1>1 DEF Begin, OpenTable, OpenFails
<1>2. CASE FieldsTaken \/ FieldsRefused
  <2>1. Parsed(cmd.names) =>
          /\ filenum' = Len(cmd.names)
          /\ seq' = [i \in 1 .. Len(cmd.names) |-> Match(cmd.names[i])]
    BY <1>2 DEF FieldsTaken, FieldsRefused, ParseFields, Parsed
  <2>2. pc' \in {"lock", "idle"} /\ cmd' = cmd /\ cmd.kind = "insert"
    BY <1>2 DEF FieldsTaken, FieldsRefused, TypeInv, KindInv
  <2> QED BY <2>1, <2>2
<1>3. CASE FieldsOverrun
  BY <1>a, <1>3 DEF FieldsOverrun
<1>4. CASE IndexFound \/ IndexUnknown
  <2>1. cmd.index \in Nat => idx' = cmd.index
    BY <1>4 DEF IndexFound, IndexUnknown, OpenIndex, Named, Unknown
  <2>2. pc' \in {"lock", "idle"} /\ cmd' = cmd /\ cmd.kind = "get"
    BY <1>4 DEF IndexFound, IndexUnknown, TypeInv, KindInv
  <2> QED BY <2>1, <2>2
<1>5. CASE LockTables \/ LockFails \/ LockGarbage
  BY <1>5 DEF LockTables, LockFails, LockGarbage, found
<1>6. CASE InsertRow \/ InsertFails
  BY <1>6 DEF InsertRow, InsertFails, found
<1>7. CASE RowAstray
  <2>1. ASSUME WellFormed(cmd) PROVE FALSE
    <3>0. /\ filenum = Len(cmd.names)
          /\ seq = [i \in 1 .. Len(cmd.names) |-> Match(cmd.names[i])]
      BY <1>a, <1>7, <2>1 DEF RowAstray, TypeInv, KindInv
    <3>1. filenum = Len(cmd.names) /\ Len(seq) = filenum
      BY <1>0, <3>0
    <3>2. left \in 1 .. Len(cmd.rows) /\ cmd.rows \in Seq(Nat) /\ Len(cmd.rows) \in Nat
      BY <1>0, <1>7 DEF RowAstray, InsertDone, TypeInv, TypeOK, Command
    <3>3. cmd.rows[Len(cmd.rows) - left + 1] \in Nat
      BY <3>2
    <3>4. Values <= Len(seq)
      BY <1>0, <3>1, <3>3 DEF Values, StoredValues
    <3> QED BY <1>0, <1>7, <3>1, <3>3, <3>4 DEF RowAstray, Values, StoredValues
  <2> QED BY <1>7, <2>1 DEF RowAstray
<1>8. CASE EndInsert \/ Read
  BY <1>8 DEF EndInsert, Read
<1>9. CASE ReadAstray
  <2>1. ASSUME WellFormed(cmd) PROVE FALSE
    <3>1. cmd.kind = "get" /\ idx = cmd.index /\ cmd.index \in 0 .. Keys - 1
      BY <1>9, <2>1, FieldsAssumption DEF ReadAstray, WellFormed, TypeInv, KindInv
    <3>2. cmd.keyed /\ ~(idx >= Keys)
      BY <2>1, <3>1, FieldsAssumption DEF WellFormed
    <3> QED BY <1>a, <1>9, <2>1, <3>2 DEF ReadAstray
  <2> QED BY <1>9, <2>1 DEF ReadAstray
<1>10. CASE UnlockTables \/ NothingToUnlock \/ Answer
  BY <1>10 DEF UnlockTables, NothingToUnlock, Answer
<1>11. CASE UNCHANGED vars
  BY <1>11 DEF vars, found
<1> QED
  BY <1>1, <1>2, <1>3, <1>4, <1>5, <1>6, <1>7, <1>8, <1>9, <1>10, <1>11 DEF Next

-----------------------------------------------------------------------------
(* An exact name stands for the one field that has it.                       *)
LEMMA ExactMatch ==
  ASSUME NEW names \in Seq(Names), Exact(names), Len(names) <= SeqSize
  PROVE  /\ Parsed(names)
         /\ \A i \in DOMAIN names, f \in Fields :
              Match(names[i]) = f <=> Called[f] = names[i]
<1>1. ASSUME NEW i \in DOMAIN names, NEW f \in Fields
      PROVE  Match(names[i]) = f <=> Called[f] = names[i]
  <2>1. PICK g \in Fields : Called[g] = names[i] /\ g = Match(names[i])
    BY DEF Exact, Match
  <2> QED BY <2>1, FieldsAssumption
<1>2. \A i \in DOMAIN names : Begins[names[i]] # {}
  BY FieldsAssumption DEF Exact
<1> QED BY <1>1, <1>2, WellFormedParses

(* What FillRecord makes of a row whose names are exact.                     *)
LEMMA FillExact ==
  ASSUME TypeInv, PlaceInv, pc = "write", ~InsertDone, FillRecord,
         Exact(cmd.names), Len(cmd.names) <= SeqSize,
         NEW f \in Fields
  PROVE  LET own == {i \in DOMAIN cmd.names :
                       Called[f] = cmd.names[i]
                         /\ i <= cmd.rows[Len(cmd.rows) - left + 1]}
         IN  IF own = {} THEN record'[f] = 0 ELSE record'[f] \in own
<1> DEFINE names == cmd.names
           values == cmd.rows[Len(cmd.rows) - left + 1]
           own == {i \in DOMAIN names : Called[f] = names[i] /\ i <= values}
<1>1. names \in Seq(Names) /\ Len(names) \in Nat /\ DOMAIN names = 1 .. Len(names)
  BY DEF TypeInv, TypeOK, Command
<1>2. values \in Nat
  BY DEF TypeInv, TypeOK, Command, InsertDone
<1>3. Parsed(names) /\ \A i \in DOMAIN names : Match(names[i]) = f <=> Called[f] = names[i]
  BY <1>1, ExactMatch
<1>4. filenum = Len(names) /\ seq = [i \in 1 .. Len(names) |-> Match(names[i])]
  BY <1>3 DEF PlaceInv, TypeInv, KindInv
<1>5. Len(seq) = Len(names) /\ \A i \in 1 .. Len(names) : seq[i] = Match(names[i])
  BY <1>1, <1>4
<1>6. /\ Values \in Nat
      /\ \A i \in 1 .. Values : i <= Len(names) /\ i <= values
      /\ \A i \in 1 .. Len(names) : i <= values => i <= Values
  BY <1>1, <1>2, <1>4 DEF Values, StoredValues
<1>7. PICK t \in Targets(Values) :
        record' = [g \in Fields |->
                     LET at == {i \in 1 .. Values : t[i] = g}
                     IN  IF at = {} THEN Emptied[g] ELSE Greatest(at)]
  BY DEF FillRecord
<1> DEFINE at == {i \in 1 .. Values : t[i] = f}
<1>8. \A i \in 1 .. Values : t[i] = Match(names[i])
  BY <1>1, <1>5, <1>6 DEF Targets
<1>9. at = own
  <2> HIDE DEF names, values
  <2>1. \A i \in 1 .. Values : i \in DOMAIN names /\ i <= values
    BY <1>1, <1>6
  <2>2. \A i \in DOMAIN names : i <= values => i \in 1 .. Values
    BY <1>1, <1>6
  <2> QED BY <1>3, <1>8, <2>1, <2>2
<1>10. record'[f] = IF at = {} THEN 0 ELSE Greatest(at)
  BY <1>7 DEF Emptied, Empty
<1>11. at # {} => Greatest(at) \in at
  <2>1. at \in SUBSET (1 .. Values)
    OBVIOUS
  <2> HIDE DEF at
  <2> QED BY <1>6, <2>1, GreatestIs
<1> HIDE DEF at
<1> QED BY <1>9, <1>10, <1>11

LEMMA ValueStep ==
  ASSUME TypeInv, RowInv, PlaceInv, ValuesWhereNamed, [Next]_vars
  PROVE  ValuesWhereNamed'
<1> USE DEF Goto
<1>1. CASE InsertRow \/ InsertFails
  <2>1. /\ pc = "write" /\ ~InsertDone /\ FillRecord /\ cmd' = cmd
        /\ left' = left - 1 /\ left \in Int /\ Len(cmd.rows) \in Int
    BY <1>1 DEF InsertRow, InsertFails, TypeInv, TypeOK, Command
  <2>2. Len(cmd.rows) - left' = Len(cmd.rows) - left + 1
    BY <2>1
  <2>3. SUFFICES ASSUME Exact(cmd.names), Len(cmd.names) <= SeqSize, NEW f \in Fields
                 PROVE  LET own == {i \in DOMAIN cmd.names :
                                      Called[f] = cmd.names[i]
                                        /\ i <= cmd.rows[Len(cmd.rows) - left']}
                        IN  IF own = {} THEN record'[f] = 0 ELSE record'[f] \in own
    BY <2>1 DEF ValuesWhereNamed
  <2> QED BY <2>1, <2>2, <2>3, FillExact
<1>2. CASE LockTables \/ LockFails
  BY <1>2 DEF LockTables, LockFails, rows, RowInv, ValuesWhereNamed, TypeInv, TypeOK, Command
<1>3. CASE UNCHANGED vars
  BY <1>3 DEF vars, rows, ValuesWhereNamed
<1>4. CASE pc' # "write"
  BY <1>4 DEF ValuesWhereNamed
<1>5. ASSUME Next PROVE InsertRow \/ InsertFails \/ LockTables \/ LockFails \/ pc' # "write"
  BY <1>5 DEF Next, Begin, OpenTable, OpenFails, FieldsTaken, FieldsRefused, FieldsOverrun,
     IndexFound, IndexUnknown, LockGarbage, RowAstray, EndInsert, Read, ReadAstray, UnlockTables,
     NothingToUnlock, Answer
<1> QED BY <1>1, <1>2, <1>3, <1>4, <1>5

-----------------------------------------------------------------------------
IInv == TypeInv /\ TableParts /\ RowInv /\ PlaceParts /\ ValuesWhereNamed

LEMMA IInvInit == Init => IInv
<1> SUFFICES ASSUME Init PROVE IInv
  OBVIOUS
<1>1. TypeInv
  <2>1. cmd \in Command /\ cmd \in Requests /\ Len(cmd.rows) \in Nat
    BY RequestsAssumption DEF Init, Command
  <2>2. /\ seq \in Seq(Fields) /\ record \in [Fields -> Nat]
        /\ left \in 0 .. Len(cmd.rows) /\ undecided \in Nat /\ stored \in Nat
        /\ filenum \in Int /\ idx \in Int
    BY <2>1 DEF Init, Empty
  <2>3. lock \in BOOLEAN /\ failed \in BOOLEAN
    BY DEF Init
  <2>4. TypeOK
    BY <2>1, <2>2, <2>3 DEF Init, TypeOK
  <2>5. KindInv
    BY <2>1 DEF Init, KindInv
  <2> QED BY <2>4, <2>5 DEF TypeInv
<1>2. TableParts
  BY DEF Init, TableParts, NamesAreOpen, LockInv, TableInv, AccessUnderLock
<1>3. RowInv
  BY DEF Init, RowInv
<1>4. PlaceParts
  BY DEF Init, PlaceParts, PlaceInv, SafeWhenWellFormed
<1>5. ValuesWhereNamed
  BY DEF Init, ValuesWhereNamed
<1> QED BY <1>1, <1>2, <1>3, <1>4, <1>5 DEF IInv

LEMMA Invariant == Spec => []IInv
<1>1. IInv /\ [Next]_vars => IInv'
  BY TypeStep, TableStep, RowStep, PlaceStep, ValueStep DEF IInv, PlaceParts
<1> QED BY IInvInit, <1>1, PTL DEF Spec

(* Every variable of a worker keeps its type.                                *)
THEOREM TypeCorrect == Spec => []TypeOK
<1>1. IInv => TypeOK
  BY DEF IInv, TypeInv
<1> QED BY Invariant, <1>1, PTL

(* The cache of open tables, thr_socket.cpp:33-40, is right after any        *)
(* sequence of commands, the ones that leave a table open included.          *)
THEOREM CacheIsRight == Spec => []NamesAreOpen
<1>1. IInv => NamesAreOpen
  BY DEF IInv, TableParts
<1> QED BY Invariant, <1>1, PTL

(* insert and get, between thrs_lock_tables and thrs_unlock_table.           *)
THEOREM LockedAccess == Spec => []AccessUnderLock
<1>1. IInv => AccessUnderLock
  BY DEF IInv, TableParts
<1> QED BY Invariant, <1>1, PTL

(* No lock and no undecided row outlives its command.                        *)
THEOREM NothingRemains == Spec => []NothingLocked
<1>1. IInv => NothingLocked
  BY DEF IInv, TableParts, LockInv, RowInv, NothingLocked
<1> QED BY Invariant, <1>1, PTL

(* The loop of insert_command and the decision of thrs_unlock_table.         *)
THEOREM AllOrNothing == Spec => []InsertIsAtomic
<1>1. IInv => InsertIsAtomic
  BY DEF IInv, RowInv, InsertIsAtomic
<1> QED BY Invariant, <1>1, PTL

(* seq, argv and the indexes of the table, over all commands whose arguments *)
(* are what they should be.                                                  *)
THEOREM StaysInArrays == Spec => []SafeWhenWellFormed
<1>1. IInv => SafeWhenWellFormed
  BY DEF IInv, PlaceParts
<1> QED BY Invariant, <1>1, PTL

(* thrs_parse_fields and thrs_insert_inner together.                         *)
THEOREM ValuesInPlace == Spec => []ValuesWhereNamed
<1>1. IInv => ValuesWhereNamed
  BY DEF IInv
<1> QED BY Invariant, <1>1, PTL
=============================================================================
