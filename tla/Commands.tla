------------------------------ MODULE Commands -------------------------------
(***************************************************************************)
(* The commands insert and get of thr_socket.cpp over thrs_handler.cpp, as *)
(* one worker runs them one after the other in its db_ctx: open the table, *)
(* find the fields or the index, lock, write or read, commit or roll back, *)
(* unlock, close.  Workers share nothing here but the tables of the        *)
(* server, so one is enough.                                               *)
(*                                                                         *)
(* MySQL is outside: a call of it may fail where the code looks for it; its *)
(* storage engine is one that can roll back.                               *)
(***************************************************************************)
EXTENDS Integers, Sequences, FiniteSets

CONSTANTS
  Tables,          (* tables a command may name, each with a key of its own  *)
                   (* in the cache: get_table_key joins db and tab by a dot  *)
  AutoIncrement,   (* those of them whose rows may get a generated number    *)
  Names,           (* names of fields a command may use                      *)
  FieldCount,      (* fields of a table                                      *)
  Begins,          (* the fields whose names begin with a given name         *)
  Called,          (* the name of a field                                    *)
  SeqSize,         (* places of the array seq, 1024 in the code              *)
  Keys,            (* indexes of a table                                     *)
  Requests         (* the commands that arrive                               *)

Fields == 1 .. FieldCount
Named == -1        (* an index given by its name ...                         *)
Unknown == -2      (* ... which no index has                                 *)
Kinds == {"insert", "get"}

(* rows: how many values each row has; keyed: a key follows, as argv[6].     *)
Command == [kind : Kinds, table : Tables, names : Seq(Names), rows : Seq(Nat),
            index : Int, keyed : BOOLEAN]

ASSUME TablesAssumption == AutoIncrement \subseteq Tables /\ IsFiniteSet(Tables)
ASSUME FieldsAssumption ==
  /\ FieldCount \in Nat /\ SeqSize \in Nat \ {0} /\ Keys \in Nat
  /\ Begins \in [Names -> SUBSET Fields]
  /\ Called \in [Fields -> Names]
  /\ \A f \in Fields : f \in Begins[Called[f]]
  /\ \A f, g \in Fields : Called[f] = Called[g] => f = g
ASSUME RequestsAssumption ==
  /\ Requests \subseteq Command
  /\ \A c \in Requests : c.kind = "get" => c.rows = <<>>

VARIABLES
  pc,          (* where the worker is in the command                         *)
  cmd,         (* the command                                                *)
  seq,         (* the places of the array seq that have been filled          *)
  filenum,     (* what thrs_parse_fields has returned                        *)
  idx,         (* what thrs_open_index has returned                          *)
  left,        (* rows still to be inserted                                  *)
  record,      (* table->record[0]: which value of the row is in each field  *)
  opentabs,    (* ctx->opentabs                                              *)
  opened,      (* the tables MySQL holds open for the thread                 *)
  lock,        (* thd->lock is not NULL                                      *)
  locked,      (* the tables it locks                                        *)
  failed,      (* rs is not 0                                                *)
  undecided,   (* rows written in a statement that has not ended             *)
  stored,      (* rows of the command that have been committed               *)
  reply        (* what the client is told                                    *)

found == <<seq, filenum, idx>>
tabs  == <<opentabs, opened>>
locks == <<lock, locked>>
rows  == <<left, record, failed, undecided, stored>>
vars  == <<pc, cmd, found, tabs, locks, rows, reply>>

(* Three ends: "astray", the worker is outside its arrays, "nolock", it has *)
(* followed a lock that is NULL, and "wild", it has passed on pointers that *)
(* have no value.  The server dies of each.                                 *)
TypeOK ==
  /\ pc \in {"idle", "open", "fields", "index", "lock", "write", "read",
             "unlock", "close", "astray", "nolock", "wild"}
  /\ cmd \in Command
  /\ seq \in Seq(Fields) /\ filenum \in Int /\ idx \in Int
  /\ left \in 0 .. Len(cmd.rows)
  /\ record \in [Fields -> Nat]
  /\ opentabs \subseteq Tables /\ opened \subseteq Tables
  /\ lock \in BOOLEAN /\ locked \subseteq Tables
  /\ failed \in BOOLEAN
  /\ undecided \in Nat /\ stored \in Nat
  /\ reply \in {"none", "err", "zero", "number"}

Empty == [f \in Fields |-> 0]

Init ==
  /\ pc = "idle"
  /\ cmd \in {c \in Requests : c.kind = "get"}
  /\ seq = <<>> /\ filenum = 0 /\ idx = 0
  /\ opentabs = {} /\ opened = {}
  /\ lock = FALSE /\ locked = {}
  /\ left = 0 /\ record = Empty
  /\ failed = FALSE /\ undecided = 0 /\ stored = 0
  /\ reply = "none"

Goto(from, to) == pc = from /\ pc' = to

(* A command with the arguments it needs arrives. *)
Begin ==
  /\ Goto("idle", "open")
  /\ cmd' \in Requests
  /\ left' = Len(cmd'.rows)
  /\ seq' = <<>> /\ filenum' = 0 /\ idx' = 0
  /\ record' = Empty
  /\ stored' = 0 /\ failed' = FALSE
  /\ reply' = "none"
  /\ UNCHANGED <<tabs, locks, undecided>>

(* open_table: a table of an earlier command may still be there. *)
OpenTable ==
  /\ Goto("open", IF cmd.kind = "insert" THEN "fields" ELSE "index")
  /\ opened' = IF cmd.table \in opentabs THEN opened ELSE opened \cup {cmd.table}
  /\ opentabs' = opentabs \cup {cmd.table}
  /\ UNCHANGED <<cmd, found, locks, rows, reply>>

OpenFails ==
  /\ Goto("open", "idle")
  /\ cmd.table \notin opentabs
  /\ reply' = "err"
  /\ UNCHANGED <<cmd, found, tabs, locks, rows>>

CloseKeepingNames ==             (* mutant: dict_clear is forgotten *)
  opened' = {} /\ UNCHANGED opentabs

(* thrs_close_table: everything the thread has open. *)
CloseTables == opened' = {} /\ opentabs' = {}

-----------------------------------------------------------------------------
Least(S) == CHOOSE i \in S : \A j \in S : i <= j
Greatest(S)  == CHOOSE i \in S : \A j \in S : i >= j

(* A name stands for the first field whose name begins with it. *)
Match(name) == Least(Begins[name])

(* How many names come before the first one that no field begins with. *)
Known(names) ==
  LET lost == {i \in DOMAIN names : Begins[names[i]] = {}}
  IN  IF lost = {} THEN Len(names) ELSE Least(lost) - 1

(* thrs_parse_fields is given the size of seq in bytes for its places, so   *)
(* that it may fill places behind the last one.                             *)
TooMany(names) == 4 * SeqSize <= Len(names)
Overruns(names) == ~TooMany(names) /\ Known(names) > SeqSize
Parsed(names) == ~TooMany(names) /\ Known(names) = Len(names)

ParseFields(names) ==
  /\ seq' = IF TooMany(names) THEN <<>>
            ELSE [i \in 1 .. Known(names) |-> Match(names[i])]
  /\ filenum' = IF Parsed(names) THEN Len(names) ELSE -1

(* insert_command tests rs where filenum was set; rs has no value yet, so   *)
(* that the result of the test is anything.                                 *)
FieldsTaken ==
  /\ Goto("fields", "lock")
  /\ ~Overruns(cmd.names)
  /\ ParseFields(cmd.names)
  /\ UNCHANGED <<cmd, idx, tabs, locks, rows, reply>>

FieldsRefused ==
  /\ Goto("fields", "idle")
  /\ ~Overruns(cmd.names)
  /\ ParseFields(cmd.names)
  /\ CloseTables
  /\ reply' = "err"
  /\ UNCHANGED <<cmd, idx, locks, rows>>

FieldsOverrun ==
  /\ Goto("fields", "astray")
  /\ Overruns(cmd.names)
  /\ UNCHANGED <<cmd, found, tabs, locks, rows, reply>>

(* thrs_open_index returns a number as it is and, for a name, a variable    *)
(* without a value.  Bound: one value out of range stands for all.          *)
OpenIndex(index) ==
  CASE index = Named   -> -1 .. Keys
    [] index = Unknown -> {-1}
    [] OTHER           -> {index}

IndexFound ==
  /\ Goto("index", "lock")
  /\ idx' \in OpenIndex(cmd.index) /\ idx' >= 0
  /\ UNCHANGED <<cmd, seq, filenum, tabs, locks, rows, reply>>

(* get_command answers and leaves the table open. *)
IndexUnknown ==
  /\ Goto("index", "idle")
  /\ idx' \in OpenIndex(cmd.index) /\ idx' < 0
  /\ reply' = "err"
  /\ UNCHANGED <<cmd, seq, filenum, tabs, locks, rows>>

-----------------------------------------------------------------------------
LastLeftOut == {opentabs \ {cmd.table}}      (* mutant: one table too few *)

(* thrs_lock_tables passes as many tables as are open; all of them are put  *)
(* in the first place of an array, which has garbage in the others: at best *)
(* what a table left there.                                                 *)
PassedTables ==
  IF Cardinality(opentabs) = 1
    THEN {opentabs}
    ELSE {S \in SUBSET Tables : S \cap opentabs # {}}

LockTables ==
  /\ Goto("lock", IF cmd.kind = "insert" THEN "write" ELSE "read")
  /\ lock' = TRUE
  /\ locked' \in PassedTables
  /\ UNCHANGED <<cmd, found, tabs, rows, reply>>

(* At worst mysql_lock_tables follows a pointer to no table. *)
LockGarbage ==
  /\ Goto("lock", "wild")
  /\ Cardinality(opentabs) > 1
  /\ UNCHANGED <<cmd, found, tabs, locks, rows, reply>>

(* Nobody looks at the NULL that thrs_lock_tables returns. *)
LockFails ==
  /\ Goto("lock", IF cmd.kind = "insert" THEN "write" ELSE "read")
  /\ UNCHANGED <<cmd, found, tabs, locks, rows, reply>>

InsertUntilError == failed         (* mutant: the loop has no other end *)

InsertDone == left = 0 \/ failed

AsManyAsGiven(values) == values    (* mutant: seqlen is not looked at *)

(* The values of a row that are stored: filenum is compared as a size_t,    *)
(* so that -1 is no limit.                                                  *)
StoredValues(values) ==
  IF filenum < 0 \/ values <= filenum THEN values ELSE filenum

Values == StoredValues(cmd.rows[Len(cmd.rows) - left + 1])

(* The fields for the first n values; a place of seq that has not been      *)
(* filled may name any field, or none: see RowAstray.                       *)
Targets(n) ==
  {t \in [1 .. n -> Fields] : \A i \in 1 .. n : i <= Len(seq) => t[i] = seq[i]}

NotEmptied == record               (* mutant: empty_record is forgotten *)

Emptied == Empty

FillRecord ==
  \E t \in Targets(Values) :
    record' = [f \in Fields |->
                 LET at == {i \in 1 .. Values : t[i] = f}
                 IN  IF at = {} THEN Emptied[f] ELSE Greatest(at)]

(* thrs_insert_inner returns 0, or the number generated for the row. *)
InsertRow ==
  /\ pc = "write" /\ ~InsertDone
  /\ FillRecord
  /\ left' = left - 1
  /\ undecided' = undecided + 1
  /\ failed' \in BOOLEAN /\ (failed' => cmd.table \in AutoIncrement)
  /\ UNCHANGED <<pc, cmd, found, tabs, locks, stored, reply>>

InsertFails ==
  /\ pc = "write" /\ ~InsertDone
  /\ FillRecord
  /\ left' = left - 1
  /\ failed' = TRUE
  /\ UNCHANGED <<pc, cmd, found, tabs, locks, undecided, stored, reply>>

RowAstray ==
  /\ ~InsertDone
  /\ Values > Len(seq)
  /\ Goto("write", "astray")
  /\ UNCHANGED <<cmd, found, tabs, locks, rows, reply>>

EndInsert ==
  /\ InsertDone
  /\ Goto("write", "unlock")
  /\ UNCHANGED <<cmd, found, tabs, locks, rows, reply>>

(* Whether the storage engine fails, and what it reads, is left open. *)
Read ==
  /\ Goto("read", "unlock")
  /\ UNCHANGED <<cmd, found, tabs, locks, rows, reply>>

(* No such index, a key that was not sent, or the fields: -1 of them is no  *)
(* end for the loop over them.                                              *)
ReadAstray ==
  /\ Goto("read", "astray")
  /\ \/ idx >= Keys
     \/ ~cmd.keyed
     \/ ~Parsed(cmd.names)
     \/ Overruns(cmd.names)
  /\ UNCHANGED <<cmd, found, tabs, locks, rows, reply>>

-----------------------------------------------------------------------------
(* thrs_unlock_table.  A commit that fails rolls back; nobody is told. *)
Keep == stored' = stored + undecided

CommitAlways == Keep               (* mutant: rs is not looked at *)

Decide ==
  IF failed THEN UNCHANGED stored ELSE Keep \/ UNCHANGED stored

KeepLock == UNCHANGED locks        (* mutant: mysql_unlock_tables is forgotten *)

Release == lock' = FALSE /\ locked' = {}

UnlockTables ==
  /\ lock
  /\ Goto("unlock", "close")
  /\ Decide
  /\ undecided' = 0
  /\ Release
  /\ UNCHANGED <<cmd, found, tabs, left, record, failed, reply>>

(* The message that comes before the test for NULL reads the lock. *)
NothingToUnlock ==
  /\ ~lock
  /\ Goto("unlock", "nolock")
  /\ UNCHANGED <<cmd, found, tabs, locks, rows, reply>>

(* insert answers with rs, get with an error, whatever it has read. *)
Answer ==
  /\ Goto("close", "idle")
  /\ CloseTables
  /\ reply' = IF cmd.kind = "get" THEN "err" ELSE IF failed THEN "number" ELSE "zero"
  /\ UNCHANGED <<cmd, found, locks, rows>>

Next ==
  \/ Begin \/ OpenTable \/ OpenFails
  \/ FieldsTaken \/ FieldsRefused \/ FieldsOverrun
  \/ IndexFound \/ IndexUnknown
  \/ LockTables \/ LockGarbage \/ LockFails
  \/ InsertRow \/ InsertFails \/ RowAstray \/ EndInsert
  \/ Read \/ ReadAstray
  \/ UnlockTables \/ NothingToUnlock \/ Answer

Spec == Init /\ [][Next]_vars

-----------------------------------------------------------------------------
(* The names in ctx->opentabs, which open_table trusts when it reuses a     *)
(* TABLE, are those of the tables that MySQL has open, over any sequence of *)
(* commands.                                                                *)
NamesAreOpen == opentabs = opened

(* A table is written or read under its lock, provided that there is one    *)
(* and that no table of an earlier command was left open: see PassedTables. *)
AccessUnderLock ==
  pc \in {"write", "read"} /\ lock /\ Cardinality(opentabs) = 1 =>
    cmd.table \in opened /\ cmd.table \in locked

(* Between commands no table is locked, and no row of an earlier command    *)
(* waits to be committed with the rows of the next one.                     *)
NothingLocked == pc = "idle" => ~lock /\ locked = {} /\ undecided = 0

(* An insert of several rows stores all of them or none, and none when it   *)
(* answers with an error.                                                   *)
InsertIsAtomic ==
  pc = "idle" =>
    /\ stored \in {0, Len(cmd.rows)}
    /\ reply \in {"err", "number"} => stored = 0

(* A command whose names are known and fit in seq, and whose index and key  *)
(* are there, if it needs them.                                             *)
WellFormed(c) ==
  /\ Len(c.names) <= SeqSize
  /\ \A i \in DOMAIN c.names : Begins[c.names[i]] # {}
  /\ c.kind = "get" => c.index \in 0 .. Keys - 1 /\ c.keyed

(* A well formed command never takes the worker outside seq, argv or the    *)
(* indexes of the table, however many values its rows have.                 *)
SafeWhenWellFormed == pc = "astray" => ~WellFormed(cmd)

(* Names that are distinct, each the full name of a field that no earlier   *)
(* field begins with.                                                       *)
Exact(names) ==
  /\ \A i, j \in DOMAIN names : names[i] = names[j] => i = j
  /\ \A i \in DOMAIN names :
       \E f \in Fields : Called[f] = names[i] /\ f = Least(Begins[names[i]])

(* A row that has been written holds each of its values in the field named  *)
(* for it, and in its other fields nothing, not even a value of the row     *)
(* before.                                                                  *)
ValuesWhereNamed ==
  pc = "write" /\ left < Len(cmd.rows)
      /\ Exact(cmd.names) /\ Len(cmd.names) <= SeqSize =>
    \A f \in Fields :
      LET own == {i \in DOMAIN cmd.names :
                    Called[f] = cmd.names[i] /\ i <= cmd.rows[Len(cmd.rows) - left]}
      IN  IF own = {} THEN record[f] = 0 ELSE record[f] \in own
=============================================================================
