-------------------------------- MODULE Dict ---------------------------------
(***************************************************************************)
(* The hash table of dict.c.  It grows by incremental rehashing: while     *)
(* rehashidx is not -1, entries move bucket by bucket from the old table   *)
(* to the new one, a step at the head of every operation, and lookups look *)
(* at both.  Iterators suspend the moving, not the start of a rehash.      *)
(*                                                                         *)
(* The caller is one thread.  It does not delete the entry an iterator is  *)
(* at, and clears the table only when it iterates nowhere, as the callers  *)
(* in thrs_handler.cpp do.                                                 *)
(***************************************************************************)
EXTENDS Integers, Sequences, FiniteSets, SequencesExt

CONSTANTS
  Keys, Values,
  Missing,     (* no entry                                                   *)
  Hash,        (* opts->hash                                                 *)
  InitSize,    (* DICT_INIT_SIZE                                             *)
  Iterators    (* the iterators the caller may have at a time                *)

ASSUME HashAssumption == Hash \in [Keys -> Nat]
ASSUME SizeAssumption == InitSize \in Nat \ {0}
ASSUME MissingAssumption == Missing \notin Values

VARIABLES
  old,        (* dt[0]                                                       *)
  new,        (* dt[1], in use during a rehash                               *)
  rehashidx,  (* the first bucket of dt[0] that may still hold entries, or -1 *)
  iterators,  (* number of iterators that have started                       *)
  iter,       (* the iterators of the caller                                 *)
  reply,      (* what the last operation returned                            *)
  due, seen   (* of the keys that have been there since an iterator started, *)
              (* those it has yet to return and those it has returned        *)

tables == <<old, new, rehashidx>>
walks  == <<iterators, iter, due, seen>>
vars   == <<tables, walks, reply>>

-----------------------------------------------------------------------------
(* Tables *)

Entry == [key : Keys, value : Values]

NewTable(size) ==
  [size |-> size, used |-> 0, buckets |-> [i \in 0 .. size - 1 |-> <<>>]]

NoTable == NewTable(0)

Bucket(t, k) == Hash[k] % t.size

Chain(t, k) == t.buckets[Bucket(t, k)]

(* Entries are pushed at the head of their chain. *)
Push(t, e) ==
  [t EXCEPT !.used = @ + 1, !.buckets[Bucket(t, e.key)] = <<e>> \o @]

Place(chain, k) == CHOOSE i \in DOMAIN chain : chain[i].key = k

Drop(t, k) ==
  [t EXCEPT !.used = @ - 1, !.buckets[Bucket(t, k)] = RemoveAt(@, Place(@, k))]

SetValue(t, k, v) ==
  [t EXCEPT !.buckets[Bucket(t, k)][Place(Chain(t, k), k)].value = v]

InTable(t, k) ==
  t.size > 0 /\ \E i \in DOMAIN Chain(t, k) : Chain(t, k)[i].key = k

KeysIn(t) == {k \in Keys : InTable(t, k)}

ValueIn(t, k) == Chain(t, k)[Place(Chain(t, k), k)].value

(* The table t with the entries of a chain pushed one after the other. *)
PushAll(t, chain) ==
  LET pushed[n \in 0 .. Len(chain)] ==
        IF n = 0 THEN t ELSE Push(pushed[n - 1], chain[n])
  IN  pushed[Len(chain)]

(* _pow_size *)
PowSize(n) ==
  LET size[i \in 0 .. n] == IF i = 0 THEN InitSize ELSE 2 * size[i - 1]
      enough == CHOOSE i \in 0 .. n : size[i] >= n /\ \A j \in 0 .. i - 1 : size[j] < n
  IN  size[enough]

-----------------------------------------------------------------------------
(* The two tables as one: [old, new, rehashidx] *)

Now == [old |-> old, new |-> new, idx |-> rehashidx]

SetDict(d) == old' = d.old /\ new' = d.new /\ rehashidx' = d.idx

Rehashing(d) == d.idx # -1

(* dict_rehash(d, 1): once the old table is empty the new one takes its     *)
(* place; before, the entries of the next bucket move, last in first.       *)
RehashStep(d) ==
  IF d.old.used = 0 THEN [old |-> d.new, new |-> NoTable, idx |-> -1]
  ELSE LET b == CHOOSE i \in d.idx .. d.old.size - 1 :
                  d.old.buckets[i] # <<>> /\
                  \A j \in d.idx .. i - 1 : d.old.buckets[j] = <<>>
           chain == d.old.buckets[b]
       IN [old |-> [d.old EXCEPT !.used = @ - Len(chain), !.buckets[b] = <<>>],
           new |-> PushAll(d.new, chain),
           idx |-> b + 1]

TryRehash(d) == IF Rehashing(d) /\ iterators = 0 THEN RehashStep(d) ELSE d

(* dict_expand: the first table, or a second one and the start of a rehash. *)
Expand(d, n) ==
  IF d.old.size = 0 THEN [d EXCEPT !.old = NewTable(PowSize(n))]
  ELSE [d EXCEPT !.new = NewTable(PowSize(n)), !.idx = 0]

(* dict_try_expand *)
TryExpand(d) ==
  IF Rehashing(d) THEN d
  ELSE IF d.old.size = 0 THEN Expand(d, InitSize)
  ELSE IF d.old.used >= d.old.size THEN Expand(d, 2 * d.old.used)
  ELSE d

LookOldOnly(d, k) == InTable(d.old, k)        (* mutant: dt[1] is not searched *)

Present(d, k) == InTable(d.old, k) \/ (Rehashing(d) /\ InTable(d.new, k))

ValueOf(d, k) == IF InTable(d.old, k) THEN ValueIn(d.old, k) ELSE ValueIn(d.new, k)

InsertOld(d, e) == [d EXCEPT !.old = Push(@, e)]   (* mutant: always dt[0] *)

(* New entries go to the new table, which alone will stay. *)
Insert(d, e) ==
  IF Rehashing(d) THEN [d EXCEPT !.new = Push(@, e)] ELSE [d EXCEPT !.old = Push(@, e)]

Delete(d, k) ==
  IF InTable(d.old, k) THEN [d EXCEPT !.old = Drop(@, k)] ELSE [d EXCEPT !.new = Drop(@, k)]

Update(d, k, v) ==
  IF InTable(d.old, k) THEN [d EXCEPT !.old = SetValue(@, k, v)]
  ELSE [d EXCEPT !.new = SetValue(@, k, v)]

Init ==
  /\ old = NoTable /\ new = NoTable /\ rehashidx = -1
  /\ iterators = 0
  /\ iter = [i \in Iterators |-> [phase |-> "none"]]
  /\ reply = TRUE
  /\ due = [i \in Iterators |-> {}]
  /\ seen = [i \in Iterators |-> {}]

-----------------------------------------------------------------------------
(* dict_add, dict_replace, dict_find, dict_del, dict_clear *)

(* dict_add, from the table it is called with: whether it adds, and the     *)
(* table it leaves.                                                         *)
Prepared(d) == TryExpand(TryRehash(d))

Added(d, k, v) ==
  IF Present(d, k) THEN d ELSE Insert(d, [key |-> k, value |-> v])

Add(k, v) ==
  /\ LET d == Prepared(Now) IN
       /\ SetDict(Added(d, k, v))
       /\ reply' = ~Present(d, k)
  /\ UNCHANGED walks

(* dict_find looks at nothing when there is no table. *)
Found(d) == IF d.old.size = 0 THEN d ELSE TryRehash(d)

Find(k) ==
  /\ LET d == Found(Now) IN
       /\ SetDict(d)
       /\ reply' = IF Present(d, k) THEN ValueOf(d, k) ELSE Missing
  /\ UNCHANGED walks

(* dict_find, and dict_add when that finds nothing. *)
Replace(k, v) ==
  /\ LET d == Found(Now) IN
       IF Present(d, k)
       THEN SetDict(Update(d, k, v)) /\ reply' = FALSE
       ELSE SetDict(Added(Prepared(d), k, v)) /\ reply' = TRUE
  /\ UNCHANGED walks

Del(k) ==
  /\ \A i \in Iterators : iter[i].phase = "at" => iter[i].key # k
  /\ LET d == Found(Now) IN
       /\ SetDict(IF Present(d, k) THEN Delete(d, k) ELSE d)
       /\ reply' = Present(d, k)
  /\ due' = [i \in Iterators |-> due[i] \ {k}]
  /\ seen' = [i \in Iterators |-> seen[i] \ {k}]
  /\ UNCHANGED <<iterators, iter>>

Clear ==
  /\ \A i \in Iterators : iter[i].phase \in {"none", "made"}
  /\ SetDict([old |-> NoTable, new |-> NoTable, idx |-> -1])
  /\ UNCHANGED <<walks, reply>>

-----------------------------------------------------------------------------
(* Iterators *)

Create(i) ==
  /\ iter[i].phase = "none"
  /\ iter' = [iter EXCEPT ![i] = [phase |-> "made"]]
  /\ UNCHANGED <<tables, reply, iterators, due, seen>>

(* Where an iterator can stand: all entries, the old table first. *)
Table(t) == IF t = 0 THEN old ELSE new

Spots(t, from) ==
  {b \in from .. Table(t).size - 1 : Table(t).buckets[b] # <<>>}

At(t, b, j) ==
  [phase |-> "at", table |-> t, bucket |-> b, key |-> Table(t).buckets[b][j].key]

FirstAt(t, from) == At(t, CHOOSE b \in Spots(t, from) :
                            \A c \in Spots(t, from) : b <= c, 1)

FromOldBucket(t, from) ==        (* mutant: the new table is not walked *)
  IF Spots(t, from) # {} THEN FirstAt(t, from) ELSE [phase |-> "ended"]

(* From a bucket on; the new table follows the old one during a rehash. *)
FromBucket(t, from) ==
  IF Spots(t, from) # {} THEN FirstAt(t, from)
  ELSE IF t = 0 /\ rehashidx # -1 /\ Spots(1, 0) # {} THEN FirstAt(1, 0)
  ELSE [phase |-> "ended"]

AfterOldAgain(p) ==              (* mutant: the old table is walked again *)
  LET chain == Table(p.table).buckets[p.bucket]
      j == Place(chain, p.key)
      rest == FromBucket(p.table, p.bucket + 1)
  IN IF j < Len(chain) THEN At(p.table, p.bucket, j + 1)
     ELSE IF p.table = 1 /\ rest.phase = "ended" THEN FromBucket(0, 0)
     ELSE rest

(* entry->next, or else the next bucket. *)
After(p) ==
  LET chain == Table(p.table).buckets[p.bucket]
      j == Place(chain, p.key)
  IN IF j < Len(chain) THEN At(p.table, p.bucket, j + 1)
     ELSE FromBucket(p.table, p.bucket + 1)

(* The first dict_iterator_next counts the iterator. *)
StartIterator(i) ==
  /\ iter[i].phase = "made"
  /\ iterators' = iterators + 1
  /\ LET p == FromBucket(0, 0) IN
       /\ iter' = [iter EXCEPT ![i] = p]
       /\ seen' = [seen EXCEPT ![i] = IF p.phase = "at" THEN {p.key} ELSE {}]
       /\ due' = [due EXCEPT ![i] =
                    (KeysIn(old) \cup KeysIn(new)) \
                    IF p.phase = "at" THEN {p.key} ELSE {}]
  /\ UNCHANGED <<tables, reply>>

Advance(i) ==
  /\ iter[i].phase = "at"
  /\ LET p == After(iter[i])
         k == IF p.phase = "at" THEN {p.key} ELSE {} IN
       /\ iter' = [iter EXCEPT ![i] = p]
       /\ seen' = [seen EXCEPT ![i] = @ \cup k]
       /\ due' = [due EXCEPT ![i] = @ \ k]
  /\ UNCHANGED <<tables, reply, iterators>>

(* An iterator that has not started was not counted. *)
Destroy(i) ==
  /\ iter[i].phase # "none"
  /\ iterators' = IF iter[i].phase = "made" THEN iterators ELSE iterators - 1
  /\ iter' = [iter EXCEPT ![i] = [phase |-> "none"]]
  /\ due' = [due EXCEPT ![i] = {}]
  /\ seen' = [seen EXCEPT ![i] = {}]
  /\ UNCHANGED <<tables, reply>>

-----------------------------------------------------------------------------
Next ==
  \/ \E k \in Keys, v \in Values : Add(k, v) \/ Replace(k, v)
  \/ \E k \in Keys : Find(k) \/ Del(k)
  \/ Clear
  \/ \E i \in Iterators :
       Create(i) \/ StartIterator(i) \/ Advance(i) \/ Destroy(i)

Spec == Init /\ [][Next]_vars

-----------------------------------------------------------------------------
(* A table counts its entries, and keeps each in the bucket of its key, once. *)
TableOK(t) ==
  /\ t.used = Cardinality(KeysIn(t))
  /\ \A b \in DOMAIN t.buckets :
       \A i \in DOMAIN t.buckets[b] :
         LET k == t.buckets[b][i].key IN
           /\ b = Bucket(t, k)
           /\ \A j \in DOMAIN t.buckets[b] : t.buckets[b][j].key = k => i = j

(* During a rehash the buckets of the old table below rehashidx are empty,  *)
(* so that dict_rehash finds a bucket to move while entries are left; no key *)
(* is in both tables; without a rehash the new table is not there.          *)
Agree(d) ==
  /\ TableOK(d.old) /\ TableOK(d.new)
  /\ \A k \in Keys : ~(InTable(d.old, k) /\ InTable(d.new, k))
  /\ IF d.idx = -1 THEN d.new = NoTable
     ELSE /\ d.idx \in 0 .. d.old.size
          /\ d.new.size >= d.old.size
          /\ \A b \in 0 .. d.idx - 1 : d.old.buckets[b] = <<>>

TablesAgree == Agree(Now)

(* An iterator that has come to the end has returned every key that was     *)
(* there all the time, although entries were added, a rehash may have begun, *)
(* and other entries were deleted meanwhile.                                *)
WalkComplete == \A i \in Iterators : iter[i].phase = "ended" => due[i] = {}

(* No iterator returns a key twice. *)
NeverTwice ==
  [][\A i \in Iterators :
       iter'[i] # iter[i] /\ iter'[i].phase = "at" => iter'[i].key \notin seen[i]]_vars

(* The two tables together are the map of KeyMap. *)
Map == INSTANCE KeyMap
         WITH map <- [k \in {k \in Keys : Present(Now, k)} |-> ValueOf(Now, k)]

ImplementsMap == Map!Spec
=============================================================================
