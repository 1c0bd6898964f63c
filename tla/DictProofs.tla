----------------------------- MODULE DictProofs ------------------------------
(***************************************************************************)
(* Theorems about Dict, for any keys, values, hash and iterators.          *)
(***************************************************************************)
EXTENDS Dict, FiniteSetTheorems, TLAPS

(* The tables with n buckets. *)
Tables(n) == [size : {n}, used : Nat, buckets : [0 .. n - 1 -> Seq(Entry)]]

IsTable(t) == t.size \in Nat /\ t \in Tables(t.size)

-----------------------------------------------------------------------------
(* Sets of numbers have a least member: the intervals from 0 to their        *)
(* members are well founded by inclusion.                                    *)
LEMMA HasLeast ==
  ASSUME NEW S \in SUBSET Nat, S # {}
  PROVE  \E x \in S : \A y \in S : x <= y
<1> DEFINE T == {0 .. y : y \in S}
<1>1. T \subseteq FiniteSubsetsOf(Nat) /\ T # {}
  <2>1. ASSUME NEW y \in S PROVE 0 .. y \in FiniteSubsetsOf(Nat)
    <3>1. 0 .. y \subseteq Nat /\ 0 \in Int /\ y \in Int
      OBVIOUS
    <3>2. IsFiniteSet(0 .. y)
      BY <3>1, FS_Interval
    <3> QED BY <3>1, <3>2 DEF FiniteSubsetsOf
  <2> QED BY <2>1
<1>2. PICK u \in T : \A v \in T : <<v, u>> \notin StrictSubsetOrdering(Nat)
  <2> HIDE DEF T
  <2> QED BY <1>1, FS_StrictSubsetOrderingWellFounded, WFMin
<1>3. PICK x \in S : u = 0 .. x
  OBVIOUS
<1>4. ASSUME NEW y \in S PROVE x <= y
  <2>1. SUFFICES ASSUME y < x PROVE FALSE
    OBVIOUS
  <2>2. 0 .. y \subseteq 0 .. x /\ 0 .. y # 0 .. x
    BY <2>1, x \in 0 .. x, x \notin 0 .. y
  <2>3. 0 .. y \in SUBSET Nat /\ 0 .. x \in SUBSET Nat
    OBVIOUS
  <2>4. <<0 .. y, 0 .. x>> \in StrictSubsetOrdering(Nat)
    BY <2>2, <2>3 DEF StrictSubsetOrdering
  <2>5. 0 .. y \in T
    OBVIOUS
  <2> QED BY <2>4, <2>5, <1>2, <1>3
<1> QED BY <1>4

(* Induction, over a set in place of a predicate. *)
LEMMA Induction ==
  ASSUME NEW m \in Nat, NEW S, 0 \in S,
         \A n \in 0 .. m : n + 1 <= m /\ n \in S => n + 1 \in S
  PROVE  \A n \in 0 .. m : n \in S
<1> SUFFICES ASSUME NEW b \in 0 .. m, b \notin S PROVE FALSE
  OBVIOUS
<1> DEFINE T == {n \in 0 .. m : n \notin S}
<1>1. T \in SUBSET Nat /\ T # {}
  OBVIOUS
<1>2. PICK x \in T : \A y \in T : x <= y
  <2> HIDE DEF T
  <2> QED BY <1>1, HasLeast
<1>3. x # 0 /\ x - 1 \in 0 .. m
  OBVIOUS
<1>4. x - 1 \in S
  BY <1>2, <1>3
<1> QED BY <1>3, <1>4, (x - 1) + 1 = x

(* A function defined step by step on 0 .. m exists. *)
Stepwise(f, m, a, G) == f[0] = a /\ \A n \in 1 .. m : f[n] = G[n][f[n - 1]]

LEMMA StepByStep ==
  ASSUME NEW m \in Nat, NEW S, NEW a \in S, NEW G \in [1 .. m -> [S -> S]]
  PROVE  \E f \in [0 .. m -> S] : Stepwise(f, m, a, G)
<1> USE DEF Stepwise
<1> DEFINE Up(n) == \E f \in [0 .. n -> S] : Stepwise(f, n, a, G)
           T == {n \in 0 .. m : Up(n)}
<1>1. Up(0)
  <2> DEFINE f == [i \in 0 .. 0 |-> a]
  <2>1. f \in [0 .. 0 -> S] /\ f[0] = a /\ 1 .. 0 = {}
    OBVIOUS
  <2> QED BY <2>1
<1>2. ASSUME NEW n \in 0 .. m, n + 1 <= m, Up(n) PROVE Up(n + 1)
  <2>1. PICK f \in [0 .. n -> S] : Stepwise(f, n, a, G)
    BY <1>2
  <2> DEFINE g == [i \in 0 .. n + 1 |-> IF i = n + 1 THEN G[n + 1][f[n]] ELSE f[i]]
  <2>2. g \in [0 .. n + 1 -> S]
    <3>1. n + 1 \in 1 .. m /\ n \in 0 .. n /\ f[n] \in S
      BY <1>2
    <3>2. G[n + 1][f[n]] \in S
      BY <3>1
    <3> QED BY <3>2
  <2>3. ASSUME NEW i \in 1 .. n + 1 PROVE g[i] = G[i][g[i - 1]]
    <3>1. g[i - 1] = f[i - 1] /\ n \in Nat /\ i \in 0 .. n + 1
      BY <1>2
    <3>2. CASE i = n + 1
      BY <3>1, <3>2
    <3>3. CASE i # n + 1
      BY <2>1, <3>1, <3>3
    <3> QED BY <3>2, <3>3
  <2>4. g[0] = a
    BY <2>1
  <2> HIDE DEF g
  <2> QED BY <2>2, <2>3, <2>4
<1>3. 0 \in T
  BY <1>1
<1>4. \A n \in 0 .. m : n + 1 <= m /\ n \in T => n + 1 \in T
  <2> HIDE DEF Up
  <2> QED BY <1>2
<1>5. \A n \in 0 .. m : n \in T
  <2> HIDE DEF T
  <2> QED BY <1>3, <1>4, Induction
<1> QED BY <1>5, m \in 0 .. m

-----------------------------------------------------------------------------
(* A table whose counter is right and whose keys are where they belong.      *)
Sound(t) == IsTable(t) /\ TableOK(t) /\ IsFiniteSet(KeysIn(t))

(* Where k is in its table.                                                  *)
PlaceIn(t, k) == Place(Chain(t, k), k)

(* A walk through t comes by k before it comes by l.                         *)
Precedes(t, k, l) ==
  \/ Bucket(t, k) < Bucket(t, l)
  \/ Bucket(t, k) = Bucket(t, l) /\ PlaceIn(t, k) < PlaceIn(t, l)

LEMMA BucketIs ==
  ASSUME NEW t, IsTable(t), t.size > 0, NEW k \in Keys
  PROVE  Bucket(t, k) \in 0 .. t.size - 1 /\ Chain(t, k) \in Seq(Entry)
<1>1. Hash[k] \in Nat /\ t.size \in Nat \ {0}
  BY HashAssumption DEF IsTable
<1>2. Bucket(t, k) \in 0 .. t.size - 1
  BY <1>1 DEF Bucket
<1>3. t.buckets \in [0 .. t.size - 1 -> Seq(Entry)]
  BY DEF IsTable, Tables
<1> QED BY <1>2, <1>3 DEF Chain

LEMMA PlaceIs ==
  ASSUME NEW t, IsTable(t), NEW k \in Keys, InTable(t, k)
  PROVE  /\ PlaceIn(t, k) \in 1 .. Len(Chain(t, k))
         /\ Chain(t, k)[PlaceIn(t, k)].key = k
         /\ t.size > 0
<1>1. \E i \in DOMAIN Chain(t, k) : Chain(t, k)[i].key = k
  BY DEF InTable
<1>2. Place(Chain(t, k), k) \in DOMAIN Chain(t, k)
      /\ Chain(t, k)[Place(Chain(t, k), k)].key = k
  BY <1>1 DEF Place
<1>3. t.size > 0
  BY DEF InTable
<1>4. Chain(t, k) \in Seq(Entry)
  BY <1>3, BucketIs
<1> QED BY <1>2, <1>3, <1>4 DEF PlaceIn

LEMMA PlaceOnly ==
  ASSUME NEW t, Sound(t), t.size > 0,
         NEW k \in Keys, NEW i \in 1 .. Len(Chain(t, k)), Chain(t, k)[i].key = k
  PROVE  InTable(t, k) /\ PlaceIn(t, k) = i
<1>1. Bucket(t, k) \in 0 .. t.size - 1 /\ Chain(t, k) \in Seq(Entry)
  BY BucketIs DEF Sound
<1>2. DOMAIN Chain(t, k) = 1 .. Len(Chain(t, k))
  BY <1>1
<1>3. InTable(t, k)
  BY <1>2 DEF InTable
<1>4. PlaceIn(t, k) \in 1 .. Len(Chain(t, k)) /\ Chain(t, k)[PlaceIn(t, k)].key = k
  BY <1>3, PlaceIs DEF Sound
<1>5. DOMAIN t.buckets = 0 .. t.size - 1
  BY DEF Sound, IsTable, Tables
<1>6. \A j \in DOMAIN Chain(t, k) : Chain(t, k)[j].key = k => i = j
  BY <1>1, <1>2, <1>5 DEF Sound, TableOK, Chain
<1> QED BY <1>2, <1>3, <1>4, <1>6

(* To show that keys are where they belong it is enough to look at chains.   *)
LEMMA KeysInPlace ==
  ASSUME NEW t, Sound(t), NEW b \in 0 .. t.size - 1, NEW i \in 1 .. Len(t.buckets[b])
  PROVE  LET k == t.buckets[b][i].key IN
         k \in Keys /\ b = Bucket(t, k) /\ InTable(t, k) /\ PlaceIn(t, k) = i
<1> DEFINE k == t.buckets[b][i].key
<1>1. t.buckets \in [0 .. t.size - 1 -> Seq(Entry)] /\ t.size \in Nat
  BY DEF Sound, IsTable, Tables
<1>2. DOMAIN t.buckets = 0 .. t.size - 1 /\ DOMAIN t.buckets[b] = 1 .. Len(t.buckets[b])
      /\ t.buckets[b][i] \in Entry
  BY <1>1
<1>3. k \in Keys
  BY <1>2 DEF Entry
<1>4. b = Bucket(t, k)
  BY <1>2 DEF Sound, TableOK
<1>5. t.size > 0
  BY <1>1
<1>6. Chain(t, k) = t.buckets[b]
  BY <1>4 DEF Chain
<1> QED BY <1>3, <1>4, <1>5, <1>6, PlaceOnly

LEMMA NewTableIs ==
  ASSUME NEW n \in Nat
  PROVE  Sound(NewTable(n)) /\ NewTable(n).size = n /\ KeysIn(NewTable(n)) = {}
<1> DEFINE t == NewTable(n)
<1>1. t \in Tables(n) /\ t.size = n /\ t.used = 0
      /\ \A b \in 0 .. n - 1 : t.buckets[b] = <<>>
  BY DEF NewTable, Tables
<1>2. IsTable(t)
  BY <1>1 DEF IsTable
<1>3. ASSUME NEW k \in Keys, InTable(t, k) PROVE FALSE
  <2>1. Bucket(t, k) \in 0 .. n - 1 /\ t.size > 0
    BY <1>1, <1>2, <1>3, BucketIs DEF InTable
  <2>2. Chain(t, k) = <<>>
    BY <1>1, <2>1 DEF Chain
  <2> QED BY <1>3, <2>2 DEF InTable
<1>4. KeysIn(t) = {}
  BY <1>3 DEF KeysIn
<1>5. TableOK(t)
  <2>1. DOMAIN t.buckets = 0 .. n - 1
    BY <1>1 DEF Tables
  <2> QED BY <1>1, <1>4, <2>1, FS_EmptySet DEF TableOK
<1> QED BY <1>1, <1>2, <1>4, <1>5, FS_EmptySet DEF Sound

-----------------------------------------------------------------------------
LEMMA PushShape ==
  ASSUME NEW t, IsTable(t), t.size > 0, NEW e \in Entry,
         NEW u, u = Push(t, e)
  PROVE  /\ IsTable(u) /\ u.size = t.size /\ u.used = t.used + 1
         /\ \A k \in Keys : Bucket(u, k) = Bucket(t, k)
         /\ \A b \in 0 .. t.size - 1 :
              u.buckets[b] = IF b = Bucket(t, e.key) THEN <<e>> \o t.buckets[b] ELSE t.buckets[b]
<1>1. e.key \in Keys
  BY DEF Entry
<1>2. Bucket(t, e.key) \in 0 .. t.size - 1 /\ Chain(t, e.key) \in Seq(Entry)
  BY <1>1, BucketIs
<1>3. t.buckets \in [0 .. t.size - 1 -> Seq(Entry)] /\ t.used \in Nat /\ t.size \in Nat
  BY DEF IsTable, Tables
<1>4. u.buckets = [t.buckets EXCEPT ![Bucket(t, e.key)] = <<e>> \o @]
      /\ u.used = t.used + 1 /\ u.size = t.size
      /\ u = [size |-> u.size, used |-> u.used, buckets |-> u.buckets]
  BY DEF Push, IsTable, Tables
<1>5. <<e>> \o t.buckets[Bucket(t, e.key)] \in Seq(Entry)
  BY <1>2 DEF Chain
<1>6. u.buckets \in [0 .. t.size - 1 -> Seq(Entry)]
  BY <1>3, <1>4, <1>5
<1>7. IsTable(u)
  <2>1. u.size \in Nat /\ u.used \in Nat /\ u.buckets \in [0 .. u.size - 1 -> Seq(Entry)]
    BY <1>3, <1>4, <1>6
  <2>2. u \in Tables(u.size)
    BY <1>4, <2>1, Zenon DEF Tables
  <2> QED BY <2>1, <2>2 DEF IsTable
<1> QED BY <1>2, <1>3, <1>4, <1>7 DEF Bucket

(* A new entry comes to the others, whose order stays.                       *)
LEMMA PushKeeps ==
  ASSUME NEW t, Sound(t), t.size > 0, NEW e \in Entry, ~InTable(t, e.key),
         NEW u, u = Push(t, e)
  PROVE  /\ Sound(u) /\ u.size = t.size
         /\ KeysIn(u) = KeysIn(t) \cup {e.key}
         /\ ValueIn(u, e.key) = e.value
         /\ \A k \in KeysIn(t) : ValueIn(u, k) = ValueIn(t, k)
         /\ \A k, l \in KeysIn(t) : Precedes(u, k, l) <=> Precedes(t, k, l)
<1> DEFINE c == Bucket(t, e.key)
<1>1. /\ IsTable(u) /\ u.size = t.size /\ u.used = t.used + 1
      /\ \A k \in Keys : Bucket(u, k) = Bucket(t, k)
      /\ \A b \in 0 .. t.size - 1 :
           u.buckets[b] = IF b = c THEN <<e>> \o t.buckets[b] ELSE t.buckets[b]
  BY PushShape DEF Sound
<1>2. e.key \in Keys /\ c \in 0 .. t.size - 1
  BY BucketIs DEF Entry, Sound
<1>3. \A b \in 0 .. t.size - 1 : t.buckets[b] \in Seq(Entry)
  BY DEF Sound, IsTable, Tables
<1>4. DOMAIN u.buckets = 0 .. t.size - 1
  BY <1>1 DEF IsTable, Tables
<1> HIDE DEF c
<1>5. ASSUME NEW b \in 0 .. t.size - 1, NEW i \in DOMAIN u.buckets[b]
      PROVE  LET k == u.buckets[b][i].key IN
             /\ b = Bucket(u, k)
             /\ \A j \in DOMAIN u.buckets[b] : u.buckets[b][j].key = k => i = j
  <2>1. CASE b # c
    <3>1. u.buckets[b] = t.buckets[b] /\ DOMAIN t.buckets[b] = 1 .. Len(t.buckets[b])
      BY <1>1, <2>1, <1>3
    <3>2. \A j \in 1 .. Len(t.buckets[b]) :
            LET k == t.buckets[b][j].key IN
            k \in Keys /\ b = Bucket(t, k) /\ PlaceIn(t, k) = j
      BY KeysInPlace
    <3>3. i \in 1 .. Len(t.buckets[b]) /\ \A j \in DOMAIN u.buckets[b] : j \in 1 .. Len(t.buckets[b])
      BY <3>1
    <3> QED BY <1>1, <3>1, <3>2, <3>3
  <2>2. CASE b = c
    <3>1. u.buckets[b] = <<e>> \o t.buckets[b] /\ t.buckets[b] \in Seq(Entry)
      BY <1>1, <1>3, <2>2
    <3>2. DOMAIN u.buckets[b] = 1 .. Len(t.buckets[b]) + 1
      BY <3>1
    <3>3. u.buckets[b][1] = e
      BY <3>1
    <3>4. \A j \in 2 .. Len(t.buckets[b]) + 1 :
            u.buckets[b][j] = t.buckets[b][j - 1] /\ j - 1 \in 1 .. Len(t.buckets[b])
      BY <3>1
    <3>5. \A j \in 1 .. Len(t.buckets[b]) :
            LET k == t.buckets[b][j].key IN
            k \in Keys /\ b = Bucket(t, k) /\ InTable(t, k) /\ PlaceIn(t, k) = j
      BY KeysInPlace
    <3>6. CASE i = 1
      <4>1. u.buckets[b][i].key = e.key /\ b = Bucket(u, e.key)
        BY <1>1, <1>2, <2>2, <3>3, <3>6 DEF c
      <4>2. ASSUME NEW j \in DOMAIN u.buckets[b], j # 1 PROVE u.buckets[b][j].key # e.key
        <5>1. j \in 2 .. Len(t.buckets[b]) + 1
          BY <3>1, <3>2, <4>2
        <5>2. u.buckets[b][j] = t.buckets[b][j - 1] /\ j - 1 \in 1 .. Len(t.buckets[b])
          BY <3>4, <5>1
        <5>3. InTable(t, t.buckets[b][j - 1].key)
          BY <3>5, <5>2
        <5> QED BY <5>2, <5>3
      <4> QED BY <3>6, <4>1, <4>2
    <3>7. CASE i # 1
      <4>1. i \in 2 .. Len(t.buckets[b]) + 1 /\ i - 1 \in 1 .. Len(t.buckets[b])
        BY <3>2, <3>7, <3>1
      <4>2. u.buckets[b][i].key # e.key /\ u.buckets[b][i] = t.buckets[b][i - 1]
        BY <3>4, <3>5, <4>1
      <4>3. b = Bucket(u, u.buckets[b][i].key)
        BY <1>1, <3>5, <4>1, <4>2
      <4>4. ASSUME NEW j \in DOMAIN u.buckets[b], u.buckets[b][j].key = u.buckets[b][i].key
            PROVE  i = j
        <5>1. j # 1 /\ j \in 2 .. Len(t.buckets[b]) + 1 /\ j - 1 \in 1 .. Len(t.buckets[b])
          BY <3>1, <3>2, <3>3, <4>2, <4>4
        <5>2. i - 1 = j - 1
          BY <3>4, <3>5, <4>1, <4>2, <4>4, <5>1
        <5> QED BY <5>1, <4>1, <5>2
      <4> QED BY <4>3, <4>4
    <3> QED BY <3>6, <3>7
  <2> QED BY <2>1, <2>2
<1>6. ASSUME NEW k \in KeysIn(t)
      PROVE  /\ InTable(u, k)
             /\ Chain(u, k)[PlaceIn(t, k) + IF Bucket(t, k) = c THEN 1 ELSE 0]
                  = Chain(t, k)[PlaceIn(t, k)]
             /\ PlaceIn(t, k) + (IF Bucket(t, k) = c THEN 1 ELSE 0) \in 1 .. Len(Chain(u, k))
             /\ Chain(t, k)[PlaceIn(t, k)].key = k
  <2>1. k \in Keys /\ InTable(t, k)
    BY DEF KeysIn
  <2>2. /\ PlaceIn(t, k) \in 1 .. Len(Chain(t, k))
        /\ Chain(t, k)[PlaceIn(t, k)].key = k
    BY <2>1, PlaceIs DEF Sound
  <2>3. Bucket(t, k) \in 0 .. t.size - 1 /\ Chain(t, k) \in Seq(Entry)
    BY <2>1, BucketIs DEF Sound
  <2>4. Chain(u, k) = IF Bucket(t, k) = c THEN <<e>> \o Chain(t, k) ELSE Chain(t, k)
    BY <1>1, <2>1, <2>3 DEF Chain
  <2>5. Chain(u, k)[PlaceIn(t, k) + IF Bucket(t, k) = c THEN 1 ELSE 0] = Chain(t, k)[PlaceIn(t, k)]
        /\ PlaceIn(t, k) + (IF Bucket(t, k) = c THEN 1 ELSE 0) \in DOMAIN Chain(u, k)
        /\ DOMAIN Chain(u, k) = 1 .. Len(Chain(u, k))
    BY <2>2, <2>3, <2>4
  <2> QED BY <1>1, <2>2, <2>5 DEF InTable
<1>7. InTable(u, e.key) /\ 1 \in 1 .. Len(Chain(u, e.key)) /\ Chain(u, e.key)[1] = e
  <2>1. Chain(u, e.key) = <<e>> \o t.buckets[c] /\ t.buckets[c] \in Seq(Entry)
    BY <1>1, <1>2, <1>3 DEF Chain, c
  <2>2. Chain(u, e.key)[1] = e /\ 1 \in DOMAIN Chain(u, e.key) /\ 1 \in 1 .. Len(Chain(u, e.key))
    BY <2>1
  <2> QED BY <1>1, <2>2 DEF InTable
<1>8. ASSUME NEW k \in KeysIn(u), k # e.key PROVE k \in KeysIn(t)
  <2>1. k \in Keys /\ InTable(u, k)
    BY <1>8 DEF KeysIn
  <2>2. Bucket(t, k) \in 0 .. t.size - 1 /\ Chain(t, k) \in Seq(Entry)
    BY <2>1, BucketIs DEF Sound
  <2>3. Chain(u, k) = IF Bucket(t, k) = c THEN <<e>> \o Chain(t, k) ELSE Chain(t, k)
    BY <1>1, <2>1, <2>2 DEF Chain
  <2>4. PICK i \in DOMAIN Chain(u, k) : Chain(u, k)[i].key = k
    BY <2>1 DEF InTable
  <2>5. \E j \in DOMAIN Chain(t, k) : Chain(t, k)[j].key = k
    BY <1>8, <2>2, <2>3, <2>4
  <2> QED BY <2>1, <2>5 DEF KeysIn, InTable
<1>9. KeysIn(u) = KeysIn(t) \cup {e.key}
  BY <1>2, <1>6, <1>7, <1>8 DEF KeysIn
<1>10. u.used = Cardinality(KeysIn(u)) /\ IsFiniteSet(KeysIn(u))
  <2>1. e.key \notin KeysIn(t) /\ t.used = Cardinality(KeysIn(t)) /\ IsFiniteSet(KeysIn(t))
    BY DEF KeysIn, Sound, TableOK
  <2> QED BY <1>1, <1>9, <2>1, FS_AddElement
<1>11. Sound(u)
  BY <1>1, <1>4, <1>5, <1>10 DEF Sound, TableOK
<1>12. PlaceIn(u, e.key) = 1
  BY <1>1, <1>2, <1>7, <1>11, PlaceOnly
<1>13. ASSUME NEW k \in KeysIn(t)
       PROVE  PlaceIn(u, k) = PlaceIn(t, k) + IF Bucket(t, k) = c THEN 1 ELSE 0
  <2>1. k \in Keys
    BY DEF KeysIn
  <2> QED BY <1>1, <1>6, <1>11, <2>1, PlaceOnly
<1>14. ValueIn(u, e.key) = e.value /\ \A k \in KeysIn(t) : ValueIn(u, k) = ValueIn(t, k)
  BY <1>6, <1>7, <1>12, <1>13 DEF ValueIn, PlaceIn
<1>15. ASSUME NEW k \in KeysIn(t), NEW l \in KeysIn(t)
       PROVE  Precedes(u, k, l) <=> Precedes(t, k, l)
  <2>1. k \in Keys /\ l \in Keys /\ InTable(t, k) /\ InTable(t, l)
    BY DEF KeysIn
  <2>2. PlaceIn(t, k) \in 1 .. Len(Chain(t, k)) /\ PlaceIn(t, l) \in 1 .. Len(Chain(t, l))
        /\ Len(Chain(t, k)) \in Nat /\ Len(Chain(t, l)) \in Nat
    BY <2>1, PlaceIs, BucketIs DEF Sound
  <2> QED BY <1>1, <1>13, <2>1, <2>2 DEF Precedes
<1> QED BY <1>1, <1>9, <1>11, <1>14, <1>15

-----------------------------------------------------------------------------
LEMMA RemoveAtIs ==
  ASSUME NEW S, NEW s \in Seq(S), NEW i \in 1 .. Len(s)
  PROVE  /\ RemoveAt(s, i) \in Seq(S) /\ Len(RemoveAt(s, i)) = Len(s) - 1
         /\ \A j \in 1 .. Len(s) - 1 :
              RemoveAt(s, i)[j] = IF j < i THEN s[j] ELSE s[j + 1]
<1> DEFINE head == SubSeq(s, 1, i - 1)
           tail == SubSeq(s, i + 1, Len(s))
<1>1. head \in Seq(S) /\ Len(head) = i - 1 /\ \A j \in 1 .. i - 1 : head[j] = s[j]
  OBVIOUS
<1>2. tail \in Seq(S) /\ Len(tail) = Len(s) - i
      /\ \A j \in 1 .. Len(s) - i : tail[j] = s[i + j]
  OBVIOUS
<1>3. RemoveAt(s, i) = head \o tail
  BY DEF RemoveAt
<1> HIDE DEF head, tail
<1>4. head \o tail \in Seq(S) /\ Len(head \o tail) = Len(s) - 1
  <2>1. head \in Seq(S) /\ tail \in Seq(S) /\ Len(s) \in Nat /\ i \in Int
    BY <1>1, <1>2
  <2>2. head \o tail \in Seq(S) /\ Len(head \o tail) = Len(head) + Len(tail)
    BY <2>1
  <2> QED BY <1>1, <1>2, <2>1, <2>2
<1>5. ASSUME NEW j \in 1 .. Len(s) - 1
      PROVE  (head \o tail)[j] = IF j < i THEN s[j] ELSE s[j + 1]
  <2>1. CASE j < i
    BY <1>1, <1>2, <2>1
  <2>2. CASE ~(j < i)
    <3>1. (head \o tail)[j] = tail[j - (i - 1)]
      BY <1>1, <1>2, <2>2
    <3>2. j - (i - 1) \in 1 .. Len(s) - i
      BY <2>2
    <3> QED BY <1>2, <2>2, <3>1, <3>2, i + (j - (i - 1)) = j + 1
  <2> QED BY <2>1, <2>2
<1> QED BY <1>3, <1>4, <1>5

(* One entry goes; the others keep their values and their order.             *)
LEMMA DropKeeps ==
  ASSUME NEW t, Sound(t), NEW k \in Keys, InTable(t, k), NEW u, u = Drop(t, k)
  PROVE  /\ Sound(u) /\ u.size = t.size
         /\ KeysIn(u) = KeysIn(t) \ {k}
         /\ \A l \in KeysIn(u) : ValueIn(u, l) = ValueIn(t, l)
         /\ \A l, n \in KeysIn(u) : Precedes(u, l, n) <=> Precedes(t, l, n)
<1> DEFINE c == Bucket(t, k)
           h == PlaceIn(t, k)
           Down(l) == IF Bucket(t, l) = c /\ PlaceIn(t, l) > h THEN 1 ELSE 0
<1>1. c \in 0 .. t.size - 1 /\ Chain(t, k) \in Seq(Entry) /\ t.size \in Nat /\ t.size > 0
  BY PlaceIs, BucketIs DEF Sound, IsTable
<1>2. h \in 1 .. Len(t.buckets[c]) /\ t.buckets[c][h].key = k /\ t.buckets[c] \in Seq(Entry)
  BY <1>1, PlaceIs DEF Sound, Chain
<1>3. t.buckets \in [0 .. t.size - 1 -> Seq(Entry)] /\ t.used \in Nat
      /\ \A b \in 0 .. t.size - 1 : t.buckets[b] \in Seq(Entry)
  BY DEF Sound, IsTable, Tables
<1>4. k \in KeysIn(t) /\ t.used = Cardinality(KeysIn(t)) /\ IsFiniteSet(KeysIn(t))
  BY DEF KeysIn, Sound, TableOK
<1>5. t.used - 1 = Cardinality(KeysIn(t) \ {k}) /\ IsFiniteSet(KeysIn(t) \ {k})
      /\ t.used - 1 \in Nat
  <2>1. IsFiniteSet(KeysIn(t) \ {k})
        /\ Cardinality(KeysIn(t) \ {k}) = Cardinality(KeysIn(t)) - 1
    BY <1>4, FS_RemoveElement
  <2>2. Cardinality(KeysIn(t) \ {k}) \in Nat
    BY <2>1, FS_CardinalityType
  <2> QED BY <1>4, <2>1, <2>2
<1>6. u = [t EXCEPT !.used = @ - 1, !.buckets[c] = RemoveAt(@, h)]
  BY DEF Drop, PlaceIn, Chain
<1>7. u.buckets = [t.buckets EXCEPT ![c] = RemoveAt(@, h)]
      /\ u.used = t.used - 1 /\ u.size = t.size
      /\ u = [size |-> u.size, used |-> u.used, buckets |-> u.buckets]
  BY <1>6 DEF Sound, IsTable, Tables
<1> HIDE DEF c, h
<1>8. RemoveAt(t.buckets[c], h) \in Seq(Entry)
      /\ Len(RemoveAt(t.buckets[c], h)) = Len(t.buckets[c]) - 1
      /\ \A j \in 1 .. Len(t.buckets[c]) - 1 :
           RemoveAt(t.buckets[c], h)[j] =
             IF j < h THEN t.buckets[c][j] ELSE t.buckets[c][j + 1]
  BY <1>2, RemoveAtIs
<1>9. u.buckets \in [0 .. t.size - 1 -> Seq(Entry)]
  BY <1>3, <1>7, <1>8
<1>10. IsTable(u)
  <2>1. u.size \in Nat /\ u.used \in Nat /\ u.buckets \in [0 .. u.size - 1 -> Seq(Entry)]
    BY <1>1, <1>5, <1>7, <1>9
  <2>2. u \in Tables(u.size)
    BY <1>7, <2>1, Zenon DEF Tables
  <2> QED BY <2>1, <2>2 DEF IsTable
<1>11. /\ DOMAIN u.buckets = 0 .. t.size - 1
       /\ \A b \in 0 .. t.size - 1 :
            u.buckets[b] = IF b = c THEN RemoveAt(t.buckets[c], h) ELSE t.buckets[b]
       /\ \A l \in Keys : Bucket(u, l) = Bucket(t, l)
  BY <1>1, <1>3, <1>7 DEF Bucket
(* Every place of the new table is one of the old table. *)
<1>12. ASSUME NEW b \in 0 .. t.size - 1, NEW i \in DOMAIN u.buckets[b]
       PROVE  \E j \in 1 .. Len(t.buckets[b]) :
                /\ u.buckets[b][i] = t.buckets[b][j]
                /\ j = i + IF b = c /\ i >= h THEN 1 ELSE 0
                /\ b = c => j # h
  <2>1. CASE b = c
    <3>1. u.buckets[b] = RemoveAt(t.buckets[c], h) /\ Len(t.buckets[c]) \in Nat
      BY <1>2, <1>11, <2>1
    <3>2. i \in 1 .. Len(t.buckets[c]) - 1
      BY <1>8, <3>1
    <3>3. u.buckets[b][i] = IF i < h THEN t.buckets[c][i] ELSE t.buckets[c][i + 1]
      BY <1>8, <3>1, <3>2
    <3>4. i \in 1 .. Len(t.buckets[b]) /\ i + 1 \in 1 .. Len(t.buckets[b])
      BY <2>1, <3>1, <3>2
    <3>5. CASE i < h
      BY <1>2, <2>1, <3>2, <3>3, <3>4, <3>5
    <3>6. CASE i >= h
      BY <1>2, <2>1, <3>2, <3>3, <3>4, <3>6
    <3> QED BY <1>2, <3>2, <3>5, <3>6
  <2>2. CASE b # c
    BY <1>3, <1>11, <2>2
  <2> QED BY <2>1, <2>2
<1>13. ASSUME NEW b \in 0 .. t.size - 1, NEW i \in DOMAIN u.buckets[b]
       PROVE  LET l == u.buckets[b][i].key IN
              /\ l \in KeysIn(t) /\ l # k /\ b = Bucket(t, l)
              /\ PlaceIn(t, l) = i + IF b = c /\ i >= h THEN 1 ELSE 0
  <2>1. PICK j \in 1 .. Len(t.buckets[b]) :
               /\ u.buckets[b][i] = t.buckets[b][j]
               /\ j = i + IF b = c /\ i >= h THEN 1 ELSE 0
               /\ b = c => j # h
    BY <1>12
  <2> DEFINE l == u.buckets[b][i].key
  <2>2. l \in Keys /\ b = Bucket(t, l) /\ InTable(t, l) /\ PlaceIn(t, l) = j
    <3>1. LET n == t.buckets[b][j].key IN
          n \in Keys /\ b = Bucket(t, n) /\ InTable(t, n) /\ PlaceIn(t, n) = j
      BY KeysInPlace
    <3> QED BY <2>1, <3>1
  <2>3. l # k
    BY <2>1, <2>2 DEF c, h
  <2> QED BY <2>1, <2>2, <2>3 DEF KeysIn
<1>14. ASSUME NEW b \in 0 .. t.size - 1, NEW i \in DOMAIN u.buckets[b]
       PROVE  LET l == u.buckets[b][i].key IN
              /\ b = Bucket(u, l)
              /\ \A j \in DOMAIN u.buckets[b] : u.buckets[b][j].key = l => i = j
  <2> DEFINE l == u.buckets[b][i].key
  <2>1. b = Bucket(u, l)
    BY <1>11, <1>13 DEF KeysIn
  <2>2. ASSUME NEW j \in DOMAIN u.buckets[b], u.buckets[b][j].key = l PROVE i = j
    <3>1. i + (IF b = c /\ i >= h THEN 1 ELSE 0) = j + IF b = c /\ j >= h THEN 1 ELSE 0
      BY <1>13, <2>2
    <3>2. i \in Int /\ j \in Int /\ h \in Int
      <4>1. u.buckets[b] \in Seq(Entry)
        BY <1>9
      <4>2. h \in Int
        BY <1>2
      <4> QED BY <4>1, <4>2
    <3> QED BY <3>1, <3>2
  <2> QED BY <2>1, <2>2
<1>15. ASSUME NEW l \in KeysIn(u) PROVE l \in KeysIn(t) \ {k}
  <2>1. l \in Keys /\ InTable(u, l)
    BY DEF KeysIn
  <2>2. PICK i \in DOMAIN Chain(u, l) : Chain(u, l)[i].key = l
    BY <2>1 DEF InTable
  <2>3. Bucket(u, l) \in 0 .. t.size - 1
    BY <2>1, <1>7, <1>10, BucketIs DEF InTable
  <2> QED BY <1>13, <2>2, <2>3 DEF Chain
<1>16. ASSUME NEW l \in KeysIn(t), l # k
       PROVE  /\ InTable(u, l)
              /\ PlaceIn(t, l) - Down(l) \in 1 .. Len(Chain(u, l))
              /\ Chain(u, l)[PlaceIn(t, l) - Down(l)] = Chain(t, l)[PlaceIn(t, l)]
              /\ Chain(t, l)[PlaceIn(t, l)].key = l
  <2>1. l \in Keys /\ InTable(t, l)
    BY DEF KeysIn
  <2>2. PlaceIn(t, l) \in 1 .. Len(Chain(t, l)) /\ Chain(t, l)[PlaceIn(t, l)].key = l
    BY <2>1, PlaceIs DEF Sound
  <2>3. Bucket(t, l) \in 0 .. t.size - 1 /\ Chain(t, l) \in Seq(Entry)
    BY <2>1, <1>1, BucketIs DEF Sound
  <2>4. Chain(u, l) = IF Bucket(t, l) = c THEN RemoveAt(t.buckets[c], h) ELSE Chain(t, l)
    BY <1>11, <2>1, <2>3 DEF Chain
  <2>5. Bucket(t, l) = c => Chain(t, l) = t.buckets[c] /\ PlaceIn(t, l) # h
    BY <1>2, <1>16, <2>2 DEF Chain
  <2>6. PlaceIn(t, l) - Down(l) \in DOMAIN Chain(u, l)
        /\ PlaceIn(t, l) - Down(l) \in 1 .. Len(Chain(u, l))
        /\ Chain(u, l)[PlaceIn(t, l) - Down(l)] = Chain(t, l)[PlaceIn(t, l)]
    BY <1>2, <1>8, <2>2, <2>3, <2>4, <2>5
  <2> QED BY <1>1, <1>7, <2>2, <2>6 DEF InTable
<1>17. KeysIn(u) = KeysIn(t) \ {k}
  BY <1>15, <1>16 DEF KeysIn
<1>18. Sound(u)
  BY <1>5, <1>7, <1>10, <1>11, <1>14, <1>17 DEF Sound, TableOK
<1>19. ASSUME NEW l \in KeysIn(u) PROVE PlaceIn(u, l) = PlaceIn(t, l) - Down(l)
  BY <1>1, <1>7, <1>16, <1>17, <1>18, PlaceOnly DEF KeysIn
<1>20. \A l \in KeysIn(u) : ValueIn(u, l) = ValueIn(t, l)
  BY <1>16, <1>17, <1>19 DEF ValueIn, PlaceIn
<1>21. ASSUME NEW l \in KeysIn(u), NEW n \in KeysIn(u)
       PROVE  Precedes(u, l, n) <=> Precedes(t, l, n)
  <2>1. l \in Keys /\ n \in Keys /\ InTable(t, l) /\ InTable(t, n) /\ l # k /\ n # k
    BY <1>17 DEF KeysIn
  <2>2. PlaceIn(t, l) \in 1 .. Len(Chain(t, l)) /\ PlaceIn(t, n) \in 1 .. Len(Chain(t, n))
        /\ Len(Chain(t, l)) \in Nat /\ Len(Chain(t, n)) \in Nat
        /\ Chain(t, l)[PlaceIn(t, l)].key = l /\ Chain(t, n)[PlaceIn(t, n)].key = n
    BY <2>1, <1>1, PlaceIs, BucketIs DEF Sound
  <2>3. Bucket(t, l) = c => PlaceIn(t, l) # h
    BY <1>2, <2>1, <2>2 DEF Chain
  <2>4. Bucket(t, n) = c => PlaceIn(t, n) # h
    BY <1>2, <2>1, <2>2 DEF Chain
  <2>5. Bucket(u, l) = Bucket(t, l) /\ Bucket(u, n) = Bucket(t, n)
    BY <1>11, <2>1
  <2> QED BY <1>2, <1>19, <2>2, <2>3, <2>4, <2>5 DEF Precedes
<1> QED BY <1>7, <1>17, <1>18, <1>20, <1>21

(* One entry gets a value; nothing else changes.                             *)
LEMMA SetValueKeeps ==
  ASSUME NEW t, Sound(t), NEW k \in Keys, InTable(t, k), NEW v \in Values,
         NEW u, u = SetValue(t, k, v)
  PROVE  /\ Sound(u) /\ u.size = t.size
         /\ KeysIn(u) = KeysIn(t)
         /\ ValueIn(u, k) = v
         /\ \A l \in KeysIn(u) : l # k => ValueIn(u, l) = ValueIn(t, l)
         /\ \A l, n \in KeysIn(u) : Precedes(u, l, n) <=> Precedes(t, l, n)
<1> DEFINE c == Bucket(t, k)
           h == PlaceIn(t, k)
           chain == t.buckets[c]
           changed == [chain EXCEPT ![h] = [chain[h] EXCEPT !.value = v]]
<1>1. c \in 0 .. t.size - 1 /\ chain \in Seq(Entry) /\ t.size \in Nat /\ t.size > 0
  BY PlaceIs, BucketIs DEF Sound, IsTable, Chain
<1>2. h \in 1 .. Len(chain) /\ chain[h].key = k
  BY <1>1, PlaceIs DEF Sound, Chain
<1>3. t.buckets \in [0 .. t.size - 1 -> Seq(Entry)] /\ t.used \in Nat
      /\ \A b \in 0 .. t.size - 1 : t.buckets[b] \in Seq(Entry)
  BY DEF Sound, IsTable, Tables
<1>4. u = [t EXCEPT !.buckets[c][h].value = v]
  BY DEF SetValue, PlaceIn, Chain
<1>5. u.buckets = [t.buckets EXCEPT ![c] = changed]
      /\ u.used = t.used /\ u.size = t.size
      /\ u = [size |-> u.size, used |-> u.used, buckets |-> u.buckets]
  BY <1>1, <1>3, <1>4 DEF Sound, IsTable, Tables
<1>6. changed \in Seq(Entry) /\ DOMAIN changed = 1 .. Len(chain)
      /\ \A i \in 1 .. Len(chain) :
           changed[i].key = chain[i].key
           /\ changed[i].value = IF i = h THEN v ELSE chain[i].value
  <2> HIDE DEF c
  <2>1. chain[h] \in Entry
    BY <1>1, <1>2
  <2>2. [chain[h] EXCEPT !.value = v] \in Entry
        /\ [chain[h] EXCEPT !.value = v].key = chain[h].key
        /\ [chain[h] EXCEPT !.value = v].value = v
    BY <2>1 DEF Entry
  <2> DEFINE e == [chain[h] EXCEPT !.value = v]
  <2> HIDE DEF e, h
  <2>3. [chain EXCEPT ![h] = e] \in Seq(Entry) /\ DOMAIN [chain EXCEPT ![h] = e] = 1 .. Len(chain)
        /\ \A i \in 1 .. Len(chain) : [chain EXCEPT ![h] = e][i] = IF i = h THEN e ELSE chain[i]
    BY <1>1, <1>2, <2>2 DEF e
  <2> QED BY <2>2, <2>3 DEF e
<1> HIDE DEF c, h, chain, changed
<1>7. u.buckets \in [0 .. t.size - 1 -> Seq(Entry)]
  BY <1>3, <1>5, <1>6
<1>8. IsTable(u)
  <2>1. u.size \in Nat /\ u.used \in Nat /\ u.buckets \in [0 .. u.size - 1 -> Seq(Entry)]
    BY <1>1, <1>3, <1>5, <1>7
  <2>2. u \in Tables(u.size)
    BY <1>5, <2>1, Zenon DEF Tables
  <2> QED BY <2>1, <2>2 DEF IsTable
<1>9. \A b \in 0 .. t.size - 1 :
        /\ DOMAIN u.buckets[b] = DOMAIN t.buckets[b]
        /\ DOMAIN u.buckets[b] = 1 .. Len(t.buckets[b])
        /\ \A i \in 1 .. Len(t.buckets[b]) :
             /\ u.buckets[b][i].key = t.buckets[b][i].key
             /\ u.buckets[b][i].value =
                  IF b = c /\ i = h THEN v ELSE t.buckets[b][i].value
  BY <1>1, <1>3, <1>5, <1>6 DEF chain
<1>10. \A l \in Keys : Bucket(u, l) = Bucket(t, l) /\ Bucket(t, l) \in 0 .. t.size - 1
  BY <1>1, <1>5, BucketIs DEF Bucket, Sound
<1>11. KeysIn(u) = KeysIn(t)
  BY <1>5, <1>9, <1>10, SMTT(30) DEF KeysIn, InTable, Chain
<1>12. Sound(u)
  <2>1. u.used = Cardinality(KeysIn(u)) /\ IsFiniteSet(KeysIn(u))
    BY <1>5, <1>11 DEF Sound, TableOK
  <2>2. DOMAIN u.buckets = 0 .. t.size - 1 /\ DOMAIN t.buckets = 0 .. t.size - 1
    BY <1>3, <1>7
  <2>3. ASSUME NEW b \in DOMAIN u.buckets, NEW i \in DOMAIN u.buckets[b]
        PROVE  LET l == u.buckets[b][i].key IN
               /\ b = Bucket(u, l)
               /\ \A j \in DOMAIN u.buckets[b] : u.buckets[b][j].key = l => i = j
    <3>1. LET l == t.buckets[b][i].key IN
          l \in Keys /\ b = Bucket(t, l) /\ PlaceIn(t, l) = i
      BY <1>9, <2>2, KeysInPlace, SMTT(30)
    <3>2. ASSUME NEW j \in DOMAIN u.buckets[b]
          PROVE  LET l == t.buckets[b][j].key IN
                 PlaceIn(t, l) = j /\ u.buckets[b][j].key = l
      <4>1. j \in 1 .. Len(t.buckets[b]) /\ b \in 0 .. t.size - 1
        BY <1>9, <2>2
      <4> QED BY <1>9, <4>1, KeysInPlace, ZenonT(60)
    <3>3. u.buckets[b][i].key = t.buckets[b][i].key
      BY <3>2
    <3>4. b = Bucket(u, u.buckets[b][i].key)
      BY <1>10, <3>1, <3>3
    <3> QED BY <3>1, <3>2, <3>4
  <2> QED BY <1>8, <2>1, <2>3 DEF Sound, TableOK
<1>13. ASSUME NEW l \in KeysIn(u)
       PROVE  /\ PlaceIn(u, l) = PlaceIn(t, l)
              /\ PlaceIn(t, l) \in 1 .. Len(Chain(t, l))
              /\ Chain(t, l)[PlaceIn(t, l)].key = l
  <2>1. l \in Keys /\ InTable(t, l)
    BY <1>11 DEF KeysIn
  <2>2. PlaceIn(t, l) \in 1 .. Len(Chain(t, l)) /\ Chain(t, l)[PlaceIn(t, l)].key = l
    BY <2>1, PlaceIs DEF Sound
  <2>3. PlaceIn(t, l) \in 1 .. Len(Chain(u, l)) /\ Chain(u, l)[PlaceIn(t, l)].key = l
    <3>1. Chain(u, l) \in Seq(Entry) /\ DOMAIN Chain(u, l) = 1 .. Len(Chain(u, l))
      BY <1>1, <1>5, <1>8, <2>1, BucketIs
    <3> QED BY <1>9, <1>10, <2>1, <2>2, <3>1 DEF Chain
  <2> QED BY <1>1, <1>5, <1>12, <2>1, <2>2, <2>3, PlaceOnly
<1>14. ASSUME NEW l \in KeysIn(u)
       PROVE  ValueIn(u, l) = IF l = k THEN v ELSE ValueIn(t, l)
  <2>1. l \in Keys /\ (Bucket(t, l) = c /\ PlaceIn(t, l) = h <=> l = k)
    BY <1>2, <1>11, <1>13 DEF KeysIn, Chain, chain, c, h
  <2>2. ValueIn(u, l) = u.buckets[Bucket(t, l)][PlaceIn(t, l)].value
        /\ ValueIn(t, l) = t.buckets[Bucket(t, l)][PlaceIn(t, l)].value
    BY <1>10, <1>13, <2>1 DEF ValueIn, PlaceIn, Chain
  <2>3. PlaceIn(t, l) \in 1 .. Len(t.buckets[Bucket(t, l)])
    BY <1>13 DEF Chain
  <2> QED BY <1>9, <1>10, <2>1, <2>2, <2>3
<1>15. k \in KeysIn(u)
  BY <1>11 DEF KeysIn
<1>16. \A l, n \in KeysIn(u) : Precedes(u, l, n) <=> Precedes(t, l, n)
  BY <1>10, <1>13 DEF Precedes, KeysIn
<1> QED BY <1>5, <1>11, <1>12, <1>14, <1>15, <1>16

-----------------------------------------------------------------------------
(* PushAll pushes the first entry first.                                     *)
LEMMA PushAllIs ==
  ASSUME NEW t, IsTable(t), t.size > 0, NEW chain \in Seq(Entry)
  PROVE  \E f \in [0 .. Len(chain) -> Tables(t.size)] :
           /\ f[0] = t
           /\ \A n \in 1 .. Len(chain) : f[n] = Push(f[n - 1], chain[n])
           /\ PushAll(t, chain) = f[Len(chain)]
<1> DEFINE m == Len(chain)
           S == Tables(t.size)
           G == [n \in 1 .. m |-> [x \in S |-> Push(x, chain[n])]]
           pushed == CHOOSE f : f = [n \in 0 .. m |->
                                       IF n = 0 THEN t ELSE Push(f[n - 1], chain[n])]
<1>1. m \in Nat /\ t \in S /\ \A n \in 1 .. m : chain[n] \in Entry
  BY DEF IsTable
<1>2. ASSUME NEW n \in 1 .. m, NEW x \in S PROVE Push(x, chain[n]) \in S
  <2>1. IsTable(x) /\ x.size = t.size
    BY DEF IsTable, Tables
  <2>2. IsTable(Push(x, chain[n])) /\ Push(x, chain[n]).size = t.size
    BY <1>1, <2>1, PushShape, ZenonT(60)
  <2> QED BY <2>2 DEF IsTable
<1>3. G \in [1 .. m -> [S -> S]]
  BY <1>2
<1>4. PICK f \in [0 .. m -> S] : Stepwise(f, m, t, G)
  <2> HIDE DEF S, G, m, pushed
  <2> QED BY <1>1, <1>3, StepByStep
<1>5. f = [n \in 0 .. m |-> IF n = 0 THEN t ELSE Push(f[n - 1], chain[n])]
  <2> USE DEF Stepwise
  <2>1. ASSUME NEW n \in 1 .. m PROVE f[n] = Push(f[n - 1], chain[n])
    <3>1. f[n - 1] \in S
      <4> HIDE DEF S, G
      <4> QED BY <1>1, <1>4
    <3> QED BY <1>4, <3>1
  <2> HIDE DEF S, G
  <2>2. \A n \in 0 .. m : f[n] = IF n = 0 THEN t ELSE Push(f[n - 1], chain[n])
    BY <1>1, <1>4, <2>1
  <2> QED BY <1>4, <2>2
<1>6. pushed = [n \in 0 .. m |-> IF n = 0 THEN t ELSE Push(pushed[n - 1], chain[n])]
  <2> HIDE DEF S, G
  <2> QED BY <1>5
<1>7. PushAll(t, chain) = pushed[m]
  BY DEF PushAll
<1> HIDE DEF pushed
<1>8. \A n \in 0 .. m : pushed[n] \in S
  <2> DEFINE T == {n \in 0 .. m : pushed[n] \in S}
  <2>1. 0 \in T
    BY <1>1, <1>6
  <2>2. \A n \in 0 .. m : n + 1 <= m /\ n \in T => n + 1 \in T
    <3>1. SUFFICES ASSUME NEW n \in 0 .. m, n + 1 <= m, pushed[n] \in S
                   PROVE  pushed[n + 1] \in S
      BY <1>1
    <3>2. n + 1 \in 1 .. m /\ n + 1 \in 0 .. m /\ (n + 1) - 1 = n /\ n + 1 # 0
      BY <1>1, <3>1
    <3>3. pushed[n + 1] = Push(pushed[n], chain[n + 1])
      BY <1>6, <3>2
    <3> QED BY <1>2, <3>1, <3>2, <3>3
  <2>3. \A n \in 0 .. m : n \in T
    <3> HIDE DEF T, m
    <3> QED BY <1>1, <2>1, <2>2, Induction
  <2> QED BY <2>3
<1>9. pushed \in [0 .. m -> S] /\ pushed[0] = t
      /\ \A n \in 1 .. m : pushed[n] = Push(pushed[n - 1], chain[n])
  <2>1. DOMAIN pushed = 0 .. m /\ pushed = [n \in 0 .. m |-> pushed[n]]
    BY <1>6
  <2>2. pushed \in [0 .. m -> S]
    BY <1>8, <2>1
  <2>3. pushed[0] = t
    BY <1>1, <1>6
  <2>4. ASSUME NEW n \in 1 .. m PROVE pushed[n] = Push(pushed[n - 1], chain[n])
    BY <1>6
  <2> QED BY <2>2, <2>3, <2>4
<1> QED BY <1>7, <1>9

KeysOf(chain) == {chain[i].key : i \in 1 .. Len(chain)}

(* Entries that are new to a table, and of different keys, come to it.       *)
LEMMA PushAllKeeps ==
  ASSUME NEW t, Sound(t), t.size > 0, NEW chain \in Seq(Entry),
         \A i, j \in 1 .. Len(chain) : chain[i].key = chain[j].key => i = j,
         \A i \in 1 .. Len(chain) : ~InTable(t, chain[i].key),
         NEW u, u = PushAll(t, chain)
  PROVE  /\ Sound(u) /\ u.size = t.size
         /\ KeysIn(u) = KeysIn(t) \cup KeysOf(chain)
         /\ \A i \in 1 .. Len(chain) : ValueIn(u, chain[i].key) = chain[i].value
         /\ \A k \in KeysIn(t) : ValueIn(u, k) = ValueIn(t, k)
<1> DEFINE m == Len(chain)
<1>1. PICK f \in [0 .. m -> Tables(t.size)] :
             /\ f[0] = t
             /\ \A n \in 1 .. m : f[n] = Push(f[n - 1], chain[n])
             /\ u = f[m]
  BY PushAllIs DEF Sound
<1>2. m \in Nat /\ \A n \in 1 .. m : chain[n] \in Entry /\ chain[n].key \in Keys
  <2>1. m \in Nat /\ \A n \in 1 .. m : chain[n] \in Entry
    OBVIOUS
  <2> QED BY <2>1 DEF Entry
<1> DEFINE Done(n) ==
             /\ Sound(f[n]) /\ f[n].size = t.size
             /\ KeysIn(f[n]) = KeysIn(t) \cup {chain[i].key : i \in 1 .. n}
             /\ \A i \in 1 .. n : ValueIn(f[n], chain[i].key) = chain[i].value
             /\ \A k \in KeysIn(t) : ValueIn(f[n], k) = ValueIn(t, k)
           T == {n \in 0 .. m : Done(n)}
<1>3. Done(0)
  BY <1>1
<1>4. ASSUME NEW n \in 0 .. m, n + 1 <= m, Done(n) PROVE Done(n + 1)
  <2> DEFINE e == chain[n + 1]
  <2>1. n + 1 \in 1 .. m /\ n \in Nat /\ (n + 1) - 1 = n
    BY <1>2, <1>4
  <2>2. f[n + 1] = Push(f[n], e) /\ e \in Entry /\ e.key \in Keys
    <3>1. f[n + 1] = Push(f[(n + 1) - 1], e)
      BY <1>1, <2>1
    <3> QED BY <1>2, <2>1, <3>1
  <2>3. e.key \notin KeysIn(f[n])
    <3>1. \A i \in 1 .. n : i \in 1 .. m /\ i # n + 1
      BY <2>1
    <3>2. e.key \notin {chain[i].key : i \in 1 .. n}
      BY <2>1, <3>1
    <3>3. e.key \notin KeysIn(t)
      BY <2>1 DEF KeysIn
    <3> QED BY <1>4, <3>2, <3>3
  <2>4. ~InTable(f[n], e.key) /\ Sound(f[n]) /\ f[n].size = t.size
    BY <1>4, <2>2, <2>3 DEF KeysIn
  <2>5. /\ Sound(f[n + 1]) /\ f[n + 1].size = f[n].size
        /\ KeysIn(f[n + 1]) = KeysIn(f[n]) \cup {e.key}
        /\ ValueIn(f[n + 1], e.key) = e.value
        /\ \A k \in KeysIn(f[n]) : ValueIn(f[n + 1], k) = ValueIn(f[n], k)
    <3> HIDE DEF e
    <3> QED BY <2>2, <2>4, PushKeeps
  <2>6. 1 .. n + 1 = (1 .. n) \cup {n + 1}
    BY <2>1
  <2>7. KeysIn(f[n + 1]) = KeysIn(t) \cup {chain[i].key : i \in 1 .. n + 1}
    BY <1>4, <2>5, <2>6
  <2>8. ASSUME NEW i \in 1 .. n + 1 PROVE ValueIn(f[n + 1], chain[i].key) = chain[i].value
    <3>1. CASE i = n + 1
      BY <2>5, <3>1
    <3>2. CASE i \in 1 .. n
      <4>1. chain[i].key \in KeysIn(f[n]) /\ ValueIn(f[n], chain[i].key) = chain[i].value
        BY <1>4, <3>2
      <4> QED BY <2>5, <4>1
    <3> QED BY <2>6, <3>1, <3>2
  <2>9. ASSUME NEW k \in KeysIn(t) PROVE ValueIn(f[n + 1], k) = ValueIn(t, k)
    BY <1>4, <2>5
  <2> QED BY <2>4, <2>5, <2>7, <2>8, <2>9
<1>5. Done(m)
  <2>1. 0 \in T
    BY <1>2, <1>3
  <2>2. \A n \in 0 .. m : n + 1 <= m /\ n \in T => n + 1 \in T
    <3> HIDE DEF Done
    <3>1. \A n \in 0 .. m : n + 1 <= m => n + 1 \in 0 .. m
      BY <1>2
    <3> QED BY <1>4, <3>1
  <2>3. \A n \in 0 .. m : n \in T
    <3> HIDE DEF T, m
    <3> QED BY <1>2, <2>1, <2>2, Induction
  <2>4. m \in T
    <3> HIDE DEF T
    <3> QED BY <1>2, <2>3
  <2> HIDE DEF Done
  <2> QED BY <2>4
<1> QED BY <1>1, <1>5 DEF KeysOf

(* A table made for n entries has room for them.                             *)
LEMMA PowSizeIs ==
  ASSUME NEW n \in Nat
  PROVE  PowSize(n) \in Nat /\ PowSize(n) >= n /\ PowSize(n) >= 1
<1> DEFINE G == [i \in 1 .. n |-> [x \in Nat |-> 2 * x]]
           size == CHOOSE f : f = [i \in 0 .. n |-> IF i = 0 THEN InitSize ELSE 2 * f[i - 1]]
<1>1. G \in [1 .. n -> [Nat -> Nat]] /\ InitSize \in Nat
  BY SizeAssumption
<1>2. PICK f \in [0 .. n -> Nat] : Stepwise(f, n, InitSize, G)
  <2> HIDE DEF G, size
  <2> QED BY <1>1, StepByStep
<1>3. f = [i \in 0 .. n |-> IF i = 0 THEN InitSize ELSE 2 * f[i - 1]]
  <2>1. ASSUME NEW i \in 1 .. n PROVE f[i] = 2 * f[i - 1]
    <3>1. f[i - 1] \in Nat
      BY <1>2
    <3> QED BY <1>2, <3>1 DEF Stepwise
  <2> HIDE DEF G
  <2>2. \A i \in 0 .. n : f[i] = IF i = 0 THEN InitSize ELSE 2 * f[i - 1]
    BY <1>2, <2>1 DEF Stepwise
  <2> QED BY <1>2, <2>2
<1>4. size = [i \in 0 .. n |-> IF i = 0 THEN InitSize ELSE 2 * size[i - 1]]
  BY <1>3
<1> HIDE DEF size
<1>5. \A i \in 0 .. n : size[i] \in Nat /\ size[i] >= i + 1
  <2> DEFINE T == {i \in 0 .. n : size[i] \in Nat /\ size[i] >= i + 1}
  <2>1. 0 \in T
    BY <1>4, SizeAssumption
  <2>2. \A i \in 0 .. n : i + 1 <= n /\ i \in T => i + 1 \in T
    <3>1. SUFFICES ASSUME NEW i \in 0 .. n, i + 1 <= n, size[i] \in Nat, size[i] >= i + 1
                   PROVE  i + 1 \in T
      OBVIOUS
    <3>2. i + 1 \in 0 .. n /\ i + 1 # 0 /\ (i + 1) - 1 = i
      BY <3>1
    <3>3. size[i + 1] = 2 * size[i]
      BY <1>4, <3>2
    <3> QED BY <3>1, <3>2, <3>3
  <2>3. \A i \in 0 .. n : i \in T
    <3> HIDE DEF T
    <3> QED BY <2>1, <2>2, Induction
  <2> QED BY <2>3
<1> DEFINE Enough(i) == size[i] >= n /\ \A j \in 0 .. i - 1 : size[j] < n
           enough == CHOOSE i \in 0 .. n : Enough(i)
<1>6. \E i \in 0 .. n : Enough(i)
  <2> DEFINE E == {i \in 0 .. n : size[i] >= n}
  <2>1. E \in SUBSET Nat /\ n \in E
    BY <1>5
  <2>2. PICK i \in E : \A j \in E : i <= j
    <3> HIDE DEF E
    <3> QED BY <2>1, HasLeast
  <2>3. ASSUME NEW j \in 0 .. i - 1 PROVE size[j] < n
    <3>1. j \in 0 .. n /\ j \notin E
      BY <2>1, <2>2
    <3> QED BY <1>5, <3>1
  <2> QED BY <2>2, <2>3
<1>7. enough \in 0 .. n /\ Enough(enough)
  BY <1>6
<1>8. PowSize(n) = size[enough]
  BY DEF PowSize, size
<1> HIDE DEF enough
<1> QED BY <1>5, <1>7, <1>8

(* A bucket is emptied: the table forgets the keys of its chain.             *)
Emptied(t, b) == [t EXCEPT !.used = @ - Len(t.buckets[b]), !.buckets[b] = <<>>]

LEMMA EmptyBucketKeeps ==
  ASSUME NEW t, Sound(t), NEW b \in 0 .. t.size - 1, NEW u, u = Emptied(t, b)
  PROVE  /\ Sound(u) /\ u.size = t.size
         /\ KeysIn(u) = KeysIn(t) \ KeysOf(t.buckets[b])
         /\ \A k \in KeysIn(u) : ValueIn(u, k) = ValueIn(t, k)
         /\ \A c \in 0 .. t.size - 1 :
              u.buckets[c] = IF c = b THEN <<>> ELSE t.buckets[c]
<1> DEFINE chain == t.buckets[b]
           moved == {chain[i].key : i \in 1 .. Len(chain)}
<1>1. t.buckets \in [0 .. t.size - 1 -> Seq(Entry)] /\ t.used \in Nat /\ t.size \in Nat
      /\ \A c \in 0 .. t.size - 1 : t.buckets[c] \in Seq(Entry)
  BY DEF Sound, IsTable, Tables
<1>2. u.buckets = [t.buckets EXCEPT ![b] = <<>>]
      /\ u.used = t.used - Len(chain) /\ u.size = t.size
      /\ u = [size |-> u.size, used |-> u.used, buckets |-> u.buckets]
  BY DEF Sound, IsTable, Tables, Emptied
<1>3. \A i \in 1 .. Len(chain) :
        LET k == chain[i].key IN
        k \in KeysIn(t) /\ b = Bucket(t, k) /\ PlaceIn(t, k) = i
  BY KeysInPlace DEF KeysIn
<1>4. IsFiniteSet(KeysIn(t)) /\ t.used = Cardinality(KeysIn(t)) /\ moved \subseteq KeysIn(t)
  BY <1>3 DEF Sound, TableOK
<1>5. IsFiniteSet(moved) /\ Cardinality(moved) = Len(chain)
  <2> DEFINE f == [i \in 1 .. Len(chain) |-> chain[i].key]
  <2>1. Len(chain) \in Nat
    BY <1>1
  <2>2. f \in [1 .. Len(chain) -> moved]
        /\ (\A k \in moved : \E i \in 1 .. Len(chain) : f[i] = k)
    OBVIOUS
  <2>3. \A i, j \in 1 .. Len(chain) : f[i] = f[j] => i = j
    BY <1>3
  <2>4. f \in Bijection(1 .. Len(chain), moved)
    <3> HIDE DEF f, moved
    <3> QED BY <2>2, <2>3 DEF Bijection, Injection, Surjection, IsInjective
  <2>5. ExistsBijection(1 .. Len(chain), moved)
    BY <2>4 DEF ExistsBijection
  <2>6. Cardinality(moved) = Len(chain)
    <3> HIDE DEF moved, chain
    <3> QED BY <2>1, <2>5, FS_CountingElements
  <2>7. IsFiniteSet(moved)
    <3> HIDE DEF moved
    <3> QED BY <1>4, FS_Subset
  <2> QED BY <2>6, <2>7
<1> HIDE DEF moved
<1>6. IsFiniteSet(KeysIn(t) \ moved) /\ Cardinality(KeysIn(t) \ moved) = t.used - Len(chain)
      /\ t.used - Len(chain) \in Nat
  <2>1. KeysIn(t) \cap moved = moved
    BY <1>4
  <2>2. IsFiniteSet(KeysIn(t) \ moved)
        /\ Cardinality(KeysIn(t) \ moved) = Cardinality(KeysIn(t)) - Cardinality(moved)
    <3>1. IsFiniteSet(KeysIn(t) \ moved)
          /\ Cardinality(KeysIn(t) \ moved)
               = Cardinality(KeysIn(t)) - Cardinality(KeysIn(t) \cap moved)
      BY <1>4, FS_Difference, Zenon
    <3> QED BY <2>1, <3>1
  <2>3. Cardinality(KeysIn(t) \ moved) \in Nat
    BY <2>2, FS_CardinalityType
  <2> QED BY <1>4, <1>5, <2>2, <2>3
<1>7. u.buckets \in [0 .. t.size - 1 -> Seq(Entry)]
      /\ \A c \in 0 .. t.size - 1 : u.buckets[c] = IF c = b THEN <<>> ELSE t.buckets[c]
  BY <1>1, <1>2
<1>8. IsTable(u)
  <2>1. u.size \in Nat /\ u.used \in Nat /\ u.buckets \in [0 .. u.size - 1 -> Seq(Entry)]
    BY <1>1, <1>2, <1>6, <1>7
  <2>2. u \in Tables(u.size)
    BY <1>2, <2>1, Zenon DEF Tables
  <2> QED BY <2>1, <2>2 DEF IsTable
<1>9. \A k \in Keys : t.size > 0 =>
        /\ Bucket(u, k) = Bucket(t, k) /\ Bucket(t, k) \in 0 .. t.size - 1
        /\ Chain(u, k) = IF Bucket(t, k) = b THEN <<>> ELSE Chain(t, k)
  <2> SUFFICES ASSUME NEW k \in Keys, t.size > 0
               PROVE  /\ Bucket(u, k) = Bucket(t, k) /\ Bucket(t, k) \in 0 .. t.size - 1
                      /\ Chain(u, k) = IF Bucket(t, k) = b THEN <<>> ELSE Chain(t, k)
    OBVIOUS
  <2>1. Bucket(t, k) \in 0 .. t.size - 1
    BY BucketIs DEF Sound
  <2> QED BY <1>2, <1>7, <2>1 DEF Chain, Bucket
<1>10. KeysIn(u) = KeysIn(t) \ moved
  <2>1. ASSUME NEW k \in KeysIn(u) PROVE k \in KeysIn(t) /\ k \notin moved
    <3>1. k \in Keys /\ InTable(u, k) /\ t.size > 0
      BY <1>2 DEF KeysIn, InTable
    <3>2. Bucket(t, k) # b /\ Chain(u, k) = Chain(t, k)
      BY <1>9, <3>1 DEF InTable
    <3>3. k \notin moved
      BY <1>3, <3>2 DEF moved
    <3>4. InTable(t, k)
      BY <1>2, <3>1, <3>2 DEF InTable
    <3> QED BY <3>1, <3>3, <3>4 DEF KeysIn
  <2>2. ASSUME NEW k \in KeysIn(t), k \notin moved PROVE k \in KeysIn(u)
    <3>1. k \in Keys /\ InTable(t, k) /\ t.size > 0
      BY DEF KeysIn, InTable
    <3>2. PlaceIn(t, k) \in 1 .. Len(Chain(t, k)) /\ Chain(t, k)[PlaceIn(t, k)].key = k
      BY <3>1, PlaceIs DEF Sound
    <3>3. Bucket(t, k) # b
      BY <2>2, <3>2 DEF moved, Chain
    <3>4. InTable(u, k)
      BY <1>2, <1>9, <3>1, <3>3 DEF InTable
    <3> QED BY <3>1, <3>4 DEF KeysIn
  <2> QED BY <2>1, <2>2
<1>11. Sound(u)
  <2>1. DOMAIN u.buckets = 0 .. t.size - 1
    BY <1>7
  <2>2. ASSUME NEW c \in DOMAIN u.buckets, NEW i \in DOMAIN u.buckets[c]
        PROVE  LET k == u.buckets[c][i].key IN
               /\ c = Bucket(u, k)
               /\ \A j \in DOMAIN u.buckets[c] : u.buckets[c][j].key = k => i = j
    <3>1. u.buckets[c] = t.buckets[c] /\ c \in 0 .. t.size - 1
          /\ DOMAIN t.buckets[c] = 1 .. Len(t.buckets[c])
      BY <1>1, <1>7, <2>1
    <3>2. \A j \in 1 .. Len(t.buckets[c]) :
            LET k == t.buckets[c][j].key IN
            k \in Keys /\ c = Bucket(t, k) /\ PlaceIn(t, k) = j
      BY <3>1, KeysInPlace, ZenonT(60)
    <3>3. i \in 1 .. Len(t.buckets[c]) /\ t.size > 0
      BY <1>1, <3>1
    <3> QED BY <1>9, <3>1, <3>2, <3>3
  <2> QED BY <1>2, <1>6, <1>8, <1>10, <2>2 DEF Sound, TableOK
<1>12. ASSUME NEW k \in KeysIn(u) PROVE ValueIn(u, k) = ValueIn(t, k)
  <2>1. k \in Keys /\ InTable(u, k) /\ t.size > 0
    BY <1>2 DEF KeysIn, InTable
  <2>2. Chain(u, k) = Chain(t, k)
    BY <1>9, <2>1 DEF InTable
  <2> QED BY <2>2 DEF ValueIn
<1> QED BY <1>2, <1>7, <1>10, <1>11, <1>12 DEF moved, KeysOf

(* What is empty stays so in a table that got no new key.                    *)
LEMMA EmptyStays ==
  ASSUME NEW t, Sound(t), NEW u, Sound(u), u.size = t.size, KeysIn(u) \subseteq KeysIn(t),
         NEW b \in 0 .. t.size - 1, t.buckets[b] = <<>>
  PROVE  u.buckets[b] = <<>>
<1>1. u.buckets[b] \in Seq(Entry) /\ t.size \in Nat
  BY DEF Sound, IsTable, Tables
<1>2. SUFFICES ASSUME u.buckets[b] # <<>> PROVE FALSE
  OBVIOUS
<1>3. 1 \in 1 .. Len(u.buckets[b])
  BY <1>1, <1>2
<1> DEFINE k == u.buckets[b][1].key
<1>4. k \in Keys /\ b = Bucket(u, k) /\ InTable(u, k)
  <2>1. b \in 0 .. u.size - 1
    OBVIOUS
  <2>2. ASSUME NEW i \in 1 .. Len(u.buckets[b])
        PROVE  LET key == u.buckets[b][i].key IN
               key \in Keys /\ b = Bucket(u, key) /\ InTable(u, key)
    BY <2>1, KeysInPlace, ZenonT(60)
  <2> HIDE DEF k
  <2>3. k = u.buckets[b][1].key
    BY DEF k
  <2> QED BY <1>3, <2>2, <2>3
<1>5. InTable(t, k) /\ Bucket(t, k) = b
  BY <1>4 DEF KeysIn, Bucket
<1> QED BY <1>5 DEF InTable, Chain

-----------------------------------------------------------------------------
(* The two tables as one.                                                    *)

(* A growing table is not empty: this is not in Agree, but dict_expand, the  *)
(* only place that starts a rehash, sees to it, and a new entry needs it.    *)
DictOK(d) ==
  /\ d = [old |-> d.old, new |-> d.new, idx |-> d.idx]
  /\ Sound(d.old) /\ Sound(d.new)
  /\ d.idx \in Int
  /\ Agree(d)
  /\ Rehashing(d) => d.old.size > 0

Held(d) == {k \in Keys : Present(d, k)}

SameMap(d, e) == Held(e) = Held(d) /\ \A k \in Held(d) : ValueOf(e, k) = ValueOf(d, k)

WithEntry(d, e, k, v) ==
  /\ Held(e) = Held(d) \cup {k}
  /\ \A l \in Held(e) : ValueOf(e, l) = IF l = k THEN v ELSE ValueOf(d, l)

WithoutKey(d, e, k) ==
  Held(e) = Held(d) \ {k} /\ \A l \in Held(e) : ValueOf(e, l) = ValueOf(d, l)

(* An iterator comes by k before it comes by l.                              *)
Comes(d, k, l) ==
  \/ InTable(d.old, k) /\ InTable(d.old, l) /\ Precedes(d.old, k, l)
  \/ InTable(d.new, k) /\ InTable(d.new, l) /\ Precedes(d.new, k, l)
  \/ InTable(d.old, k) /\ InTable(d.new, l)

(* The keys that stay, stay where they are to an iterator.                   *)
Undisturbed(d, e) ==
  \A k \in Held(d) \cap Held(e) :
    /\ InTable(e.old, k) <=> InTable(d.old, k)
    /\ InTable(e.new, k) <=> InTable(d.new, k)
    /\ InTable(d.old, k) => e.old.size = d.old.size
    /\ InTable(d.new, k) => e.new.size = d.new.size
    /\ \A l \in Held(d) \cap Held(e) : Comes(e, k, l) <=> Comes(d, k, l)

LEMMA DictIs ==
  ASSUME NEW d, DictOK(d)
  PROVE  /\ Held(d) = KeysIn(d.old) \cup KeysIn(d.new)
         /\ KeysIn(d.old) \cap KeysIn(d.new) = {}
         /\ ~Rehashing(d) => KeysIn(d.new) = {}
         /\ Rehashing(d) => d.new.size > 0 /\ d.old.size > 0
         /\ \A k \in Keys : Present(d, k) <=> InTable(d.old, k) \/ InTable(d.new, k)
         /\ \A k \in Keys : InTable(d.old, k) <=> k \in KeysIn(d.old)
         /\ \A k \in Keys : InTable(d.new, k) <=> k \in KeysIn(d.new)
<1>1. ~Rehashing(d) => d.new = NoTable
  BY DEF DictOK, Agree, Rehashing
<1>2. KeysIn(NoTable) = {}
  BY NewTableIs DEF NoTable
<1>3. \A k \in Keys : Present(d, k) <=> InTable(d.old, k) \/ InTable(d.new, k)
  BY <1>1, <1>2 DEF Present, KeysIn
<1>4. Rehashing(d) => d.new.size > 0 /\ d.old.size > 0
  BY DEF DictOK, Agree, Rehashing, Sound, IsTable
<1>5. KeysIn(d.old) \cap KeysIn(d.new) = {}
  BY DEF DictOK, Agree, KeysIn
<1>6. Held(d) = KeysIn(d.old) \cup KeysIn(d.new)
  BY <1>3 DEF Held, KeysIn
<1> QED BY <1>1, <1>2, <1>3, <1>4, <1>5, <1>6 DEF KeysIn

(* dict_rehash moves entries and changes nothing of the map.                 *)
LEMMA RehashStepKeeps ==
  ASSUME NEW d, DictOK(d), Rehashing(d), NEW e, e = RehashStep(d)
  PROVE  DictOK(e) /\ SameMap(d, e) /\ e.old.size > 0
<1>1. /\ Held(d) = KeysIn(d.old) \cup KeysIn(d.new)
      /\ KeysIn(d.old) \cap KeysIn(d.new) = {}
      /\ d.new.size > 0 /\ d.old.size > 0
  BY DictIs
<1>2. /\ Sound(d.old) /\ Sound(d.new) /\ d.idx \in 0 .. d.old.size
      /\ d.new.size >= d.old.size
      /\ \A b \in 0 .. d.idx - 1 : d.old.buckets[b] = <<>>
      /\ d.old.size \in Nat /\ d.new.size \in Nat
  BY DEF DictOK, Agree, Rehashing, Sound, IsTable
<1>3. CASE d.old.used = 0
  <2>1. e = [old |-> d.new, new |-> NoTable, idx |-> -1]
    BY <1>3 DEF RehashStep
  <2>2. KeysIn(d.old) = {}
    BY <1>2, <1>3, FS_EmptySet DEF Sound, TableOK
  <2>3. Sound(NoTable) /\ KeysIn(NoTable) = {}
    BY NewTableIs DEF NoTable
  <2>4. DictOK(e)
    <3>1. \A k \in Keys : ~InTable(NoTable, k)
      BY <2>3 DEF KeysIn
    <3>2. e.idx = -1 /\ e.old = d.new /\ e.new = NoTable
      BY <2>1
    <3>3. TableOK(e.old) /\ TableOK(e.new)
      BY <1>2, <2>3, <3>2 DEF Sound
    <3>4. Agree(e)
      BY <3>1, <3>2, <3>3 DEF Agree
    <3>5. ~Rehashing(e) /\ e.idx \in Int
      BY <3>2 DEF Rehashing
    <3>6. e = [old |-> e.old, new |-> e.new, idx |-> e.idx]
      BY <2>1
    <3> QED BY <1>2, <2>3, <3>2, <3>4, <3>5, <3>6 DEF DictOK
  <2>5. Held(e) = Held(d)
    BY <1>1, <2>1, <2>2, <2>3, <2>4, DictIs
  <2>6. ASSUME NEW k \in Held(d) PROVE ValueOf(e, k) = ValueOf(d, k)
    BY <1>1, <2>1, <2>2 DEF ValueOf, KeysIn
  <2> QED BY <1>1, <2>1, <2>4, <2>5, <2>6 DEF SameMap
<1>4. CASE d.old.used # 0
  <2> DEFINE B == {i \in d.idx .. d.old.size - 1 : d.old.buckets[i] # <<>>}
             Next1(i) == d.old.buckets[i] # <<>>
                         /\ \A j \in d.idx .. i - 1 : d.old.buckets[j] = <<>>
             b == CHOOSE i \in d.idx .. d.old.size - 1 : Next1(i)
             chain == d.old.buckets[b]
             moved == KeysOf(chain)
  <2>1. B \in SUBSET Nat /\ B # {}
    <3>1. KeysIn(d.old) # {}
      BY <1>2, <1>4, FS_EmptySet DEF Sound, TableOK
    <3>2. PICK k \in Keys : InTable(d.old, k)
      BY <3>1 DEF KeysIn
    <3>3. Bucket(d.old, k) \in 0 .. d.old.size - 1
          /\ d.old.buckets[Bucket(d.old, k)] # <<>>
      BY <1>1, <1>2, <3>2, BucketIs DEF Sound, InTable, Chain
    <3>4. Bucket(d.old, k) \notin 0 .. d.idx - 1
      BY <1>2, <3>3
    <3>5. Bucket(d.old, k) \in B
      BY <1>2, <3>3, <3>4
    <3> QED BY <1>2, <3>5
  <2>2. \E i \in d.idx .. d.old.size - 1 : Next1(i)
    <3>1. PICK i \in B : \A j \in B : i <= j
      <4> HIDE DEF B
      <4> QED BY <2>1, HasLeast
    <3>2. \A j \in d.idx .. i - 1 : j \notin B
      BY <1>2, <3>1
    <3> QED BY <1>2, <3>1, <3>2
  <2>3. b \in d.idx .. d.old.size - 1 /\ Next1(b)
    BY <2>2
  <2>4. e = [old |-> [d.old EXCEPT !.used = @ - Len(chain), !.buckets[b] = <<>>],
             new |-> PushAll(d.new, chain), idx |-> b + 1]
    BY <1>4 DEF RehashStep
  <2> HIDE DEF b, B
  <2>5. b \in 0 .. d.old.size - 1 /\ b + 1 \in 0 .. d.old.size /\ chain \in Seq(Entry)
    BY <1>2, <2>3 DEF Sound, IsTable, Tables
  <2>6. /\ Sound(e.old) /\ e.old.size = d.old.size
        /\ KeysIn(e.old) = KeysIn(d.old) \ moved
        /\ \A k \in KeysIn(e.old) : ValueIn(e.old, k) = ValueIn(d.old, k)
        /\ \A c \in 0 .. d.old.size - 1 :
             e.old.buckets[c] = IF c = b THEN <<>> ELSE d.old.buckets[c]
    <3>1. e.old = Emptied(d.old, b)
      BY <2>4 DEF Emptied
    <3> HIDE DEF moved, chain
    <3>2. /\ Sound(e.old) /\ e.old.size = d.old.size
          /\ KeysIn(e.old) = KeysIn(d.old) \ KeysOf(d.old.buckets[b])
          /\ \A k \in KeysIn(e.old) : ValueIn(e.old, k) = ValueIn(d.old, k)
          /\ \A c \in 0 .. d.old.size - 1 :
               e.old.buckets[c] = IF c = b THEN <<>> ELSE d.old.buckets[c]
      BY <1>2, <2>5, <3>1, EmptyBucketKeeps
    <3> QED BY <3>2 DEF moved, chain
  <2>7. ASSUME NEW i \in 1 .. Len(chain)
        PROVE  LET k == chain[i].key IN
               /\ k \in Keys /\ b = Bucket(d.old, k) /\ PlaceIn(d.old, k) = i
               /\ InTable(d.old, k) /\ k \in KeysIn(d.old)
    <3> DEFINE t == d.old
    <3>1. Sound(t) /\ b \in 0 .. t.size - 1 /\ i \in 1 .. Len(t.buckets[b])
      BY <1>2, <2>5
    <3> HIDE DEF t
    <3>2. LET k == t.buckets[b][i].key IN
          k \in Keys /\ b = Bucket(t, k) /\ InTable(t, k) /\ PlaceIn(t, k) = i
      BY <3>1, KeysInPlace
    <3> QED BY <3>2 DEF t, KeysIn
  <2>8. \A i, j \in 1 .. Len(chain) : chain[i].key = chain[j].key => i = j
    BY <2>7
  <2>9. \A i \in 1 .. Len(chain) : ~InTable(d.new, chain[i].key)
    BY <1>1, <2>7 DEF KeysIn
  <2>10. /\ Sound(e.new) /\ e.new.size = d.new.size
         /\ KeysIn(e.new) = KeysIn(d.new) \cup moved
         /\ \A i \in 1 .. Len(chain) : ValueIn(e.new, chain[i].key) = chain[i].value
         /\ \A k \in KeysIn(d.new) : ValueIn(e.new, k) = ValueIn(d.new, k)
    <3> DEFINE t == d.new
               u == e.new
    <3>1. u = PushAll(t, chain)
      BY <2>4
    <3>2. Sound(t) /\ t.size > 0 /\ chain \in Seq(Entry)
      BY <1>1, <1>2, <2>5
    <3> HIDE DEF chain, t, u
    <3>3. \A i \in 1 .. Len(chain) : ~InTable(t, chain[i].key)
      BY <2>9 DEF t
    <3>4. /\ Sound(u) /\ u.size = t.size
          /\ KeysIn(u) = KeysIn(t) \cup KeysOf(chain)
          /\ \A i \in 1 .. Len(chain) : ValueIn(u, chain[i].key) = chain[i].value
          /\ \A k \in KeysIn(t) : ValueIn(u, k) = ValueIn(t, k)
      BY <2>8, <3>1, <3>2, <3>3, PushAllKeeps
    <3> QED BY <3>4 DEF t, u
  <2>11. moved \subseteq KeysIn(d.old)
    BY <2>7 DEF KeysOf
  <2> HIDE DEF moved, chain
  <2>12. DictOK(e)
    <3>1. \A k \in Keys : ~(InTable(e.old, k) /\ InTable(e.new, k))
      BY <1>1, <2>6, <2>10, <2>11 DEF KeysIn
    <3>2. e.idx = b + 1 /\ e = [old |-> e.old, new |-> e.new, idx |-> e.idx]
      BY <2>4
    <3>3. \A c \in 0 .. e.idx - 1 : e.old.buckets[c] = <<>>
      <4>1. SUFFICES ASSUME NEW c \in 0 .. b PROVE e.old.buckets[c] = <<>>
        BY <2>5, <3>2
      <4>2. c \in 0 .. d.old.size - 1 /\ (c = b \/ c \in 0 .. d.idx - 1 \/ c \in d.idx .. b - 1)
        BY <1>2, <2>5
      <4> QED BY <1>2, <2>3, <2>6, <4>2
    <3> QED BY <1>1, <1>2, <2>5, <2>6, <2>10, <3>1, <3>2, <3>3
        DEF DictOK, Agree, Rehashing, Sound
  <2>13. Held(e) = Held(d)
    BY <1>1, <2>6, <2>10, <2>11, <2>12, DictIs
  <2>14. ASSUME NEW k \in Held(d) PROVE ValueOf(e, k) = ValueOf(d, k)
    <3>1. k \in Keys
      BY DEF Held
    <3>2. CASE k \in KeysIn(e.old)
      BY <2>6, <3>2 DEF ValueOf, KeysIn
    <3>3. CASE k \in moved
      <4>1. PICK i \in 1 .. Len(chain) : chain[i].key = k
        BY <3>3 DEF moved, KeysOf
      <4>2. ValueIn(e.new, k) = chain[i].value
        BY <2>10, <4>1
      <4>3. ValueIn(d.old, k) = chain[i].value
        BY <2>7, <4>1 DEF ValueIn, PlaceIn, Chain, chain
      <4>4. InTable(d.old, k) /\ ~InTable(e.old, k)
        BY <2>6, <2>11, <3>3, <3>1 DEF KeysIn
      <4> QED BY <4>2, <4>3, <4>4 DEF ValueOf
    <3>4. CASE k \in KeysIn(d.new)
      <4>1. ~InTable(d.old, k) /\ ~InTable(e.old, k)
        BY <1>1, <2>6, <3>4, <3>1 DEF KeysIn
      <4> QED BY <2>10, <3>4, <4>1 DEF ValueOf
    <3> QED BY <1>1, <2>6, <3>2, <3>3, <3>4
  <2> QED BY <1>1, <2>6, <2>12, <2>13, <2>14 DEF SameMap
<1> QED BY <1>3, <1>4

LEMMA SameIsUndisturbed == \A d : SameMap(d, d) /\ Undisturbed(d, d)
BY DEF SameMap, Undisturbed

LEMMA UndisturbedTwice ==
  ASSUME NEW d, NEW e, NEW f, Undisturbed(d, e), Undisturbed(e, f),
         Held(d) \cap Held(f) \subseteq Held(e)
  PROVE  Undisturbed(d, f)
<1> SUFFICES ASSUME NEW k \in Held(d) \cap Held(f)
             PROVE  /\ InTable(f.old, k) <=> InTable(d.old, k)
                    /\ InTable(f.new, k) <=> InTable(d.new, k)
                    /\ InTable(d.old, k) => f.old.size = d.old.size
                    /\ InTable(d.new, k) => f.new.size = d.new.size
                    /\ \A l \in Held(d) \cap Held(f) : Comes(f, k, l) <=> Comes(d, k, l)
  BY DEF Undisturbed
<1>1. k \in Held(d) \cap Held(e) /\ k \in Held(e) \cap Held(f)
      /\ \A l \in Held(d) \cap Held(f) : l \in Held(d) \cap Held(e) /\ l \in Held(e) \cap Held(f)
  OBVIOUS
<1> QED BY <1>1 DEF Undisturbed

(* While something iterates, nothing is moved.                               *)
LEMMA TryRehashKeeps ==
  ASSUME NEW d, DictOK(d), NEW e, e = TryRehash(d)
  PROVE  DictOK(e) /\ SameMap(d, e) /\ (iterators # 0 => e = d)
         /\ (d.old.size > 0 => e.old.size > 0)
<1>1. CASE Rehashing(d) /\ iterators = 0
  <2>1. e = RehashStep(d)
    BY <1>1 DEF TryRehash
  <2> QED BY <1>1, <2>1, RehashStepKeeps
<1>2. CASE ~(Rehashing(d) /\ iterators = 0)
  BY <1>2, SameIsUndisturbed DEF TryRehash
<1> QED BY <1>1, <1>2

LEMMA FoundKeeps ==
  ASSUME NEW d, DictOK(d), NEW e, e = Found(d)
  PROVE  DictOK(e) /\ SameMap(d, e) /\ (iterators # 0 => e = d)
BY TryRehashKeeps, SameIsUndisturbed DEF Found

(* A table with nothing in it comes first or second.                         *)
LEMMA ExpandKeeps ==
  ASSUME NEW d, DictOK(d), ~Rehashing(d), NEW n \in Nat, n >= d.old.size,
         NEW e, e = Expand(d, n)
  PROVE  DictOK(e) /\ SameMap(d, e) /\ Undisturbed(d, e) /\ e.old.size > 0
<1> DEFINE t == NewTable(PowSize(n))
<1>1. /\ Sound(t) /\ t.size = PowSize(n) /\ KeysIn(t) = {}
      /\ PowSize(n) \in Nat /\ PowSize(n) >= n /\ PowSize(n) >= 1
  BY PowSizeIs, NewTableIs
<1>2. /\ Held(d) = KeysIn(d.old) \cup KeysIn(d.new) /\ KeysIn(d.new) = {}
      /\ d.new = NoTable /\ d.idx = -1 /\ d.old.size \in Nat
      /\ Sound(d.old) /\ Sound(d.new)
      /\ d = [old |-> d.old, new |-> d.new, idx |-> d.idx]
  BY DictIs DEF DictOK, Agree, Rehashing, Sound, IsTable
<1>3. \A k \in Keys : ~InTable(t, k) /\ ~InTable(d.new, k)
  BY <1>1, <1>2 DEF KeysIn
<1> HIDE DEF t
<1>4. CASE d.old.size = 0
  <2>1. e = [d EXCEPT !.old = t]
    BY <1>4 DEF Expand, t
  <2>2. e.old = t /\ e.new = d.new /\ e.idx = d.idx
        /\ e = [old |-> e.old, new |-> e.new, idx |-> e.idx]
    BY <1>2, <2>1
  <2>3. \A k \in Keys : ~InTable(d.old, k)
    BY <1>4 DEF InTable
  <2>4. Held(d) = {}
    BY <1>2, <2>3 DEF KeysIn
  <2>5. Agree(e)
    BY <1>1, <1>2, <1>3, <2>2 DEF Agree, Sound
  <2>6. DictOK(e)
    BY <1>1, <1>2, <2>2, <2>5 DEF DictOK, Rehashing
  <2>7. Held(e) = {}
    BY <1>1, <1>2, <2>2, <2>6, DictIs
  <2> QED BY <1>1, <2>2, <2>4, <2>6, <2>7 DEF SameMap, Undisturbed
<1>5. CASE d.old.size # 0
  <2>1. e = [d EXCEPT !.new = t, !.idx = 0]
    BY <1>5 DEF Expand, t
  <2>2. e.old = d.old /\ e.new = t /\ e.idx = 0
        /\ e = [old |-> e.old, new |-> e.new, idx |-> e.idx]
    BY <1>2, <2>1
  <2>3. Agree(e)
    <3>1. 0 .. e.idx - 1 = {}
      BY <2>2
    <3>2. e.idx \in 0 .. e.old.size /\ e.new.size >= e.old.size
      BY <1>1, <1>2, <2>2
    <3> QED BY <1>1, <1>2, <1>3, <2>2, <3>1, <3>2 DEF Agree, Sound
  <2>4. DictOK(e)
    BY <1>1, <1>2, <1>5, <2>2, <2>3 DEF DictOK, Rehashing
  <2>5. Held(e) = Held(d)
    BY <1>1, <1>2, <2>2, <2>4, DictIs
  <2>6. \A k \in Held(d) : k \in Keys /\ InTable(d.old, k) /\ ~InTable(d.new, k) /\ ~InTable(e.new, k)
    BY <1>2, <1>3, <2>2 DEF KeysIn
  <2> QED BY <1>2, <1>5, <2>2, <2>4, <2>5, <2>6
        DEF SameMap, Undisturbed, Comes, ValueOf
<1> QED BY <1>4, <1>5

LEMMA PreparedKeeps ==
  ASSUME NEW d, DictOK(d), NEW e, e = Prepared(d)
  PROVE  /\ DictOK(e) /\ SameMap(d, e) /\ e.old.size > 0
         /\ iterators # 0 => Undisturbed(d, e)
<1> DEFINE c == TryRehash(d)
<1>1. DictOK(c) /\ SameMap(d, c) /\ (iterators # 0 => c = d)
  BY TryRehashKeeps
<1>2. e = TryExpand(c)
  BY DEF Prepared
<1> HIDE DEF c
<1>3. c.old.size \in Nat /\ c.old.used \in Nat /\ (Rehashing(c) => c.old.size > 0)
  BY <1>1 DEF DictOK, Sound, IsTable, Tables
<1>4. DictOK(e) /\ SameMap(c, e) /\ Undisturbed(c, e) /\ e.old.size > 0
  <2>1. CASE Rehashing(c)
    BY <1>1, <1>2, <1>3, <2>1, SameIsUndisturbed DEF TryExpand
  <2>2. CASE ~Rehashing(c) /\ c.old.size = 0
    <3>1. e = Expand(c, InitSize) /\ InitSize \in Nat /\ InitSize >= c.old.size
      BY <1>2, <2>2, SizeAssumption DEF TryExpand
    <3> QED BY <1>1, <2>2, <3>1, ExpandKeeps
  <2>3. CASE ~Rehashing(c) /\ c.old.size # 0 /\ c.old.used >= c.old.size
    <3>1. e = Expand(c, 2 * c.old.used) /\ 2 * c.old.used \in Nat /\ 2 * c.old.used >= c.old.size
      BY <1>2, <1>3, <2>3 DEF TryExpand
    <3> QED BY <1>1, <2>3, <3>1, ExpandKeeps
  <2>4. CASE ~Rehashing(c) /\ c.old.size # 0 /\ ~(c.old.used >= c.old.size)
    BY <1>1, <1>2, <1>3, <2>4, SameIsUndisturbed DEF TryExpand
  <2> QED BY <2>1, <2>2, <2>3, <2>4
<1> QED BY <1>1, <1>4 DEF SameMap

-----------------------------------------------------------------------------
(* One of the tables changes its entries: what that does to both.            *)
SameOrder(t, u) ==
  \A k, l \in KeysIn(t) \cap KeysIn(u) : Precedes(u, k, l) <=> Precedes(t, k, l)

LEMMA OldChanges ==
  ASSUME NEW d, DictOK(d), NEW u, Sound(u), u.size = d.old.size, SameOrder(d.old, u),
         Rehashing(d) => KeysIn(u) \subseteq KeysIn(d.old),
         NEW e, e = [d EXCEPT !.old = u]
  PROVE  /\ DictOK(e) /\ Undisturbed(d, e)
         /\ Held(e) = KeysIn(u) \cup KeysIn(d.new)
         /\ \A k \in Keys :
              ValueOf(e, k) = IF k \in KeysIn(u) THEN ValueIn(u, k) ELSE ValueIn(d.new, k)
<1>1. /\ Held(d) = KeysIn(d.old) \cup KeysIn(d.new)
      /\ KeysIn(d.old) \cap KeysIn(d.new) = {}
      /\ ~Rehashing(d) => KeysIn(d.new) = {}
  BY DictIs
<1>2. /\ Sound(d.old) /\ Sound(d.new) /\ d.old.size \in Nat /\ d.idx \in Int
      /\ d = [old |-> d.old, new |-> d.new, idx |-> d.idx]
  BY DEF DictOK, Sound, IsTable
<1>3. e.old = u /\ e.new = d.new /\ e.idx = d.idx
      /\ e = [old |-> e.old, new |-> e.new, idx |-> e.idx]
  BY <1>2
<1>4. Rehashing(e) <=> Rehashing(d)
  BY <1>3 DEF Rehashing
<1>5. Agree(e)
  <2>1. ASSUME NEW k \in Keys, InTable(e.old, k), InTable(e.new, k) PROVE FALSE
    BY <1>1, <1>3, <2>1 DEF KeysIn
  <2>2. ASSUME Rehashing(d), NEW b \in 0 .. d.idx - 1 PROVE e.old.buckets[b] = <<>>
    <3>1. b \in 0 .. d.old.size - 1 /\ d.old.buckets[b] = <<>>
      BY <1>2, <2>2 DEF DictOK, Agree, Rehashing
    <3> QED BY <1>2, <1>3, <2>2, <3>1, EmptyStays
  <2>3. IF d.idx = -1 THEN d.new = NoTable
        ELSE d.idx \in 0 .. d.old.size /\ d.new.size >= d.old.size
    BY DEF DictOK, Agree
  <2> QED BY <1>2, <1>3, <2>1, <2>2, <2>3 DEF Agree, Rehashing, Sound
<1>6. DictOK(e)
  <2>1. Rehashing(d) => d.old.size > 0
    BY DEF DictOK
  <2> QED BY <1>2, <1>3, <1>4, <1>5, <2>1 DEF DictOK
<1>7. Held(e) = KeysIn(u) \cup KeysIn(d.new) /\ KeysIn(u) \cap KeysIn(d.new) = {}
  BY <1>3, <1>6, DictIs
<1>8. \A k \in Keys :
        ValueOf(e, k) = IF k \in KeysIn(u) THEN ValueIn(u, k) ELSE ValueIn(d.new, k)
  BY <1>3 DEF ValueOf, KeysIn
<1>9. \A k \in Held(d) \cap Held(e) :
        /\ k \in Keys
        /\ k \in KeysIn(u) <=> k \in KeysIn(d.old)
        /\ InTable(e.old, k) <=> InTable(d.old, k)
        /\ InTable(e.new, k) <=> InTable(d.new, k)
        /\ InTable(d.old, k) <=> k \in KeysIn(d.old)
  BY <1>1, <1>3, <1>7 DEF KeysIn
<1>10. Undisturbed(d, e)
  <2>1. ASSUME NEW k \in Held(d) \cap Held(e), NEW l \in Held(d) \cap Held(e)
        PROVE  Comes(e, k, l) <=> Comes(d, k, l)
    <3>1. InTable(d.old, k) /\ InTable(d.old, l) =>
            (Precedes(e.old, k, l) <=> Precedes(d.old, k, l))
      BY <1>3, <1>9 DEF SameOrder
    <3> QED BY <1>3, <1>9, <3>1 DEF Comes
  <2> QED BY <1>3, <1>9, <2>1 DEF Undisturbed
<1> QED BY <1>6, <1>7, <1>8, <1>10

LEMMA NewChanges ==
  ASSUME NEW d, DictOK(d), Rehashing(d),
         NEW u, Sound(u), u.size = d.new.size, SameOrder(d.new, u),
         KeysIn(u) \cap KeysIn(d.old) = {},
         NEW e, e = [d EXCEPT !.new = u]
  PROVE  /\ DictOK(e) /\ Undisturbed(d, e)
         /\ Held(e) = KeysIn(d.old) \cup KeysIn(u)
         /\ \A k \in Keys :
              ValueOf(e, k) = IF k \in KeysIn(d.old) THEN ValueIn(d.old, k) ELSE ValueIn(u, k)
<1>1. /\ Held(d) = KeysIn(d.old) \cup KeysIn(d.new)
      /\ KeysIn(d.old) \cap KeysIn(d.new) = {}
  BY DictIs
<1>2. /\ Sound(d.old) /\ Sound(d.new) /\ d.old.size \in Nat /\ d.idx \in Int
      /\ d = [old |-> d.old, new |-> d.new, idx |-> d.idx]
      /\ d.old.size > 0
  BY DEF DictOK, Sound, IsTable
<1>3. e.old = d.old /\ e.new = u /\ e.idx = d.idx
      /\ e = [old |-> e.old, new |-> e.new, idx |-> e.idx]
  BY <1>2
<1>4. Agree(e)
  <2>1. ASSUME NEW k \in Keys, InTable(e.old, k), InTable(e.new, k) PROVE FALSE
    BY <1>3, <2>1 DEF KeysIn
  <2>2. /\ d.idx # -1 /\ d.idx \in 0 .. d.old.size /\ d.new.size >= d.old.size
        /\ \A b \in 0 .. d.idx - 1 : d.old.buckets[b] = <<>>
    BY DEF DictOK, Agree, Rehashing
  <2> QED BY <1>2, <1>3, <2>1, <2>2 DEF Agree, Sound
<1>5. DictOK(e)
  BY <1>2, <1>3, <1>4 DEF DictOK
<1>6. Held(e) = KeysIn(d.old) \cup KeysIn(u)
  BY <1>3, <1>5, DictIs
<1>7. \A k \in Keys :
        ValueOf(e, k) = IF k \in KeysIn(d.old) THEN ValueIn(d.old, k) ELSE ValueIn(u, k)
  BY <1>3 DEF ValueOf, KeysIn
<1>8. \A k \in Held(d) \cap Held(e) :
        /\ k \in Keys
        /\ k \in KeysIn(u) <=> k \in KeysIn(d.new)
        /\ InTable(e.old, k) <=> InTable(d.old, k)
        /\ InTable(e.new, k) <=> InTable(d.new, k)
        /\ InTable(d.new, k) <=> k \in KeysIn(d.new)
  BY <1>1, <1>3, <1>6 DEF KeysIn
<1>9. Undisturbed(d, e)
  <2>1. ASSUME NEW k \in Held(d) \cap Held(e), NEW l \in Held(d) \cap Held(e)
        PROVE  Comes(e, k, l) <=> Comes(d, k, l)
    <3>1. InTable(d.new, k) /\ InTable(d.new, l) =>
            (Precedes(e.new, k, l) <=> Precedes(d.new, k, l))
      BY <1>3, <1>8 DEF SameOrder
    <3> QED BY <1>3, <1>8, <3>1 DEF Comes
  <2> QED BY <1>3, <1>8, <2>1 DEF Undisturbed
<1> QED BY <1>5, <1>6, <1>7, <1>9

-----------------------------------------------------------------------------
(* What the operations do to the map.                                        *)
LEMMA InsertKeeps ==
  ASSUME NEW d, DictOK(d), d.old.size > 0, NEW k \in Keys, NEW v \in Values,
         ~Present(d, k), NEW e, e = Insert(d, [key |-> k, value |-> v])
  PROVE  DictOK(e) /\ WithEntry(d, e, k, v) /\ Undisturbed(d, e)
<1> DEFINE n == [key |-> k, value |-> v]
<1>1. /\ Held(d) = KeysIn(d.old) \cup KeysIn(d.new)
      /\ KeysIn(d.old) \cap KeysIn(d.new) = {}
      /\ ~Rehashing(d) => KeysIn(d.new) = {}
      /\ Rehashing(d) => d.new.size > 0
      /\ ~InTable(d.old, k) /\ ~InTable(d.new, k)
      /\ k \notin KeysIn(d.old) /\ k \notin KeysIn(d.new)
  BY DictIs
<1>2. n \in Entry /\ n.key = k /\ n.value = v /\ Sound(d.old) /\ Sound(d.new)
  BY DEF Entry, DictOK
<1>3. \A l \in Held(d) :
        l \in Keys /\ l # k /\
        ValueOf(d, l) = IF l \in KeysIn(d.old) THEN ValueIn(d.old, l) ELSE ValueIn(d.new, l)
  BY <1>1 DEF KeysIn, ValueOf
<1> HIDE DEF n
<1>4. CASE Rehashing(d)
  <2> DEFINE u == Push(d.new, n)
  <2>1. e = [d EXCEPT !.new = u]
    BY <1>4 DEF Insert, n
  <2>2. /\ Sound(u) /\ u.size = d.new.size /\ KeysIn(u) = KeysIn(d.new) \cup {k}
        /\ ValueIn(u, k) = v /\ \A l \in KeysIn(d.new) : ValueIn(u, l) = ValueIn(d.new, l)
        /\ \A l, m \in KeysIn(d.new) : Precedes(u, l, m) <=> Precedes(d.new, l, m)
    BY <1>1, <1>2, <1>4, PushKeeps
  <2> HIDE DEF u
  <2>3. SameOrder(d.new, u) /\ KeysIn(u) \cap KeysIn(d.old) = {}
    BY <1>1, <2>2 DEF SameOrder
  <2>4. /\ DictOK(e) /\ Undisturbed(d, e)
        /\ Held(e) = KeysIn(d.old) \cup KeysIn(u)
        /\ \A l \in Keys :
             ValueOf(e, l) = IF l \in KeysIn(d.old) THEN ValueIn(d.old, l) ELSE ValueIn(u, l)
    BY <1>4, <2>1, <2>2, <2>3, NewChanges
  <2> QED BY <1>1, <1>3, <2>2, <2>4 DEF WithEntry
<1>5. CASE ~Rehashing(d)
  <2> DEFINE u == Push(d.old, n)
  <2>1. e = [d EXCEPT !.old = u]
    BY <1>5 DEF Insert, n
  <2>2. /\ Sound(u) /\ u.size = d.old.size /\ KeysIn(u) = KeysIn(d.old) \cup {k}
        /\ ValueIn(u, k) = v /\ \A l \in KeysIn(d.old) : ValueIn(u, l) = ValueIn(d.old, l)
        /\ \A l, m \in KeysIn(d.old) : Precedes(u, l, m) <=> Precedes(d.old, l, m)
    BY <1>1, <1>2, PushKeeps
  <2> HIDE DEF u
  <2>3. SameOrder(d.old, u)
    BY <2>2 DEF SameOrder
  <2>4. /\ DictOK(e) /\ Undisturbed(d, e)
        /\ Held(e) = KeysIn(u) \cup KeysIn(d.new)
        /\ \A l \in Keys :
             ValueOf(e, l) = IF l \in KeysIn(u) THEN ValueIn(u, l) ELSE ValueIn(d.new, l)
    BY <1>5, <2>1, <2>2, <2>3, OldChanges
  <2> QED BY <1>1, <1>3, <1>5, <2>2, <2>4 DEF WithEntry
<1> QED BY <1>4, <1>5

LEMMA DeleteKeeps ==
  ASSUME NEW d, DictOK(d), NEW k \in Keys, Present(d, k), NEW e, e = Delete(d, k)
  PROVE  DictOK(e) /\ WithoutKey(d, e, k) /\ Undisturbed(d, e)
<1>1. /\ Held(d) = KeysIn(d.old) \cup KeysIn(d.new)
      /\ KeysIn(d.old) \cap KeysIn(d.new) = {}
      /\ ~Rehashing(d) => KeysIn(d.new) = {}
      /\ InTable(d.old, k) <=> k \in KeysIn(d.old)
      /\ InTable(d.new, k) <=> k \in KeysIn(d.new)
      /\ InTable(d.old, k) \/ InTable(d.new, k)
      /\ Sound(d.old) /\ Sound(d.new)
  BY DictIs DEF DictOK
<1>2. \A l \in Held(d) :
        l \in Keys /\
        ValueOf(d, l) = IF l \in KeysIn(d.old) THEN ValueIn(d.old, l) ELSE ValueIn(d.new, l)
  BY <1>1 DEF KeysIn, ValueOf
<1>3. CASE InTable(d.old, k)
  <2> DEFINE u == Drop(d.old, k)
  <2>1. e = [d EXCEPT !.old = u]
    BY <1>3 DEF Delete
  <2>2. /\ Sound(u) /\ u.size = d.old.size /\ KeysIn(u) = KeysIn(d.old) \ {k}
        /\ \A l \in KeysIn(u) : ValueIn(u, l) = ValueIn(d.old, l)
        /\ \A l, m \in KeysIn(u) : Precedes(u, l, m) <=> Precedes(d.old, l, m)
    BY <1>1, <1>3, DropKeeps
  <2> HIDE DEF u
  <2>3. SameOrder(d.old, u) /\ KeysIn(u) \subseteq KeysIn(d.old)
    BY <2>2 DEF SameOrder
  <2>4. /\ DictOK(e) /\ Undisturbed(d, e)
        /\ Held(e) = KeysIn(u) \cup KeysIn(d.new)
        /\ \A l \in Keys :
             ValueOf(e, l) = IF l \in KeysIn(u) THEN ValueIn(u, l) ELSE ValueIn(d.new, l)
    BY <2>1, <2>2, <2>3, OldChanges
  <2> QED BY <1>1, <1>2, <1>3, <2>2, <2>4 DEF WithoutKey
<1>4. CASE ~InTable(d.old, k)
  <2> DEFINE u == Drop(d.new, k)
  <2>1. e = [d EXCEPT !.new = u] /\ InTable(d.new, k) /\ Rehashing(d)
    BY <1>1, <1>4 DEF Delete
  <2>2. /\ Sound(u) /\ u.size = d.new.size /\ KeysIn(u) = KeysIn(d.new) \ {k}
        /\ \A l \in KeysIn(u) : ValueIn(u, l) = ValueIn(d.new, l)
        /\ \A l, m \in KeysIn(u) : Precedes(u, l, m) <=> Precedes(d.new, l, m)
    BY <1>1, <2>1, DropKeeps
  <2> HIDE DEF u
  <2>3. SameOrder(d.new, u) /\ KeysIn(u) \cap KeysIn(d.old) = {}
    BY <1>1, <2>2 DEF SameOrder
  <2>4. /\ DictOK(e) /\ Undisturbed(d, e)
        /\ Held(e) = KeysIn(d.old) \cup KeysIn(u)
        /\ \A l \in Keys :
             ValueOf(e, l) = IF l \in KeysIn(d.old) THEN ValueIn(d.old, l) ELSE ValueIn(u, l)
    BY <2>1, <2>2, <2>3, NewChanges
  <2> QED BY <1>1, <1>2, <1>4, <2>2, <2>4 DEF WithoutKey
<1> QED BY <1>3, <1>4

LEMMA UpdateKeeps ==
  ASSUME NEW d, DictOK(d), NEW k \in Keys, NEW v \in Values, Present(d, k),
         NEW e, e = Update(d, k, v)
  PROVE  DictOK(e) /\ WithEntry(d, e, k, v) /\ Undisturbed(d, e)
<1>1. /\ Held(d) = KeysIn(d.old) \cup KeysIn(d.new)
      /\ KeysIn(d.old) \cap KeysIn(d.new) = {}
      /\ ~Rehashing(d) => KeysIn(d.new) = {}
      /\ InTable(d.old, k) <=> k \in KeysIn(d.old)
      /\ InTable(d.new, k) <=> k \in KeysIn(d.new)
      /\ InTable(d.old, k) \/ InTable(d.new, k)
      /\ Sound(d.old) /\ Sound(d.new)
  BY DictIs DEF DictOK
<1>2. \A l \in Held(d) :
        l \in Keys /\
        ValueOf(d, l) = IF l \in KeysIn(d.old) THEN ValueIn(d.old, l) ELSE ValueIn(d.new, l)
  BY <1>1 DEF KeysIn, ValueOf
<1>3. CASE InTable(d.old, k)
  <2> DEFINE u == SetValue(d.old, k, v)
  <2>1. e = [d EXCEPT !.old = u]
    BY <1>3 DEF Update
  <2>2. /\ Sound(u) /\ u.size = d.old.size /\ KeysIn(u) = KeysIn(d.old)
        /\ ValueIn(u, k) = v
        /\ \A l \in KeysIn(u) : l # k => ValueIn(u, l) = ValueIn(d.old, l)
        /\ \A l, m \in KeysIn(u) : Precedes(u, l, m) <=> Precedes(d.old, l, m)
    BY <1>1, <1>3, SetValueKeeps
  <2> HIDE DEF u
  <2>3. SameOrder(d.old, u) /\ KeysIn(u) \subseteq KeysIn(d.old)
    BY <2>2 DEF SameOrder
  <2>4. /\ DictOK(e) /\ Undisturbed(d, e)
        /\ Held(e) = KeysIn(u) \cup KeysIn(d.new)
        /\ \A l \in Keys :
             ValueOf(e, l) = IF l \in KeysIn(u) THEN ValueIn(u, l) ELSE ValueIn(d.new, l)
    BY <2>1, <2>2, <2>3, OldChanges
  <2> QED BY <1>1, <1>2, <1>3, <2>2, <2>4 DEF WithEntry
<1>4. CASE ~InTable(d.old, k)
  <2> DEFINE u == SetValue(d.new, k, v)
  <2>1. e = [d EXCEPT !.new = u] /\ InTable(d.new, k) /\ Rehashing(d)
    BY <1>1, <1>4 DEF Update
  <2>2. /\ Sound(u) /\ u.size = d.new.size /\ KeysIn(u) = KeysIn(d.new)
        /\ ValueIn(u, k) = v
        /\ \A l \in KeysIn(u) : l # k => ValueIn(u, l) = ValueIn(d.new, l)
        /\ \A l, m \in KeysIn(u) : Precedes(u, l, m) <=> Precedes(d.new, l, m)
    BY <1>1, <2>1, SetValueKeeps
  <2> HIDE DEF u
  <2>3. SameOrder(d.new, u) /\ KeysIn(u) \cap KeysIn(d.old) = {}
    BY <1>1, <2>2 DEF SameOrder
  <2>4. /\ DictOK(e) /\ Undisturbed(d, e)
        /\ Held(e) = KeysIn(d.old) \cup KeysIn(u)
        /\ \A l \in Keys :
             ValueOf(e, l) = IF l \in KeysIn(d.old) THEN ValueIn(d.old, l) ELSE ValueIn(u, l)
    BY <2>1, <2>2, <2>3, NewChanges
  <2> QED BY <1>1, <1>2, <1>4, <2>2, <2>4 DEF WithEntry
<1> QED BY <1>3, <1>4

-----------------------------------------------------------------------------
(* Where iterators stand.                                                    *)

TableOf(d, t) == IF t = 0 THEN d.old ELSE d.new

Standing(d, p) ==
  /\ p.table \in {0, 1} /\ p.key \in Keys
  /\ InTable(TableOf(d, p.table), p.key)
  /\ p.bucket = Bucket(TableOf(d, p.table), p.key)

(* What is due lies ahead, and nothing that lies ahead has been returned.    *)
Walk(d, p, D, S) ==
  /\ p.phase \in {"none", "made", "at", "ended"}
  /\ D \subseteq Held(d) /\ S \subseteq Held(d)
  /\ p.phase \in {"none", "made"} => D = {} /\ S = {}
  /\ p.phase = "ended" => D = {}
  /\ p.phase = "at" => /\ Standing(d, p)
                       /\ \A l \in D : Comes(d, p.key, l)
                       /\ \A l \in S : ~Comes(d, p.key, l)

(* An iterator at p has next to come by the keys of A.                       *)
NextOf(d, A, p) ==
  /\ p.phase \in {"at", "ended"}
  /\ p.phase = "ended" => A = {}
  /\ p.phase = "at" => /\ Standing(d, p) /\ p.key \in A
                       /\ \A l \in A : l # p.key => Comes(d, p.key, l)

LEMMA WalkStays ==
  ASSUME NEW d, NEW e, NEW p, NEW D, NEW S, Walk(d, p, D, S),
         D \cup S \subseteq Held(e),
         p.phase = "at" => DictOK(d) /\ Undisturbed(d, e) /\ p.key \in Held(e)
  PROVE  Walk(e, p, D, S)
<1>1. CASE p.phase # "at"
  BY <1>1 DEF Walk
<1>2. CASE p.phase = "at"
  <2>1. Standing(d, p) /\ DictOK(d) /\ Undisturbed(d, e) /\ p.key \in Held(e)
        /\ D \subseteq Held(d) /\ S \subseteq Held(d)
    BY <1>2 DEF Walk
  <2>2. p.key \in Held(d)
    BY <2>1, DictIs DEF Standing, TableOf, Held
  <2>3. InTable(TableOf(e, p.table), p.key)
        /\ TableOf(e, p.table).size = TableOf(d, p.table).size
    BY <2>1, <2>2 DEF Undisturbed, Standing, TableOf
  <2>4. Standing(e, p)
    BY <2>1, <2>3 DEF Standing, Bucket
  <2>5. \A l \in D \cup S : Comes(e, p.key, l) <=> Comes(d, p.key, l)
    BY <2>1, <2>2 DEF Undisturbed
  <2> QED BY <1>2, <2>4, <2>5 DEF Walk
<1> QED BY <1>1, <1>2

(* The order of an iterator is an order.                                     *)
LEMMA ComesIsOrder ==
  ASSUME NEW d, DictOK(d)
  PROVE  /\ \A k \in Keys : ~Comes(d, k, k)
         /\ \A k, l, n \in Keys : Comes(d, k, l) /\ Comes(d, l, n) => Comes(d, k, n)
<1>1. ASSUME NEW t, Sound(t), NEW k \in Keys, InTable(t, k)
      PROVE  Bucket(t, k) \in Int /\ PlaceIn(t, k) \in Int
  <2>1. t.size > 0 /\ PlaceIn(t, k) \in 1 .. Len(Chain(t, k))
    BY <1>1, PlaceIs DEF Sound
  <2>2. Bucket(t, k) \in 0 .. t.size - 1 /\ Chain(t, k) \in Seq(Entry)
    BY <1>1, <2>1, BucketIs DEF Sound
  <2>3. Bucket(t, k) \in Int /\ Len(Chain(t, k)) \in Nat
    BY <1>1, <2>2 DEF Sound, IsTable
  <2> QED BY <2>1, <2>3
<1>2. Sound(d.old) /\ Sound(d.new)
      /\ \A k \in Keys : ~(InTable(d.old, k) /\ InTable(d.new, k))
  BY DEF DictOK, Agree
<1>3. ASSUME NEW k \in Keys PROVE ~Comes(d, k, k)
  BY <1>1, <1>2 DEF Comes, Precedes
<1>4. ASSUME NEW k \in Keys, NEW l \in Keys, NEW n \in Keys, Comes(d, k, l), Comes(d, l, n)
      PROVE  Comes(d, k, n)
  <2>1. CASE InTable(d.old, k) /\ InTable(d.old, l) /\ InTable(d.old, n)
    <3>1. Precedes(d.old, k, l) /\ Precedes(d.old, l, n)
      BY <1>2, <1>4, <2>1 DEF Comes
    <3>2. Precedes(d.old, k, n)
      BY <1>1, <1>2, <2>1, <3>1 DEF Precedes
    <3> QED BY <2>1, <3>2 DEF Comes
  <2>2. CASE InTable(d.new, k) /\ InTable(d.new, l) /\ InTable(d.new, n)
    <3>1. Precedes(d.new, k, l) /\ Precedes(d.new, l, n)
      BY <1>2, <1>4, <2>2 DEF Comes
    <3>2. Precedes(d.new, k, n)
      BY <1>1, <1>2, <2>2, <3>1 DEF Precedes
    <3> QED BY <2>2, <3>2 DEF Comes
  <2>3. CASE InTable(d.old, k) /\ InTable(d.new, n)
    BY <2>3 DEF Comes
  <2> QED BY <1>2, <1>4, <2>1, <2>2, <2>3 DEF Comes
<1> QED BY <1>3, <1>4

-----------------------------------------------------------------------------
(* An iterator moves to what comes next.                                     *)
LEMMA AtIs ==
  ASSUME DictOK(Now), NEW t \in {0, 1}, NEW b \in 0 .. Table(t).size - 1,
         NEW j \in 1 .. Len(Table(t).buckets[b])
  PROVE  LET p == At(t, b, j) IN
         /\ p.phase = "at" /\ Standing(Now, p) /\ p.table = t
         /\ p.key \in KeysIn(Table(t)) /\ p.key \in Held(Now)
         /\ Bucket(Table(t), p.key) = b /\ PlaceIn(Table(t), p.key) = j
<1> DEFINE T == Table(t)
           p == At(t, b, j)
<1>1. Sound(T) /\ T = TableOf(Now, t)
  BY DEF DictOK, Table, TableOf, Now
<1>2. p.phase = "at" /\ p.table = t /\ p.bucket = b /\ p.key = T.buckets[b][j].key
  BY DEF At
<1>3. b \in 0 .. T.size - 1 /\ j \in 1 .. Len(T.buckets[b])
  OBVIOUS
<1> HIDE DEF T, p
<1>4. p.key \in Keys /\ b = Bucket(T, p.key) /\ InTable(T, p.key) /\ PlaceIn(T, p.key) = j
  <2>1. LET k == T.buckets[b][j].key IN
        k \in Keys /\ b = Bucket(T, k) /\ InTable(T, k) /\ PlaceIn(T, k) = j
    BY <1>1, <1>3, KeysInPlace
  <2> QED BY <1>2, <2>1
<1>5. Standing(Now, p)
  BY <1>1, <1>2, <1>4 DEF Standing
<1>6. p.key \in KeysIn(T)
  BY <1>4 DEF KeysIn
<1>7. p.key \in Held(Now)
  BY <1>1, <1>6, DictIs DEF TableOf
<1> QED BY <1>2, <1>4, <1>5, <1>6, <1>7 DEF T, p

(* The keys an iterator that goes on from bucket `from' has before it.       *)
Beyond(t, from) ==
  {l \in Held(Now) : \/ l \in KeysIn(Table(t)) /\ Bucket(Table(t), l) >= from
                     \/ t = 0 /\ l \in KeysIn(new)}

LEMMA FirstAtIs ==
  ASSUME DictOK(Now), NEW t \in {0, 1}, NEW from \in Nat, Spots(t, from) # {}
  PROVE  NextOf(Now, Beyond(t, from), FirstAt(t, from))
<1> DEFINE T == Table(t)
           b == CHOOSE x \in Spots(t, from) : \A c \in Spots(t, from) : x <= c
           p == FirstAt(t, from)
<1>1. Sound(T) /\ T.size \in Nat
  BY DEF DictOK, Table, Now, Sound, IsTable
<1>2. \E x \in Spots(t, from) : \A c \in Spots(t, from) : x <= c
  <2>1. Spots(t, from) \in SUBSET Nat
    BY <1>1 DEF Spots
  <2> QED BY <2>1, HasLeast
<1>3. b \in Spots(t, from) /\ \A c \in Spots(t, from) : b <= c
  BY <1>2
<1>4. p = At(t, b, 1)
  BY DEF FirstAt
<1> HIDE DEF b
<1>5. b \in 0 .. T.size - 1 /\ b >= from /\ T.buckets[b] # <<>>
  BY <1>1, <1>3 DEF Spots
<1>6. 1 \in 1 .. Len(T.buckets[b])
  <2>1. T.buckets[b] \in Seq(Entry)
    BY <1>1, <1>5 DEF Sound, IsTable, Tables
  <2> QED BY <1>5, <2>1
<1>7. /\ p.phase = "at" /\ Standing(Now, p) /\ p.table = t
      /\ p.key \in KeysIn(T) /\ p.key \in Held(Now)
      /\ Bucket(T, p.key) = b /\ PlaceIn(T, p.key) = 1
  BY <1>4, <1>5, <1>6, AtIs
<1> HIDE DEF p
<1>8. p.key \in Beyond(t, from)
  BY <1>5, <1>7 DEF Beyond
<1>9. ASSUME NEW l \in Beyond(t, from), l # p.key PROVE Comes(Now, p.key, l)
  <2>1. CASE l \in KeysIn(T) /\ Bucket(T, l) >= from
    <3>1. l \in Keys /\ InTable(T, l) /\ T.size > 0 /\ p.key \in Keys /\ InTable(T, p.key)
      BY <1>7, <2>1 DEF KeysIn, InTable
    <3>2. Bucket(T, l) \in 0 .. T.size - 1 /\ Chain(T, l) \in Seq(Entry)
      BY <1>1, <3>1, BucketIs DEF Sound
    <3>3. PlaceIn(T, l) \in 1 .. Len(Chain(T, l)) /\ Chain(T, l)[PlaceIn(T, l)].key = l
          /\ Chain(T, p.key)[PlaceIn(T, p.key)].key = p.key
      BY <1>1, <3>1, PlaceIs DEF Sound
    <3>4. T.buckets[Bucket(T, l)] # <<>>
      BY <3>1 DEF InTable, Chain
    <3>5. Bucket(T, l) \in Spots(t, from)
      BY <1>1, <2>1, <3>2, <3>4 DEF Spots
    <3>6. b <= Bucket(T, l) /\ b \in Int /\ Bucket(T, l) \in Int
          /\ PlaceIn(T, l) \in Nat /\ PlaceIn(T, l) >= 1
      BY <1>1, <1>3, <1>5, <3>2, <3>3, <3>5
    <3>7. Bucket(T, l) = b => PlaceIn(T, l) # 1
      BY <1>7, <1>9, <3>3 DEF Chain
    <3>8. Precedes(T, p.key, l)
      BY <1>7, <3>6, <3>7 DEF Precedes
    <3> QED BY <3>1, <3>8 DEF Comes, Table, Now
  <2>2. CASE t = 0 /\ l \in KeysIn(new)
    BY <1>7, <2>2 DEF Comes, Table, Now, KeysIn
  <2> QED BY <2>1, <2>2 DEF Beyond
<1> QED BY <1>7, <1>8, <1>9 DEF NextOf, p

LEMMA FromBucketIs ==
  ASSUME DictOK(Now), NEW t \in {0, 1}, NEW from \in Nat
  PROVE  NextOf(Now, Beyond(t, from), FromBucket(t, from))
<1> DEFINE p == FromBucket(t, from)
<1>1. /\ Held(Now) = KeysIn(old) \cup KeysIn(new)
      /\ rehashidx = -1 => KeysIn(new) = {}
      /\ Sound(old) /\ Sound(new) /\ Sound(Table(t))
  BY DictIs DEF Now, Rehashing, DictOK, Table
<1>2. ASSUME NEW s \in {0, 1}, NEW m \in Nat, Spots(s, m) = {}, NEW l \in KeysIn(Table(s)),
             Bucket(Table(s), l) >= m
      PROVE  FALSE
  <2> DEFINE T == Table(s)
  <2>1. Sound(T) /\ l \in Keys /\ InTable(T, l) /\ T.size > 0 /\ T.size \in Nat
    BY <1>1, ZenonT(60) DEF Table, KeysIn, InTable, Sound, IsTable
  <2>2. Bucket(T, l) \in 0 .. T.size - 1
    BY <2>1, BucketIs DEF Sound
  <2>3. T.buckets[Bucket(T, l)] # <<>>
    BY <2>1 DEF InTable, Chain
  <2>4. Bucket(T, l) \in Spots(s, m)
    BY <1>2, <2>1, <2>2, <2>3 DEF Spots
  <2> QED BY <1>2, <2>4
<1>3. CASE Spots(t, from) # {}
  BY <1>3, FirstAtIs DEF FromBucket
<1>4. CASE Spots(t, from) = {} /\ t = 0 /\ rehashidx # -1 /\ Spots(1, 0) # {}
  <2>1. p = FirstAt(1, 0)
    BY <1>4 DEF FromBucket
  <2>2. Beyond(t, from) = KeysIn(new)
    BY <1>1, <1>2, <1>4 DEF Beyond
  <2>3. Beyond(1, 0) = KeysIn(new)
    <3>1. \A l \in KeysIn(new) : Bucket(new, l) >= 0
      <4>1. SUFFICES ASSUME NEW l \in KeysIn(new) PROVE Bucket(new, l) >= 0
        OBVIOUS
      <4>2. l \in Keys /\ new.size > 0 /\ new.size \in Nat
        BY <1>1 DEF KeysIn, InTable, Sound, IsTable
      <4>3. Bucket(new, l) \in 0 .. new.size - 1
        BY <1>1, <4>2, BucketIs DEF Sound
      <4> QED BY <4>2, <4>3
    <3> QED BY <1>1, <3>1 DEF Beyond, Table
  <2> QED BY <1>4, <2>1, <2>2, <2>3, FirstAtIs
<1>5. CASE Spots(t, from) = {} /\ ~(t = 0 /\ rehashidx # -1 /\ Spots(1, 0) # {})
  <2>1. p = [phase |-> "ended"]
    BY <1>5 DEF FromBucket
  <2>2. ASSUME NEW l \in Beyond(t, from) PROVE FALSE
    <3>1. ~(l \in KeysIn(Table(t)) /\ Bucket(Table(t), l) >= from)
      BY <1>2, <1>5
    <3>2. t = 0 /\ l \in KeysIn(new) /\ rehashidx # -1 /\ Spots(1, 0) = {}
      BY <1>1, <1>5, <3>1 DEF Beyond
    <3>3. l \in Keys /\ new.size > 0 /\ new.size \in Nat
      BY <1>1, <3>2 DEF KeysIn, InTable, Sound, IsTable
    <3>4. Bucket(new, l) \in 0 .. new.size - 1
      BY <1>1, <3>3, BucketIs DEF Sound
    <3> QED BY <1>2, <3>2, <3>3, <3>4 DEF Table
  <2> QED BY <2>1, <2>2 DEF NextOf
<1> QED BY <1>3, <1>4, <1>5

LEMMA AfterIs ==
  ASSUME DictOK(Now), NEW q, q.phase = "at", Standing(Now, q)
  PROVE  NextOf(Now, {l \in Held(Now) : Comes(Now, q.key, l)}, After(q))
<1> DEFINE t == q.table
           T == Table(t)
           k == q.key
           b == q.bucket
           j == PlaceIn(T, k)
           ahead == {l \in Held(Now) : Comes(Now, k, l)}
           p == After(q)
<1>1. t \in {0, 1} /\ k \in Keys /\ InTable(T, k) /\ b = Bucket(T, k) /\ Sound(T)
      /\ T.size \in Nat /\ T.size > 0
  BY DEF Standing, TableOf, Table, Now, DictOK, InTable, Sound, IsTable
<1>2. j \in 1 .. Len(T.buckets[b]) /\ b \in 0 .. T.size - 1 /\ T.buckets[b] \in Seq(Entry)
      /\ T.buckets[b][j].key = k
  BY <1>1, PlaceIs, BucketIs DEF Sound, Chain
<1>3. j = Place(Table(q.table).buckets[q.bucket], q.key)
  BY <1>1 DEF PlaceIn, Chain
<1>4. /\ Held(Now) = KeysIn(old) \cup KeysIn(new)
      /\ KeysIn(old) \cap KeysIn(new) = {}
  BY DictIs DEF Now
<1> HIDE DEF j, p
(* What lies ahead, in terms of places. *)
<1>5. ASSUME NEW l \in Held(Now)
      PROVE  Comes(Now, k, l) <=> \/ l \in KeysIn(T) /\ Precedes(T, k, l)
                                  \/ t = 0 /\ l \in KeysIn(new)
  <2>1. l \in Keys /\ (InTable(old, l) <=> l \in KeysIn(old))
        /\ (InTable(new, l) <=> l \in KeysIn(new))
        /\ (InTable(old, k) <=> k \in KeysIn(old)) /\ (InTable(new, k) <=> k \in KeysIn(new))
    BY <1>1 DEF Held, KeysIn
  <2>2. CASE t = 0
    BY <1>1, <1>4, <2>1, <2>2 DEF Comes, Now, Table
  <2>3. CASE t = 1
    BY <1>1, <1>4, <2>1, <2>3 DEF Comes, Now, Table
  <2> QED BY <1>1, <2>2, <2>3
<1>6. ASSUME NEW l \in KeysIn(T)
      PROVE  /\ Bucket(T, l) \in Int /\ PlaceIn(T, l) \in Int
             /\ Bucket(T, l) = b => PlaceIn(T, l) <= Len(T.buckets[b])
             /\ T.buckets[Bucket(T, l)][PlaceIn(T, l)].key = l
  <2>1. l \in Keys /\ InTable(T, l)
    BY DEF KeysIn
  <2>2. Bucket(T, l) \in 0 .. T.size - 1 /\ Chain(T, l) \in Seq(Entry)
    BY <1>1, <2>1, BucketIs DEF Sound
  <2>3. PlaceIn(T, l) \in 1 .. Len(Chain(T, l)) /\ Chain(T, l)[PlaceIn(T, l)].key = l
    BY <1>1, <2>1, PlaceIs DEF Sound
  <2>4. Len(Chain(T, l)) \in Nat
    BY <2>2
  <2> QED BY <1>1, <2>2, <2>3, <2>4 DEF Chain
<1>7. CASE j < Len(T.buckets[b])
  <2>1. p = At(t, b, j + 1)
    BY <1>3, <1>7 DEF After, p
  <2>2. j + 1 \in 1 .. Len(T.buckets[b])
    BY <1>2, <1>7
  <2>3. /\ p.phase = "at" /\ Standing(Now, p) /\ p.table = t
        /\ p.key \in KeysIn(T) /\ p.key \in Held(Now)
        /\ Bucket(T, p.key) = b /\ PlaceIn(T, p.key) = j + 1
    BY <1>1, <1>2, <2>1, <2>2, AtIs
  <2>4. Precedes(T, k, p.key)
    BY <1>1, <1>2, <2>3 DEF Precedes, j
  <2>5. p.key \in ahead
    BY <1>5, <2>3, <2>4
  <2>6. ASSUME NEW l \in ahead, l # p.key PROVE Comes(Now, p.key, l)
    <3>1. CASE l \in KeysIn(T) /\ Precedes(T, k, l)
      <4>1. Bucket(T, l) = b => PlaceIn(T, l) # j + 1
        BY <1>6, <2>3, <2>6, <3>1
      <4>2. Precedes(T, p.key, l)
        BY <1>1, <1>2, <1>6, <2>3, <3>1, <4>1 DEF Precedes, j
      <4> QED BY <1>1, <2>3, <3>1, <4>2 DEF Comes, Now, Table, KeysIn
    <3>2. CASE t = 0 /\ l \in KeysIn(new)
      BY <2>3, <3>2 DEF Comes, Now, Table, KeysIn
    <3> QED BY <1>5, <2>6, <3>1, <3>2
  <2> QED BY <2>3, <2>5, <2>6 DEF NextOf, p
<1>8. CASE ~(j < Len(T.buckets[b]))
  <2>1. p = FromBucket(t, b + 1)
    BY <1>3, <1>8 DEF After, p
  <2>2. b + 1 \in Nat /\ b \in Int
    BY <1>1, <1>2
  <2>3. ASSUME NEW l \in Held(Now)
        PROVE  Comes(Now, k, l) <=> l \in Beyond(t, b + 1)
    <3>1. ASSUME l \in KeysIn(T)
          PROVE  Precedes(T, k, l) <=> Bucket(T, l) >= b + 1
      BY <1>1, <1>2, <1>6, <1>8, <2>2, <3>1 DEF Precedes, j
    <3> QED BY <1>5, <3>1 DEF Beyond
  <2>4. ahead = Beyond(t, b + 1)
    BY <2>3 DEF Beyond
  <2> QED BY <1>1, <2>1, <2>2, <2>4, FromBucketIs DEF p
<1> QED BY <1>7, <1>8

-----------------------------------------------------------------------------
(* The effect of dict_add, dict_replace, dict_find and dict_del.             *)
LEMMA AddedKeeps ==
  ASSUME NEW d, DictOK(d), NEW k \in Keys, NEW v \in Values,
         NEW e, e = Added(Prepared(d), k, v)
  PROVE  /\ DictOK(e) /\ (iterators # 0 => Undisturbed(d, e))
         /\ Held(d) \subseteq Held(e)
         /\ Present(Prepared(d), k) <=> k \in Held(d)
         /\ IF k \in Held(d) THEN SameMap(d, e) ELSE WithEntry(d, e, k, v)
<1> DEFINE c == Prepared(d)
<1>1. DictOK(c) /\ SameMap(d, c) /\ c.old.size > 0 /\ (iterators # 0 => Undisturbed(d, c))
  BY PreparedKeeps
<1>2. e = IF Present(c, k) THEN c ELSE Insert(c, [key |-> k, value |-> v])
  BY DEF Added
<1> HIDE DEF c
<1>3. Held(c) = Held(d) /\ (Present(c, k) <=> k \in Held(d))
  BY <1>1 DEF SameMap, Held
<1>4. CASE Present(c, k)
  <2> QED BY <1>1, <1>2, <1>3, <1>4 DEF SameMap, c
<1>5. CASE ~Present(c, k)
  <2>1. DictOK(e) /\ WithEntry(c, e, k, v) /\ Undisturbed(c, e)
    BY <1>1, <1>2, <1>5, InsertKeeps
  <2>2. WithEntry(d, e, k, v)
    BY <1>1, <1>3, <1>5, <2>1 DEF WithEntry, SameMap
  <2>3. iterators # 0 => Undisturbed(d, e)
    BY <1>1, <1>3, <2>1, UndisturbedTwice
  <2> QED BY <1>3, <1>5, <2>1, <2>2, <2>3 DEF WithEntry, c
<1> QED BY <1>4, <1>5

LEMMA ReplacedKeeps ==
  ASSUME NEW d, DictOK(d), NEW k \in Keys, NEW v \in Values, NEW c, c = Found(d),
         NEW e, e = IF Present(c, k) THEN Update(c, k, v) ELSE Added(Prepared(c), k, v)
  PROVE  /\ DictOK(e) /\ (iterators # 0 => Undisturbed(d, e))
         /\ Held(d) \subseteq Held(e)
         /\ Present(c, k) <=> k \in Held(d)
         /\ WithEntry(d, e, k, v)
<1>1. DictOK(c) /\ SameMap(d, c) /\ (iterators # 0 => c = d)
  BY FoundKeeps
<1>2. Held(c) = Held(d) /\ (Present(c, k) <=> k \in Held(d))
  BY <1>1 DEF SameMap, Held
<1>3. DictOK(e) /\ WithEntry(c, e, k, v) /\ (iterators # 0 => Undisturbed(c, e))
  <2>1. CASE Present(c, k)
    BY <1>1, <2>1, UpdateKeeps
  <2>2. CASE ~Present(c, k)
    BY <1>1, <1>2, <2>2, AddedKeeps
  <2> QED BY <2>1, <2>2
<1>4. WithEntry(d, e, k, v)
  BY <1>1, <1>3 DEF WithEntry, SameMap
<1> QED BY <1>1, <1>2, <1>3, <1>4 DEF WithEntry

LEMMA DeletedKeeps ==
  ASSUME NEW d, DictOK(d), NEW k \in Keys, NEW c, c = Found(d),
         NEW e, e = IF Present(c, k) THEN Delete(c, k) ELSE c
  PROVE  /\ DictOK(e) /\ (iterators # 0 => Undisturbed(d, e))
         /\ Present(c, k) <=> k \in Held(d)
         /\ WithoutKey(d, e, k)
<1>1. DictOK(c) /\ SameMap(d, c) /\ (iterators # 0 => c = d)
  BY FoundKeeps
<1>2. Held(c) = Held(d) /\ (Present(c, k) <=> k \in Held(d))
  BY <1>1 DEF SameMap, Held
<1>3. CASE Present(c, k)
  <2>1. DictOK(e) /\ WithoutKey(c, e, k) /\ Undisturbed(c, e)
    BY <1>1, <1>3, DeleteKeeps
  <2>2. WithoutKey(d, e, k)
    BY <1>1, <2>1 DEF WithoutKey, SameMap
  <2> QED BY <1>1, <1>2, <2>1, <2>2
<1>4. CASE ~Present(c, k)
  BY <1>1, <1>2, <1>4, SameIsUndisturbed DEF WithoutKey, SameMap
<1> QED BY <1>3, <1>4

-----------------------------------------------------------------------------
(* The inductive invariant.                                                  *)

(* The iterators that are counted.                                           *)
Started == {i \in Iterators : iter[i].phase \in {"at", "ended"}}

IInv ==
  /\ DictOK(Now)
  /\ iter = [i \in Iterators |-> iter[i]]
  /\ due \in [Iterators -> SUBSET Keys]
  /\ seen \in [Iterators -> SUBSET Keys]
  /\ IsFiniteSet(Started) /\ iterators = Cardinality(Started)
  /\ \A i \in Iterators : Walk(Now, iter[i], due[i], seen[i])

LEMMA Counted ==
  ASSUME IInv, NEW i \in Iterators, iter[i].phase \in {"at", "ended"}
  PROVE  iterators # 0
<1>1. Started # {} /\ IsFiniteSet(Started) /\ iterators = Cardinality(Started)
  BY DEF IInv, Started
<1> QED BY <1>1, FS_EmptySet

LEMMA NowNext ==
  ASSUME NEW d, DictOK(d), SetDict(d)
  PROVE  Now' = d
BY DEF DictOK, SetDict, Now

LEMMA NowSame == UNCHANGED tables => Now' = Now
BY DEF tables, Now

(* The table changes under the iterators.                                    *)
LEMMA TableStep ==
  ASSUME IInv, NEW e, DictOK(e), SetDict(e), UNCHANGED walks,
         Held(Now) \subseteq Held(e), iterators # 0 => Undisturbed(Now, e)
  PROVE  IInv'
<1>1. Now' = e
  BY NowNext
<1>2. ASSUME NEW i \in Iterators PROVE Walk(e, iter[i], due[i], seen[i])
  <2>1. Walk(Now, iter[i], due[i], seen[i]) /\ DictOK(Now)
    BY DEF IInv
  <2>2. due[i] \cup seen[i] \subseteq Held(e)
    BY <2>1 DEF Walk
  <2>3. ASSUME iter[i].phase = "at"
        PROVE  Undisturbed(Now, e) /\ iter[i].key \in Held(e)
    <3>1. iterators # 0
      BY <2>3, Counted
    <3>2. iter[i].key \in Held(Now)
      BY <2>1, <2>3, DictIs DEF Walk, Standing, TableOf, Held
    <3> QED BY <3>1, <3>2
  <2> QED BY <2>1, <2>2, <2>3, WalkStays
<1>3. DictOK(Now') /\ \A i \in Iterators : Walk(Now', iter[i], due[i], seen[i])
  BY <1>1, <1>2
<1>4. UNCHANGED <<iterators, iter, due, seen>>
  BY DEF walks
<1> QED BY <1>3, <1>4 DEF IInv, Started

LEMMA InitOK == Init => IInv
<1> SUFFICES ASSUME Init PROVE IInv
  OBVIOUS
<1> USE DEF Init
<1>1. Sound(NoTable) /\ KeysIn(NoTable) = {} /\ NoTable.size = 0
  BY NewTableIs DEF NoTable
<1>2. Now = [old |-> NoTable, new |-> NoTable, idx |-> -1]
  BY DEF Now
<1>3. Agree(Now)
  BY <1>1, <1>2 DEF Agree, Sound, KeysIn
<1>4. DictOK(Now)
  BY <1>1, <1>2, <1>3 DEF DictOK, Rehashing
<1>5. Started = {}
  BY DEF Started
<1>6. \A i \in Iterators : Walk(Now, iter[i], due[i], seen[i])
  BY DEF Walk
<1> QED BY <1>4, <1>5, <1>6, FS_EmptySet DEF IInv

LEMMA AddOK == ASSUME IInv, NEW k \in Keys, NEW v \in Values, Add(k, v) PROVE IInv'
<1> DEFINE e == Added(Prepared(Now), k, v)
<1>1. DictOK(e) /\ (iterators # 0 => Undisturbed(Now, e)) /\ Held(Now) \subseteq Held(e)
  BY AddedKeeps DEF IInv
<1>2. SetDict(e) /\ UNCHANGED walks
  BY DEF Add
<1> HIDE DEF e
<1> QED BY <1>1, <1>2, TableStep

LEMMA FindOK == ASSUME IInv, NEW k \in Keys, Find(k) PROVE IInv'
<1> DEFINE e == Found(Now)
<1>1. DictOK(e) /\ SameMap(Now, e) /\ (iterators # 0 => e = Now)
  BY FoundKeeps DEF IInv
<1>2. SetDict(e) /\ UNCHANGED walks
  BY DEF Find
<1> HIDE DEF e
<1>3. Held(Now) \subseteq Held(e) /\ (iterators # 0 => Undisturbed(Now, e))
  BY <1>1, SameIsUndisturbed DEF SameMap
<1> QED BY <1>1, <1>2, <1>3, TableStep

LEMMA ReplaceOK == ASSUME IInv, NEW k \in Keys, NEW v \in Values, Replace(k, v) PROVE IInv'
<1> DEFINE c == Found(Now)
           e == IF Present(c, k) THEN Update(c, k, v) ELSE Added(Prepared(c), k, v)
<1>1. DictOK(e) /\ (iterators # 0 => Undisturbed(Now, e)) /\ Held(Now) \subseteq Held(e)
  BY ReplacedKeeps DEF IInv
<1>2. SetDict(e) /\ UNCHANGED walks
  BY DEF Replace
<1> HIDE DEF e
<1> QED BY <1>1, <1>2, TableStep

(* The key an iterator is at is not deleted; a deleted key is not due.       *)
LEMMA DelOK == ASSUME IInv, NEW k \in Keys, Del(k) PROVE IInv'
<1> DEFINE c == Found(Now)
           e == IF Present(c, k) THEN Delete(c, k) ELSE c
<1>1. DictOK(e) /\ (iterators # 0 => Undisturbed(Now, e)) /\ WithoutKey(Now, e, k)
  BY DeletedKeeps DEF IInv
<1>2. SetDict(e) /\ UNCHANGED <<iterators, iter>>
      /\ due' = [i \in Iterators |-> due[i] \ {k}]
      /\ seen' = [i \in Iterators |-> seen[i] \ {k}]
      /\ \A i \in Iterators : iter[i].phase = "at" => iter[i].key # k
  BY DEF Del
<1> HIDE DEF e
<1>3. Now' = e /\ Held(e) = Held(Now) \ {k}
  BY <1>1, <1>2, NowNext DEF WithoutKey
<1>4. ASSUME NEW i \in Iterators PROVE Walk(e, iter[i], due[i] \ {k}, seen[i] \ {k})
  <2>1. Walk(Now, iter[i], due[i], seen[i]) /\ DictOK(Now)
    BY DEF IInv
  <2>2. Walk(Now, iter[i], due[i] \ {k}, seen[i] \ {k})
    BY <2>1 DEF Walk
  <2>3. (due[i] \ {k}) \cup (seen[i] \ {k}) \subseteq Held(e)
    BY <1>3, <2>1 DEF Walk
  <2>4. ASSUME iter[i].phase = "at"
        PROVE  Undisturbed(Now, e) /\ iter[i].key \in Held(e)
    <3>1. iterators # 0
      BY <2>4, Counted
    <3>2. iter[i].key \in Held(Now)
      BY <2>1, <2>4, DictIs DEF Walk, Standing, TableOf, Held
    <3> QED BY <1>1, <1>2, <1>3, <2>4, <3>1, <3>2
  <2> QED BY <2>1, <2>2, <2>3, <2>4, WalkStays
<1>5. due' \in [Iterators -> SUBSET Keys] /\ seen' \in [Iterators -> SUBSET Keys]
  BY <1>2 DEF IInv
<1>6. \A i \in Iterators : Walk(Now', iter'[i], due'[i], seen'[i])
  BY <1>2, <1>3, <1>4
<1> QED BY <1>1, <1>2, <1>3, <1>5, <1>6 DEF IInv, Started

LEMMA ClearOK == ASSUME IInv, Clear PROVE IInv'
<1> DEFINE e == [old |-> NoTable, new |-> NoTable, idx |-> -1]
<1>1. SetDict(e) /\ UNCHANGED walks
      /\ \A i \in Iterators : iter[i].phase \in {"none", "made"}
  BY DEF Clear
<1>2. DictOK(e)
  <2>1. Sound(NoTable) /\ KeysIn(NoTable) = {} /\ NoTable.size = 0
    BY NewTableIs DEF NoTable
  <2>2. Agree(e)
    BY <2>1 DEF Agree, Sound, KeysIn
  <2> QED BY <2>1, <2>2 DEF DictOK, Rehashing
<1> HIDE DEF e
<1>3. Now' = e
  BY <1>1, <1>2, NowNext
<1>4. \A i \in Iterators : Walk(e, iter[i], due[i], seen[i])
  BY <1>1 DEF IInv, Walk
<1> QED BY <1>1, <1>2, <1>3, <1>4 DEF IInv, Started, walks

-----------------------------------------------------------------------------
(* The steps of iterators.                                                   *)
LEMMA CreateOK == ASSUME IInv, NEW i \in Iterators, Create(i) PROVE IInv'
<1>1. /\ iter[i].phase = "none"
      /\ iter' = [iter EXCEPT ![i] = [phase |-> "made"]]
      /\ UNCHANGED <<iterators, due, seen>>
      /\ Now' = Now
  BY NowSame DEF Create
<1>2. iter' = [j \in Iterators |-> IF j = i THEN [phase |-> "made"] ELSE iter[j]]
  BY <1>1 DEF IInv
<1>3. Started' = Started
  BY <1>1, <1>2 DEF Started
<1>4. \A j \in Iterators : Walk(Now, iter'[j], due[j], seen[j])
  BY <1>1, <1>2 DEF IInv, Walk
<1> QED BY <1>1, <1>2, <1>3, <1>4 DEF IInv

(* What an iterator comes to is due no more, and has been returned.          *)
Here(p) == IF p.phase = "at" THEN {p.key} ELSE {}

LEMMA WalkOn ==
  ASSUME NEW d, DictOK(d), NEW A \in SUBSET Held(d), NEW p, NextOf(d, A, p),
         \A l \in A, n \in Held(d) : Comes(d, l, n) => n \in A,
         NEW D \in SUBSET A, NEW S \in SUBSET Held(d), S \cap A = {}
  PROVE  Walk(d, p, D \ Here(p), S \cup Here(p)) /\ (p.phase = "at" => p.key \notin S)
<1>1. CASE p.phase = "ended"
  BY <1>1 DEF NextOf, Walk, Here
<1>2. CASE p.phase = "at"
  <2>1. Standing(d, p) /\ p.key \in A /\ p.key \in Keys /\ Here(p) = {p.key}
        /\ \A l \in A : l # p.key => Comes(d, p.key, l)
    BY <1>2 DEF NextOf, Here, Standing
  <2>2. ~Comes(d, p.key, p.key)
    BY <2>1, ComesIsOrder
  <2>3. \A l \in S : ~Comes(d, p.key, l)
    BY <2>1
  <2> QED BY <1>2, <2>1, <2>2, <2>3 DEF Walk
<1> QED BY <1>1, <1>2 DEF NextOf

(* One iterator goes on, and the others do not.                              *)
LEMMA IteratorStep ==
  ASSUME IInv, NEW i \in Iterators, NEW p, NEW D \in SUBSET Keys, NEW S \in SUBSET Keys,
         Walk(Now, p, D, S), UNCHANGED tables,
         iter' = [iter EXCEPT ![i] = p],
         due' = [due EXCEPT ![i] = D], seen' = [seen EXCEPT ![i] = S],
         iterators' = Cardinality(Started'), IsFiniteSet(Started')
  PROVE  IInv'
<1>1. Now' = Now
  BY NowSame
<1>2. iter' = [j \in Iterators |-> iter'[j]]
      /\ due' \in [Iterators -> SUBSET Keys] /\ seen' \in [Iterators -> SUBSET Keys]
  BY DEF IInv
<1>3. \A j \in Iterators : Walk(Now, iter'[j], due'[j], seen'[j])
  BY DEF IInv
<1> QED BY <1>1, <1>2, <1>3 DEF IInv

(* No iterator comes to a key it has returned.                               *)
NoRepeat ==
  \A i \in Iterators :
    iter'[i] # iter[i] /\ iter'[i].phase = "at" => iter'[i].key \notin seen[i]

LEMMA StartIteratorOK ==
  ASSUME IInv, NEW i \in Iterators, StartIterator(i)
  PROVE  IInv' /\ NoRepeat
<1> DEFINE p == FromBucket(0, 0)
           D == Held(Now) \ Here(p)
           S == {} \cup Here(p)
<1>1. DictOK(Now) /\ Held(Now) \in SUBSET Keys
      /\ Walk(Now, iter[i], due[i], seen[i]) /\ iter[i].phase = "made"
  BY DEF IInv, Held, StartIterator
<1>2. Held(Now) = KeysIn(old) \cup KeysIn(new) /\ Sound(old)
  BY <1>1, DictIs DEF Now, DictOK
<1>3. Beyond(0, 0) = Held(Now)
  <2>1. ASSUME NEW l \in KeysIn(old) PROVE Bucket(old, l) >= 0
    <3>1. l \in Keys /\ old.size > 0 /\ old.size \in Nat
      BY <1>2 DEF KeysIn, InTable, Sound, IsTable
    <3>2. Bucket(old, l) \in 0 .. old.size - 1
      BY <1>2, <3>1, BucketIs DEF Sound
    <3> QED BY <3>1, <3>2
  <2> QED BY <1>2, <2>1 DEF Beyond, Table
<1>4. NextOf(Now, Held(Now), p)
  BY <1>1, <1>3, FromBucketIs
<1> HIDE DEF p
<1>5. Walk(Now, p, D, S)
  <2>1. \A l \in Held(Now), n \in Held(Now) : Comes(Now, l, n) => n \in Held(Now)
    OBVIOUS
  <2>2. Held(Now) \in SUBSET Held(Now) /\ {} \in SUBSET Held(Now) /\ {} \cap Held(Now) = {}
    OBVIOUS
  <2> QED BY <1>1, <1>4, <2>1, <2>2, WalkOn
<1>6. D \in SUBSET Keys /\ S \in SUBSET Keys
  BY <1>1, <1>5 DEF Walk
<1>7. /\ iter' = [iter EXCEPT ![i] = p]
      /\ seen' = [seen EXCEPT ![i] = S]
      /\ due' = [due EXCEPT ![i] = D]
      /\ UNCHANGED tables /\ iterators' = iterators + 1
  BY <1>2 DEF StartIterator, Here, p
<1>8. /\ i \notin Started /\ Started' = Started \cup {i}
      /\ iter' = [j \in Iterators |-> IF j = i THEN p ELSE iter[j]]
  <2>1. iter' = [j \in Iterators |-> IF j = i THEN p ELSE iter[j]]
    BY <1>7 DEF IInv
  <2>2. p.phase \in {"at", "ended"}
    BY <1>4 DEF NextOf
  <2> QED BY <1>1, <2>1, <2>2 DEF Started
<1>9. IsFiniteSet(Started') /\ iterators' = Cardinality(Started')
  BY <1>7, <1>8, FS_AddElement DEF IInv
<1>10. IInv'
  <2> HIDE DEF D, S
  <2> QED BY <1>5, <1>6, <1>7, <1>9, IteratorStep
<1>11. NoRepeat
  BY <1>1, <1>8 DEF NoRepeat, Walk
<1> QED BY <1>10, <1>11

LEMMA AdvanceOK ==
  ASSUME IInv, NEW i \in Iterators, Advance(i)
  PROVE  IInv' /\ NoRepeat
<1> DEFINE q == iter[i]
           p == After(q)
           A == {l \in Held(Now) : Comes(Now, q.key, l)}
           D == due[i] \ Here(p)
           S == seen[i] \cup Here(p)
<1>1. /\ DictOK(Now) /\ q.phase = "at"
      /\ Walk(Now, q, due[i], seen[i])
  BY DEF IInv, Advance
<1>2. Standing(Now, q) /\ due[i] \in SUBSET A /\ seen[i] \in SUBSET Held(Now)
      /\ seen[i] \cap A = {} /\ q.key \in Keys /\ A \in SUBSET Held(Now)
  BY <1>1 DEF Walk, Standing
<1>3. NextOf(Now, A, p)
  BY <1>1, <1>2, AfterIs
<1>4. \A l \in A, n \in Held(Now) : Comes(Now, l, n) => n \in A
  BY <1>1, <1>2, ComesIsOrder DEF Held
<1> HIDE DEF p, A
<1>5. Walk(Now, p, D, S) /\ (p.phase = "at" => p.key \notin seen[i])
  BY <1>1, <1>2, <1>3, <1>4, WalkOn
<1>6. D \in SUBSET Keys /\ S \in SUBSET Keys
  BY <1>5 DEF Walk, Held
<1>7. /\ iter' = [iter EXCEPT ![i] = p]
      /\ seen' = [seen EXCEPT ![i] = S]
      /\ due' = [due EXCEPT ![i] = D]
      /\ UNCHANGED tables /\ iterators' = iterators
  BY DEF Advance, Here, p, IInv
<1>8. iter' = [j \in Iterators |-> IF j = i THEN p ELSE iter[j]]
  BY <1>7 DEF IInv
<1>9. Started' = Started
  BY <1>1, <1>3, <1>8 DEF NextOf, Started
<1>10. IInv'
  <2>1. IsFiniteSet(Started') /\ iterators' = Cardinality(Started')
    BY <1>7, <1>9 DEF IInv
  <2> HIDE DEF D, S
  <2> QED BY <1>5, <1>6, <1>7, <2>1, IteratorStep
<1>11. NoRepeat
  BY <1>5, <1>8 DEF NoRepeat
<1> QED BY <1>10, <1>11

LEMMA DestroyOK ==
  ASSUME IInv, NEW i \in Iterators, Destroy(i)
  PROVE  IInv' /\ NoRepeat
<1> DEFINE p == [phase |-> "none"]
<1>1. /\ iter[i].phase # "none"
      /\ iterators' = IF iter[i].phase = "made" THEN iterators ELSE iterators - 1
      /\ iter' = [iter EXCEPT ![i] = p]
      /\ due' = [due EXCEPT ![i] = {}]
      /\ seen' = [seen EXCEPT ![i] = {}]
      /\ UNCHANGED tables
  BY DEF Destroy
<1>2. Walk(Now, p, {}, {})
  BY DEF Walk
<1>3. iter' = [j \in Iterators |-> IF j = i THEN p ELSE iter[j]]
      /\ iter[i].phase \in {"none", "made", "at", "ended"}
  BY <1>1 DEF IInv, Walk
<1>4. Started' = Started \ {i} /\ (i \in Started <=> iter[i].phase # "made")
  BY <1>1, <1>3 DEF Started
<1>5. IsFiniteSet(Started') /\ iterators' = Cardinality(Started')
  <2>1. IsFiniteSet(Started) /\ iterators = Cardinality(Started)
    BY DEF IInv
  <2>2. CASE i \in Started
    BY <1>1, <1>4, <2>1, <2>2, FS_RemoveElement
  <2>3. CASE i \notin Started
    BY <1>1, <1>4, <2>1, <2>3
  <2> QED BY <2>2, <2>3
<1>6. IInv'
  <2> HIDE DEF p
  <2> QED BY <1>1, <1>2, <1>5, IteratorStep
<1>7. NoRepeat
  BY <1>3 DEF NoRepeat
<1> QED BY <1>6, <1>7

LEMMA NextOK == IInv /\ [Next]_vars => IInv' /\ NoRepeat
<1> SUFFICES ASSUME IInv, [Next]_vars PROVE IInv' /\ NoRepeat
  OBVIOUS
<1>1. ASSUME NEW k \in Keys, NEW v \in Values, Add(k, v) PROVE IInv' /\ NoRepeat
  BY <1>1, AddOK DEF Add, walks, NoRepeat
<1>2. ASSUME NEW k \in Keys, NEW v \in Values, Replace(k, v) PROVE IInv' /\ NoRepeat
  BY <1>2, ReplaceOK DEF Replace, walks, NoRepeat
<1>3. ASSUME NEW k \in Keys, Find(k) PROVE IInv' /\ NoRepeat
  BY <1>3, FindOK DEF Find, walks, NoRepeat
<1>4. ASSUME NEW k \in Keys, Del(k) PROVE IInv' /\ NoRepeat
  BY <1>4, DelOK DEF Del, NoRepeat
<1>5. ASSUME Clear PROVE IInv' /\ NoRepeat
  BY <1>5, ClearOK DEF Clear, walks, NoRepeat
<1>6. ASSUME NEW i \in Iterators, Create(i) PROVE IInv' /\ NoRepeat
  <2>1. iter' = [j \in Iterators |-> IF j = i THEN [phase |-> "made"] ELSE iter[j]]
    BY <1>6 DEF Create, IInv
  <2>2. NoRepeat
    BY <2>1 DEF NoRepeat
  <2> QED BY <1>6, <2>2, CreateOK
<1>7. ASSUME UNCHANGED vars PROVE IInv' /\ NoRepeat
  <2>1. UNCHANGED <<iterators, iter, due, seen>> /\ Now' = Now
    BY <1>7, NowSame DEF vars, walks
  <2> QED BY <2>1 DEF IInv, Started, NoRepeat
<1> QED BY <1>1, <1>2, <1>3, <1>4, <1>5, <1>6, <1>7, StartIteratorOK, AdvanceOK, DestroyOK
      DEF Next

(* The tables, the iterators and their number always agree.                  *)
THEOREM Invariance == Spec => []IInv
<1>1. Init => IInv
  BY InitOK
<1>2. IInv /\ [Next]_vars => IInv'
  BY NextOK
<1> QED BY <1>1, <1>2, PTL DEF Spec

(* Whatever the keys and their hashes: every entry is in the bucket of its   *)
(* key and counted, no key is in both tables, and the buckets a rehash has   *)
(* been through are empty, so that dict_rehash always finds one to move.     *)
THEOREM TablesAlwaysAgree == Spec => []TablesAgree
<1>1. IInv => TablesAgree
  BY DEF IInv, DictOK, TablesAgree
<1> QED BY <1>1, Invariance, PTL

(* An iterator that ends has come by every key that stayed, whatever was     *)
(* added, deleted or expanded by the same thread meanwhile.                  *)
THEOREM WalksAreComplete == Spec => []WalkComplete
<1>1. IInv => WalkComplete
  BY DEF IInv, Walk, WalkComplete
<1> QED BY <1>1, Invariance, PTL

(* And it came by none of them twice.                                        *)
THEOREM NeverTwiceHolds == Spec => NeverTwice
<1>1. IInv /\ [Next]_vars =>
        [\A i \in Iterators :
           iter'[i] # iter[i] /\ iter'[i].phase = "at" => iter'[i].key \notin seen[i]]_vars
  BY NextOK DEF NoRepeat
<1> QED BY <1>1, Invariance, PTL DEF Spec, NeverTwice

-----------------------------------------------------------------------------
(* The two tables implement the map of KeyMap.                               *)
MapOf(d) == [k \in {k \in Keys : Present(d, k)} |-> ValueOf(d, k)]

Put(m, k, v) == [l \in DOMAIN m \cup {k} |-> IF l = k THEN v ELSE m[l]]

Cut(m, k) == [l \in DOMAIN m \ {k} |-> m[l]]

LEMMA MapIs == \A d : DOMAIN MapOf(d) = Held(d) /\ \A k \in Held(d) : MapOf(d)[k] = ValueOf(d, k)
BY DEF MapOf, Held

LEMMA MapSame ==
  ASSUME NEW d, NEW e, SameMap(d, e)
  PROVE  MapOf(e) = MapOf(d)
BY DEF MapOf, SameMap, Held

LEMMA MapWith ==
  ASSUME NEW d, NEW e, NEW k, NEW v, WithEntry(d, e, k, v)
  PROVE  MapOf(e) = Put(MapOf(d), k, v)
<1>1. DOMAIN MapOf(e) = DOMAIN MapOf(d) \cup {k}
  BY MapIs DEF WithEntry
<1>2. \A l \in Held(e) : MapOf(e)[l] = IF l = k THEN v ELSE MapOf(d)[l]
  BY MapIs DEF WithEntry
<1>3. MapOf(e) = [l \in DOMAIN MapOf(e) |-> MapOf(e)[l]]
  BY DEF MapOf
<1> QED BY <1>1, <1>2, <1>3, MapIs DEF Put

LEMMA MapWithout ==
  ASSUME NEW d, NEW e, NEW k, WithoutKey(d, e, k)
  PROVE  MapOf(e) = Cut(MapOf(d), k)
<1>1. DOMAIN MapOf(e) = DOMAIN MapOf(d) \ {k}
  BY MapIs DEF WithoutKey
<1>2. \A l \in Held(e) : MapOf(e)[l] = MapOf(d)[l]
  BY MapIs DEF WithoutKey
<1>3. MapOf(e) = [l \in DOMAIN MapOf(e) |-> MapOf(e)[l]]
  BY DEF MapOf
<1> QED BY <1>1, <1>2, <1>3, MapIs DEF Cut

LEMMA AddIsAdd ==
  ASSUME IInv, NEW k \in Keys, NEW v \in Values, Add(k, v)
  PROVE  Map!Add(k, v)
<1> DEFINE e == Added(Prepared(Now), k, v)
<1>1. DictOK(e) /\ (Present(Prepared(Now), k) <=> k \in Held(Now))
      /\ IF k \in Held(Now) THEN SameMap(Now, e) ELSE WithEntry(Now, e, k, v)
  BY AddedKeeps DEF IInv
<1>2. SetDict(e) /\ reply' = ~Present(Prepared(Now), k)
  BY DEF Add
<1> HIDE DEF e
<1>3. Now' = e
  BY <1>1, <1>2, NowNext
<1>4. k \in DOMAIN MapOf(Now) <=> k \in Held(Now)
  BY MapIs
<1>5. CASE k \in Held(Now)
  <2>1. MapOf(Now') = MapOf(Now)
    BY <1>1, <1>3, <1>5, MapSame
  <2>2. reply' = FALSE
    BY <1>1, <1>2, <1>5
  <2> QED BY <1>4, <1>5, <2>1, <2>2 DEF Map!Add, Map!Has, MapOf
<1>6. CASE k \notin Held(Now)
  <2>1. MapOf(Now') = Put(MapOf(Now), k, v)
    BY <1>1, <1>3, <1>6, MapWith
  <2>2. reply' = TRUE
    BY <1>1, <1>2, <1>6
  <2> QED BY <1>4, <1>6, <2>1, <2>2 DEF Map!Add, Map!Has, Map!With, MapOf, Put
<1> QED BY <1>5, <1>6

LEMMA ReplaceIsReplace ==
  ASSUME IInv, NEW k \in Keys, NEW v \in Values, Replace(k, v)
  PROVE  Map!Replace(k, v)
<1> DEFINE c == Found(Now)
           e == IF Present(c, k) THEN Update(c, k, v) ELSE Added(Prepared(c), k, v)
<1>1. DictOK(e) /\ (Present(c, k) <=> k \in Held(Now)) /\ WithEntry(Now, e, k, v)
  BY ReplacedKeeps DEF IInv
<1>2. SetDict(e) /\ reply' = ~Present(c, k)
  BY DEF Replace
<1> HIDE DEF c, e
<1>3. Now' = e
  BY <1>1, <1>2, NowNext
<1>4. MapOf(Now') = Put(MapOf(Now), k, v)
  BY <1>1, <1>3, MapWith
<1>5. k \in DOMAIN MapOf(Now) <=> k \in Held(Now)
  BY MapIs
<1>6. reply' = ~(k \in DOMAIN MapOf(Now))
  BY <1>1, <1>2, <1>5
<1> QED BY <1>4, <1>6 DEF Map!Replace, Map!Has, Map!With, MapOf, Put

LEMMA FindIsFind ==
  ASSUME IInv, NEW k \in Keys, Find(k)
  PROVE  Map!Find(k)
<1> DEFINE e == Found(Now)
<1>1. DictOK(e) /\ SameMap(Now, e)
  BY FoundKeeps DEF IInv
<1>2. SetDict(e) /\ reply' = IF Present(e, k) THEN ValueOf(e, k) ELSE Missing
  BY DEF Find
<1> HIDE DEF e
<1>3. Now' = e
  BY <1>1, <1>2, NowNext
<1>4. MapOf(Now') = MapOf(Now)
  BY <1>1, <1>3, MapSame
<1>5. Present(e, k) <=> k \in Held(Now)
  BY <1>1 DEF SameMap, Held
<1>6. reply' = IF k \in DOMAIN MapOf(Now) THEN MapOf(Now)[k] ELSE Missing
  BY <1>1, <1>2, <1>5, MapIs DEF SameMap
<1> QED BY <1>4, <1>6 DEF Map!Find, Map!Has, MapOf

LEMMA DelIsDel ==
  ASSUME IInv, NEW k \in Keys, Del(k)
  PROVE  Map!Del(k)
<1> DEFINE c == Found(Now)
           e == IF Present(c, k) THEN Delete(c, k) ELSE c
<1>1. DictOK(e) /\ (Present(c, k) <=> k \in Held(Now)) /\ WithoutKey(Now, e, k)
  BY DeletedKeeps DEF IInv
<1>2. SetDict(e) /\ reply' = Present(c, k)
  BY DEF Del
<1> HIDE DEF e, c
<1>3. Now' = e
  BY <1>1, <1>2, NowNext
<1>4. MapOf(Now') = Cut(MapOf(Now), k)
  BY <1>1, <1>3, MapWithout
<1>5. k \in DOMAIN MapOf(Now) <=> k \in Held(Now)
  BY MapIs
<1>6. reply' = (k \in DOMAIN MapOf(Now))
  <2>1. Present(c, k) = (k \in DOMAIN MapOf(Now))
    BY <1>1, <1>5 DEF Present
  <2> QED BY <1>2, <2>1
<1> QED BY <1>4, <1>6 DEF Map!Del, Map!Has, MapOf, Cut

LEMMA NothingHeld ==
  ASSUME Now = [old |-> NoTable, new |-> NoTable, idx |-> -1]
  PROVE  MapOf(Now) = [k \in {} |-> Missing]
<1>1. KeysIn(NoTable) = {}
  BY NewTableIs DEF NoTable
<1>2. Held(Now) = {}
  BY <1>1 DEF Held, Present, KeysIn
<1>3. MapOf(Now) = [k \in DOMAIN MapOf(Now) |-> MapOf(Now)[k]]
  BY DEF MapOf
<1> QED BY <1>2, <1>3, MapIs

LEMMA ClearIsClear ==
  ASSUME Clear
  PROVE  Map!Clear
<1>1. Now' = [old |-> NoTable, new |-> NoTable, idx |-> -1] /\ UNCHANGED reply
  BY DEF Clear, SetDict, Now
<1>2. MapOf(Now') = [k \in {} |-> Missing]
  <2>1. KeysIn(NoTable) = {}
    BY NewTableIs DEF NoTable
  <2>2. Held(Now') = {}
    BY <1>1, <2>1 DEF Held, Present, KeysIn
  <2>3. MapOf(Now') = [k \in DOMAIN MapOf(Now') |-> MapOf(Now')[k]]
    BY DEF MapOf
  <2> QED BY <2>2, <2>3, MapIs
<1> QED BY <1>1, <1>2 DEF Map!Clear, MapOf

(* Every step of the tables is a step of the map, or none: a step of a       *)
(* rehash is hidden in the operation that takes it.                          *)
THEOREM ImplementsMapHolds == Spec => ImplementsMap
<1> DEFINE shown == <<MapOf(Now), reply>>
<1>1. Init => Map!Init
  <2> SUFFICES ASSUME Init PROVE Map!Init
    OBVIOUS
  <2>1. Now = [old |-> NoTable, new |-> NoTable, idx |-> -1] /\ reply = TRUE
    BY DEF Init, Now
  <2>2. MapOf(Now) = [k \in {} |-> Missing]
    BY <2>1, NothingHeld
  <2> QED BY <2>1, <2>2 DEF Map!Init, MapOf
<1>2. IInv /\ [Next]_vars => [Map!Next]_shown
  <2> SUFFICES ASSUME IInv, [Next]_vars PROVE Map!Next \/ UNCHANGED shown
    OBVIOUS
  <2>1. ASSUME UNCHANGED <<tables, reply>> PROVE UNCHANGED shown
    <3>1. Now' = Now /\ reply' = reply
      BY <2>1, NowSame
    <3> QED BY <3>1
  <2>2. ASSUME NEW k \in Keys, NEW v \in Values, Add(k, v) PROVE Map!Next
    BY <2>2, AddIsAdd DEF Map!Next
  <2>3. ASSUME NEW k \in Keys, NEW v \in Values, Replace(k, v) PROVE Map!Next
    BY <2>3, ReplaceIsReplace DEF Map!Next
  <2>4. ASSUME NEW k \in Keys, Find(k) PROVE Map!Next
    BY <2>4, FindIsFind DEF Map!Next
  <2>5. ASSUME NEW k \in Keys, Del(k) PROVE Map!Next
    BY <2>5, DelIsDel DEF Map!Next
  <2>6. ASSUME Clear PROVE Map!Next
    BY <2>6, ClearIsClear DEF Map!Next
  <2>7. ASSUME NEW i \in Iterators,
               Create(i) \/ StartIterator(i) \/ Advance(i) \/ Destroy(i)
        PROVE  UNCHANGED shown
    BY <2>1, <2>7 DEF Create, StartIterator, Advance, Destroy
  <2>8. ASSUME UNCHANGED vars PROVE UNCHANGED shown
    BY <2>1, <2>8 DEF vars
  <2> QED BY <2>2, <2>3, <2>4, <2>5, <2>6, <2>7, <2>8 DEF Next
<1>3. [Map!Next]_shown =>
        [Map!Next]_<<[k \in {k \in Keys : Present(Now, k)} |-> ValueOf(Now, k)], reply>>
  BY DEF MapOf
<1>4. Spec => [][Map!Next]_<<[k \in {k \in Keys : Present(Now, k)} |-> ValueOf(Now, k)], reply>>
  BY <1>2, <1>3, Invariance, PTL DEF Spec
<1> QED BY <1>1, <1>4, PTL DEF Spec, ImplementsMap, Map!Spec
=============================================================================
