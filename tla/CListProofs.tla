---------------------------- MODULE CListProofs -----------------------------
(***************************************************************************)
(* Ring, and the deque that the list implements, for any number of items   *)
(* and whatever the callbacks of the walks keep.  That the items form one  *)
(* ring is what makes a removal safe: an item that is its own neighbour is *)
(* then the only one, so that the end of a walk and an empty list are the  *)
(* same, and the head, which a walk may leave dangling, is an item again   *)
(* whenever there is no walk.  That the list is read from one first item   *)
(* on, also with the head dangling, is what the refinement needs of a walk. *)
(***************************************************************************)
EXTENDS CList, FiniteSetTheorems, SequenceTheorems, TLAPS

TypeOK ==
  /\ live \in SUBSET Items /\ IsFiniteSet(live)
  /\ next \in [Items -> Items \cup {Null}]
  /\ prev \in [Items -> Items \cup {Null}]
  /\ data \in [Items -> Data \cup {Null}]
  /\ head \in Items \cup {Null}
  /\ count \in Nat
  /\ at \in Items \cup {Null}
  /\ kept \subseteq Data

(* Between walks the head is an item, or the list is empty. *)
HeadInv == NoWalk => IF count = 0 THEN head = Null ELSE head \in live

WalkInv == ~NoWalk => at \in live

ListInv == TypeOK /\ Ring /\ HeadInv /\ WalkInv

-----------------------------------------------------------------------------
(* The only item is its own neighbour, and nobody else is. *)
LEMMA Alone ==
  ASSUME TypeOK, Ring, NEW x \in live
  PROVE  /\ count > 0
         /\ count = 1 => live = {x}
         /\ next[x] = x \/ prev[x] = x => count = 1
         /\ count > 1 => next[x] # x /\ prev[x] # x
<1>1. Cardinality(live \ {x}) = count - 1 /\ IsFiniteSet(live \ {x}) /\ count > 0
  BY FS_RemoveElement, FS_CardinalityType, FS_EmptySet DEF TypeOK, Ring
<1>2. count = 1 => live \ {x} = {}
  BY <1>1, FS_EmptySet
<1>3. ASSUME next[x] = x \/ prev[x] = x PROVE count = 1
  <2>1. next[x] = x
    BY <1>3 DEF Ring
  <2>2. {x} \in SUBSET live /\ {x} # {} /\ \A y \in {x} : next[y] \in {x}
    BY <2>1
  <2>3. {x} = live
    BY <2>2 DEF Ring, OneRing
  <2> QED
    BY <2>3, FS_Singleton DEF Ring
<1> QED
  BY <1>1, <1>2, <1>3

(* PUSH keeps the ring. *)
LEMMA PushKeeps ==
  ASSUME TypeOK, Ring, HeadInv, NoWalk, NEW x \in Items, NEW d \in Data, Push(x, d)
  PROVE  /\ Ring' /\ x \in live' /\ count' # 0 /\ count' \in Nat
         /\ live' \in SUBSET Items /\ IsFiniteSet(live') /\ live \subseteq live'
         /\ next' \in [Items -> Items \cup {Null}]
         /\ prev' \in [Items -> Items \cup {Null}]
         /\ data' \in [Items -> Data \cup {Null}]
<1>1. /\ live' = live \cup {x} /\ x \notin live /\ count' = count + 1
      /\ data' = [data EXCEPT ![x] = d]
  BY DEF Push
<1>2. IsFiniteSet(live') /\ Cardinality(live') = count'
  BY <1>1, FS_AddElement DEF TypeOK, Ring
<1>3. CASE head = Null
  <2>1. count = 0
    BY <1>3, NullAssumption DEF HeadInv, TypeOK
  <2>2. live = {}
    BY <2>1, FS_EmptySet DEF TypeOK, Ring
  <2>3. next' = [next EXCEPT ![x] = x] /\ prev' = [prev EXCEPT ![x] = x]
    BY <1>3 DEF Push
  <2> QED
    BY <1>1, <1>2, <2>1, <2>2, <2>3 DEF TypeOK, Ring, OneRing
<1>4. CASE head # Null
  <2> DEFINE last == prev[head]
  <2>1. head \in live /\ last \in live /\ next[last] = head
    BY <1>4 DEF HeadInv, TypeOK, Ring
  <2>2. /\ next' = [next EXCEPT ![x] = head, ![last] = x]
        /\ prev' = [prev EXCEPT ![x] = last, ![head] = x]
    BY <1>4 DEF Push
  <2>3. /\ next' \in [Items -> Items \cup {Null}] /\ prev' \in [Items -> Items \cup {Null}]
        /\ next'[x] = head /\ next'[last] = x
        /\ prev'[x] = last /\ prev'[head] = x
        /\ \A y \in live \ {last} : next'[y] = next[y]
        /\ \A y \in live \ {head} : prev'[y] = prev[y]
    BY <1>1, <2>1, <2>2 DEF TypeOK
  <2>4. \A y \in live' : next'[y] \in live' /\ prev'[y] \in live'
    BY <1>1, <2>1, <2>3 DEF Ring
  <2>5. \A y \in live' : next'[prev'[y]] = y /\ prev'[next'[y]] = y
    BY <1>1, <2>1, <2>3 DEF Ring
  <2>6. OneRing'
    <3> SUFFICES ASSUME NEW part \in SUBSET live', part # {}, \A y \in part : next'[y] \in part
                 PROVE  part = live'
      BY DEF OneRing
    <3> DEFINE rest == part \ {x}
    <3>1. rest # {}
      BY <1>1, <2>1, <2>3
    <3>2. \A y \in rest : next[y] \in rest
      BY <1>1, <2>1, <2>3 DEF Ring
    <3>3. rest = live
      BY <1>1, <3>1, <3>2 DEF Ring, OneRing
    <3> QED
      BY <1>1, <2>1, <2>3, <3>3
  <2>7. Ring'
    BY <1>2, <2>4, <2>5, <2>6 DEF Ring
  <2>8. live' \in SUBSET Items /\ data' \in [Items -> Data \cup {Null}] /\ count' \in Nat /\ count' # 0
    BY <1>1 DEF TypeOK
  <2> QED
    BY <1>1, <1>2, <2>3, <2>7, <2>8
<1> QED
  BY <1>3, <1>4

(* POP keeps the ring, whichever item it takes. *)
LEMMA PopKeeps ==
  ASSUME TypeOK, Ring, NEW x \in live, NEW h, Pop(x, h)
  PROVE  /\ Ring' /\ count' = count - 1 /\ count' \in Nat
         /\ live' = live \ {x} /\ IsFiniteSet(live')
         /\ next' \in [Items -> Items \cup {Null}]
         /\ prev' \in [Items -> Items \cup {Null}]
         /\ data' \in [Items -> Data \cup {Null}]
         /\ count' = 0 <=> count = 1
         /\ head' = IF count = 1 THEN Null ELSE h
<1>1. live' = live \ {x} /\ data' = [data EXCEPT ![x] = Null] /\ count' = count - 1
  BY DEF Pop, Free
<1>2. /\ count > 0 /\ count' \in Nat /\ IsFiniteSet(live') /\ Cardinality(live') = count'
      /\ head' = IF count = 1 THEN Null ELSE h
  <2>1. count > 0 /\ count \in Nat
    BY Alone DEF TypeOK
  <2>2. IsFiniteSet(live) /\ Cardinality(live) = count
    BY FS_CardinalityType DEF TypeOK, Ring
  <2>3. IsFiniteSet(live') /\ Cardinality(live') = count'
    BY <1>1, <2>2, FS_RemoveElement
  <2>4. head' = IF count = 1 THEN Null ELSE h
    BY <2>1 DEF Pop
  <2> QED BY <1>1, <2>1, <2>3, <2>4
<1>3. data' \in [Items -> Data \cup {Null}]
  BY <1>1 DEF TypeOK
<1>4. CASE count = 1
  <2>1. UNCHANGED <<next, prev>> /\ live' = {}
    BY <1>1, <1>4, Alone DEF Pop
  <2> QED
    BY <1>1, <1>2, <1>3, <1>4, <2>1 DEF TypeOK, Ring, OneRing
<1>5. CASE count > 1
  <2> DEFINE before == prev[x]
             after == next[x]
  <2>1. /\ before \in live /\ after \in live /\ before # x /\ after # x
        /\ next[before] = x /\ prev[after] = x
    BY <1>5, Alone DEF Ring
  <2>2. /\ next' = [next EXCEPT ![before] = after]
        /\ prev' = [prev EXCEPT ![after] = before]
    BY <1>5 DEF Pop, Unlink
  <2>3. /\ next' \in [Items -> Items \cup {Null}] /\ prev' \in [Items -> Items \cup {Null}]
        /\ next'[before] = after /\ prev'[after] = before
        /\ \A y \in live \ {before} : next'[y] = next[y]
        /\ \A y \in live \ {after} : prev'[y] = prev[y]
    BY <2>1, <2>2 DEF TypeOK
  <2>4. \A y \in live' : next'[y] \in live' /\ prev'[y] \in live'
    BY <1>1, <2>1, <2>3 DEF Ring
  <2>5. \A y \in live' : next'[prev'[y]] = y /\ prev'[next'[y]] = y
    BY <1>1, <2>1, <2>3 DEF Ring
  <2>6. OneRing'
    <3> SUFFICES ASSUME NEW part \in SUBSET live', part # {}, \A y \in part : next'[y] \in part
                 PROVE  part = live'
      BY DEF OneRing
    <3>1. CASE before \in part
      <4>1. \A y \in part \cup {x} : next[y] \in part \cup {x}
        BY <1>1, <2>1, <2>3, <3>1
      <4>2. part \cup {x} \in SUBSET live /\ part \cup {x} # {}
        BY <1>1
      <4>3. part \cup {x} = live
        BY <4>1, <4>2 DEF Ring, OneRing
      <4> QED
        BY <1>1, <4>3
    <3>2. CASE before \notin part
      <4>1. \A y \in part : next[y] \in part
        BY <1>1, <2>3, <3>2
      <4>2. part = live
        BY <1>1, <4>1 DEF Ring, OneRing
      <4> QED
        BY <1>1, <4>2
    <3> QED
      BY <3>1, <3>2
  <2> QED
    BY <1>1, <1>2, <1>3, <1>5, <2>3, <2>4, <2>5, <2>6 DEF TypeOK, Ring
<1> QED
  BY <1>2, <1>4, <1>5 DEF TypeOK

LEMMA InitListInv == Init => ListInv
<1> SUFFICES ASSUME Init PROVE ListInv
  OBVIOUS
<1>1. TypeOK /\ HeadInv /\ WalkInv
  BY FS_EmptySet DEF Init, TypeOK, HeadInv, WalkInv, NoWalk
<1>2. Ring
  BY FS_EmptySet DEF Init, Ring, OneRing
<1> QED
  BY <1>1, <1>2 DEF ListInv

LEMMA StepListInv == ListInv /\ [Next]_vars => ListInv'
<1> SUFFICES ASSUME ListInv, [Next]_vars PROVE ListInv'
  OBVIOUS
<1> USE NullAssumption DEF ListInv
<1>1. ASSUME NEW d \in Data, LPush(d) \/ RPush(d) PROVE ListInv'
  <2>1. PICK x \in Items : Push(x, d) /\ head' \in {x, head} /\ (head = Null => head' = x)
    BY <1>1 DEF LPush, RPush
  <2>2. NoWalk /\ UNCHANGED walk
    BY <1>1 DEF LPush, RPush
  <2>3. head = Null \/ head \in live
    BY <2>2 DEF HeadInv
  <2> QED
    BY <2>1, <2>2, <2>3, PushKeeps DEF TypeOK, HeadInv, WalkInv, NoWalk, walk
<1>2. CASE LPop \/ RPop
  <2>1. NoWalk /\ UNCHANGED walk
    BY <1>2 DEF LPop, RPop
  <2>2. CASE count = 0
    BY <1>2, <2>1, <2>2 DEF LPop, RPop, PopNothing, links, walk, TypeOK, Ring, OneRing, HeadInv,
                            WalkInv, NoWalk
  <2>3. CASE count # 0
    <3>1. head \in live
      BY <2>1, <2>3 DEF HeadInv
    <3>2. PICK x \in live, h \in live :
            Pop(x, h) /\ (count # 1 => h # x)
      <4>1. CASE LPop
        BY <2>3, <3>1, <4>1, Alone DEF LPop, LPopHead, Ring, TypeOK
      <4>2. CASE RPop
        BY <2>3, <3>1, <4>2, Alone DEF RPop, Ring, TypeOK
      <4> QED
        BY <1>2, <4>1, <4>2
    <3> QED
      BY <2>1, <3>2, PopKeeps, Alone DEF TypeOK, HeadInv, WalkInv, NoWalk, walk
  <2> QED
    BY <2>2, <2>3
<1>3. CASE StartWalk
  BY <1>3, KeptAssumption
     DEF StartWalk, links, TypeOK, Ring, OneRing, HeadInv, WalkInv, NoWalk
<1>4. CASE WalkKeep
  BY <1>4 DEF WalkKeep, links, TypeOK, Ring, OneRing, HeadInv, WalkInv, NoWalk
<1>5. CASE WalkRemove
  <2>1. at \in live /\ Pop(at, head) /\ at' = WalkNext /\ UNCHANGED kept
    BY <1>5 DEF WalkRemove
  <2>2. /\ Ring' /\ live' = live \ {at} /\ count' = count - 1
        /\ count' = 0 <=> count = 1
        /\ head' = IF count = 1 THEN Null ELSE head
    BY <2>1, PopKeeps
  <2>3. at' = IF count = 1 THEN Null ELSE next[at]
    BY <2>1, Alone DEF WalkNext, Ring, TypeOK
  <2>4. count # 1 => next[at] \in live'
    BY <2>1, <2>2, Alone DEF Ring, TypeOK
  <2> QED
    BY <2>1, <2>2, <2>3, <2>4, PopKeeps, ZenonT(60) DEF TypeOK, HeadInv, WalkInv, NoWalk
<1>6. CASE UNCHANGED vars
  BY <1>6 DEF vars, links, walk, TypeOK, Ring, OneRing, HeadInv, WalkInv, NoWalk
<1> QED
  BY <1>1, <1>2, <1>3, <1>4, <1>5, <1>6 DEF Next, Walking

(* The list stays one ring, linked the same way in both directions, of      *)
(* exactly the items allocated, and count counts them: for any number of    *)
(* items, through pushes and pops at both ends and walks that remove.       *)
THEOREM RingAlways == Spec => []Ring
<1>1. ListInv => Ring
  BY DEF ListInv
<1> QED
  BY <1>1, InitListInv, StepListInv, PTL DEF Spec
-----------------------------------------------------------------------------
(* Sets of numbers have a least member: the intervals from 0 to their        *)
(* members are well founded by inclusion.                                    *)
LEMMA HasLeast ==
  ASSUME NEW S \in SUBSET Nat, S # {}
  PROVE  \E x \in S : \A y \in S : x <= y
<1> DEFINE T == {0 .. y : y \in S}
<1>1. T \subseteq FiniteSubsetsOf(Nat) /\ T # {}
  <2>1. ASSUME NEW y \in S PROVE 0 .. y \in FiniteSubsetsOf(Nat)
    <3>1. 0 .. y \subseteq Nat /\ 0 \in Int /\ y \in Int
      OBVIOUS
    <3>2. IsFiniteSet(0 .. y)
      BY <3>1, FS_Interval
    <3> QED BY <3>1, <3>2 DEF FiniteSubsetsOf
  <2> QED BY <2>1
<1>2. PICK u \in T : \A v \in T : <<v, u>> \notin StrictSubsetOrdering(Nat)
  <2> HIDE DEF T
  <2> QED BY <1>1, FS_StrictSubsetOrderingWellFounded, WFMin
<1>3. PICK x \in S : u = 0 .. x
  OBVIOUS
<1>4. ASSUME NEW y \in S PROVE x <= y
  <2>1. SUFFICES ASSUME y < x PROVE FALSE
    OBVIOUS
  <2>2. 0 .. y \subseteq 0 .. x /\ 0 .. y # 0 .. x
    BY <2>1, x \in 0 .. x, x \notin 0 .. y
  <2>3. 0 .. y \in SUBSET Nat /\ 0 .. x \in SUBSET Nat
    OBVIOUS
  <2>4. <<0 .. y, 0 .. x>> \in StrictSubsetOrdering(Nat)
    BY <2>2, <2>3 DEF StrictSubsetOrdering
  <2>5. 0 .. y \in T
    OBVIOUS
  <2> QED BY <2>4, <2>5, <1>2, <1>3
<1> QED BY <1>4

(* Induction, over a set in place of a predicate. *)
LEMMA Induction ==
  ASSUME NEW m \in Nat, NEW S, 0 \in S,
         \A n \in 0 .. m : n + 1 <= m /\ n \in S => n + 1 \in S
  PROVE  \A n \in 0 .. m : n \in S
<1> SUFFICES ASSUME NEW b \in 0 .. m, b \notin S PROVE FALSE
  OBVIOUS
<1> DEFINE T == {n \in 0 .. m : n \notin S}
<1>1. T \in SUBSET Nat /\ T # {}
  OBVIOUS
<1>2. PICK x \in T : \A y \in T : x <= y
  <2> HIDE DEF T
  <2> QED BY <1>1, HasLeast
<1>3. x # 0 /\ x - 1 \in 0 .. m
  OBVIOUS
<1>4. x - 1 \in S
  BY <1>2, <1>3
<1> QED BY <1>3, <1>4, (x - 1) + 1 = x

(* The items from a first one on, as they are linked.                        *)
IsOrder(s, n, first, link) ==
  s = [i \in 1 .. n |-> IF i = 1 THEN first ELSE link[s[i - 1]]]

LEMMA OrderUnique ==
  ASSUME NEW n \in Nat, NEW first, NEW link, NEW s, NEW t,
         IsOrder(s, n, first, link), IsOrder(t, n, first, link)
  PROVE  s = t
<1> DEFINE T == {k \in 0 .. n : \A i \in 1 .. k : s[i] = t[i]}
<1>1. 0 \in T
  OBVIOUS
<1>2. ASSUME NEW k \in 0 .. n, k + 1 <= n, k \in T PROVE k + 1 \in T
  <2>1. k + 1 \in 1 .. n /\ (k + 1 # 1 => (k + 1) - 1 \in 1 .. k)
    BY <1>2
  <2>2. s[k + 1] = t[k + 1]
    <3>1. k + 1 # 1 => s[(k + 1) - 1] = t[(k + 1) - 1]
      BY <1>2, <2>1
    <3>2. s[k + 1] = IF k + 1 = 1 THEN first ELSE link[s[(k + 1) - 1]]
      BY <2>1 DEF IsOrder
    <3>3. t[k + 1] = IF k + 1 = 1 THEN first ELSE link[t[(k + 1) - 1]]
      BY <2>1 DEF IsOrder
    <3> QED BY <3>1, <3>2, <3>3
  <2> QED BY <1>2, <2>2
<1>3. \A k \in 0 .. n : k \in T
  <2> HIDE DEF T
  <2> QED BY <1>1, <1>2, Induction
<1>4. \A i \in 1 .. n : s[i] = t[i]
  BY <1>3, n \in 0 .. n
<1> QED BY <1>4 DEF IsOrder

(* So the sequence that is in order is the Order of the list. *)
LEMMA OrderIs ==
  ASSUME NEW n \in Nat, NEW first, NEW link, NEW s, IsOrder(s, n, first, link)
  PROVE  s = CHOOSE f : f = [i \in 1 .. n |-> IF i = 1 THEN first ELSE link[f[i - 1]]]
<1> DEFINE c == CHOOSE f : IsOrder(f, n, first, link)
<1>1. IsOrder(c, n, first, link)
  OBVIOUS
<1>2. s = c
  <2> HIDE DEF c
  <2> QED BY <1>1, OrderUnique
<1> QED BY <1>2 DEF IsOrder

LEMMA OrderExists ==
  ASSUME NEW n \in Nat, NEW S, NEW first \in S, NEW link, \A x \in S : link[x] \in S
  PROVE  \E s \in [1 .. n -> S] : IsOrder(s, n, first, link)
<1> DEFINE Up(k) == \E s \in [1 .. k -> S] : IsOrder(s, k, first, link)
           T == {k \in 0 .. n : Up(k)}
<1>1. Up(0)
  <2> DEFINE s == [i \in 1 .. 0 |-> first]
  <2>1. s \in [1 .. 0 -> S]
    OBVIOUS
  <2>2. s = [i \in 1 .. 0 |-> IF i = 1 THEN first ELSE link[s[i - 1]]]
    OBVIOUS
  <2> HIDE DEF s
  <2> QED BY <2>1, <2>2 DEF IsOrder
<1>2. ASSUME NEW k \in 0 .. n, k + 1 <= n, Up(k) PROVE Up(k + 1)
  <2>1. PICK s \in [1 .. k -> S] : IsOrder(s, k, first, link)
    BY <1>2
  <2> DEFINE new == IF k = 0 THEN first ELSE link[s[k]]
             t == [i \in 1 .. k + 1 |-> IF i = k + 1 THEN new ELSE s[i]]
  <2>2. new \in S
    <3>1. k # 0 => s[k] \in S
      BY <1>2, k # 0 => k \in 1 .. k
    <3> QED BY <3>1
  <2>3. t \in [1 .. k + 1 -> S]
    <3> HIDE DEF new
    <3> QED BY <2>2
  <2>4. ASSUME NEW i \in 1 .. k + 1 PROVE t[i] = IF i = 1 THEN first ELSE link[t[i - 1]]
    <3>1. CASE i = k + 1
      <4>1. i # 1 => k # 0 /\ i - 1 = k /\ t[i - 1] = s[k]
        BY <3>1
      <4> QED BY <3>1, <4>1
    <3>2. CASE i # k + 1
      <4>1. i \in 1 .. k /\ t[i] = s[i] /\ (i # 1 => t[i - 1] = s[i - 1])
        BY <3>2
      <4>2. s[i] = IF i = 1 THEN first ELSE link[s[i - 1]]
        BY <2>1, <4>1 DEF IsOrder
      <4> QED BY <4>1, <4>2
    <3> QED BY <3>1, <3>2
  <2>5. t = [i \in 1 .. k + 1 |-> t[i]]
    OBVIOUS
  <2>6. IsOrder(t, k + 1, first, link)
    <3> HIDE DEF t
    <3> QED BY <2>4, <2>5 DEF IsOrder
  <2> HIDE DEF t
  <2> QED BY <2>3, <2>6
<1>3. 0 \in T
  <2> HIDE DEF Up
  <2> QED BY <1>1
<1>4. \A k \in 0 .. n : k + 1 <= n /\ k \in T => k + 1 \in T
  <2> HIDE DEF Up
  <2> QED BY <1>2
<1>5. \A k \in 0 .. n : k \in T
  <2> HIDE DEF T
  <2> QED BY <1>3, <1>4, Induction
<1> QED BY <1>5, n \in 0 .. n

(* A ring read from any of its items on comes by each of them once, and     *)
(* back to the one it began with.                                           *)
LEMMA OrderIsAll ==
  ASSUME TypeOK, Ring, NEW first \in live, NEW s \in [1 .. count -> live],
         IsOrder(s, count, first, next)
  PROVE  /\ \A i, j \in 1 .. count : s[i] = s[j] => i = j
         /\ \A x \in live : \E i \in 1 .. count : s[i] = x
         /\ s[1] = first
         /\ \A i \in 1 .. count - 1 : s[i + 1] = next[s[i]]
         /\ next[s[count]] = first
<1>1. count \in Nat \ {0} /\ Cardinality(live) = count /\ IsFiniteSet(live)
  BY Alone DEF TypeOK, Ring
<1>2. s[1] = first /\ \A i \in 1 .. count - 1 : s[i + 1] = next[s[i]]
  <2>1. s[1] = first
    BY <1>1 DEF IsOrder
  <2>2. ASSUME NEW i \in 1 .. count - 1 PROVE s[i + 1] = next[s[i]]
    <3>1. i + 1 \in 1 .. count /\ i + 1 # 1 /\ (i + 1) - 1 = i
      BY <1>1
    <3> QED BY <3>1 DEF IsOrder
  <2> QED BY <2>1, <2>2
<1>3. \A i \in 1 .. count - 1 : prev[s[i + 1]] = s[i]
  BY <1>1, <1>2 DEF Ring
<1>4. \A i, j \in 1 .. count : i < j => s[i] # s[j]
  <2> DEFINE T == {i \in 1 .. count : \E j \in 1 .. count : i < j /\ s[i] = s[j]}
  <2>1. SUFFICES ASSUME T # {} PROVE FALSE
    OBVIOUS
  <2>2. PICK i \in T : \A k \in T : i <= k
    <3>1. T \in SUBSET Nat
      BY <1>1
    <3> HIDE DEF T
    <3> QED BY <2>1, <3>1, HasLeast
  <2>3. PICK j \in 1 .. count : i < j /\ s[i] = s[j]
    OBVIOUS
  <2>4. i = 1
    <3> SUFFICES ASSUME i # 1 PROVE FALSE
      OBVIOUS
    <3>1. /\ i - 1 \in 1 .. count - 1 /\ j - 1 \in 1 .. count - 1
          /\ (i - 1) + 1 = i /\ (j - 1) + 1 = j
      BY <1>1, <2>3
    <3>2. s[i - 1] = s[j - 1]
      BY <1>3, <2>3, <3>1
    <3>3. i - 1 \in 1 .. count /\ j - 1 \in 1 .. count /\ i - 1 < j - 1
      BY <1>1, <2>3, <3>1
    <3>4. i - 1 \in T
      BY <3>2, <3>3
    <3> QED BY <1>1, <2>2, <3>1, <3>4
  <2> DEFINE part == {s[k] : k \in 1 .. j - 1}
  <2>5. part \subseteq live /\ part # {}
    BY <1>1, <2>3, <2>4, 1 \in 1 .. j - 1
  <2>6. ASSUME NEW k \in 1 .. j - 1 PROVE next[s[k]] \in part
    <3>1. next[s[k]] = s[k + 1]
      BY <1>1, <1>2
    <3>2. CASE k = j - 1
      BY <2>3, <2>4, <3>1, <3>2
    <3>3. CASE k # j - 1
      BY <3>1, <3>3, k + 1 \in 1 .. j - 1
    <3> QED BY <3>2, <3>3
  <2>7. part = live
    <3>1. \A y \in part : next[y] \in part
      BY <2>6
    <3> HIDE DEF part
    <3> QED BY <2>5, <3>1 DEF Ring, OneRing
  <2>8. Cardinality(live) <= j - 1
    <3> DEFINE f == [k \in 1 .. j - 1 |-> s[k]]
    <3>1. f \in Surjection(1 .. j - 1, live)
      <4>1. f \in [1 .. j - 1 -> live]
        BY <1>1
      <4>2. \A x \in live : \E k \in 1 .. j - 1 : f[k] = x
        BY <2>7
      <4> HIDE DEF f
      <4> QED BY <4>1, <4>2 DEF Surjection
    <3>2. j - 1 \in Nat
      BY <1>1
    <3> HIDE DEF f
    <3> QED BY <3>1, <3>2, FS_SurjCardinalityBound DEF ExistsSurjection
  <2> QED BY <1>1, <2>3, <2>8
<1>5. \A i, j \in 1 .. count : s[i] = s[j] => i = j
  BY <1>1, <1>4
<1>6. \A x \in live : \E i \in 1 .. count : s[i] = x
  <2>1. s \in Injection(1 .. count, live)
    BY <1>5 DEF Injection, IsInjective
  <2>2. Cardinality(1 .. count) = count
    BY <1>1, FS_Interval
  <2>3. s \in Surjection(1 .. count, live)
    BY <1>1, <2>1, <2>2, FS_Injection
  <2> QED BY <2>3 DEF Surjection
<1>7. next[s[count]] = first
  <2>1. count \in 1 .. count /\ s[count] \in live /\ next[s[count]] \in live
    BY <1>1 DEF Ring
  <2>2. PICK j \in 1 .. count : s[j] = next[s[count]]
    BY <1>6, <2>1
  <2>3. j = 1
    <3> SUFFICES ASSUME j # 1 PROVE FALSE
      OBVIOUS
    <3>1. j - 1 \in 1 .. count - 1 /\ (j - 1) + 1 = j
      BY <1>1
    <3>2. s[j - 1] = s[count]
      BY <1>3, <2>1, <2>2, <3>1 DEF Ring
    <3> QED BY <1>1, <1>5, <3>1, <3>2
  <2> QED BY <1>2, <2>2, <2>3
<1> QED BY <1>2, <1>5, <1>6, <1>7

-----------------------------------------------------------------------------
(* x is the first item: the one item to which every way on from h leads, the *)
(* items being L and linked by N.                                            *)
Leads(part, L, N, h) == h \in part /\ \A y \in part \ L : N[y] \in part

IsFirst(x, L, N, h) ==
  /\ x \in L
  /\ \A part \in SUBSET Items : Leads(part, L, N, h) => x \in part
  /\ \E part \in SUBSET Items : Leads(part, L, N, h) /\ part \cap L = {x}

(* A removing walk leaves the list a first item. *)
FirstInv == count > 0 => \E x : IsFirst(x, live, next, head)

LEMMA FirstUnique ==
  ASSUME NEW L, NEW N, NEW h, NEW x, IsFirst(x, L, N, h)
  PROVE  x = CHOOSE y \in L : \A part \in SUBSET Items :
                 (h \in part /\ \A z \in part \ L : N[z] \in part) => y \in part
<1> DEFINE Q(y) == \A part \in SUBSET Items : Leads(part, L, N, h) => y \in part
<1>1. \A y \in L : Q(y) <=> y = x
  BY DEF IsFirst
<1>2. x \in L
  BY DEF IsFirst
<1>3. x = CHOOSE y \in L : Q(y)
  <2> HIDE DEF Q
  <2> QED BY <1>1, <1>2
<1> QED BY <1>3 DEF Leads

(* The head, when it is an item. *)
LEMMA HeadIsFirst ==
  ASSUME NEW L \in SUBSET Items, NEW N, NEW h \in L
  PROVE  IsFirst(h, L, N, h)
<1>1. Leads({h}, L, N, h) /\ {h} \in SUBSET Items /\ {h} \cap L = {h}
  BY DEF Leads
<1> QED BY <1>1 DEF IsFirst, Leads

(* What becomes of the first item when x leaves: only the fields of what is *)
(* still an item have changed.                                              *)
LEMMA FirstAfter ==
  ASSUME NEW L \in SUBSET Items, NEW N, NEW M, NEW h, NEW f, IsFirst(f, L, N, h),
         NEW x \in L, N[x] \in L \ {x}, \A y \in Items \ L : M[y] = N[y], M[x] = N[x]
  PROVE  IsFirst(IF f = x THEN N[x] ELSE f, L \ {x}, M, h)
<1> DEFINE g == IF f = x THEN N[x] ELSE f
<1>1. g \in L \ {x}
  BY DEF IsFirst
<1>2. ASSUME NEW part \in SUBSET Items, Leads(part, L \ {x}, M, h) PROVE g \in part
  <2>1. Leads(part, L, N, h)
    BY <1>2 DEF Leads
  <2>2. f \in part
    BY <2>1 DEF IsFirst
  <2> QED BY <1>2, <2>2 DEF Leads
<1>3. PICK part \in SUBSET Items : Leads(part, L, N, h) /\ part \cap L = {f}
  BY DEF IsFirst
<1>4. /\ part \cup {g} \in SUBSET Items
      /\ Leads(part \cup {g}, L \ {x}, M, h)
      /\ (part \cup {g}) \cap (L \ {x}) = {g}
  BY <1>1, <1>3 DEF Leads
<1> QED BY <1>1, <1>2, <1>4 DEF IsFirst

-----------------------------------------------------------------------------
LEMMA WithoutIs ==
  ASSUME NEW S, NEW s \in Seq(S), NEW k \in 1 .. Len(s), NEW t,
         t = [i \in 1 .. Len(s) - 1 |-> IF i < k THEN s[i] ELSE s[i + 1]]
  PROVE  /\ t = SubSeq(s, 1, k - 1) \o SubSeq(s, k + 1, Len(s))
         /\ k = 1 => t = Tail(s)
         /\ k = Len(s) => t = SubSeq(s, 1, Len(s) - 1)
<1>1. t \in Seq(S) /\ Len(t) = Len(s) - 1
  <2>1. t \in [1 .. Len(s) - 1 -> S]
    OBVIOUS
  <2> QED BY <2>1
<1>2. Len(s) \in Nat /\ \A i \in 1 .. Len(s) : s[i] \in S
  OBVIOUS
<1>3. t = SubSeq(s, 1, k - 1) \o SubSeq(s, k + 1, Len(s))
  <2> DEFINE a == SubSeq(s, 1, k - 1)
             z == SubSeq(s, k + 1, Len(s))
  <2>1. a \in Seq(S) /\ Len(a) = k - 1 /\ \A i \in 1 .. k - 1 : a[i] = s[i]
    <3>1. \A i \in 1 .. k - 1 : s[i] \in S
      BY <1>2
    <3> HIDE DEF a
    <3> QED BY <3>1, SubSeqProperties DEF a
  <2>2. z \in Seq(S) /\ Len(z) = Len(s) - k /\ \A i \in 1 .. Len(s) - k : z[i] = s[k + i]
    <3>1. \A i \in k + 1 .. Len(s) : s[i] \in S
      BY <1>2
    <3> HIDE DEF z
    <3> QED BY <1>2, <3>1, SubSeqProperties DEF z
  <2> HIDE DEF a, z
  <2>3. a \o z \in Seq(S) /\ Len(a \o z) = Len(s) - 1
        /\ \A i \in 1 .. Len(s) - 1 : (a \o z)[i] = t[i]
    <3>1. /\ a \o z \in Seq(S) /\ Len(a \o z) = Len(a) + Len(z)
          /\ \A i \in 1 .. Len(a) + Len(z) :
               (a \o z)[i] = IF i <= Len(a) THEN a[i] ELSE z[i - Len(a)]
      BY <2>1, <2>2, ConcatProperties
    <3>2. Len(a) + Len(z) = Len(s) - 1
      BY <1>2, <2>1, <2>2
    <3>3. ASSUME NEW i \in 1 .. Len(s) - 1 PROVE (a \o z)[i] = t[i]
      <4>1. CASE i < k
        BY <1>2, <2>1, <3>1, <3>2, <4>1
      <4>2. CASE i >= k
        <5>1. (a \o z)[i] = z[i - (k - 1)] /\ i - (k - 1) \in 1 .. Len(s) - k
          BY <1>2, <2>1, <3>1, <3>2, <4>2
        <5> QED BY <1>2, <2>2, <4>2, <5>1
      <4>3. i < k \/ i >= k
        BY <1>2
      <4> QED BY <4>1, <4>2, <4>3
    <3> QED BY <3>1, <3>2, <3>3
  <2>4. t = a \o z
    BY <1>1, <2>3, SeqEqual
  <2> QED BY <2>4 DEF a, z
<1>4. ASSUME k = 1 PROVE t = Tail(s)
  <2>1. /\ Tail(s) \in Seq(S) /\ Len(Tail(s)) = Len(s) - 1
        /\ \A i \in 1 .. Len(s) - 1 : Tail(s)[i] = t[i]
    BY <1>4, HeadTailProperties
  <2> QED BY <1>1, <2>1, SeqEqual
<1>5. ASSUME k = Len(s) PROVE t = SubSeq(s, 1, Len(s) - 1)
  <2> DEFINE a == SubSeq(s, 1, Len(s) - 1)
  <2>1. a \in Seq(S) /\ Len(a) = Len(s) - 1 /\ \A i \in 1 .. Len(s) - 1 : a[i] = s[i]
    <3>1. \A i \in 1 .. Len(s) - 1 : s[i] \in S
      BY <1>2
    <3>2. Len(s) - 1 \in Int /\ 1 \in Int
      BY <1>2
    <3>3. /\ a \in Seq(S)
          /\ Len(a) = IF 1 <= Len(s) - 1 THEN (Len(s) - 1) - 1 + 1 ELSE 0
          /\ \A i \in 1 .. (Len(s) - 1) - 1 + 1 : a[i] = s[1 + i - 1]
      <4> HIDE DEF a
      <4> QED BY <3>1, <3>2, SubSeqProperties DEF a
    <3> HIDE DEF a
    <3> QED BY <1>2, <1>5, <3>3
  <2> HIDE DEF a
  <2>2. \A i \in 1 .. Len(t) : t[i] = a[i]
    BY <1>1, <1>5, <2>1
  <2>3. t = a
    BY <1>1, <2>1, <2>2, SeqEqual
  <2> QED BY <2>3 DEF a
<1> QED BY <1>3, <1>4, <1>5

LEMMA PrependIs ==
  ASSUME NEW S, NEW s \in Seq(S), NEW d \in S, NEW t,
         t = [i \in 1 .. Len(s) + 1 |-> IF i = 1 THEN d ELSE s[i - 1]]
  PROVE  t = <<d>> \o s
<1>1. t \in [1 .. Len(s) + 1 -> S]
  OBVIOUS
<1>2. t \in Seq(S) /\ Len(t) = Len(s) + 1
  BY <1>1
<1>3. <<d>> \in Seq(S) /\ Len(<<d>>) = 1 /\ <<d>>[1] = d
  OBVIOUS
<1>4. /\ <<d>> \o s \in Seq(S) /\ Len(<<d>> \o s) = Len(s) + 1
      /\ \A i \in 1 .. Len(s) + 1 : (<<d>> \o s)[i] = t[i]
  BY <1>3, ConcatProperties
<1> QED BY <1>2, <1>4, SeqEqual

LEMMA AppendIs ==
  ASSUME NEW S, NEW s \in Seq(S), NEW d \in S, NEW t,
         t = [i \in 1 .. Len(s) + 1 |-> IF i = Len(s) + 1 THEN d ELSE s[i]]
  PROVE  t = Append(s, d)
<1>1. t \in [1 .. Len(s) + 1 -> S]
  OBVIOUS
<1>2. t \in Seq(S) /\ Len(t) = Len(s) + 1
  BY <1>1
<1>3. /\ Append(s, d) \in Seq(S) /\ Len(Append(s, d)) = Len(s) + 1
      /\ \A i \in 1 .. Len(s) + 1 : Append(s, d)[i] = t[i]
  OBVIOUS
<1> QED BY <1>2, <1>3, SeqEqual

-----------------------------------------------------------------------------
DequeInv == ListInv /\ FirstInv

(* What the list holds, from the first item on. *)
Held == [i \in 1 .. count |-> data[Order[i]]]

LEMMA OrderOK ==
  ASSUME DequeInv, count > 0
  PROVE  /\ First \in live /\ IsFirst(First, live, next, head)
         /\ Order \in [1 .. count -> live] /\ IsOrder(Order, count, First, next)
<1>1. PICK x : IsFirst(x, live, next, head)
  BY DEF DequeInv, FirstInv
<1>2. First = x
  BY <1>1, FirstUnique DEF First, LeadsOn
<1>3. First \in live /\ count \in Nat /\ \A y \in live : next[y] \in live
  BY <1>1, <1>2 DEF IsFirst, DequeInv, ListInv, TypeOK, Ring
<1>4. PICK s \in [1 .. count -> live] : IsOrder(s, count, First, next)
  BY <1>3, OrderExists
<1>5. Order = s
  BY <1>3, <1>4, OrderIs DEF Order
<1> QED BY <1>1, <1>2, <1>3, <1>4, <1>5

LEMMA OrderFacts ==
  ASSUME DequeInv, count > 0
  PROVE  /\ \A i, j \in 1 .. count : Order[i] = Order[j] => i = j
         /\ \A x \in live : \E i \in 1 .. count : Order[i] = x
         /\ Order[1] = First
         /\ \A i \in 1 .. count - 1 : Order[i + 1] = next[Order[i]]
<1>1. TypeOK /\ Ring
  BY DEF DequeInv, ListInv
<1>2. First \in live /\ Order \in [1 .. count -> live] /\ IsOrder(Order, count, First, next)
  BY OrderOK
<1>3. \A i, j \in 1 .. count : Order[i] = Order[j] => i = j
  BY <1>1, <1>2, OrderIsAll
<1>4. \A x \in live : \E i \in 1 .. count : Order[i] = x
  BY <1>1, <1>2, OrderIsAll, ZenonT(60)
<1>5. Order[1] = First
  BY <1>1, <1>2, OrderIsAll
<1>6. \A i \in 1 .. count - 1 : Order[i + 1] = next[Order[i]]
  BY <1>1, <1>2, OrderIsAll, ZenonT(60)
<1> QED BY <1>3, <1>4, <1>5, <1>6

LEMMA HeldIs ==
  ASSUME DequeInv
  PROVE  /\ Held \in Seq(Data \cup {Null}) /\ Len(Held) = count /\ count \in Nat
         /\ Held = <<>> <=> count = 0
         /\ \A i \in 1 .. count : Held[i] = data[Order[i]]
<1>1. count \in Nat
  BY DEF DequeInv, ListInv, TypeOK
<1>2. ASSUME NEW i \in 1 .. count PROVE data[Order[i]] \in Data \cup {Null}
  BY <1>1, OrderOK DEF DequeInv, ListInv, TypeOK
<1>3. Held \in [1 .. count -> Data \cup {Null}]
  BY <1>2 DEF Held
<1>4. Held \in Seq(Data \cup {Null}) /\ Len(Held) = count
  BY <1>1, <1>3
<1> QED BY <1>1, <1>4 DEF Held

(* An item pushed on the left comes first, and one pushed on the right last. *)
LEMMA PushOrder ==
  ASSUME DequeInv, NoWalk, NEW x \in Items, NEW d \in Data, Push(x, d),
         head' \in {x, head}, head = Null => head' = x
  PROVE  /\ FirstInv'
         /\ head' = x => Held' = <<d>> \o Held
         /\ head' # x => Held' = Append(Held, d)
<1> DEFINE Shift(i) == IF head' = x THEN IF i = 1 THEN x ELSE Order[i - 1]
                       ELSE IF i = count + 1 THEN x ELSE Order[i]
           t == [i \in 1 .. count + 1 |-> Shift(i)]
<1>1. /\ Ring' /\ x \in live' /\ live' \in SUBSET Items /\ live \subseteq live'
      /\ count' = count + 1 /\ count \in Nat /\ x \notin live
      /\ live' = live \cup {x} /\ data' = [data EXCEPT ![x] = d]
      /\ data \in [Items -> Data \cup {Null}] /\ live \subseteq Items
      /\ next \in [Items -> Items \cup {Null}]
  BY PushKeeps DEF DequeInv, ListInv, TypeOK, Push
<1>2. head = Null <=> count = 0
  BY NullAssumption, <1>1 DEF DequeInv, ListInv, HeadInv, TypeOK
<1>3. head # Null => head \in live
  BY <1>2 DEF DequeInv, ListInv, HeadInv
<1>4. head' \in live'
  BY <1>1, <1>3
<1>5. IsFirst(head', live', next', head')
  BY <1>1, <1>4, HeadIsFirst
<1>6. FirstInv' /\ First' = head'
  BY <1>5, FirstUnique DEF FirstInv, First, LeadsOn
<1>7. ASSUME count > 0
      PROVE  /\ First = head /\ Order \in [1 .. count -> live]
             /\ Order[1] = head /\ next[Order[count]] = head
             /\ \A i, j \in 1 .. count : Order[i] = Order[j] => i = j
             /\ \A i \in 1 .. count - 1 : Order[i + 1] = next[Order[i]]
             /\ Order[count] = prev[head]
  <2>1. head \in live
    BY <1>1, <1>2, <1>3, <1>7
  <2>2. First = head
    <3>1. IsFirst(head, live, next, head)
      BY <1>1, <2>1, HeadIsFirst
    <3> QED BY <3>1, FirstUnique DEF First, LeadsOn
  <2>3. Order \in [1 .. count -> live] /\ IsOrder(Order, count, First, next)
    BY <1>7, OrderOK
  <2>4. /\ Order[1] = head /\ next[Order[count]] = head
        /\ \A i, j \in 1 .. count : Order[i] = Order[j] => i = j
        /\ \A i \in 1 .. count - 1 : Order[i + 1] = next[Order[i]]
    <3>1. IsOrder(Order, count, head, next) /\ Order \in [1 .. count -> live]
      BY <2>2, <2>3
    <3>2. TypeOK /\ Ring
      BY DEF DequeInv, ListInv
    <3> QED BY <2>1, <3>1, <3>2, OrderIsAll, ZenonT(120)
  <2>5. Order[count] \in live
    BY <1>1, <1>7, <2>3
  <2>6. Order[count] = prev[head]
    BY <2>4, <2>5 DEF DequeInv, ListInv, Ring
  <2> QED BY <2>2, <2>3, <2>4, <2>6
(* The last item now leads to x, and x to what was the head. *)
<1>8. /\ count > 0 => /\ next'[Order[count]] = x /\ next'[x] = head
                      /\ \A i \in 1 .. count - 1 : next'[Order[i]] = Order[i + 1]
  <2> SUFFICES ASSUME count > 0
               PROVE  /\ next'[Order[count]] = x /\ next'[x] = head
                      /\ \A i \in 1 .. count - 1 : next'[Order[i]] = Order[i + 1]
    OBVIOUS
  <2>1. next' = [next EXCEPT ![x] = head, ![Order[count]] = x]
    BY <1>1, <1>2, <1>7 DEF Push
  <2>2. count \in 1 .. count /\ Order[count] \in live
    BY <1>1, <1>7
  <2>3. next'[Order[count]] = x /\ next'[x] = head
    BY <1>1, <2>1, <2>2
  <2>4. ASSUME NEW i \in 1 .. count - 1 PROVE next'[Order[i]] = Order[i + 1]
    <3>1. i \in 1 .. count /\ i # count /\ Order[i] \in live
      BY <1>1, <1>7
    <3>2. Order[i] # Order[count] /\ Order[i] # x
      BY <1>1, <1>7, <2>2, <3>1
    <3> QED BY <1>1, <1>7, <2>1, <3>1, <3>2
  <2> QED BY <2>3, <2>4
<1>9. IsOrder(t, count', head', next')
  <2>1. ASSUME NEW i \in 1 .. count + 1
        PROVE  Shift(i) = IF i = 1 THEN head' ELSE next'[t[i - 1]]
    <3>1. CASE i = 1
      <4>1. CASE head' = x
        BY <3>1, <4>1
      <4>2. CASE head' # x
        <5>1. count > 0 /\ head' = head
          BY <1>1, <1>2, <4>2
        <5> QED BY <1>1, <1>7, <3>1, <4>2, <5>1
      <4> QED BY <4>1, <4>2
    <3>2. CASE i # 1
      <4>1. count > 0 /\ i - 1 \in 1 .. count /\ i - 1 \in 1 .. count + 1
        BY <1>1, <3>2
      <4>2. t[i - 1] = Shift(i - 1)
        BY <4>1
      <4>3. CASE head' = x
        <5>1. Shift(i) = Order[i - 1]
          BY <3>2, <4>3
        <5>2. CASE i = 2
          BY <1>7, <1>8, <4>1, <4>2, <4>3, <5>1, <5>2
        <5>3. CASE i # 2
          <6>1. (i - 1) - 1 \in 1 .. count - 1 /\ ((i - 1) - 1) + 1 = i - 1 /\ i - 1 # 1
            BY <1>1, <3>2, <5>3
          <6>2. t[i - 1] = Order[(i - 1) - 1]
            BY <4>2, <4>3, <6>1
          <6> QED BY <1>8, <3>2, <4>1, <5>1, <6>1, <6>2
        <5> QED BY <5>2, <5>3
      <4>4. CASE head' # x
        <5>1. t[i - 1] = Order[i - 1]
          BY <1>1, <4>1, <4>2, <4>4
        <5>2. CASE i = count + 1
          BY <1>1, <1>8, <3>2, <4>1, <4>4, <5>1, <5>2
        <5>3. CASE i # count + 1
          <6>1. i - 1 \in 1 .. count - 1 /\ (i - 1) + 1 = i
            BY <1>1, <3>2, <5>3
          <6> QED BY <1>8, <3>2, <4>1, <4>4, <5>1, <5>3, <6>1
        <5> QED BY <5>2, <5>3
      <4> QED BY <4>3, <4>4
    <3> QED BY <3>1, <3>2
  <2> HIDE DEF Shift
  <2> QED BY <1>1, <2>1 DEF IsOrder
<1>10. Order' = t
  <2>1. count' \in Nat
    BY <1>1
  <2> HIDE DEF t
  <2> QED BY <1>6, <1>9, <2>1, OrderIs DEF Order
<1>11. /\ data'[x] = d
       /\ \A i \in 1 .. count : data'[Order[i]] = data[Order[i]]
  <2>1. \A i \in 1 .. count : count > 0 /\ Order[i] \in live
    BY <1>1, <1>7
  <2> QED BY <1>1, <2>1
<1>12. Held' = [i \in 1 .. count + 1 |-> data'[t[i]]]
  BY <1>1, <1>10 DEF Held
<1>13. Held \in Seq(Data \cup {Null}) /\ Len(Held) = count
       /\ \A i \in 1 .. count : Held[i] = data[Order[i]]
  BY HeldIs
<1>14. ASSUME head' = x PROVE Held' = <<d>> \o Held
  <2>1. ASSUME NEW i \in 1 .. count + 1
        PROVE  data'[t[i]] = IF i = 1 THEN d ELSE Held[i - 1]
    BY <1>1, <1>11, <1>13, <1>14, i # 1 => i - 1 \in 1 .. count
  <2>2. Held' = [i \in 1 .. Len(Held) + 1 |-> IF i = 1 THEN d ELSE Held[i - 1]]
    <3> HIDE DEF t
    <3> QED BY <1>12, <1>13, <2>1
  <2> QED BY <1>13, <2>2, PrependIs
<1>15. ASSUME head' # x PROVE Held' = Append(Held, d)
  <2>1. ASSUME NEW i \in 1 .. count + 1
        PROVE  data'[t[i]] = IF i = count + 1 THEN d ELSE Held[i]
    BY <1>1, <1>11, <1>13, <1>15, i # count + 1 => i \in 1 .. count
  <2>2. Held' = [i \in 1 .. Len(Held) + 1 |-> IF i = Len(Held) + 1 THEN d ELSE Held[i]]
    <3> HIDE DEF t
    <3> QED BY <1>12, <1>13, <2>1
  <2>3. PICK s, e : s = Held /\ e = d
    OBVIOUS
  <2>4. s \in Seq(Data \cup {Null}) /\ e \in Data \cup {Null}
    BY <1>13, <2>3
  <2>5. Held' = [i \in 1 .. Len(s) + 1 |-> IF i = Len(s) + 1 THEN e ELSE s[i]]
    BY <2>2, <2>3, Zenon
  <2>6. Held' = Append(s, e)
    BY <2>4, <2>5, AppendIs
  <2> QED BY <2>3, <2>6
<1> QED BY <1>6, <1>14, <1>15

(* An item removed leaves the others in their order. *)
LEMMA PopOrder ==
  ASSUME DequeInv, NEW x \in live, NEW h, Pop(x, h),
         NEW k \in 1 .. count, Order[k] = x,
         count > 1 => First' = IF k = 1 THEN next[x] ELSE First
  PROVE  Held' = [i \in 1 .. Len(Held) - 1 |-> IF i < k THEN Held[i] ELSE Held[i + 1]]
<1> DEFINE t == [i \in 1 .. count - 1 |-> IF i < k THEN Order[i] ELSE Order[i + 1]]
<1>1. /\ TypeOK /\ Ring /\ count \in Nat /\ count > 0
      /\ live' = live \ {x} /\ count' = count - 1 /\ count' \in Nat
      /\ data' = [data EXCEPT ![x] = Null]
      /\ data \in [Items -> Data \cup {Null}] /\ live \subseteq Items
      /\ next \in [Items -> Items \cup {Null}]
  BY PopKeeps, Alone DEF DequeInv, ListInv, TypeOK, Pop, Free
<1>2. /\ First \in live
      /\ Order \in [1 .. count -> live] /\ IsOrder(Order, count, First, next)
  BY <1>1, OrderOK
<1>3. /\ \A i, j \in 1 .. count : Order[i] = Order[j] => i = j
      /\ Order[1] = First
      /\ \A i \in 1 .. count - 1 : Order[i + 1] = next[Order[i]]
  BY <1>1, OrderFacts
<1>4. ASSUME count > 1 PROVE next' = [next EXCEPT ![prev[x]] = next[x]]
  BY <1>4 DEF Pop, Unlink
(* The item before x now leads to the one after it, and no other link changes. *)
<1>5. ASSUME NEW i \in 1 .. count - 1, i # k, count > 1
      PROVE  next'[Order[i]] = IF i + 1 = k THEN next[x] ELSE Order[i + 1]
  <2>1. i \in 1 .. count /\ i + 1 \in 1 .. count /\ Order[i] \in live
    BY <1>1, <1>2
  <2>2. next[Order[i]] = Order[i + 1]
    BY <1>3
  <2>3. Order[i] = prev[x] <=> i + 1 = k
    <3>1. ASSUME Order[i] = prev[x] PROVE i + 1 = k
      <4>1. next[prev[x]] = x
        BY <1>1 DEF Ring
      <4> QED BY <1>3, <2>1, <2>2, <3>1, <4>1
    <3>2. ASSUME i + 1 = k PROVE Order[i] = prev[x]
      BY <1>1, <2>1, <2>2, <3>2 DEF Ring
    <3> QED BY <3>1, <3>2
  <2> QED BY <1>1, <1>4, <1>5, <2>1, <2>2, <2>3
<1>6. IsOrder(t, count', First', next')
  <2>1. ASSUME NEW i \in 1 .. count - 1
        PROVE  t[i] = IF i = 1 THEN First' ELSE next'[t[i - 1]]
    <3>1. count > 1 /\ i + 1 \in 1 .. count /\ i \in 1 .. count
      BY <1>1
    <3>2. CASE i = 1
      <4>1. CASE k = 1
        BY <1>1, <1>3, <3>1, <3>2, <4>1
      <4>2. CASE k # 1
        BY <1>1, <1>3, <3>1, <3>2, <4>2
      <4> QED BY <4>1, <4>2
    <3>3. CASE i # 1
      <4>1. i - 1 \in 1 .. count - 1 /\ (i - 1) + 1 = i
        BY <1>1, <3>3
      <4>2. CASE i < k
        <5>1. t[i] = Order[i] /\ t[i - 1] = Order[i - 1]
          BY <4>1, <4>2
        <5>2. i - 1 # k /\ (i - 1) + 1 # k
          BY <1>1, <4>2
        <5> QED BY <1>5, <3>1, <3>3, <4>1, <5>1, <5>2
      <4>3. CASE i = k
        <5>1. t[i] = Order[i + 1] /\ t[i - 1] = Order[i - 1]
          BY <4>1, <4>3
        <5>2. i - 1 # k /\ (i - 1) + 1 = k
          BY <1>1, <4>3
        <5>3. next'[Order[i - 1]] = next[x]
          BY <1>5, <3>1, <4>1, <5>2
        <5> QED BY <1>3, <3>3, <4>3, <5>1, <5>3
      <4>4. CASE i > k
        <5>1. t[i] = Order[i + 1] /\ t[i - 1] = Order[i]
          BY <1>1, <4>1, <4>4
        <5>2. i # k /\ i + 1 # k
          BY <1>1, <4>4
        <5> QED BY <1>5, <3>1, <3>3, <5>1, <5>2
      <4> QED BY <1>1, <4>2, <4>3, <4>4
    <3> QED BY <3>2, <3>3
  <2>2. t = [i \in 1 .. count - 1 |-> t[i]]
    OBVIOUS
  <2> HIDE DEF t
  <2> QED BY <1>1, <2>1, <2>2 DEF IsOrder
<1>7. Order' = t
  <2> HIDE DEF t
  <2> QED BY <1>1, <1>6, OrderIs DEF Order
<1>8. ASSUME NEW i \in 1 .. count, i # k PROVE data'[Order[i]] = data[Order[i]]
  BY <1>1, <1>2, <1>3, <1>8
<1>9. ASSUME NEW i \in 1 .. count - 1
      PROVE  data'[t[i]] = IF i < k THEN Held[i] ELSE Held[i + 1]
  <2>1. i \in 1 .. count /\ i + 1 \in 1 .. count
    BY <1>1
  <2>2. CASE i < k
    BY <1>1, <1>8, <2>1, <2>2, HeldIs
  <2>3. CASE ~ (i < k)
    BY <1>1, <1>8, <2>1, <2>3, HeldIs
  <2> QED BY <2>2, <2>3
<1>10. Len(Held) = count
  BY HeldIs
<1>11. Held' = [i \in 1 .. count - 1 |-> data'[t[i]]]
  BY <1>1, <1>7 DEF Held
<1>12. Held' = [i \in 1 .. count - 1 |-> IF i < k THEN Held[i] ELSE Held[i + 1]]
  <2> HIDE DEF t
  <2> QED BY <1>9, <1>11
<1> QED BY <1>10, <1>12

(* With the head still an item, the list is read from the head on. *)
LEMMA HeadLeads ==
  ASSUME DequeInv, head \in live
  PROVE  /\ First = head /\ count > 0 /\ count \in Nat
         /\ Order[1] = head /\ Order[count] = prev[head]
         /\ Order \in [1 .. count -> live]
<1>1. TypeOK /\ Ring /\ count > 0 /\ count \in Nat
  BY Alone DEF DequeInv, ListInv, TypeOK
<1>2. First = head
  <2>1. IsFirst(head, live, next, head)
    BY <1>1, HeadIsFirst DEF TypeOK
  <2> QED BY <2>1, FirstUnique DEF First, LeadsOn
<1>3. Order \in [1 .. count -> live] /\ IsOrder(Order, count, head, next)
  BY <1>1, <1>2, OrderOK
<1>4. Order[1] = head /\ next[Order[count]] = head
  BY <1>1, <1>3, OrderIsAll
<1>5. Order[count] \in live
  BY <1>1, <1>3
<1> QED BY <1>1, <1>2, <1>3, <1>4, <1>5 DEF Ring

LEMMA InitDeque == Init => FirstInv /\ Held = <<>> /\ popped = Null
<1> SUFFICES ASSUME Init PROVE FirstInv /\ Held = <<>> /\ popped = Null
  OBVIOUS
<1>1. count = 0 /\ popped = Null
  BY DEF Init
<1> QED BY <1>1 DEF FirstInv, Held

LEMMA StutterDeque ==
  ASSUME FirstInv, UNCHANGED <<links, head, count>>
  PROVE  FirstInv' /\ Held' = Held
<1>1. live' = live /\ next' = next /\ data' = data /\ head' = head /\ count' = count
  BY DEF links
<1>2. First' = First
  BY <1>1 DEF First, LeadsOn
<1>3. Order' = Order
  BY <1>1, <1>2 DEF Order
<1>4. FirstInv'
  BY <1>1 DEF FirstInv
<1> QED BY <1>1, <1>3, <1>4 DEF Held

LEMMA PushDeque ==
  ASSUME DequeInv, NEW d \in Data, LPush(d) \/ RPush(d)
  PROVE  FirstInv' /\ (Deque!LPush(d) \/ Deque!RPush(d))
<1>1. PICK x \in Items : Push(x, d) /\ head' \in {x, head} /\ (head = Null => head' = x)
  BY DEF LPush, RPush
<1>2. NoWalk /\ UNCHANGED popped
  BY DEF LPush, RPush
<1>3. FirstInv' /\ (Held' = <<d>> \o Held \/ Held' = Append(Held, d))
  BY <1>1, <1>2, PushOrder
<1> QED BY <1>2, <1>3 DEF Deque!LPush, Deque!RPush, Held

(* Between walks: LPop takes the first item, RPop the last.                  *)
LEMMA PopDeque ==
  ASSUME DequeInv, LPop \/ RPop
  PROVE  FirstInv' /\ (Deque!LPop \/ Deque!RPop)
<1>1. CASE count = 0
  <2>1. PopNothing
    BY <1>1 DEF LPop, RPop
  <2>2. FirstInv' /\ Held' = Held /\ popped' = Null
    BY <2>1, StutterDeque DEF PopNothing, DequeInv
  <2>3. Held = <<>>
    BY <1>1, HeldIs
  <2> QED BY <2>2, <2>3 DEF Deque!LPop, Held
<1>2. CASE count # 0
  <2>1. NoWalk /\ head \in live
    BY <1>2 DEF LPop, RPop, DequeInv, ListInv, HeadInv
  <2>2. /\ First = head /\ count > 0 /\ count \in Nat
        /\ Order[1] = head /\ Order[count] = prev[head]
    BY <2>1, HeadLeads
  <2>3. TypeOK /\ Ring
    BY DEF DequeInv, ListInv
  <2>4. /\ Held \in Seq(Data \cup {Null}) /\ Len(Held) = count /\ Held # <<>>
        /\ Held[1] = data[head] /\ Held[count] = data[prev[head]]
    BY <2>2, HeldIs, 1 \in 1 .. count, count \in 1 .. count
  <2> DEFINE Shorter(k) ==
        [i \in 1 .. Len(Held) - 1 |-> IF i < k THEN Held[i] ELSE Held[i + 1]]
  <2>5. ASSUME NEW x \in live, NEW h \in live, NEW k \in 1 .. count, Pop(x, h), Order[k] = x,
               count > 1 => h # x /\ h = IF k = 1 THEN next[x] ELSE head
        PROVE  FirstInv' /\ Held' = Shorter(k)
    <3>1. live' = live \ {x} /\ count' = count - 1 /\ head' = IF count = 1 THEN Null ELSE h
      BY <2>3, <2>5, PopKeeps
    <3>2. ASSUME count > 1 PROVE First' = h /\ IsFirst(h, live', next', head')
      <4>1. h \in live' /\ head' = h /\ live' \in SUBSET Items
        BY <2>3, <2>5, <3>1, <3>2 DEF TypeOK
      <4>2. IsFirst(h, live', next', head')
        BY <4>1, HeadIsFirst
      <4> QED BY <4>1, <4>2, FirstUnique DEF First, LeadsOn
    <3>3. FirstInv'
      BY <2>2, <3>1, <3>2 DEF FirstInv
    <3>4. Held' = Shorter(k)
      <4> HIDE DEF Shorter
      <4>1. count > 1 => First' = IF k = 1 THEN next[x] ELSE First
        BY <2>2, <2>5, <3>2
      <4> QED BY <2>5, <4>1, PopOrder DEF Shorter
    <3> QED BY <3>3, <3>4
  <2>6. CASE LPop
    <3>1. popped' = data[head] /\ Pop(head, next[head])
      BY <1>2, <2>6 DEF LPop, LPopHead
    <3>2. next[head] \in live /\ (count > 1 => next[head] # head) /\ 1 \in 1 .. count
      BY <2>1, <2>2, <2>3, Alone DEF Ring
    <3>3. FirstInv' /\ Held' = Shorter(1)
      <4> HIDE DEF Shorter
      <4> QED BY <2>1, <2>2, <2>5, <3>1, <3>2
    <3>4. Held' = Tail(Held) /\ Head(Held) = Held[1] /\ 1 \in 1 .. Len(Held)
      <4> PICK s, t : s = Held /\ t = Held'
        OBVIOUS
      <4>1. s \in Seq(Data \cup {Null}) /\ 1 \in 1 .. Len(s) /\ s # <<>>
        BY <2>4, <3>2
      <4>2. t = [i \in 1 .. Len(s) - 1 |-> IF i < 1 THEN s[i] ELSE s[i + 1]]
        BY <3>3
      <4>3. t = Tail(s)
        <5> HIDE DEF Shorter
        <5> QED BY <4>1, <4>2, WithoutIs
      <4> QED BY <4>1, <4>3
    <3> QED BY <2>4, <3>1, <3>3, <3>4 DEF Deque!LPop, Held
  <2>7. CASE RPop
    <3>1. popped' = data[prev[head]] /\ Pop(prev[head], head)
      BY <1>2, <2>7 DEF RPop
    <3>2. /\ prev[head] \in live /\ (count > 1 => prev[head] # head) /\ count \in 1 .. count
          /\ count > 1 => count # 1
      BY <2>1, <2>2, <2>3, Alone DEF Ring
    <3>3. FirstInv' /\ Held' = Shorter(count)
      <4> HIDE DEF Shorter
      <4> QED BY <2>1, <2>2, <2>5, <3>1, <3>2
    <3>4. Held' = SubSeq(Held, 1, Len(Held) - 1)
      <4> PICK s, t : s = Held /\ t = Held'
        OBVIOUS
      <4>1. s \in Seq(Data \cup {Null}) /\ count \in 1 .. Len(s) /\ count = Len(s)
        BY <2>4, <3>2
      <4>2. t = [i \in 1 .. Len(s) - 1 |-> IF i < count THEN s[i] ELSE s[i + 1]]
        BY <3>3
      <4>3. t = SubSeq(s, 1, Len(s) - 1)
        <5> HIDE DEF Shorter
        <5> QED BY <4>1, <4>2, WithoutIs
      <4> QED BY <4>3
    <3> QED BY <2>4, <3>1, <3>3, <3>4 DEF Deque!RPop, Held
  <2> QED BY <2>6, <2>7
<1> QED BY <1>1, <1>2

(* A walk that removes takes out one item, wherever it is.                   *)
LEMMA RemoveDeque ==
  ASSUME DequeInv, WalkRemove
  PROVE  FirstInv' /\ Deque!Remove
<1>1. at \in live /\ Pop(at, head) /\ UNCHANGED popped
  BY DEF WalkRemove
<1>2. /\ TypeOK /\ Ring /\ count > 0 /\ count \in Nat /\ live \in SUBSET Items
      /\ next \in [Items -> Items \cup {Null}]
  BY <1>1, Alone DEF DequeInv, ListInv, TypeOK
<1>3. live' = live \ {at} /\ count' = count - 1 /\ head' = IF count = 1 THEN Null ELSE head
  BY <1>1, <1>2, PopKeeps
<1>4. First \in live /\ IsFirst(First, live, next, head)
  BY <1>2, OrderOK
<1>5. PICK k \in 1 .. count : Order[k] = at
  BY <1>1, <1>2, OrderFacts
<1>6. First = at <=> k = 1
  <2>1. Order[1] = First /\ \A i, j \in 1 .. count : Order[i] = Order[j] => i = j
    BY <1>2, OrderFacts
  <2> QED BY <1>2, <1>5, <2>1, 1 \in 1 .. count
<1>7. ASSUME count > 1
      PROVE  /\ First' = IF k = 1 THEN next[at] ELSE First
             /\ IsFirst(First', live', next', head')
  <2> DEFINE f == IF First = at THEN next[at] ELSE First
  <2>1. next[at] \in live \ {at} /\ prev[at] \in live /\ prev[at] # at
    BY <1>1, <1>2, <1>7, Alone DEF Ring
  <2>2. next' = [next EXCEPT ![prev[at]] = next[at]] /\ head' = head
    BY <1>1, <1>3, <1>7 DEF Pop, Unlink
  <2>3. next'[at] = next[at] /\ \A y \in Items \ live : next'[y] = next[y]
    BY <1>1, <1>2, <2>1, <2>2
  <2>4. IsFirst(f, live \ {at}, next', head)
    BY <1>1, <1>2, <1>4, <2>1, <2>3, FirstAfter
  <2>5. IsFirst(f, live', next', head')
    BY <1>3, <2>2, <2>4
  <2>6. First' = f
    <3> HIDE DEF f
    <3> QED BY <2>5, FirstUnique DEF First, LeadsOn
  <2> QED BY <1>6, <2>5, <2>6
<1>8. FirstInv'
  BY <1>2, <1>3, <1>7 DEF FirstInv
<1>9. Held' = [i \in 1 .. Len(Held) - 1 |-> IF i < k THEN Held[i] ELSE Held[i + 1]]
  BY <1>1, <1>5, <1>7, PopOrder
<1>10. Held \in Seq(Data \cup {Null}) /\ Len(Held) = count
  BY HeldIs
<1>11. Held' = SubSeq(Held, 1, k - 1) \o SubSeq(Held, k + 1, Len(Held))
  <2> PICK s, t : s = Held /\ t = Held'
    OBVIOUS
  <2>1. s \in Seq(Data \cup {Null}) /\ k \in 1 .. Len(s)
    BY <1>10
  <2>2. t = [i \in 1 .. Len(s) - 1 |-> IF i < k THEN s[i] ELSE s[i + 1]]
    BY <1>9
  <2>3. t = SubSeq(s, 1, k - 1) \o SubSeq(s, k + 1, Len(s))
    BY <2>1, <2>2, WithoutIs, ZenonT(60)
  <2> QED BY <2>3
<1>12. k \in DOMAIN Held
  BY <1>10
<1> QED BY <1>1, <1>8, <1>11, <1>12 DEF Deque!Remove, Held

LEMMA StepDeque ==
  DequeInv /\ [Next]_vars => FirstInv' /\ [Deque!Next]_(Deque!vars)
<1> SUFFICES ASSUME DequeInv, [Next]_vars
             PROVE  FirstInv' /\ [Deque!Next]_(Deque!vars)
  OBVIOUS
<1>1. ASSUME NEW d \in Data, LPush(d) \/ RPush(d)
      PROVE  FirstInv' /\ [Deque!Next]_(Deque!vars)
  <2>1. FirstInv' /\ (Deque!LPush(d) \/ Deque!RPush(d))
    BY <1>1, PushDeque
  <2> QED BY <2>1 DEF Deque!Next
<1>2. CASE LPop \/ RPop
  BY <1>2, PopDeque DEF Deque!Next
<1>3. CASE StartWalk \/ WalkKeep \/ UNCHANGED vars
  <2>1. UNCHANGED <<links, head, count>> /\ UNCHANGED popped
    BY <1>3 DEF StartWalk, WalkKeep, vars, links
  <2>2. FirstInv' /\ Held' = Held
    BY <2>1, StutterDeque DEF DequeInv
  <2> QED BY <2>1, <2>2 DEF Deque!vars, Held
<1>4. CASE WalkRemove
  BY <1>4, RemoveDeque DEF Deque!Next
<1> QED BY <1>1, <1>2, <1>3, <1>4 DEF Next, Walking

(* The list is a double-ended queue: read from its first item on, the ring   *)
(* holds what was pushed on either side and neither popped nor removed, in   *)
(* this order; clist_lpop and clist_rpop return its two ends, and each step  *)
(* of a walk takes out one item and leaves the order of the others, also     *)
(* while the walk has left the head dangling.                                *)
THEOREM ImplementsDequeHolds == Spec => ImplementsDeque
<1>1. Init => ListInv /\ FirstInv /\ Deque!Init
  BY InitListInv, InitDeque DEF Deque!Init, Held
<1>2. ListInv /\ FirstInv /\ [Next]_vars =>
        ListInv' /\ FirstInv' /\ [Deque!Next]_(Deque!vars)
  BY StepListInv, StepDeque DEF DequeInv
<1> QED BY <1>1, <1>2, PTL DEF Spec, ImplementsDeque, Deque!Spec
=============================================================================
