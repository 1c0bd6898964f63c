-------------------------------- MODULE CList --------------------------------
(***************************************************************************)
(* The list of clist.c: items in a ring, linked both ways, a head and a    *)
(* count.  cevent.c keeps its queue of fired events in one, pushing on the *)
(* left and popping on the right, always under qlock: calls do not overlap  *)
(* (SharedList), and each is one step, but for clist_walk_remove, which     *)
(* calls back.                                                             *)
(***************************************************************************)
EXTENDS Naturals, Sequences, FiniteSets

CONSTANTS
  Items,     (* addresses clist_item_create may return                       *)
  Null,
  Data,      (* what the list holds                                          *)
  Kept       (* the data for which a callback may return non-zero            *)

ASSUME NullAssumption == Null \notin Items /\ Null \notin Data
ASSUME KeptAssumption == Kept \subseteq Data

VARIABLES
  live,      (* items allocated and not freed                                *)
  next, prev, data,   (* the fields of the items                             *)
  head, count,        (* cl->head, cl->count                                 *)
  popped,    (* what the last pop returned                                   *)
  at,        (* where a walk is: an item, or Null when there is no walk      *)
  kept       (* the data for which the callback of the walk returns non-zero *)

links == <<live, next, prev, data>>
walk  == <<at, kept>>
vars  == <<links, head, count, popped, walk>>

Init ==
  /\ live = {}
  /\ next = [x \in Items |-> Null]
  /\ prev = [x \in Items |-> Null]
  /\ data = [x \in Items |-> Null]
  /\ head = Null /\ count = 0
  /\ popped = Null
  /\ at = Null /\ kept = {}

NoWalk == at = Null

-----------------------------------------------------------------------------
(* PUSH: between the last item and the head. *)
Push(x, d) ==
  /\ x \notin live
  /\ live' = live \cup {x}
  /\ data' = [data EXCEPT ![x] = d]
  /\ IF head = Null
     THEN /\ next' = [next EXCEPT ![x] = x]
          /\ prev' = [prev EXCEPT ![x] = x]
     ELSE LET hprev == prev[head] IN
          /\ next' = [next EXCEPT ![x] = head, ![hprev] = x]
          /\ prev' = [prev EXCEPT ![x] = hprev, ![head] = x]
  /\ count' = count + 1

LPush(d) ==
  /\ NoWalk
  /\ \E x \in Items : Push(x, d) /\ head' = x
  /\ UNCHANGED <<popped, walk>>

RPush(d) ==
  /\ NoWalk
  /\ \E x \in Items : Push(x, d) /\ head' = (IF head = Null THEN x ELSE head)
  /\ UNCHANGED <<popped, walk>>

Free(x) ==
  /\ live' = live \ {x}
  /\ data' = [data EXCEPT ![x] = Null]

UnlinkForward(x) ==                 (* mutant: the way back is forgotten *)
  /\ next' = [next EXCEPT ![prev[x]] = next[x]]
  /\ UNCHANGED prev

Unlink(x) ==
  /\ next' = [next EXCEPT ![prev[x]] = next[x]]
  /\ prev' = [prev EXCEPT ![next[x]] = prev[x]]

(* POP: the last item leaves an empty list, any other one its neighbours. *)
Pop(x, h) ==
  /\ count' = count - 1
  /\ IF count > 1 THEN Unlink(x) /\ head' = h
     ELSE UNCHANGED <<next, prev>> /\ head' = Null
  /\ Free(x)

PopNothing == popped' = Null /\ UNCHANGED <<links, head, count>>

RPop ==
  /\ NoWalk
  /\ IF count = 0 THEN PopNothing
     ELSE popped' = data[prev[head]] /\ Pop(prev[head], head)
  /\ UNCHANGED walk

LPopBack == prev[head]              (* mutant: the head moves the wrong way *)

LPopHead == next[head]

LPop ==
  /\ NoWalk
  /\ IF count = 0 THEN PopNothing
     ELSE popped' = data[head] /\ Pop(head, LPopHead)
  /\ UNCHANGED walk

-----------------------------------------------------------------------------
(* clist_walk_remove *)

StartWalk ==
  /\ NoWalk
  /\ head # Null
  /\ at' = head
  /\ kept' \in {{}, Kept}
  /\ UNCHANGED <<links, head, count, popped>>

(* The callback returns non-zero: the item stays, and the walk goes on. *)
WalkKeep ==
  /\ at \in live
  /\ data[at] \in kept
  /\ at' = next[at]
  /\ UNCHANGED <<links, head, count, popped, kept>>

WalkOn == next[at]                  (* mutant: the last item is not recognised *)

WalkNext == IF next[at] = at THEN Null ELSE next[at]

(* The callback returns zero.  The head stays where it was.  An item that is *)
(* not live has no fields to go by.                                          *)
WalkRemove ==
  /\ at \in live
  /\ data[at] \notin kept
  /\ Pop(at, head)
  /\ at' = WalkNext
  /\ UNCHANGED <<popped, kept>>

Walking == WalkKeep \/ WalkRemove

Next ==
  \/ \E d \in Data : LPush(d) \/ RPush(d)
  \/ LPop \/ RPop
  \/ StartWalk \/ Walking

Spec == Init /\ [][Next]_vars /\ WF_vars(Walking)

-----------------------------------------------------------------------------
(* The first item.  A walk that has removed the head leaves it dangling: the *)
(* next pointers of what was removed lead to the first item.                 *)
LeadsOn(part) == head \in part /\ \A y \in part \ live : next[y] \in part

First ==
  CHOOSE x \in live : \A part \in SUBSET Items : LeadsOn(part) => x \in part

Order[i \in 1 .. count] == IF i = 1 THEN First ELSE next[Order[i - 1]]

(* The items allocated are those linked: none is lost, none freed is still  *)
(* reached, the two directions agree all around, and there is one ring: a   *)
(* walk from any item comes by all of them, also while it removes items.    *)
OneRing ==
  \A part \in SUBSET live :
    part # {} /\ (\A x \in part : next[x] \in part) => part = live

Ring ==
  /\ Cardinality(live) = count
  /\ \A x \in live : next[x] \in live /\ prev[x] \in live
  /\ \A x \in live : next[prev[x]] = x /\ prev[next[x]] = x
  /\ OneRing

(* The list is a double-ended queue of what was pushed. *)
Deque == INSTANCE Deque
           WITH items <- [i \in 1 .. count |-> data[Order[i]]],
                Nothing <- Null

ImplementsDeque == Deque!Spec

(* clist_walk_remove returns when its callback keeps nothing.  Otherwise it  *)
(* goes round for ever, for the next item is never NULL.                    *)
WalkReturns == at # Null /\ kept = {} ~> at = Null
=============================================================================
