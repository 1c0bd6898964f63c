-------------------------------- MODULE Deque --------------------------------
(* What clist.c promises: a double-ended queue.  Nothing stands for NULL. *)
EXTENDS Naturals, Sequences

CONSTANTS Data, Nothing

VARIABLES items, popped

vars == <<items, popped>>

Init == items = <<>> /\ popped = Nothing

LPush(d) == items' = <<d>> \o items /\ UNCHANGED popped
RPush(d) == items' = Append(items, d) /\ UNCHANGED popped

LPop ==
  IF items = <<>> THEN popped' = Nothing /\ UNCHANGED items
  ELSE popped' = Head(items) /\ items' = Tail(items)

RPop ==
  IF items = <<>> THEN popped' = Nothing /\ UNCHANGED items
  ELSE /\ popped' = items[Len(items)]
       /\ items' = SubSeq(items, 1, Len(items) - 1)

(* Of a walk that removes what a predicate does not keep, each step. *)
Remove ==
  /\ UNCHANGED popped
  /\ \E i \in DOMAIN items :
       items' = SubSeq(items, 1, i - 1) \o SubSeq(items, i + 1, Len(items))

Next == LPop \/ RPop \/ Remove \/ \E d \in Data : LPush(d) \/ RPush(d)

Spec == Init /\ [][Next]_vars
=============================================================================
