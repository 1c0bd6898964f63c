-------------------------- MODULE MCRequestParser ---------------------------
(* Small instances of RequestParser. *)
EXTENDS RequestParser

(* A letter, a word with a line end inside, a word that looks like a header. *)
one == <<97>>
odd == <<97, CR, LF, 98>>
fox == <<Dollar, 49, CR, LF>>

ArgLists == {<<one>>, <<odd>>, <<one, fox>>, <<fox, odd, one>>}

Whole(args) == FlattenSeq(Items(args))

ItemClients == {Meaning(InItems(Items(args)), args) : args \in ArgLists}
ByteClients == {Meaning(InBytes(Whole(args)), args) : args \in ArgLists}
LineClients ==
  {Meaning(InBytes(Line(args)), args) :
     args \in {<<one>>, <<one, one>>, <<one, <<97, 98>>, one>>}}

(* All of them speak the protocol, so that the theorem on AsMeant is about them. *)
ASSUME Speakers == \A c \in ItemClients \cup LineClients : Speaks(c)

(* With a word of 256 values: 260 is taken as 4, 261 as 5, 257 and 200 are   *)
(* refused as too large, and -2 as not positive.                             *)
Numerals == {<<50, 54, 48>>, <<50, 54, 49>>, <<50, 53, 55>>, <<50, 48, 48>>, <<Minus, 50>>}

Numbered ==
  {<<Star>> \o n \o <<CR, LF, Dollar, 49, CR, LF, 97, CR, LF>> : n \in Numerals} \cup
  {<<Star, 49, CR, LF, Dollar>> \o n \o <<CR, LF, 97, 97, 97, 97, CR, LF>> : n \in Numerals}

(* Requests with mistakes: no number, a letter and a request behind it, too  *)
(* many bulks, no dollar, a length of zero, a letter for a length, a bulk    *)
(* that is longer than said, a length without end, a length over the limit,  *)
(* a line without end, and a number of bulks that is found too long before   *)
(* its end arrives, and then taken.                                          *)
Faulty ==
  {<<Star, CR, LF>>, <<Star, 97, CR, LF>> \o Whole(<<one>>),
   <<Star, 57, CR, LF, Dollar>>,
   <<Star, 49, CR, LF, 97, CR, LF>>, <<Star, 49, CR, LF, Dollar, 48, CR, LF>>,
   <<Star, 50, CR, LF, Dollar, 49, CR, LF, 97, CR, LF,
     Dollar, 97, CR, LF, 97, CR, LF>>,
   <<Star, 50, CR, LF, Dollar, 49, CR, LF, 97, 97, 97, CR, LF, 97, CR, LF>>,
   <<Star, 50, CR, LF, Dollar, 49, CR, LF, 97, CR, LF, Dollar>> \o
     [i \in 1 .. 15 |-> 49],
   <<Star, 49, CR, LF, Dollar, 51, 48, CR, LF, 97>>,
   <<Star>> \o [i \in 1 .. 25 |-> 48] \o <<49, CR, LF, Dollar, 49, CR, LF, 97, CR, LF>>} \cup
  {<<c>> \o [i \in 1 .. 25 |-> 97] : c \in {Star, 97}}

Mistakes == {Meaning(InBytes(w), Nonsense) : w \in Faulty \cup Numbered}

Everything ==
  ItemClients \cup LineClients \cup Mistakes \cup
  {Meaning(InBytes(Whole(args)), Nonsense) :
     args \in {s \in ArgLists : Len(s) <= 2}}
=============================================================================
