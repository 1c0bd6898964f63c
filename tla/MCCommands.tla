------------------------------ MODULE MCCommands -----------------------------
(* Values for TLC: the fields are called a, ab and b, in this order; a       *)
(* command may also use the name x, which no field begins with.              *)
EXTENDS Commands, SequencesExt
CONSTANTS t, n, a, ab, b, x

MCBegins == [name \in {a, ab, b, x} |->
               CASE name = a  -> {1, 2}
                 [] name = ab -> {2}
                 [] name = b  -> {3}
                 [] OTHER     -> {}]

MCCalled == <<a, ab, b>>

NameLists ==
  {s \in BoundedSeq({a, ab, b, x}, 2) : s # <<>>}
    \cup {<<ab, b, a>>, [i \in 1 .. 4 * SeqSize |-> a]}

Inserts == [kind : {"insert"}, table : {t, n}, names : NameLists,
            rows : (BoundedSeq(1 .. 3, 2) \ {<<>>}) \cup {<<1, 2, 1>>},
            index : {Unknown}, keyed : {FALSE}]

Gets == [kind : {"get"}, table : {t, n}, names : {<<a>>, <<a, x>>, <<ab, b, a>>},
         rows : {<<>>}, index : Unknown .. Keys, keyed : BOOLEAN]

MCRequests == Inserts \cup Gets
=============================================================================
