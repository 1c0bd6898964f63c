------------------------------- MODULE KeyMap --------------------------------
(***************************************************************************)
(* What dict.c promises: a finite map.  `reply' is what the last operation *)
(* returned.                                                               *)
(***************************************************************************)
CONSTANTS Keys, Values, Missing

VARIABLES map, reply

TypeOK ==
  /\ \E S \in SUBSET Keys : map \in [S -> Values]
  /\ reply \in Values \cup {Missing} \cup BOOLEAN

Init == map = [k \in {} |-> Missing] /\ reply = TRUE

Has(k) == k \in DOMAIN map

With(k, v) == map' = [l \in DOMAIN map \cup {k} |-> IF l = k THEN v ELSE map[l]]

(* A key that is there already keeps its value. *)
Add(k, v) ==
  \/ ~Has(k) /\ With(k, v) /\ reply' = TRUE
  \/ Has(k) /\ UNCHANGED map /\ reply' = FALSE

(* The reply tells whether the key was new. *)
Replace(k, v) == With(k, v) /\ reply' = ~Has(k)

Find(k) == UNCHANGED map /\ reply' = IF Has(k) THEN map[k] ELSE Missing

Del(k) ==
  /\ map' = [l \in DOMAIN map \ {k} |-> map[l]]
  /\ reply' = Has(k)

Clear == map' = [k \in {} |-> Missing] /\ UNCHANGED reply

Next ==
  \/ \E k \in Keys, v \in Values : Add(k, v) \/ Replace(k, v)
  \/ \E k \in Keys : Find(k) \/ Del(k)
  \/ Clear

Spec == Init /\ [][Next]_<<map, reply>>
=============================================================================
