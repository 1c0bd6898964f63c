------------------------------- MODULE MCDict --------------------------------
(* Small instances of Dict. *)
EXTENDS Dict, TLC

CONSTANTS v1, v2, i1, i2

(* Keys that share a bucket in the small tables and part in the larger ones. *)
ThreeKeys == {10, 12, 13}
ThreeHash == [k \in ThreeKeys |-> k]

(* Sound, for there is no liveness: neither values nor iterators are ordered. *)
Symmetry == Permutations({v1, v2}) \cup Permutations({i1, i2})
=============================================================================
