--------------------------- MODULE MCEventServer ----------------------------
(* Small instances of EventServer: descriptors and threads are model values. *)
EXTENDS EventServer

CONSTANTS f1, f2, w1, w2
=============================================================================
