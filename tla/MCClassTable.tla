--------------------------- MODULE MCClassTable ---------------------------
(* Small instances of ClassTable: every program of up to MaxDefs classes.  *)
(* Names are not taken up to symmetry, which liveness would not allow.     *)
EXTENDS ClassTable
=============================================================================
