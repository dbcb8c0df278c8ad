--------------------------- MODULE MCConstructor ---------------------------
(* Small instances of Constructor: every forest of the classes in Name and *)
(* every source order, so every mix of base-first and derived-first.       *)
EXTENDS Constructor
=============================================================================
