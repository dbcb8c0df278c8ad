------------------------------ MODULE MCNames -------------------------------
(* Small instances of Names: every method body up to a length.  The        *)
(* identifiers are interchangeable.                                        *)
EXTENDS Names, TLC

Symmetry == Permutations(Ids)
=============================================================================
