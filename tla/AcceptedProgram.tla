-------------------------- MODULE AcceptedProgram --------------------------
(***************************************************************************)
(* What SymbolChecker leaves to the generators of tables and constructors: *)
(* the map of bases, a forest once it has accepted the program, and the    *)
(* classes of its global scope, sorted by source position.                 *)
(***************************************************************************)
EXTENDS Hierarchy, Sequences

ASSUME FiniteNames == IsFiniteSet(Name)

VARIABLES
  base,     \* BaseChecker::bases
  order     \* the classes by source position

program == <<base, order>>
=============================================================================
