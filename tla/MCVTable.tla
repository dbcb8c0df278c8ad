------------------------------ MODULE MCVTable ------------------------------
(* Small instances of VTable: all forests of the classes, all source       *)
(* orders of them and all lists of methods.  Names are not taken up to     *)
(* symmetry, which liveness would not allow.                               *)
EXTENDS VTable
=============================================================================
