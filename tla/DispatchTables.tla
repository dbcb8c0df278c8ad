--------------------------- MODULE DispatchTables ---------------------------
(***************************************************************************)
(* What the method tables promise, without slots or recursion: the classes *)
(* get their tables one at a time, a base before what derives from it, and *)
(* the table of a class takes every method it has or inherits to the most  *)
(* derived class that defines it.                                          *)
(***************************************************************************)
EXTENDS Hierarchy

CONSTANT Method

VARIABLES
  base,   \* the forest of classes
  defs,   \* the methods each class defines
  table   \* for the classes done so far, from method to defining class

vars == <<base, defs, table>>

Init ==
  /\ base \in BaseMap /\ Acyclic(base)
  /\ defs \in [Name -> SUBSET Method]
  /\ table = <<>>

Build(c) ==
  /\ c \notin DOMAIN table
  /\ base[c] # NoBase => base[c] \in DOMAIN table
  /\ table' = [x \in DOMAIN table \cup {c} |->
                 IF x = c
                 THEN [m \in Understood(base, defs, c) |->
                    CHOOSE d \in Name : MostDerived(base, defs, c, m, d)]
                 ELSE table[x]]
  /\ UNCHANGED <<base, defs>>

Next == \E c \in Name : Build(c)

(* Every class gets its table.                                             *)
Spec == Init /\ [][Next]_vars /\ WF_vars(Next)
=============================================================================
