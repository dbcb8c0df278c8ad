----------------------------- MODULE Hierarchy -----------------------------
(***************************************************************************)
(* Single inheritance as the compiler stores it: BaseChecker keeps one     *)
(* static map from a class name to the name of its base class, and the     *)
(* empty string stands for "no base".  The operators below say, without    *)
(* recursion, what the loops over that map are meant to compute; the       *)
(* modules that model the loops are checked against them.                  *)
(***************************************************************************)
EXTENDS Integers, FiniteSets

CONSTANTS
  Name,    \* class names: the identifiers a program may use for classes
  NoBase   \* the empty string returned by BaseChecker::getBase

ASSUME NoBaseAssumption == NoBase \notin Name

BaseMap == [Name -> Name \cup {NoBase}]

(***************************************************************************)
(* S is closed when every class of S has its base in S.  A chain of bases  *)
(* that starts in a closed set never leaves it, so it never ends.          *)
(***************************************************************************)
Closed(b, S) == \A c \in S : b[c] \in S

(* The base relation has no infinite chain.                                *)
Acyclic(b) == \A S \in SUBSET Name : Closed(b, S) => S = {}

(* T contains the base of each of its members that has one.                *)
UpwardClosed(b, T) == \A c \in T : b[c] \in Name => b[c] \in T

(***************************************************************************)
(* The proper ancestors of c: the least upward-closed set with c's base.   *)
(* It is what BaseChecker::isBase(c, a) decides for an acyclic map, and     *)
(* c is among its own ancestors exactly when c lies on a cycle.            *)
(***************************************************************************)
Ancestors(b, c) ==
  {a \in Name : \A T \in SUBSET Name :
     (b[c] \in Name => b[c] \in T) /\ UpwardClosed(b, T) => a \in T}

OnCycle(b, c) == c \in Ancestors(b, c)

IsSubclass(b, c, a) == c = a \/ a \in Ancestors(b, c)

(* With Defs[c] the methods class c defines: d defines m for c, and each   *)
(* class that also does is d or an ancestor of d.                          *)
MostDerived(b, Defs, c, m, d) ==
  /\ IsSubclass(b, c, d) /\ m \in Defs[d]
  /\ \A a \in Name : IsSubclass(b, c, a) /\ m \in Defs[a] => IsSubclass(b, d, a)

Understood(b, Defs, c) == UNION {Defs[a] : a \in {x \in Name : IsSubclass(b, c, x)}}

(* The members of S, all or some of them, in an order without repetition:  *)
(* what a scope's symbols are once sorted by position.                     *)
Rows(S) ==
  UNION {{r \in [1..n -> S] : \A i, j \in 1..n : r[i] = r[j] => i = j} :
           n \in 0..Cardinality(S)}

(* The classes of a program in source order, when every name is a class.   *)
SourceOrders == {r \in Rows(Name) : \A c \in Name : \E i \in DOMAIN r : r[i] = c}

(* Every class is written after its base.                                  *)
BaseFirst(b, r) ==
  \A i \in DOMAIN r : b[r[i]] # NoBase => \E j \in DOMAIN r : j < i /\ r[j] = b[r[i]]
=============================================================================
