--------------------------- MODULE MCExpressions ----------------------------
(* Small instances of Expressions: class B may extend A.                   *)
EXTENDS Expressions

CONSTANTS A, B, Ghost

SmallVarTypes == {Class(B), Class(Ghost), Array(IntType)}
SmallElementTypes == {BoolType, T("void"), Class(Ghost)}

Method(stat, own, args, type) ==
  [is |-> "method", static |-> stat, own |-> own, args |-> args, type |-> type]
Other(is, type) == [Method(FALSE, TRUE, <<>>, type) EXCEPT !.is = is]

SmallCallees ==
  {Method(FALSE, FALSE, <<Class(A)>>, Class(B)), Method(FALSE, TRUE, <<>>, IntType),
   Method(TRUE, TRUE, <<Class(B), BoolType>>, Class(A)), Method(TRUE, FALSE, <<>>, T("void")),
   Other("length", IntType), Other("field", Class(B)), Other("field", Class(Ghost))}

(* The subexpressions that are at least still to come.                     *)
Missing(k) ==
  LET wanted == IF Form(frames[k]).op \in {b.op : b \in Binaries} \cup {"assign"} THEN 2 ELSE 1
      begun == Len(frames[k].kids) + (IF k < Len(frames) THEN 1 ELSE 0) IN
  IF begun < wanted THEN wanted - begun ELSE 0

OfGhost == {Ghost, Class(Ghost), Other("field", Class(Ghost))}

(* Trees that can be completed.  The largest are calls through something   *)
(* nested, as a statement.  A statement that has failed, or names a class  *)
(* that does not exist, is not extended far.                               *)
Written(i) == IF i > Len(nodes) THEN "any" ELSE nodes[i].op
Largest ==
  CASE failed \/ \E i \in DOMAIN nodes : nodes[i].of \in OfGhost -> 3
    [] /\ Written(1) = "expression" /\ Written(2) \in {"any", "varCall"}
       /\ Written(3) \in {"any", "paren", "localCall", "varCall", "varSel"} -> MaxNodes
    [] Written(1) \in {"expression", "condition", "assign"} -> MaxNodes - 1
    [] OTHER -> MaxNodes - 2

Small ==
  /\ base[A] = NoBase /\ (curClass = A => base[B] = A)
  /\ Len(nodes) + FoldSet(LAMBDA k, n : n + Missing(k), 0, DOMAIN frames) <= Largest
=============================================================================
