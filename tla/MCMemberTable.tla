--------------------------- MODULE MCMemberTable ---------------------------
(* Small instances of MemberTable, of two sorts in one run.                *)
EXTENDS MemberTable

CONSTANTS A, B, x

(* void f(), and void f(t) for the classes t that are not Main: overriding *)
(* methods that are right and wrong in their parameter.                    *)
Action == [args |-> <<>>, ret |-> VoidType]
ParameterSignatures == {Action} \cup {[args |-> <<t>>, ret |-> VoidType] : t \in Name \ {Main}}

(* void f(), t f() for two classes t: right and wrong in the result; and   *)
(* void f(void), whose parameter is reported and dropped.                  *)
ResultSignatures ==
  {Action, [args |-> <<VoidType>>, ret |-> VoidType]} \cup {[args |-> <<>>, ret |-> t] : t \in {Main, A}}

AllSignatures == ParameterSignatures \cup ResultSignatures

(* All members are methods named main, one at most static: overriding      *)
(* along one and two bases.  A and B are interchangeable.                  *)
ThreeClasses ==
  /\ \E i, j \in DOMAIN order : i < j /\ order[i] = A /\ order[j] = B
  /\ \A i \in DOMAIN source :
       /\ source[i].name = main
       /\ source[i].decl.kind = "method" /\ source[i].decl.sig \in ParameterSignatures
  /\ \A i, j \in DOMAIN source : source[i].decl.static /\ source[j].decl.static => i = j

(* Members of any name, also that of a class, static or with another type  *)
(* only those named main; B takes no part.                                 *)
TwoClasses ==
  /\ base[B] = NoBase /\ \A c \in Name : base[c] # B
  /\ order[Cardinality(Name)] = B
  /\ \A i \in DOMAIN source :
       /\ source[i].cls # B
       /\ source[i].decl.kind = "method" =>
            /\ source[i].decl.sig \in ResultSignatures
            /\ source[i].decl.static \/ source[i].decl.sig # Action => source[i].name = main

Small == ThreeClasses \/ TwoClasses
=============================================================================
