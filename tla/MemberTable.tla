---------------------------- MODULE MemberTable ----------------------------
(***************************************************************************)
(* The third pass of SymbolChecker::visitTopLevel over the members of the  *)
(* classes.  Classes are visited in source order; every field and method   *)
(* is looked up before it is declared, first in the class's own scope,     *)
(* then along its bases (BaseChecker), then among the classes, and what is *)
(* found decides whether it may be declared.  A scope only knows the       *)
(* members declared so far, so a base written later is still empty.  At    *)
(* the end, checkMain looks for the program's entry point.                 *)
(*                                                                         *)
(* The hierarchy is a forest (ClassTable!AcceptedIsForest).  The members   *)
(* are chosen as the visitor comes to them; "source" remembers them all.   *)
(***************************************************************************)
EXTENDS Hierarchy, Sequences, Functions

CONSTANTS
  Member,       \* the identifiers that occur as names of members
  Main, main,   \* the names checkMain looks for
  IntType, VoidType,    \* built-in types
  Signatures,   \* the method types that occur, as written
  MaxMembers    \* bound on the number of members of a program

Type == Name \cup {IntType, VoidType}
Signature == [args : Seq(Type), ret : Type]

ASSUME MemberTableAssumption ==
  /\ IsFiniteSet(Name)
  /\ IntType \notin Name /\ VoidType \notin Name /\ IntType # VoidType
  /\ Signatures \subseteq Signature
  /\ MaxMembers \in Nat

(* A member as written.  Fields are of type int or void, and sig only      *)
(* tells these apart: no rule looks at the type of a field otherwise.      *)
Decl == [kind : {"var", "method"}, static : BOOLEAN, sig : Signature]

VARIABLES
  base,     \* BaseChecker::bases
  order,    \* the classes by source position
  phase,    \* whether the pass goes on, and how it ended
  at,       \* the class visitChildren has reached
  symbols,  \* ClassScope::symbols of each class
  errors,   \* the errors reported so far
  source    \* the members of the program, in source order

vars == <<base, order, phase, at, symbols, errors, source>>

ErrorKinds ==
  {"OVERRIDE_VAR", "CONFLICT_DECLAR", "VOID_IDENTIFIER", "OVERRIDE_METHOD", "NO_LEGAL_MAIN"}

Init ==
  /\ base \in BaseMap /\ Acyclic(base)
  /\ order \in SourceOrders
  /\ phase = "CHECK_MEMBER"
  /\ at = 1
  /\ symbols = [c \in Name |-> <<>>]
  /\ errors = {}
  /\ source = <<>>

-----------------------------------------------------------------------------
(* ClassScope::lookup without the last step, for the classes themselves:   *)
(* the nearest class that has the member by now.                           *)
Declares(c, n) == n \in DOMAIN symbols[c]
Inherited(c, n) == \E a \in Name : Declares(a, n) /\ IsSubclass(base, c, a)
Parent(c, n) ==
  CHOOSE d \in Name :
    /\ Declares(d, n) /\ IsSubclass(base, c, d)
    /\ \A a \in Name : Declares(a, n) /\ IsSubclass(base, c, a) => IsSubclass(base, d, a)
Lookup(c, n) == symbols[Parent(c, n)][n]

(* Type::compare is not DIFFTYPE.                                          *)
IsCompat(t, u) == t = u \/ (t \in Name /\ u \in Ancestors(base, t))

(* MethodType::compare: arguments the other way round than results.        *)
Overrides(new, pre) ==
  /\ DOMAIN new.args = DOMAIN pre.args
  /\ \A i \in DOMAIN new.args : IsCompat(pre.args[i], new.args[i])
  /\ IsCompat(new.ret, pre.ret)

(* getMethodType: void parameters are reported and left out of the type.   *)
HasVoid(sig) == \E i \in DOMAIN sig.args : sig.args[i] = VoidType
NonVoid(args) ==
  LET upTo[i \in 0..Len(args)] ==
        IF i = 0 THEN <<>>
        ELSE IF args[i] = VoidType THEN upTo[i - 1]
        ELSE Append(upTo[i - 1], args[i])
  IN upTo[Len(args)]
WithoutVoid(sig) == IF HasVoid(sig) THEN [sig EXCEPT !.args = NonVoid(@)] ELSE sig

cls == order[at]
Visiting == phase = "CHECK_MEMBER" /\ at \in DOMAIN order /\ Len(source) < MaxMembers

Err(kind, n) == [kind |-> kind, cls |-> cls, name |-> n]

Write(n, decl) ==
  source' = Append(source, [cls |-> cls, name |-> n, decl |-> decl])

Declare(n, decl) ==
  symbols' = [symbols EXCEPT ![cls] =
    [x \in DOMAIN @ \cup {n} |-> IF x = n THEN decl ELSE @[x]]]

Field(type) == [kind |-> "var", static |-> FALSE, sig |-> [args |-> <<>>, ret |-> type]]

-----------------------------------------------------------------------------
(* ClassScope::declareVar: a field of a base cannot be overridden.         *)
OverrideVar(n, type) ==
  /\ Visiting
  /\ Inherited(cls, n) /\ ~Declares(cls, n) /\ Lookup(cls, n).kind = "var"
  /\ Write(n, Field(type))
  /\ errors' = errors \cup {Err("OVERRIDE_VAR", n)}
  /\ UNCHANGED <<base, order, phase, at, symbols>>

(* A member of this class, a method of a base, or a class.                 *)
ConflictVar(n, type) ==
  /\ Visiting
  /\ \/ Inherited(cls, n) /\ (Declares(cls, n) \/ Lookup(cls, n).kind # "var")
     \/ ~Inherited(cls, n) /\ n \in Name
  /\ Write(n, Field(type))
  /\ errors' = errors \cup {Err("CONFLICT_DECLAR", n)}
  /\ UNCHANGED <<base, order, phase, at, symbols>>

VoidVar(n) ==
  /\ Visiting
  /\ ~Inherited(cls, n) /\ n \notin Name
  /\ Write(n, Field(VoidType))
  /\ errors' = errors \cup {Err("VOID_IDENTIFIER", n)}
  /\ UNCHANGED <<base, order, phase, at, symbols>>

(* Mutant: only the members of the class itself are looked at.             *)
AddVarOwnOnly(n) ==
  /\ Visiting
  /\ ~Declares(cls, n) /\ n \notin Name
  /\ Write(n, Field(IntType))
  /\ Declare(n, Field(IntType))
  /\ UNCHANGED <<base, order, phase, at, errors>>

AddVar(n) ==
  /\ Visiting
  /\ ~Inherited(cls, n) /\ n \notin Name
  /\ Write(n, Field(IntType))
  /\ Declare(n, Field(IntType))
  /\ UNCHANGED <<base, order, phase, at, errors>>

-----------------------------------------------------------------------------
Method(static, sig) == [kind |-> "method", static |-> static, sig |-> sig]

(* Errors of getMethodType, before the lookup of the name.                 *)
ParameterErrors(n, sig) == IF HasVoid(sig) THEN {Err("VOID_IDENTIFIER", n)} ELSE {}

(* isMethodConflicted: not a method, of this class, or static.             *)
ConflictMethod(n, static, sig) ==
  /\ Visiting
  /\ \/ Inherited(cls, n) /\ (Lookup(cls, n).kind # "method" \/ Declares(cls, n) \/ Lookup(cls, n).static)
     \/ ~Inherited(cls, n) /\ n \in Name
  /\ Write(n, Method(static, sig))
  /\ errors' = errors \cup ParameterErrors(n, sig) \cup {Err("CONFLICT_DECLAR", n)}
  /\ UNCHANGED <<base, order, phase, at, symbols>>

Overridable(n) ==
  /\ ~Declares(cls, n) /\ Inherited(cls, n)
  /\ Lookup(cls, n).kind = "method" /\ ~Lookup(cls, n).static

(* Mutant: an overriding method must have the very type of the other.      *)
OverrideMismatchExact(n, static, sig) ==
  /\ Visiting
  /\ Overridable(n) /\ WithoutVoid(sig) # Lookup(cls, n).sig
  /\ Write(n, Method(static, sig))
  /\ errors' = errors \cup ParameterErrors(n, sig) \cup {Err("OVERRIDE_METHOD", n)}
  /\ UNCHANGED <<base, order, phase, at, symbols>>

(* isMethodOverrided fails.                                                *)
OverrideMismatch(n, static, sig) ==
  /\ Visiting
  /\ Overridable(n) /\ ~Overrides(WithoutVoid(sig), Lookup(cls, n).sig)
  /\ Write(n, Method(static, sig))
  /\ errors' = errors \cup ParameterErrors(n, sig) \cup {Err("OVERRIDE_METHOD", n)}
  /\ UNCHANGED <<base, order, phase, at, symbols>>

(* Mutant: the parameters of an overriding method must be subtypes too.    *)
AddMethodCovariant(n, static, sig) ==
  /\ Visiting
  /\ \/ ~Inherited(cls, n) /\ n \notin Name
     \/ /\ Overridable(n)
        /\ Len(WithoutVoid(sig).args) = Len(Lookup(cls, n).sig.args)
        /\ \A i \in DOMAIN WithoutVoid(sig).args :
             IsCompat(WithoutVoid(sig).args[i], Lookup(cls, n).sig.args[i])
        /\ IsCompat(sig.ret, Lookup(cls, n).sig.ret)
  /\ Write(n, Method(static, sig))
  /\ Declare(n, Method(static, WithoutVoid(sig)))
  /\ errors' = errors \cup ParameterErrors(n, sig)
  /\ UNCHANGED <<base, order, phase, at>>

AddMethod(n, static, sig) ==
  /\ Visiting
  /\ \/ ~Inherited(cls, n) /\ n \notin Name
     \/ Overridable(n) /\ Overrides(WithoutVoid(sig), Lookup(cls, n).sig)
  /\ Write(n, Method(static, sig))
  /\ Declare(n, Method(static, WithoutVoid(sig)))
  /\ errors' = errors \cup ParameterErrors(n, sig)
  /\ UNCHANGED <<base, order, phase, at>>

EndClass ==
  /\ phase = "CHECK_MEMBER" /\ at \in DOMAIN order
  /\ at' = at + 1
  /\ UNCHANGED <<base, order, phase, symbols, errors, source>>

-----------------------------------------------------------------------------
(* checkMain: the lookup of main in Main goes along Main's bases.          *)
LegalMain ==
  /\ Main \in Name
  /\ Inherited(Main, main)
  /\ Lookup(Main, main).kind = "method" /\ Lookup(Main, main).static
  /\ Lookup(Main, main).sig = [args |-> <<>>, ret |-> VoidType]

(* Mutant: errors of the members do not fail the pass.                     *)
FinishOnMain ==
  /\ phase = "CHECK_MEMBER" /\ at \notin DOMAIN order
  /\ phase' = IF LegalMain THEN "ACCEPTED" ELSE "REJECTED"
  /\ UNCHANGED <<base, order, at, symbols, errors, source>>

Finish ==
  /\ phase = "CHECK_MEMBER" /\ at \notin DOMAIN order
  /\ phase' = IF errors = {} /\ LegalMain THEN "ACCEPTED" ELSE "REJECTED"
  /\ errors' = IF LegalMain THEN errors
               ELSE errors \cup {[kind |-> "NO_LEGAL_MAIN", cls |-> Main, name |-> main]}
  /\ UNCHANGED <<base, order, at, symbols, source>>

Next ==
  \/ \E n \in Member, type \in {IntType, VoidType} : OverrideVar(n, type) \/ ConflictVar(n, type)
  \/ \E n \in Member : VoidVar(n) \/ AddVar(n)
  \/ \E n \in Member, static \in BOOLEAN, sig \in Signatures :
       \/ ConflictMethod(n, static, sig)
       \/ OverrideMismatch(n, static, sig)
       \/ AddMethod(n, static, sig)
  \/ EndClass
  \/ Finish

Spec == Init /\ [][Next]_vars

-----------------------------------------------------------------------------
(* A member of a class beside one of the same name in an ancestor.  Only   *)
(* the inherited one must not be static: the code lets a static method     *)
(* take the place of an instance method.                                   *)
Sound(own, inherited) ==
  /\ own.kind = "method" /\ inherited.kind = "method"
  /\ ~inherited.static
  /\ Overrides(own.sig, inherited.sig)

(* What the rules ask of a member by itself.                               *)
RightAlone(e) ==
  /\ e.name \notin Name
  /\ ~HasVoid(e.decl.sig)
  /\ e.decl.kind = "var" => e.decl.sig.ret # VoidType

(* The language's rules for the members of a program, as a whole.          *)
LegalMembers ==
  /\ \A i \in DOMAIN source : RightAlone(source[i])
  /\ \A i, j \in DOMAIN source :
       source[i].name = source[j].name /\ i # j =>
         /\ source[i].cls # source[j].cls
         /\ source[j].cls \in Ancestors(base, source[i].cls) =>
              Sound(source[i].decl, source[j].decl)

IsMain(c, m) == m = [cls |-> c, name |-> main,
                     decl |-> Method(TRUE, [args |-> <<>>, ret |-> VoidType])]

-----------------------------------------------------------------------------
(* Types, and that only members as they are written are in the scopes.     *)
TypeOK ==
  /\ base \in BaseMap /\ Acyclic(base)
  /\ order \in SourceOrders
  /\ phase \in {"CHECK_MEMBER", "ACCEPTED", "REJECTED"}
  /\ at \in Nat
  /\ \A c \in Name : \A n \in DOMAIN symbols[c] : n \in Member \ Name /\ symbols[c][n] \in Decl
  /\ \A e \in errors : e.kind \in ErrorKinds
  /\ \A i \in DOMAIN source : source[i].cls \in Name /\ source[i].decl \in Decl
  /\ phase = "ACCEPTED" => errors = {}

(* c's members are compared with those of a, an ancestor such that no class*)
(* on the way down to c is written before it: with them, or with those of  *)
(* a class in between that were.                                           *)
Sees(c, a) ==
  /\ a \in Ancestors(base, c)
  /\ ~\E i, j \in DOMAIN order :
        /\ i < j /\ order[j] = a
        /\ a \in Ancestors(base, order[i]) /\ IsSubclass(base, c, order[i])

(* What lookups, vtables and calls through a base rely on: a name that is  *)
(* declared in a class and in any ancestor it sees, near or far, is an     *)
(* instance method of the ancestor and a method of a compatible type in    *)
(* the class, wherever in the text the other classes are.                  *)
OverridesAreSound ==
  \A c, a \in Name : \A n \in DOMAIN symbols[c] \cap DOMAIN symbols[a] :
    Sees(c, a) => Sound(symbols[c][n], symbols[a][n])

(* No program that keeps the rules is turned down, in any order of its     *)
(* classes.                                                                *)
LegalIsAccepted ==
  phase = "REJECTED" /\ LegalMembers => \A m \in Range(source) : ~IsMain(Main, m)

(* What is accepted keeps the rules, but that a member is held against     *)
(* those of the ancestors that its class sees: one error anywhere is       *)
(* enough, also when the member it is about is not declared and later      *)
(* members are checked as if it were not there.  And there is a static     *)
(* void main() in Main, or at least in a class that Main extends.          *)
AcceptedIsLegal ==
  phase = "ACCEPTED" =>
    /\ \A i \in DOMAIN source : RightAlone(source[i])
    /\ \A i, j \in DOMAIN source :
         source[i].name = source[j].name /\ i # j =>
           /\ source[i].cls # source[j].cls
           /\ Sees(source[i].cls, source[j].cls) => Sound(source[i].decl, source[j].decl)
    /\ \E c \in Name, m \in Range(source) : IsSubclass(base, Main, c) /\ IsMain(c, m)
=============================================================================
