------------------------- MODULE MemberTableProofs -------------------------
(***************************************************************************)
(* For every forest of classes, every source order and any number of       *)
(* members: overriding is sound when bases come first, and what the member *)
(* pass accepts is what the language's rules allow.                        *)
(***************************************************************************)
EXTENDS MemberTable, HierarchyProofs, FiniteSetTheorems, SequenceTheorems

(* What the lookup along the bases finds: the nearest class's member.      *)
LEMMA ParentNearest ==
  ASSUME base \in BaseMap, NEW c \in Name, NEW n, Inherited(c, n)
  PROVE  /\ Parent(c, n) \in Name
         /\ Declares(Parent(c, n), n) /\ IsSubclass(base, c, Parent(c, n))
         /\ \A a \in Name : Declares(a, n) /\ IsSubclass(base, c, a) =>
                              IsSubclass(base, Parent(c, n), a)
<1>. DEFINE D == {a \in Name : Declares(a, n)}
            Is(d) == /\ Declares(d, n) /\ IsSubclass(base, c, d)
                     /\ \A a \in Name : Declares(a, n) /\ IsSubclass(base, c, a) => IsSubclass(base, d, a)
<1>1. \E e \in D : IsSubclass(base, c, e)
  BY DEF Inherited
<1>2. \E d \in Name : Is(d)
  <2>1. \E d \in D : /\ IsSubclass(base, c, d)
                     /\ \A a \in D : IsSubclass(base, c, a) => IsSubclass(base, d, a)
    <3>. D \in SUBSET Name
      OBVIOUS
    <3>. HIDE DEF D
    <3>. QED BY <1>1, NearestExists
  <2>. QED BY <2>1
<1>3. Parent(c, n) = CHOOSE d \in Name : Is(d)
  BY DEF Parent
<1>. HIDE DEF Is
<1>4. Parent(c, n) \in Name /\ Is(Parent(c, n))
  BY <1>2, <1>3
<1>. QED BY <1>4 DEF Is

-----------------------------------------------------------------------------
(* The invariant.  A scope holds what was written, less void parameters,   *)
(* and nothing yet of the classes to come.  Without an error, all that was *)
(* written is right by itself, declared, and not twice in a class.         *)
Entry == [cls : Name, name : Member, decl : Decl]

WrittenAs(decl) ==
  [kind |-> decl.kind, static |-> decl.static, sig |-> WithoutVoid(decl.sig)]

FromSource(c, n) ==
  \E i \in DOMAIN source :
    /\ source[i].cls = c /\ source[i].name = n
    /\ symbols[c][n] = WrittenAs(source[i].decl)

Entered(e) == Declares(e.cls, e.name) /\ symbols[e.cls][e.name] = e.decl

Shapes ==
  /\ base \in BaseMap /\ Acyclic(base)
  /\ order \in SourceOrders
  /\ phase \in {"CHECK_MEMBER", "ACCEPTED", "REJECTED"}
  /\ at \in Nat \ {0}
  /\ source \in Seq(Entry)
  /\ DOMAIN symbols = Name

Scopes ==
  /\ \A c \in Name : \A n \in DOMAIN symbols[c] : FromSource(c, n)
  /\ \A i \in DOMAIN order : i > at => DOMAIN symbols[order[i]] = {}

Clean ==
  errors = {} =>
    /\ \A i \in DOMAIN source : RightAlone(source[i]) /\ Entered(source[i])
    /\ \A i, j \in DOMAIN source :
         source[i].cls = source[j].cls /\ source[i].name = source[j].name => i = j

NoMain == \A i \in DOMAIN source : ~IsMain(Main, source[i])

Verdict ==
  /\ LegalMembers => (phase = "CHECK_MEMBER" => errors = {}) /\ (phase = "REJECTED" => NoMain)
  /\ phase = "ACCEPTED" => errors = {} /\ LegalMain

MemberInv == Shapes /\ Scopes /\ OverridesAreSound /\ Clean /\ Verdict

LEMMA OrderIsRow ==
  ASSUME order \in SourceOrders
  PROVE  /\ \E n \in Nat : DOMAIN order = 1..n
         /\ \A i \in DOMAIN order : order[i] \in Name
         /\ \A i, j \in DOMAIN order : order[i] = order[j] => i = j
         /\ \A c \in Name : \E i \in DOMAIN order : order[i] = c
<1>1. Cardinality(Name) \in Nat
  BY MemberTableAssumption, FS_CardinalityType
<1>2. PICK n \in 0..Cardinality(Name) :
        order \in [1..n -> Name] /\ \A i, j \in 1..n : order[i] = order[j] => i = j
  BY DEF SourceOrders, Rows
<1>. QED BY <1>1, <1>2 DEF SourceOrders

LEMMA CompatTransitive ==
  ASSUME base \in BaseMap, NEW t, NEW u, NEW v, IsCompat(t, u), IsCompat(u, v)
  PROVE  IsCompat(t, v)
<1>. QED BY AncestorOfAncestor DEF IsCompat

LEMMA OverridesTransitive ==
  ASSUME base \in BaseMap, NEW f, NEW g, NEW h, Overrides(f, g), Overrides(g, h)
  PROVE  Overrides(f, h)
  BY CompatTransitive DEF Overrides

LEMMA ClassAtHand == ASSUME Shapes, Visiting PROVE cls \in Name /\ cls = order[at]
  BY OrderIsRow DEF Shapes, Visiting, cls

(* What a further member does to the text.                                 *)
LEMMA SourceGrows ==
  ASSUME Shapes, Visiting, NEW n \in Member, NEW decl \in Decl, Write(n, decl)
  PROVE  /\ source' \in Seq(Entry)
         /\ DOMAIN source = 1..Len(source) /\ DOMAIN source' = 1..(Len(source) + 1)
         /\ Len(source) \in Nat
         /\ \A i \in 1..Len(source) : source'[i] = source[i]
         /\ source'[Len(source) + 1] = [cls |-> cls, name |-> n, decl |-> decl]
<1>1. [cls |-> cls, name |-> n, decl |-> decl] \in Entry
  BY ClassAtHand DEF Entry
<1>. QED BY <1>1 DEF Write, Shapes

LEMMA LegalBefore ==
  ASSUME Shapes, Visiting, NEW n \in Member, NEW decl \in Decl, Write(n, decl),
         base' = base, LegalMembers'
  PROVE  LegalMembers
<1>1. \A i \in DOMAIN source : i \in DOMAIN source' /\ source'[i] = source[i]
  <2>1. /\ DOMAIN source = 1..Len(source) /\ DOMAIN source' = 1..(Len(source) + 1)
        /\ Len(source) \in Nat
        /\ \A i \in 1..Len(source) : source'[i] = source[i]
    BY SourceGrows
  <2>. QED BY <2>1
<1>2. \A own, inherited : Sound(own, inherited)' <=> Sound(own, inherited)
  BY DEF Sound, Overrides, IsCompat
<1>3. ASSUME NEW i \in DOMAIN source
      PROVE  RightAlone(source[i])
  BY <1>1, <1>3 DEF LegalMembers, RightAlone
<1>4. ASSUME NEW i \in DOMAIN source, NEW j \in DOMAIN source,
             source[i].name = source[j].name, i # j
      PROVE  /\ source[i].cls # source[j].cls
             /\ source[j].cls \in Ancestors(base, source[i].cls) =>
                  Sound(source[i].decl, source[j].decl)
  BY <1>1, <1>2, <1>4 DEF LegalMembers
<1>. QED BY <1>3, <1>4 DEF LegalMembers

(* What the rules say of a further member and one declared before.         *)
LEMMA LegalWithEarlier ==
  ASSUME MemberInv, Visiting, NEW n \in Member, NEW decl \in Decl, Write(n, decl),
         base' = base, LegalMembers', NEW c \in Name, Declares(c, n), IsSubclass(base, cls, c)
  PROVE  c # cls /\ Sound(decl, symbols[c][n])
<1>1. PICK i \in DOMAIN source :
        source[i].cls = c /\ source[i].name = n /\ symbols[c][n] = WrittenAs(source[i].decl)
  BY DEF MemberInv, Scopes, FromSource, Declares
<1>. DEFINE k == Len(source) + 1
<1>2. /\ i \in DOMAIN source' /\ k \in DOMAIN source' /\ i # k
      /\ source'[i] = source[i]
      /\ source'[k] = [cls |-> cls, name |-> n, decl |-> decl]
  <2>1. /\ DOMAIN source = 1..Len(source) /\ DOMAIN source' = 1..(Len(source) + 1)
        /\ Len(source) \in Nat
        /\ \A j \in 1..Len(source) : source'[j] = source[j]
        /\ source'[k] = [cls |-> cls, name |-> n, decl |-> decl]
    BY SourceGrows DEF MemberInv
  <2>. QED BY <2>1
<1>. HIDE DEF k
<1>3. c # cls
  BY <1>1, <1>2 DEF LegalMembers
<1>4. Sound(decl, source[i].decl)'
  BY <1>1, <1>2, <1>3 DEF LegalMembers, IsSubclass
<1>5. ~HasVoid(source[i].decl.sig)
  BY <1>2 DEF LegalMembers, RightAlone
<1>6. symbols[c][n].kind = source[i].decl.kind /\ symbols[c][n].static = source[i].decl.static
      /\ symbols[c][n].sig = source[i].decl.sig
  BY <1>1, <1>5 DEF WrittenAs, WithoutVoid
<1>7. Overrides(decl.sig, (source[i].decl.sig))' <=> Overrides(decl.sig, source[i].decl.sig)
  BY <1>2 DEF Overrides, IsCompat
<1>8. Sound(decl, source[i].decl)
  BY <1>2, <1>4, <1>7 DEF Sound
<1>. QED BY <1>3, <1>6, <1>8 DEF Sound

LEMMA LegalAlone ==
  ASSUME Shapes, Visiting, NEW n \in Member, NEW decl \in Decl, Write(n, decl), LegalMembers'
  PROVE  n \notin Name /\ ~HasVoid(decl.sig) /\ (decl.kind = "var" => decl.sig.ret # VoidType)
<1>1. Len(source) + 1 \in DOMAIN source'
      /\ source'[Len(source) + 1] = [cls |-> cls, name |-> n, decl |-> decl]
  <2>1. /\ DOMAIN source' = 1..(Len(source) + 1) /\ Len(source) \in Nat
        /\ source'[Len(source) + 1] = [cls |-> cls, name |-> n, decl |-> decl]
    BY SourceGrows
  <2>. QED BY <2>1
<1>. DEFINE e == source'[Len(source) + 1]
<1>2. e.name = n /\ e.decl = decl
  BY <1>1
<1>3. e.name \notin Name /\ ~HasVoid(e.decl.sig) /\ (e.decl.kind = "var" => e.decl.sig.ret # VoidType)
  BY <1>1 DEF LegalMembers, RightAlone
<1>. QED BY <1>2, <1>3

LEMMA DeclShapes ==
  /\ \A type \in {IntType, VoidType} :
       /\ Field(type) \in Decl /\ Field(type).kind = "var" /\ Field(type).sig.ret = type
       /\ ~HasVoid(Field(type).sig) /\ WrittenAs(Field(type)) = Field(type)
  /\ \A static \in BOOLEAN, sig \in Signatures :
       /\ Method(static, sig) \in Decl
       /\ Method(static, sig).kind = "method" /\ Method(static, sig).static = static
       /\ Method(static, sig).sig = sig
       /\ WrittenAs(Method(static, sig)) = Method(static, WithoutVoid(sig))
<1>1. ASSUME NEW type \in {IntType, VoidType}
      PROVE  /\ Field(type) \in Decl /\ Field(type).kind = "var" /\ Field(type).sig.ret = type
             /\ ~HasVoid(Field(type).sig) /\ WrittenAs(Field(type)) = Field(type)
  <2>1. DOMAIN <<>> = {} /\ <<>> \in Seq(Type)
    OBVIOUS
  <2>2. Field(type) = [kind |-> "var", static |-> FALSE, sig |-> [args |-> <<>>, ret |-> type]]
    BY DEF Field
  <2>3. ~HasVoid(Field(type).sig)
    BY <2>1, <2>2 DEF HasVoid
  <2>. QED BY <2>1, <2>2, <2>3 DEF Decl, Signature, Type, WrittenAs, WithoutVoid
<1>2. ASSUME NEW static \in BOOLEAN, NEW sig \in Signatures
      PROVE  /\ Method(static, sig) \in Decl
             /\ Method(static, sig).kind = "method" /\ Method(static, sig).static = static
             /\ Method(static, sig).sig = sig
             /\ WrittenAs(Method(static, sig)) = Method(static, WithoutVoid(sig))
  <2>1. sig \in Signature
    BY MemberTableAssumption
  <2>. QED BY <2>1 DEF Method, Decl, WrittenAs
<1>. QED BY <1>1, <1>2

(* A member that is reported and not declared.                             *)
LEMMA ReportStep ==
  ASSUME MemberInv, Visiting, NEW n \in Member, NEW decl \in Decl, Write(n, decl),
         errors' # {}, UNCHANGED <<base, order, phase, at, symbols>>, ~LegalMembers'
  PROVE  MemberInv'
<1>1. /\ source' \in Seq(Entry)
      /\ \A i \in DOMAIN source : i \in DOMAIN source' /\ source'[i] = source[i]
  <2>1. /\ DOMAIN source = 1..Len(source) /\ DOMAIN source' = 1..(Len(source) + 1)
        /\ Len(source) \in Nat /\ source' \in Seq(Entry)
        /\ \A i \in 1..Len(source) : source'[i] = source[i]
    BY SourceGrows DEF MemberInv
  <2>. QED BY <2>1
<1>2. Shapes'
  BY <1>1 DEF MemberInv, Shapes
<1>3. Scopes'
  BY <1>1 DEF MemberInv, Scopes, FromSource
<1>4. OverridesAreSound'
  BY DEF MemberInv, OverridesAreSound, Sees, Sound, Overrides, IsCompat
<1>5. Clean' /\ Verdict'
  BY DEF Clean, Verdict, Visiting
<1>. QED BY <1>2, <1>3, <1>4, <1>5 DEF MemberInv

(* What is found along the bases was declared by then.                     *)
LEMMA Found ==
  ASSUME MemberInv, Visiting, NEW n, Inherited(cls, n)
  PROVE  \E c \in Name : Declares(c, n) /\ IsSubclass(base, cls, c) /\ Lookup(cls, n) = symbols[c][n]
                         /\ c = Parent(cls, n)
  BY ClassAtHand, ParentNearest DEF MemberInv, Shapes, Lookup

LEMMA OverrideVarInv ==
  ASSUME MemberInv, NEW n \in Member, NEW type \in {IntType, VoidType}, OverrideVar(n, type)
  PROVE  MemberInv'
<1>1. Field(type) \in Decl /\ Field(type).kind = "var"
  BY DeclShapes
<1>2. ~LegalMembers'
  <2>. SUFFICES ASSUME LegalMembers' PROVE FALSE
    OBVIOUS
  <2>1. PICK c \in Name : Declares(c, n) /\ IsSubclass(base, cls, c)
    BY Found DEF OverrideVar
  <2>2. Sound(Field(type), symbols[c][n])
    BY <1>1, <2>1, LegalWithEarlier DEF OverrideVar
  <2>. QED BY <1>1, <2>2 DEF Sound
<1>. QED BY <1>1, <1>2, ReportStep DEF OverrideVar

LEMMA ConflictVarInv ==
  ASSUME MemberInv, NEW n \in Member, NEW type \in {IntType, VoidType}, ConflictVar(n, type)
  PROVE  MemberInv'
<1>1. Field(type) \in Decl /\ Field(type).kind = "var"
  BY DeclShapes
<1>2. ~LegalMembers'
  <2>. SUFFICES ASSUME LegalMembers' PROVE FALSE
    OBVIOUS
  <2>1. Inherited(cls, n)
    BY <1>1, LegalAlone DEF ConflictVar, MemberInv
  <2>2. PICK c \in Name : Declares(c, n) /\ IsSubclass(base, cls, c)
    BY <2>1, Found DEF ConflictVar
  <2>3. Sound(Field(type), symbols[c][n])
    BY <1>1, <2>2, LegalWithEarlier DEF ConflictVar
  <2>. QED BY <1>1, <2>3 DEF Sound
<1>. QED BY <1>1, <1>2, ReportStep DEF ConflictVar

LEMMA VoidVarInv == ASSUME MemberInv, NEW n \in Member, VoidVar(n) PROVE MemberInv'
<1>1. Field(VoidType) \in Decl /\ Field(VoidType).kind = "var" /\ Field(VoidType).sig.ret = VoidType
  BY DeclShapes
<1>2. ~LegalMembers'
  BY <1>1, LegalAlone DEF VoidVar, MemberInv
<1>. QED BY <1>1, <1>2, ReportStep DEF VoidVar

LEMMA ConflictMethodInv ==
  ASSUME MemberInv, NEW n \in Member, NEW static \in BOOLEAN, NEW sig \in Signatures,
         ConflictMethod(n, static, sig)
  PROVE  MemberInv'
<1>. DEFINE decl == Method(static, sig)
<1>1. decl \in Decl
  BY DeclShapes
<1>2. ~LegalMembers'
  <2>. SUFFICES ASSUME LegalMembers' PROVE FALSE
    OBVIOUS
  <2>1. n \notin Name
    BY <1>1, LegalAlone DEF ConflictMethod, MemberInv
  <2>2. Inherited(cls, n)
    BY <2>1 DEF ConflictMethod
  <2>3. PICK c \in Name : Declares(c, n) /\ IsSubclass(base, cls, c) /\ Lookup(cls, n) = symbols[c][n]
    BY <2>2, Found DEF ConflictMethod
  <2>4. Sound(decl, symbols[c][n])
    BY <1>1, <2>3, LegalWithEarlier DEF ConflictMethod
  <2>5. Declares(cls, n)
    BY <2>1, <2>3, <2>4 DEF ConflictMethod, Sound
  <2>6. cls \in Name /\ IsSubclass(base, cls, cls)
    BY ClassAtHand DEF ConflictMethod, MemberInv, IsSubclass
  <2>. QED BY <1>1, <2>5, <2>6, LegalWithEarlier DEF ConflictMethod
<1>. QED BY <1>1, <1>2, ReportStep DEF ConflictMethod

LEMMA OverrideMismatchInv ==
  ASSUME MemberInv, NEW n \in Member, NEW static \in BOOLEAN, NEW sig \in Signatures,
         OverrideMismatch(n, static, sig)
  PROVE  MemberInv'
<1>. DEFINE decl == Method(static, sig)
<1>1. decl \in Decl /\ decl.sig = sig
  BY DeclShapes
<1>2. ~LegalMembers'
  <2>. SUFFICES ASSUME LegalMembers' PROVE FALSE
    OBVIOUS
  <2>1. WithoutVoid(sig) = sig
    BY <1>1, LegalAlone DEF OverrideMismatch, MemberInv, WithoutVoid
  <2>2. PICK c \in Name : Declares(c, n) /\ IsSubclass(base, cls, c) /\ Lookup(cls, n) = symbols[c][n]
    BY Found DEF OverrideMismatch, Overridable
  <2>3. Sound(decl, symbols[c][n])
    BY <1>1, <2>2, LegalWithEarlier DEF OverrideMismatch
  <2>. QED BY <1>1, <2>1, <2>2, <2>3 DEF OverrideMismatch, Sound
<1>. QED BY <1>1, <1>2, ReportStep DEF OverrideMismatch

-----------------------------------------------------------------------------
(* A member that is declared: why it may be, and what the scopes are then. *)
MayDeclare(n, decl) ==
  \/ ~Inherited(cls, n) /\ n \notin Name
  \/ /\ Overridable(n) /\ decl.kind = "method"
     /\ Overrides(WithoutVoid(decl.sig), Lookup(cls, n).sig)

Declaring(n, decl) ==
  /\ Visiting
  /\ MayDeclare(n, decl)
  /\ decl.kind = "var" => decl.sig.ret # VoidType
  /\ Write(n, decl)
  /\ Declare(n, WrittenAs(decl))
  /\ errors' = {} <=> errors = {} /\ ~HasVoid(decl.sig)
  /\ UNCHANGED <<base, order, phase, at>>

LEMMA DeclareScopes ==
  ASSUME Shapes, NEW n \in Member, NEW decl \in Decl, Declaring(n, decl)
  PROVE  /\ DOMAIN symbols' = Name
         /\ DOMAIN symbols'[cls] = DOMAIN symbols[cls] \cup {n}
         /\ symbols'[cls][n] = WrittenAs(decl)
         /\ \A x \in DOMAIN symbols[cls] : x # n => symbols'[cls][x] = symbols[cls][x]
         /\ \A c \in Name : c # cls => symbols'[c] = symbols[c]
<1>1. cls \in Name /\ DOMAIN symbols = Name
  BY ClassAtHand DEF Declaring, Shapes
<1>. DEFINE scope == [x \in DOMAIN symbols[cls] \cup {n} |-> IF x = n THEN WrittenAs(decl) ELSE symbols[cls][x]]
<1>2. symbols' = [symbols EXCEPT ![cls] = scope]
  BY <1>1 DEF Declaring, Declare
<1>3. DOMAIN symbols' = Name /\ symbols'[cls] = scope
      /\ \A c \in Name : c # cls => symbols'[c] = symbols[c]
  BY <1>1, <1>2
<1>. QED BY <1>3

LEMMA NotTwice ==
  ASSUME Shapes, NEW n, NEW decl, Declaring(n, decl) PROVE ~Declares(cls, n)
  BY ClassAtHand DEF Declaring, MayDeclare, Overridable, Inherited, IsSubclass

LEMMA DeclareSound ==
  ASSUME MemberInv, NEW n \in Member, NEW decl \in Decl, Declaring(n, decl)
  PROVE  OverridesAreSound'
<1>. USE DEF MemberInv
<1>1. SUFFICES ASSUME NEW c \in Name, NEW a \in Name,
                      NEW x \in DOMAIN symbols'[c] \cap DOMAIN symbols'[a],
                      Sees(c, a)
               PROVE  Sound(symbols'[c][x], symbols'[a][x])
  <2>1. base' = base /\ order' = order
    BY DEF Declaring
  <2>2. /\ \A own, inherited : Sound(own, inherited)' <=> Sound(own, inherited)
        /\ \A c, a : Sees(c, a)' <=> Sees(c, a)
    BY <2>1 DEF Sound, Overrides, IsCompat, Sees
  <2>3. OverridesAreSound' <=>
          \A c, a \in Name : \A x \in DOMAIN symbols'[c] \cap DOMAIN symbols'[a] :
            Sees(c, a) => Sound(symbols'[c][x], symbols'[a][x])
    BY <2>2 DEF OverridesAreSound
  <2>. QED BY <1>1, <2>3
<1>2. base \in BaseMap /\ order \in SourceOrders /\ Acyclic(base) /\ cls \in Name
  BY ClassAtHand DEF Shapes, Declaring
<1>3. c # a /\ a \in Ancestors(base, c)
  BY <1>1, <1>2, NotOwnAncestor DEF Sees
<1>4. CASE a = cls
  <2>1. PICK j \in DOMAIN order, i \in DOMAIN order : order[j] = cls /\ order[i] = c
    BY <1>2, OrderIsRow
  <2>2. j < i
    <3>1. ~(i < j)
      BY <1>1, <1>3, <1>4, <2>1 DEF Sees, IsSubclass
    <3>2. i # j /\ i \in Int /\ j \in Int
      BY <1>2, <1>3, <1>4, <2>1, OrderIsRow
    <3>. QED BY <3>1, <3>2
  <2>3. j = at
    BY <1>2, <2>1, OrderIsRow, ClassAtHand DEF Declaring, Visiting
  <2>4. DOMAIN symbols[c] = {}
    BY <2>1, <2>2, <2>3 DEF Scopes
  <2>. QED BY <1>3, <1>4, <2>4, DeclareScopes
<1>5. CASE a # cls /\ c # cls
  <2>1. symbols'[c] = symbols[c] /\ symbols'[a] = symbols[a]
    BY <1>5, DeclareScopes
  <2>. QED BY <1>1, <2>1 DEF OverridesAreSound
<1>6. CASE c = cls /\ x # n
  <2>1. /\ symbols'[a] = symbols[a] /\ x \in DOMAIN symbols[c]
        /\ symbols'[c][x] = symbols[c][x]
    BY <1>3, <1>6, DeclareScopes
  <2>. QED BY <1>1, <2>1 DEF OverridesAreSound
<1>7. CASE c = cls /\ x = n
  <2>1. /\ symbols'[a] = symbols[a] /\ Declares(a, n)
        /\ symbols'[c][x] = WrittenAs(decl)
    BY <1>3, <1>7, DeclareScopes DEF Declares
  <2>2. IsSubclass(base, cls, a)
    BY <1>3, <1>7 DEF IsSubclass
  <2>3. Inherited(cls, n)
    BY <2>1, <2>2 DEF Inherited
  <2>4. /\ Overridable(n) /\ decl.kind = "method"
        /\ Overrides(WithoutVoid(decl.sig), Lookup(cls, n).sig)
    BY <2>3 DEF Declaring, MayDeclare
  <2>. DEFINE d == Parent(cls, n)
  <2>5. d \in Name /\ Declares(d, n) /\ IsSubclass(base, d, a) /\ IsSubclass(base, cls, d)
    BY <1>2, <2>1, <2>2, <2>3, ParentNearest
  <2>6. Sound(WrittenAs(decl), symbols[d][n])
    BY <2>4 DEF Overridable, Lookup, Sound, WrittenAs
  <2>7. CASE d = a
    BY <1>7, <2>1, <2>6, <2>7
  <2>8. CASE d # a
    <3>0. Sees(d, a)
      <4>1. a \in Ancestors(base, d)
        BY <2>5, <2>8 DEF IsSubclass
      <4>2. \A i \in DOMAIN order : order[i] \in Name
        BY <1>2, OrderIsRow
      <4>3. ASSUME NEW e \in Name, IsSubclass(base, d, e) PROVE IsSubclass(base, cls, e)
        BY <1>2, <2>5, <4>3, SubclassTransitive
      <4>. QED BY <1>1, <1>7, <4>1, <4>2, <4>3 DEF Sees
    <3>1. Sound(symbols[d][n], symbols[a][n])
      BY <1>1, <2>1, <2>5, <3>0 DEF OverridesAreSound, Declares
    <3>2. Overrides(WrittenAs(decl).sig, symbols[a][n].sig)
      BY <1>2, <2>6, <3>1, OverridesTransitive DEF Sound
    <3>. QED BY <1>7, <2>1, <2>6, <3>1, <3>2 DEF Sound
  <2>. QED BY <2>7, <2>8
<1>. QED BY <1>4, <1>5, <1>6, <1>7

LEMMA EntryTypes ==
  ASSUME Shapes, NEW i \in DOMAIN source
  PROVE  source[i] \in Entry /\ source[i].cls \in Name /\ source[i].name \in Member
         /\ source[i].decl \in Decl
<1>1. source[i] \in Entry
  BY DEF Shapes
<1>. QED BY <1>1 DEF Entry

LEMMA CleanEntry ==
  ASSUME MemberInv, errors = {}, NEW i \in DOMAIN source
  PROVE  RightAlone(source[i]) /\ Entered(source[i])
  BY DEF MemberInv, Clean

LEMMA DeclareInv ==
  ASSUME MemberInv, NEW n \in Member, NEW decl \in Decl, Declaring(n, decl)
  PROVE  MemberInv'
<1>0. PICK k : k = Len(source) + 1
  OBVIOUS
<1>1. /\ source' \in Seq(Entry)
      /\ \A i \in DOMAIN source : i \in DOMAIN source' /\ source'[i] = source[i]
      /\ k \in DOMAIN source' /\ \A i \in DOMAIN source' : i \in DOMAIN source \/ i = k
      /\ source'[k] = [cls |-> cls, name |-> n, decl |-> decl]
  <2>1. /\ DOMAIN source = 1..Len(source) /\ DOMAIN source' = 1..(Len(source) + 1)
        /\ Len(source) \in Nat /\ source' \in Seq(Entry)
        /\ \A i \in 1..Len(source) : source'[i] = source[i]
        /\ source'[k] = [cls |-> cls, name |-> n, decl |-> decl]
    BY <1>0, SourceGrows DEF MemberInv, Declaring
  <2>. QED BY <1>0, <2>1
<1>2. Shapes'
  BY <1>1, DeclareScopes DEF MemberInv, Shapes, Declaring
<1>3. cls \in Name /\ cls = order[at]
  BY ClassAtHand DEF MemberInv, Declaring
<1>4. Scopes'
  <2>1. ASSUME NEW c \in Name, NEW x \in DOMAIN symbols'[c] PROVE FromSource(c, x)'
    <3>1. CASE c = cls /\ x = n
      BY <1>1, <3>1, DeclareScopes DEF MemberInv, FromSource
    <3>2. CASE ~(c = cls /\ x = n)
      <4>1. x \in DOMAIN symbols[c] /\ symbols'[c][x] = symbols[c][x]
        BY <2>1, <3>2, DeclareScopes DEF MemberInv
      <4>2. FromSource(c, x)
        BY <4>1 DEF MemberInv, Scopes
      <4>. QED BY <1>1, <4>1, <4>2 DEF FromSource
    <3>. QED BY <3>1, <3>2
  <2>2. ASSUME NEW i \in DOMAIN order, i > at PROVE DOMAIN symbols'[order[i]] = {}
    <3>1. order[i] # cls /\ order[i] \in Name
      BY <1>3, <2>2, OrderIsRow DEF MemberInv, Shapes, Declaring, Visiting
    <3>. QED BY <2>2, <3>1, DeclareScopes DEF MemberInv, Scopes
  <2>. QED BY <2>1, <2>2 DEF Scopes, Declaring
<1>5. OverridesAreSound'
  BY DeclareSound
<1>6. ~Declares(cls, n)
  BY NotTwice DEF MemberInv
<1>7. Clean'
  <2>. SUFFICES ASSUME errors' = {}
                PROVE  /\ \A i \in DOMAIN source' : RightAlone(source'[i]) /\ Entered(source[i])'
                       /\ \A i, j \in DOMAIN source' :
                            source'[i].cls = source'[j].cls /\ source'[i].name = source'[j].name => i = j
    BY DEF Clean, RightAlone
  <2>1. errors = {} /\ ~HasVoid(decl.sig)
    BY DEF Declaring
  <2>2. n \notin Name
    <3>1. CASE Inherited(cls, n)
      <4>1. PICK c \in Name : Declares(c, n)
        BY <3>1 DEF Inherited
      <4>2. PICK i \in DOMAIN source : source[i].name = n
        BY <4>1 DEF MemberInv, Scopes, FromSource, Declares
      <4>. QED BY <2>1, <4>2, CleanEntry DEF RightAlone
    <3>. QED BY <3>1 DEF Declaring, MayDeclare, Overridable
  <2>3. RightAlone(source'[k]) /\ Entered(source[k])'
    <3>1. WrittenAs(decl) = decl
      BY <2>1 DEF WrittenAs, WithoutVoid, Decl
    <3>2. n \in DOMAIN symbols'[cls] /\ symbols'[cls][n] = decl
      BY <3>1, DeclareScopes DEF MemberInv
    <3>3. source'[k].cls = cls /\ source'[k].name = n /\ source'[k].decl = decl
      BY <1>1
    <3>4. RightAlone(source'[k])
      BY <2>1, <2>2, <3>3 DEF RightAlone, Declaring
    <3>5. Entered(source[k])' <=>
            /\ source'[k].name \in DOMAIN symbols'[source'[k].cls]
            /\ symbols'[source'[k].cls][source'[k].name] = source'[k].decl
      BY DEF Entered, Declares
    <3>. QED BY <3>2, <3>3, <3>4, <3>5
  <2>4. ASSUME NEW i \in DOMAIN source
        PROVE  /\ RightAlone(source'[i]) /\ Entered(source[i])'
               /\ ~(source[i].cls = cls /\ source[i].name = n)
    <3>1. RightAlone(source[i]) /\ Entered(source[i]) /\ source[i].cls \in Name
      BY <2>1, CleanEntry, EntryTypes DEF MemberInv
    <3>2. ~(source[i].cls = cls /\ source[i].name = n)
      BY <1>6, <3>1 DEF Entered
    <3>3. Declares(source[i].cls, source[i].name)' /\
          symbols'[source[i].cls][source[i].name] = symbols[source[i].cls][source[i].name]
      BY <1>1, <3>1, <3>2, DeclareScopes DEF MemberInv, Entered, Declares
    <3>. QED BY <1>1, <3>1, <3>2, <3>3 DEF Entered, Declares
  <2>5. ASSUME NEW i \in DOMAIN source', NEW j \in DOMAIN source',
               source'[i].cls = source'[j].cls, source'[i].name = source'[j].name
        PROVE  i = j
    <3>1. source'[k].cls = cls /\ source'[k].name = n
      BY <1>1
    <3>2. CASE i \in DOMAIN source /\ j \in DOMAIN source
      BY <1>1, <2>1, <2>5, <3>2 DEF MemberInv, Clean
    <3>. QED BY <1>1, <2>4, <2>5, <3>1, <3>2
  <2>6. ASSUME NEW i \in DOMAIN source' PROVE RightAlone(source'[i]) /\ Entered(source[i])'
    BY <1>1, <2>3, <2>4
  <2>. QED BY <2>5, <2>6
<1>8. Verdict'
  <2>1. phase' = "CHECK_MEMBER"
    BY DEF Declaring, Visiting
  <2>2. ASSUME LegalMembers' PROVE errors' = {}
    BY <2>2, LegalBefore, LegalAlone DEF MemberInv, Verdict, Declaring, Visiting
  <2>. QED BY <2>1, <2>2 DEF Verdict
<1>. QED BY <1>2, <1>4, <1>5, <1>7, <1>8 DEF MemberInv

LEMMA AddVarInv == ASSUME MemberInv, NEW n \in Member, AddVar(n) PROVE MemberInv'
<1>1. /\ Field(IntType) \in Decl /\ WrittenAs(Field(IntType)) = Field(IntType)
      /\ ~HasVoid(Field(IntType).sig) /\ Field(IntType).sig.ret # VoidType
  BY DeclShapes, MemberTableAssumption
<1>2. Declaring(n, Field(IntType))
  BY <1>1 DEF AddVar, Declaring, MayDeclare
<1>. QED BY <1>1, <1>2, DeclareInv

LEMMA AddMethodInv ==
  ASSUME MemberInv, NEW n \in Member, NEW static \in BOOLEAN, NEW sig \in Signatures,
         AddMethod(n, static, sig)
  PROVE  MemberInv'
<1>. DEFINE decl == Method(static, sig)
<1>1. /\ decl \in Decl /\ decl.kind = "method" /\ decl.sig = sig
      /\ WrittenAs(decl) = Method(static, WithoutVoid(sig))
  BY DeclShapes
<1>. HIDE DEF decl
<1>2. errors' = {} <=> errors = {} /\ ~HasVoid(decl.sig)
  BY <1>1 DEF AddMethod, ParameterErrors
<1>3. Declaring(n, decl)
  <2>1. Write(n, decl) /\ Declare(n, WrittenAs(decl))
    BY <1>1 DEF AddMethod, decl
  <2>. QED BY <1>1, <1>2, <2>1 DEF AddMethod, Declaring, MayDeclare
<1>. QED BY <1>1, <1>3, DeclareInv

LEMMA EndClassInv == ASSUME MemberInv, EndClass PROVE MemberInv'
<1>1. Shapes' /\ Scopes'
  BY OrderIsRow DEF MemberInv, Shapes, Scopes, EndClass, FromSource
<1>2. OverridesAreSound'
  BY DEF MemberInv, EndClass, OverridesAreSound, Sees, Sound, Overrides, IsCompat
<1>3. Clean'
  BY DEF MemberInv, EndClass, Clean, Entered, Declares
<1>4. LegalMembers' <=> LegalMembers
  BY DEF EndClass, LegalMembers, RightAlone, Sound, Overrides, IsCompat
<1>5. Verdict'
  BY <1>4 DEF MemberInv, EndClass, Verdict
<1>. QED BY <1>1, <1>2, <1>3, <1>5 DEF MemberInv

(* A legal program with a main of its own in Main has its main found.      *)
LEMMA MainIsFound ==
  ASSUME MemberInv, errors = {}, NEW i \in DOMAIN source, IsMain(Main, source[i])
  PROVE  LegalMain
<1>. USE DEF MemberInv
<1>1. /\ source[i].cls = Main /\ source[i].name = main
      /\ source[i].decl = Method(TRUE, [args |-> <<>>, ret |-> VoidType])
  BY DEF IsMain
<1>2. Main \in Name
  BY <1>1, EntryTypes
<1>3. Declares(Main, main) /\ symbols[Main][main] = Method(TRUE, [args |-> <<>>, ret |-> VoidType])
  BY <1>1, CleanEntry DEF Entered
<1>4. Inherited(Main, main)
  BY <1>2, <1>3 DEF Inherited, IsSubclass
<1>5. Parent(Main, main) = Main
  <2>. DEFINE d == Parent(Main, main)
  <2>1. d \in Name /\ IsSubclass(base, Main, d) /\ IsSubclass(base, d, Main)
    BY <1>2, <1>3, <1>4, ParentNearest DEF Shapes, IsSubclass
  <2>2. SUFFICES ASSUME d # Main PROVE FALSE
    OBVIOUS
  <2>3. Main \in Ancestors(base, Main)
    BY <1>2, <2>1, <2>2, AncestorOfAncestor DEF Shapes, IsSubclass
  <2>. QED BY <1>2, <2>3, NotOwnAncestor DEF Shapes
<1>6. Lookup(Main, main) = [kind |-> "method", static |-> TRUE, sig |-> [args |-> <<>>, ret |-> VoidType]]
  BY <1>3, <1>5 DEF Lookup, Method
<1>. QED BY <1>2, <1>4, <1>6 DEF LegalMain

LEMMA FinishInv == ASSUME MemberInv, Finish PROVE MemberInv'
<1>1. Shapes' /\ Scopes'
  BY DEF MemberInv, Shapes, Scopes, Finish, FromSource
<1>2. OverridesAreSound'
  BY DEF MemberInv, Finish, OverridesAreSound, Sees, Sound, Overrides, IsCompat
<1>3. errors' = {} => errors = {}
  BY DEF Finish
<1>4. Clean'
  BY <1>3 DEF MemberInv, Finish, Clean, Entered, Declares
<1>5. (LegalMembers' <=> LegalMembers) /\ (LegalMain' <=> LegalMain) /\ (NoMain' <=> NoMain)
  BY DEF Finish, LegalMembers, RightAlone, Sound, Overrides, IsCompat, LegalMain, Inherited, Declares, Lookup,
         Parent, NoMain
<1>6. Verdict'
  <2>1. ASSUME LegalMembers, phase' = "REJECTED" PROVE NoMain
    <3>1. errors = {} /\ ~LegalMain
      BY <2>1 DEF MemberInv, Verdict, Finish
    <3>. QED BY <3>1, MainIsFound DEF NoMain
  <2>2. phase' = "ACCEPTED" => errors' = {} /\ LegalMain
    BY DEF Finish
  <2>3. phase' # "CHECK_MEMBER"
    BY DEF Finish
  <2>. QED BY <1>5, <2>1, <2>2, <2>3 DEF Verdict
<1>. QED BY <1>1, <1>2, <1>4, <1>6 DEF MemberInv

LEMMA MemberInit == Init => MemberInv
<1>. SUFFICES ASSUME Init PROVE MemberInv
  OBVIOUS
<1>1. /\ DOMAIN source = {} /\ source \in Seq(Entry) /\ DOMAIN symbols = Name
      /\ \A c \in Name : DOMAIN symbols[c] = {}
  <2>1. DOMAIN <<>> = {}
    OBVIOUS
  <2>. QED BY <2>1 DEF Init
<1>2. Shapes /\ Scopes
  BY <1>1, OrderIsRow DEF Init, Shapes, Scopes
<1>3. OverridesAreSound /\ Clean /\ Verdict
  BY <1>1 DEF Init, OverridesAreSound, Clean, Verdict
<1>. QED BY <1>2, <1>3 DEF MemberInv

LEMMA MemberStep == MemberInv /\ [Next]_vars => MemberInv'
<1>. SUFFICES ASSUME MemberInv, [Next]_vars PROVE MemberInv'
  OBVIOUS
<1>1. ASSUME NEW n \in Member, NEW type \in {IntType, VoidType},
             OverrideVar(n, type) \/ ConflictVar(n, type)
      PROVE  MemberInv'
  BY <1>1, OverrideVarInv, ConflictVarInv
<1>2. ASSUME NEW n \in Member, VoidVar(n) \/ AddVar(n) PROVE MemberInv'
  BY <1>2, VoidVarInv, AddVarInv
<1>3. ASSUME NEW n \in Member, NEW static \in BOOLEAN, NEW sig \in Signatures,
             \/ ConflictMethod(n, static, sig)
             \/ OverrideMismatch(n, static, sig)
             \/ AddMethod(n, static, sig)
      PROVE  MemberInv'
  BY <1>3, ConflictMethodInv, OverrideMismatchInv, AddMethodInv
<1>4. ASSUME EndClass \/ Finish PROVE MemberInv'
  BY <1>4, EndClassInv, FinishInv
<1>5. ASSUME UNCHANGED vars PROVE MemberInv'
  BY SMTT(30), <1>5 DEF vars, MemberInv, Shapes, Scopes, FromSource, OverridesAreSound, Clean, Entered,
       Declares, Verdict, LegalMembers, RightAlone, Sees, Sound, Overrides, IsCompat, LegalMain, Inherited, Lookup,
       Parent, NoMain
<1>. QED BY <1>1, <1>2, <1>3, <1>4, <1>5 DEF Next

LEMMA MemberInvariant == Spec => []MemberInv
  BY MemberInit, MemberStep, PTL DEF Spec

(* For every hierarchy and order of the text: whatever overrides a member  *)
(* of an ancestor that its class sees, near or far, is a method that can   *)
(* stand in for it, although ClassScope compares it with the nearest one   *)
(* only, and with what is declared by then.                                *)
THEOREM OverridingSound == Spec => []OverridesAreSound
<1>1. MemberInv => OverridesAreSound
  BY DEF MemberInv
<1>. QED BY <1>1, MemberInvariant, PTL

(* A program that keeps the rules and has a main is accepted, whatever the *)
(* order of its classes.                                                   *)
THEOREM LegalMembersAccepted == Spec => []LegalIsAccepted
<1>1. MemberInv => LegalIsAccepted
  BY DEF MemberInv, Verdict, NoMain, LegalIsAccepted, Range
<1>. QED BY <1>1, MemberInvariant, PTL

(* For every hierarchy and order of the text: an accepted program keeps    *)
(* the rules as far as its classes see their ancestors, and has a main in  *)
(* Main or a class that it extends: no error is forgotten.                 *)
THEOREM AcceptedMembersLegal == Spec => []AcceptedIsLegal
<1>1. ASSUME MemberInv, phase = "ACCEPTED" PROVE errors = {} /\ LegalMain
  BY <1>1 DEF MemberInv, Verdict
<1>2. ASSUME MemberInv, phase = "ACCEPTED"
      PROVE  /\ \A i \in DOMAIN source : RightAlone(source[i])
             /\ \A i, j \in DOMAIN source :
                  source[i].name = source[j].name /\ i # j =>
                    /\ source[i].cls # source[j].cls
                    /\ Sees(source[i].cls, source[j].cls) => Sound(source[i].decl, source[j].decl)
  <2>1. \A i \in DOMAIN source : /\ RightAlone(source[i]) /\ Entered(source[i])
                                 /\ source[i].cls \in Name
    BY <1>1, <1>2, CleanEntry, EntryTypes DEF MemberInv
  <2>2. ASSUME NEW i \in DOMAIN source, NEW j \in DOMAIN source,
               source[i].name = source[j].name, i # j
        PROVE  /\ source[i].cls # source[j].cls
               /\ Sees(source[i].cls, source[j].cls) => Sound(source[i].decl, source[j].decl)
    <3>1. source[i].cls # source[j].cls
      BY <1>1, <1>2, <2>2 DEF MemberInv, Clean
    <3>. DEFINE x == source[i].name
    <3>2. /\ x \in DOMAIN symbols[source[i].cls] \cap DOMAIN symbols[source[j].cls]
          /\ symbols[source[i].cls][x] = source[i].decl
          /\ symbols[source[j].cls][x] = source[j].decl
      BY <2>1, <2>2 DEF Entered, Declares
    <3>3. Sees(source[i].cls, source[j].cls) =>
            Sound(symbols[source[i].cls][x], symbols[source[j].cls][x])
      BY <1>2, <2>1, <3>2 DEF MemberInv, OverridesAreSound
    <3>. QED BY <3>1, <3>2, <3>3
  <2>. QED BY <2>1, <2>2
<1>3. ASSUME MemberInv, phase = "ACCEPTED"
      PROVE  \E c \in Name, m \in Range(source) : IsSubclass(base, Main, c) /\ IsMain(c, m)
  <2>1. errors = {} /\ Main \in Name /\ Inherited(Main, main)
    BY <1>1, <1>3 DEF LegalMain
  <2>. DEFINE d == Parent(Main, main)
              mainDecl == Method(TRUE, [args |-> <<>>, ret |-> VoidType])
  <2>2. d \in Name /\ Declares(d, main) /\ IsSubclass(base, Main, d)
    BY <1>3, <2>1, ParentNearest DEF MemberInv, Shapes
  <2>3. PICK i \in DOMAIN source : source[i].cls = d /\ source[i].name = main
    BY <1>3, <2>2 DEF MemberInv, Scopes, FromSource, Declares
  <2>4. source[i] \in Entry /\ source[i].decl \in Decl /\ symbols[d][main] = source[i].decl
    BY <1>3, <2>1, <2>3, CleanEntry, EntryTypes DEF MemberInv, Entered
  <2>5. /\ source[i].decl.kind = "method" /\ source[i].decl.static
        /\ source[i].decl.sig = [args |-> <<>>, ret |-> VoidType]
    BY <1>1, <1>3, <2>4 DEF LegalMain, Lookup
  <2>6. source[i].decl = mainDecl
    BY <2>4, <2>5 DEF Decl, Method
  <2>7. IsMain(d, source[i])
    BY <2>3, <2>4, <2>6 DEF IsMain, Entry
  <2>. QED BY <2>2, <2>7 DEF Range
<1>4. MemberInv => AcceptedIsLegal
  BY <1>2, <1>3 DEF AcceptedIsLegal
<1>. QED BY <1>4, MemberInvariant, PTL

-----------------------------------------------------------------------------
(* Types.  The parameters that are left are those of a method type.        *)
LeaveOut(args, f, i) ==
  IF i = 0 THEN <<>>
  ELSE IF args[i] = VoidType THEN f[i - 1]
  ELSE Append(f[i - 1], args[i])
LeavesOut(args, f) == f = [i \in 0..Len(args) |-> LeaveOut(args, f, i)]

LEMMA LeavesOutExists ==
  ASSUME NEW args \in Seq(Type)
  PROVE  \E f : LeavesOut(args, f)
<1>. DEFINE n == Len(args)
            X == Seq(Type)
            F == [i \in 1..n |-> [q \in X |-> IF args[i] = VoidType THEN q ELSE Append(q, args[i])]]
<1>1. n \in Nat /\ <<>> \in X /\ \A i \in 1..n : args[i] \in Type
  OBVIOUS
<1>2. F \in [1..n -> [X -> X]]
  <2>1. ASSUME NEW i \in 1..n, NEW q \in X
        PROVE  (IF args[i] = VoidType THEN q ELSE Append(q, args[i])) \in X
    BY <1>1
  <2>. HIDE DEF X
  <2>. QED BY <2>1
<1>3. PICK f : Applied(X, <<>>, F, f, n)
  <2>. HIDE DEF n, F, X
  <2>. QED BY <1>1, <1>2, Iterated
<1>4. f = [i \in 0..n |-> f[i]] /\ f[0] = <<>>
  BY <1>3 DEF Applied
<1>5. ASSUME NEW i \in 1..n PROVE f[i] = LeaveOut(args, f, i)
  <2>1. f[i] = F[i][f[i - 1]]
    <3>. HIDE DEF F
    <3>. QED BY <1>3 DEF Applied
  <2>2. f[i - 1] \in X
    <3>. HIDE DEF F, X
    <3>. QED BY <1>1, <1>3 DEF Applied
  <2>. HIDE DEF X
  <2>3. f[i] = IF args[i] = VoidType THEN f[i - 1] ELSE Append(f[i - 1], args[i])
    BY <2>1, <2>2
  <2>. QED BY <2>3 DEF LeaveOut
<1>6. \A i \in 0..n : f[i] = LeaveOut(args, f, i)
  <2>1. \A i \in 0..n : i = 0 \/ i \in 1..n
    BY <1>1
  <2>2. f[0] = LeaveOut(args, f, 0)
    BY <1>4 DEF LeaveOut
  <2>. HIDE DEF F
  <2>. QED BY <1>5, <2>1, <2>2
<1>. QED BY <1>4, <1>6 DEF LeavesOut

LEMMA NonVoidType ==
  ASSUME NEW args \in Seq(Type)
  PROVE  NonVoid(args) \in Seq(Type)
<1>. DEFINE n == Len(args)
            f == CHOOSE g : LeavesOut(args, g)
<1>1. n \in Nat /\ n \in 0..n /\ \A i \in 1..n : args[i] \in Type
  OBVIOUS
<1>2. LeavesOut(args, f)
  BY LeavesOutExists
<1>3. NonVoid(args) = f[n]
  BY DEF NonVoid, LeavesOut, LeaveOut
<1>. HIDE DEF f
<1>4. \A i \in 0..n : f[i] = LeaveOut(args, f, i)
  BY <1>2 DEF LeavesOut
<1>. DEFINE S == {i \in 0..n : f[i] \in Seq(Type)}
<1>5. 0 \in S
  <2>1. 0 \in 0..n /\ <<>> \in Seq(Type)
    BY <1>1
  <2>2. f[0] = <<>>
    BY <1>4, <2>1 DEF LeaveOut
  <2>. QED BY <2>1, <2>2
<1>6. ASSUME NEW i \in 0..(n - 1), i \in S PROVE i + 1 \in S
  <2>1. i + 1 \in 0..n /\ i + 1 # 0 /\ (i + 1) - 1 = i /\ i + 1 \in 1..n
    BY <1>1
  <2>2. f[i + 1] \in {f[i], Append(f[i], args[i + 1])}
    BY <1>4, <2>1 DEF LeaveOut
  <2>3. f[i] \in Seq(Type) /\ args[i + 1] \in Type
    BY <1>1, <1>6, <2>1
  <2>4. Append(f[i], args[i + 1]) \in Seq(Type)
    BY <2>3
  <2>. QED BY <2>1, <2>2, <2>3, <2>4
<1>7. \A i \in 0..n : i \in S
  <2>. HIDE DEF S, n
  <2>. QED BY <1>1, <1>5, <1>6, UpTo
<1>. QED BY <1>1, <1>3, <1>7

LEMMA WrittenAsType ==
  ASSUME NEW decl \in Decl
  PROVE  WrittenAs(decl) \in Decl
<1>1. decl.sig \in Signature /\ decl.kind \in {"var", "method"} /\ decl.static \in BOOLEAN
  BY DEF Decl
<1>2. decl.sig.args \in Seq(Type) /\ decl.sig.ret \in Type
  BY <1>1 DEF Signature
<1>3. WithoutVoid(decl.sig) \in Signature
  BY <1>1, <1>2, NonVoidType DEF WithoutVoid, Signature
<1>. QED BY <1>1, <1>3 DEF WrittenAs, Decl

(* No class is the name of a member.                                       *)
Named ==
  /\ \A c \in Name : \A n \in DOMAIN symbols[c] : n \notin Name
  /\ \A e \in errors : e.kind \in ErrorKinds

LEMMA NamedStep == MemberInv /\ Named /\ [Next]_vars => Named'
<1>. SUFFICES ASSUME MemberInv, Named, [Next]_vars PROVE Named'
  OBVIOUS
<1>1. ASSUME NEW n \in Member, NEW decl \in Decl, Visiting, Declare(n, WrittenAs(decl)),
             \A e \in errors' : e.kind \in ErrorKinds,
             n \notin Name \/ Inherited(cls, n)
      PROVE  Named'
  <2>1. n \notin Name
    BY <1>1 DEF Inherited, Declares, Named
  <2>2. ASSUME NEW c \in Name, NEW x \in DOMAIN symbols'[c] PROVE x = n \/ x \in DOMAIN symbols[c]
    BY <2>2, <1>1 DEF Declare, MemberInv, Shapes
  <2>. QED BY <1>1, <2>1, <2>2 DEF Named
<1>2. ASSUME UNCHANGED symbols, \A e \in errors' : e.kind \in ErrorKinds PROVE Named'
  BY <1>2 DEF Named
<1>3. \A k \in ErrorKinds : \A n : Err(k, n).kind \in ErrorKinds
  BY DEF Err
<1>4. \A n, sig : \A e \in ParameterErrors(n, sig) : e.kind \in ErrorKinds
  BY <1>3 DEF ParameterErrors, ErrorKinds
<1>5. ASSUME NEW n \in Member, NEW type \in {IntType, VoidType},
             OverrideVar(n, type) \/ ConflictVar(n, type)
      PROVE  Named'
  BY <1>2, <1>3, <1>5 DEF OverrideVar, ConflictVar, Named, ErrorKinds
<1>6. ASSUME NEW n \in Member, VoidVar(n) PROVE Named'
  BY <1>2, <1>3, <1>6 DEF VoidVar, Named, ErrorKinds
<1>7. ASSUME NEW n \in Member, AddVar(n) PROVE Named'
  <2>1. Field(IntType) \in Decl /\ WrittenAs(Field(IntType)) = Field(IntType)
    BY DeclShapes
  <2>. QED BY <1>1, <1>7, <2>1 DEF AddVar, Named
<1>8. ASSUME NEW n \in Member, NEW static \in BOOLEAN, NEW sig \in Signatures,
             ConflictMethod(n, static, sig) \/ OverrideMismatch(n, static, sig)
      PROVE  Named'
  BY <1>2, <1>3, <1>4, <1>8 DEF ConflictMethod, OverrideMismatch, Named, ErrorKinds
<1>9. ASSUME NEW n \in Member, NEW static \in BOOLEAN, NEW sig \in Signatures,
             AddMethod(n, static, sig)
      PROVE  Named'
  <2>1. Method(static, sig) \in Decl /\ WrittenAs(Method(static, sig)) = Method(static, WithoutVoid(sig))
    BY DeclShapes
  <2>2. \A e \in errors' : e.kind \in ErrorKinds
    BY <1>4, <1>9 DEF AddMethod, Named
  <2>. QED BY <1>1, <1>9, <2>1, <2>2 DEF AddMethod, Overridable
<1>10. ASSUME EndClass \/ Finish PROVE Named'
  BY <1>2, <1>10 DEF EndClass, Finish, Named, ErrorKinds
<1>11. CASE UNCHANGED vars
  BY <1>11 DEF vars, Named
<1>. QED BY <1>5, <1>6, <1>7, <1>8, <1>9, <1>10, <1>11 DEF Next

(* Whatever the program: scopes hold nothing but members, under names that *)
(* are not those of classes, and the pass only succeeds without an error.  *)
THEOREM MembersTypeCorrect == Spec => []TypeOK
<1>1. Init => Named
  BY DEF Init, Named
<1>2. ASSUME MemberInv, Named PROVE TypeOK
  <2>1. ASSUME NEW c \in Name, NEW n \in DOMAIN symbols[c]
        PROVE  n \in Member \ Name /\ symbols[c][n] \in Decl
    <3>1. PICK i \in DOMAIN source : source[i].name = n /\ symbols[c][n] = WrittenAs(source[i].decl)
      BY <1>2 DEF MemberInv, Scopes, FromSource
    <3>2. source[i].name \in Member /\ source[i].decl \in Decl
      BY <1>2, EntryTypes DEF MemberInv
    <3>. QED BY <1>2, <3>1, <3>2, WrittenAsType DEF Named
  <2>2. \A i \in DOMAIN source : source[i].cls \in Name /\ source[i].decl \in Decl
    BY <1>2, EntryTypes DEF MemberInv
  <2>3. phase = "ACCEPTED" => errors = {}
    BY <1>2 DEF MemberInv, Verdict
  <2>. QED BY <1>2, <2>1, <2>2, <2>3 DEF TypeOK, MemberInv, Shapes, Named
<1>. QED BY <1>1, <1>2, MemberInit, MemberStep, NamedStep, PTL DEF Spec
=============================================================================
