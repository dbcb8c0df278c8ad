------------------------- MODULE ExpressionsProofs -------------------------
(***************************************************************************)
(* For statements of any size, over any classes, variables and members:    *)
(* TypeChecker rejects exactly what the typing rules do, keeps the types   *)
(* they give, and CodeGenVisitor has code for exactly the accepted         *)
(* statements without the flaws that GeneratesExactly names.               *)
(*                                                                         *)
(* The visitors forget what a subexpression answered once they return.     *)
(* The invariant keeps it: S[i] are the answers that node i has got from   *)
(* its subexpressions, and U[i] are the nodes from i up to the statement.  *)
(***************************************************************************)
EXTENDS Expressions, HierarchyProofs, SequenceTheorems

Values == {I32, I8P, Empty, NoCode} \cup {LLVM(t) : t \in Type \cup {Error}}
Answers == [type : Type \cup {Error}, bad : BOOLEAN, cls : BOOLEAN, ir : Values]

LeafOps == {"variable", "field", "literal", "read", "name", "new", "this"}
UnaryOps == {"paren", "minus", "not", "cast", "instanceof", "arrayNew", "varSel"}
BinaryOps == {"arith", "relation", "equality", "logical", "index"}
CallOps == {"varCall", "localCall"}
StatementOps == {"assign", "print", "condition", "expression", "init", "return"}

Exprs == Leaves \cup Unaries \cup Binaries \cup Calls

(* What a node names, by its form.                                         *)
Written(n) ==
  /\ n.given \in Nat
  /\ n.op \in {"variable", "field", "init"} => n.of \in VarTypes
  /\ n.op = "return" => n.of \in VarTypes \cup {T("void")}
  /\ n.op = "literal" => n.of \in Literals
  /\ n.op = "read" => n.of \in {T("int"), T("string")}
  /\ n.op = "name" => n.of \in Name
  /\ n.op \in {"new", "cast", "instanceof"} => n.of \in Name \cup {Undeclared}
  /\ n.op = "arrayNew" => n.of \in ElementTypes
  /\ n.op \in {"varSel", "varCall", "localCall"} => n.of \in Callees

(* The most subexpressions that TypeChecker visits.                        *)
Arity(n) ==
  IF n.op \in LeafOps THEN 0
  ELSE IF n.op = "localCall" THEN n.given
  ELSE IF n.op = "varCall" THEN n.given + 1
  ELSE IF n.op \in BinaryOps \cup {"assign"} THEN 2
  ELSE 1

LEMMA ExprsAre ==
  ASSUME NEW e \in Exprs
  PROVE  /\ Written(e)
         /\ e.op \in LeafOps \cup UnaryOps \cup BinaryOps \cup CallOps
         /\ e \in Leaves <=> e.op \in LeafOps
<1>1. CASE e \in Leaves
  BY <1>1 DEF Leaves, Op, Written, LeafOps
<1>2. CASE e \in Unaries
  BY <1>2 DEF Unaries, Op, Written, UnaryOps, LeafOps, Leaves
<1>3. CASE e \in Binaries
  BY <1>3 DEF Binaries, Op, Written, BinaryOps, LeafOps, Leaves
<1>4. CASE e \in Calls
  <2>1. PICK op \in CallOps, m \in Callees : \E n \in {Len(m.args), Len(m.args) + 1} :
          e = [op |-> op, of |-> m, given |-> n]
    BY <1>4 DEF Calls, CallOps
  <2>2. m.args \in Seq(Type)
    BY ExpressionsAssumption DEF Callee
  <2>3. Len(m.args) \in Nat
    BY <2>2, LenProperties
  <2>4. e.op \in CallOps /\ e.of \in Callees /\ e.given \in Nat
    BY <2>1, <2>3
  <2>5. e \notin Leaves
    BY <2>4 DEF CallOps, Leaves, Op
  <2>. QED BY <2>4, <2>5 DEF CallOps, Written, LeafOps
<1>. QED BY <1>1, <1>2, <1>3, <1>4 DEF Exprs

LEMMA StatementsAre ==
  ASSUME NEW s \in Statements
  PROVE  Written(s) /\ s.op \in StatementOps
  BY DEF Statements, Op, Written, StatementOps

LEMMA CalleeHas ==
  ASSUME NEW m \in Callees
  PROVE  /\ m.static \in BOOLEAN /\ m.own \in BOOLEAN /\ m.type \in Type
         /\ m.is \in {"method", "length", "field", "nothing"}
         /\ m.args \in Seq(Type) /\ Len(m.args) \in Nat /\ DOMAIN m.args = 1..Len(m.args)
         /\ \A i \in 1..Len(m.args) : m.args[i] \in Type
<1>1. m.args \in Seq(Type)
  BY ExpressionsAssumption DEF Callee
<1>2. Len(m.args) \in Nat /\ DOMAIN m.args = 1..Len(m.args)
  BY <1>1, LenProperties
<1>3. \A i \in 1..Len(m.args) : m.args[i] \in Type
  BY <1>1, ElementOfSeq
<1>. QED BY <1>1, <1>2, <1>3, ExpressionsAssumption DEF Callee

(* A type is known by its kind, and what a class or an array is of.        *)
LEMMA Kinds ==
  ASSUME NEW t \in Type
  PROVE  /\ t.kind \in {"int", "bool", "string", "null", "void", "class", "array"}
         /\ t.kind \in {"int", "bool", "string", "null", "void"} => t = T(t.kind)
         /\ t.kind = "class" => t.of \in Name \cup {Undeclared} /\ t = Class(t.of)
         /\ t.kind = "array" => t.of \in Element /\ t = Array(t.of)
         /\ t # Error
  BY DEF Type, Element, Literals, T, Class, Array, Error

LEMMA Elements ==
  ASSUME NEW t \in Element
  PROVE  t \in Type /\ t.kind # "array" /\ Array(t) \in Type
  BY DEF Type, Element, Literals, T, Class, Array

-----------------------------------------------------------------------------
(* What a visitor answers.                                                 *)

LEMMA LLVMTypes ==
  ASSUME NEW t \in Type \cup {Error}
  PROVE  LLVM(t) \in Values /\ Value(t) \in Values /\ LLVM(t) \notin {Empty, NoCode}
<1>1. LLVM(t) \in Values /\ Value(t) \in Values
  BY DEF Values, Value
<1>2. CASE t.kind = "array"
  BY <1>1, <1>2 DEF LLVM, Array, Empty, NoCode, T
<1>3. CASE t.kind # "array"
  <2>1. t.kind \notin {"empty", "no code"}
    <3>1. Error.kind = "error"
      BY DEF Error, T
    <3>2. CASE t \in Type
      BY <3>2, Kinds
    <3>. QED BY <3>1, <3>2
  <2>2. LLVM(t) \in {I32, I8P, t}
    BY <1>3 DEF LLVM, LLVMElement
  <2>3. I32.kind = "i32" /\ I8P.kind = "i8*" /\ Empty.kind = "empty" /\ NoCode.kind = "no code"
    BY DEF I32, I8P, Empty, NoCode, T
  <2>. QED BY <1>1, <2>1, <2>2, <2>3
<1>. QED BY <1>1, <1>2, <1>3

Flags == /\ base \in BaseMap /\ curClass \in Name
         /\ static \in BOOLEAN /\ allow \in BOOLEAN

Ready(n, kids) ==
  /\ kids \in Seq(Answers)
  /\ n.op \in UnaryOps \cup {"varCall"} \cup BinaryOps => Len(kids) >= 1
  /\ n.op \in BinaryOps => Len(kids) >= 2

Sound(n, kids, r) ==
  /\ r \in Answers
  /\ r.type = Error => r.bad \/ \E m \in 1..Len(kids) : kids[m].type = Error
  /\ r.cls => n.op = "name"
  /\ r.ir = Empty => n.op \in {"paren", "read", "logical"}

LEMMA RSound ==
  ASSUME NEW n, NEW kids, NEW t \in Type, NEW bad \in BOOLEAN, NEW ir \in Values,
         ir = Empty => n.op \in {"paren", "read", "logical"}
  PROVE  Sound(n, kids, R(t, bad, ir))
<1>1. t # Error
  BY Kinds
<1>. QED BY <1>1 DEF Sound, R, Answers

LEMMA RPassesOn ==
  ASSUME NEW n, NEW kids, NEW m \in 1..Len(kids), NEW t \in Type \cup {Error},
         NEW bad \in BOOLEAN, NEW ir \in Values,
         ir = Empty => n.op \in {"paren", "read", "logical"},
         t = Error => bad \/ kids[m].type = Error
  PROVE  Sound(n, kids, R(t, bad, ir))
  BY DEF Sound, R, Answers

LEMMA BadSound ==
  ASSUME NEW n, NEW kids
  PROVE  Sound(n, kids, Bad)
<1>1. NoCode \in Values /\ NoCode # Empty
  BY DEF Values, NoCode, Empty, T
<1>. QED BY <1>1 DEF Sound, Bad, R, Answers

LEMMA ClassTypes ==
  ASSUME NEW c \in Name \cup {Undeclared}
  PROVE  Class(c) \in Type /\ Class(c) \in Values /\ Class(c) # Empty /\ Pointer(Class(c))
<1>1. Class(c) \in Type /\ LLVM(Class(c)) = Class(c)
  BY DEF Type, Element, LLVM, LLVMElement, Class
<1>2. Class(c) # Empty /\ Pointer(Class(c))
  BY DEF Pointer, Class, Empty, T
<1>. QED BY <1>1, <1>2, LLVMTypes

LEMMA ValueTypes ==
  ASSUME NEW t \in Type
  PROVE  Value(t) \in Values /\ Value(t) # Empty
<1>1. NoCode # Empty
  BY DEF NoCode, Empty, T
<1>. QED BY <1>1, LLVMTypes DEF Value

LEMMA LeafSound ==
  ASSUME Flags, NEW n, NEW kids, n.op \in LeafOps, Written(n)
  PROVE  Sound(n, kids, Answer(n, kids))
<1>1. ASSUME NEW t \in Type PROVE Sound(n, kids, Variable(t))
  BY <1>1, ValueTypes, RSound DEF Variable
<1>2. CASE n.op \in {"variable", "field"}
  <2>1. n.of \in Type
    BY <1>2, ExpressionsAssumption DEF Written
  <2>2. Answer(n, kids) \in {Variable(n.of), Bad}
    BY <1>2 DEF Answer, Field
  <2>. QED BY <1>1, <2>1, <2>2, BadSound
<1>3. CASE n.op = "this"
  <2>1. Answer(n, kids) \in {Variable(Class(curClass)), Bad}
    BY <1>3 DEF Answer, This
  <2>2. Class(curClass) \in Type
    BY ClassTypes DEF Flags
  <2>. QED BY <1>1, <2>1, <2>2, BadSound
<1>4. CASE n.op = "literal"
  <2>1. n.of \in Type /\ Answer(n, kids) = R(n.of, FALSE, LLVM(n.of))
    BY <1>4 DEF Written, Type, Element, Literals, Answer
  <2>2. LLVM(n.of) \in Values /\ LLVM(n.of) # Empty
    BY <2>1, LLVMTypes
  <2>. QED BY <2>1, <2>2, RSound
<1>5. CASE n.op = "read"
  <2>1. n.of \in Type /\ Answer(n, kids) = R(n.of, FALSE, Empty)
    BY <1>5 DEF Written, Type, Element, Literals, Answer, Read
  <2>2. Empty \in Values
    BY DEF Values
  <2>3. Sound(n, kids, R(n.of, FALSE, Empty))
    BY ONLY <1>5, <2>1, <2>2, RSound
  <2>. QED BY ONLY <2>1, <2>3
<1>6. CASE n.op = "name"
  <2>1. Answer(n, kids) = ClassName(n.of)
    BY <1>6 DEF Answer
  <2>2. Class(n.of) \in Type /\ NoCode \in Values /\ NoCode # Empty
    BY <1>6, ClassTypes DEF Written, Values, NoCode, Empty, T
  <2>3. Class(n.of) # Error
    BY <2>2, Kinds
  <2>4. CASE allow
    <3>1. PICK r : r = [type |-> Class(n.of), bad |-> FALSE, cls |-> TRUE, ir |-> NoCode]
      OBVIOUS
    <3>2. r \in Answers
      BY ONLY <2>2, <3>1 DEF Answers
    <3>3. r.type # Error /\ r.ir # Empty
      BY ONLY <2>2, <2>3, <3>1
    <3>4. Sound(n, kids, r)
      BY ONLY <1>6, <3>2, <3>3 DEF Sound
    <3>. QED BY ONLY <2>1, <2>4, <3>1, <3>4 DEF ClassName
  <2>5. CASE ~allow
    <3>1. Answer(n, kids) = Bad
      BY ONLY <2>1, <2>5 DEF ClassName
    <3>. QED BY <3>1, BadSound
  <2>. QED BY <2>4, <2>5
<1>7. CASE n.op = "new"
  <2>1. n.of \in Name \cup {Undeclared}
    BY <1>7 DEF Written
  <2>2. Answer(n, kids) \in {R(Class(n.of), FALSE, Class(n.of)), Bad}
    BY <1>7 DEF Answer, New, Allocated
  <2>. QED BY <2>1, <2>2, ClassTypes, RSound, BadSound
<1>. QED BY <1>2, <1>3, <1>4, <1>5, <1>6, <1>7 DEF LeafOps

LEMMA KidIs ==
  ASSUME NEW kids \in Seq(Answers), NEW m \in 1..Len(kids)
  PROVE  /\ kids[m] \in Answers /\ kids[m].type \in Type \cup {Error}
         /\ kids[m].bad \in BOOLEAN /\ kids[m].cls \in BOOLEAN /\ kids[m].ir \in Values
<1>1. kids[m] \in Answers
  BY ElementOfSeq
<1>. QED BY <1>1 DEF Answers

LEMMA ProvidedIs ==
  ASSUME NEW condition, NEW ir \in Values, ir # Empty
  PROVE  Provided(condition, ir) \in Values /\ Provided(condition, ir) # Empty
  BY DEF Provided, Values, NoCode, Empty, T

LEMMA UnarySound ==
  ASSUME Flags, NEW n, NEW kids, n.op \in UnaryOps, Written(n), Ready(n, kids)
  PROVE  Sound(n, kids, Answer(n, kids))
<1>. DEFINE e == kids[1]
<1>1. 1 \in 1..Len(kids) /\ kids \in Seq(Answers)
  BY LenProperties DEF Ready
<1>2. e \in Answers /\ e.type \in Type \cup {Error} /\ e.ir \in Values /\ e.cls \in BOOLEAN
  BY <1>1, KidIs
<1>3. T("int") \in Type /\ T("bool") \in Type /\ I32 \in Values /\ I32 # Empty
  BY DEF Type, Element, Literals, Values, I32, Empty, T
<1>. HIDE DEF e
<1>4. CASE n.op = "paren"
  <2>1. Answer(n, kids) = R(e.type, FALSE, Provided(e.ir # NoCode, Empty))
    BY <1>4 DEF Answer, Paren, e
  <2>2. Provided(e.ir # NoCode, Empty) \in Values
    BY DEF Provided, Values
  <2>. QED BY <1>1, <1>2, <1>4, <2>1, <2>2, RPassesOn DEF e
<1>5. CASE n.op = "minus"
  <2>. DEFINE bad == ~Is(e, "int")
  <2>1. Answer(n, kids) = R(T("int"), bad, Provided(e.ir = I32, I32))
    BY <1>5 DEF Answer, Minus, UnaryValue, e
  <2>2. bad \in BOOLEAN
    BY DEF Is
  <2>. HIDE DEF bad
  <2>. QED BY <1>3, <2>1, <2>2, ProvidedIs, RSound
<1>6. CASE n.op = "not"
  <2>. DEFINE bad == ~Is(e, "bool")
  <2>1. Answer(n, kids) = R(T("bool"), bad, Provided(e.ir = I32, I32))
    BY <1>6 DEF Answer, Not, UnaryValue, e
  <2>2. bad \in BOOLEAN
    BY DEF Is
  <2>. HIDE DEF bad
  <2>. QED BY <1>3, <2>1, <2>2, ProvidedIs, RSound
<1>7. CASE n.op = "cast"
  <2>1. Answer(n, kids) = R(Class(n.of), ~Is(e, "class") \/ n.of \notin Name,
                            Provided(Pointer(e.ir), Class(n.of)))
    BY <1>7 DEF Answer, Cast, CastValue, e
  <2>2. n.of \in Name \cup {Undeclared}
    BY <1>7 DEF Written
  <2>. QED BY <2>1, <2>2, ClassTypes, ProvidedIs, RSound
<1>8. CASE n.op = "instanceof"
  <2>1. Answer(n, kids) = R(T("bool"), ~Is(e, "class") \/ n.of \notin Name,
                            Provided(Pointer(e.ir), I32))
    BY <1>8 DEF Answer, InstanceOf, InstanceOfValue, e
  <2>. QED BY <1>3, <2>1, ProvidedIs, RSound
<1>9. CASE n.op = "arrayNew"
  <2>1. n.of \in Element
    BY <1>9, ExpressionsAssumption DEF Written
  <2>2. Array(n.of) \in Type
    BY <2>1, Elements
  <2>3. Value(Array(n.of)) \in Values /\ Value(Array(n.of)) # Empty
    BY <2>2, ValueTypes
  <2>4. Answer(n, kids) = R(Array(n.of), ~Is(e, "int"),
                            Provided(e.ir = I32 /\ n.of # T("void"), Value(Array(n.of))))
    BY <1>9 DEF Answer, ArrayNew, ArrayNewValue, e
  <2>. QED BY <2>2, <2>3, <2>4, ProvidedIs, RSound
<1>10. CASE n.op = "varSel"
  <2>1. n.of.type \in Type
    BY <1>10, CalleeHas DEF Written
  <2>2. Value(n.of.type) \in Values /\ Value(n.of.type) # Empty
    BY <2>1, ValueTypes
  <2>3. Answer(n, kids) \in {R(n.of.type, FALSE, Provided(Pointer(e.ir), Value(n.of.type))), Bad}
          \/ (e.type = Error /\ Answer(n, kids) = R(Error, FALSE, NoCode))
    BY <1>10 DEF Answer, VarSel, VarSelValue, e
  <2>4. NoCode \in Values /\ NoCode # Empty
    BY DEF Values, NoCode, Empty, T
  <2>5. Sound(n, kids, R(Error, FALSE, NoCode)) \/ e.type # Error
    BY <1>1, <2>4, RPassesOn DEF e
  <2>6. Sound(n, kids, R(n.of.type, FALSE, Provided(Pointer(e.ir), Value(n.of.type))))
    BY <2>1, <2>2, ProvidedIs, RSound
  <2>. QED BY <2>3, <2>5, <2>6, BadSound
<1>. QED BY <1>4, <1>5, <1>6, <1>7, <1>8, <1>9, <1>10 DEF UnaryOps

LEMMA BinarySound ==
  ASSUME Flags, NEW n, NEW kids, n.op \in BinaryOps, Written(n), Ready(n, kids)
  PROVE  Sound(n, kids, Answer(n, kids))
<1>. DEFINE l == kids[1]
            r == kids[2]
<1>1. 1 \in 1..Len(kids) /\ 2 \in 1..Len(kids) /\ kids \in Seq(Answers)
  BY LenProperties DEF Ready
<1>2. l.type \in Type \cup {Error} /\ r.type \in Type \cup {Error}
      /\ l.ir \in Values /\ r.ir \in Values
  BY <1>1, KidIs
<1>3. T("int") \in Type /\ T("bool") \in Type /\ I32 \in Values /\ I32 # Empty
  BY DEF Type, Element, Literals, Values, I32, Empty, T
<1>. HIDE DEF l, r
<1>4. CASE n.op = "arith"
  <2>1. Answer(n, kids) = R(T("int"), BadOperands("int", l, r), Provided({l.ir, r.ir} = {I32}, I32))
    BY <1>4 DEF Answer, Arithmetic, BinaryValue, l, r
  <2>2. BadOperands("int", l, r) \in BOOLEAN
    BY DEF BadOperands
  <2>. QED BY <1>3, <2>1, <2>2, ProvidedIs, RSound
<1>5. CASE n.op = "relation"
  <2>1. Answer(n, kids) = R(T("bool"), BadOperands("int", l, r), Provided({l.ir, r.ir} = {I32}, I32))
    BY <1>5 DEF Answer, Relation, BinaryValue, l, r
  <2>2. BadOperands("int", l, r) \in BOOLEAN
    BY DEF BadOperands
  <2>. QED BY <1>3, <2>1, <2>2, ProvidedIs, RSound
<1>6. CASE n.op = "equality"
  <2>1. Answer(n, kids) = R(T("bool"), ~IsCompat(l.type, r.type) /\ ~IsCompat(r.type, l.type),
                            Provided(Comparable(l, r), I32))
    BY <1>6 DEF Answer, Equality, l, r
  <2>. QED BY <1>3, <2>1, ProvidedIs, RSound
<1>7. CASE n.op = "logical"
  <2>1. Answer(n, kids) = R(T("bool"), BadOperands("bool", l, r), Provided(l.ir # NoCode, r.ir))
    BY <1>7 DEF Answer, Logical, l, r
  <2>2. BadOperands("bool", l, r) \in BOOLEAN /\ Provided(l.ir # NoCode, r.ir) \in Values
    BY <1>2 DEF BadOperands, Provided, Values
  <2>. QED BY <1>3, <1>7, <2>1, <2>2, RSound
<1>8. CASE n.op = "index"
  <2>. DEFINE element == IF l.type.kind = "array" THEN l.type.of ELSE Error
  <2>1. element \in Type \cup {Error} /\ (element = Error => ~Is(l, "array") \/ l.type = Error)
    <3>1. CASE l.type = Error
      BY <3>1 DEF Error, T
    <3>2. CASE l.type \in Type
      BY <3>2, Kinds, Elements DEF Is
    <3>. QED BY <1>2, <3>1, <3>2
  <2>2. Answer(n, kids) = R(element, ~Is(l, "array") \/ ~Is(r, "int"), IndexValue(element, l, r))
    BY <1>8 DEF Answer, Index, l, r
  <2>3. IndexValue(element, l, r) \in Values /\ IndexValue(element, l, r) # Empty
    BY <2>1, LLVMTypes, ProvidedIs DEF IndexValue
  <2>. HIDE DEF element
  <2>4. (~Is(l, "array") \/ ~Is(r, "int")) \in BOOLEAN
    OBVIOUS
  <2>. QED BY <1>1, <2>1, <2>2, <2>3, <2>4, RPassesOn DEF l
<1>. QED BY <1>4, <1>5, <1>6, <1>7, <1>8 DEF BinaryOps

LEMMA CodeOrNot ==
  ASSUME NEW found \in Callees, NEW ir, ir \in {Value(found.type), NoCode}
  PROVE  ir \in Values /\ ir # Empty
<1>1. Value(found.type) \in Values /\ Value(found.type) # Empty
  BY CalleeHas, ValueTypes
<1>2. NoCode \in Values /\ NoCode # Empty
  BY DEF Values, NoCode, Empty, T
<1>. QED BY <1>1, <1>2

LEMMA CallSound ==
  ASSUME Flags, NEW n, NEW kids, n.op \in CallOps, Written(n), Ready(n, kids)
  PROVE  Sound(n, kids, Answer(n, kids))
<1>1. n.of \in Callees /\ n.of.type \in Type
  BY CalleeHas DEF CallOps, Written
<1>2. CASE n.op = "localCall"
  <2>. DEFINE ir == CallValue(n.of, ~static, kids)
  <2>1. Answer(n, kids) \in {R(n.of.type, FALSE, ir), Bad}
    BY <1>2 DEF Answer, LocalCall, Call
  <2>2. ir \in {Value(n.of.type), NoCode}
    BY DEF CallValue, Provided
  <2>. HIDE DEF ir
  <2>3. ir \in Values /\ ir # Empty
    BY <1>1, <2>2, CodeOrNot
  <2>. QED BY <1>1, <2>1, <2>3, RSound, BadSound
<1>3. CASE n.op = "varCall"
  <2>. DEFINE e == kids[1]
              args == Tail(kids)
              r == Call(n.of, n.given, FALSE, e.cls, ~e.cls, args)
  <2>1. 1 \in 1..Len(kids) /\ kids \in Seq(Answers)
    BY <1>3, LenProperties DEF Ready
  <2>2. Answer(n, kids) = VarCall(n.of, n.given, e, args)
    BY <1>3 DEF Answer
  <2>3. NoCode \in Values /\ NoCode # Empty /\ I32 \in Values /\ I32 # Empty
    BY DEF Values, I32, NoCode, Empty, T
  <2>4. CASE e.type = Error
    <3>1. Answer(n, kids) = R(Error, FALSE, NoCode)
      BY <2>2, <2>4 DEF VarCall, IsLength, Error, T
    <3>. QED BY <2>1, <2>3, <2>4, <3>1, RPassesOn
  <2>5. CASE e.type # Error /\ IsLength(n.of, e)
    <3>. DEFINE bad == n.given > 0
    <3>1. Answer(n, kids) = R(T("int"), bad, Provided(Pointer(e.ir), I32))
      BY <2>2, <2>5 DEF VarCall, IsLength, ArrayLength
    <3>2. T("int") \in Type /\ bad \in BOOLEAN
      BY DEF Type, Element, Literals
    <3>. HIDE DEF bad
    <3>. QED BY <2>3, <3>1, <3>2, ProvidedIs, RSound
  <2>6. CASE e.type # Error /\ ~IsLength(n.of, e) /\ e.type.kind = "class"
    <3>. DEFINE c == e.cls \/ Pointer(e.ir)
                ir == CallValue(n.of, ~e.cls, args)
    <3>1. Answer(n, kids) = [r EXCEPT !.ir = Provided(c, r.ir)]
      BY <2>2, <2>6 DEF VarCall
    <3>2. r \in {R(n.of.type, FALSE, ir), Bad}
      BY DEF Call
    <3>2a. ir \in {Value(n.of.type), NoCode}
      BY DEF CallValue, Provided
    <3>. HIDE DEF c, r, ir
    <3>2b. ir \in Values /\ ir # Empty
      BY <1>1, <3>2a, CodeOrNot
    <3>3. Provided(c, ir) \in Values /\ Provided(c, ir) # Empty
      BY <3>2b, ProvidedIs
    <3>4. CASE r = Bad
      <4>1. Answer(n, kids) = Bad
        BY <3>1, <3>4 DEF Bad, R, Provided
      <4>. QED BY <4>1, BadSound
    <3>5. CASE r = R(n.of.type, FALSE, ir)
      <4>1. Answer(n, kids) = R(n.of.type, FALSE, Provided(c, ir))
        BY <3>1, <3>5 DEF R
      <4>. QED BY <1>1, <3>3, <4>1, RSound
    <3>. QED BY <3>2, <3>4, <3>5
  <2>7. CASE e.type # Error /\ ~IsLength(n.of, e) /\ e.type.kind # "class"
    <3>1. Answer(n, kids) = Bad
      BY <2>2, <2>7 DEF VarCall
    <3>. QED BY <3>1, BadSound
  <2>. QED BY <2>4, <2>5, <2>6, <2>7
<1>. QED BY <1>2, <1>3 DEF CallOps

LEMMA AnswerSound ==
  ASSUME Flags, NEW n, NEW kids, n.op \in LeafOps \cup UnaryOps \cup BinaryOps \cup CallOps,
         Written(n), Ready(n, kids)
  PROVE  Sound(n, kids, Answer(n, kids))
BY LeafSound, UnarySound, BinarySound, CallSound

-----------------------------------------------------------------------------
Record(i, kids) == [node |-> i, kids |-> kids]

(* Nothing that has been decided depends on what comes after.              *)
LEMMA SameCompat ==
  ASSUME method' = method
  PROVE  \A a, b : IsCompat(a, b)' <=> IsCompat(a, b)
BY DEF method, IsCompat, SubClass

LEMMA SameCalls ==
  ASSUME method' = method, NEW found, NEW given, NEW args
  PROVE  /\ Args(found, given, args)' <=> Args(found, given, args)
         /\ MoreArgs(found, given, args)' <=> MoreArgs(found, given, args)
         /\ \A local, cls : MayCall(found, local, cls)' <=> MayCall(found, local, cls)
BY SameCompat DEF Args, MoreArgs, ArgsFit, MayCall, method

LEMMA SameMore ==
  ASSUME method' = method, NEW i, nodes'[i] = nodes[i], NEW kids
  PROVE  More(Record(i, kids))' <=> More(Record(i, kids))
BY SameCalls DEF More, Record, Form

LEMMA SameAnswer ==
  ASSUME method' = method, NEW n, NEW kids,
         n.op \in LeafOps \cup UnaryOps \cup BinaryOps \cup CallOps, n.op # "name"
  PROVE  Answer(n, kids)' = Answer(n, kids)
<1>1. CASE n.op \in LeafOps \ {"field", "this"}
  BY <1>1 DEF Answer, LeafOps, Variable, Read, New, Value
<1>2. CASE n.op \in {"field", "this"}
  BY <1>2 DEF Answer, Field, This, Variable, method
<1>3. CASE n.op \in UnaryOps
  BY <1>3, SameCompat DEF Answer, UnaryOps, VarSel, method
<1>4. CASE n.op \in BinaryOps
  BY <1>4, SameCompat DEF Answer, BinaryOps, Equality
<1>5. CASE n.op = "localCall"
  BY <1>5, SameCalls DEF Answer, LocalCall, Call, method
<1>6. CASE n.op = "varCall"
  BY <1>6, SameCalls DEF Answer, VarCall, Call
<1>. QED BY <1>1, <1>2, <1>3, <1>4, <1>5, <1>6 DEF CallOps

LEMMA SameRejects ==
  ASSUME method' = method, NEW n, NEW kids
  PROVE  Rejects(n, kids)' = Rejects(n, kids)
BY SameCompat DEF Rejects, RejectsAssign, RejectsInit, RejectsReturn

-----------------------------------------------------------------------------
(* The invariant.                                                          *)

Active(i) == \E k \in DOMAIN frames : frames[k].node = i
Answered(S, i) == S[nodes[i].parent][nodes[i].nth]
SelectsAt(i) == nodes[i].op \in Selecting

(* The prefix of the last call or selection before i contains i.           *)
InPrefix(U, i) ==
  \E p \in 1..(i - 1) :
    SelectsAt(p) /\ p + 1 \in U[i] /\ \A q \in (p + 1)..(i - 1) : ~SelectsAt(q)

NodeSet == {Node(e, p, m) : e \in Statements \cup Exprs, p \in Nat, m \in Nat}
Frame == [node : Nat, kids : Seq(Answers)]
KeptTypes == Type \cup {Error, Unset}

Typed ==
  /\ Flags /\ failed \in BOOLEAN
  /\ state \in {"visiting", "crashed", "rejected", "generated", "broken"}
  /\ nodes \in Seq(NodeSet) /\ Len(nodes) >= 1
  /\ frames \in Seq(Frame) /\ Len(frames) >= 1
  /\ exprTypes \in Seq(KeptTypes) /\ Len(exprTypes) = Len(nodes)

(* The nodes are a tree, in the order of a walk.                           *)
Place(i) ==
  LET n == nodes[i] IN
  /\ n.op \in LeafOps \cup UnaryOps \cup BinaryOps \cup CallOps /\ Written(n)
  /\ n.parent \in 1..(i - 1) /\ n.nth \in 1..Arity(nodes[n.parent])
  /\ n.nth = 1 => n.parent = i - 1
  /\ nodes[n.parent].op = "assign" /\ n.nth = 1 => n.op \in {"variable", "field", "varSel", "index"}

Shape ==
  /\ \E s \in Statements : nodes[1] = Node(s, 0, 0)
  /\ \A i \in 2..Len(nodes) : Place(i)
  /\ \A i, j \in 2..Len(nodes) :
       nodes[i].parent = nodes[j].parent /\ nodes[i].nth = nodes[j].nth => i = j

(* U[i] are i and its ancestors.                                           *)
Upward(U) ==
  /\ DOMAIN U = 1..Len(nodes) /\ U[1] = {1}
  /\ \A i \in 2..Len(nodes) : U[i] = {i} \cup U[nodes[i].parent]

(* The active visitors are one below the other.                            *)
Stack(S, U) ==
  /\ frames[1].node = 1
  /\ \A k \in 1..Len(frames) :
       LET i == frames[k].node IN
       /\ i \in 1..Len(nodes) /\ nodes[i].op \notin LeafOps
       /\ frames[k].kids = S[i]
       /\ U[i] = {frames[j].node : j \in 1..k}
  /\ \A k \in 1..(Len(frames) - 1) :
       LET n == nodes[frames[k + 1].node] IN
       frames[k + 1].node # 1 /\ n.parent = frames[k].node /\ n.nth = Len(frames[k].kids) + 1
  /\ \A j, k \in 1..Len(frames) : j < k => frames[j].node < frames[k].node
  /\ top.kids = <<>> => top.node = Len(nodes)

(* S has the answers of all nodes but the active ones, by place.           *)
Heard(S) ==
  /\ S \in [1..Len(nodes) -> Seq(Answers)]
  /\ \A i \in 1..Len(nodes) : Len(S[i]) <= Arity(nodes[i])
  /\ \A i \in 2..Len(nodes) : ~Active(i) => nodes[i].nth <= Len(S[nodes[i].parent])
  /\ \A i \in 1..Len(nodes) : \A m \in 1..Len(S[i]) :
       \E j \in 2..Len(nodes) : ~Active(j) /\ nodes[j].parent = i /\ nodes[j].nth = m

(* What a completed node has answered.                                     *)
Right(S, U, i) ==
  LET n == nodes[i] IN
  /\ n.op \notin LeafOps => ~More(Record(i, S[i]))
  /\ n.op # "name" => Answered(S, i) = Answer(n, S[i])
  /\ n.op = "name" => Answered(S, i) = IF InPrefix(U, i)
                                      THEN [type |-> Class(n.of), bad |-> FALSE,
                                            cls |-> TRUE, ir |-> NoCode]
                                      ELSE Bad
  /\ Answered(S, i).cls => n.op = "name"
  /\ Answered(S, i).ir = Empty => n.op \in {"paren", "read", "logical"}
  /\ Answered(S, i).type = Error => failed

(* The flag is up when the last call or selection is in its prefix.        *)
FlagRight ==
  allow <=> \E k \in 1..Len(frames) :
              /\ SelectsAt(frames[k].node) /\ frames[k].kids = <<>>
              /\ \A q \in (frames[k].node + 1)..Len(nodes) : ~SelectsAt(q)

TypesKept(S) ==
  /\ exprTypes[1] = Unset
  /\ \A i \in 2..Len(nodes) :
       exprTypes[i] = IF Active(i) THEN Unset ELSE Kept(nodes[i], Answered(S, i))

Reported(S) == \E i \in 2..Len(nodes) : ~Active(i) /\ Answered(S, i).bad

Verdict(S) ==
  IF ~Ended THEN failed <=> Reported(S)
  ELSE /\ Len(frames) = 1 /\ ~More(top)
       /\ failed <=> Reported(S) \/ Rejects(nodes[1], S[1])
       /\ state = IF failed THEN "rejected"
                  ELSE IF HasCode(nodes[1], S[1]) THEN "generated" ELSE "broken"

Parts(S, U) ==
  /\ Typed /\ Shape /\ Upward(U) /\ Stack(S, U) /\ Heard(S)
  /\ \A i \in 2..Len(nodes) : ~Active(i) => Right(S, U, i)
  /\ FlagRight /\ TypesKept(S) /\ Verdict(S)

ExpressionsInv == \E S, U : Parts(S, U)

LEMMA InitParts ==
  ASSUME Init
  PROVE  ExpressionsInv
<1>. DEFINE S == [i \in 1..1 |-> <<>>]
            U == [i \in 1..1 |-> {1}]
<1>1. PICK s \in Statements : nodes = <<Node(s, 0, 0)>>
  BY DEF Init
<1>2. /\ Len(nodes) = 1 /\ nodes[1] = Node(s, 0, 0)
      /\ Len(frames) = 1 /\ frames[1] = Record(1, <<>>)
      /\ exprTypes = <<Unset>> /\ Len(exprTypes) = 1 /\ exprTypes[1] = Unset
  BY <1>1 DEF Init, Record
<1>3. frames[1].node = 1 /\ frames[1].kids = <<>> /\ top = frames[1]
  BY <1>2 DEF Record, top
<1>4. nodes[1].op \in StatementOps
  BY <1>2, StatementsAre DEF Node
<1>5. Typed
  <2>1. Node(s, 0, 0) \in NodeSet
    BY DEF NodeSet
  <2>2. Record(1, <<>>) \in Frame
    BY EmptySeq DEF Frame, Record
  <2>3. nodes \in Seq(NodeSet) /\ frames \in Seq(Frame) /\ exprTypes \in Seq(KeptTypes)
    BY <1>1, <2>1, <2>2 DEF Init, KeptTypes, Record
  <2>4. Flags
    BY DEF Init, Flags
  <2>5. failed \in BOOLEAN /\ state = "visiting"
    BY DEF Init
  <2>. QED BY <1>2, <2>3, <2>4, <2>5 DEF Typed
<1>6. Shape
  BY <1>2 DEF Shape
<1>7. Upward(U)
  BY <1>2 DEF Upward
<1>8. Stack(S, U)
  <2>1. nodes[1].op \notin LeafOps
    BY <1>4 DEF StatementOps, LeafOps
  <2>. QED BY <1>2, <1>3, <2>1 DEF Stack
<1>9. Heard(S)
  <2>1. <<>> \in Seq(Answers) /\ Len(<<>>) = 0
    BY EmptySeq
  <2>2. Arity(nodes[1]) \in Nat
    BY <1>2, StatementsAre DEF Arity, Node, Written
  <2>. QED BY <1>2, <2>1, <2>2 DEF Heard
<1>10. FlagRight
  <2>1. ~SelectsAt(1) /\ allow = FALSE
    BY <1>4 DEF SelectsAt, Selecting, StatementOps, Init
  <2>. QED BY <1>2, <1>3, <2>1 DEF FlagRight
<1>11. TypesKept(S) /\ Verdict(S)
  BY <1>2 DEF TypesKept, Verdict, Ended, Reported, Init
<1>12. \A i \in 2..Len(nodes) : ~Active(i) => Right(S, U, i)
  BY <1>2
<1>. QED BY <1>5, <1>6, <1>7, <1>8, <1>9, <1>10, <1>11, <1>12 DEF Parts, ExpressionsInv

-----------------------------------------------------------------------------
(* What the parts say of the frames and of the tree.                       *)

LEMMA FrameFacts ==
  ASSUME NEW S, NEW U, Parts(S, U)
  PROVE  /\ Len(nodes) \in Nat /\ Len(nodes) >= 1
         /\ Len(frames) \in Nat /\ Len(frames) >= 1 /\ DOMAIN frames = 1..Len(frames)
         /\ \A k \in 1..Len(frames) :
              /\ frames[k] \in Frame /\ frames[k].kids \in Seq(Answers)
              /\ frames[k].node \in 1..Len(nodes) /\ frames[k].kids = S[frames[k].node]
         /\ \A i : Active(i) <=> \E k \in 1..Len(frames) : frames[k].node = i
         /\ top = frames[Len(frames)] /\ Len(frames) \in 1..Len(frames)
<1>1. Len(nodes) \in Nat /\ Len(nodes) >= 1
  BY LenProperties DEF Parts, Typed
<1>2. Len(frames) \in Nat /\ Len(frames) >= 1 /\ DOMAIN frames = 1..Len(frames)
  BY LenProperties DEF Parts, Typed
<1>3. \A k \in 1..Len(frames) : frames[k] \in Frame
  BY ElementOfSeq DEF Parts, Typed
<1>4. \A k \in 1..Len(frames) : frames[k].kids \in Seq(Answers)
  BY <1>3 DEF Frame
<1>5. \A k \in 1..Len(frames) :
        frames[k].node \in 1..Len(nodes) /\ frames[k].kids = S[frames[k].node]
  BY DEF Parts, Stack
<1>6. \A i : Active(i) <=> \E k \in 1..Len(frames) : frames[k].node = i
  BY <1>2 DEF Active
<1>. QED BY <1>1, <1>2, <1>3, <1>4, <1>5, <1>6 DEF top

LEMMA NodeFacts ==
  ASSUME NEW S, NEW U, Parts(S, U), NEW i \in 1..Len(nodes)
  PROVE  /\ Written(nodes[i]) /\ Arity(nodes[i]) \in Nat
         /\ S[i] \in Seq(Answers) /\ Len(S[i]) \in Nat /\ DOMAIN S[i] = 1..Len(S[i])
         /\ i = 1 => nodes[i].op \in StatementOps /\ nodes[i].parent = 0 /\ nodes[i].nth = 0
         /\ i # 1 => Place(i) /\ i \in 2..Len(nodes)
                     /\ nodes[i].op \in LeafOps \cup UnaryOps \cup BinaryOps \cup CallOps
                     /\ nodes[i].parent \in 1..(i - 1) /\ nodes[i].nth \in Nat
<1>1. Len(nodes) \in Nat
  BY FrameFacts
<1>2. S[i] \in Seq(Answers)
  BY DEF Parts, Heard
<1>3. Len(S[i]) \in Nat /\ DOMAIN S[i] = 1..Len(S[i])
  BY <1>2, LenProperties
<1>4. i = 1 => /\ Written(nodes[i]) /\ nodes[i].op \in StatementOps
               /\ nodes[i].parent = 0 /\ nodes[i].nth = 0
  BY StatementsAre DEF Parts, Shape, Node, Written
<1>5. i # 1 => Place(i) /\ i \in 2..Len(nodes)
  BY <1>1 DEF Parts, Shape
<1>6. Written(nodes[i]) /\ Arity(nodes[i]) \in Nat
  BY <1>4, <1>5 DEF Place, Written, Arity
<1>7. i # 1 => /\ nodes[i].op \in LeafOps \cup UnaryOps \cup BinaryOps \cup CallOps
               /\ nodes[i].parent \in 1..(i - 1)
  BY <1>5 DEF Place
<1>8. i # 1 => nodes[i].nth \in 1..Arity(nodes[nodes[i].parent])
  BY <1>5 DEF Place
<1>. QED BY <1>1, <1>2, <1>3, <1>4, <1>5, <1>6, <1>7, <1>8

LEMMA MoreIs ==
  ASSUME NEW f
  PROVE  LET n == nodes[f.node]
             visited == Len(f.kids) IN
         More(f) <=>
           IF n.op = "varCall" /\ visited > 0
           THEN /\ f.kids[1].type.kind = "class"
                /\ MayCall(n.of, FALSE, f.kids[1].cls)
                /\ MoreArgs(n.of, n.given, Tail(f.kids))
           ELSE IF n.op = "localCall"
           THEN MayCall(n.of, TRUE, FALSE) /\ MoreArgs(n.of, n.given, f.kids)
           ELSE visited < IF n.op \in BinaryOps \cup {"assign"} THEN 2 ELSE 1
<1>1. {b.op : b \in Binaries} = BinaryOps
  <2>1. \A op \in BinaryOps : Op(op, NoBase) \in Binaries /\ Op(op, NoBase).op = op
    BY DEF Binaries, BinaryOps, Op
  <2>2. \A b \in Binaries : b.op \in BinaryOps
    BY DEF Binaries, BinaryOps, Op
  <2>. QED BY <2>1, <2>2
<1>2. "varCall" \notin BinaryOps /\ "localCall" \notin BinaryOps
  BY DEF BinaryOps
<1>. QED BY <1>1, <1>2 DEF More, Form

LEMMA MoreArity ==
  ASSUME NEW f, f.kids \in Seq(Answers), Written(nodes[f.node]),
         nodes[f.node].op \notin LeafOps, More(f)
  PROVE  Len(f.kids) + 1 <= Arity(nodes[f.node])
<1>. DEFINE n == nodes[f.node]
<1>1. n.given \in Nat /\ Len(f.kids) \in Nat
  BY LenProperties DEF Written
<1>2. CASE n.op = "varCall" /\ Len(f.kids) > 0
  <2>1. Len(Tail(f.kids)) < n.given
    BY <1>2, MoreIs DEF MoreArgs
  <2>2. Len(Tail(f.kids)) = Len(f.kids) - 1
    BY <1>2, HeadTailProperties, EmptySeq
  <2>. QED BY <1>1, <1>2, <2>1, <2>2 DEF Arity, LeafOps
<1>3. CASE n.op = "varCall" /\ ~(Len(f.kids) > 0)
  BY <1>1, <1>3 DEF Arity, LeafOps
<1>4. CASE n.op = "localCall"
  <2>1. Len(f.kids) < n.given
    BY <1>4, MoreIs DEF MoreArgs
  <2>2. Arity(n) = n.given
    BY <1>4 DEF Arity, LeafOps
  <2>. QED BY <1>1, <2>1, <2>2
<1>5. CASE n.op \notin CallOps
  <2>1. Len(f.kids) < IF n.op \in BinaryOps \cup {"assign"} THEN 2 ELSE 1
    BY <1>5, MoreIs DEF CallOps
  <2>2. Arity(n) = IF n.op \in BinaryOps \cup {"assign"} THEN 2 ELSE 1
    BY <1>5 DEF Arity, CallOps
  <2>. QED BY <1>1, <2>1, <2>2
<1>. QED BY <1>2, <1>3, <1>4, <1>5 DEF CallOps

(* A completed node has the subexpressions its visitor wants.              *)
LEMMA CompletedHas ==
  ASSUME NEW i, NEW kids \in Seq(Answers), ~More(Record(i, kids))
  PROVE  /\ nodes[i].op \in BinaryOps \cup {"assign"} => Len(kids) >= 2
         /\ nodes[i].op \in UnaryOps \cup {"varCall"} \cup StatementOps => Len(kids) >= 1
<1>1. Len(kids) \in Nat /\ Record(i, kids).node = i /\ Record(i, kids).kids = kids
  BY LenProperties DEF Record
<1>2. "localCall" \notin UnaryOps \cup BinaryOps \cup StatementOps
  BY DEF UnaryOps, BinaryOps, StatementOps
<1>3. "varCall" \notin UnaryOps \cup BinaryOps \cup StatementOps
  BY DEF UnaryOps, BinaryOps, StatementOps
<1>4. ~More(Record(i, kids)) =>
        \/ nodes[i].op = "localCall"
        \/ nodes[i].op = "varCall" /\ Len(kids) > 0
        \/ ~(Len(kids) < IF nodes[i].op \in BinaryOps \cup {"assign"} THEN 2 ELSE 1)
  BY <1>1, MoreIs
<1>. QED BY <1>1, <1>2, <1>3, <1>4

(* The node after one that has a subexpression is the first of those.      *)
LEMMA FirstKid ==
  ASSUME NEW S, NEW U, Parts(S, U), NEW p \in 1..Len(nodes),
         nodes[p].op \in UnaryOps \cup BinaryOps \cup {"varCall"} \cup StatementOps
  PROVE  /\ p < Len(nodes) => nodes[p + 1].parent = p /\ nodes[p + 1].nth = 1
         /\ p = Len(nodes) => \E k \in 1..Len(frames) : frames[k].node = p /\ frames[k].kids = <<>>
<1>1. Len(nodes) \in Nat /\ Len(frames) \in Nat
  BY FrameFacts
<1>2. S[p] \in Seq(Answers) /\ Len(S[p]) \in Nat /\ (S[p] # <<>> => Len(S[p]) >= 1)
  BY NodeFacts, EmptySeq
<1>3. CASE S[p] # <<>>
  <2>1. 1 \in 1..Len(S[p])
    BY <1>2, <1>3
  <2>2. PICK j \in 2..Len(nodes) : nodes[j].parent = p /\ nodes[j].nth = 1
    BY <2>1 DEF Parts, Heard
  <2>3. Place(j)
    BY <2>2 DEF Parts, Shape
  <2>4. p = j - 1
    BY <2>2, <2>3 DEF Place
  <2>. QED BY <1>1, <2>2, <2>4
<1>4. CASE S[p] = <<>>
  <2>1. PICK k \in 1..Len(frames) : frames[k].node = p
    <3>1. CASE p = 1
      BY <1>1, <3>1, FrameFacts DEF Parts, Stack
    <3>2. CASE p # 1
      <4>1. p \in 2..Len(nodes)
        BY <1>1, <3>2
      <4>2. SUFFICES ASSUME ~Active(p) PROVE FALSE
        BY FrameFacts
      <4>3. ~More(Record(p, S[p])) \/ nodes[p].op \in LeafOps
        BY <4>1, <4>2 DEF Parts, Right
      <4>4. nodes[p].op \notin LeafOps
        BY DEF UnaryOps, BinaryOps, StatementOps, LeafOps
      <4>5. Len(S[p]) >= 1
        BY <1>2, <4>3, <4>4, CompletedHas
      <4>. QED BY <1>4, <4>5, EmptySeq
    <3>. QED BY <3>1, <3>2
  <2>2. frames[k].kids = <<>>
    BY <1>4, <2>1, FrameFacts
  <2>3. CASE k = Len(frames)
    <3>1. p = Len(nodes)
      BY <2>1, <2>2, <2>3 DEF Parts, Stack, top
    <3>. QED BY <1>1, <2>1, <2>2, <3>1
  <2>4. CASE k # Len(frames)
    <3>. DEFINE j == frames[k + 1].node
    <3>1. k \in 1..(Len(frames) - 1) /\ k + 1 \in 1..Len(frames)
      BY <1>1, <2>4
    <3>2. j # 1 /\ nodes[j].parent = p /\ nodes[j].nth = Len(frames[k].kids) + 1
      BY <2>1, <3>1 DEF Parts, Stack
    <3>3. j \in 1..Len(nodes) /\ nodes[j].nth = 1
      BY <2>2, <3>1, <3>2, FrameFacts, EmptySeq
    <3>4. Place(j)
      BY <1>1, <3>2, <3>3 DEF Parts, Shape
    <3>5. p = j - 1
      BY <3>2, <3>3, <3>4 DEF Place
    <3>. HIDE DEF j
    <3>. QED BY <1>1, <3>2, <3>3, <3>5
  <2>. QED BY <2>3, <2>4
<1>. QED BY <1>3, <1>4

LEMMA FramesApart ==
  ASSUME NEW S, NEW U, Parts(S, U), NEW j \in 1..Len(frames), NEW k \in 1..Len(frames),
         frames[j].node = frames[k].node
  PROVE  j = k
<1>1. frames[j].node \in Nat /\ frames[k].node \in Nat /\ Len(frames) \in Nat
  BY FrameFacts
<1>2. ~(j < k) /\ ~(k < j)
  BY <1>1 DEF Parts, Stack
<1>. QED BY <1>1, <1>2

(* The flag is up exactly when the next node is in the prefix of the last  *)
(* call or selection.                                                      *)
LEMMA FlagIsPrefix ==
  ASSUME NEW S, NEW U, Parts(S, U)
  PROVE  allow <=> \E p \in 1..Len(nodes) :
                     /\ SelectsAt(p) /\ p + 1 \in {Len(nodes) + 1} \cup U[top.node]
                     /\ \A q \in (p + 1)..Len(nodes) : ~SelectsAt(q)
<1>1. Len(nodes) \in Nat /\ Len(frames) \in Nat /\ Len(frames) >= 1
  BY FrameFacts
<1>2. U[top.node] = {frames[j].node : j \in 1..Len(frames)}
  <2>1. Len(frames) \in 1..Len(frames)
    BY <1>1
  <2>2. U[frames[Len(frames)].node] = {frames[j].node : j \in 1..Len(frames)}
    BY <2>1 DEF Parts, Stack
  <2>. QED BY <2>2 DEF top
<1>3. ASSUME NEW k \in 1..Len(frames), SelectsAt(frames[k].node), frames[k].kids = <<>>,
             \A q \in (frames[k].node + 1)..Len(nodes) : ~SelectsAt(q)
      PROVE  \E p \in 1..Len(nodes) :
               /\ SelectsAt(p) /\ p + 1 \in {Len(nodes) + 1} \cup U[top.node]
               /\ \A q \in (p + 1)..Len(nodes) : ~SelectsAt(q)
  <2>. DEFINE p == frames[k].node
  <2>1. p \in 1..Len(nodes)
    BY FrameFacts
  <2>2. CASE k = Len(frames)
    <3>1. p = Len(nodes)
      BY <1>3, <2>2 DEF Parts, Stack, top
    <3>. QED BY <1>3, <2>1, <3>1
  <2>3. CASE k # Len(frames)
    <3>. DEFINE j == frames[k + 1].node
    <3>1. k \in 1..(Len(frames) - 1) /\ k + 1 \in 1..Len(frames)
      BY <1>1, <2>3
    <3>2. j # 1 /\ nodes[j].parent = p /\ nodes[j].nth = Len(frames[k].kids) + 1
      BY <3>1 DEF Parts, Stack
    <3>3. j \in 1..Len(nodes) /\ nodes[j].nth = 1
      BY <1>3, <3>1, <3>2, FrameFacts, EmptySeq
    <3>4. Place(j)
      BY <1>1, <3>2, <3>3 DEF Parts, Shape
    <3>5. p = j - 1
      BY <3>2, <3>3, <3>4 DEF Place
    <3>6. p + 1 = j
      BY <2>1, <3>3, <3>5
    <3>7. p + 1 \in U[top.node]
      BY <1>2, <3>1, <3>6
    <3>. QED BY <1>3, <2>1, <3>7
  <2>. QED BY <2>2, <2>3
<1>4. ASSUME NEW p \in 1..Len(nodes), SelectsAt(p), p + 1 \in {Len(nodes) + 1} \cup U[top.node],
             \A q \in (p + 1)..Len(nodes) : ~SelectsAt(q)
      PROVE  \E k \in 1..Len(frames) :
               /\ SelectsAt(frames[k].node) /\ frames[k].kids = <<>>
               /\ \A q \in (frames[k].node + 1)..Len(nodes) : ~SelectsAt(q)
  <2>1. nodes[p].op \in UnaryOps \cup BinaryOps \cup {"varCall"} \cup StatementOps
    BY <1>4 DEF SelectsAt, Selecting, UnaryOps
  <2>2. CASE p = Len(nodes)
    BY <1>4, <2>1, <2>2, FirstKid
  <2>3. CASE p # Len(nodes)
    <3>1. p < Len(nodes) /\ nodes[p + 1].parent = p /\ nodes[p + 1].nth = 1
      BY <1>1, <2>1, <2>3, FirstKid
    <3>2. PICK j \in 1..Len(frames) : frames[j].node = p + 1
      BY <1>1, <1>2, <1>4, <3>1
    <3>3. j # 1 /\ j - 1 \in 1..(Len(frames) - 1) /\ j - 1 \in 1..Len(frames) /\ (j - 1) + 1 = j
      <4>1. frames[1].node = 1
        BY DEF Parts, Stack
      <4>2. p # 0 /\ p \in Nat
        BY <1>1
      <4>3. j # 1
        BY ONLY <3>2, <4>1, <4>2
      <4>. QED BY ONLY <1>1, <3>2, <4>3
    <3>4. p = frames[j - 1].node /\ 1 = Len(frames[j - 1].kids) + 1
      <4>1. \A k \in 1..(Len(frames) - 1) :
              /\ nodes[frames[k + 1].node].parent = frames[k].node
              /\ nodes[frames[k + 1].node].nth = Len(frames[k].kids) + 1
        BY DEF Parts, Stack
      <4>2. PICK k \in 1..(Len(frames) - 1) : k = j - 1
        BY <3>3
      <4>3. frames[k + 1].node = p + 1
        BY <3>2, <3>3, <4>2
      <4>. QED BY ONLY <3>1, <4>1, <4>2, <4>3
    <3>5. frames[j - 1].kids \in Seq(Answers) /\ Len(frames[j - 1].kids) \in Nat
      BY <3>3, FrameFacts, LenProperties
    <3>6. frames[j - 1].kids = <<>>
      BY <3>4, <3>5, EmptySeq
    <3>. QED BY <1>4, <3>3, <3>4, <3>6
  <2>. QED BY <2>2, <2>3
<1>5. allow <=> \E k \in 1..Len(frames) :
                  /\ SelectsAt(frames[k].node) /\ frames[k].kids = <<>>
                  /\ \A q \in (frames[k].node + 1)..Len(nodes) : ~SelectsAt(q)
  BY DEF Parts, FlagRight
<1>. QED BY <1>3, <1>4, <1>5

-----------------------------------------------------------------------------
(* Visiting a subexpression adds its node to the tree.                     *)
LEMMA NewNode ==
  ASSUME NEW S, NEW U, Parts(S, U), NEW e \in Exprs, Visits(e)
  PROVE  LET new == Len(nodes) + 1 IN
         /\ nodes' \in Seq(NodeSet) /\ Len(nodes') = new
         /\ \A i \in 1..Len(nodes) : nodes'[i] = nodes[i]
         /\ nodes'[new].op = e.op /\ nodes'[new].of = e.of /\ nodes'[new].given = e.given
         /\ nodes'[new].parent = top.node /\ nodes'[new].nth = Len(top.kids) + 1
         /\ Len(top.kids) + 1 <= Arity(nodes[top.node]) /\ top.node \in 1..Len(nodes)
         /\ Shape'
<1>. DEFINE N == Len(nodes)
            new == Len(nodes) + 1
            n == Node(e, top.node, Len(top.kids) + 1)
<1>1. /\ N \in Nat /\ N >= 1 /\ Len(frames) \in 1..Len(frames) /\ Len(frames) \in Nat
      /\ top = frames[Len(frames)] /\ top.node \in 1..N
      /\ top.kids \in Seq(Answers) /\ top.kids = S[top.node]
  BY FrameFacts
<1>2. Len(top.kids) \in Nat
  BY <1>1, LenProperties
<1>3. n \in NodeSet /\ nodes \in Seq(NodeSet) /\ nodes' = Append(nodes, n)
  <2>1. top.node \in Nat /\ Len(top.kids) + 1 \in Nat
    BY <1>1, <1>2
  <2>2. n \in NodeSet
    BY <2>1 DEF NodeSet
  <2>. QED BY <2>2 DEF Parts, Typed, Visits
<1>4. nodes' \in Seq(NodeSet) /\ Len(nodes') = new /\ nodes'[new] = n
      /\ \A i \in 1..N : nodes'[i] = nodes[i]
  BY <1>3, AppendProperties
<1>5. /\ n.op = e.op /\ n.of = e.of /\ n.given = e.given
      /\ n.parent = top.node /\ n.nth = Len(top.kids) + 1
  BY DEF Node
<1>6. Len(top.kids) + 1 <= Arity(nodes[top.node])
  <2>1. Written(nodes[top.node])
    BY <1>1, NodeFacts
  <2>2. nodes[top.node].op \notin LeafOps
    BY <1>1 DEF Parts, Stack
  <2>. QED BY <1>1, <2>1, <2>2, MoreArity DEF Visits
<1>. HIDE DEF n
<1>7. ASSUME NEW i, i = new PROVE Place(i)'
  <2>1. e.op \in LeafOps \cup UnaryOps \cup BinaryOps \cup CallOps /\ Written(e)
    BY ExprsAre
  <2>2. Written(n)
    BY <1>5, <2>1 DEF Written
  <2>3. n.parent \in 1..(new - 1) /\ nodes'[n.parent] = nodes[top.node]
    BY <1>1, <1>4, <1>5
  <2>4. n.nth \in 1..Arity(nodes[top.node])
    BY <1>1, <1>2, <1>5, <1>6, NodeFacts
  <2>5. n.nth = 1 => n.parent = new - 1
    <3>1. top.kids = <<>> => top.node = N
      BY DEF Parts, Stack
    <3>. QED BY <1>1, <1>2, <1>5, <3>1, EmptySeq
  <2>6. nodes[top.node].op = "assign" /\ n.nth = 1 => n.op \in {"variable", "field", "varSel", "index"}
    BY <1>5 DEF Visits, Fits, Form, Prefixed
  <2>. QED BY <1>4, <1>5, <1>7, <2>1, <2>2, <2>3, <2>4, <2>5, <2>6 DEF Place
<1>8. \A i \in 2..N : nodes[i].parent # top.node \/ nodes[i].nth # Len(top.kids) + 1
  <2>. SUFFICES ASSUME NEW i \in 2..N, nodes[i].parent = top.node,
                       nodes[i].nth = Len(top.kids) + 1
                PROVE  FALSE
    OBVIOUS
  <2>1. CASE ~Active(i)
    <3>1. nodes[i].nth <= Len(S[top.node])
      BY <2>1 DEF Parts, Heard
    <3>. QED BY <1>1, <1>2, <3>1
  <2>2. CASE Active(i)
    <3>1. PICK k \in 1..Len(frames) : frames[k].node = i
      BY <2>2, FrameFacts
    <3>2. k # 1 /\ k - 1 \in 1..(Len(frames) - 1) /\ (k - 1) + 1 = k
      BY <1>1, <3>1 DEF Parts, Stack
    <3>3. nodes[i].parent = frames[k - 1].node
      BY <3>1, <3>2 DEF Parts, Stack
    <3>4. k - 1 \in 1..Len(frames) /\ frames[k - 1].node = frames[Len(frames)].node
      BY <1>1, <3>2, <3>3
    <3>5. k - 1 = Len(frames)
      BY <1>1, <3>4, FramesApart
    <3>. QED BY <1>1, <3>2, <3>5
  <2>. QED BY <2>1, <2>2
<1>9. Shape'
  <2>1. \E s \in Statements : nodes'[1] = Node(s, 0, 0)
    BY <1>1, <1>4 DEF Parts, Shape
  <2>2. \A i \in 2..N : Place(i)'
    <3>. SUFFICES ASSUME NEW i \in 2..N PROVE Place(i)'
      OBVIOUS
    <3>1. Place(i) /\ nodes'[i] = nodes[i]
      BY <1>1, <1>4 DEF Parts, Shape
    <3>2. nodes[i].parent \in 1..N
      BY <1>1, <3>1 DEF Place
    <3>3. nodes'[nodes[i].parent] = nodes[nodes[i].parent]
      BY <1>4, <3>2
    <3>. QED BY <3>1, <3>3 DEF Place
  <2>3. \A i \in 2..new : i \in 2..N \/ i = new
    BY <1>1
  <2>4. \A i, j \in 2..N :
          nodes[i].parent = nodes[j].parent /\ nodes[i].nth = nodes[j].nth => i = j
    BY DEF Parts, Shape
  <2>5. \A i, j \in 2..new :
          nodes'[i].parent = nodes'[j].parent /\ nodes'[i].nth = nodes'[j].nth => i = j
    <3>1. \A i \in 2..N : nodes'[i] = nodes[i]
      BY <1>1, <1>4
    <3>2. \A i \in 2..N : ~(nodes'[i].parent = nodes'[new].parent /\ nodes'[i].nth = nodes'[new].nth)
      BY <1>4, <1>5, <1>8, <3>1
    <3>3. ASSUME NEW i \in 2..new, NEW j \in 2..new,
                 nodes'[i].parent = nodes'[j].parent, nodes'[i].nth = nodes'[j].nth
          PROVE  i = j
      <4>1. CASE i \in 2..N /\ j \in 2..N
        <5>1. nodes[i].parent = nodes[j].parent /\ nodes[i].nth = nodes[j].nth
          BY <3>1, <3>3, <4>1
        <5>. QED BY <2>4, <4>1, <5>1
      <4>2. CASE i = new \/ j = new
        BY <2>3, <3>2, <3>3, <4>2
      <4>. QED BY <2>3, <4>1, <4>2
    <3>. QED BY <3>3
  <2>6. \A i \in 2..new : Place(i)'
    BY <1>7, <2>2, <2>3
  <2>7. Len(nodes') = new
    BY <1>4
  <2>. HIDE DEF new
  <2>. QED BY <2>1, <2>5, <2>6, <2>7 DEF Shape
<1>. QED BY <1>1, <1>4, <1>5, <1>6, <1>9

(* An answer goes to the visitor that is the last of fs.                   *)
LEMMA ReturnTo ==
  ASSUME NEW r \in Answers, NEW fs \in Seq(Frame), fs # <<>>, Return(r, fs)
  PROVE  LET m == Len(fs) IN
         /\ frames' \in Seq(Frame) /\ Len(frames') = m /\ m \in Nat /\ m >= 1
         /\ \A k \in 1..m : frames'[k].node = fs[k].node
         /\ \A k \in 1..m : k # m => frames'[k].kids = fs[k].kids
         /\ frames'[m].kids = Append(fs[m].kids, r)
<1>. DEFINE m == Len(fs)
            g == [fs[m] EXCEPT !.kids = Append(fs[m].kids, r)]
<1>1. m \in Nat /\ m >= 1 /\ m \in 1..m
  BY LenProperties, EmptySeq
<1>2. fs[m] \in Frame /\ fs[m].kids \in Seq(Answers) /\ fs[m].node \in Nat
  <2>1. fs[m] \in Frame
    BY <1>1, ElementOfSeq
  <2>. QED BY <2>1 DEF Frame
<1>3. Append(fs[m].kids, r) \in Seq(Answers)
  BY <1>2, AppendProperties
<1>4. g \in Frame /\ g.node = fs[m].node /\ g.kids = Append(fs[m].kids, r)
  BY <1>2, <1>3 DEF Frame
<1>5. frames' = [fs EXCEPT ![m] = g]
  BY DEF Return
<1>. HIDE DEF g
<1>6. frames' \in Seq(Frame) /\ Len(frames') = m
      /\ \A k \in 1..m : frames'[k] = IF k = m THEN g ELSE fs[k]
  BY <1>1, <1>4, <1>5, ExceptSeq
<1>. QED BY <1>1, <1>4, <1>6

(* What a completed node has answered stays.                               *)
LEMMA StillRight ==
  ASSUME NEW S, NEW U, Parts(S, U), NEW i \in 2..Len(nodes), ~Active(i),
         method' = method, \A j \in 1..Len(nodes) : nodes'[j] = nodes[j], failed => failed',
         NEW S2, NEW U2, S2[i] = S[i], U2[i] = U[i],
         \A m \in 1..Len(S[nodes[i].parent]) : S2[nodes[i].parent][m] = S[nodes[i].parent][m]
  PROVE  Right(S2, U2, i)' /\ Answered(S2, i)' = Answered(S, i)
<1>1. Len(nodes) \in Nat /\ i \in 1..Len(nodes) /\ nodes'[i] = nodes[i]
  BY FrameFacts
<1>2. Right(S, U, i)
  BY DEF Parts
<1>3. Answered(S2, i)' = Answered(S, i)
  <2>1. Place(i)
    BY DEF Parts, Shape
  <2>2. nodes[i].nth \in Nat /\ nodes[i].nth >= 1 /\ nodes[i].nth <= Len(S[nodes[i].parent])
    <3>1. nodes[i].nth \in 1..Arity(nodes[nodes[i].parent])
      BY <2>1 DEF Place
    <3>2. nodes[i].nth <= Len(S[nodes[i].parent])
      BY DEF Parts, Heard
    <3>. QED BY <3>1, <3>2
  <2>3. nodes[i].parent \in 1..Len(nodes)
    BY <1>1, <2>1 DEF Place
  <2>4. Len(S[nodes[i].parent]) \in Nat
    BY <2>3, NodeFacts
  <2>. QED BY <1>1, <2>2, <2>4 DEF Answered
<1>4. More(Record(i, S2[i]))' <=> More(Record(i, S[i]))
  BY <1>1, SameMore
<1>5. nodes[i].op \in LeafOps \cup UnaryOps \cup BinaryOps \cup CallOps
  BY <1>1, NodeFacts
<1>6. ASSUME NEW n, n = nodes[i], n.op # "name"
      PROVE  Answer(n, S2[i])' = Answer(n, S[i])
  BY <1>1, <1>5, <1>6, SameAnswer
<1>7. InPrefix(U2, i)' <=> InPrefix(U, i)
  <2>1. \A q \in 1..(i - 1) : SelectsAt(q)' <=> SelectsAt(q)
    BY <1>1 DEF SelectsAt
  <2>2. \A p \in 1..(i - 1) : \A q \in (p + 1)..(i - 1) : q \in 1..(i - 1)
    OBVIOUS
  <2>. QED BY <2>1, <2>2 DEF InPrefix
<1>. QED BY <1>1, <1>2, <1>3, <1>4, <1>6, <1>7 DEF Right

-----------------------------------------------------------------------------
(* Each step keeps the parts.                                              *)

LEMMA FlagWitness ==
  ASSUME NEW S, NEW U, Parts(S, U), NEW j \in 1..Len(frames), NEW k \in 1..Len(frames),
         SelectsAt(frames[j].node), \A q \in (frames[j].node + 1)..Len(nodes) : ~SelectsAt(q),
         SelectsAt(frames[k].node), \A q \in (frames[k].node + 1)..Len(nodes) : ~SelectsAt(q)
  PROVE  j = k
<1>1. /\ Len(nodes) \in Nat /\ frames[j].node \in 1..Len(nodes)
      /\ frames[k].node \in 1..Len(nodes)
  BY FrameFacts
<1>2. frames[j].node = frames[k].node
  BY <1>1
<1>. QED BY <1>2, FramesApart

LeafVisited(e, r) ==
  /\ r = Answer(e, <<>>) /\ Visits(e) /\ Return(r, frames)
  /\ exprTypes' = Append(exprTypes, Kept(nodes'[Len(nodes')], r))

LEMMA LeafStep ==
  ASSUME NEW S, NEW U, Parts(S, U), NEW e \in Leaves, NEW r, LeafVisited(e, r),
         NEW t, t = top.node, NEW N, N = Len(nodes)
  PROVE  ExpressionsInv'
<1>. DEFINE D == Len(frames)
<1>1. N \in Nat /\ N >= 1 /\ D \in 1..D /\ D \in Nat
  BY FrameFacts
<1>1a. /\ t \in 1..N /\ top = frames[D] /\ frames[D].node = t /\ top.kids = S[t]
       /\ S[t] \in Seq(Answers) /\ frames \in Seq(Frame)
  BY FrameFacts DEF Parts, Typed
<1>1b. \A k \in 1..D : /\ frames[k].node \in 1..N /\ frames[k].kids = S[frames[k].node]
                       /\ frames[k].kids \in Seq(Answers)
  BY FrameFacts
<1>1c. \A i : Active(i) <=> \E k \in 1..D : frames[k].node = i
  BY FrameFacts
<1>2. e \in Exprs /\ e.op \in LeafOps /\ Written(e)
  BY ExprsAre DEF Exprs
<1>3. Sound(e, <<>>, r) /\ r \in Answers /\ Len(<<>>) = 0 /\ <<>> \in Seq(Answers)
  <2>1. Flags
    BY DEF Parts, Typed
  <2>. QED BY <1>2, <2>1, LeafSound, EmptySeq DEF Sound, LeafVisited
<1>4. /\ nodes' \in Seq(NodeSet) /\ Len(nodes') = N + 1
      /\ \A i \in 1..N : nodes'[i] = nodes[i]
      /\ nodes'[N + 1].op = e.op /\ nodes'[N + 1].of = e.of /\ nodes'[N + 1].given = e.given
      /\ nodes'[N + 1].parent = t /\ nodes'[N + 1].nth = Len(S[t]) + 1
      /\ Len(S[t]) + 1 <= Arity(nodes[t])
      /\ Shape'
  BY <1>1, <1>1a, <1>2, NewNode DEF LeafVisited
<1>5. /\ frames' \in Seq(Frame) /\ Len(frames') = D /\ DOMAIN frames' = 1..D
      /\ \A k \in 1..D : frames'[k].node = frames[k].node
      /\ \A k \in 1..D : k # D => frames'[k].kids = frames[k].kids
      /\ frames'[D].kids = Append(S[t], r) 
  <2>1. frames # <<>>
    BY <1>1, <1>1a, EmptySeq
  <2>. QED BY <1>1a, <1>3, <2>1, ReturnTo, LenProperties DEF LeafVisited
<1>6. PICK a \in Seq(Answers) :
        /\ a = Append(S[t], r) /\ a # <<>> /\ Len(S[t]) \in Nat /\ Len(a) = Len(S[t]) + 1
        /\ \A m \in 1..Len(S[t]) : a[m] = S[t][m]
        /\ a[Len(S[t]) + 1] = r
  <2>1. S[t] \in Seq(Answers) /\ r \in Answers
    BY <1>1a, <1>3
  <2>2. /\ Append(S[t], r) \in Seq(Answers) /\ Append(S[t], r) # <<>> /\ Len(S[t]) \in Nat
        /\ Len(Append(S[t], r)) = Len(S[t]) + 1
        /\ \A m \in 1..Len(S[t]) : Append(S[t], r)[m] = S[t][m]
        /\ Append(S[t], r)[Len(S[t]) + 1] = r
    BY <2>1, AppendProperties, LenProperties
  <2>. QED BY <2>2
<1>6a. /\ a # <<>> /\ Len(S[t]) \in Nat /\ Len(a) = Len(S[t]) + 1
       /\ \A m \in 1..Len(S[t]) : a[m] = S[t][m]
       /\ a[Len(S[t]) + 1] = r
  BY <1>6
<1>7. /\ method' = method /\ state = "visiting" /\ state' = state /\ failed' = (failed \/ r.bad)
      /\ allow' = (allow /\ ~(SelectsAt(t) /\ S[t] = <<>>))
  <2>1. Visits(e) /\ Return(r, frames)
    BY DEF LeafVisited
  <2>2. /\ failed' = (failed \/ r.bad)
        /\ allow' = (allow /\ ~(nodes[frames[D].node].op \in Selecting /\ frames[D].kids = <<>>))
    BY ONLY <2>1 DEF Return, Form
  <2>3. method' = method /\ state = "visiting" /\ state' = state
    BY ONLY <2>1 DEF Visits
  <2>4. frames[D].node = t /\ frames[D].kids = S[t]
    BY <1>1a
  <2>. QED BY ONLY <2>2, <2>3, <2>4 DEF SelectsAt
<1>8. \A i : Active(i)' <=> Active(i)
  <2>1. \A i : Active(i)' <=> \E k \in 1..D : frames'[k].node = i
    BY <1>5 DEF Active
  <2>2. \A k \in 1..D : frames'[k].node = frames[k].node
    BY <1>5
  <2>. QED BY ONLY <1>1c, <2>1, <2>2
<1>9. /\ ~Active(N + 1) /\ Active(t)
      /\ \A i \in 2..(N + 1) : i \in 2..N \/ i = N + 1
      /\ \A i \in 2..N : i \in 1..N
  <2>1. \A k \in 1..D : frames[k].node # N + 1
    BY <1>1, <1>1b
  <2>2. ~Active(N + 1) /\ Active(t)
    BY <1>1, <1>1a, <1>1c, <2>1
  <2>. QED BY <1>1, <2>2
<1>10. PICK S2, U2 :
         /\ S2 = [i \in 1..(N + 1) |-> IF i = N + 1 THEN <<>>
                                       ELSE IF i = t THEN a ELSE S[i]]
         /\ U2 = [i \in 1..(N + 1) |-> IF i = N + 1 THEN {N + 1} \cup U[t] ELSE U[i]]
  OBVIOUS
<1>10b. /\ S2[N + 1] = <<>> /\ S2[t] = a /\ U2[N + 1] = {N + 1} \cup U[t]
        /\ \A i \in 1..N : U2[i] = U[i] /\ (i # t => S2[i] = S[i])
        /\ DOMAIN S2 = 1..(N + 1) /\ DOMAIN U2 = 1..(N + 1)
  BY <1>1, <1>1a, <1>10
<1>5a. frames'[D].kids = a
  BY <1>5, <1>6
<1>7a. r = Answer(e, <<>>)
  BY DEF LeafVisited
<1>. HIDE DEF D
<1>10a. ASSUME NEW i \in 2..N
       PROVE  /\ i \in 1..N /\ nodes'[i] = nodes[i] /\ nodes[i].parent \in 1..N
              /\ nodes[i].parent < i /\ nodes[i].nth \in Nat
  <2>1. i \in 1..N /\ i # 1
    BY <1>1
  <2>2. nodes[i].parent \in 1..(i - 1) /\ nodes[i].nth \in Nat
    BY <2>1, NodeFacts
  <2>. QED BY <1>1, <1>4, <2>1, <2>2
<1>11. ASSUME NEW i \in 2..N, ~Active(i)
       PROVE  Right(S2, U2, i)' /\ Answered(S2, i)' = Answered(S, i)
  <2>1. S2[i] = S[i] /\ U2[i] = U[i] /\ (failed => failed')
    BY <1>7, <1>9, <1>10b, <1>11
  <2>2. nodes[i].parent \in 1..N
    BY <1>10a
  <2>3. \A p \in 1..N : \A m \in 1..Len(S[p]) : S2[p][m] = S[p][m]
    BY <1>6a, <1>10b
  <2>4. \A m \in 1..Len(S[nodes[i].parent]) : S2[nodes[i].parent][m] = S[nodes[i].parent][m]
    BY <2>2, <2>3
  <2>. QED BY <1>4, <1>7, <1>11, <2>1, <2>4, StillRight
<1>12. ASSUME NEW i, i = N + 1 PROVE Answered(S2, i)' = r
  BY <1>4, <1>6a, <1>10b, <1>12 DEF Answered
<1>13. Typed'
  <2>1. Kept(nodes'[Len(nodes')], r) \in KeptTypes
    BY <1>3 DEF Kept, KeptTypes, Answers
  <2>2. exprTypes' \in Seq(KeptTypes) /\ Len(exprTypes') = N + 1
    BY <2>1, AppendProperties DEF LeafVisited, Parts, Typed
  <2>3. Flags' /\ failed' \in BOOLEAN
    BY <1>3, <1>7 DEF Parts, Typed, Flags, method, Answers
  <2>. QED BY <1>1, <1>4, <1>5, <1>7, <2>2, <2>3 DEF Parts, Typed
<1>14. Upward(U2)'
  <2>1. \A i \in 2..N : nodes[i].parent \in 1..N /\ U[i] = {i} \cup U[nodes[i].parent]
    BY <1>10a DEF Parts, Upward
  <2>2. U[1] = {1}
    BY DEF Parts, Upward
  <2>3. ASSUME NEW i \in 2..(N + 1)
        PROVE  U2[i] = {i} \cup U2[nodes'[i].parent]
    <3>1. CASE i = N + 1
      BY <1>1, <1>1a, <1>4, <1>10b, <3>1
    <3>2. CASE i # N + 1
      <4>1. i \in 2..N
        BY <1>9, <3>2
      <4>2. PICK q \in 1..N : q = nodes[i].parent /\ nodes'[i] = nodes[i] /\ i \in 1..N
        BY <1>10a, <4>1
      <4>3. U[i] = {i} \cup U[q]
        BY <2>1, <4>1, <4>2
      <4>4. U2[i] = U[i] /\ U2[q] = U[q]
        BY <1>10b, <4>2
      <4>. QED BY <4>2, <4>3, <4>4
    <3>. QED BY <3>1, <3>2
  <2>4. U2[1] = {1}
    BY <1>1, <1>10b, <2>2
  <2>. QED BY <1>4, <1>10b, <2>3, <2>4 DEF Upward
<1>15. Stack(S2, U2)'
  <2>1. ASSUME NEW k \in 1..D
        PROVE  /\ frames'[k].node \in 1..(N + 1) /\ nodes'[frames'[k].node].op \notin LeafOps
               /\ frames'[k].kids = S2[frames'[k].node]
               /\ U2[frames'[k].node] = {frames'[j].node : j \in 1..k}
    <3>1. frames'[k].node = frames[k].node /\ frames[k].node \in 1..N
      BY <1>1b, <1>5
    <3>2. nodes[frames[k].node].op \notin LeafOps /\ U[frames[k].node] = {frames[j].node : j \in 1..k}
      BY DEF D, Parts, Stack
    <3>3. \A j \in 1..k : frames'[j].node = frames[j].node
      BY <1>1, <1>5
    <3>4. k # D => frames[k].node # t
      BY <1>1, <1>1a, FramesApart DEF D
    <3>5. frames'[k].kids = S2[frames'[k].node]
      <4>1. CASE k = D
        BY <1>1, <1>1a, <1>5a, <1>10b, <3>1, <4>1
      <4>2. CASE k # D
        <5>1. frames'[k].kids = S[frames[k].node]
          BY <1>1b, <1>5, <4>2
        <5>. QED BY <1>10b, <3>1, <3>4, <4>2, <5>1
      <4>. QED BY <4>1, <4>2
    <3>6. {frames'[j].node : j \in 1..k} = {frames[j].node : j \in 1..k}
      BY <3>3
    <3>7. frames'[k].node \in 1..(N + 1) /\ nodes'[frames'[k].node].op \notin LeafOps
      BY <1>1, <1>4, <3>1, <3>2
    <3>8. U2[frames'[k].node] = {frames'[j].node : j \in 1..k}
      BY <1>10b, <3>1, <3>2, <3>6
    <3>. QED BY <3>5, <3>7, <3>8
  <2>2. ASSUME NEW k \in 1..(D - 1)
        PROVE  /\ frames'[k + 1].node # 1
               /\ nodes'[frames'[k + 1].node].parent = frames'[k].node
               /\ nodes'[frames'[k + 1].node].nth = Len(frames'[k].kids) + 1
    <3>1. k \in 1..D /\ k + 1 \in 1..D /\ k # D
      BY <1>1
    <3>2. /\ frames[k + 1].node # 1 /\ nodes[frames[k + 1].node].parent = frames[k].node
          /\ nodes[frames[k + 1].node].nth = Len(frames[k].kids) + 1
      BY DEF D, Parts, Stack
    <3>3. /\ frames'[k + 1].node = frames[k + 1].node /\ frames'[k].node = frames[k].node
          /\ frames'[k].kids = frames[k].kids /\ frames[k + 1].node \in 1..N
      BY <1>1b, <1>5, <3>1
    <3>4. nodes'[frames'[k + 1].node] = nodes[frames[k + 1].node]
      BY <1>4, <3>3
    <3>. QED BY <3>2, <3>3, <3>4
  <2>3. \A j, k \in 1..D : j < k => frames'[j].node < frames'[k].node
    BY <1>5 DEF D, Parts, Stack
  <2>4. frames'[1].node = 1
    BY <1>1, <1>5 DEF Parts, Stack
  <2>5. top'.kids # <<>>
    BY <1>5, <1>5a, <1>6a DEF top
  <2>. QED BY <1>4, <1>5, <2>1, <2>2, <2>3, <2>4, <2>5 DEF Stack
<1>16. Heard(S2)'
  <2>1. S2 \in [1..(N + 1) -> Seq(Answers)]
    <3>1. \A i \in 1..N : S[i] \in Seq(Answers)
      BY <1>1, NodeFacts
    <3>2. \A i \in 1..(N + 1) : S2[i] \in Seq(Answers)
      <4>1. a \in Seq(Answers) /\ <<>> \in Seq(Answers)
        BY <1>3
      <4>. QED BY <3>1, <4>1, <1>10
    <3>. QED BY <1>10, <3>2
  <2>2. ASSUME NEW i \in 1..(N + 1) PROVE Len(S2[i]) <= Arity(nodes'[i])
    <3>1. CASE i = N + 1
      <4>1. Arity(nodes'[i]) = 0
        BY <1>2, <1>4, <3>1 DEF Arity
      <4>. QED BY <1>3, <1>10b, <3>1, <4>1
    <3>2. CASE i # N + 1
      <4>1. i \in 1..N /\ Len(S[i]) <= Arity(nodes[i])
        BY <1>1, <3>2 DEF Parts, Heard
      <4>. QED BY <1>4, <1>6a, <1>10b, <4>1
    <3>. QED BY <3>1, <3>2
  <2>3. ASSUME NEW i \in 2..(N + 1), ~Active(i) PROVE nodes'[i].nth <= Len(S2[nodes'[i].parent])
    <3>1. CASE i = N + 1
      BY <1>4, <1>6a, <1>10b, <3>1
    <3>2. CASE i # N + 1
      <4>1. i \in 2..N /\ nodes'[i] = nodes[i] /\ nodes[i].parent \in 1..N /\ nodes[i].nth \in Nat
        BY <1>9, <1>10a, <3>2
      <4>2. nodes[i].nth <= Len(S[nodes[i].parent])
        BY <2>3, <4>1 DEF Parts, Heard
      <4>3. \A p \in 1..N : Len(S2[p]) = Len(S[p]) \/ Len(S2[p]) = Len(S[p]) + 1
        BY <1>6a, <1>10b
      <4>4. PICK p \in 1..N : p = nodes[i].parent
        BY <4>1
      <4>5. Len(S[p]) \in Nat /\ nodes[i].nth <= Len(S[p])
        BY <4>2, <4>4, NodeFacts
      <4>6. PICK m, l, l2 : m = nodes[i].nth /\ l = Len(S[p]) /\ l2 = Len(S2[p])
        OBVIOUS
      <4>7. m \in Nat /\ l \in Nat /\ m <= l /\ (l2 = l \/ l2 = l + 1)
        BY ONLY <4>1, <4>3, <4>5, <4>6
      <4>8. m <= l2
        BY ONLY <4>7
      <4>9. nodes'[i].nth = m /\ S2[nodes'[i].parent] = S2[p]
        BY ONLY <4>1, <4>4, <4>6
      <4>. QED BY ONLY <4>6, <4>8, <4>9
    <3>. QED BY <3>1, <3>2
  <2>4. ASSUME NEW i \in 1..(N + 1), NEW m \in 1..Len(S2[i])
        PROVE  \E j \in 2..(N + 1) : ~Active(j) /\ nodes'[j].parent = i /\ nodes'[j].nth = m
    <3>1. CASE i \in 1..N /\ m \in 1..Len(S[i])
      <4>1. PICK j \in 2..N : ~Active(j) /\ nodes[j].parent = i /\ nodes[j].nth = m
        BY <3>1 DEF Parts, Heard
      <4>2. j \in 2..(N + 1) /\ nodes'[j] = nodes[j]
        BY <1>1, <1>10a, <4>1
      <4>. QED BY <4>1, <4>2
    <3>2. CASE i = t /\ m = Len(S[t]) + 1
      <4>1. N + 1 \in 2..(N + 1)
        BY <1>1
      <4>. QED BY <1>4, <1>9, <3>2, <4>1
    <3>3. i \in 1..N \/ i = N + 1
      BY <1>1
    <3>4. i # N + 1
      BY <1>3, <1>10b
    <3>5. m \in 1..Len(S[i]) \/ (i = t /\ m = Len(S[t]) + 1)
      <4>1. CASE i = t
        BY <1>6a, <1>10b, <4>1
      <4>2. CASE i # t
        BY <1>10b, <3>3, <3>4, <4>2
      <4>. QED BY <4>1, <4>2
    <3>. QED BY <3>1, <3>2, <3>3, <3>4, <3>5
  <2>. HIDE DEF D
  <2>. QED BY <1>4, <1>8, <2>1, <2>2, <2>3, <2>4 DEF Heard
<1>17. ASSUME NEW i \in 2..(N + 1), ~Active(i) PROVE Right(S2, U2, i)'
  <2>1. CASE i = N + 1
    <3>1. nodes'[i].op = e.op /\ nodes'[i].of = e.of /\ Answered(S2, i)' = r
      BY <1>4, <1>12, <2>1
    <3>2. ASSUME e.op # "name", NEW n, n = nodes'[i] PROVE r = Answer(n, S2[i])'
      <4>1. Answer(n, <<>>)' = Answer(n, <<>>)
        BY <1>2, <1>7, <3>1, <3>2, SameAnswer
      <4>2. Answer(n, <<>>) = Answer(e, <<>>)
        BY <1>2, <3>1, <3>2 DEF Answer, LeafOps
      <4>. QED BY <1>7a, <1>10b, <2>1, <4>1, <4>2
    <3>3. CASE e.op = "name"
      <4>1. r = ClassName(e.of)
        BY <1>7a, <3>3 DEF Answer
      <4>2. InPrefix(U2, i)' <=> allow
        <5>1. allow <=> \E p \in 1..N :
                          /\ SelectsAt(p) /\ p + 1 \in {N + 1} \cup U[t]
                          /\ \A q \in (p + 1)..N : ~SelectsAt(q)
          BY <1>1, FlagIsPrefix
        <5>2. \A q \in 1..N : SelectsAt(q)' <=> SelectsAt(q)
          BY <1>4 DEF SelectsAt
        <5>3. \A p \in 1..N : \A q \in (p + 1)..N : q \in 1..N
          BY <1>1
        <5>4. U2[i] = {N + 1} \cup U[t] /\ i - 1 = N
          BY <1>1, <1>10b, <2>1
        <5>. QED BY <5>1, <5>2, <5>3, <5>4 DEF InPrefix
      <4>3. nodes'[i].op \in LeafOps /\ nodes'[i].op = "name"
        BY <1>2, <3>1, <3>3
      <4>4. r.type = Error => failed'
        <5>1. \A m : m \notin 1..Len(<<>>)
          BY <1>3
        <5>. QED BY <1>3, <1>7, <5>1 DEF Sound
      <4>5. r.ir # Empty
        <5>1. r.ir = NoCode
          BY <4>1 DEF ClassName, Bad, R
        <5>2. NoCode # Empty
          BY DEF NoCode, Empty, T
        <5>. QED BY <5>1, <5>2
      <4>6. r = IF InPrefix(U2, i)'
                THEN [type |-> Class(e.of), bad |-> FALSE, cls |-> TRUE, ir |-> NoCode]
                ELSE Bad
        BY <4>1, <4>2 DEF ClassName
      <4>. QED BY <3>1, <4>3, <4>4, <4>5, <4>6 DEF Right
    <3>4. CASE e.op # "name"
      <4>1. r.type = Error => failed'
        <5>1. \A m : m \notin 1..Len(<<>>)
          BY <1>3
        <5>. QED BY <1>3, <1>7, <5>1 DEF Sound
      <4>. QED BY <1>2, <1>3, <3>1, <3>2, <3>4, <4>1 DEF Right, Sound
    <3>. QED BY <3>3, <3>4
  <2>2. CASE i # N + 1
    BY <1>9, <1>11, <1>17, <2>2
  <2>. QED BY <2>1, <2>2
<1>18. FlagRight'
  <2>1. \A q \in 1..N : SelectsAt(q)' <=> SelectsAt(q)
    BY <1>4 DEF SelectsAt
  <2>2. ASSUME NEW i, i = N + 1 PROVE ~SelectsAt(i)'
    BY <1>2, <1>4, <2>2 DEF SelectsAt, Selecting, LeafOps
  <2>3. \A k \in 1..D : (\A q \in (frames[k].node + 1)..(N + 1) : ~SelectsAt(q)')
                        <=> \A q \in (frames[k].node + 1)..N : ~SelectsAt(q)
    <3>1. \A j \in 1..N : \A q \in (j + 1)..(N + 1) : q = N + 1 \/ (q \in (j + 1)..N /\ q \in 1..N)
      BY <1>1
    <3>2. \A j \in 1..N : \A q \in (j + 1)..N : q \in (j + 1)..(N + 1) /\ q \in 1..N
      BY <1>1
    <3>3. \A j \in 1..N : (\A q \in (j + 1)..(N + 1) : ~SelectsAt(q)')
                          <=> \A q \in (j + 1)..N : ~SelectsAt(q)
      BY <2>1, <2>2, <3>1, <3>2
    <3>. QED BY <1>1, <1>1b, <3>3
  <2>4. allow <=> \E k \in 1..D : /\ SelectsAt(frames[k].node) /\ frames[k].kids = <<>>
                                  /\ \A q \in (frames[k].node + 1)..N : ~SelectsAt(q)
    BY DEF D, Parts, FlagRight
  <2>5. allow' <=> \E k \in 1..D : /\ k # D /\ SelectsAt(frames[k].node) /\ frames[k].kids = <<>>
                                   /\ \A q \in (frames[k].node + 1)..N : ~SelectsAt(q)
    <3>1. allow /\ SelectsAt(t) /\ S[t] = <<>> =>
            \A q \in (frames[D].node + 1)..N : ~SelectsAt(q)
      <4>. SUFFICES ASSUME allow, SelectsAt(t), S[t] = <<>>
                    PROVE  \A q \in (frames[D].node + 1)..N : ~SelectsAt(q)
        OBVIOUS
      <4>1. t = N
        BY <1>1a DEF Parts, Stack
      <4>. QED BY <1>1, <1>1a, <4>1
    <3>2. ASSUME NEW k \in 1..D, SelectsAt(frames[k].node), SelectsAt(frames[D].node),
                 \A q \in (frames[k].node + 1)..N : ~SelectsAt(q),
                 \A q \in (frames[D].node + 1)..N : ~SelectsAt(q)
          PROVE  k = D
      BY <1>1, <3>2, FlagWitness DEF D
    <3>. QED BY <1>1, <1>1a, <1>7, <2>4, <3>1, <3>2
  <2>6. \A k \in 1..D : frames'[k].kids = <<>> <=> k # D /\ frames[k].kids = <<>>
    BY <1>5, <1>6a
  <2>7. \A k \in 1..D : SelectsAt(frames[k].node)' <=> SelectsAt(frames[k].node)
    BY <1>1b, <1>4, <1>5 DEF SelectsAt
  <2>. QED BY <1>4, <1>5, <2>3, <2>5, <2>6, <2>7 DEF FlagRight
<1>19. TypesKept(S2)'
  <2>1. /\ exprTypes \in Seq(KeptTypes) /\ Len(exprTypes) = N
        /\ exprTypes[1] = Unset
        /\ \A i \in 2..N : exprTypes[i] = IF Active(i) THEN Unset
                                          ELSE Kept(nodes[i], Answered(S, i))
    BY DEF Parts, Typed, TypesKept
  <2>2. Kept(nodes'[N + 1], r) \in KeptTypes
    BY <1>3 DEF Kept, KeptTypes, Answers
  <2>3. exprTypes' = Append(exprTypes, Kept(nodes'[N + 1], r))
    BY <1>4 DEF LeafVisited
  <2>4. /\ \A i \in 1..N : exprTypes'[i] = exprTypes[i]
        /\ exprTypes'[N + 1] = Kept(nodes'[N + 1], r)
    BY <2>1, <2>2, <2>3, AppendProperties
  <2>5. \A n, b : Kept(n, b)' = Kept(n, b)
    BY <1>1, <1>4 DEF Kept
  <2>6. ASSUME NEW i \in 2..(N + 1)
        PROVE  exprTypes'[i] = IF Active(i)' THEN Unset ELSE Kept(nodes[i], Answered(S2, i))'
    <3>1. CASE i = N + 1
      <4>1. ~Active(i) /\ Answered(S2, i)' = r
        BY <1>9, <1>12, <3>1
      <4>. QED BY <1>8, <2>4, <2>5, <3>1, <4>1
    <3>2. CASE i # N + 1
      <4>1. i \in 2..N /\ i \in 1..N /\ nodes'[i] = nodes[i]
        BY <1>9, <1>10a, <3>2
      <4>2. ~Active(i) => Answered(S2, i)' = Answered(S, i)
        BY <1>11, <4>1
      <4>. QED BY <1>8, <2>1, <2>4, <2>5, <4>1, <4>2
    <3>. QED BY <3>1, <3>2
  <2>7. exprTypes'[1] = Unset
    BY <1>1, <2>1, <2>4
  <2>. QED BY <1>4, <2>6, <2>7 DEF TypesKept
<1>20. Verdict(S2)'
  <2>1. failed <=> Reported(S)
    BY <1>7 DEF Parts, Verdict, Ended
  <2>2. Reported(S2)' <=> Reported(S) \/ r.bad
    <3>1. Reported(S2)' <=> \E i \in 2..(N + 1) : ~Active(i) /\ Answered(S2, i)'.bad
      BY <1>4, <1>8 DEF Reported
    <3>2. N + 1 \in 2..(N + 1) /\ \A i \in 2..N : i \in 2..(N + 1)
      BY <1>1
    <3>. QED BY <1>9, <1>11, <1>12, <3>1, <3>2 DEF Reported
  <2>. QED BY <1>3, <1>7, <2>1, <2>2 DEF Verdict, Ended, Answers
<1>. QED BY <1>4, <1>8, <1>13, <1>14, <1>15, <1>16, <1>17, <1>18, <1>19, <1>20 DEF Parts, ExpressionsInv

Entered(e) ==
  /\ Visits(e)
  /\ frames' = Append(frames, Record(Len(nodes) + 1, <<>>))
  /\ allow' = (allow \/ e.op \in Selecting)
  /\ exprTypes' = Append(exprTypes, Unset)
  /\ failed' = failed

LEMMA EnterStep ==
  ASSUME NEW S, NEW U, Parts(S, U), NEW e \in Exprs, e.op \notin LeafOps, Entered(e),
         NEW t, t = top.node, NEW N, N = Len(nodes)
  PROVE  ExpressionsInv'
<1>. DEFINE D == Len(frames)
<1>1. N \in Nat /\ N >= 1 /\ D \in 1..D /\ D \in Nat
  BY FrameFacts
<1>2. /\ t \in 1..N /\ top = frames[D] /\ frames[D].node = t /\ top.kids = S[t]
      /\ S[t] \in Seq(Answers) /\ Len(S[t]) \in Nat /\ frames \in Seq(Frame)
  BY FrameFacts, LenProperties DEF Parts, Typed
<1>3. \A k \in 1..D : /\ frames[k].node \in 1..N /\ frames[k].kids = S[frames[k].node]
                      /\ frames[k].kids \in Seq(Answers)
  BY FrameFacts
<1>4. \A i : Active(i) <=> \E k \in 1..D : frames[k].node = i
  BY FrameFacts
<1>5. /\ nodes' \in Seq(NodeSet) /\ Len(nodes') = N + 1
      /\ \A i \in 1..N : nodes'[i] = nodes[i]
      /\ nodes'[N + 1].op = e.op /\ nodes'[N + 1].of = e.of /\ nodes'[N + 1].given = e.given
      /\ nodes'[N + 1].parent = t /\ nodes'[N + 1].nth = Len(S[t]) + 1
      /\ Shape'
  BY <1>1, <1>2, NewNode DEF Entered
<1>6. /\ frames' \in Seq(Frame) /\ Len(frames') = D + 1 /\ DOMAIN frames' = 1..(D + 1)
      /\ \A k \in 1..D : frames'[k] = frames[k]
      /\ frames'[D + 1].node = N + 1 /\ frames'[D + 1].kids = <<>>
  <2>1. Record(N + 1, <<>>) \in Frame
    BY <1>1, EmptySeq DEF Record, Frame
  <2>2. frames' = Append(frames, Record(N + 1, <<>>))
    BY DEF Entered
  <2>3. /\ frames' \in Seq(Frame) /\ Len(frames') = D + 1
        /\ \A k \in 1..D : frames'[k] = frames[k]
        /\ frames'[D + 1] = Record(N + 1, <<>>)
    BY <1>2, <2>1, <2>2, AppendProperties
  <2>4. DOMAIN frames' = 1..(D + 1)
    BY <2>3, LenProperties
  <2>. QED BY <2>3, <2>4 DEF Record
<1>7. /\ method' = method /\ state = "visiting" /\ state' = state /\ failed' = failed
      /\ allow' = (allow \/ e.op \in Selecting)
  BY DEF Entered, Visits
<1>8. \A i : Active(i)' <=> Active(i) \/ i = N + 1
  <2>1. \A i : Active(i)' <=> \E k \in 1..(D + 1) : frames'[k].node = i
    BY <1>6 DEF Active
  <2>2. \A k \in 1..(D + 1) : k \in 1..D \/ k = D + 1
    BY <1>1
  <2>3. D + 1 \in 1..(D + 1) /\ \A k \in 1..D : k \in 1..(D + 1)
    BY <1>1
  <2>. QED BY <1>4, <1>6, <2>1, <2>2, <2>3
<1>9. /\ Active(t) /\ \A i \in 2..(N + 1) : i \in 2..N \/ i = N + 1
      /\ \A i \in 1..(N + 1) : i \in 1..N \/ i = N + 1
      /\ \A i \in 2..N : i \in 1..N
  BY <1>1, <1>2, <1>4
<1>10. PICK S2, U2 :
         /\ S2 = [i \in 1..(N + 1) |-> IF i = N + 1 THEN <<>> ELSE S[i]]
         /\ U2 = [i \in 1..(N + 1) |-> IF i = N + 1 THEN {N + 1} \cup U[t] ELSE U[i]]
  OBVIOUS
<1>11. /\ S2[N + 1] = <<>> /\ U2[N + 1] = {N + 1} \cup U[t]
       /\ \A i \in 1..N : U2[i] = U[i] /\ S2[i] = S[i]
       /\ DOMAIN S2 = 1..(N + 1) /\ DOMAIN U2 = 1..(N + 1)
  BY <1>1, <1>2, <1>10
<1>. HIDE DEF D
<1>12. ASSUME NEW i \in 2..N
       PROVE  /\ i \in 1..N /\ nodes'[i] = nodes[i] /\ nodes[i].parent \in 1..N
              /\ nodes[i].parent < i /\ nodes[i].nth \in Nat
  <2>1. i \in 1..N /\ i # 1
    BY <1>1
  <2>2. nodes[i].parent \in 1..(i - 1) /\ nodes[i].nth \in Nat
    BY <2>1, NodeFacts
  <2>. QED BY <1>1, <1>5, <2>1, <2>2
<1>13. ASSUME NEW i \in 2..N, ~Active(i)
       PROVE  Right(S2, U2, i)' /\ Answered(S2, i)' = Answered(S, i)
  <2>1. S2[i] = S[i] /\ U2[i] = U[i] /\ (failed => failed') /\ nodes[i].parent \in 1..N
    BY <1>7, <1>11, <1>12
  <2>2. \A m \in 1..Len(S[nodes[i].parent]) : S2[nodes[i].parent][m] = S[nodes[i].parent][m]
    BY <1>11, <2>1
  <2>. QED BY <1>5, <1>7, <1>13, <2>1, <2>2, StillRight
<1>14. Typed'
  <2>1. exprTypes' \in Seq(KeptTypes) /\ Len(exprTypes') = N + 1
    BY AppendProperties DEF Entered, KeptTypes, Parts, Typed
  <2>2. Flags'
    BY <1>7 DEF Parts, Typed, Flags, method
  <2>. QED BY <1>1, <1>5, <1>6, <1>7, <2>1, <2>2 DEF Parts, Typed
<1>15. Upward(U2)'
  <2>1. \A i \in 2..N : nodes[i].parent \in 1..N /\ U[i] = {i} \cup U[nodes[i].parent]
    BY <1>12 DEF Parts, Upward
  <2>2. U[1] = {1}
    BY DEF Parts, Upward
  <2>3. ASSUME NEW i \in 2..(N + 1)
        PROVE  U2[i] = {i} \cup U2[nodes'[i].parent]
    <3>1. CASE i = N + 1
      BY <1>1, <1>2, <1>5, <1>11, <3>1
    <3>2. CASE i # N + 1
      BY <1>9, <1>11, <1>12, <2>1, <3>2
    <3>. QED BY <3>1, <3>2
  <2>4. U2[1] = {1}
    BY <1>1, <1>11, <2>2
  <2>. QED BY <1>5, <1>11, <2>3, <2>4 DEF Upward
<1>16. Stack(S2, U2)'
  <2>1. ASSUME NEW k \in 1..D
        PROVE  /\ frames'[k].node \in 1..(N + 1) /\ nodes'[frames'[k].node].op \notin LeafOps
               /\ frames'[k].kids = S2[frames'[k].node]
               /\ U2[frames'[k].node] = {frames'[j].node : j \in 1..k}
    <3>1. frames'[k] = frames[k] /\ frames[k].node \in 1..N /\ frames[k].kids = S[frames[k].node]
      BY <1>3, <1>6
    <3>2. nodes[frames[k].node].op \notin LeafOps /\ U[frames[k].node] = {frames[j].node : j \in 1..k}
      BY DEF D, Parts, Stack
    <3>3. \A j \in 1..k : frames'[j].node = frames[j].node
      BY <1>1, <1>6
    <3>4. {frames'[j].node : j \in 1..k} = {frames[j].node : j \in 1..k}
      BY <3>3
    <3>5. frames'[k].node \in 1..(N + 1) /\ nodes'[frames'[k].node].op \notin LeafOps
      BY <1>1, <1>5, <3>1, <3>2
    <3>. QED BY <1>11, <3>1, <3>2, <3>4, <3>5
  <2>2. ASSUME NEW k, k = D + 1
        PROVE  /\ frames'[k].node \in 1..(N + 1) /\ nodes'[frames'[k].node].op \notin LeafOps
               /\ frames'[k].kids = S2[frames'[k].node]
               /\ U2[frames'[k].node] = {frames'[j].node : j \in 1..k}
    <3>1. frames'[k].node = N + 1 /\ frames'[k].kids = <<>>
      BY <1>6, <2>2
    <3>2. U[t] = {frames[j].node : j \in 1..D}
      BY <1>1, <1>2 DEF D, Parts, Stack
    <3>3. \A j \in 1..k : j = k \/ (j \in 1..D /\ frames'[j].node = frames[j].node)
      BY <1>1, <1>6, <2>2
    <3>4. k \in 1..k /\ \A j \in 1..D : j \in 1..k /\ frames'[j].node = frames[j].node
      BY <1>1, <1>6, <2>2
    <3>5. {frames'[j].node : j \in 1..k} = {N + 1} \cup {frames[j].node : j \in 1..D}
      BY <3>1, <3>3, <3>4
    <3>6. nodes'[N + 1].op \notin LeafOps /\ N + 1 \in 1..(N + 1)
      BY <1>1, <1>5
    <3>. QED BY <1>11, <3>1, <3>2, <3>5, <3>6
  <2>3. ASSUME NEW k \in 1..D
        PROVE  /\ frames'[k + 1].node # 1
               /\ nodes'[frames'[k + 1].node].parent = frames'[k].node
               /\ nodes'[frames'[k + 1].node].nth = Len(frames'[k].kids) + 1
    <3>1. CASE k = D
      <4>1. frames'[k + 1].node = N + 1 /\ frames'[k] = frames[D] /\ D \in 1..D
        BY <1>1, <1>6, <3>1
      <4>2. frames'[k].node = t /\ frames'[k].kids = S[t]
        BY <1>2, <4>1
      <4>. QED BY <1>1, <1>5, <4>1, <4>2
    <3>2. CASE k # D
      <4>1. k \in 1..(D - 1) /\ k + 1 \in 1..D
        BY <1>1, <3>2
      <4>2. /\ frames[k + 1].node # 1 /\ nodes[frames[k + 1].node].parent = frames[k].node
            /\ nodes[frames[k + 1].node].nth = Len(frames[k].kids) + 1
        BY <4>1 DEF D, Parts, Stack
      <4>3. frames'[k + 1] = frames[k + 1] /\ frames'[k] = frames[k] /\ frames[k + 1].node \in 1..N
        BY <1>3, <1>6, <4>1
      <4>4. nodes'[frames'[k + 1].node] = nodes[frames[k + 1].node]
        BY <1>5, <4>3
      <4>. QED BY <4>2, <4>3, <4>4
    <3>. QED BY <3>1, <3>2
  <2>4. ASSUME NEW j \in 1..(D + 1), NEW k \in 1..(D + 1), j < k
        PROVE  frames'[j].node < frames'[k].node
    <3>1. j \in 1..D /\ frames'[j] = frames[j] /\ frames[j].node \in 1..N
      BY <1>1, <1>3, <1>6, <2>4
    <3>2. CASE k = D + 1
      BY <1>1, <1>6, <3>1, <3>2
    <3>3. CASE k # D + 1
      <4>1. k \in 1..D /\ frames'[k] = frames[k]
        BY <1>1, <1>6, <3>3
      <4>. QED BY <2>4, <3>1, <4>1 DEF D, Parts, Stack
    <3>. QED BY <3>2, <3>3
  <2>5. frames'[1].node = 1
    BY <1>1, <1>6 DEF Parts, Stack
  <2>6. top'.node = N + 1
    BY <1>6 DEF top
  <2>7. \A k \in 1..(D + 1) : k \in 1..D \/ k = D + 1
    BY <1>1
  <2>8. \A k \in 1..(D + 1) :
          /\ frames'[k].node \in 1..(N + 1) /\ nodes'[frames'[k].node].op \notin LeafOps
          /\ frames'[k].kids = S2[frames'[k].node]
          /\ U2[frames'[k].node] = {frames'[j].node : j \in 1..k}
    BY <2>1, <2>2, <2>7
  <2>9. Len(frames') - 1 = D /\ Len(frames') = D + 1 /\ Len(nodes') = N + 1
    BY <1>1, <1>5, <1>6
  <2>10. top'.kids = <<>> => top'.node = N + 1
    BY <2>6
  <2>11. \A j, k \in 1..(D + 1) : j < k => frames'[j].node < frames'[k].node
    BY <2>4
  <2>. HIDE DEF D
  <2>. QED BY <2>3, <2>5, <2>8, <2>9, <2>10, <2>11 DEF Stack
<1>17. Heard(S2)'
  <2>1. S2 \in [1..(N + 1) -> Seq(Answers)]
    <3>1. \A i \in 1..N : S[i] \in Seq(Answers)
      BY <1>1, NodeFacts
    <3>2. \A i \in 1..(N + 1) : S2[i] \in Seq(Answers)
      <4>1. <<>> \in Seq(Answers)
        BY EmptySeq
      <4>. QED BY <1>9, <3>1, <4>1, <1>10
    <3>. QED BY <1>10, <3>2
  <2>2. ASSUME NEW i \in 1..(N + 1) PROVE Len(S2[i]) <= Arity(nodes'[i])
    <3>1. CASE i = N + 1
      <4>1. e.given \in Nat
        BY ExprsAre DEF Written
      <4>2. Arity(nodes'[i]) \in Nat
        BY <1>5, <3>1, <4>1 DEF Arity
      <4>3. Len(<<>>) = 0
        BY EmptySeq
      <4>. QED BY <1>11, <3>1, <4>2, <4>3
    <3>2. CASE i # N + 1
      <4>1. i \in 1..N /\ Len(S[i]) <= Arity(nodes[i])
        BY <1>1, <3>2 DEF Parts, Heard
      <4>. QED BY <1>5, <1>11, <4>1
    <3>. QED BY <3>1, <3>2
  <2>3. ASSUME NEW i \in 2..(N + 1), ~(Active(i) \/ i = N + 1)
        PROVE  nodes'[i].nth <= Len(S2[nodes'[i].parent])
    <3>1. i \in 2..N /\ nodes'[i] = nodes[i] /\ nodes[i].parent \in 1..N
      BY <1>9, <1>12, <2>3
    <3>2. nodes[i].nth <= Len(S[nodes[i].parent])
      BY <2>3, <3>1 DEF Parts, Heard
    <3>. QED BY <1>11, <3>1, <3>2
  <2>4. ASSUME NEW i \in 1..(N + 1), NEW m \in 1..Len(S2[i])
        PROVE  \E j \in 2..(N + 1) : /\ ~(Active(j) \/ j = N + 1)
                                     /\ nodes'[j].parent = i /\ nodes'[j].nth = m
    <3>1. i # N + 1
      <4>1. Len(<<>>) = 0
        BY EmptySeq
      <4>. QED BY <1>11, <4>1
    <3>2. i \in 1..N /\ m \in 1..Len(S[i])
      BY <1>9, <1>11, <3>1
    <3>3. PICK j \in 2..N : ~Active(j) /\ nodes[j].parent = i /\ nodes[j].nth = m
      BY <3>2 DEF Parts, Heard
    <3>4. j \in 2..(N + 1) /\ j # N + 1 /\ nodes'[j] = nodes[j]
      BY <1>1, <1>12, <3>3
    <3>. QED BY <3>3, <3>4
  <2>5. \A i \in 2..(N + 1) : ~Active(i)' => nodes'[i].nth <= Len(S2[nodes'[i].parent])
    BY <1>8, <2>3
  <2>6. ASSUME NEW i \in 1..(N + 1), NEW m \in 1..Len(S2[i])
        PROVE  \E j \in 2..(N + 1) : ~Active(j)' /\ nodes'[j].parent = i /\ nodes'[j].nth = m
    <3>1. PICK j \in 2..(N + 1) : /\ ~(Active(j) \/ j = N + 1)
                                 /\ nodes'[j].parent = i /\ nodes'[j].nth = m
      BY <2>4
    <3>. QED BY <1>8, <3>1
  <2>7. Len(nodes') = N + 1
    BY <1>5
  <2>8. \A i \in 1..(N + 1) : Len(S2[i]) <= Arity(nodes'[i])
    BY <2>2
  <2>9. \A i \in 1..(N + 1) : \A m \in 1..Len(S2[i]) :
          \E j \in 2..(N + 1) : ~Active(j)' /\ nodes'[j].parent = i /\ nodes'[j].nth = m
    BY <2>6
  <2>10. Heard(S2)' <=>
           /\ S2 \in [1..Len(nodes') -> Seq(Answers)]
           /\ \A i \in 1..Len(nodes') : Len(S2[i]) <= Arity(nodes'[i])
           /\ \A i \in 2..Len(nodes') : ~Active(i)' => nodes'[i].nth <= Len(S2[nodes'[i].parent])
           /\ \A i \in 1..Len(nodes') : \A m \in 1..Len(S2[i]) :
                \E j \in 2..Len(nodes') : ~Active(j)' /\ nodes'[j].parent = i /\ nodes'[j].nth = m
    BY DEF Heard
  <2>11. PICK M : M = N + 1
    OBVIOUS
  <2>12. /\ Len(nodes') = M /\ S2 \in [1..M -> Seq(Answers)]
         /\ \A i \in 1..M : Len(S2[i]) <= Arity(nodes'[i])
    BY ONLY <2>1, <2>7, <2>8, <2>11
  <2>13. \A i \in 2..M : ~Active(i)' => nodes'[i].nth <= Len(S2[nodes'[i].parent])
    BY ONLY <2>5, <2>11
  <2>14. \A i \in 1..M : \A m \in 1..Len(S2[i]) :
           \E j \in 2..M : ~Active(j)' /\ nodes'[j].parent = i /\ nodes'[j].nth = m
    BY ONLY <2>9, <2>11
  <2>. QED BY ONLY <2>10, <2>12, <2>13, <2>14
<1>18. \A i \in 2..(N + 1) : ~Active(i)' => Right(S2, U2, i)'
  BY <1>8, <1>9, <1>13
<1>19. FlagRight'
  <2>1. \A q \in 1..N : SelectsAt(q)' <=> SelectsAt(q)
    BY <1>5 DEF SelectsAt
  <2>2. ASSUME NEW i, i = N + 1 PROVE SelectsAt(i)' <=> e.op \in Selecting
    BY <1>5, <2>2 DEF SelectsAt
  <2>3. \A k \in 1..(D + 1) : k \in 1..D \/ k = D + 1
    BY <1>1
  <2>4. \A k \in 1..D : SelectsAt(frames[k].node)' <=> SelectsAt(frames[k].node)
    BY <1>3, <1>5, <1>6 DEF SelectsAt
  <2>5. allow <=> \E k \in 1..D : /\ SelectsAt(frames[k].node) /\ frames[k].kids = <<>>
                                  /\ \A q \in (frames[k].node + 1)..N : ~SelectsAt(q)
    BY DEF D, Parts, FlagRight
  <2>6. CASE e.op \in Selecting
    <3>1. D + 1 \in 1..(D + 1) /\ \A q : q \notin (N + 1 + 1)..(N + 1)
      BY <1>1
    <3>2. \E k \in 1..(D + 1) : /\ SelectsAt(frames[k].node)' /\ frames'[k].kids = <<>>
                                /\ \A q \in (frames'[k].node + 1)..(N + 1) : ~SelectsAt(q)'
      <4>1. ASSUME NEW k, k = D + 1 PROVE SelectsAt(frames[k].node)'
        BY <1>5, <1>6, <2>6, <4>1 DEF SelectsAt
      <4>. QED BY <1>6, <3>1, <4>1
    <3>. QED BY <1>5, <1>6, <1>7, <2>6, <3>2 DEF FlagRight
  <2>7. CASE e.op \notin Selecting
    <3>1. \A j \in 1..N : \A q \in (j + 1)..(N + 1) : q = N + 1 \/ (q \in (j + 1)..N /\ q \in 1..N)
      BY <1>1
    <3>2. \A j \in 1..N : \A q \in (j + 1)..N : q \in (j + 1)..(N + 1) /\ q \in 1..N
      BY <1>1
    <3>3. \A j \in 1..N : (\A q \in (j + 1)..(N + 1) : ~SelectsAt(q)')
                          <=> \A q \in (j + 1)..N : ~SelectsAt(q)
      BY <2>1, <2>2, <2>7, <3>1, <3>2
    <3>4. ASSUME NEW k, k = D + 1 PROVE ~SelectsAt(frames[k].node)'
      BY <1>5, <1>6, <2>7, <3>4 DEF SelectsAt
    <3>5. \A k \in 1..D : /\ k \in 1..(D + 1) /\ frames'[k] = frames[k] /\ frames[k].node \in 1..N
      BY <1>1, <1>3, <1>6
    <3>6. (\E k \in 1..(D + 1) : /\ SelectsAt(frames[k].node)' /\ frames'[k].kids = <<>>
                                 /\ \A q \in (frames'[k].node + 1)..(N + 1) : ~SelectsAt(q)')
          <=> \E k \in 1..D : /\ SelectsAt(frames[k].node) /\ frames[k].kids = <<>>
                              /\ \A q \in (frames[k].node + 1)..N : ~SelectsAt(q)
      BY <2>3, <2>4, <3>3, <3>4, <3>5
    <3>. QED BY <1>5, <1>6, <1>7, <2>5, <2>7, <3>6 DEF FlagRight
  <2>. QED BY <2>6, <2>7
<1>20. TypesKept(S2)'
  <2>1. /\ exprTypes \in Seq(KeptTypes) /\ Len(exprTypes) = N
        /\ exprTypes[1] = Unset
        /\ \A i \in 2..N : exprTypes[i] = IF Active(i) THEN Unset
                                          ELSE Kept(nodes[i], Answered(S, i))
    BY DEF Parts, Typed, TypesKept
  <2>2. /\ \A i \in 1..N : exprTypes'[i] = exprTypes[i]
        /\ exprTypes'[N + 1] = Unset
    <3>1. exprTypes' = Append(exprTypes, Unset) /\ Unset \in KeptTypes
      BY DEF Entered, KeptTypes
    <3>. QED BY <2>1, <3>1, AppendProperties
  <2>3. \A n, b : Kept(n, b)' = Kept(n, b)
    BY <1>1, <1>5 DEF Kept
  <2>4. ASSUME NEW i \in 2..(N + 1)
        PROVE  exprTypes'[i] = IF Active(i)' THEN Unset ELSE Kept(nodes[i], Answered(S2, i))'
    <3>1. CASE i = N + 1
      BY <1>8, <2>2, <3>1
    <3>2. CASE i # N + 1
      <4>1. i \in 2..N /\ i \in 1..N /\ nodes'[i] = nodes[i]
        BY <1>9, <1>12, <3>2
      <4>2. ~Active(i) => Answered(S2, i)' = Answered(S, i)
        BY <1>13, <4>1
      <4>. QED BY <1>8, <2>1, <2>2, <2>3, <3>2, <4>1, <4>2
    <3>. QED BY <3>1, <3>2
  <2>5. exprTypes'[1] = Unset
    BY <1>1, <2>1, <2>2
  <2>. QED BY <1>5, <2>4, <2>5 DEF TypesKept
<1>21. Verdict(S2)'
  <2>1. failed <=> Reported(S)
    BY <1>7 DEF Parts, Verdict, Ended
  <2>2. Reported(S2)' <=> Reported(S)
    <3>1. Reported(S2)' <=> \E i \in 2..(N + 1) : ~(Active(i) \/ i = N + 1) /\ Answered(S2, i)'.bad
      BY <1>5, <1>8 DEF Reported
    <3>2. \A i \in 2..N : i \in 2..(N + 1) /\ i # N + 1
      BY <1>1
    <3>. QED BY <1>9, <1>13, <3>1, <3>2 DEF Reported
  <2>. QED BY <1>7, <2>1, <2>2 DEF Verdict, Ended
<1>. QED BY <1>5, <1>14, <1>15, <1>16, <1>17, <1>18, <1>19, <1>20, <1>21 DEF Parts, ExpressionsInv

Left(r) ==
  /\ r = Answer(Form(top), top.kids) /\ state = "visiting" /\ Len(frames) > 1
  /\ ~More(top) /\ Return(r, Front(frames))
  /\ exprTypes' = [exprTypes EXCEPT ![top.node] = Kept(Form(top), r)]
  /\ method' = method /\ nodes' = nodes /\ state' = state

LEMMA LeaveStep ==
  ASSUME NEW S, NEW U, Parts(S, U), NEW r, Left(r),
         NEW t, t = top.node, NEW N, N = Len(nodes), NEW D, D = Len(frames) - 1,
         NEW p, p = frames[D].node
  PROVE  ExpressionsInv'
<1>1. /\ N \in Nat /\ N >= 1 /\ D \in Nat /\ D >= 1 /\ D \in 1..D /\ Len(frames) = D + 1
      /\ D + 1 \in 1..(D + 1) /\ D \in 1..(D + 1)
  BY FrameFacts DEF Left
<1>2. /\ t \in 1..N /\ top = frames[D + 1] /\ frames[D + 1].node = t /\ top.kids = S[t]
      /\ frames[D + 1] \in Frame /\ frames \in Seq(Frame)
  BY <1>1, FrameFacts DEF Parts, Typed
<1>3. \A k \in 1..(D + 1) : /\ frames[k].node \in 1..N /\ frames[k].kids = S[frames[k].node]
                            /\ frames[k].kids \in Seq(Answers)
  <2>1. \A k \in 1..Len(frames) :
          /\ frames[k].kids \in Seq(Answers)
          /\ frames[k].node \in 1..Len(nodes) /\ frames[k].kids = S[frames[k].node]
    BY ONLY Parts(S, U), FrameFacts
  <2>. QED BY ONLY <1>1, <2>1, N = Len(nodes)
<1>4. \A i : Active(i) <=> \E k \in 1..(D + 1) : frames[k].node = i
  <2>1. \A i : Active(i) <=> \E k \in 1..Len(frames) : frames[k].node = i
    BY ONLY Parts(S, U), FrameFacts
  <2>. QED BY ONLY <1>1, <2>1
<1>5. \A k \in 1..D : k \in 1..(D + 1) /\ k # D + 1 /\ frames[k].node # t
  <2>. SUFFICES ASSUME NEW k \in 1..D
                PROVE  k \in 1..(D + 1) /\ k # D + 1 /\ frames[k].node # t
    OBVIOUS
  <2>1. k \in 1..(D + 1) /\ k # D + 1
    BY <1>1
  <2>2. k \in 1..Len(frames) /\ Len(frames) \in 1..Len(frames) /\ k # Len(frames)
    BY ONLY <1>1, <2>1
  <2>3. frames[k].node # frames[Len(frames)].node
    BY ONLY Parts(S, U), <2>2, FramesApart
  <2>. QED BY ONLY <1>1, <1>2, <2>1, <2>3
<1>6. /\ p \in 1..N /\ frames[D].kids = S[p] /\ S[p] \in Seq(Answers) /\ p # t /\ t \in 2..N
      /\ nodes[t].parent = p /\ nodes[t].nth = Len(S[p]) + 1
  <2>1. p \in 1..N /\ frames[D].kids = S[p] /\ S[p] \in Seq(Answers) /\ p # t
    BY <1>1, <1>3, <1>5
  <2>2. D \in 1..(Len(frames) - 1)
    BY <1>1
  <2>3. t # 1 /\ nodes[t].parent = p /\ nodes[t].nth = Len(frames[D].kids) + 1
    BY <1>2, <2>2 DEF Parts, Stack
  <2>. QED BY <1>1, <1>2, <2>1, <2>3
<1>7. /\ S[t] \in Seq(Answers) /\ r = Answer(nodes[t], S[t]) /\ ~More(Record(t, S[t]))
      /\ nodes[t].op \in LeafOps \cup UnaryOps \cup BinaryOps \cup CallOps
      /\ nodes[t].op \notin LeafOps /\ Written(nodes[t])
  <2>1. top = Record(t, S[t])
    BY <1>2 DEF Frame, Record
  <2>2. r = Answer(nodes[t], S[t]) /\ ~More(Record(t, S[t]))
    BY <1>2, <2>1 DEF Left, Form
  <2>3. nodes[t].op \notin LeafOps
    BY <1>1, <1>2 DEF Parts, Stack
  <2>4. t # 1 /\ t \in 1..Len(nodes) /\ Parts(S, U)
    BY <1>2, <1>6
  <2>5. /\ S[t] \in Seq(Answers) /\ Written(nodes[t])
        /\ nodes[t].op \in LeafOps \cup UnaryOps \cup BinaryOps \cup CallOps
    BY ONLY <2>4, NodeFacts
  <2>. QED BY ONLY <2>2, <2>3, <2>5
<1>8. Sound(nodes[t], S[t], r) /\ r \in Answers
  <2>1. Ready(nodes[t], S[t])
    BY <1>7, CompletedHas DEF Ready
  <2>2. Flags
    BY DEF Parts, Typed
  <2>. QED BY <1>7, <2>1, <2>2, AnswerSound DEF Sound
<1>9. /\ Front(frames) \in Seq(Frame) /\ Len(Front(frames)) = D /\ Front(frames) # <<>>
      /\ \A k \in 1..D : Front(frames)[k] = frames[k]
  <2>1. /\ SubSeq(frames, 1, D) \in Seq(Frame) /\ Len(SubSeq(frames, 1, D)) = D
        /\ \A k \in 1..D : SubSeq(frames, 1, D)[k] = frames[1 + k - 1]
    BY <1>1, <1>2, SubSeqProperties
  <2>2. Front(frames) = SubSeq(frames, 1, D)
    BY DEF Front
  <2>3. \A k \in 1..D : SubSeq(frames, 1, D)[k] = frames[k]
    <3>1. \A k \in 1..D : 1 + k - 1 = k
      BY <1>1
    <3>. QED BY <2>1, <3>1
  <2>4. SubSeq(frames, 1, D) # <<>>
    <3>1. PICK g : g = SubSeq(frames, 1, D)
      OBVIOUS
    <3>2. Len(g) = D
      BY <2>1, <3>1
    <3>3. g # <<>>
      BY <1>1, <3>2, EmptySeq
    <3>. QED BY <3>1, <3>3
  <2>. QED BY <2>1, <2>2, <2>3, <2>4
<1>10. /\ frames' \in Seq(Frame) /\ Len(frames') = D /\ DOMAIN frames' = 1..D
       /\ \A k \in 1..D : frames'[k].node = frames[k].node
       /\ \A k \in 1..D : k # D => frames'[k].kids = frames[k].kids
       /\ frames'[D].kids = Append(S[p], r)
  <2>1. /\ frames' \in Seq(Frame) /\ Len(frames') = D
        /\ \A k \in 1..D : frames'[k].node = Front(frames)[k].node
        /\ \A k \in 1..D : k # D => frames'[k].kids = Front(frames)[k].kids
        /\ frames'[D].kids = Append(Front(frames)[D].kids, r)
    BY <1>8, <1>9, ReturnTo DEF Left
  <2>2. DOMAIN frames' = 1..D
    BY <2>1, LenProperties
  <2>. QED BY <1>1, <1>6, <1>9, <2>1, <2>2
<1>11. PICK a \in Seq(Answers) :
         /\ a = Append(S[p], r) /\ a # <<>> /\ Len(S[p]) \in Nat /\ Len(a) = Len(S[p]) + 1
         /\ \A m \in 1..Len(S[p]) : a[m] = S[p][m]
         /\ a[Len(S[p]) + 1] = r
  <2>1. S[p] \in Seq(Answers) /\ r \in Answers
    BY <1>6, <1>8
  <2>2. /\ Append(S[p], r) \in Seq(Answers) /\ Append(S[p], r) # <<>> /\ Len(S[p]) \in Nat
        /\ Len(Append(S[p], r)) = Len(S[p]) + 1
        /\ \A m \in 1..Len(S[p]) : Append(S[p], r)[m] = S[p][m]
        /\ Append(S[p], r)[Len(S[p]) + 1] = r
    BY ONLY <2>1, AppendProperties, LenProperties
  <2>. QED BY <2>2
<1>12. /\ method' = method /\ state = "visiting" /\ state' = state /\ failed' = (failed \/ r.bad)
       /\ allow' = (allow /\ ~(SelectsAt(p) /\ S[p] = <<>>)) /\ nodes' = nodes
  <2>1. Front(frames)[Len(Front(frames))] = frames[D]
    BY <1>1, <1>9
  <2>. QED BY <1>6, <2>1 DEF Left, Return, Form, SelectsAt
<1>13. \A i : Active(i)' <=> Active(i) /\ i # t
  <2>1. \A i : Active(i)' <=> \E k \in 1..D : frames'[k].node = i
    BY <1>10 DEF Active
  <2>2. \A k \in 1..(D + 1) : k \in 1..D \/ k = D + 1
    BY <1>1
  <2>. QED BY <1>2, <1>4, <1>5, <1>10, <2>1, <2>2
<1>14. Active(p) /\ Active(t)
  BY <1>1, <1>2, <1>4
<1>15. PICK S2 : S2 = [i \in 1..N |-> IF i = p THEN a ELSE S[i]]
  OBVIOUS
<1>16. /\ S2[p] = a /\ DOMAIN S2 = 1..N
       /\ \A i \in 1..N : i # p => S2[i] = S[i]
  BY <1>6, <1>15
<1>17. \A i \in 1..N : S[i] \in Seq(Answers) /\ Len(S[i]) \in Nat
  BY NodeFacts
<1>18. ASSUME NEW i \in 2..N
       PROVE  i \in 1..N /\ nodes[i].parent \in 1..N /\ nodes[i].nth \in Nat
  <2>1. i \in 1..N /\ i # 1
    BY <1>1
  <2>2. nodes[i].parent \in 1..(i - 1) /\ nodes[i].nth \in Nat
    BY <2>1, NodeFacts
  <2>3. PICK q : q = nodes[i].parent
    OBVIOUS
  <2>4. q \in 1..N
    <3>1. N \in Nat
      BY <1>1
    <3>. QED BY ONLY <2>1, <2>2, <2>3, <3>1
  <2>. QED BY <2>1, <2>2, <2>3, <2>4
<1>19. ASSUME NEW i \in 2..N, ~Active(i)
       PROVE  Right(S2, U, i)' /\ Answered(S2, i)' = Answered(S, i)
  <2>1. S2[i] = S[i] /\ (failed => failed')
    BY <1>12, <1>14, <1>16, <1>18, <1>19
  <2>2. \A q \in 1..N : \A m \in 1..Len(S[q]) : S2[q][m] = S[q][m]
    <3>1. \A m \in 1..Len(S[p]) : S2[p][m] = S[p][m]
      BY ONLY <1>11, <1>16
    <3>2. \A q \in 1..N : q # p => S2[q] = S[q]
      BY <1>16
    <3>. QED BY ONLY <3>1, <3>2
  <2>3. \A m \in 1..Len(S[nodes[i].parent]) : S2[nodes[i].parent][m] = S[nodes[i].parent][m]
    BY <1>18, <2>2
  <2>. QED BY <1>12, <1>19, <2>1, <2>3, StillRight
<1>20. Answered(S2, t)' = r
  <2>1. ASSUME NEW i, i = t PROVE Answered(S2, i)' = r
    BY <1>6, <1>11, <1>12, <1>16, <2>1 DEF Answered
  <2>. QED BY <2>1
<1>21. Typed'
  <2>1. Kept(Form(top), r) \in KeptTypes
    BY <1>8 DEF Kept, KeptTypes, Answers
  <2>2. exprTypes' \in Seq(KeptTypes) /\ Len(exprTypes') = N
    <3>1. exprTypes \in Seq(KeptTypes) /\ Len(exprTypes) = N
      BY DEF Parts, Typed
    <3>2. exprTypes' = [exprTypes EXCEPT ![t] = Kept(Form(top), r)]
      BY DEF Left
    <3>. QED BY <1>2, <2>1, <3>1, <3>2, ExceptSeq
  <2>3. Flags' /\ failed' \in BOOLEAN
    BY <1>8, <1>12 DEF Parts, Typed, Flags, method, Answers
  <2>. QED BY <1>1, <1>10, <1>12, <2>2, <2>3 DEF Parts, Typed
<1>22. Shape'
  <2>1. \A i : Place(i)' <=> Place(i)
    BY <1>12 DEF Place
  <2>. QED BY <1>12, <2>1 DEF Parts, Shape
<1>23. Upward(U)'
  BY <1>12 DEF Parts, Upward
<1>24. Stack(S2, U)'
  <2>1. ASSUME NEW k \in 1..D
        PROVE  /\ frames'[k].node \in 1..N /\ nodes[frames'[k].node].op \notin LeafOps
               /\ frames'[k].kids = S2[frames'[k].node]
               /\ U[frames'[k].node] = {frames'[j].node : j \in 1..k}
    <3>1. frames'[k].node = frames[k].node /\ frames[k].node \in 1..N /\ k \in 1..(D + 1)
      BY <1>3, <1>5, <1>10
    <3>2. nodes[frames[k].node].op \notin LeafOps /\ U[frames[k].node] = {frames[j].node : j \in 1..k}
      BY <1>1, <3>1 DEF Parts, Stack
    <3>3. \A j \in 1..k : frames'[j].node = frames[j].node
      BY <1>1, <1>10
    <3>4. {frames'[j].node : j \in 1..k} = {frames[j].node : j \in 1..k}
      BY <3>3
    <3>5. frames'[k].kids = S2[frames'[k].node]
      <4>1. CASE k = D
        BY <1>10, <1>11, <1>16, <3>1, <4>1
      <4>2. CASE k # D
        <5>1. frames'[k].kids = S[frames[k].node]
          BY <1>3, <1>10, <3>1, <4>2
        <5>2. frames[k].node # p
          BY <1>1, <3>1, <4>2, FramesApart
        <5>. QED BY <1>16, <3>1, <5>1, <5>2
      <4>. QED BY <4>1, <4>2
    <3>. QED BY <3>1, <3>2, <3>4, <3>5
  <2>2. ASSUME NEW k \in 1..(D - 1)
        PROVE  /\ frames'[k + 1].node # 1
               /\ nodes[frames'[k + 1].node].parent = frames'[k].node
               /\ nodes[frames'[k + 1].node].nth = Len(frames'[k].kids) + 1
    <3>1. k \in 1..D /\ k + 1 \in 1..D /\ k # D /\ k \in 1..(Len(frames) - 1)
      BY <1>1
    <3>2. /\ frames[k + 1].node # 1 /\ nodes[frames[k + 1].node].parent = frames[k].node
          /\ nodes[frames[k + 1].node].nth = Len(frames[k].kids) + 1
      BY <3>1 DEF Parts, Stack
    <3>. QED BY <1>10, <3>1, <3>2
  <2>3. \A j, k \in 1..D : j < k => frames'[j].node < frames'[k].node
    <3>1. \A j, k \in 1..D : j < k => frames[j].node < frames[k].node
      BY <1>1, <1>5 DEF Parts, Stack
    <3>. QED BY <1>10, <3>1
  <2>4. frames'[1].node = 1
    BY <1>1, <1>10 DEF Parts, Stack
  <2>5. top'.kids # <<>>
    BY <1>10, <1>11 DEF top
  <2>. QED BY <1>10, <1>12, <2>1, <2>2, <2>3, <2>4, <2>5 DEF Stack
<1>25. Heard(S2)'
  <2>1. S2 \in [1..N -> Seq(Answers)]
    BY <1>15, <1>17
  <2>2. ASSUME NEW i \in 1..N PROVE Len(S2[i]) <= Arity(nodes[i])
    <3>1. CASE i = p
      <4>1. nodes[t].nth \in 1..Arity(nodes[p])
        BY <1>6 DEF Parts, Shape, Place
      <4>2. Len(S2[i]) = nodes[t].nth
        BY <1>6, <1>11, <1>16, <3>1
      <4>3. Arity(nodes[p]) \in Nat
        BY <1>6, NodeFacts
      <4>. QED BY ONLY <3>1, <4>1, <4>2, <4>3
    <3>2. CASE i # p
      BY <1>16, <3>2 DEF Parts, Heard
    <3>. QED BY <3>1, <3>2
  <2>3. ASSUME NEW q \in 1..N PROVE Len(S2[q]) \in Nat /\ Len(S[q]) <= Len(S2[q])
    <3>1. CASE q = p
      <4>1. PICK l \in Nat : l = Len(S[p])
        BY <1>11
      <4>2. Len(S2[q]) = l + 1 /\ Len(S[q]) = l
        BY <1>11, <1>16, <3>1, <4>1
      <4>. QED BY <4>2
    <3>2. CASE q # p
      <4>1. PICK l \in Nat : l = Len(S[q])
        BY <1>17
      <4>2. Len(S2[q]) = l
        BY <1>16, <3>2, <4>1
      <4>. QED BY <4>1, <4>2
    <3>. QED BY <3>1, <3>2
  <2>4. ASSUME NEW i \in 2..N, ~Active(i) \/ i = t PROVE nodes[i].nth <= Len(S2[nodes[i].parent])
    <3>1. CASE i = t
      <4>1. S2[nodes[i].parent] = a /\ nodes[i].nth = Len(S[p]) + 1
        BY <1>6, <1>16, <3>1
      <4>2. Len(a) = Len(S[p]) + 1 /\ Len(S[p]) \in Nat
        BY <1>11
      <4>. QED BY <4>1, <4>2
    <3>2. CASE i # t
      <4>1. nodes[i].nth <= Len(S[nodes[i].parent])
        BY <2>4, <3>2 DEF Parts, Heard
      <4>2. PICK q \in 1..N, m \in Nat : q = nodes[i].parent /\ m = nodes[i].nth
        BY <1>18
      <4>3. m <= Len(S[q]) /\ Len(S[q]) \in Nat /\ Len(S2[q]) \in Nat /\ Len(S[q]) <= Len(S2[q])
        BY <1>17, <2>3, <4>1, <4>2
      <4>4. m <= Len(S2[q])
        <5>1. PICK l, l2 : l = Len(S[q]) /\ l2 = Len(S2[q])
          OBVIOUS
        <5>2. m <= l /\ m \in Nat /\ l \in Nat /\ l2 \in Nat /\ l <= l2
          BY ONLY <4>2, <4>3, <5>1
        <5>3. m <= l2
          BY ONLY <5>2
        <5>. QED BY ONLY <5>1, <5>3
      <4>. QED BY ONLY <4>2, <4>4
    <3>. QED BY <3>1, <3>2
  <2>5. ASSUME NEW i \in 1..N, NEW m \in 1..Len(S2[i])
        PROVE  \E j \in 2..N : (~Active(j) \/ j = t) /\ nodes[j].parent = i /\ nodes[j].nth = m
    <3>1. CASE m \in 1..Len(S[i])
      BY <3>1 DEF Parts, Heard
    <3>2. CASE m \notin 1..Len(S[i])
      <4>1. i = p
        <5>1. i # p => S2[i] = S[i]
          BY <1>16
        <5>. QED BY <3>2, <5>1
      <4>2. PICK l \in Nat : l = Len(S[p]) /\ Len(S2[i]) = l + 1
        BY <1>11, <1>16, <4>1
      <4>3. m \in 1..(l + 1) /\ m \notin 1..l
        BY <3>2, <4>1, <4>2
      <4>4. m = Len(S[p]) + 1
        BY ONLY <4>2, <4>3
      <4>. QED BY <1>6, <4>1, <4>4
    <3>. QED BY <3>1, <3>2
  <2>6. \A i : ~Active(i)' <=> ~Active(i) \/ i = t
    BY <1>13
  <2>7. \A i \in 2..N : ~Active(i)' => nodes[i].nth <= Len(S2[nodes[i].parent])
    BY <2>4, <2>6
  <2>8. \A i \in 1..N : \A m \in 1..Len(S2[i]) :
          \E j \in 2..N : ~Active(j)' /\ nodes[j].parent = i /\ nodes[j].nth = m
    <3>1. ASSUME NEW i \in 1..N, NEW m \in 1..Len(S2[i])
          PROVE  \E j \in 2..N : ~Active(j)' /\ nodes[j].parent = i /\ nodes[j].nth = m
      <4>1. PICK j \in 2..N : (~Active(j) \/ j = t) /\ nodes[j].parent = i /\ nodes[j].nth = m
        BY <2>5
      <4>. QED BY <2>6, <4>1
    <3>. QED BY <3>1
  <2>9. \A i \in 1..N : Len(S2[i]) <= Arity(nodes[i])
    BY <2>2
  <2>10. Heard(S2)' <=>
           /\ S2 \in [1..Len(nodes') -> Seq(Answers)]
           /\ \A i \in 1..Len(nodes') : Len(S2[i]) <= Arity(nodes'[i])
           /\ \A i \in 2..Len(nodes') : ~Active(i)' => nodes'[i].nth <= Len(S2[nodes'[i].parent])
           /\ \A i \in 1..Len(nodes') : \A m \in 1..Len(S2[i]) :
                \E j \in 2..Len(nodes') : ~Active(j)' /\ nodes'[j].parent = i /\ nodes'[j].nth = m
    BY DEF Heard
  <2>11. nodes' = nodes /\ Len(nodes') = N
    BY <1>12
  <2>. QED BY ONLY <2>1, <2>7, <2>8, <2>9, <2>10, <2>11
<1>26. Right(S2, U, t)'
  <2>2. r.type = Error => failed'
    <3>1. ASSUME NEW m \in 1..Len(S[t]), S[t][m].type = Error PROVE failed
      <4>1. PICK j \in 2..N : ~Active(j) /\ nodes[j].parent = t /\ nodes[j].nth = m
        BY <1>2 DEF Parts, Heard
      <4>2. Answered(S, j) = S[t][m]
        BY <4>1 DEF Answered
      <4>3. Right(S, U, j)
        BY <4>1 DEF Parts
      <4>. QED BY <3>1, <4>2, <4>3 DEF Right
    <3>. QED BY <1>8, <1>12, <3>1 DEF Sound
  <2>3. ASSUME NEW n, n = nodes[t] PROVE r = Answer(n, S2[t])'
    <3>1. n.op # "name" /\ n.op \in LeafOps \cup UnaryOps \cup BinaryOps \cup CallOps
      BY <1>7, <2>3 DEF LeafOps
    <3>2. Answer(n, S[t])' = Answer(n, S[t])
      BY <1>12, <3>1, SameAnswer
    <3>. QED BY <1>2, <1>6, <1>7, <1>16, <2>3, <3>2
  <2>4. ASSUME NEW i, i = t PROVE ~More(Record(i, S2[i]))'
    <3>1. More(Record(t, S[t]))' <=> More(Record(t, S[t]))
      BY <1>12, SameMore
    <3>. QED BY <1>2, <1>6, <1>7, <1>16, <2>4, <3>1
  <2>5. nodes'[t] = nodes[t] /\ nodes[t].op # "name"
    BY <1>7, <1>12 DEF LeafOps
  <2>. QED BY <1>8, <1>20, <2>2, <2>3, <2>4, <2>5 DEF Right, Sound
<1>27. \A i \in 2..N : ~Active(i)' => Right(S2, U, i)'
  <2>1. ASSUME NEW i \in 2..N, ~Active(i)' PROVE Right(S2, U, i)'
    <3>1. CASE i = t
      BY <1>26, <3>1
    <3>2. CASE i # t
      BY <1>13, <1>19, <2>1, <3>2
    <3>. QED BY <3>1, <3>2
  <2>. QED BY <2>1
<1>28. FlagRight'
  <2>1. \A q : SelectsAt(q)' <=> SelectsAt(q)
    BY <1>12 DEF SelectsAt
  <2>2. ~(SelectsAt(t) /\ S[t] = <<>>)
    <3>1. SelectsAt(t) => nodes[t].op \in UnaryOps \cup {"varCall"} \cup StatementOps
      BY DEF SelectsAt, Selecting, UnaryOps
    <3>2. SelectsAt(t) => Len(S[t]) >= 1
      BY <1>7, <3>1, CompletedHas
    <3>. QED BY <3>2, EmptySeq
  <2>3. allow <=> \E k \in 1..(D + 1) : /\ SelectsAt(frames[k].node) /\ frames[k].kids = <<>>
                                        /\ \A q \in (frames[k].node + 1)..N : ~SelectsAt(q)
    BY <1>1 DEF Parts, FlagRight
  <2>4. allow <=> \E k \in 1..D : /\ SelectsAt(frames[k].node) /\ frames[k].kids = <<>>
                                  /\ \A q \in (frames[k].node + 1)..N : ~SelectsAt(q)
    <3>1. \A k \in 1..(D + 1) : k \in 1..D \/ k = D + 1
      BY <1>1
    <3>2. ~(SelectsAt(frames[D + 1].node) /\ frames[D + 1].kids = <<>>)
      BY <1>2, <2>2
    <3>3. 1..D \subseteq 1..(D + 1)
      BY <1>1
    <3>. QED BY ONLY <2>3, <3>1, <3>2, <3>3
  <2>5. allow' <=> \E k \in 1..D : /\ k # D /\ SelectsAt(frames[k].node) /\ frames[k].kids = <<>>
                                   /\ \A q \in (frames[k].node + 1)..N : ~SelectsAt(q)
    <3>1. ASSUME NEW k \in 1..D, SelectsAt(frames[k].node), SelectsAt(p), S[p] = <<>>,
                 \A q \in (frames[k].node + 1)..N : ~SelectsAt(q)
          PROVE  frames[k].node = p
      <4>1. frames[k].node \in 1..N /\ k <= D
        <5>1. k \in 1..(D + 1) /\ k <= D
          BY ONLY <1>1, k \in 1..D
        <5>. QED BY ONLY <1>3, <5>1
      <4>2. frames[k].node <= p
        <5>1. k < D => frames[k].node < frames[D].node
          BY <1>1, <1>5 DEF Parts, Stack
        <5>2. k = D \/ k < D
          BY <1>1
        <5>3. k = D => frames[k].node = p
          OBVIOUS
        <5>4. k < D => frames[k].node <= p
          <6>1. PICK x, y, z : x = frames[k].node /\ y = p /\ z = N
            OBVIOUS
          <6>2. y \in 1..z /\ z \in Nat
            BY ONLY <1>1, <1>6, <6>1
          <6>3. x \in 1..z
            BY ONLY <4>1, <6>1
          <6>4. k < D => x < y
            BY ONLY <5>1, <6>1, p = frames[D].node
          <6>5. k < D => x <= y
            BY ONLY <6>2, <6>3, <6>4
          <6>. QED BY ONLY <6>1, <6>5
        <5>5. frames[k].node = p => frames[k].node <= p
          BY <1>6
        <5>. QED BY ONLY <5>2, <5>3, <5>4, <5>5
      <4>3. p \notin (frames[k].node + 1)..N
        BY <3>1
      <4>4. PICK x, y, z : x = frames[k].node /\ y = p /\ z = N
        OBVIOUS
      <4>5. x \in 1..z /\ y \in 1..z /\ z \in Nat /\ x <= y /\ y \notin (x + 1)..z
        BY <1>1, <1>6, <4>1, <4>2, <4>3, <4>4
      <4>6. x = y
        BY ONLY <4>5
      <4>. QED BY ONLY <4>4, <4>6
    <3>2. ASSUME NEW k \in 1..D, frames[k].node = p PROVE k = D
      BY <1>1, <1>5, <3>2, FramesApart
    <3>. QED BY <1>1, <1>6, <1>12, <2>4, <3>1, <3>2
  <2>6. \A k \in 1..D : frames'[k].kids = <<>> <=> k # D /\ frames[k].kids = <<>>
    BY <1>10, <1>11
  <2>7. \A k \in 1..D : frames'[k].node = frames[k].node
    BY <1>10
  <2>. QED BY <1>10, <1>12, <2>1, <2>5, <2>6, <2>7 DEF FlagRight
<1>29. TypesKept(S2)'
  <2>1. /\ exprTypes \in Seq(KeptTypes) /\ Len(exprTypes) = N
        /\ exprTypes[1] = Unset
        /\ \A i \in 2..N : exprTypes[i] = IF Active(i) THEN Unset
                                          ELSE Kept(nodes[i], Answered(S, i))
    BY DEF Parts, Typed, TypesKept
  <2>2. /\ \A i \in 1..N : i # t => exprTypes'[i] = exprTypes[i]
        /\ exprTypes'[t] = Kept(nodes[t], r)
    <3>1. Kept(Form(top), r) = Kept(nodes[t], r) /\ Kept(nodes[t], r) \in KeptTypes
      BY <1>2, <1>8 DEF Kept, KeptTypes, Answers, Form
    <3>2. exprTypes' = [exprTypes EXCEPT ![t] = Kept(Form(top), r)]
      BY DEF Left
    <3>. QED BY <1>2, <2>1, <3>1, <3>2, ExceptSeq
  <2>3. \A n, b : Kept(n, b)' = Kept(n, b)
    BY <1>12 DEF Kept
  <2>4. ASSUME NEW i \in 2..N
        PROVE  exprTypes'[i] = IF Active(i)' THEN Unset ELSE Kept(nodes[i], Answered(S2, i))'
    <3>1. CASE i = t
      <4>1. ~Active(i)' /\ Answered(S2, i)' = r
        BY <1>13, <1>20, <3>1
      <4>. QED BY <1>12, <2>2, <2>3, <3>1, <4>1
    <3>2. CASE i # t
      <4>1. ~Active(i) => Answered(S2, i)' = Answered(S, i)
        BY <1>19
      <4>. QED BY <1>12, <1>13, <1>18, <2>1, <2>2, <2>3, <3>2, <4>1
    <3>. QED BY <3>1, <3>2
  <2>5. exprTypes'[1] = Unset
    <3>1. 1 \in 1..N /\ 1 # t
      BY <1>1, <1>6
    <3>. QED BY ONLY <2>1, <2>2, <3>1
  <2>. QED BY <1>12, <2>4, <2>5 DEF TypesKept
<1>30. Verdict(S2)'
  <2>1. failed <=> Reported(S)
    BY <1>12 DEF Parts, Verdict, Ended
  <2>2. Reported(S2)' <=> Reported(S) \/ r.bad
    <3>1. Reported(S2)' <=> \E i \in 2..N : (~Active(i) \/ i = t) /\ Answered(S2, i)'.bad
      BY <1>12, <1>13 DEF Reported
    <3>. QED BY <1>6, <1>14, <1>19, <1>20, <3>1 DEF Reported
  <2>. QED BY <1>8, <1>12, <2>1, <2>2 DEF Verdict, Ended, Answers
<1>. QED BY <1>12, <1>21, <1>22, <1>23, <1>24, <1>25, <1>27, <1>28, <1>29, <1>30 DEF Parts, ExpressionsInv

(* The tree stays when the statement ends.                                 *)
LEMMA SameTree ==
  ASSUME NEW S, NEW U, Parts(S, U), method' = method, nodes' = nodes, frames' = frames,
         allow' = allow, exprTypes' = exprTypes, failed' \in BOOLEAN, failed => failed',
         state' \in {"visiting", "crashed", "rejected", "generated", "broken"}, Verdict(S)'
  PROVE  ExpressionsInv'
<1>1. Typed'
  BY DEF Parts, Typed, Flags, method
<1>2. Shape' /\ Upward(U)' /\ Stack(S, U)'
  <2>1. \A i : Place(i)' <=> Place(i)
    BY DEF Place
  <2>2. top' = top
    BY DEF top
  <2>. QED BY <2>1, <2>2 DEF Parts, Shape, Upward, Stack
<1>3. \A i : Active(i)' <=> Active(i)
  BY DEF Active
<1>4. Heard(S)'
  BY <1>3 DEF Parts, Heard
<1>5. FlagRight' /\ TypesKept(S)'
  <2>1. \A i : (SelectsAt(i)' <=> SelectsAt(i)) /\ Answered(S, i)' = Answered(S, i)
    BY DEF SelectsAt, Answered
  <2>2. \A n, b : Kept(n, b)' = Kept(n, b)
    BY DEF Kept
  <2>. QED BY <1>3, <2>1, <2>2 DEF Parts, FlagRight, TypesKept
<1>6. \A i \in 2..Len(nodes) : ~Active(i) => Right(S, U, i)'
  BY StillRight
<1>. QED BY <1>1, <1>2, <1>3, <1>4, <1>5, <1>6 DEF Parts, ExpressionsInv

LEMMA CrashStep ==
  ASSUME NEW S, NEW U, Parts(S, U), CheckerCrashes
  PROVE  ExpressionsInv'
<1>1. method' = method /\ nodes' = nodes /\ frames' = frames /\ allow' = allow
      /\ exprTypes' = exprTypes /\ failed' = failed /\ state = "visiting" /\ state' = "crashed"
  BY DEF CheckerCrashes
<1>2. Verdict(S)'
  <2>1. failed <=> Reported(S)
    BY <1>1 DEF Parts, Verdict, Ended
  <2>2. Reported(S)' <=> Reported(S)
    BY <1>1 DEF Reported, Active, Answered
  <2>. QED BY <1>1, <2>1, <2>2 DEF Verdict, Ended
<1>3. failed \in BOOLEAN
  BY DEF Parts, Typed
<1>. QED BY <1>1, <1>2, <1>3, SameTree

LEMMA EndStep ==
  ASSUME NEW S, NEW U, Parts(S, U), EndStatement
  PROVE  ExpressionsInv'
<1>1. /\ method' = method /\ nodes' = nodes /\ frames' = frames /\ allow' = allow
      /\ exprTypes' = exprTypes /\ state = "visiting" /\ Len(frames) = 1 /\ ~More(top)
  BY DEF EndStatement
<1>2. top = frames[1] /\ top.node = 1 /\ top.kids = S[1]
  BY <1>1, FrameFacts DEF Parts, Stack, top
<1>3. /\ failed' = (failed \/ Rejects(nodes[1], S[1]))
      /\ state' = IF failed' THEN "rejected"
                  ELSE IF HasCode(nodes[1], S[1]) THEN "generated" ELSE "broken"
  BY <1>2 DEF EndStatement
<1>4. failed \in BOOLEAN /\ Rejects(nodes[1], S[1]) \in BOOLEAN
  <2>1. nodes[1].op \in StatementOps
    BY FrameFacts, NodeFacts
  <2>. QED BY <2>1 DEF Parts, Typed, Rejects, RejectsAssign, RejectsInit, RejectsReturn,
                       RejectsPrint, RejectsTest, StatementOps
<1>5. Verdict(S)'
  <2>1. failed <=> Reported(S)
    BY <1>1 DEF Parts, Verdict, Ended
  <2>2. Reported(S)' <=> Reported(S)
    BY <1>1 DEF Reported, Active, Answered
  <2>3. \A n : HasCode(n, S[1])' <=> HasCode(n, S[1])
    BY DEF HasCode
  <2>4. More(top)' <=> More(top)
    <3>1. top = Record(1, S[1]) /\ top' = top
      BY <1>1, <1>2, FrameFacts DEF Frame, Record, top
    <3>2. More(Record(1, S[1]))' <=> More(Record(1, S[1]))
      BY <1>1, SameMore
    <3>. QED BY <3>1, <3>2
  <2>5. Ended'
    BY <1>3 DEF Ended
  <2>6. /\ Len(frames') = 1 /\ ~More(top)'
        /\ failed' <=> Reported(S)' \/ (Rejects(nodes[1], S[1]))'
        /\ state' = IF failed' THEN "rejected"
                    ELSE IF (HasCode(nodes[1], S[1]))' THEN "generated" ELSE "broken"
    <3>1. (HasCode(nodes[1], S[1]))' <=> HasCode(nodes[1], S[1])
      BY <1>1, <2>3
    <3>2. (Rejects(nodes[1], S[1]))' = Rejects(nodes[1], S[1])
      <4>1. \A n : Rejects(n, S[1])' = Rejects(n, S[1])
        BY <1>1, SameRejects
      <4>. QED BY <1>1, <4>1
    <3>. QED BY <1>1, <1>3, <2>1, <2>2, <2>4, <3>1, <3>2
  <2>. QED BY <2>5, <2>6 DEF Verdict
<1>6. state' \in {"visiting", "crashed", "rejected", "generated", "broken"}
  BY <1>3
<1>. QED BY <1>1, <1>3, <1>4, <1>5, <1>6, SameTree

LEMMA StutterStep ==
  ASSUME NEW S, NEW U, Parts(S, U), UNCHANGED vars
  PROVE  ExpressionsInv'
<1>1. /\ method' = method /\ nodes' = nodes /\ frames' = frames /\ allow' = allow
      /\ exprTypes' = exprTypes /\ failed' = failed /\ state' = state
  BY DEF vars
<1>2. Verdict(S)'
  <2>1. /\ Reported(S)' <=> Reported(S)
        /\ \A n : Rejects(n, S[1])' = Rejects(n, S[1])
    BY <1>1, SameRejects DEF Reported, Active, Answered
  <2>2. Len(frames) = 1 => (More(top)' <=> More(top))
    <3>1. Len(frames) = 1 => top = Record(1, S[1])
      BY FrameFacts DEF Frame, Record, top, Parts, Stack
    <3>2. top' = top
      BY <1>1 DEF top
    <3>3. More(Record(1, S[1]))' <=> More(Record(1, S[1]))
      BY <1>1, SameMore
    <3>. QED BY <3>1, <3>2, <3>3
  <2>3. \A n : HasCode(n, S[1])' <=> HasCode(n, S[1])
    BY DEF HasCode
  <2>4. Verdict(S) /\ (Ended' <=> Ended)
    BY <1>1 DEF Parts, Ended
  <2>5. CASE ~Ended
    BY <1>1, <2>1, <2>4, <2>5 DEF Verdict
  <2>6. CASE Ended
    <3>1. /\ Len(frames) = 1 /\ ~More(top)
          /\ failed <=> Reported(S) \/ Rejects(nodes[1], S[1])
          /\ state = IF failed THEN "rejected"
                     ELSE IF HasCode(nodes[1], S[1]) THEN "generated" ELSE "broken"
      BY <2>4, <2>6 DEF Verdict
    <3>2. (HasCode(nodes[1], S[1]))' <=> HasCode(nodes[1], S[1])
      BY <1>1, <2>3
    <3>3. (Rejects(nodes[1], S[1]))' = Rejects(nodes[1], S[1])
      BY <1>1, <2>1
    <3>4. /\ Len(frames') = 1 /\ ~More(top)'
          /\ failed' <=> Reported(S)' \/ (Rejects(nodes[1], S[1]))'
          /\ state' = IF failed' THEN "rejected"
                      ELSE IF (HasCode(nodes[1], S[1]))' THEN "generated" ELSE "broken"
      BY <1>1, <2>1, <2>2, <3>1, <3>2, <3>3
    <3>. QED BY <2>4, <2>6, <3>4 DEF Verdict
  <2>. QED BY <2>5, <2>6
<1>3. failed \in BOOLEAN /\ state \in {"visiting", "crashed", "rejected", "generated", "broken"}
  BY DEF Parts, Typed
<1>. QED BY <1>1, <1>2, <1>3, SameTree

LEMMA ExpressionsStep ==
  ASSUME ExpressionsInv, [Next]_vars
  PROVE  ExpressionsInv'
<1>1. PICK S, U : Parts(S, U)
  BY DEF ExpressionsInv
<1>2. CASE VisitLeaf
  <2>1. PICK e \in Leaves : LeafVisited(e, Answer(e, <<>>))
    BY <1>2 DEF VisitLeaf, LeafVisited
  <2>. QED BY <1>1, <2>1, LeafStep
<1>3. CASE EnterExpr
  <2>1. PICK e \in Unaries \cup Binaries \cup Calls : Entered(e)
    BY <1>3 DEF EnterExpr, Entered, Record
  <2>2. e \in Exprs /\ e.op \notin LeafOps
    <3>1. e \in Exprs
      BY DEF Exprs
    <3>2. e \notin Leaves
      <4>1. CASE e \in Calls
        <5>1. PICK op \in CallOps : e.op = op
          BY <4>1 DEF Calls, CallOps
        <5>. QED BY <5>1 DEF CallOps, Leaves, Op
      <4>2. CASE e \in Unaries \cup Binaries
        BY <4>2 DEF Unaries, Binaries, Leaves, Op
      <4>. QED BY <4>1, <4>2
    <3>. QED BY <3>1, <3>2, ExprsAre
  <2>. QED BY <1>1, <2>1, <2>2, EnterStep
<1>4. CASE LeaveExpr
  <2>1. Left(Answer(Form(top), top.kids))
    BY <1>4 DEF LeaveExpr, Left
  <2>. QED BY <1>1, <2>1, LeaveStep
<1>5. CASE CheckerCrashes
  BY <1>1, <1>5, CrashStep
<1>6. CASE EndStatement
  BY <1>1, <1>6, EndStep
<1>7. CASE UNCHANGED vars
  BY <1>1, <1>7, StutterStep
<1>. QED BY <1>2, <1>3, <1>4, <1>5, <1>6, <1>7 DEF Next

(* The visitors are a path of the tree, every other node has answered what *)
(* TypeChecker and CodeGenVisitor would for it, and the flag is up exactly *)
(* in the prefix of the last call or selection.                            *)
THEOREM ExpressionsInvariant == Spec => []ExpressionsInv
<1>1. Init => ExpressionsInv
  BY InitParts
<1>2. ExpressionsInv /\ [Next]_vars => ExpressionsInv'
  BY ExpressionsStep
<1>. QED BY <1>1, <1>2, PTL DEF Spec

LEMMA PartsTyped ==
  ASSUME NEW S, NEW U, Parts(S, U)
  PROVE  TypeOK
<1>1. /\ base \in BaseMap /\ curClass \in Name /\ static \in BOOLEAN
      /\ allow \in BOOLEAN /\ failed \in BOOLEAN
      /\ state \in {"visiting", "crashed", "rejected", "generated", "broken"}
      /\ Len(exprTypes) = Len(nodes)
  BY DEF Parts, Typed, Flags
<1>2. DOMAIN exprTypes = 1..Len(nodes) /\ exprTypes \in Seq(KeptTypes)
  BY LenProperties DEF Parts, Typed
<1>3. DOMAIN nodes = 1..Len(nodes)
  BY LenProperties DEF Parts, Typed
<1>4. \A i \in DOMAIN exprTypes : exprTypes[i] \in Type \cup {Error, Unset}
  BY <1>1, <1>2, ElementOfSeq DEF KeptTypes
<1>5. \A k \in DOMAIN frames : frames[k].node \in DOMAIN nodes
  BY <1>3, FrameFacts
<1>6. ASSUME NEW i \in DOMAIN exprTypes, exprTypes[i] = Error PROVE failed
  <2>1. Unset # Error
    BY DEF Unset, Error, T
  <2>2. i \in 2..Len(nodes)
    BY <1>2, <1>6, <2>1, FrameFacts DEF Parts, TypesKept
  <2>3. ~Active(i) /\ Kept(nodes[i], Answered(S, i)) = Error
    BY <1>6, <2>1, <2>2 DEF Parts, TypesKept
  <2>4. Answered(S, i).type = Error
    BY <2>1, <2>3 DEF Kept
  <2>. QED BY <2>2, <2>3, <2>4 DEF Parts, Right
<1>7. allow => \E k \in DOMAIN frames : Form(frames[k]).op \in Selecting /\ frames[k].kids = <<>>
  BY FrameFacts DEF Parts, FlagRight, SelectsAt, Form
<1>. QED BY <1>1, <1>4, <1>5, <1>6, <1>7 DEF TypeOK

(* TypeOK for statements of any size: an error type that is kept has been  *)
(* reported, and allowClassName is only up while a prefix is visited.      *)
THEOREM ExpressionsTypeCorrect == Spec => []TypeOK
<1>1. ExpressionsInv => TypeOK
  BY PartsTyped DEF ExpressionsInv
<1>. QED BY <1>1, ExpressionsInvariant, PTL

-----------------------------------------------------------------------------
(* The tree of a statement that has ended.                                 *)

LEMMA TreeEnds ==
  ASSUME NEW S, NEW U, Parts(S, U), Ended
  PROVE  /\ \A i \in 2..Len(nodes) :
              /\ ~Active(i) /\ Right(S, U, i) /\ nodes[i].nth \in 1..Len(S[nodes[i].parent])
              /\ exprTypes[i] = Kept(nodes[i], Answered(S, i))
         /\ ~More(Record(1, S[1]))
         /\ failed <=> \/ \E i \in 2..Len(nodes) : Answered(S, i).bad
                       \/ Rejects(nodes[1], S[1])
         /\ ~failed => (state = "generated" <=> HasCode(nodes[1], S[1]))
<1>1. Len(nodes) \in Nat /\ Len(frames) = 1 /\ ~More(top)
  BY FrameFacts DEF Parts, Verdict
<1>2. frames[1].node = 1 /\ frames[1].kids = S[1]
  BY <1>1, FrameFacts DEF Parts, Stack
<1>3. frames[1] = Record(1, S[1])
  <2>1. frames[1] \in Frame
    BY <1>1, FrameFacts
  <2>. QED BY <1>2, <2>1 DEF Frame, Record
<1>4. ~More(Record(1, S[1]))
  BY <1>1, <1>3 DEF top
<1>5. ASSUME NEW i \in 2..Len(nodes) PROVE ~Active(i)
  BY <1>1, <1>2, FrameFacts
<1>6. ASSUME NEW i \in 2..Len(nodes) PROVE nodes[i].nth \in 1..Len(S[nodes[i].parent])
  <2>1. nodes[i].nth <= Len(S[nodes[i].parent])
    BY <1>5 DEF Parts, Heard
  <2>2. Place(i)
    BY DEF Parts, Shape
  <2>3. nodes[i].parent \in 1..Len(nodes)
    BY <1>1, <2>2 DEF Place
  <2>4. Arity(nodes[nodes[i].parent]) \in Nat /\ Len(S[nodes[i].parent]) \in Nat
    BY <2>3, NodeFacts
  <2>. QED BY <2>1, <2>2, <2>4 DEF Place
<1>7. \A i \in 2..Len(nodes) : Right(S, U, i) /\ exprTypes[i] = Kept(nodes[i], Answered(S, i))
  BY <1>5 DEF Parts, TypesKept
<1>8. Reported(S) <=> \E i \in 2..Len(nodes) : Answered(S, i).bad
  BY <1>5 DEF Reported
<1>9. /\ failed <=> Reported(S) \/ Rejects(nodes[1], S[1])
      /\ ~failed => (state = "generated" <=> HasCode(nodes[1], S[1]))
  BY DEF Parts, Verdict
<1>. QED BY <1>4, <1>5, <1>6, <1>7, <1>8, <1>9

(* The subexpressions of a node are those that have answered it.           *)
LEMMA KidsAre ==
  ASSUME NEW S, NEW U, Parts(S, U), Ended, NEW i \in 1..Len(nodes), NEW m \in 1..Len(S[i])
  PROVE  /\ Kid(i, m) \in 2..Len(nodes) /\ i < Kid(i, m) /\ HasKid(i, m)
         /\ Kid(i, m) \in Kids(i) /\ nodes[Kid(i, m)].parent = i /\ nodes[Kid(i, m)].nth = m
         /\ Answered(S, Kid(i, m)) = S[i][m]
<1>1. DOMAIN nodes = 1..Len(nodes) /\ Len(nodes) \in Nat
  BY LenProperties DEF Parts, Typed
<1>2. PICK j \in 2..Len(nodes) : nodes[j].parent = i /\ nodes[j].nth = m
  BY DEF Parts, Heard
<1>3. j \in Kids(i) /\ nodes[j].nth = m
  BY <1>1, <1>2 DEF Kids
<1>4. Kid(i, m) \in Kids(i) /\ nodes[Kid(i, m)].nth = m
  BY <1>3 DEF Kid
<1>5. Kid(i, m) \in 1..Len(nodes) /\ nodes[Kid(i, m)].parent = i
  BY <1>1, <1>4 DEF Kids
<1>6. Kid(i, m) # 1
  BY <1>5, NodeFacts
<1>7. nodes[Kid(i, m)].parent \in 1..(Kid(i, m) - 1) /\ Kid(i, m) \in 2..Len(nodes)
  BY <1>5, <1>6, NodeFacts
<1>. QED BY <1>3, <1>4, <1>5, <1>7 DEF HasKid, Answered

LEMMA KidsHave ==
  ASSUME NEW S, NEW U, Parts(S, U), Ended, NEW i \in 1..Len(nodes), NEW j \in Kids(i)
  PROVE  /\ j \in 2..Len(nodes) /\ i < j /\ nodes[j].parent = i
         /\ nodes[j].nth \in 1..Len(S[i]) /\ j = Kid(i, nodes[j].nth)
<1>1. DOMAIN nodes = 1..Len(nodes) /\ Len(nodes) \in Nat
  BY LenProperties DEF Parts, Typed
<1>2. j \in 1..Len(nodes) /\ nodes[j].parent = i
  BY <1>1 DEF Kids
<1>3. j # 1
  BY <1>2, NodeFacts
<1>4. j \in 2..Len(nodes) /\ nodes[j].parent \in 1..(j - 1)
  BY <1>2, <1>3, NodeFacts
<1>5. nodes[j].nth \in 1..Len(S[i])
  BY <1>2, <1>4, TreeEnds
<1>6. /\ Kid(i, nodes[j].nth) \in 2..Len(nodes) /\ nodes[Kid(i, nodes[j].nth)].parent = i
      /\ nodes[Kid(i, nodes[j].nth)].nth = nodes[j].nth
  BY <1>5, KidsAre
<1>7. j = Kid(i, nodes[j].nth)
  BY <1>2, <1>4, <1>6 DEF Parts, Shape
<1>. QED BY <1>2, <1>4, <1>5, <1>7

LEMMA HasKidIs ==
  ASSUME NEW S, NEW U, Parts(S, U), Ended, NEW i \in 1..Len(nodes), NEW m
  PROVE  HasKid(i, m) <=> m \in 1..Len(S[i])
<1>1. ASSUME HasKid(i, m) PROVE m \in 1..Len(S[i])
  <2>1. PICK j \in Kids(i) : nodes[j].nth = m
    BY <1>1 DEF HasKid
  <2>. QED BY <2>1, KidsHave
<1>2. ASSUME m \in 1..Len(S[i]) PROVE HasKid(i, m)
  BY <1>2, KidsAre
<1>. QED BY <1>1, <1>2

(* The ancestors of a node come before it.                                 *)
LEMMA UpwardBelow ==
  ASSUME NEW S, NEW U, Parts(S, U)
  PROVE  \A i \in 1..Len(nodes) : U[i] \subseteq 1..i
<1>. DEFINE N == Len(nodes)
            D == {i \in 0..N : \A j \in 1..i : U[j] \subseteq 1..j}
<1>1. N \in Nat /\ 0 \in D
  BY FrameFacts
<1>2. ASSUME NEW i \in 0..(N - 1), i \in D PROVE i + 1 \in D
  <2>1. U[i + 1] \subseteq 1..(i + 1)
    <3>1. CASE i = 0
      BY <3>1 DEF Parts, Upward
    <3>2. CASE i # 0
      <4>1. i + 1 \in 2..N
        BY <1>1, <3>2
      <4>2. Place(i + 1) /\ U[i + 1] = {i + 1} \cup U[nodes[i + 1].parent]
        BY <4>1 DEF Parts, Shape, Upward
      <4>3. nodes[i + 1].parent \in 1..i
        BY <4>2 DEF Place
      <4>4. U[nodes[i + 1].parent] \subseteq 1..nodes[i + 1].parent
        BY <1>2, <4>3
      <4>. QED BY <4>2, <4>3, <4>4
    <3>. QED BY <3>1, <3>2
  <2>2. \A j \in 1..(i + 1) : j = i + 1 \/ j \in 1..i
    OBVIOUS
  <2>. QED BY <1>1, <1>2, <2>1, <2>2
<1>3. \A i \in 0..N : i \in D
  <2>. HIDE DEF D, N
  <2>. QED BY <1>1, <1>2, UpTo
<1>. QED BY <1>1, <1>3

LEMMA WithinIs ==
  ASSUME NEW S, NEW U, Parts(S, U), NEW i \in 1..Len(nodes), NEW j \in 2..Len(nodes)
  PROVE  Within(i, j) <=> j \in U[i]
<1>. DEFINE N == Len(nodes)
            Up(f) == [k \in 0..N |-> k >= j /\ (k = j \/ f[nodes[k].parent])]
            g == [k \in 0..N |-> k # 0 /\ j \in U[k]]
            up == CHOOSE f : f = Up(f)
<1>1. N \in Nat /\ \A k \in 1..N : U[k] \subseteq 1..k
  BY FrameFacts, UpwardBelow
<1>2. \A k \in 2..N : nodes[k].parent \in 1..(k - 1) /\ U[k] = {k} \cup U[nodes[k].parent]
  BY DEF Parts, Shape, Place, Upward
<1>3. U[1] = {1}
  BY DEF Parts, Upward
<1>91. \A k \in 0..N : g[k] <=> k # 0 /\ j \in U[k]
  OBVIOUS
<1>92. \A k \in 0..N : g[k] \in BOOLEAN
  OBVIOUS
<1>93. g = [k \in 0..N |-> g[k]]
  OBVIOUS
<1>. HIDE DEF g
<1>4. ASSUME NEW k \in 0..N PROVE g[k] <=> k >= j /\ (k = j \/ g[nodes[k].parent])
  <2>1. CASE k \in {0, 1}
    BY <1>1, <1>3, <1>91, <2>1
  <2>2. CASE k \in 2..N
    <3>1. nodes[k].parent \in 1..(k - 1) /\ U[k] = {k} \cup U[nodes[k].parent] /\ U[k] \subseteq 1..k
      BY <1>1, <1>2, <2>2
    <3>2. g[k] <=> j \in U[k]
      BY <1>91, <2>2
    <3>3. g[nodes[k].parent] <=> j \in U[nodes[k].parent]
      BY <1>1, <1>91, <2>2, <3>1
    <3>4. j \in U[k] <=> j = k \/ j \in U[nodes[k].parent]
      BY <3>1
    <3>5. j \in U[k] => k >= j
      BY <3>1
    <3>. QED BY <3>2, <3>3, <3>4, <3>5
  <2>. QED BY <1>1, <2>1, <2>2
<1>5. g = Up(g)
  <2>1. \A k \in 0..N : g[k] = (k >= j /\ (k = j \/ g[nodes[k].parent]))
    BY <1>4, <1>92
  <2>2. g = [k \in 0..N |-> k >= j /\ (k = j \/ g[nodes[k].parent])]
    BY <1>93, <2>1
  <2>. QED BY <2>2
<1>6. up = Up(up)
  BY <1>5
<1>7. \A k \in 0..N : up[k] <=> (k >= j /\ (k = j \/ up[nodes[k].parent]))
  <2>. HIDE DEF up
  <2>. QED BY <1>6
<1>. DEFINE D == {k \in 0..N : \A l \in 1..k : up[l] <=> j \in U[l]}
<1>. HIDE DEF up
<1>8. 0 \in D
  BY <1>1
<1>9. ASSUME NEW k \in 0..(N - 1), k \in D PROVE k + 1 \in D
  <2>1. k + 1 \in 1..N /\ k + 1 \in 0..N
    BY <1>1
  <2>2. up[k + 1] <=> j \in U[k + 1]
    <3>1. CASE k = 0
      <4>1. up[1] <=> (1 >= j /\ (1 = j \/ up[nodes[1].parent]))
        BY <1>7, <2>1, <3>1
      <4>. QED BY <1>3, <3>1, <4>1
    <3>2. CASE k # 0
      <4>1. k + 1 \in 2..N
        BY <2>1, <3>2
      <4>2. /\ nodes[k + 1].parent \in 1..k /\ U[k + 1] = {k + 1} \cup U[nodes[k + 1].parent]
            /\ U[k + 1] \subseteq 1..(k + 1)
        BY <1>1, <1>2, <2>1, <4>1
      <4>3. up[nodes[k + 1].parent] <=> j \in U[nodes[k + 1].parent]
        BY <1>9, <4>2
      <4>4. up[k + 1] <=> (k + 1 >= j /\ (k + 1 = j \/ up[nodes[k + 1].parent]))
        BY <1>7, <2>1
      <4>5. j \in U[k + 1] <=> j = k + 1 \/ j \in U[nodes[k + 1].parent]
        BY <4>2
      <4>6. j \in U[k + 1] => k + 1 >= j
        BY <4>2
      <4>. QED BY <4>3, <4>4, <4>5, <4>6
    <3>. QED BY <3>1, <3>2
  <2>3. \A l \in 1..(k + 1) : l = k + 1 \/ l \in 1..k
    OBVIOUS
  <2>. QED BY <1>9, <2>1, <2>2, <2>3
<1>10. \A k \in 0..N : k \in D
  <2>. HIDE DEF D, N
  <2>. QED BY <1>1, <1>8, <1>9, UpTo
<1>11. up[i] <=> j \in U[i]
  BY <1>1, <1>10
<1>. QED BY <1>11 DEF Within, up

(* A nonempty set of indexes has a largest one.                            *)
LEMMA MaxIndex ==
  ASSUME NEW n \in Nat, NEW S, S \subseteq 1..n, S # {}
  PROVE  Max(S) \in S /\ \A i \in S : i <= Max(S)
<1>. DEFINE D == {k \in 0..n : S \cap 1..k = {} \/ \E m \in S : \A i \in S \cap 1..k : i <= m}
<1>1. 0 \in D
  OBVIOUS
<1>2. ASSUME NEW k \in 0..(n - 1), k \in D PROVE k + 1 \in D
  <2>1. \A i \in S \cap 1..(k + 1) : i = k + 1 \/ i \in S \cap 1..k
    OBVIOUS
  <2>2. CASE k + 1 \in S
    <3>1. \A i \in S \cap 1..(k + 1) : i <= k + 1
      OBVIOUS
    <3>. QED BY <2>2, <3>1
  <2>3. CASE k + 1 \notin S
    <3>1. S \cap 1..(k + 1) = S \cap 1..k
      BY <2>1, <2>3
    <3>. QED BY <1>2, <3>1
  <2>. QED BY <2>2, <2>3
<1>3. \A k \in 0..n : k \in D
  <2>. HIDE DEF D
  <2>. QED BY <1>1, <1>2, UpTo
<1>4. n \in 0..n /\ \A i \in S : i \in S \cap 1..n
  OBVIOUS
<1>5. \E m \in S : \A i \in S : i <= m
  <2>1. n \in D
    BY <1>3, <1>4
  <2>. QED BY <1>4, <2>1
<1>6. PICK m \in S : \A i \in S : m >= i
  <2>1. PICK m \in S : \A i \in S : i <= m
    BY <1>5
  <2>. QED BY <2>1
<1>. QED BY <1>6 DEF Max

LEMMA PrefixIs ==
  ASSUME NEW S, NEW U, Parts(S, U), Ended, NEW i \in 2..Len(nodes)
  PROVE  InLastPrefix(i) <=> InPrefix(U, i)
<1>. DEFINE before == {p \in 1..(i - 1) : nodes[p].op \in Selecting}
<1>1. Len(nodes) \in Nat /\ before \subseteq 1..Len(nodes) /\ i \in 1..Len(nodes)
  BY FrameFacts
<1>2. ASSUME NEW p \in before PROVE p + 1 \in 2..Len(nodes) /\ Kid(p, 1) = p + 1
  <2>1. p \in 2..(i - 1)
    <3>1. nodes[1].op \in StatementOps
      BY <1>1, NodeFacts
    <3>. QED BY <3>1 DEF Selecting, StatementOps
  <2>2. p \in 2..Len(nodes) /\ p + 1 \in 2..Len(nodes)
    BY <1>1, <2>1
  <2>3. nodes[p].op \in UnaryOps \cup {"varCall"} \cup StatementOps /\ nodes[p].op \notin LeafOps
    BY DEF Selecting, UnaryOps, LeafOps
  <2>4. ~More(Record(p, S[p]))
    BY <2>2, <2>3, TreeEnds DEF Right
  <2>5. S[p] \in Seq(Answers) /\ Len(S[p]) \in Nat
    BY <1>1, NodeFacts
  <2>6. 1 \in 1..Len(S[p])
    BY <2>3, <2>4, <2>5, CompletedHas
  <2>7. Kid(p, 1) \in 2..Len(nodes) /\ nodes[Kid(p, 1)].parent = p /\ nodes[Kid(p, 1)].nth = 1
    BY <1>1, <2>6, KidsAre
  <2>8. Place(Kid(p, 1))
    BY <2>7 DEF Parts, Shape
  <2>9. p = Kid(p, 1) - 1
    BY <2>7, <2>8 DEF Place
  <2>. QED BY <2>2, <2>7, <2>9
<1>3. ASSUME NEW p \in 1..(i - 1), SelectsAt(p), \A q \in (p + 1)..(i - 1) : ~SelectsAt(q)
      PROVE  p = Max(before)
  <2>1. p \in before /\ \A q \in before : q <= p
    BY <1>3 DEF SelectsAt
  <2>2. Max(before) \in before /\ \A q \in before : q <= Max(before)
    BY <1>1, <2>1, MaxIndex
  <2>3. p <= Max(before) /\ Max(before) <= p /\ Max(before) \in 1..(i - 1)
    BY <2>1, <2>2
  <2>. QED BY <2>3
<1>4. ASSUME before # {}
      PROVE  /\ Max(before) \in 1..(i - 1) /\ SelectsAt(Max(before)) /\ Max(before) \in before
             /\ \A q \in (Max(before) + 1)..(i - 1) : ~SelectsAt(q)
  <2>1. Max(before) \in before /\ \A q \in before : q <= Max(before)
    BY <1>1, <1>4, MaxIndex
  <2>2. Max(before) \in 1..(i - 1) /\ SelectsAt(Max(before))
    BY <2>1 DEF SelectsAt
  <2>3. ASSUME NEW q \in (Max(before) + 1)..(i - 1) PROVE ~SelectsAt(q)
    <3>1. q \in 1..(i - 1) /\ ~(q <= Max(before))
      BY <2>2
    <3>2. q \notin before
      BY <2>1, <3>1
    <3>. QED BY <3>1, <3>2 DEF SelectsAt
  <2>. QED BY <2>1, <2>2, <2>3
<1>5. InLastPrefix(i) <=> before # {} /\ Within(i, Kid(Max(before), 1))
  BY DEF InLastPrefix
<1>6. before # {} => (Within(i, Kid(Max(before), 1)) <=> Max(before) + 1 \in U[i])
  BY <1>1, <1>2, <1>4, WithinIs
<1>. HIDE DEF before
<1>7. InPrefix(U, i) <=> before # {} /\ Max(before) + 1 \in U[i]
  <2>1. InPrefix(U, i) => before # {} /\ Max(before) + 1 \in U[i]
    BY <1>3 DEF InPrefix, SelectsAt, before
  <2>2. before # {} /\ Max(before) + 1 \in U[i] => InPrefix(U, i)
    BY <1>4 DEF InPrefix
  <2>. QED BY <2>1, <2>2
<1>. QED BY <1>5, <1>6, <1>7

LEMMA SelectedInPrefix ==
  ASSUME NEW S, NEW U, Parts(S, U), NEW i \in 2..Len(nodes), IsSelected(i)
  PROVE  InPrefix(U, i)
<1>1. nodes[i].parent = i - 1 /\ nodes[i].parent \in 1..(i - 1)
  BY DEF Parts, Shape, Place, IsSelected
<1>2. i \in U[i] /\ SelectsAt(i - 1) /\ (i - 1) + 1 = i
  BY <1>1 DEF Parts, Upward, IsSelected, SelectsAt
<1>. QED BY <1>1, <1>2 DEF InPrefix

-----------------------------------------------------------------------------
(* The typing rules, by form.                                              *)

LEMMA RuleOfLeaf ==
  ASSUME NEW i, NEW W, NEW o, static \in BOOLEAN
  PROVE  LET n == nodes[i] IN
         /\ n.op \in {"variable", "literal", "read"} => Rule(i, W, o) = n.of
         /\ n.op = "field" => Rule(i, W, o) = IF static THEN Error ELSE n.of
         /\ n.op = "this" => Rule(i, W, o) = IF static THEN Error ELSE Class(curClass)
         /\ n.op = "name" => Rule(i, W, o) = o
         /\ n.op = "new" => Rule(i, W, o) = IF n.of \in Name THEN Class(n.of) ELSE Error
<1>1. CASE nodes[i].op \in {"variable", "literal", "read"}
  BY <1>1 DEF Rule
<1>2. CASE nodes[i].op = "field"
  BY <1>2 DEF Rule
<1>3. CASE nodes[i].op = "this"
  BY <1>3 DEF Rule
<1>4. CASE nodes[i].op = "name"
  BY <1>4 DEF Rule
<1>5. CASE nodes[i].op = "new"
  BY <1>5 DEF Rule
<1>. QED BY <1>1, <1>2, <1>3, <1>4, <1>5

LEMMA RuleOfUnary ==
  ASSUME NEW i, NEW W, NEW o
  PROVE  LET n == nodes[i]
             a == W[Kid(i, 1)] IN
         /\ n.op = "paren" => Rule(i, W, o) = a
         /\ n.op = "minus" => Rule(i, W, o) = IF a = IntType THEN IntType ELSE Error
         /\ n.op = "not" => Rule(i, W, o) = IF a = BoolType THEN BoolType ELSE Error
         /\ n.op = "cast" =>
              Rule(i, W, o) = IF a.kind = "class" /\ n.of \in Name THEN Class(n.of) ELSE Error
         /\ n.op = "instanceof" =>
              Rule(i, W, o) = IF a.kind = "class" /\ n.of \in Name THEN BoolType ELSE Error
         /\ n.op = "arrayNew" => Rule(i, W, o) = IF a = IntType THEN Array(n.of) ELSE Error
         /\ n.op = "varSel" =>
              Rule(i, W, o) = IF n.of.is = "field" /\ ~static /\ a.kind = "class"
                                 /\ SubClass(curClass, a.of)
                              THEN n.of.type ELSE Error
<1>1. CASE nodes[i].op = "paren"
  BY <1>1 DEF Rule
<1>2. CASE nodes[i].op = "minus"
  BY <1>2 DEF Rule
<1>3. CASE nodes[i].op = "not"
  BY <1>3 DEF Rule
<1>4. CASE nodes[i].op = "cast"
  BY <1>4 DEF Rule
<1>5. CASE nodes[i].op = "instanceof"
  BY <1>5 DEF Rule
<1>6. CASE nodes[i].op = "arrayNew"
  BY <1>6 DEF Rule
<1>7. CASE nodes[i].op = "varSel"
  BY <1>7 DEF Rule
<1>. QED BY <1>1, <1>2, <1>3, <1>4, <1>5, <1>6, <1>7

LEMMA RuleOfBinary ==
  ASSUME NEW i, NEW W, NEW o
  PROVE  LET n == nodes[i]
             a == W[Kid(i, 1)]
             b == W[Kid(i, 2)] IN
         /\ n.op = "arith" =>
              Rule(i, W, o) = IF a = IntType /\ b = IntType THEN IntType ELSE Error
         /\ n.op = "relation" =>
              Rule(i, W, o) = IF a = IntType /\ b = IntType THEN BoolType ELSE Error
         /\ n.op = "equality" =>
              Rule(i, W, o) = IF Assignable(a, b) \/ Assignable(b, a) THEN BoolType ELSE Error
         /\ n.op = "logical" =>
              Rule(i, W, o) = IF a = BoolType /\ b = BoolType THEN BoolType ELSE Error
         /\ n.op = "index" =>
              Rule(i, W, o) = IF a.kind = "array" /\ b = IntType THEN a.of ELSE Error
<1>1. CASE nodes[i].op = "arith"
  BY <1>1 DEF Rule
<1>2. CASE nodes[i].op = "relation"
  BY <1>2 DEF Rule
<1>3. CASE nodes[i].op = "equality"
  BY <1>3 DEF Rule
<1>4. CASE nodes[i].op = "logical"
  BY <1>4 DEF Rule
<1>5. CASE nodes[i].op = "index"
  BY <1>5 DEF Rule
<1>. QED BY <1>1, <1>2, <1>3, <1>4, <1>5

LEMMA RuleOfCall ==
  ASSUME NEW i, NEW W, NEW o, static \in BOOLEAN
  PROVE  LET n == nodes[i]
             a == W[Kid(i, 1)] IN
         /\ n.op = "varCall" =>
              Rule(i, W, o) =
                IF n.of.is = "length" /\ a.kind = "array" /\ n.given = 0 THEN IntType
                ELSE IF /\ n.of.is = "method"
                        /\ a.kind = "class" \/ (a.kind = "name" /\ n.of.static)
                        /\ Takes(i, W, 1, n.of.args)
                THEN n.of.type ELSE Error
         /\ n.op = "localCall" =>
              Rule(i, W, o) =
                IF n.of.is = "method" /\ (static => n.of.static) /\ Takes(i, W, 0, n.of.args)
                THEN n.of.type ELSE Error
<1>1. CASE nodes[i].op = "varCall"
  BY <1>1 DEF Rule
<1>2. CASE nodes[i].op = "localCall"
  BY <1>2 DEF Rule
<1>. QED BY <1>1, <1>2

LEMMA RuleOfStatement ==
  ASSUME NEW i, NEW W, NEW o
  PROVE  LET n == nodes[i]
             a == W[Kid(i, 1)] IN
         /\ n.op = "assign" =>
              Rule(i, W, o) = IF Assignable(W[Kid(i, 2)], a) THEN T("void") ELSE Error
         /\ n.op \in {"init", "return"} =>
              Rule(i, W, o) = IF Assignable(a, n.of) THEN T("void") ELSE Error
         /\ n.op = "print" =>
              Rule(i, W, o) = IF a \in {IntType, BoolType, T("string")} THEN T("void") ELSE Error
         /\ n.op = "condition" => Rule(i, W, o) = IF a = BoolType THEN T("void") ELSE Error
         /\ n.op = "expression" => Rule(i, W, o) = T("void")
<1>1. CASE nodes[i].op = "assign"
  BY <1>1 DEF Rule
<1>2. CASE nodes[i].op \in {"init", "return"}
  BY <1>2 DEF Rule
<1>3. CASE nodes[i].op = "print"
  BY <1>3 DEF Rule
<1>4. CASE nodes[i].op = "condition"
  BY <1>4 DEF Rule
<1>5. CASE nodes[i].op = "expression"
  BY <1>5 DEF Rule
<1>. QED BY <1>1, <1>2, <1>3, <1>4, <1>5

(* The type of a name, and of a node when W has those of its kids.         *)
OfName(i) ==
  IF IsSelected(i) THEN [kind |-> "name", of |-> nodes[i].of]
  ELSE IF InLastPrefix(i) THEN Class(nodes[i].of) ELSE Error
TypeAt(i, W) ==
  IF \E j \in Kids(i) : W[j] = Error THEN Error ELSE Rule(i, W, OfName(i))

(* What a visitor that has finished has heard.                             *)
LEMMA Finished ==
  ASSUME NEW S, NEW U, Parts(S, U), Ended, NEW i \in 1..Len(nodes), nodes[i].op \notin LeafOps
  PROVE  /\ ~More(Record(i, S[i]))
         /\ nodes[i].op # "localCall" => 1 \in 1..Len(S[i])
         /\ nodes[i].op \in BinaryOps \cup {"assign"} => 2 \in 1..Len(S[i])
<1>1. Len(nodes) \in Nat /\ S[i] \in Seq(Answers) /\ Len(S[i]) \in Nat
  BY FrameFacts, NodeFacts
<1>2. ~More(Record(i, S[i]))
  <2>1. CASE i = 1
    BY <2>1, TreeEnds
  <2>2. CASE i # 1
    <3>1. i \in 2..Len(nodes)
      BY <1>1, <2>2
    <3>. QED BY <3>1, TreeEnds DEF Right
  <2>. QED BY <2>1, <2>2
<1>3. /\ nodes[i].op \in BinaryOps \cup {"assign"} => Len(S[i]) >= 2
      /\ nodes[i].op \in UnaryOps \cup {"varCall"} \cup StatementOps => Len(S[i]) >= 1
  BY <1>1, <1>2, CompletedHas
<1>4. nodes[i].op \in UnaryOps \cup BinaryOps \cup {"varCall", "localCall"} \cup StatementOps
  <2>1. CASE i = 1
    BY <2>1, NodeFacts
  <2>2. CASE i # 1
    BY <2>2, NodeFacts DEF CallOps
  <2>. QED BY <2>1, <2>2
<1>. QED BY <1>1, <1>2, <1>3, <1>4

LEMMA TakesLocal ==
  ASSUME NEW i, NEW W, NEW V, \A j \in Kids(i) : W[j] = V[j], NEW nth, NEW types
  PROVE  Takes(i, W, nth, types) <=> Takes(i, V, nth, types)
<1>1. ASSUME NEW m, HasKid(i, m) PROVE W[Kid(i, m)] = V[Kid(i, m)]
  BY <1>1 DEF HasKid, Kid
<1>. QED BY <1>1 DEF Takes

LEMMA TypeAtLocal ==
  ASSUME NEW S, NEW U, Parts(S, U), Ended, NEW i \in 1..Len(nodes), NEW W, NEW V,
         \A j \in Kids(i) : W[j] = V[j]
  PROVE  TypeAt(i, W) = TypeAt(i, V)
<1>. DEFINE o == OfName(i)
<1>1. (\E j \in Kids(i) : W[j] = Error) <=> \E j \in Kids(i) : V[j] = Error
  OBVIOUS
<1>2. SUFFICES Rule(i, W, o) = Rule(i, V, o)
  BY <1>1 DEF TypeAt
<1>3. \A m \in 1..Len(S[i]) : W[Kid(i, m)] = V[Kid(i, m)]
  BY KidsAre
<1>4. static \in BOOLEAN
  BY DEF Parts, Typed, Flags
<1>5. nodes[i].op \in LeafOps \cup UnaryOps \cup BinaryOps \cup CallOps \cup StatementOps
  BY NodeFacts
<1>. HIDE DEF o
<1>6. CASE nodes[i].op \in LeafOps
  BY <1>4, <1>6, RuleOfLeaf DEF LeafOps
<1>7. CASE nodes[i].op \in UnaryOps
  <2>1. W[Kid(i, 1)] = V[Kid(i, 1)]
    BY <1>3, <1>7, Finished DEF UnaryOps, LeafOps
  <2>. QED BY <1>7, <2>1, RuleOfUnary DEF UnaryOps
<1>8. CASE nodes[i].op \in BinaryOps
  <2>1. W[Kid(i, 1)] = V[Kid(i, 1)] /\ W[Kid(i, 2)] = V[Kid(i, 2)]
    BY <1>3, <1>8, Finished DEF BinaryOps, LeafOps
  <2>. QED BY <1>8, <2>1, RuleOfBinary DEF BinaryOps
<1>9. CASE nodes[i].op = "varCall"
  <2>1. W[Kid(i, 1)] = V[Kid(i, 1)]
    BY <1>3, <1>9, Finished DEF LeafOps
  <2>. QED BY <1>4, <1>9, <2>1, RuleOfCall, TakesLocal
<1>10. CASE nodes[i].op = "localCall"
  BY <1>4, <1>10, RuleOfCall, TakesLocal
<1>11. CASE nodes[i].op = "assign"
  <2>1. W[Kid(i, 1)] = V[Kid(i, 1)] /\ W[Kid(i, 2)] = V[Kid(i, 2)]
    BY <1>3, <1>11, Finished DEF LeafOps
  <2>. QED BY <1>11, <2>1, RuleOfStatement
<1>12. CASE nodes[i].op \in StatementOps \ {"assign"}
  <2>1. W[Kid(i, 1)] = V[Kid(i, 1)]
    BY <1>3, <1>12, Finished DEF StatementOps, LeafOps
  <2>. QED BY <1>12, <2>1, RuleOfStatement DEF StatementOps
<1>. QED BY <1>5, <1>6, <1>7, <1>8, <1>9, <1>10, <1>11, <1>12 DEF CallOps

(* There is a typing: the types are found from the last node to the first. *)
LEMMA TypingIs ==
  ASSUME NEW S, NEW U, Parts(S, U), Ended
  PROVE  \A i \in 1..Len(nodes) : Typing[i] = TypeAt(i, Typing)
<1>. DEFINE N == Len(nodes)
            From(k, W) == \A i \in (N + 1 - k)..N : W[i] = TypeAt(i, W)
            D == {k \in 0..N : \E W : DOMAIN W = 1..N /\ W = [i \in 1..N |-> W[i]] /\ From(k, W)}
<1>1. N \in Nat /\ DOMAIN nodes = 1..N
  BY LenProperties DEF Parts, Typed
<1>2. 0 \in D
  <2>. DEFINE W == [i \in 1..N |-> Error]
  <2>1. DOMAIN W = 1..N /\ W = [i \in 1..N |-> W[i]] /\ (N + 1 - 0)..N = {}
    BY <1>1
  <2>. HIDE DEF W
  <2>2. From(0, W)
    BY <2>1
  <2>. QED BY <1>1, <2>1, <2>2
<1>3. ASSUME NEW k \in 0..(N - 1), k \in D PROVE k + 1 \in D
  <2>1. PICK W : DOMAIN W = 1..N /\ From(k, W)
    BY <1>3
  <2>. DEFINE h == N - k
              V == [i \in 1..N |-> IF i = h THEN TypeAt(h, W) ELSE W[i]]
  <2>2. h \in 1..N /\ k + 1 \in 0..N
    BY <1>1
  <2>3. /\ DOMAIN V = 1..N /\ V = [i \in 1..N |-> V[i]] /\ V[h] = TypeAt(h, W)
        /\ \A i \in 1..N : i # h => V[i] = W[i]
    BY <2>2
  <2>. HIDE DEF V
  <2>4. ASSUME NEW i \in h..N PROVE TypeAt(i, V) = TypeAt(i, W)
    <3>1. i \in 1..N
      BY <1>1, <2>2
    <3>2. ASSUME NEW j \in Kids(i) PROVE V[j] = W[j]
      <4>1. j \in 2..N /\ i < j
        BY <3>1, KidsHave
      <4>. QED BY <1>1, <2>2, <2>3, <4>1
    <3>. QED BY <3>1, <3>2, TypeAtLocal
  <2>5. ASSUME NEW i \in (N + 1 - (k + 1))..N PROVE V[i] = TypeAt(i, V)
    <3>1. i \in h..N /\ (i = h \/ i \in (N + 1 - k)..N) /\ i \in 1..N
      <4>1. k \in Nat /\ N + 1 - (k + 1) = h /\ N + 1 - k = h + 1
        <5>1. N \in Nat
          BY <1>1
        <5>. HIDE DEF N
        <5>2. k \in Nat
          BY <5>1
        <5>. QED BY <5>1, <5>2
      <4>. HIDE DEF h
      <4>2. i \in h..N
        BY <4>1
      <4>. QED BY <1>1, <2>2, <4>1, <4>2
    <3>2. CASE i = h
      BY <2>3, <2>4, <3>1, <3>2
    <3>3. CASE i # h
      <4>1. V[i] = W[i] /\ W[i] = TypeAt(i, W)
        BY <2>1, <2>3, <3>1, <3>3
      <4>. QED BY <2>4, <3>1, <4>1
    <3>. QED BY <3>2, <3>3
  <2>6. From(k + 1, V)
    BY <2>5
  <2>. QED BY <2>2, <2>3, <2>6
<1>4. \A k \in 0..N : k \in D
  <2>. HIDE DEF D, N
  <2>. QED BY <1>1, <1>2, <1>3, UpTo
<1>5. PICK W : DOMAIN W = 1..N /\ W = [i \in 1..N |-> W[i]] /\ From(N, W)
  <2>1. N \in D
    BY <1>1, <1>4
  <2>. QED BY <2>1
<1>6. \A i \in 1..N : W[i] = TypeAt(i, W)
  BY <1>1, <1>5
<1>. DEFINE Body(V) == [i \in DOMAIN nodes |-> TypeAt(i, V)]
            typing == CHOOSE V : V = Body(V)
<1>7. W = Body(W)
  BY <1>1, <1>5, <1>6
<1>8. typing = Body(typing)
  BY <1>7
<1>9. Typing = typing
  BY DEF Typing, TypeAt, OfName
<1>10. Typing = Body(Typing)
  BY <1>8, <1>9
<1>. QED BY <1>1, <1>10

-----------------------------------------------------------------------------
(* As long as nothing is wrong, what TypeChecker answers is the type that  *)
(* the rules give, and CodeGenVisitor's value is of that type, if there is *)
(* one.                                                                    *)

Settled(a) ==
  a \in Answers /\ ~a.bad /\ a.type \in Type /\ a.ir \in {LLVM(a.type), Empty, NoCode}

Agrees(r, w) == IF r.bad THEN w = Error ELSE w = r.type /\ Settled(r)

NameType(c) == [kind |-> "name", of |-> c]

(* What node i has heard from its subexpressions.                          *)
Hears(S, i) ==
  \A m \in 1..Len(S[i]) :
    LET a == S[i][m] IN
    /\ Settled(a)
    /\ a.cls => a.type.kind = "class"
    /\ Typing[Kid(i, m)] = IF m = 1 /\ nodes[i].op \in Selecting /\ a.cls
                           THEN NameType(a.type.of) ELSE a.type

LEMMA AgreesR ==
  ASSUME NEW t, NEW bad \in BOOLEAN, NEW ir, NEW w,
         ~bad => t \in Type /\ ir \in {LLVM(t), Empty, NoCode},
         w = IF bad THEN Error ELSE t
  PROVE  Agrees(R(t, bad, ir), w)
<1>1. ~bad => ir \in Values
  BY LLVMTypes DEF Values
<1>. QED BY <1>1 DEF Agrees, Settled, R, Answers

LEMMA AgreesBad ==
  ASSUME NEW w, w = Error
  PROVE  Agrees(Bad, w)
  BY DEF Agrees, Bad, R

LEMMA Conditional ==
  ASSUME NEW c, NEW ir, NEW t, ir \in {LLVM(t), NoCode}
  PROVE  Provided(c, ir) \in {LLVM(t), Empty, NoCode}
  BY DEF Provided

LEMMA BasicTypes ==
  /\ IntType \in Type /\ BoolType \in Type /\ T("string") \in Type
  /\ LLVM(IntType) = I32 /\ LLVM(BoolType) = I32 /\ LLVM(T("string")) = I8P
  /\ LLVM(T("null")) = I8P
  /\ \A c : LLVM(Class(c)) = Class(c)
  /\ \A t \in Type : Value(t) \in {LLVM(t), NoCode}
<1>1. IntType \in Type /\ BoolType \in Type /\ T("string") \in Type
  BY DEF IntType, BoolType, T, Type, Element, Literals
<1>2. /\ LLVM(IntType) = I32 /\ LLVM(BoolType) = I32 /\ LLVM(T("string")) = I8P
      /\ LLVM(T("null")) = I8P
  BY DEF IntType, BoolType, T, LLVM, LLVMElement
<1>3. \A c : LLVM(Class(c)) = Class(c)
  BY DEF Class, LLVM, LLVMElement
<1>4. \A t \in Type : Value(t) \in {LLVM(t), NoCode}
  BY DEF Value
<1>. QED BY <1>1, <1>2, <1>3, <1>4

LEMMA CompatIs ==
  ASSUME NEW t \in Type, NEW u \in Type
  PROVE  IsCompat(t, u) <=> Assignable(t, u)
<1>1. Error \notin {t, u}
  BY Kinds
<1>. QED BY <1>1 DEF IsCompat, Assignable

LEMMA OfKind ==
  ASSUME NEW t \in Type
  PROVE  /\ t.kind = "int" <=> t = IntType
         /\ t.kind = "bool" <=> t = BoolType
         /\ t.kind = "string" <=> t = T("string")
         /\ t.kind = "null" <=> t = T("null")
         /\ t.kind = "void" <=> t = T("void")
         /\ t.kind # "error" /\ t.kind # "name" /\ t # Error
<1>1. IntType.kind = "int" /\ BoolType.kind = "bool" /\ \A k : T(k).kind = k
  BY DEF IntType, BoolType, T
<1>. QED BY <1>1, Kinds DEF IntType, BoolType

LEMMA AgreesLeaf ==
  ASSUME NEW S, NEW U, Parts(S, U), NEW i \in 2..Len(nodes), NEW W, NEW o,
         nodes[i].op \in LeafOps \ {"name"}
  PROVE  Agrees(Answer(nodes[i], S[i]), Rule(i, W, o))
<1>. DEFINE n == nodes[i]
<1>1. i \in 1..Len(nodes) /\ Written(n) /\ static \in BOOLEAN /\ curClass \in Name
  BY FrameFacts, NodeFacts DEF Parts, Typed, Flags
<1>. HIDE DEF n
<1>2. CASE n.op \in {"variable", "field"}
  <2>1. n.of \in Type
    BY <1>1, <1>2, ExpressionsAssumption DEF Written
  <2>2. Agrees(Variable(n.of), n.of)
    BY <2>1, BasicTypes, AgreesR DEF Variable
  <2>3. Answer(n, S[i]) = IF n.op = "field" /\ static THEN Bad ELSE Variable(n.of)
    BY <1>2 DEF Answer, Field
  <2>4. Rule(i, W, o) = IF n.op = "field" /\ static THEN Error ELSE n.of
    BY <1>1, <1>2, RuleOfLeaf DEF n
  <2>. QED BY <2>2, <2>3, <2>4, AgreesBad DEF n
<1>3. CASE n.op = "literal"
  <2>1. n.of \in Type
    BY <1>1, <1>3 DEF Written, Type, Element
  <2>2. Answer(n, S[i]) = R(n.of, FALSE, LLVM(n.of))
    BY <1>3 DEF Answer
  <2>3. Rule(i, W, o) = n.of
    BY <1>1, <1>3, RuleOfLeaf DEF n
  <2>. QED BY <2>1, <2>2, <2>3, AgreesR DEF n
<1>4. CASE n.op = "read"
  <2>1. n.of \in Type
    BY <1>1, <1>4, BasicTypes DEF Written, IntType
  <2>2. Answer(n, S[i]) = R(n.of, FALSE, Empty)
    BY <1>4 DEF Answer, Read
  <2>3. Rule(i, W, o) = n.of
    BY <1>1, <1>4, RuleOfLeaf DEF n
  <2>. QED BY <2>1, <2>2, <2>3, AgreesR DEF n
<1>5. CASE n.op = "this"
  <2>1. Class(curClass) \in Type
    BY <1>1, ClassTypes
  <2>2. Agrees(Variable(Class(curClass)), Class(curClass))
    BY <2>1, BasicTypes, AgreesR DEF Variable
  <2>3. Answer(n, S[i]) = IF static THEN Bad ELSE Variable(Class(curClass))
    BY <1>5 DEF Answer, This
  <2>4. Rule(i, W, o) = IF static THEN Error ELSE Class(curClass)
    BY <1>1, <1>5, RuleOfLeaf DEF n
  <2>. QED BY <2>2, <2>3, <2>4, AgreesBad DEF n
<1>6. CASE n.op = "new"
  <2>1. Class(n.of) \in Type /\ LLVM(Class(n.of)) = Class(n.of)
    BY <1>1, <1>6, ClassTypes, BasicTypes DEF Written
  <2>2. Agrees(R(Class(n.of), FALSE, Allocated(n.of)), Class(n.of))
    BY <2>1, AgreesR DEF Allocated
  <2>3. Answer(n, S[i]) = IF n.of \in Name THEN R(Class(n.of), FALSE, Allocated(n.of)) ELSE Bad
    BY <1>6 DEF Answer, New
  <2>4. Rule(i, W, o) = IF n.of \in Name THEN Class(n.of) ELSE Error
    BY <1>1, <1>6, RuleOfLeaf DEF n
  <2>. QED BY <2>2, <2>3, <2>4, AgreesBad DEF n
<1>. QED BY <1>2, <1>3, <1>4, <1>5, <1>6 DEF LeafOps, n

LEMMA AgreesUnary ==
  ASSUME NEW S, NEW U, Parts(S, U), Ended, NEW i \in 2..Len(nodes), Hears(S, i), NEW o,
         nodes[i].op \in UnaryOps
  PROVE  Agrees(Answer(nodes[i], S[i]), Rule(i, Typing, o))
<1>. DEFINE n == nodes[i]
            e == S[i][1]
            w == Typing[Kid(i, 1)]
<1>1. i \in 1..Len(nodes) /\ Written(n) /\ static \in BOOLEAN /\ curClass \in Name
  BY FrameFacts, NodeFacts DEF Parts, Typed, Flags
<1>2. 1 \in 1..Len(S[i])
  BY <1>1, Finished DEF UnaryOps, LeafOps
<1>3. /\ Settled(e) /\ (e.cls => e.type.kind = "class")
      /\ w = IF n.op = "varSel" /\ e.cls THEN NameType(e.type.of) ELSE e.type
  BY <1>2 DEF Hears, Selecting, UnaryOps
<1>4. e.type \in Type /\ e.type # Error /\ e.cls \in BOOLEAN
  BY <1>3, Kinds DEF Settled, Answers
<1>. HIDE DEF w, e, n
<1>5. CASE n.op = "paren"
  <2>1. Answer(n, S[i]) = Paren(e) /\ Rule(i, Typing, o) = e.type
    BY <1>3, <1>5, RuleOfUnary DEF Answer, n, e, w
  <2>2. Agrees(Paren(e), e.type)
    BY <1>4, AgreesR DEF Paren, Provided
  <2>. QED BY <2>1, <2>2 DEF n
<1>6. CASE n.op = "minus"
  <2>1. Answer(n, S[i]) = Minus(e) /\ Rule(i, Typing, o) = IF e.type = IntType THEN IntType ELSE Error
    BY <1>3, <1>6, RuleOfUnary DEF Answer, n, e, w
  <2>2. Is(e, "int") <=> e.type = IntType
    BY <1>4, OfKind DEF Is
  <2>3. UnaryValue(e) \in {LLVM(IntType), Empty, NoCode}
    BY BasicTypes, Conditional DEF UnaryValue
  <2>4. Agrees(R(IntType, ~Is(e, "int"), UnaryValue(e)), Rule(i, Typing, o))
    BY <2>1, <2>2, <2>3, BasicTypes, AgreesR
  <2>. QED BY <2>1, <2>4 DEF n, Minus, IntType
<1>7. CASE n.op = "not"
  <2>1. Answer(n, S[i]) = Not(e)
        /\ Rule(i, Typing, o) = IF e.type = BoolType THEN BoolType ELSE Error
    BY <1>3, <1>7, RuleOfUnary DEF Answer, n, e, w
  <2>2. Is(e, "bool") <=> e.type = BoolType
    BY <1>4, OfKind DEF Is
  <2>3. UnaryValue(e) \in {LLVM(BoolType), Empty, NoCode}
    BY BasicTypes, Conditional DEF UnaryValue
  <2>4. Agrees(R(BoolType, ~Is(e, "bool"), UnaryValue(e)), Rule(i, Typing, o))
    BY <2>1, <2>2, <2>3, BasicTypes, AgreesR
  <2>. QED BY <2>1, <2>4 DEF n, Not, BoolType
<1>8. CASE n.op = "cast"
  <2>1. Answer(n, S[i]) = Cast(n.of, e)
        /\ Rule(i, Typing, o) = IF e.type.kind = "class" /\ n.of \in Name THEN Class(n.of) ELSE Error
    BY <1>3, <1>8, RuleOfUnary DEF Answer, n, e, w
  <2>2. Is(e, "class") <=> e.type.kind = "class"
    BY <1>4, OfKind DEF Is
  <2>3. Class(n.of) \in Type /\ LLVM(Class(n.of)) = Class(n.of)
    BY <1>1, <1>8, ClassTypes, BasicTypes DEF Written
  <2>4. CastValue(n.of, e) \in {LLVM(Class(n.of)), Empty, NoCode}
    BY <2>3, Conditional DEF CastValue
  <2>5. Agrees(Cast(n.of, e), Rule(i, Typing, o))
    BY <2>1, <2>2, <2>3, <2>4, AgreesR DEF Cast
  <2>. QED BY <2>1, <2>5 DEF n
<1>9. CASE n.op = "instanceof"
  <2>1. Answer(n, S[i]) = InstanceOf(n.of, e)
        /\ Rule(i, Typing, o) = IF e.type.kind = "class" /\ n.of \in Name THEN BoolType ELSE Error
    BY <1>3, <1>9, RuleOfUnary DEF Answer, n, e, w
  <2>2. Is(e, "class") <=> e.type.kind = "class"
    BY <1>4, OfKind DEF Is
  <2>3. InstanceOfValue(e) \in {LLVM(BoolType), Empty, NoCode}
    BY BasicTypes, Conditional DEF InstanceOfValue
  <2>4. Agrees(R(BoolType, ~Is(e, "class") \/ n.of \notin Name, InstanceOfValue(e)),
               Rule(i, Typing, o))
    BY <2>1, <2>2, <2>3, BasicTypes, AgreesR
  <2>. QED BY <2>1, <2>4 DEF n, InstanceOf, BoolType
<1>10. CASE n.op = "arrayNew"
  <2>1. Answer(n, S[i]) = ArrayNew(n.of, e)
        /\ Rule(i, Typing, o) = IF e.type = IntType THEN Array(n.of) ELSE Error
    BY <1>3, <1>10, RuleOfUnary DEF Answer, n, e, w
  <2>2. Is(e, "int") <=> e.type = IntType
    BY <1>4, OfKind DEF Is
  <2>3. Array(n.of) \in Type
    BY <1>1, <1>10, Elements, ExpressionsAssumption DEF Written
  <2>4. ArrayNewValue(n.of, e) \in {LLVM(Array(n.of)), Empty, NoCode}
    BY <2>3, BasicTypes, Conditional DEF ArrayNewValue
  <2>5. Agrees(ArrayNew(n.of, e), Rule(i, Typing, o))
    BY <2>1, <2>2, <2>3, <2>4, AgreesR DEF ArrayNew
  <2>. QED BY <2>1, <2>5 DEF n
<1>11. CASE n.op = "varSel"
  <2>1. Answer(n, S[i]) = VarSel(n.of, e)
    BY <1>11 DEF Answer, n, e
  <2>2. Rule(i, Typing, o) =
          IF n.of.is = "field" /\ ~static /\ w.kind = "class" /\ SubClass(curClass, w.of)
          THEN n.of.type ELSE Error
    BY <1>11, RuleOfUnary DEF n, w
  <2>3. n.of.type \in Type
    BY <1>1, <1>11, CalleeHas DEF Written
  <2>4. VarSelValue(n.of, e) \in {LLVM(n.of.type), Empty, NoCode}
    BY <2>3, BasicTypes, Conditional DEF VarSelValue
  <2>5. e.type.kind = "class" => (IsCompat(Class(curClass), e.type) <=> SubClass(curClass, e.type.of))
    <3>1. ASSUME e.type.kind = "class"
          PROVE  IsCompat(Class(curClass), e.type) <=> SubClass(curClass, e.type.of)
      <4>1. e.type = Class(e.type.of)
        BY <1>4, <3>1, Kinds
      <4>2. Class(curClass) \in Type /\ Class(curClass).kind = "class" /\ Class(curClass).of = curClass
        BY <1>1, ClassTypes DEF Class
      <4>3. Error \notin {Class(curClass), e.type}
        BY <1>4, <4>2, Kinds
      <4>4. Class(curClass) = e.type => curClass = e.type.of
        BY <4>2
      <4>. QED BY <3>1, <4>2, <4>3, <4>4 DEF IsCompat, SubClass
    <3>. QED BY <3>1
  <2>6. NameType(e.type.of).kind = "name"
    BY DEF NameType
  <2>. DEFINE ok == /\ ~e.cls /\ e.type.kind = "class" /\ IsCompat(Class(curClass), e.type)
                    /\ n.of.is = "field" /\ ~static
  <2>7. Rule(i, Typing, o) = IF ok THEN n.of.type ELSE Error
    <3>1. CASE e.cls
      BY <1>3, <1>11, <2>2, <2>6, <3>1
    <3>2. CASE ~e.cls
      <4>1. w = e.type
        BY <1>3, <3>2
      <4>. QED BY <2>2, <2>5, <3>2, <4>1
    <3>. QED BY <3>1, <3>2
  <2>8. VarSel(n.of, e) = IF ok THEN R(n.of.type, FALSE, VarSelValue(n.of, e)) ELSE Bad
    BY <1>4 DEF VarSel
  <2>. HIDE DEF ok
  <2>9. CASE ok
    <3>1. Agrees(R(n.of.type, FALSE, VarSelValue(n.of, e)), n.of.type)
      BY <2>3, <2>4, AgreesR
    <3>. QED BY <2>1, <2>7, <2>8, <2>9, <3>1 DEF n
  <2>10. CASE ~ok
    BY <2>1, <2>7, <2>8, <2>10, AgreesBad DEF n
  <2>. QED BY <2>9, <2>10
<1>. QED BY <1>5, <1>6, <1>7, <1>8, <1>9, <1>10, <1>11 DEF UnaryOps, n

LEMMA OperandsAre ==
  ASSUME NEW l, NEW r, l.type \in Type, r.type \in Type, NEW kind
  PROVE  BadOperands(kind, l, r) <=> ~(l.type = T(kind) /\ r.type = T(kind))
<1>1. l.type # Error /\ r.type # Error
  BY Kinds
<1>. QED BY <1>1 DEF BadOperands

LEMMA AgreesBinary ==
  ASSUME NEW S, NEW U, Parts(S, U), Ended, NEW i \in 2..Len(nodes), Hears(S, i), NEW o,
         nodes[i].op \in BinaryOps
  PROVE  Agrees(Answer(nodes[i], S[i]), Rule(i, Typing, o))
<1>. DEFINE n == nodes[i]
            a == S[i][1]
            b == S[i][2]
            v == Typing[Kid(i, 1)]
            w == Typing[Kid(i, 2)]
<1>1. i \in 1..Len(nodes)
  BY FrameFacts
<1>2. 1 \in 1..Len(S[i]) /\ 2 \in 1..Len(S[i])
  BY <1>1, Finished DEF BinaryOps, LeafOps
<1>3. n.op \notin Selecting
  BY DEF Selecting, BinaryOps
<1>4. Settled(a) /\ Settled(b) /\ v = a.type /\ w = b.type
  BY <1>2, <1>3 DEF Hears
<1>. HIDE DEF v, w, a, b, n
<1>5. a.type \in Type /\ a.type # Error /\ b.type \in Type /\ b.type # Error
  BY <1>4, Kinds DEF Settled
<1>6. CASE n.op \in {"arith", "relation"}
  <2>. DEFINE t == IF n.op = "arith" THEN IntType ELSE BoolType
  <2>1. Answer(n, S[i]) = R(t, BadOperands("int", a, b), BinaryValue(a, b))
    BY <1>6 DEF Answer, Arithmetic, Relation, IntType, BoolType, a, b
  <2>2. Rule(i, Typing, o) = IF a.type = IntType /\ b.type = IntType THEN t ELSE Error
    BY <1>4, <1>6, RuleOfBinary DEF n, v, w
  <2>3. BadOperands("int", a, b) <=> ~(a.type = IntType /\ b.type = IntType)
    BY <1>5, OperandsAre DEF IntType
  <2>4. t \in Type /\ LLVM(t) = I32
    BY BasicTypes
  <2>5. BinaryValue(a, b) \in {LLVM(t), Empty, NoCode}
    BY <2>4 DEF BinaryValue, Provided
  <2>6. BadOperands("int", a, b) \in BOOLEAN
    BY DEF BadOperands
  <2>. HIDE DEF t
  <2>7. Agrees(R(t, BadOperands("int", a, b), BinaryValue(a, b)), Rule(i, Typing, o))
    BY <2>2, <2>3, <2>4, <2>5, <2>6, AgreesR
  <2>. QED BY <2>1, <2>7 DEF n
<1>7. CASE n.op = "equality"
  <2>. DEFINE bad == ~IsCompat(a.type, b.type) /\ ~IsCompat(b.type, a.type)
              ir == Provided(Comparable(a, b), I32)
  <2>1. Answer(n, S[i]) = R(BoolType, bad, ir)
    BY <1>7 DEF Answer, Equality, BoolType, a, b
  <2>2. Rule(i, Typing, o) = IF bad THEN Error ELSE BoolType
    <3>1. Rule(i, Typing, o) =
            IF Assignable(a.type, b.type) \/ Assignable(b.type, a.type) THEN BoolType ELSE Error
      BY <1>4, <1>7, RuleOfBinary DEF n, v, w
    <3>. QED BY <1>5, <3>1, CompatIs
  <2>3. ir \in {LLVM(BoolType), Empty, NoCode} /\ bad \in BOOLEAN
    BY BasicTypes DEF Provided
  <2>. HIDE DEF bad, ir
  <2>4. Agrees(R(BoolType, bad, ir), Rule(i, Typing, o))
    BY <2>2, <2>3, BasicTypes, AgreesR
  <2>. QED BY <2>1, <2>4 DEF n
<1>8. CASE n.op = "logical"
  <2>. DEFINE bad == BadOperands("bool", a, b)
              ir == Provided(a.ir # NoCode, b.ir)
  <2>1. Answer(n, S[i]) = R(BoolType, bad, ir)
    BY <1>8 DEF Answer, Logical, BoolType, a, b
  <2>2. Rule(i, Typing, o) = IF a.type = BoolType /\ b.type = BoolType THEN BoolType ELSE Error
    BY <1>4, <1>8, RuleOfBinary DEF n, v, w
  <2>3. bad <=> ~(a.type = BoolType /\ b.type = BoolType)
    BY <1>5, OperandsAre DEF BoolType
  <2>4. bad \in BOOLEAN
    BY DEF BadOperands
  <2>5. ~bad => ir \in {LLVM(BoolType), Empty, NoCode}
    BY <1>4, <2>3 DEF Settled, Provided
  <2>. HIDE DEF bad, ir
  <2>6. Agrees(R(BoolType, bad, ir), Rule(i, Typing, o))
    BY <2>2, <2>3, <2>4, <2>5, BasicTypes, AgreesR
  <2>. QED BY <2>1, <2>6 DEF n
<1>9. CASE n.op = "index"
  <2>. DEFINE element == IF a.type.kind = "array" THEN a.type.of ELSE Error
              bad == ~Is(a, "array") \/ ~Is(b, "int")
              ir == IndexValue(element, a, b)
  <2>1. Answer(n, S[i]) = R(element, bad, ir)
    BY <1>9 DEF Answer, Index, a, b
  <2>2. Rule(i, Typing, o) = IF a.type.kind = "array" /\ b.type = IntType THEN a.type.of ELSE Error
    BY <1>4, <1>9, RuleOfBinary DEF n, v, w
  <2>3. bad <=> ~(a.type.kind = "array" /\ b.type = IntType)
    BY <1>5, OfKind DEF Is
  <2>4. bad \in BOOLEAN
    BY DEF Is
  <2>5. ~bad => element \in Type /\ ir \in {LLVM(element), Empty, NoCode}
    <3>1. ASSUME ~bad PROVE element \in Type
      <4>1. a.type.kind = "array" /\ a.type.of \in Element
        BY <1>5, <2>3, <3>1, Kinds
      <4>. QED BY <4>1, Elements
    <3>2. ir \in {LLVM(element), Empty, NoCode}
      BY DEF IndexValue, Provided
    <3>. QED BY <3>1, <3>2
  <2>6. Rule(i, Typing, o) = IF bad THEN Error ELSE element
    BY <2>2, <2>3
  <2>. HIDE DEF bad, ir, element
  <2>7. Agrees(R(element, bad, ir), Rule(i, Typing, o))
    BY <2>4, <2>5, <2>6, AgreesR
  <2>. QED BY <2>1, <2>7 DEF n
<1>. QED BY <1>6, <1>7, <1>8, <1>9 DEF BinaryOps, n

(* The arguments are those that checkArgs has looked at, and it has looked *)
(* at all of them when they are as many as the parameters and they fit.    *)
LEMMA TakesIs ==
  ASSUME NEW S, NEW U, Parts(S, U), Ended, NEW i \in 2..Len(nodes), Hears(S, i),
         nodes[i].op \in CallOps, NEW off \in {0, 1}, off = 0 => nodes[i].op = "localCall",
         NEW args \in Seq(Answers), Len(args) = Len(S[i]) - off,
         \A x \in 1..Len(args) : args[x] = S[i][x + off],
         Len(args) <= nodes[i].given, ~MoreArgs(nodes[i].of, nodes[i].given, args)
  PROVE  Args(nodes[i].of, nodes[i].given, args) <=> Takes(i, Typing, off, nodes[i].of.args)
<1>. DEFINE n == nodes[i]
            m == nodes[i].of
<1>1. i \in 1..Len(nodes) /\ Written(n)
  BY FrameFacts, NodeFacts
<1>2. n.given \in Nat /\ m \in Callees
  BY <1>1 DEF Written, CallOps
<1>3. m.args \in Seq(Type) /\ Len(m.args) \in Nat /\ DOMAIN m.args = 1..Len(m.args)
      /\ \A x \in 1..Len(m.args) : m.args[x] \in Type
  BY <1>2, CalleeHas
<1>4. Len(args) \in Nat /\ Len(S[i]) \in Nat
  BY <1>1, LenProperties, NodeFacts
<1>. HIDE DEF n, m
<1>5. ASSUME NEW x \in 1..Len(args)
      PROVE  /\ HasKid(i, off + x) /\ Typing[Kid(i, off + x)] = args[x].type
             /\ args[x].type \in Type
  <2>1. x + off \in 1..Len(S[i]) /\ off + x = x + off
    BY <1>4
  <2>2. ~(x + off = 1 /\ n.op \in Selecting)
    <3>1. CASE off = 0
      BY <3>1 DEF n, Selecting
    <3>2. CASE off = 1
      BY <1>4, <3>2
    <3>. QED BY <3>1, <3>2
  <2>3. Typing[Kid(i, x + off)] = S[i][x + off].type /\ Settled(S[i][x + off])
    BY <2>1, <2>2 DEF Hears, n
  <2>. QED BY <1>1, <2>1, <2>3, HasKidIs DEF Settled
<1>6. ASSUME n.given = Len(m.args), Takes(i, Typing, off, m.args)
      PROVE  ArgsFit(m, args)
  <2>. SUFFICES ASSUME NEW x \in 1..Len(args) PROVE IsCompat(args[x].type, m.args[x])
    BY DEF ArgsFit
  <2>1. x \in 1..Len(m.args)
    BY <1>3, <1>4, <1>6 DEF n
  <2>2. Assignable(Typing[Kid(i, off + x)], m.args[x])
    BY <1>3, <1>6, <2>1 DEF Takes
  <2>3. Assignable(args[x].type, m.args[x]) /\ args[x].type \in Type /\ m.args[x] \in Type
    BY <1>3, <1>5, <2>1, <2>2
  <2>. QED BY <2>3, CompatIs
<1>7. ASSUME n.given = Len(m.args), ArgsFit(m, args)
      PROVE  Takes(i, Typing, off, m.args)
  <2>1. Len(args) = Len(m.args)
    <3>1. ~(Len(args) < n.given)
      BY <1>7 DEF MoreArgs, n, m
    <3>. QED BY <1>2, <1>4, <1>7, <3>1 DEF n
  <2>2. ASSUME NEW x \in 1..Len(m.args)
        PROVE  HasKid(i, off + x) /\ Assignable(Typing[Kid(i, off + x)], m.args[x])
    <3>1. x \in 1..Len(args) /\ m.args[x] \in Type
      BY <1>3, <2>1
    <3>2. IsCompat(args[x].type, m.args[x])
      BY <1>7, <3>1 DEF ArgsFit
    <3>3. Assignable(args[x].type, m.args[x])
      BY <1>5, <3>1, <3>2, CompatIs
    <3>. QED BY <1>5, <3>1, <3>3
  <2>. QED BY <1>3, <1>7, <2>2 DEF Takes, n
<1>8. Args(m, n.given, args) <=> n.given = Len(m.args) /\ ArgsFit(m, args)
  BY DEF Args
<1>9. Takes(i, Typing, off, m.args) => n.given = Len(m.args)
  BY DEF Takes, n
<1>. QED BY <1>6, <1>7, <1>8, <1>9 DEF n, m

LEMMA AgreesLocalCall ==
  ASSUME NEW S, NEW U, Parts(S, U), Ended, NEW i \in 2..Len(nodes), Hears(S, i), NEW o,
         nodes[i].op = "localCall"
  PROVE  Agrees(Answer(nodes[i], S[i]), Rule(i, Typing, o))
<1>. DEFINE n == nodes[i]
            m == nodes[i].of
            ok == MayCall(m, TRUE, FALSE) /\ Args(m, n.given, S[i])
            ir == CallValue(m, ~static, S[i])
<1>1. i \in 1..Len(nodes) /\ Written(n) /\ static \in BOOLEAN
  BY FrameFacts, NodeFacts DEF Parts, Typed, Flags
<1>2. m \in Callees /\ m.type \in Type /\ m.static \in BOOLEAN
  BY <1>1, CalleeHas DEF Written
<1>3. S[i] \in Seq(Answers) /\ Len(S[i]) \in Nat /\ Len(S[i]) <= n.given
  <2>1. Arity(n) = n.given
    BY DEF Arity, LeafOps
  <2>. QED BY <1>1, <2>1, NodeFacts DEF Parts, Heard
<1>4. Answer(n, S[i]) = IF ok THEN R(m.type, FALSE, ir) ELSE Bad
  BY DEF Answer, LocalCall, Call
<1>5. MayCall(m, TRUE, FALSE) <=> m.is = "method" /\ (static => m.static)
  BY DEF MayCall
<1>6. MayCall(m, TRUE, FALSE) => (Args(m, n.given, S[i]) <=> Takes(i, Typing, 0, m.args))
  <2>1. ASSUME MayCall(m, TRUE, FALSE) PROVE ~MoreArgs(m, n.given, S[i])
    <3>1. ~More(Record(i, S[i])) /\ Record(i, S[i]).node = i /\ Record(i, S[i]).kids = S[i]
      BY <1>1, Finished DEF LeafOps, Record
    <3>2. ~(MayCall(m, TRUE, FALSE) /\ MoreArgs(m, n.given, S[i]))
      BY <3>1, MoreIs
    <3>. QED BY <2>1, <3>2
  <2>2. Len(S[i]) = Len(S[i]) - 0 /\ \A x \in 1..Len(S[i]) : S[i][x] = S[i][x + 0]
    BY <1>3
  <2>. QED BY <1>3, <2>1, <2>2, TakesIs DEF CallOps
<1>7. Rule(i, Typing, o) = IF ok THEN m.type ELSE Error
  <2>1. Rule(i, Typing, o) =
          IF m.is = "method" /\ (static => m.static) /\ Takes(i, Typing, 0, m.args)
          THEN m.type ELSE Error
    BY <1>1, RuleOfCall
  <2>. QED BY <1>5, <1>6, <2>1
<1>8. ir \in {LLVM(m.type), Empty, NoCode}
  BY <1>2, BasicTypes DEF CallValue, Provided
<1>. HIDE DEF n, m, ir, ok
<1>9. Agrees(R(m.type, FALSE, ir), m.type)
  BY <1>2, <1>8, AgreesR
<1>. QED BY <1>4, <1>7, <1>9, AgreesBad DEF n

(* The call of a method by an object or by the name of its class.          *)
LEMMA VarCallIs ==
  ASSUME NEW m, NEW given, NEW e, NEW args,
         e.type # Error, ~IsLength(m, e), e.type.kind = "class"
  PROVE  LET found == e.cls \/ Pointer(e.ir)
             ok == MayCall(m, FALSE, e.cls) /\ Args(m, given, args)
             value == CallValue(m, ~e.cls, args) IN
         /\ ok => VarCall(m, given, e, args) = R(m.type, FALSE, Provided(found, value))
         /\ ~ok => VarCall(m, given, e, args) = R(Error, TRUE, Provided(found, NoCode))
<1>. DEFINE found == e.cls \/ Pointer(e.ir)
            ok == MayCall(m, FALSE, e.cls) /\ Args(m, given, args)
            value == CallValue(m, ~e.cls, args)
            r == Call(m, given, FALSE, e.cls, ~e.cls, args)
            x == VarCall(m, given, e, args)
<1>1. x = [r EXCEPT !.ir = Provided(found, r.ir)]
  BY DEF VarCall
<1>2. r = IF ok THEN R(m.type, FALSE, value) ELSE Bad
  BY DEF Call
<1>3. (ok => r = R(m.type, FALSE, value)) /\ (~ok => r = R(Error, TRUE, NoCode))
  BY <1>2 DEF Bad
<1>. HIDE DEF r, ok, found, value, x
<1>4. ASSUME ok PROVE x = R(m.type, FALSE, Provided(found, value))
  <2>1. r = [type |-> m.type, bad |-> FALSE, cls |-> FALSE, ir |-> value]
    BY <1>3, <1>4 DEF R
  <2>2. x = [type |-> m.type, bad |-> FALSE, cls |-> FALSE, ir |-> Provided(found, value)]
    BY <1>1, <2>1
  <2>. QED BY <2>2 DEF R
<1>5. ASSUME ~ok PROVE x = R(Error, TRUE, Provided(found, NoCode))
  <2>1. r = [type |-> Error, bad |-> TRUE, cls |-> FALSE, ir |-> NoCode]
    BY <1>3, <1>5 DEF R
  <2>2. x = [type |-> Error, bad |-> TRUE, cls |-> FALSE, ir |-> Provided(found, NoCode)]
    BY <1>1, <2>1
  <2>. QED BY <2>2 DEF R
<1>. QED BY <1>4, <1>5 DEF x, found, ok, value

LEMMA AgreesVarCall ==
  ASSUME NEW S, NEW U, Parts(S, U), Ended, NEW i \in 2..Len(nodes), Hears(S, i), NEW o,
         nodes[i].op = "varCall"
  PROVE  Agrees(Answer(nodes[i], S[i]), Rule(i, Typing, o))
<1>. DEFINE n == nodes[i]
            m == nodes[i].of
            e == S[i][1]
            args == Tail(S[i])
            w == Typing[Kid(i, 1)]
<1>1. i \in 1..Len(nodes) /\ Written(n) /\ static \in BOOLEAN
  BY FrameFacts, NodeFacts DEF Parts, Typed, Flags
<1>2. m \in Callees /\ m.type \in Type /\ m.static \in BOOLEAN /\ n.given \in Nat
  BY <1>1, CalleeHas DEF Written
<1>3. /\ S[i] \in Seq(Answers) /\ Len(S[i]) \in Nat /\ Len(S[i]) <= n.given + 1
      /\ 1 \in 1..Len(S[i])
  <2>1. Arity(n) = n.given + 1
    BY DEF Arity, LeafOps
  <2>2. 1 \in 1..Len(S[i])
    BY <1>1, Finished DEF LeafOps
  <2>. QED BY <1>1, <2>1, <2>2, NodeFacts DEF Parts, Heard
<1>4. /\ args \in Seq(Answers) /\ Len(args) = Len(S[i]) - 1 /\ Len(args) <= n.given
      /\ \A x \in 1..Len(args) : args[x] = S[i][x + 1]
  <2>1. S[i] # <<>>
    BY <1>3, EmptySeq
  <2>2. args \in Seq(Answers) /\ Len(args) = Len(S[i]) - 1
        /\ \A x \in 1..Len(args) : args[x] = S[i][x + 1]
    BY <1>3, <2>1, HeadTailProperties
  <2>. QED BY <1>2, <1>3, <2>2
<1>5. /\ Settled(e) /\ (e.cls => e.type.kind = "class")
      /\ w = IF e.cls THEN NameType(e.type.of) ELSE e.type
  BY <1>3 DEF Hears, Selecting
<1>6. e.type \in Type /\ e.type # Error /\ e.type.kind # "error" /\ e.type.kind # "name"
      /\ e.cls \in BOOLEAN
  BY <1>5, OfKind DEF Settled, Answers
<1>7. Answer(n, S[i]) = VarCall(m, n.given, e, args)
  BY DEF Answer
<1>8. /\ Rule(i, Typing, o) =
           IF m.is = "length" /\ w.kind = "array" /\ n.given = 0 THEN IntType
           ELSE IF /\ m.is = "method"
                   /\ w.kind = "class" \/ (w.kind = "name" /\ m.static)
                   /\ Takes(i, Typing, 1, m.args)
                THEN m.type ELSE Error
  BY <1>1, RuleOfCall
<1>9. w.kind = IF e.cls THEN "name" ELSE e.type.kind
  BY <1>5 DEF NameType
<1>10. e.type.kind = "class" /\ MayCall(m, FALSE, e.cls) =>
         (Args(m, n.given, args) <=> Takes(i, Typing, 1, m.args))
  <2>. SUFFICES ASSUME e.type.kind = "class", MayCall(m, FALSE, e.cls)
                PROVE  Args(m, n.given, args) <=> Takes(i, Typing, 1, m.args)
    OBVIOUS
  <2>1. ~MoreArgs(m, n.given, args)
    <3>1. ~More(Record(i, S[i])) /\ Record(i, S[i]).node = i /\ Record(i, S[i]).kids = S[i]
      BY <1>1, Finished DEF LeafOps, Record
    <3>2. Len(S[i]) > 0
      BY <1>3
    <3>3. ~(e.type.kind = "class" /\ MayCall(m, FALSE, e.cls) /\ MoreArgs(m, n.given, args))
      BY <3>1, <3>2, MoreIs
    <3>. QED BY <3>3
  <2>2. nodes[i].op \in CallOps /\ 1 \in {0, 1} /\ (1 = 0 => nodes[i].op = "localCall")
    BY DEF CallOps
  <2>. QED BY <1>4, <2>1, <2>2, TakesIs
<1>. HIDE DEF n, m, e, args, w
<1>11. CASE IsLength(m, e)
  <2>1. e.type.kind = "array" /\ m.is = "length"
    BY <1>11 DEF IsLength
  <2>2. VarCall(m, n.given, e, args) = R(IntType, n.given > 0, ArrayLength(e))
    BY <1>6, <1>11, <2>1 DEF VarCall, IntType
  <2>3. Rule(i, Typing, o) = IF n.given > 0 THEN Error ELSE IntType
    BY <1>2, <1>5, <1>8, <1>9, <2>1
  <2>4. ArrayLength(e) \in {LLVM(IntType), Empty, NoCode} /\ (n.given > 0) \in BOOLEAN
    <3>1. ArrayLength(e) = I32 \/ ArrayLength(e) = NoCode
      BY DEF ArrayLength, Provided
    <3>2. I32 = LLVM(IntType)
      BY BasicTypes
    <3>. QED BY ONLY <1>2, <3>1, <3>2
  <2>5. Agrees(R(IntType, n.given > 0, ArrayLength(e)), Rule(i, Typing, o))
    BY <2>3, <2>4, BasicTypes, AgreesR
  <2>. QED BY <1>7, <2>2, <2>5 DEF n
<1>12. CASE ~IsLength(m, e) /\ e.type.kind = "class"
  <2>. DEFINE c == e.cls \/ Pointer(e.ir)
              ok == MayCall(m, FALSE, e.cls) /\ Args(m, n.given, args)
              value == CallValue(m, ~e.cls, args)
              ir == Provided(c, value)
  <2>3. /\ ok => VarCall(m, n.given, e, args) = R(m.type, FALSE, ir)
        /\ ~ok => VarCall(m, n.given, e, args) = R(Error, TRUE, Provided(c, NoCode))
    <3>1. e.type # Error
      BY <1>6
    <3>2. PICK g : g = n.given
      OBVIOUS
    <3>. QED BY ONLY <1>12, <3>1, VarCallIs
  <2>4. Rule(i, Typing, o) = IF ok THEN m.type ELSE Error
    <3>1. MayCall(m, FALSE, e.cls) <=> m.is = "method" /\ (e.cls => m.static)
      BY DEF MayCall
    <3>2. w.kind # "array" /\ (w.kind = "class" \/ (w.kind = "name" /\ m.static) <=> (e.cls => m.static))
      BY <1>2, <1>6, <1>9, <1>12
    <3>. QED BY <1>8, <1>10, <1>12, <3>1, <3>2
  <2>5. value \in {LLVM(m.type), NoCode}
    BY <1>2, BasicTypes DEF CallValue, Provided
  <2>6. ir \in {LLVM(m.type), Empty, NoCode}
    BY <2>5, Conditional
  <2>. HIDE DEF ok, ir, c, value
  <2>7. Agrees(R(m.type, FALSE, ir), m.type)
    BY <1>2, <2>6, AgreesR
  <2>8. Agrees(R(Error, TRUE, Provided(c, NoCode)), Error)
    BY DEF Agrees, R
  <2>. QED BY <1>7, <2>3, <2>4, <2>7, <2>8 DEF n
<1>13. CASE ~IsLength(m, e) /\ e.type.kind # "class"
  <2>1. VarCall(m, n.given, e, args) = Bad
    BY <1>6, <1>13 DEF VarCall
  <2>2. ~e.cls /\ ~(m.is = "length" /\ w.kind = "array") /\ w.kind \notin {"class", "name"}
    BY <1>5, <1>6, <1>9, <1>13 DEF IsLength
  <2>3. Rule(i, Typing, o) = Error
    BY <1>8, <2>2
  <2>. QED BY <1>7, <2>1, <2>3, AgreesBad DEF n
<1>. QED BY <1>11, <1>12, <1>13

-----------------------------------------------------------------------------
(* What holds of a node if it holds of all nodes after it, or of all those *)
(* before it, holds of all.                                                *)
LEMMA Backward ==
  ASSUME NEW n \in Nat, NEW F, \A i \in 2..n : (\A j \in 2..n : i < j => j \in F) => i \in F
  PROVE  \A i \in 2..n : i \in F
<1>. DEFINE D == {k \in 0..n : \A i \in 2..n : i > n - k => i \in F}
<1>1. 0 \in D
  OBVIOUS
<1>2. ASSUME NEW k \in 0..(n - 1), k \in D PROVE k + 1 \in D
  <2>1. ASSUME NEW i \in 2..n, i > n - (k + 1) PROVE i \in F
    <3>1. \A j \in 2..n : i < j => j > n - k
      BY <2>1
    <3>. QED BY <1>2, <3>1
  <2>. QED BY <2>1
<1>3. \A k \in 0..n : k \in D
  <2>. HIDE DEF D
  <2>. QED BY <1>1, <1>2, UpTo
<1>4. n \in D
  BY <1>3
<1>. QED BY <1>4

LEMMA Forward ==
  ASSUME NEW n \in Nat, NEW F, \A i \in 1..n : (\A j \in 1..(i - 1) : j \in F) => i \in F
  PROVE  \A i \in 1..n : i \in F
<1>. DEFINE D == {k \in 0..n : \A i \in 1..k : i \in F}
<1>1. 0 \in D
  OBVIOUS
<1>2. ASSUME NEW k \in 0..(n - 1), k \in D PROVE k + 1 \in D
  <2>1. k + 1 \in 1..n /\ (k + 1) - 1 = k
    OBVIOUS
  <2>2. k + 1 \in F
    BY <1>2, <2>1
  <2>3. \A i \in 1..(k + 1) : i = k + 1 \/ i \in 1..k
    OBVIOUS
  <2>. QED BY <1>2, <2>2, <2>3
<1>3. \A k \in 0..n : k \in D
  <2>. HIDE DEF D
  <2>. QED BY <1>1, <1>2, UpTo
<1>4. n \in D
  BY <1>3
<1>. QED BY <1>4

-----------------------------------------------------------------------------
(* Without errors, every node has answered the type that the rules give.   *)

Fine(S, i) ==
  LET n == nodes[i]
      a == Answered(S, i) IN
  /\ Settled(a)
  /\ a.cls <=> n.op = "name"
  /\ n.op = "name" => a.type = Class(n.of)
  /\ Typing[i] = IF n.op = "name" /\ IsSelected(i) THEN NameType(n.of) ELSE a.type

LEMMA HearsFine ==
  ASSUME NEW S, NEW U, Parts(S, U), Ended, NEW i \in 1..Len(nodes),
         \A m \in 1..Len(S[i]) : Fine(S, Kid(i, m))
  PROVE  Hears(S, i)
<1>1. ASSUME NEW m \in 1..Len(S[i])
      PROVE  /\ Settled(S[i][m])
             /\ S[i][m].cls => S[i][m].type.kind = "class"
             /\ Typing[Kid(i, m)] = IF m = 1 /\ nodes[i].op \in Selecting /\ S[i][m].cls
                                    THEN NameType(S[i][m].type.of) ELSE S[i][m].type
  <2>. DEFINE j == Kid(i, m)
              a == S[i][m]
  <2>1. nodes[j].parent = i /\ nodes[j].nth = m /\ Answered(S, j) = a
    BY KidsAre
  <2>2. IsSelected(j) <=> m = 1 /\ nodes[i].op \in Selecting
    BY <2>1 DEF IsSelected
  <2>3. /\ Settled(a)
        /\ a.cls <=> nodes[j].op = "name"
        /\ nodes[j].op = "name" => a.type = Class(nodes[j].of)
        /\ Typing[j] = IF nodes[j].op = "name" /\ IsSelected(j) THEN NameType(nodes[j].of) ELSE a.type
    BY <2>1 DEF Fine
  <2>4. \A c : Class(c).kind = "class" /\ Class(c).of = c
    BY DEF Class
  <2>. HIDE DEF j, a
  <2>5. a.cls => a.type.kind = "class"
    BY <2>3, <2>4
  <2>6. Typing[j] = IF m = 1 /\ nodes[i].op \in Selecting /\ a.cls THEN NameType(a.type.of) ELSE a.type
    <3>1. CASE a.cls
      <4>1. nodes[j].op = "name" /\ a.type.of = nodes[j].of
        BY <2>3, <2>4, <3>1
      <4>. QED BY <2>2, <2>3, <3>1, <4>1
    <3>2. CASE ~a.cls
      BY <2>3, <3>2
    <3>. QED BY <3>1, <3>2
  <2>. QED BY <2>3, <2>5, <2>6 DEF a, j
<1>. QED BY <1>1 DEF Hears

LEMMA RuleApplies ==
  ASSUME NEW S, NEW U, Parts(S, U), Ended, NEW i \in 1..Len(nodes), Hears(S, i)
  PROVE  Typing[i] = Rule(i, Typing, OfName(i))
<1>1. ASSUME NEW j \in Kids(i) PROVE Typing[j] # Error
  <2>1. nodes[j].nth \in 1..Len(S[i]) /\ j = Kid(i, nodes[j].nth)
    BY KidsHave
  <2>2. PICK m \in 1..Len(S[i]) : j = Kid(i, m)
    BY <2>1
  <2>3. Settled(S[i][m]) /\ Typing[j] \in {NameType(S[i][m].type.of), S[i][m].type}
    BY <2>2 DEF Hears
  <2>4. S[i][m].type # Error
    BY <2>3, Kinds DEF Settled
  <2>5. NameType(S[i][m].type.of) # Error
    BY DEF NameType, Error, T
  <2>. QED BY <2>3, <2>4, <2>5
<1>. QED BY <1>1, TypingIs DEF TypeAt

LEMMA NodeFine ==
  ASSUME NEW S, NEW U, Parts(S, U), Ended, NEW i \in 2..Len(nodes), Hears(S, i),
         ~Answered(S, i).bad \/ Typing[i] # Error
  PROVE  Fine(S, i)
<1>. DEFINE n == nodes[i]
            a == Answered(S, i)
<1>1. i \in 1..Len(nodes) /\ n.op \in LeafOps \cup UnaryOps \cup BinaryOps \cup CallOps /\ Written(n)
  <2>1. i \in 1..Len(nodes)
    BY FrameFacts
  <2>. QED BY <2>1, NodeFacts DEF Parts, Shape, Place
<1>2. Right(S, U, i)
  BY TreeEnds
<1>3. Typing[i] = Rule(i, Typing, OfName(i))
  BY <1>1, RuleApplies
<1>4. CASE n.op # "name"
  <2>1. Agrees(Answer(n, S[i]), Rule(i, Typing, OfName(i)))
    <3>1. CASE n.op \in LeafOps
      BY <1>4, <3>1, AgreesLeaf
    <3>2. CASE n.op \in UnaryOps
      BY <3>2, AgreesUnary
    <3>3. CASE n.op \in BinaryOps
      BY <3>3, AgreesBinary
    <3>4. CASE n.op \in CallOps
      BY <3>4, AgreesLocalCall, AgreesVarCall DEF CallOps
    <3>. QED BY <1>1, <3>1, <3>2, <3>3, <3>4
  <2>2. a = Answer(n, S[i]) /\ (a.cls => n.op = "name")
    BY <1>2, <1>4 DEF Right
  <2>3. Agrees(a, Typing[i])
    BY <1>3, <2>1, <2>2
  <2>. HIDE DEF n, a
  <2>4. Settled(a) /\ Typing[i] = a.type
    BY <2>3 DEF Agrees, a
  <2>5. a.cls \in BOOLEAN
    BY <2>4 DEF Settled, Answers
  <2>6. ~a.cls
    BY <1>4, <2>2
  <2>. QED BY <1>4, <2>4, <2>6 DEF Fine, a, n
<1>5. CASE n.op = "name"
  <2>1. Rule(i, Typing, OfName(i)) = OfName(i)
    BY <1>5, RuleOfLeaf DEF Parts, Typed, Flags
  <2>2. InLastPrefix(i) <=> InPrefix(U, i)
    BY PrefixIs
  <2>3. IsSelected(i) => InPrefix(U, i)
    BY SelectedInPrefix
  <2>4. a = IF InPrefix(U, i)
            THEN [type |-> Class(n.of), bad |-> FALSE, cls |-> TRUE, ir |-> NoCode] ELSE Bad
    BY <1>2, <1>5 DEF Right
  <2>5. InPrefix(U, i)
    <3>1. ASSUME ~InPrefix(U, i) PROVE FALSE
      <4>1. Typing[i] = Error
        BY <1>3, <2>1, <2>2, <2>3, <3>1 DEF OfName
      <4>2. Bad.bad
        BY DEF Bad, R
      <4>. QED BY <2>4, <3>1, <4>1, <4>2
    <3>. QED BY <3>1
  <2>6. a.type = Class(n.of) /\ ~a.bad /\ a.cls /\ a.ir = NoCode
    BY <2>4, <2>5
  <2>7. Typing[i] = IF IsSelected(i) THEN NameType(n.of) ELSE a.type
    BY <1>3, <2>1, <2>2, <2>5, <2>6 DEF OfName, NameType
  <2>8. Class(n.of) \in Type
    BY <1>1, <1>5, ClassTypes DEF Written
  <2>9. a \in Answers
    <3>1. NoCode \in Values
      BY DEF Values
    <3>. QED BY <2>4, <2>5, <2>8, <3>1 DEF Answers
  <2>10. Settled(a)
    BY <2>6, <2>8, <2>9 DEF Settled
  <2>. QED BY <1>5, <2>6, <2>7, <2>10 DEF Fine
<1>. QED BY <1>4, <1>5

LEMMA TreeFine ==
  ASSUME NEW S, NEW U, Parts(S, U), Ended,
         \A i \in 2..Len(nodes) : ~Answered(S, i).bad \/ Typing[i] # Error
  PROVE  /\ \A i \in 2..Len(nodes) : Fine(S, i)
         /\ \A i \in 1..Len(nodes) : Hears(S, i)
<1>. DEFINE F == {i \in 2..Len(nodes) : Fine(S, i)}
<1>1. Len(nodes) \in Nat
  BY FrameFacts
<1>2. ASSUME NEW i \in 1..Len(nodes), \A j \in 2..Len(nodes) : i < j => j \in F PROVE Hears(S, i)
  BY <1>2, KidsAre, HearsFine
<1>3. ASSUME NEW i \in 2..Len(nodes), \A j \in 2..Len(nodes) : i < j => j \in F PROVE i \in F
  <2>1. i \in 1..Len(nodes)
    BY <1>1
  <2>2. Hears(S, i)
    BY <1>2, <1>3, <2>1
  <2>. QED BY <2>2, NodeFine
<1>4. \A i \in 2..Len(nodes) : i \in F
  <2>. HIDE DEF F
  <2>. QED BY <1>1, <1>3, Backward
<1>. QED BY <1>2, <1>4

(* An error in a part is an error of the whole.                            *)
LEMMA ErrorsSpread ==
  ASSUME NEW S, NEW U, Parts(S, U), Ended, Typing[1] # Error
  PROVE  \A i \in 1..Len(nodes) : Typing[i] # Error
<1>. DEFINE F == {i \in 1..Len(nodes) : Typing[i] # Error}
<1>1. Len(nodes) \in Nat /\ DOMAIN nodes = 1..Len(nodes)
  BY LenProperties DEF Parts, Typed
<1>2. ASSUME NEW i \in 1..Len(nodes), \A j \in 1..(i - 1) : j \in F PROVE i \in F
  <2>1. CASE i = 1
    BY <2>1
  <2>2. CASE i # 1
    <3>. DEFINE p == nodes[i].parent
    <3>1. p \in 1..(i - 1)
      BY <2>2, NodeFacts
    <3>2. p \in F /\ i \in Kids(p)
      BY <1>1, <1>2, <3>1 DEF Kids
    <3>3. Typing[p] = TypeAt(p, Typing) /\ Typing[p] # Error
      BY <3>2, TypingIs
    <3>. QED BY <3>2, <3>3 DEF TypeAt
  <2>. QED BY <2>1, <2>2
<1>3. \A i \in 1..Len(nodes) : i \in F
  <2>. HIDE DEF F
  <2>. QED BY <1>1, <1>2, Forward
<1>. QED BY <1>3

(* The statement itself.                                                   *)
LEMMA StatementIs ==
  ASSUME NEW S, NEW U, Parts(S, U), Ended, Hears(S, 1)
  PROVE  Rejects(nodes[1], S[1]) <=> Typing[1] = Error
<1>. DEFINE n == nodes[1]
            a == S[1][1]
            b == S[1][2]
            v == Typing[Kid(1, 1)]
            w == Typing[Kid(1, 2)]
<1>1. 1 \in 1..Len(nodes) /\ n.op \in StatementOps /\ Written(n)
  <2>1. 1 \in 1..Len(nodes)
    BY FrameFacts
  <2>. QED BY <2>1, NodeFacts
<1>2. n.op \notin LeafOps /\ n.op # "localCall" /\ n.op \notin Selecting
  BY <1>1 DEF StatementOps, LeafOps, Selecting
<1>3. 1 \in 1..Len(S[1]) /\ (n.op = "assign" => 2 \in 1..Len(S[1]))
  BY <1>1, <1>2, Finished
<1>4. Typing[1] = Rule(1, Typing, OfName(1))
  BY <1>1, RuleApplies
<1>5. a.type \in Type /\ v = a.type
  BY <1>2, <1>3 DEF Hears, Settled
<1>6. n.op = "assign" => b.type \in Type /\ w = b.type
  BY <1>2, <1>3 DEF Hears, Settled
<1>7. T("void") # Error /\ T("void") \in Type
  BY DEF T, Error, Type, Element
<1>8. VarTypes \subseteq Type
  BY ExpressionsAssumption
<1>. DEFINE t == Rule(1, Typing, OfName(1))
<1>. HIDE DEF n, a, b, v, w
<1>9. CASE n.op = "assign"
  <2>1. t = IF Assignable(w, v) THEN T("void") ELSE Error
    BY <1>9, RuleOfStatement DEF n, v, w
  <2>2. Rejects(n, S[1]) <=> ~IsCompat(b.type, a.type)
    BY <1>9 DEF Rejects, RejectsAssign, a, b
  <2>3. IsCompat(b.type, a.type) <=> Assignable(b.type, a.type)
    BY <1>5, <1>6, <1>9, CompatIs
  <2>. QED BY <1>4, <1>5, <1>6, <1>7, <1>9, <2>1, <2>2, <2>3 DEF n
<1>10. CASE n.op \in {"init", "return"}
  <2>1. t = IF Assignable(v, n.of) THEN T("void") ELSE Error
    BY <1>10, RuleOfStatement DEF n, v
  <2>2. Rejects(n, S[1]) <=> ~IsCompat(a.type, n.of)
    BY <1>10 DEF Rejects, RejectsInit, RejectsReturn, a
  <2>3. n.of \in Type
    BY <1>1, <1>7, <1>8, <1>10 DEF Written
  <2>4. IsCompat(a.type, n.of) <=> Assignable(a.type, n.of)
    BY <1>5, <2>3, CompatIs
  <2>. QED BY <1>4, <1>5, <1>7, <2>1, <2>2, <2>4 DEF n
<1>11. CASE n.op = "print"
  <2>1. t = IF v \in {IntType, BoolType, T("string")} THEN T("void") ELSE Error
    BY <1>11, RuleOfStatement DEF n, v
  <2>2. Rejects(n, S[1]) <=> a.type.kind \notin {"int", "bool", "string", "error"}
    BY <1>11 DEF Rejects, RejectsPrint, a
  <2>3. a.type.kind \in {"int", "bool", "string", "error"} <=> a.type \in {IntType, BoolType, T("string")}
    BY <1>5, OfKind
  <2>. QED BY <1>4, <1>5, <1>7, <2>1, <2>2, <2>3 DEF n
<1>12. CASE n.op = "condition"
  <2>1. t = IF v = BoolType THEN T("void") ELSE Error
    BY <1>12, RuleOfStatement DEF n, v
  <2>2. Rejects(n, S[1]) <=> a.type # BoolType
    BY <1>12 DEF Rejects, RejectsTest, BoolType, a
  <2>. QED BY <1>4, <1>5, <1>7, <2>1, <2>2 DEF n
<1>13. CASE n.op = "expression"
  <2>1. t = T("void")
    BY <1>13, RuleOfStatement DEF n
  <2>2. Rejects(n, S[1]) <=> FALSE
    BY <1>13 DEF Rejects
  <2>. QED BY <1>4, <1>7, <2>1, <2>2 DEF n
<1>. QED BY <1>1, <1>9, <1>10, <1>11, <1>12, <1>13 DEF StatementOps

LEMMA AcceptedFine ==
  ASSUME NEW S, NEW U, Parts(S, U), Ended, ~failed
  PROVE  /\ \A i \in 2..Len(nodes) : Fine(S, i)
         /\ \A i \in 1..Len(nodes) : Hears(S, i)
<1>1. \A i \in 2..Len(nodes) : ~Answered(S, i).bad
  BY TreeEnds
<1>. QED BY <1>1, TreeFine

LEMMA PartsRejectExactly ==
  ASSUME NEW S, NEW U, Parts(S, U)
  PROVE  RejectsExactly
<1>. SUFFICES ASSUME Ended PROVE failed <=> Typing[1] = Error
  BY DEF RejectsExactly
<1>1. 1 \in 1..Len(nodes) /\ Len(nodes) \in Nat /\ failed \in BOOLEAN
  BY FrameFacts DEF Parts, Typed
<1>2. failed <=> \/ \E i \in 2..Len(nodes) : Answered(S, i).bad
                 \/ Rejects(nodes[1], S[1])
  BY TreeEnds
<1>3. ASSUME Typing[1] # Error PROVE ~failed
  <2>1. \A i \in 2..Len(nodes) : Typing[i] # Error
    BY <1>1, <1>3, ErrorsSpread
  <2>2. \A i \in 2..Len(nodes) : Fine(S, i)
    BY <2>1, TreeFine
  <2>3. Hears(S, 1)
    BY <1>1, <2>1, TreeFine
  <2>4. \A i \in 2..Len(nodes) : ~Answered(S, i).bad
    BY <2>2 DEF Fine, Settled
  <2>5. ~Rejects(nodes[1], S[1])
    BY <1>3, <2>3, StatementIs
  <2>. QED BY <1>2, <2>4, <2>5
<1>4. ASSUME ~failed PROVE Typing[1] # Error
  <2>1. Hears(S, 1)
    BY <1>1, <1>4, AcceptedFine
  <2>2. ~Rejects(nodes[1], S[1])
    BY <1>2, <1>4
  <2>. QED BY <2>1, <2>2, StatementIs
<1>. QED BY <1>1, <1>3, <1>4

LEMMA PartsKeepTypes ==
  ASSUME NEW S, NEW U, Parts(S, U)
  PROVE  KeptTypesAreRight
<1>. SUFFICES ASSUME Ended, ~failed, NEW i \in 2..Len(nodes)
              PROVE  \/ exprTypes[i] = Unset /\ nodes[1].op = "assign" /\ i = Kid(1, 1)
                     \/ exprTypes[i] = Typing[i]
                     \/ nodes[i].op = "name" /\ exprTypes[i] = Class(nodes[i].of)
  BY DEF KeptTypesAreRight
<1>1. exprTypes[i] = Kept(nodes[i], Answered(S, i)) /\ Fine(S, i)
  BY TreeEnds, AcceptedFine
<1>2. 1 \in 1..Len(nodes) /\ i \in DOMAIN nodes
  BY FrameFacts, LenProperties DEF Parts, Typed
<1>3. CASE nodes[i].parent = 1 /\ nodes[i].nth = 1 /\ nodes[1].op = "assign"
  <2>1. exprTypes[i] = Unset
    BY <1>1, <1>3 DEF Kept
  <2>2. i \in Kids(1)
    BY <1>2, <1>3 DEF Kids
  <2>3. i = Kid(1, 1)
    BY <1>2, <1>3, <2>2, KidsHave
  <2>. QED BY <1>3, <2>1, <2>3
<1>4. CASE ~(nodes[i].parent = 1 /\ nodes[i].nth = 1 /\ nodes[1].op = "assign")
  <2>1. exprTypes[i] = Answered(S, i).type
    BY <1>1, <1>4 DEF Kept
  <2>. QED BY <1>1, <2>1 DEF Fine
<1>. QED BY <1>3, <1>4

(* TypeChecker rejects a statement exactly when the typing rules do, for   *)
(* statements of any size, although it goes on after errors, leaves out    *)
(* subexpressions after some, and shares one allowClassName.               *)
THEOREM TypeCheckerIsExact == Spec => []RejectsExactly
<1>1. ExpressionsInv => RejectsExactly
  BY PartsRejectExactly DEF ExpressionsInv
<1>. QED BY <1>1, ExpressionsInvariant, PTL

(* What returnExprType has kept for CodeGenVisitor is, in every accepted   *)
(* statement, the type that the typing rules give to the expression.       *)
THEOREM ExpressionTypesKept == Spec => []KeptTypesAreRight
<1>1. ExpressionsInv => KeptTypesAreRight
  BY PartsKeepTypes DEF ExpressionsInv
<1>. QED BY <1>1, ExpressionsInvariant, PTL

-----------------------------------------------------------------------------
(* Whose value is used.                                                    *)

UsedAt(i, W) ==
  nodes[i].parent # 0 =>
    /\ nodes[nodes[i].parent].op \notin {"paren", "expression"}
    /\ nodes[nodes[i].parent].op = "logical" => nodes[i].nth = 2 /\ W[nodes[i].parent]

LEMMA UsedAtLocal ==
  ASSUME NEW i, NEW W, NEW V, nodes[i].parent # 0 => W[nodes[i].parent] = V[nodes[i].parent]
  PROVE  UsedAt(i, W) = UsedAt(i, V) /\ UsedAt(i, W) \in BOOLEAN
<1>1. UsedAt(i, W) <=> UsedAt(i, V)
  BY DEF UsedAt
<1>2. UsedAt(i, W) \in BOOLEAN /\ UsedAt(i, V) \in BOOLEAN
  BY DEF UsedAt
<1>. QED BY <1>1, <1>2

(* Used is found from the statement to the last node.                      *)
LEMMA UsedIs ==
  ASSUME NEW S, NEW U, Parts(S, U)
  PROVE  \A i \in 1..Len(nodes) : Used[i] = UsedAt(i, Used) /\ Used[i] \in BOOLEAN
<1>. DEFINE N == Len(nodes)
            Till(k, W) == \A i \in 1..k : W[i] = UsedAt(i, W)
            D == {k \in 0..N : \E W : W = [i \in 1..N |-> W[i]] /\ Till(k, W)}
<1>1. N \in Nat /\ DOMAIN nodes = 1..N
  BY LenProperties DEF Parts, Typed
<1>2. \A i \in 1..N : nodes[i].parent # 0 => nodes[i].parent \in 1..(i - 1)
  BY NodeFacts
<1>3. 0 \in D
  <2>. DEFINE W == [i \in 1..N |-> TRUE]
  <2>1. W = [i \in 1..N |-> W[i]]
    OBVIOUS
  <2>. HIDE DEF W
  <2>2. Till(0, W)
    OBVIOUS
  <2>. QED BY <1>1, <2>1, <2>2
<1>4. ASSUME NEW k \in 0..(N - 1), k \in D PROVE k + 1 \in D
  <2>1. PICK W : Till(k, W)
    BY <1>4
  <2>. DEFINE h == k + 1
              V == [i \in 1..N |-> IF i = h THEN UsedAt(h, W) ELSE W[i]]
  <2>2. h \in 1..N /\ h \in 0..N /\ k \in Nat
    BY <1>1
  <2>3. /\ V = [i \in 1..N |-> V[i]] /\ V[h] = UsedAt(h, W)
        /\ \A i \in 1..N : i # h => V[i] = W[i]
    BY <2>2
  <2>. HIDE DEF V
  <2>4. ASSUME NEW i \in 1..h PROVE UsedAt(i, V) = UsedAt(i, W)
    <3>1. i \in 1..N /\ i <= h
      BY <1>1, <2>2
    <3>2. nodes[i].parent # 0 => nodes[i].parent \in 1..N /\ nodes[i].parent # h
      BY <1>1, <1>2, <2>2, <3>1
    <3>3. nodes[i].parent # 0 => V[nodes[i].parent] = W[nodes[i].parent]
      BY <2>3, <3>2
    <3>. QED BY <3>3, UsedAtLocal
  <2>5. ASSUME NEW i \in 1..h PROVE V[i] = UsedAt(i, V)
    <3>1. i = h \/ i \in 1..k
      BY <2>2
    <3>2. CASE i = h
      BY <2>3, <2>4, <3>2
    <3>3. CASE i # h
      <4>1. V[i] = W[i] /\ W[i] = UsedAt(i, W)
        BY <1>1, <2>1, <2>2, <2>3, <3>1, <3>3
      <4>. QED BY <2>4, <4>1
    <3>. QED BY <3>2, <3>3
  <2>. QED BY <2>2, <2>3, <2>5
<1>5. \A k \in 0..N : k \in D
  <2>. HIDE DEF D, N
  <2>. QED BY <1>1, <1>3, <1>4, UpTo
<1>6. PICK W : W = [i \in 1..N |-> W[i]] /\ Till(N, W)
  <2>1. N \in D
    BY <1>1, <1>5
  <2>. QED BY <2>1
<1>. DEFINE Body(V) == [i \in DOMAIN nodes |-> UsedAt(i, V)]
            used == CHOOSE V : V = Body(V)
<1>7. W = Body(W)
  BY <1>1, <1>6
<1>8. used = Body(used)
  BY <1>7
<1>9. Used = used
  BY DEF Used, UsedAt
<1>10. Used = Body(Used)
  BY <1>8, <1>9
<1>11. \A i \in 1..N : Used[i] = UsedAt(i, Used)
  BY <1>1, <1>10
<1>12. \A i \in 1..N : UsedAt(i, Used) \in BOOLEAN
  BY UsedAtLocal
<1>. QED BY <1>11, <1>12

LEMMA UsedKid ==
  ASSUME NEW S, NEW U, Parts(S, U), Ended, NEW i \in 1..Len(nodes), NEW m \in 1..Len(S[i])
  PROVE  /\ nodes[i].op \in {"paren", "expression"} => ~Used[Kid(i, m)]
         /\ nodes[i].op = "logical" => (Used[Kid(i, m)] <=> m = 2 /\ Used[i])
         /\ nodes[i].op \notin {"paren", "expression", "logical"} => Used[Kid(i, m)]
<1>. DEFINE j == Kid(i, m)
<1>1. j \in 2..Len(nodes) /\ nodes[j].parent = i /\ nodes[j].nth = m
  BY KidsAre
<1>2. j \in 1..Len(nodes) /\ i # 0
  BY <1>1, FrameFacts
<1>3. Used[j] = UsedAt(j, Used)
  BY <1>2, UsedIs
<1>. HIDE DEF j
<1>4. UsedAt(j, Used) <=> /\ nodes[i].op \notin {"paren", "expression"}
                          /\ nodes[i].op = "logical" => m = 2 /\ Used[i]
  BY <1>1, <1>2 DEF UsedAt
<1>. QED BY <1>3, <1>4 DEF j

-----------------------------------------------------------------------------
(* The values of the types.                                                *)
LEMMA PointerIs ==
  ASSUME NEW t \in Type, NEW ir, ir \in {LLVM(t), Empty, NoCode}
  PROVE  /\ t.kind \in {"class", "array", "string", "null"} => (Pointer(ir) <=> ir = LLVM(t))
         /\ t.kind \in {"class", "array"} => LLVM(t).kind = t.kind
         /\ t.kind \in {"int", "bool"} => LLVM(t) = I32
         /\ t.kind \in {"string", "null"} => LLVM(t) = I8P
         /\ t.kind = "void" => LLVM(t) = T("void")
         /\ LLVM(t) # Empty /\ LLVM(t) # NoCode /\ Empty # NoCode
<1>1. LLVM(t) # Empty /\ LLVM(t) # NoCode
  BY LLVMTypes
<1>2. ~Pointer(Empty) /\ ~Pointer(NoCode) /\ Empty # NoCode
  BY DEF Pointer, Empty, NoCode, T, I8P
<1>3. t.kind \in {"class", "array"} => LLVM(t).kind = t.kind
  BY DEF LLVM, LLVMElement, Array
<1>4. t.kind \in {"int", "bool"} => LLVM(t) = I32
  BY DEF LLVM, LLVMElement
<1>5. t.kind \in {"string", "null"} => LLVM(t) = I8P
  BY DEF LLVM, LLVMElement
<1>6. t.kind = "void" => LLVM(t) = T("void")
  BY Kinds DEF LLVM, LLVMElement
<1>7. t.kind \in {"class", "array", "string", "null"} => Pointer(LLVM(t))
  BY <1>3, <1>5 DEF Pointer
<1>. QED BY <1>1, <1>2, <1>3, <1>4, <1>5, <1>6, <1>7

LEMMA PassesIs ==
  ASSUME NEW t \in Type, NEW u \in Type, Assignable(t, u),
         NEW ir, ir \in {LLVM(t), Empty, NoCode}
  PROVE  Passes(ir, u) <=> ir = LLVM(t)
<1>1. LLVM(u) \notin {Empty, NoCode} /\ LLVM(t) \notin {Empty, NoCode}
  BY LLVMTypes
<1>2. ~Pointer(Empty) /\ ~Pointer(NoCode)
  BY DEF Pointer, Empty, NoCode, T, I8P
<1>3. ASSUME ir = LLVM(t) PROVE Passes(ir, u)
  <2>1. CASE t = u
    BY <1>3, <2>1 DEF Passes
  <2>2. CASE t # u
    <3>1. t.kind \in {"class", "null"} /\ u.kind = "class"
      BY <2>2 DEF Assignable
    <3>2. Pointer(LLVM(t)) /\ Pointer(LLVM(u))
      BY <3>1, PointerIs
    <3>. QED BY <1>3, <3>2 DEF Passes
  <2>. QED BY <2>1, <2>2
<1>4. ASSUME ir # LLVM(t) PROVE ~Passes(ir, u)
  BY <1>1, <1>2, <1>4 DEF Passes
<1>. QED BY <1>3, <1>4

-----------------------------------------------------------------------------
(* A node has a value of its type, or none where none is needed.           *)
Coded(S, i) ==
  LET a == Answered(S, i) IN
  IF nodes[i].op = "name" THEN IsSelected(i)
  ELSE a.ir = LLVM(a.type) \/ (a.ir = Empty /\ ~Used[i])

Flaw(i) ==
  \/ NoVisitor(i) \/ NameAsValue(i) \/ Misdirected(i)
  \/ OfNoClass(i) \/ NullOnTheLeft(i) \/ OfVoid(i)

LEMMA KidCoded ==
  ASSUME NEW S, NEW U, Parts(S, U), Ended, ~failed, NEW i \in 1..Len(nodes),
         NEW m \in 1..Len(S[i])
  PROVE  LET a == S[i][m]
             j == Kid(i, m)
             selected == m = 1 /\ nodes[i].op \in Selecting /\ a.cls IN
         /\ a.type \in Type /\ a.ir \in {LLVM(a.type), Empty, NoCode} /\ a.cls \in BOOLEAN
         /\ a.cls <=> nodes[j].op = "name"
         /\ a.cls => a.ir = NoCode /\ a.type.kind = "class"
         /\ Typing[j] = IF selected THEN NameType(a.type.of) ELSE a.type
         /\ selected => Coded(S, j)
         /\ ~selected => (Coded(S, j) <=> a.ir = LLVM(a.type) \/ (a.ir = Empty /\ ~Used[j]))
<1>. DEFINE a == S[i][m]
            j == Kid(i, m)
            selected == m = 1 /\ nodes[i].op \in Selecting /\ a.cls
<1>1. /\ j \in 2..Len(nodes) /\ Answered(S, j) = a
      /\ nodes[j].parent = i /\ nodes[j].nth = m
  BY KidsAre
<1>2. Fine(S, j) /\ Hears(S, i)
  BY <1>1, AcceptedFine
<1>3. Settled(a) /\ (a.cls <=> nodes[j].op = "name")
  BY <1>1, <1>2 DEF Fine
<1>4. /\ a.cls => a.type.kind = "class"
      /\ Typing[j] = IF selected THEN NameType(a.type.of) ELSE a.type
  BY <1>2 DEF Hears
<1>5. a.type \in Type /\ a.ir \in {LLVM(a.type), Empty, NoCode} /\ a.cls \in BOOLEAN
  BY <1>3 DEF Settled, Answers
<1>6. IsSelected(j) <=> m = 1 /\ nodes[i].op \in Selecting
  BY <1>1 DEF IsSelected
<1>7. a.cls => a.ir = NoCode
  <2>1. Right(S, U, j)
    BY <1>1, TreeEnds
  <2>2. nodes[j].op = "name" => a = IF InPrefix(U, j)
                                    THEN [type |-> Class(nodes[j].of), bad |-> FALSE,
                                          cls |-> TRUE, ir |-> NoCode]
                                    ELSE Bad
    BY <1>1, <2>1 DEF Right
  <2>3. Bad.ir = NoCode
    BY DEF Bad, R
  <2>. QED BY <1>3, <2>2, <2>3
<1>8. Coded(S, j) <=> IF nodes[j].op = "name" THEN IsSelected(j)
                      ELSE a.ir = LLVM(a.type) \/ (a.ir = Empty /\ ~Used[j])
  BY <1>1 DEF Coded
<1>9. LLVM(a.type) # NoCode /\ Empty # NoCode
  BY <1>5, PointerIs
<1>. HIDE DEF j, a
<1>10. selected => Coded(S, j)
  BY <1>3, <1>6, <1>8
<1>11. ~selected => (Coded(S, j) <=> a.ir = LLVM(a.type) \/ (a.ir = Empty /\ ~Used[j]))
  <2>1. CASE a.cls
    BY <1>3, <1>6, <1>7, <1>8, <1>9, <2>1
  <2>2. CASE ~a.cls
    BY <1>3, <1>8, <2>2
  <2>. QED BY <2>1, <2>2
<1>. QED BY <1>3, <1>4, <1>5, <1>7, <1>10, <1>11 DEF a, j

LEMMA FlawOf ==
  ASSUME NEW i, Used[i] \in BOOLEAN, nodes[i].op \notin CallOps
  PROVE  LET n == nodes[i] IN
         /\ n.op \in {"literal", "this", "new", "minus", "not", "cast", "instanceof", "arith",
                      "relation", "logical", "index", "assign", "print", "condition",
                      "expression"} => ~Flaw(i)
         /\ n.op \in {"variable", "field", "init"} => (Flaw(i) <=> HasUndeclared(n.of))
         /\ n.op \in {"arrayNew", "return"} =>
              (Flaw(i) <=> HasUndeclared(n.of) \/ n.of = T("void"))
         /\ n.op \in {"paren", "read"} => (Flaw(i) <=> Used[i])
         /\ n.op = "varSel" => (Flaw(i) <=> HasUndeclared(n.of.type))
         /\ n.op = "equality" => (Flaw(i) <=> NullOnTheLeft(i) \/ OfVoid(i))
         /\ n.op = "name" => (Flaw(i) <=> ~IsSelected(i))
<1>. DEFINE n == nodes[i]
<1>1. /\ NoVisitor(i) <=> n.op \in {"paren", "read"} /\ Used[i]
      /\ NameAsValue(i) <=> n.op = "name" /\ ~IsSelected(i)
      /\ n.op # "equality" => ~NullOnTheLeft(i)
      /\ n.op # "equality" => (OfVoid(i) <=> n.op \in {"arrayNew", "return"} /\ n.of = T("void"))
  BY DEF NoVisitor, NameAsValue, NullOnTheLeft, OfVoid
<1>2. ~Misdirected(i)
  BY DEF Misdirected, CallOps
<1>3. n.op \in {"variable", "field", "arrayNew", "init", "return"} =>
        (OfNoClass(i) <=> HasUndeclared(n.of))
  BY DEF OfNoClass
<1>4. n.op = "varSel" => (OfNoClass(i) <=> HasUndeclared(n.of.type))
  BY DEF OfNoClass
<1>5. n.op \in {"variable", "field", "arrayNew", "init", "return", "varSel"} \/ ~OfNoClass(i)
  BY DEF OfNoClass, CallOps
<1>. QED BY <1>1, <1>2, <1>3, <1>4, <1>5 DEF Flaw

LEMMA FlawOfCall ==
  ASSUME NEW i, nodes[i].op \in CallOps,
         nodes[i].of.own \in BOOLEAN, nodes[i].of.static \in BOOLEAN
  PROVE  LET m == nodes[i].of
             unnamed == \/ HasUndeclared(m.type)
                        \/ \E a \in DOMAIN m.args : HasUndeclared(m.args[a]) IN
         /\ m.is # "method" /\ nodes[i].op = "varCall" => ~Flaw(i)
         /\ m.is = "method" /\ nodes[i].op = "varCall" =>
              (Flaw(i) <=> (ByName(i) /\ ~m.own) \/ (~ByName(i) /\ m.static) \/ unnamed)
         /\ m.is = "method" /\ nodes[i].op = "localCall" =>
              (Flaw(i) <=> (static /\ ~m.own) \/ (~static /\ m.static) \/ unnamed)
<1>. DEFINE n == nodes[i]
            m == n.of
            unnamed == \/ HasUndeclared(m.type)
                       \/ \E a \in DOMAIN m.args : HasUndeclared(m.args[a])
<1>1. ~NoVisitor(i) /\ ~NameAsValue(i) /\ ~NullOnTheLeft(i) /\ ~OfVoid(i)
  BY DEF NoVisitor, NameAsValue, NullOnTheLeft, OfVoid, CallOps
<1>2. m.is # "method" /\ n.op = "varCall" => ~Misdirected(i) /\ ~OfNoClass(i)
  BY DEF Misdirected, OfNoClass, CallOps
<1>3. m.is = "method" => (OfNoClass(i) <=> unnamed)
  BY DEF OfNoClass, CallOps
<1>4. m.is = "method" /\ n.op = "varCall" =>
        (Misdirected(i) <=> (ByName(i) /\ ~m.own) \/ (~ByName(i) /\ m.static))
  BY DEF Misdirected
<1>5. m.is = "method" /\ n.op = "localCall" =>
        (Misdirected(i) <=> (static /\ ~m.own) \/ (~static /\ m.static))
  BY DEF Misdirected
<1>. HIDE DEF unnamed, m, n
<1>. QED BY <1>1, <1>2, <1>3, <1>4, <1>5 DEF Flaw, CallOps, unnamed, m, n

-----------------------------------------------------------------------------
(* A node has a value exactly when its subexpressions have theirs and it   *)
(* has no flaw itself.                                                     *)

KidsCoded(S, i) == \A m \in 1..Len(S[i]) : Coded(S, Kid(i, m))

LEMMA KidsCodedIs ==
  ASSUME NEW S, NEW U, Parts(S, U), Ended, NEW i \in 1..Len(nodes)
  PROVE  /\ nodes[i].op \in LeafOps => KidsCoded(S, i)
         /\ nodes[i].op \in UnaryOps \cup (StatementOps \ {"assign"}) =>
              1 \in 1..Len(S[i]) /\ (KidsCoded(S, i) <=> Coded(S, Kid(i, 1)))
         /\ nodes[i].op \in BinaryOps \cup {"assign"} =>
              /\ 1 \in 1..Len(S[i]) /\ 2 \in 1..Len(S[i])
              /\ KidsCoded(S, i) <=> Coded(S, Kid(i, 1)) /\ Coded(S, Kid(i, 2))
<1>1. Len(S[i]) \in Nat /\ Arity(nodes[i]) \in Nat /\ Len(S[i]) <= Arity(nodes[i])
  BY NodeFacts DEF Parts, Heard
<1>2. CASE nodes[i].op \in LeafOps
  <2>1. 1..Len(S[i]) = {}
    BY <1>1, <1>2 DEF Arity
  <2>2. nodes[i].op \notin UnaryOps \cup StatementOps \cup BinaryOps
    BY <1>2 DEF LeafOps, UnaryOps, BinaryOps, StatementOps
  <2>. QED BY <2>1, <2>2 DEF KidsCoded, StatementOps
<1>3. CASE nodes[i].op \in UnaryOps \cup (StatementOps \ {"assign"})
  <2>1. nodes[i].op \notin LeafOps \cup BinaryOps \cup {"assign"} \cup CallOps
    BY <1>3 DEF LeafOps, UnaryOps, BinaryOps, StatementOps, CallOps
  <2>2. 1 \in 1..Len(S[i])
    BY <2>1, Finished DEF CallOps
  <2>3. Arity(nodes[i]) = 1
    BY <2>1 DEF Arity, CallOps
  <2>4. 1..Len(S[i]) = {1}
    BY <1>1, <2>2, <2>3
  <2>. QED BY <2>1, <2>2, <2>4 DEF KidsCoded
<1>4. CASE nodes[i].op \in BinaryOps \cup {"assign"}
  <2>1. nodes[i].op \notin LeafOps \cup UnaryOps \cup (StatementOps \ {"assign"}) \cup CallOps
    BY <1>4 DEF LeafOps, UnaryOps, BinaryOps, StatementOps, CallOps
  <2>2. 1 \in 1..Len(S[i]) /\ 2 \in 1..Len(S[i])
    BY <1>4, <2>1, Finished DEF CallOps
  <2>3. Arity(nodes[i]) = 2
    BY <1>4, <2>1 DEF Arity, CallOps
  <2>4. 1..Len(S[i]) = {1, 2}
    BY <1>1, <2>2, <2>3
  <2>. QED BY <2>1, <2>2, <2>4 DEF KidsCoded
<1>. QED BY <1>2, <1>3, <1>4

LEMMA AcceptedNode ==
  ASSUME NEW S, NEW U, Parts(S, U), Ended, ~failed, NEW i \in 1..Len(nodes)
  PROVE  /\ Rule(i, Typing, OfName(i)) # Error
         /\ static \in BOOLEAN /\ Used[i] \in BOOLEAN
<1>1. Typing[1] # Error
  BY PartsRejectExactly DEF RejectsExactly
<1>2. Typing[i] = Rule(i, Typing, OfName(i))
  BY AcceptedFine, RuleApplies
<1>. QED BY <1>1, <1>2, ErrorsSpread, UsedIs DEF Parts, Typed, Flags

LEMMA NodeCoded ==
  ASSUME NEW S, NEW U, Parts(S, U), Ended, ~failed, NEW i \in 2..Len(nodes),
         nodes[i].op # "name"
  PROVE  LET a == Answer(nodes[i], S[i]) IN
         /\ ~a.bad /\ Answered(S, i) = a
         /\ Coded(S, i) <=> a.ir = LLVM(a.type) \/ (a.ir = Empty /\ ~Used[i])
         /\ nodes[i].op \notin {"paren", "read", "logical"} => a.ir # Empty
<1>1. Right(S, U, i) /\ Fine(S, i)
  BY TreeEnds, AcceptedFine
<1>2. Answered(S, i) = Answer(nodes[i], S[i])
  BY <1>1 DEF Right
<1>. QED BY <1>1, <1>2 DEF Right, Fine, Settled, Coded

(* A subexpression whose value is used.                                    *)
LEMMA KidValue ==
  ASSUME NEW S, NEW U, Parts(S, U), Ended, ~failed, NEW i \in 1..Len(nodes),
         NEW m \in 1..Len(S[i]), nodes[i].op \notin {"paren", "expression", "logical"}
  PROVE  LET a == S[i][m]
             selected == m = 1 /\ nodes[i].op \in Selecting /\ a.cls IN
         /\ a.type \in Type /\ a.ir \in {LLVM(a.type), Empty, NoCode} /\ a.cls \in BOOLEAN
         /\ Typing[Kid(i, m)] = IF selected THEN NameType(a.type.of) ELSE a.type
         /\ selected => Coded(S, Kid(i, m))
         /\ ~selected => (Coded(S, Kid(i, m)) <=> a.ir = LLVM(a.type))
<1>1. Used[Kid(i, m)]
  BY UsedKid
<1>. QED BY <1>1, KidCoded

LEMMA UndeclaredValue ==
  ASSUME NEW t \in Type
  PROVE  /\ Value(t) = LLVM(t) <=> ~HasUndeclared(t)
         /\ HasUndeclared(t) \in BOOLEAN
         /\ t \in Element => (HasUndeclared(Array(t)) <=> HasUndeclared(t))
         /\ t.kind = "class" /\ t.of \in Name => ~HasUndeclared(t)
<1>1. Value(t) = LLVM(t) <=> ~HasUndeclared(t)
  BY LLVMTypes DEF Value
<1>2. HasUndeclared(t) \in BOOLEAN
  BY DEF HasUndeclared
<1>3. t \in Element => (HasUndeclared(Array(t)) <=> HasUndeclared(t))
  <2>1. Array(t) # Class(Undeclared) /\ (Array(t) = Array(Class(Undeclared)) <=> t = Class(Undeclared))
    BY DEF Array, Class
  <2>2. t \in Element => t # Array(Class(Undeclared))
    <3>1. Array(Class(Undeclared)).kind = "array"
      BY DEF Array
    <3>. QED BY <3>1, Elements
  <2>. QED BY <2>1, <2>2 DEF HasUndeclared
<1>4. t.kind = "class" /\ t.of \in Name => ~HasUndeclared(t)
  BY ExpressionsAssumption DEF HasUndeclared, Class, Array
<1>. QED BY <1>1, <1>2, <1>3, <1>4

LEMMA CodedLeaf ==
  ASSUME NEW S, NEW U, Parts(S, U), Ended, ~failed, NEW i \in 2..Len(nodes),
         nodes[i].op \in LeafOps
  PROVE  Coded(S, i) <=> KidsCoded(S, i) /\ ~Flaw(i)
<1>. DEFINE n == nodes[i]
            a == Answer(n, S[i])
<1>1. i \in 1..Len(nodes) /\ Written(n)
  <2>1. i \in 1..Len(nodes)
    BY FrameFacts
  <2>. QED BY <2>1, NodeFacts
<1>2. KidsCoded(S, i) /\ static \in BOOLEAN /\ Used[i] \in BOOLEAN /\ curClass \in Name
  BY <1>1, KidsCodedIs, AcceptedNode DEF Parts, Typed, Flags
<1>3. n.op \notin CallOps
  BY DEF LeafOps, CallOps
<1>4. CASE n.op = "name"
  BY <1>2, <1>3, <1>4, FlawOf DEF Coded
<1>5. ASSUME n.op # "name"
      PROVE  /\ ~a.bad
             /\ Coded(S, i) <=> a.ir = LLVM(a.type) \/ (a.ir = Empty /\ ~Used[i])
             /\ n.op # "read" => a.ir # Empty
  <2>1. n.op \notin {"paren", "logical"}
    BY DEF LeafOps
  <2>. QED BY <1>5, <2>1, NodeCoded
<1>6. CASE n.op \in {"variable", "field"}
  <2>1. n.of \in Type
    BY <1>1, <1>6, ExpressionsAssumption DEF Written
  <2>2. a = Variable(n.of)
    <3>1. a \in {Variable(n.of), Bad} /\ Bad.bad
      BY <1>6 DEF Answer, Field, Bad, R
    <3>. QED BY <1>5, <1>6, <3>1
  <2>3. a.type = n.of /\ a.ir = Value(n.of)
    BY <2>2 DEF Variable, R
  <2>4. Coded(S, i) <=> Value(n.of) = LLVM(n.of)
    BY <1>5, <1>6, <2>3
  <2>5. Flaw(i) <=> HasUndeclared(n.of)
    BY <1>2, <1>3, <1>6, FlawOf
  <2>. QED BY <1>2, <2>1, <2>4, <2>5, UndeclaredValue
<1>7. CASE n.op = "literal"
  <2>1. a.type = n.of /\ a.ir = LLVM(n.of)
    BY <1>7 DEF Answer, R
  <2>. QED BY <1>2, <1>3, <1>5, <1>7, <2>1, FlawOf
<1>8. CASE n.op = "read"
  <2>1. a.type = n.of /\ a.ir = Empty
    BY <1>8 DEF Answer, Read, R
  <2>2. n.of \in Type
    BY <1>1, <1>8, BasicTypes DEF Written, IntType
  <2>3. LLVM(n.of) # Empty
    BY <2>2, LLVMTypes
  <2>4. Flaw(i) <=> Used[i]
    BY <1>2, <1>3, <1>8, FlawOf
  <2>. QED BY <1>2, <1>5, <1>8, <2>1, <2>3, <2>4
<1>9. CASE n.op = "this"
  <2>1. a = Variable(Class(curClass))
    <3>1. a \in {Variable(Class(curClass)), Bad} /\ Bad.bad
      BY <1>9 DEF Answer, This, Bad, R
    <3>. QED BY <1>5, <1>9, <3>1
  <2>2. a.type = Class(curClass) /\ a.ir = Value(Class(curClass))
    BY <2>1 DEF Variable, R
  <2>3. Class(curClass) \in Type /\ Class(curClass).kind = "class" /\ Class(curClass).of = curClass
    BY <1>2, ClassTypes DEF Class
  <2>4. Value(Class(curClass)) = LLVM(Class(curClass))
    BY <1>2, <2>3, UndeclaredValue
  <2>. QED BY <1>2, <1>3, <1>5, <1>9, <2>2, <2>4, FlawOf
<1>10. CASE n.op = "new"
  <2>1. a = R(Class(n.of), FALSE, Allocated(n.of))
    <3>1. a \in {R(Class(n.of), FALSE, Allocated(n.of)), Bad} /\ Bad.bad
      BY <1>10 DEF Answer, New, Bad, R
    <3>. QED BY <1>5, <1>10, <3>1
  <2>2. a.type = Class(n.of) /\ a.ir = LLVM(Class(n.of))
    BY <2>1, BasicTypes DEF R, Allocated
  <2>. QED BY <1>2, <1>3, <1>5, <1>10, <2>2, FlawOf
<1>. QED BY <1>4, <1>6, <1>7, <1>8, <1>9, <1>10 DEF LeafOps

LEMMA CodedUnary ==
  ASSUME NEW S, NEW U, Parts(S, U), Ended, ~failed, NEW i \in 2..Len(nodes),
         nodes[i].op \in UnaryOps
  PROVE  Coded(S, i) <=> KidsCoded(S, i) /\ ~Flaw(i)
<1>. DEFINE n == nodes[i]
            a == Answer(n, S[i])
            e == S[i][1]
            j == Kid(i, 1)
            w == Typing[j]
            rule == Rule(i, Typing, OfName(i))
<1>1. i \in 1..Len(nodes) /\ Written(n)
  <2>1. i \in 1..Len(nodes)
    BY FrameFacts
  <2>. QED BY <2>1, NodeFacts
<1>2. 1 \in 1..Len(S[i]) /\ (KidsCoded(S, i) <=> Coded(S, j))
  BY <1>1, KidsCodedIs
<1>3. rule # Error /\ static \in BOOLEAN /\ Used[i] \in BOOLEAN
  BY <1>1, AcceptedNode
<1>4. n.op \notin CallOps /\ n.op # "name"
  BY DEF UnaryOps, CallOps
<1>5. /\ ~a.bad
      /\ Coded(S, i) <=> a.ir = LLVM(a.type) \/ (a.ir = Empty /\ ~Used[i])
      /\ n.op # "paren" => a.ir # Empty
  <2>1. n.op \notin {"read", "logical"}
    BY DEF UnaryOps
  <2>. QED BY <1>4, <2>1, NodeCoded
<1>6. /\ e.type \in Type /\ e.ir \in {LLVM(e.type), Empty, NoCode}
      /\ n.op # "varSel" => w = e.type
  BY <1>1, <1>2, KidCoded DEF Selecting, UnaryOps
<1>7. n.op \notin {"paren", "varSel"} => (Coded(S, j) <=> e.ir = LLVM(e.type))
  BY <1>1, <1>2, KidValue DEF Selecting, UnaryOps
<1>8. LLVM(e.type) # Empty /\ LLVM(e.type) # NoCode /\ Empty # NoCode /\ I32 # NoCode
  BY <1>6, PointerIs DEF I32, NoCode, T
<1>. HIDE DEF n, a, e, j, w, rule
<1>9. CASE n.op = "paren"
  <2>1. a = Paren(e)
    BY <1>9 DEF Answer, n, a, e
  <2>2. a.ir = IF e.ir # NoCode THEN Empty ELSE NoCode
    BY <2>1 DEF Paren, R, Provided
  <2>3. a.type = e.type
    BY <2>1 DEF Paren, R
  <2>4. Coded(S, i) <=> e.ir # NoCode /\ ~Used[i]
    BY <1>5, <1>8, <2>2, <2>3
  <2>5. Coded(S, j) <=> e.ir # NoCode
    <3>1. ~Used[j]
      BY <1>1, <1>2, <1>9, UsedKid DEF j, n
    <3>2. Coded(S, j) <=> e.ir = LLVM(e.type) \/ (e.ir = Empty /\ ~Used[j])
      BY <1>1, <1>2, <1>9, KidCoded DEF Selecting, j, e, n
    <3>. QED BY <1>6, <1>8, <3>1, <3>2
  <2>6. Flaw(i) <=> Used[i]
    BY <1>3, <1>4, <1>9, FlawOf DEF n
  <2>. QED BY <1>2, <1>3, <2>4, <2>5, <2>6
<1>10. CASE n.op \in {"minus", "not"}
  <2>1. a \in {Minus(e), Not(e)}
    BY <1>10 DEF Answer, n, a, e
  <2>2. a.ir = UnaryValue(e) /\ a.type \in {IntType, BoolType}
    BY <2>1 DEF Minus, Not, R, IntType, BoolType
  <2>3. w \in {IntType, BoolType}
    BY <1>3, <1>10, RuleOfUnary DEF w, j, n, rule
  <2>4. LLVM(e.type) = I32 /\ LLVM(a.type) = I32
    BY <1>6, <1>10, <2>2, <2>3, BasicTypes
  <2>5. Coded(S, i) <=> e.ir = I32
    BY <1>5, <1>8, <1>10, <2>2, <2>4 DEF UnaryValue, Provided
  <2>6. ~Flaw(i)
    BY <1>3, <1>4, <1>10, FlawOf DEF n
  <2>. QED BY <1>2, <1>7, <1>10, <2>4, <2>5, <2>6
<1>11. CASE n.op \in {"cast", "instanceof"}
  <2>1. a = IF n.op = "cast" THEN Cast(n.of, e) ELSE InstanceOf(n.of, e)
    BY <1>11 DEF Answer, n, a, e
  <2>2. a.ir = Provided(Pointer(e.ir), LLVM(a.type))
    BY <1>11, <2>1, BasicTypes
       DEF Cast, CastValue, InstanceOf, InstanceOfValue, R, BoolType
  <2>3. w.kind = "class"
    BY <1>3, <1>11, RuleOfUnary DEF w, j, n, rule
  <2>4. Pointer(e.ir) <=> e.ir = LLVM(e.type)
    BY <1>6, <1>11, <2>3, PointerIs
  <2>5. LLVM(a.type) # NoCode
    <3>1. a.type \in {Class(n.of), BoolType}
      BY <1>11, <2>1 DEF Cast, InstanceOf, R, BoolType
    <3>2. LLVM(a.type) \in {Class(n.of), I32}
      BY <3>1, BasicTypes
    <3>3. Class(n.of) # NoCode
      BY DEF Class, NoCode, T
    <3>. QED BY <1>8, <3>2, <3>3
  <2>6. Coded(S, i) <=> Pointer(e.ir)
    BY <1>5, <1>8, <1>11, <2>2, <2>5 DEF Provided
  <2>7. ~Flaw(i)
    BY <1>3, <1>4, <1>11, FlawOf DEF n
  <2>. QED BY <1>2, <1>7, <1>11, <2>4, <2>6, <2>7
<1>12. CASE n.op = "arrayNew"
  <2>1. a = ArrayNew(n.of, e)
    BY <1>12 DEF Answer, n, a, e
  <2>2. a.type = Array(n.of) /\ a.ir = ArrayNewValue(n.of, e)
    BY <2>1 DEF ArrayNew, R
  <2>3. w = IntType
    BY <1>3, <1>12, RuleOfUnary DEF w, j, n, rule
  <2>4. LLVM(e.type) = I32
    BY <1>6, <1>12, <2>3, BasicTypes
  <2>5. n.of \in Element /\ Array(n.of) \in Type
    BY <1>1, <1>12, Elements, ExpressionsAssumption DEF Written
  <2>6. /\ Value(Array(n.of)) = LLVM(Array(n.of)) <=> ~HasUndeclared(n.of)
        /\ Value(Array(n.of)) # Empty /\ LLVM(Array(n.of)) # NoCode
    BY <2>5, UndeclaredValue, ValueTypes, LLVMTypes, Elements
  <2>7. Coded(S, i) <=> e.ir = I32 /\ n.of # T("void") /\ ~HasUndeclared(n.of)
    BY <1>5, <1>12, <2>2, <2>6 DEF ArrayNewValue, Provided
  <2>8. Flaw(i) <=> HasUndeclared(n.of) \/ n.of = T("void")
    BY <1>3, <1>4, <1>12, FlawOf DEF n
  <2>. QED BY <1>2, <1>7, <1>12, <2>4, <2>7, <2>8
<1>13. CASE n.op = "varSel"
  <2>1. w.kind = "class"
    BY <1>3, <1>13, RuleOfUnary DEF w, j, n, rule
  <2>2. ~e.cls
    <3>1. w = IF e.cls THEN NameType(e.type.of) ELSE e.type
      BY <1>1, <1>2, <1>13, KidCoded DEF Selecting, w, j, e, n
    <3>. QED BY <2>1, <3>1 DEF NameType
  <2>3. /\ w = e.type
        /\ Coded(S, j) <=> e.ir = LLVM(e.type)
    BY <1>1, <1>2, <1>13, <2>2, KidValue DEF w, j, e, n
  <2>4. a = R(n.of.type, FALSE, VarSelValue(n.of, e))
    <3>1. a = VarSel(n.of, e) /\ e.type # Error
      BY <1>6, <1>13, Kinds DEF Answer, n, a, e
    <3>2. Bad.bad
      BY DEF Bad, R
    <3>. QED BY <1>5, <3>1, <3>2 DEF VarSel
  <2>5. a.type = n.of.type /\ a.ir = Provided(Pointer(e.ir), Value(n.of.type))
    BY <2>4 DEF R, VarSelValue
  <2>6. n.of.type \in Type
    BY <1>1, <1>13, CalleeHas DEF Written
  <2>7. /\ Value(n.of.type) = LLVM(n.of.type) <=> ~HasUndeclared(n.of.type)
        /\ Value(n.of.type) # Empty /\ LLVM(n.of.type) # NoCode
    BY <2>6, UndeclaredValue, ValueTypes, LLVMTypes
  <2>8. Coded(S, i) <=> Pointer(e.ir) /\ ~HasUndeclared(n.of.type)
    BY <1>5, <1>13, <2>5, <2>7 DEF Provided
  <2>9. Pointer(e.ir) <=> e.ir = LLVM(e.type)
    BY <1>6, <2>1, <2>3, PointerIs
  <2>10. Flaw(i) <=> HasUndeclared(n.of.type)
    BY <1>3, <1>4, <1>13, FlawOf DEF n
  <2>. QED BY <1>2, <2>3, <2>8, <2>9, <2>10
<1>. QED BY <1>9, <1>10, <1>11, <1>12, <1>13 DEF UnaryOps, n

LEMMA CodedBinary ==
  ASSUME NEW S, NEW U, Parts(S, U), Ended, ~failed, NEW i \in 2..Len(nodes),
         nodes[i].op \in BinaryOps
  PROVE  Coded(S, i) <=> KidsCoded(S, i) /\ ~Flaw(i)
<1>. DEFINE n == nodes[i]
            a == Answer(n, S[i])
            l == S[i][1]
            r == S[i][2]
            j == Kid(i, 1)
            k == Kid(i, 2)
            v == Typing[j]
            w == Typing[k]
            rule == Rule(i, Typing, OfName(i))
<1>1. i \in 1..Len(nodes)
  BY FrameFacts
<1>2. /\ 1 \in 1..Len(S[i]) /\ 2 \in 1..Len(S[i])
      /\ KidsCoded(S, i) <=> Coded(S, j) /\ Coded(S, k)
  BY <1>1, KidsCodedIs
<1>3. rule # Error /\ Used[i] \in BOOLEAN
  BY <1>1, AcceptedNode
<1>4. n.op \notin CallOps /\ n.op # "name" /\ n.op \notin Selecting
  BY DEF BinaryOps, CallOps, Selecting
<1>5. /\ ~a.bad
      /\ Coded(S, i) <=> a.ir = LLVM(a.type) \/ (a.ir = Empty /\ ~Used[i])
      /\ n.op # "logical" => a.ir # Empty
  <2>1. n.op \notin {"read", "paren"}
    BY DEF BinaryOps
  <2>. QED BY <1>4, <2>1, NodeCoded
<1>6. /\ l.type \in Type /\ l.ir \in {LLVM(l.type), Empty, NoCode} /\ v = l.type
      /\ r.type \in Type /\ r.ir \in {LLVM(r.type), Empty, NoCode} /\ w = r.type
      /\ Coded(S, j) <=> l.ir = LLVM(l.type) \/ (l.ir = Empty /\ ~Used[j])
      /\ Coded(S, k) <=> r.ir = LLVM(r.type) \/ (r.ir = Empty /\ ~Used[k])
  BY <1>1, <1>2, <1>4, KidCoded
<1>7. n.op # "logical" => Used[j] /\ Used[k]
  BY <1>1, <1>2, UsedKid DEF BinaryOps
<1>8. /\ LLVM(l.type) # Empty /\ LLVM(l.type) # NoCode
      /\ LLVM(r.type) # Empty /\ LLVM(r.type) # NoCode /\ Empty # NoCode /\ I32 # NoCode
  BY <1>6, PointerIs DEF I32, NoCode, T
<1>. HIDE DEF n, a, l, r, j, k, v, w, rule
<1>9. n.op \in {"arith", "relation", "logical", "index"} => ~Flaw(i)
  BY <1>3, <1>4, FlawOf DEF n
<1>10. CASE n.op \in {"arith", "relation"}
  <2>1. a \in {Arithmetic(l, r), Relation(l, r)}
    BY <1>10 DEF Answer, n, a, l, r
  <2>2. a.ir = BinaryValue(l, r) /\ a.type \in {IntType, BoolType}
    BY <2>1 DEF Arithmetic, Relation, R, IntType, BoolType
  <2>3. v = IntType /\ w = IntType
    BY <1>3, <1>10, RuleOfBinary DEF v, w, j, k, n, rule
  <2>4. LLVM(l.type) = I32 /\ LLVM(r.type) = I32 /\ LLVM(a.type) = I32
    BY <1>6, <2>2, <2>3, BasicTypes
  <2>5. {l.ir, r.ir} = {I32} <=> l.ir = I32 /\ r.ir = I32
    OBVIOUS
  <2>6. Coded(S, i) <=> l.ir = I32 /\ r.ir = I32
    BY <1>5, <1>8, <1>10, <2>2, <2>4, <2>5 DEF BinaryValue, Provided
  <2>. QED BY <1>2, <1>6, <1>7, <1>9, <1>10, <2>4, <2>6
<1>11. CASE n.op = "logical"
  <2>1. a = Logical(l, r)
    BY <1>11 DEF Answer, n, a, l, r
  <2>2. a.type = BoolType /\ a.ir = IF l.ir # NoCode THEN r.ir ELSE NoCode
    BY <2>1 DEF Logical, R, BoolType, Provided
  <2>3. v = BoolType /\ w = BoolType
    BY <1>3, <1>11, RuleOfBinary DEF v, w, j, k, n, rule
  <2>4. LLVM(l.type) = I32 /\ LLVM(r.type) = I32 /\ LLVM(a.type) = I32
    BY <1>6, <2>2, <2>3, BasicTypes
  <2>5. ~Used[j] /\ (Used[k] <=> Used[i])
    BY <1>1, <1>2, <1>11, UsedKid DEF j, k, n
  <2>6. Coded(S, j) <=> l.ir # NoCode
    BY <1>6, <1>8, <2>5
  <2>7. Coded(S, k) <=> r.ir = I32 \/ (r.ir = Empty /\ ~Used[i])
    BY <1>6, <2>4, <2>5
  <2>8. Coded(S, i) <=> l.ir # NoCode /\ (r.ir = I32 \/ (r.ir = Empty /\ ~Used[i]))
    BY <1>5, <1>8, <2>2, <2>4
  <2>. QED BY <1>2, <1>9, <1>11, <2>6, <2>7, <2>8
<1>12. CASE n.op = "index"
  <2>1. a = Index(l, r)
    BY <1>12 DEF Answer, n, a, l, r
  <2>2. v.kind = "array" /\ w = IntType
    BY <1>3, <1>12, RuleOfBinary DEF v, w, j, k, n, rule
  <2>3. a.type = l.type.of /\ a.ir = IndexValue(l.type.of, l, r)
    BY <1>6, <2>1, <2>2 DEF Index, R
  <2>4. l.type.of \in Type
    BY <1>6, <2>2, Kinds, Elements
  <2>5. LLVM(l.type.of) # NoCode /\ LLVM(r.type) = I32
    BY <1>6, <2>2, <2>4, LLVMTypes, BasicTypes
  <2>6. Pointer(l.ir) <=> l.ir = LLVM(l.type)
    BY <1>6, <2>2, PointerIs
  <2>7. ArrayLength(l) = I32 <=> Pointer(l.ir)
    BY <1>8 DEF ArrayLength, Provided
  <2>8. Coded(S, i) <=> Pointer(l.ir) /\ r.ir = I32
    BY <1>5, <1>12, <2>3, <2>5, <2>7 DEF IndexValue, Provided
  <2>. QED BY <1>2, <1>6, <1>7, <1>9, <1>12, <2>5, <2>6, <2>8
<1>13. CASE n.op = "equality"
  <2>1. a = Equality(l, r)
    BY <1>13 DEF Answer, n, a, l, r
  <2>2. a.type = BoolType /\ a.ir = Provided(Comparable(l, r), I32)
    BY <2>1 DEF Equality, R, BoolType
  <2>3. Coded(S, i) <=> Comparable(l, r)
    BY <1>5, <1>8, <1>13, <2>2, BasicTypes DEF Provided
  <2>4. Assignable(l.type, r.type) \/ Assignable(r.type, l.type)
    BY <1>3, <1>6, <1>13, RuleOfBinary DEF v, w, j, k, n, rule
  <2>5. exprTypes[j] = l.type /\ exprTypes[k] = r.type
    <3>1. /\ j \in 2..Len(nodes) /\ k \in 2..Len(nodes)
          /\ nodes[j].parent # 1 /\ nodes[k].parent # 1
          /\ Answered(S, j) = l /\ Answered(S, k) = r
      BY <1>1, <1>2, KidsAre DEF j, k, l, r
    <3>. QED BY <3>1, TreeEnds DEF Kept
  <2>6. Flaw(i) <=> \/ l.type = T("null") /\ r.type # T("null")
                    \/ l.type = T("void")
    <3>1. Flaw(i) <=> NullOnTheLeft(i) \/ OfVoid(i)
      BY <1>3, <1>4, <1>13, FlawOf DEF n
    <3>. QED BY <1>13, <2>5, <3>1 DEF NullOnTheLeft, OfVoid, n, j, k
  <2>7. Coded(S, j) /\ Coded(S, k) <=> l.ir = LLVM(l.type) /\ r.ir = LLVM(r.type)
    BY <1>6, <1>7, <1>13
  <2>8. l.type.kind \in {"int", "bool", "string", "null", "void", "class", "array"}
    BY <1>6, Kinds
  <2>9. /\ l.type.kind = "null" <=> l.type = T("null")
        /\ r.type.kind = "null" <=> r.type = T("null")
        /\ l.type.kind = "void" <=> l.type = T("void")
    BY <1>6, OfKind
  <2>10. CASE l.type.kind \in {"class", "array", "string"}
    <3>1. r.type = l.type \/ r.type.kind \in {"class", "null"}
      BY <2>4, <2>10 DEF Assignable
    <3>2. Pointer(l.ir) <=> l.ir = LLVM(l.type)
      BY <1>6, <2>10, PointerIs
    <3>3. Pointer(r.ir) <=> r.ir = LLVM(r.type)
      BY <1>6, <2>10, <3>1, PointerIs
    <3>4. Comparable(l, r) <=> Pointer(l.ir) /\ Pointer(r.ir)
      BY <2>10 DEF Comparable
    <3>5. ~Flaw(i)
      BY <2>6, <2>9, <2>10
    <3>. QED BY <1>2, <2>3, <2>7, <3>2, <3>3, <3>4, <3>5
  <2>11. CASE l.type.kind = "null"
    <3>1. r.type.kind \in {"null", "class"}
      BY <2>4, <2>11 DEF Assignable
    <3>2. LLVM(l.type) = I8P /\ (r.type.kind = "null" => LLVM(r.type) = I8P)
      BY <1>6, <2>11, PointerIs
    <3>3. r.type.kind = "class" => LLVM(r.type).kind = "class"
      BY <1>6, PointerIs
    <3>4. Comparable(l, r) <=> l.ir = r.ir /\ l.ir \in {I32, I8P}
      BY <2>11 DEF Comparable
    <3>5. I32.kind = "i32" /\ I8P.kind = "i8*" /\ Empty.kind = "empty" /\ NoCode.kind = "no code"
      BY DEF I32, I8P, Empty, NoCode, T
    <3>6. Flaw(i) <=> r.type.kind # "null"
      BY <2>6, <2>9, <2>11
    <3>7. CASE r.type.kind = "null"
      BY <1>2, <1>6, <2>3, <2>7, <3>2, <3>4, <3>5, <3>6, <3>7
    <3>8. CASE r.type.kind = "class"
      <4>1. r.ir \notin {I32, I8P}
        BY <1>6, <3>3, <3>5, <3>8
      <4>. QED BY <2>3, <3>4, <3>6, <3>8, <4>1
    <3>. QED BY <3>1, <3>7, <3>8
  <2>12. CASE l.type.kind = "void"
    <3>1. LLVM(l.type) = T("void")
      BY <1>6, <2>12, PointerIs
    <3>2. l.ir \notin {I32, I8P}
      <4>1. {T("void"), Empty, NoCode} \cap {I32, I8P} = {}
        BY DEF I32, I8P, Empty, NoCode, T
      <4>. QED BY <1>6, <3>1, <4>1
    <3>3. ~Comparable(l, r)
      BY <2>12, <3>2 DEF Comparable
    <3>. QED BY <2>3, <2>6, <2>9, <2>12, <3>3
  <2>13. CASE l.type.kind \in {"int", "bool"}
    <3>1. r.type = l.type
      BY <2>4, <2>13 DEF Assignable
    <3>2. LLVM(l.type) = I32 /\ LLVM(r.type) = I32
      BY <1>6, <2>13, <3>1, PointerIs
    <3>3. Comparable(l, r) <=> l.ir = r.ir /\ l.ir \in {I32, I8P}
      BY <2>13 DEF Comparable
    <3>4. ~Flaw(i)
      BY <2>6, <2>9, <2>13
    <3>5. l.ir \in {I32, I8P} <=> l.ir = I32
      <4>1. I8P # I32 /\ I8P # Empty /\ I8P # NoCode
        BY DEF I32, I8P, Empty, NoCode, T
      <4>. QED BY <1>6, <3>2, <4>1
    <3>. QED BY <1>2, <2>3, <2>7, <3>2, <3>3, <3>4, <3>5
  <2>. QED BY <2>8, <2>10, <2>11, <2>12, <2>13
<1>. QED BY <1>10, <1>11, <1>12, <1>13 DEF BinaryOps, n

(* The arguments that are passed are those that have values.               *)
LEMMA ArgsPass ==
  ASSUME NEW S, NEW U, Parts(S, U), Ended, ~failed, NEW i \in 2..Len(nodes),
         nodes[i].op \in CallOps, NEW off \in {0, 1}, off = 0 <=> nodes[i].op = "localCall",
         NEW args, Len(args) = Len(S[i]) - off,
         \A x \in 1..Len(args) : args[x] = S[i][x + off],
         Takes(i, Typing, off, nodes[i].of.args)
  PROVE  (\A x \in 1..Len(args) : Passes(args[x].ir, nodes[i].of.args[x]))
         <=> \A x \in 1..Len(args) : Coded(S, Kid(i, x + off))
<1>. DEFINE n == nodes[i]
            m == n.of
<1>1. i \in 1..Len(nodes)
  BY FrameFacts
<1>2. Written(n) /\ Len(S[i]) \in Nat /\ Len(S[i]) <= Arity(n)
  BY <1>1, NodeFacts DEF Parts, Heard
<1>3. n.given \in Nat /\ m \in Callees
  BY <1>2 DEF Written, CallOps
<1>4. DOMAIN m.args = 1..Len(m.args) /\ \A x \in 1..Len(m.args) : m.args[x] \in Type
  BY <1>3, CalleeHas
<1>5. n.given = Len(m.args)
  BY DEF Takes
<1>6. Arity(n) = n.given + off
  BY <1>3 DEF Arity, CallOps, LeafOps
<1>. HIDE DEF n, m
<1>7. ASSUME NEW x \in 1..Len(args)
      PROVE  Passes(args[x].ir, m.args[x]) <=> Coded(S, Kid(i, x + off))
  <2>1. x + off \in 1..Len(S[i]) /\ x \in 1..Len(m.args) /\ off + x = x + off
    BY <1>2, <1>3, <1>5, <1>6
  <2>2. ~(x + off = 1 /\ n.op \in Selecting)
    <3>1. CASE off = 0
      BY <3>1 DEF n, Selecting
    <3>2. CASE off = 1
      BY <3>2
    <3>. QED BY <3>1, <3>2
  <2>3. n.op \notin {"paren", "expression", "logical"}
    BY DEF CallOps, n
  <2>. DEFINE a == S[i][x + off]
  <2>4. /\ a.type \in Type /\ a.ir \in {LLVM(a.type), Empty, NoCode}
        /\ Typing[Kid(i, x + off)] = a.type
        /\ Coded(S, Kid(i, x + off)) <=> a.ir = LLVM(a.type)
    BY <1>1, <2>1, <2>2, <2>3, KidValue DEF n
  <2>5. Assignable(a.type, m.args[x])
    BY <1>4, <2>1, <2>4 DEF Takes, n, m
  <2>6. args[x] = a
    OBVIOUS
  <2>. HIDE DEF a
  <2>7. Passes(a.ir, m.args[x]) <=> a.ir = LLVM(a.type)
    BY <1>4, <2>1, <2>4, <2>5, PassesIs
  <2>. QED BY <2>4, <2>6, <2>7
<1>. QED BY <1>7 DEF n, m

LEMMA CallValueIs ==
  ASSUME NEW m \in Callees, NEW object \in BOOLEAN, NEW args
  PROVE  /\ CallValue(m, object, args) \in {LLVM(m.type), NoCode}
         /\ CallValue(m, object, args) = LLVM(m.type) <=>
              /\ (object /\ ~m.static) \/ (~object /\ m.own)
              /\ \A x \in 1..Len(args) : Passes(args[x].ir, m.args[x])
              /\ ~(HasUndeclared(m.type) \/ \E a \in DOMAIN m.args : HasUndeclared(m.args[a]))
<1>. DEFINE goes == /\ IF object THEN ~m.static ELSE m.own
                    /\ \A a \in DOMAIN m.args : ~HasUndeclared(m.args[a])
                    /\ \A x \in 1..Len(args) : Passes(args[x].ir, m.args[x])
<1>1. m.type \in Type
  BY CalleeHas
<1>2. LLVM(m.type) # NoCode /\ Value(m.type) \in {LLVM(m.type), NoCode}
      /\ (Value(m.type) = LLVM(m.type) <=> ~HasUndeclared(m.type))
  BY <1>1, LLVMTypes, UndeclaredValue, BasicTypes
<1>3. CallValue(m, object, args) = IF goes THEN Value(m.type) ELSE NoCode
  BY DEF CallValue, Provided
<1>4. goes <=> /\ (object /\ ~m.static) \/ (~object /\ m.own)
               /\ \A a \in DOMAIN m.args : ~HasUndeclared(m.args[a])
               /\ \A x \in 1..Len(args) : Passes(args[x].ir, m.args[x])
  OBVIOUS
<1>. HIDE DEF goes
<1>5. CallValue(m, object, args) = LLVM(m.type) <=> goes /\ ~HasUndeclared(m.type)
  BY <1>2, <1>3
<1>. QED BY <1>2, <1>3, <1>4, <1>5

LEMMA CodedLocalCall ==
  ASSUME NEW S, NEW U, Parts(S, U), Ended, ~failed, NEW i \in 2..Len(nodes),
         nodes[i].op = "localCall"
  PROVE  Coded(S, i) <=> KidsCoded(S, i) /\ ~Flaw(i)
<1>. DEFINE n == nodes[i]
            m == n.of
            a == Answer(n, S[i])
            object == ~static
            value == CallValue(m, object, S[i])
            unnamed == \/ HasUndeclared(m.type)
                       \/ \E p \in DOMAIN m.args : HasUndeclared(m.args[p])
            pass == \A x \in 1..Len(S[i]) : Passes(S[i][x].ir, m.args[x])
<1>1. i \in 1..Len(nodes) /\ Written(n)
  <2>1. i \in 1..Len(nodes)
    BY FrameFacts
  <2>. QED BY <2>1, NodeFacts
<1>2. m \in Callees /\ m.type \in Type /\ m.static \in BOOLEAN /\ m.own \in BOOLEAN
  BY <1>1, CalleeHas, ExpressionsAssumption DEF Written, Callee
<1>3. Rule(i, Typing, OfName(i)) # Error /\ static \in BOOLEAN
  BY <1>1, AcceptedNode
<1>4. m.is = "method" /\ Takes(i, Typing, 0, m.args)
  BY <1>3, RuleOfCall
<1>5. /\ ~a.bad
      /\ Coded(S, i) <=> a.ir = LLVM(a.type)
  BY NodeCoded
<1>6. a = R(m.type, FALSE, value)
  <2>1. a = IF MayCall(m, TRUE, FALSE) /\ Args(m, n.given, S[i]) THEN R(m.type, FALSE, value) ELSE Bad
    BY DEF Answer, LocalCall, Call
  <2>2. Bad.bad
    BY DEF Bad, R
  <2>. QED BY <1>5, <2>1, <2>2
<1>7. a.type = m.type /\ a.ir = value
  BY <1>6 DEF R
<1>8. KidsCoded(S, i) <=> pass
  <2>1. Len(S[i]) \in Nat
    BY <1>1, NodeFacts
  <2>2. Len(S[i]) = Len(S[i]) - 0 /\ \A x \in 1..Len(S[i]) : x = x + 0
    BY <2>1
  <2>3. pass <=> \A x \in 1..Len(S[i]) : Coded(S, Kid(i, x + 0))
    BY <1>4, <2>2, ArgsPass DEF CallOps
  <2>. QED BY <2>2, <2>3 DEF KidsCoded
<1>9. Flaw(i) <=> (static /\ ~m.own) \/ (~static /\ m.static) \/ unnamed
  BY <1>2, <1>4, FlawOfCall DEF CallOps
<1>. HIDE DEF n, m, a
<1>10. object \in BOOLEAN
  OBVIOUS
<1>11. value = LLVM(m.type) <=> /\ (object /\ ~m.static) \/ (~object /\ m.own)
                                /\ pass /\ ~unnamed
  <2>. HIDE DEF object
  <2>. QED BY <1>2, <1>10, CallValueIs
<1>12. (object /\ ~m.static) \/ (~object /\ m.own) <=>
          ~((static /\ ~m.own) \/ (~static /\ m.static))
  BY <1>2, <1>3
<1>. HIDE DEF value, unnamed, pass, object
<1>. QED BY <1>5, <1>7, <1>8, <1>9, <1>11, <1>12

LEMMA CodedVarCall ==
  ASSUME NEW S, NEW U, Parts(S, U), Ended, ~failed, NEW i \in 2..Len(nodes),
         nodes[i].op = "varCall"
  PROVE  Coded(S, i) <=> KidsCoded(S, i) /\ ~Flaw(i)
<1>. DEFINE n == nodes[i]
            m == n.of
            a == Answer(n, S[i])
            e == S[i][1]
            j == Kid(i, 1)
            w == Typing[j]
            args == Tail(S[i])
<1>1. i \in 1..Len(nodes) /\ Written(n)
  <2>1. i \in 1..Len(nodes)
    BY FrameFacts
  <2>. QED BY <2>1, NodeFacts
<1>2. /\ m \in Callees /\ m.type \in Type /\ m.static \in BOOLEAN /\ m.own \in BOOLEAN
      /\ n.given \in Nat
  BY <1>1, CalleeHas, ExpressionsAssumption DEF Written, Callee
<1>3. Rule(i, Typing, OfName(i)) # Error /\ static \in BOOLEAN
  BY <1>1, AcceptedNode
<1>4. /\ ~a.bad
      /\ Coded(S, i) <=> a.ir = LLVM(a.type)
  BY NodeCoded
<1>5. /\ S[i] \in Seq(Answers) /\ Len(S[i]) \in Nat /\ Len(S[i]) <= n.given + 1
      /\ 1 \in 1..Len(S[i])
  <2>1. Arity(n) = n.given + 1
    BY DEF Arity, LeafOps
  <2>2. 1 \in 1..Len(S[i])
    BY <1>1, Finished DEF LeafOps
  <2>. QED BY <1>1, <2>1, <2>2, NodeFacts DEF Parts, Heard
<1>6. Len(args) = Len(S[i]) - 1 /\ \A x \in 1..Len(args) : args[x] = S[i][x + 1]
  <2>1. S[i] # <<>>
    BY <1>5, EmptySeq
  <2>. QED BY <1>5, <2>1, HeadTailProperties
<1>7. /\ e.type \in Type /\ e.ir \in {LLVM(e.type), Empty, NoCode} /\ e.cls \in BOOLEAN
      /\ e.cls <=> nodes[j].op = "name"
      /\ e.cls => e.type.kind = "class"
      /\ w = IF e.cls THEN NameType(e.type.of) ELSE e.type
      /\ e.cls => Coded(S, j)
      /\ ~e.cls => (Coded(S, j) <=> e.ir = LLVM(e.type))
  <2>1. n.op \in Selecting /\ n.op \notin {"paren", "expression", "logical"}
    BY DEF Selecting
  <2>2. /\ e.cls <=> nodes[j].op = "name"
        /\ e.cls => e.type.kind = "class"
    BY <1>1, <1>5, KidCoded
  <2>. QED BY <1>1, <1>5, <2>1, <2>2, KidValue
<1>8. ByName(i) <=> e.cls
  BY <1>7 DEF ByName
<1>9. KidsCoded(S, i) <=> Coded(S, j) /\ \A x \in 1..Len(args) : Coded(S, Kid(i, x + 1))
  <2>1. \A y \in 1..Len(S[i]) : y = 1 \/ (y - 1 \in 1..Len(args) /\ y = (y - 1) + 1)
    BY <1>5, <1>6
  <2>2. \A x \in 1..Len(args) : x + 1 \in 1..Len(S[i])
    BY <1>5, <1>6
  <2>. QED BY <1>5, <2>1, <2>2 DEF KidsCoded
<1>10. a = VarCall(m, n.given, e, args) /\ e.type # Error
  BY <1>7, Kinds DEF Answer
<1>11. (m.is = "length" /\ w.kind = "array") \/ (m.is = "method" /\ Takes(i, Typing, 1, m.args))
  BY <1>3, RuleOfCall
<1>12. LLVM(e.type) # NoCode /\ I32 # NoCode
  BY <1>7, LLVMTypes DEF I32, NoCode, T
<1>13. CASE IsLength(m, e)
  <2>1. e.type.kind = "array" /\ m.is = "length" /\ ~e.cls
    BY <1>7, <1>13 DEF IsLength
  <2>. DEFINE bad == n.given > 0
  <2>2. a = R(IntType, bad, ArrayLength(e))
    <3>. HIDE DEF m, a, e, args, w, j, n
    <3>. QED BY <1>10, <1>13, <2>1 DEF VarCall, IntType
  <2>3. a.type = IntType /\ a.ir = ArrayLength(e) /\ ~(n.given > 0)
    <3>1. ~a.bad
      BY <1>4
    <3>. HIDE DEF a, bad
    <3>2. a.type = IntType /\ a.ir = ArrayLength(e) /\ ~bad
      BY <2>2, <3>1 DEF R
    <3>. QED BY <3>2 DEF bad
  <2>4. 1..Len(args) = {}
    BY <1>2, <1>5, <1>6, <2>3
  <2>5. ArrayLength(e) = I32 <=> Pointer(e.ir)
    BY <1>12 DEF ArrayLength, Provided
  <2>6. Pointer(e.ir) <=> e.ir = LLVM(e.type)
    BY <1>7, <2>1, PointerIs
  <2>7. ~Flaw(i)
    BY <1>2, <2>1, FlawOfCall DEF CallOps
  <2>. QED BY <1>4, <1>7, <1>9, <2>1, <2>3, <2>4, <2>5, <2>6, <2>7, BasicTypes
<1>14. CASE ~IsLength(m, e) /\ e.type.kind = "class"
  <2>. DEFINE found == e.cls \/ Pointer(e.ir)
              ok == MayCall(m, FALSE, e.cls) /\ Args(m, n.given, args)
              object == ~e.cls
              value == CallValue(m, ~e.cls, args)
              unnamed == \/ HasUndeclared(m.type)
                         \/ \E p \in DOMAIN m.args : HasUndeclared(m.args[p])
              pass == \A x \in 1..Len(args) : Passes(args[x].ir, m.args[x])
  <2>1. /\ ok => a = R(m.type, FALSE, Provided(found, value))
        /\ ~ok => a = R(Error, TRUE, Provided(found, NoCode))
    <3>. HIDE DEF m, a, e, args, w, j, n
    <3>1. /\ ok => VarCall(m, n.given, e, args) = R(m.type, FALSE, Provided(found, value))
          /\ ~ok => VarCall(m, n.given, e, args) = R(Error, TRUE, Provided(found, NoCode))
      BY <1>10, <1>14, VarCallIs
    <3>. QED BY <1>10, <3>1
  <2>2. a.type = m.type /\ a.ir = Provided(found, value)
    <3>. HIDE DEF ok, found, value, a
    <3>1. ok
      <4>1. ASSUME ~ok PROVE FALSE
        <5>1. a = R(Error, TRUE, Provided(found, NoCode))
          BY <2>1, <4>1
        <5>. QED BY <1>4, <5>1 DEF R
      <4>. QED BY <4>1
    <3>2. a = R(m.type, FALSE, Provided(found, value))
      BY <2>1, <3>1
    <3>. QED BY <3>2 DEF R
  <2>3. m.is = "method" /\ Takes(i, Typing, 1, m.args)
    BY <1>7, <1>11, <1>14 DEF NameType
  <2>4. pass <=> \A x \in 1..Len(args) : Coded(S, Kid(i, x + 1))
    <3>1. nodes[i].op \in CallOps /\ 1 \in {0, 1} /\ (1 = 0 <=> nodes[i].op = "localCall")
      BY DEF CallOps
    <3>2. Takes(i, Typing, 1, nodes[i].of.args)
      BY <2>3
    <3>. HIDE DEF args
    <3>3. (\A x \in 1..Len(args) : Passes(args[x].ir, nodes[i].of.args[x]))
          <=> \A x \in 1..Len(args) : Coded(S, Kid(i, x + 1))
      BY <1>6, <3>1, <3>2, ArgsPass
    <3>. QED BY <3>3
  <2>5. Coded(S, j) <=> found
    <3>1. Pointer(e.ir) <=> e.ir = LLVM(e.type)
      BY <1>7, <1>14, PointerIs
    <3>. QED BY <1>7, <3>1
  <2>6. Flaw(i) <=> (e.cls /\ ~m.own) \/ (~e.cls /\ m.static) \/ unnamed
    BY <1>2, <1>8, <2>3, FlawOfCall DEF CallOps
  <2>. HIDE DEF n, m, a, e, j, w, args
  <2>7. object \in BOOLEAN
    OBVIOUS
  <2>8. /\ value \in {LLVM(m.type), NoCode}
        /\ value = LLVM(m.type) <=> /\ (object /\ ~m.static) \/ (~object /\ m.own)
                                    /\ pass /\ ~unnamed
    <3>1. value = CallValue(m, object, args)
      OBVIOUS
    <3>. HIDE DEF object, value
    <3>. QED BY <1>2, <2>7, <3>1, CallValueIs
  <2>9. (object /\ ~m.static) \/ (~object /\ m.own) <=>
           ~((e.cls /\ ~m.own) \/ (~e.cls /\ m.static))
    BY <1>2, <1>7
  <2>10. LLVM(m.type) # NoCode
    BY <1>2, LLVMTypes
  <2>. HIDE DEF found, value, unnamed, pass, object, ok
  <2>11. a.ir = LLVM(m.type) <=> found /\ value = LLVM(m.type)
    BY <2>2, <2>10 DEF Provided
  <2>. QED BY <1>4, <1>9, <2>2, <2>4, <2>5, <2>6, <2>8, <2>9, <2>11
<1>15. CASE ~IsLength(m, e) /\ e.type.kind # "class"
  <2>1. a = Bad
    BY <1>10, <1>15 DEF VarCall
  <2>. QED BY <1>4, <2>1 DEF Bad, R
<1>. QED BY <1>13, <1>14, <1>15

LEMMA StatementCoded ==
  ASSUME NEW S, NEW U, Parts(S, U), Ended, ~failed
  PROVE  HasCode(nodes[1], S[1]) <=> KidsCoded(S, 1) /\ ~Flaw(1)
<1>. DEFINE n == nodes[1]
            e == S[1][1]
            r == S[1][2]
            j == Kid(1, 1)
            k == Kid(1, 2)
            v == Typing[j]
            w == Typing[k]
            rule == Rule(1, Typing, OfName(1))
<1>1. 1 \in 1..Len(nodes) /\ Written(n) /\ n.op \in StatementOps
  <2>1. 1 \in 1..Len(nodes)
    BY FrameFacts
  <2>. QED BY <2>1, NodeFacts
<1>2. n.op \notin CallOps /\ n.op \notin Selecting /\ n.op \notin {"paren", "logical"}
  BY <1>1 DEF StatementOps, CallOps, Selecting
<1>3. /\ 1 \in 1..Len(S[1])
      /\ n.op # "assign" => (KidsCoded(S, 1) <=> Coded(S, j))
      /\ n.op = "assign" => 2 \in 1..Len(S[1]) /\ (KidsCoded(S, 1) <=> Coded(S, j) /\ Coded(S, k))
  BY <1>1, KidsCodedIs
<1>4. rule # Error /\ Used[1] \in BOOLEAN
  BY <1>1, AcceptedNode
<1>5. /\ e.type \in Type /\ e.ir \in {LLVM(e.type), Empty, NoCode} /\ v = e.type
      /\ n.op # "expression" => (Coded(S, j) <=> e.ir = LLVM(e.type))
      /\ Coded(S, j) <=> e.ir = LLVM(e.type) \/ (e.ir = Empty /\ ~Used[j])
  BY <1>1, <1>2, <1>3, KidCoded, KidValue
<1>6. /\ LLVM(e.type) # Empty /\ LLVM(e.type) # NoCode /\ Empty # NoCode
      /\ I32 \notin {Empty, NoCode} /\ I8P \notin {Empty, NoCode}
  BY <1>5, PointerIs DEF I32, I8P, Empty, NoCode, T
<1>7. VarTypes \subseteq Type /\ T("void") \in Type
  BY ExpressionsAssumption DEF Type, Element
<1>. HIDE DEF n, e, r, j, k, v, w, rule
<1>8. n.op \in {"assign", "print", "condition", "expression"} => ~Flaw(1)
  BY <1>2, <1>4, FlawOf DEF n
<1>9. CASE n.op = "assign"
  <2>1. /\ r.type \in Type /\ r.ir \in {LLVM(r.type), Empty, NoCode} /\ w = r.type
        /\ Coded(S, k) <=> r.ir = LLVM(r.type)
    BY <1>1, <1>2, <1>3, <1>9, KidValue DEF n, r, k, w
  <2>2. Assignable(r.type, e.type)
    BY <1>4, <1>5, <1>9, <2>1, RuleOfStatement DEF n, v, w, j, k, rule
  <2>3. e.ir # Empty
    <3>1. /\ j \in 2..Len(nodes) /\ nodes[j].parent = 1 /\ nodes[j].nth = 1
          /\ Answered(S, j) = e
      BY <1>1, <1>3, KidsAre DEF j, e
    <3>2. Right(S, U, j) /\ Place(j)
      BY <3>1, TreeEnds DEF Parts, Shape
    <3>3. nodes[j].op \in {"variable", "field", "varSel", "index"}
      BY <1>9, <3>1, <3>2 DEF Place, n
    <3>. QED BY <3>1, <3>2, <3>3 DEF Right
  <2>4. LLVM(r.type) # Empty /\ LLVM(r.type) # NoCode
    BY <2>1, LLVMTypes
  <2>5. ~Pointer(Empty) /\ ~Pointer(NoCode)
    BY DEF Pointer, Empty, NoCode, T, I8P
  <2>6. HasCode(n, S[1]) <=> (r.ir = e.ir /\ e.ir # NoCode) \/ (Pointer(r.ir) /\ Pointer(e.ir))
    BY <1>9 DEF HasCode, AssignCode, e, r
  <2>7. r.ir = LLVM(r.type) /\ e.ir = LLVM(e.type) =>
          r.ir = e.ir \/ (Pointer(r.ir) /\ Pointer(e.ir))
    <3>1. Passes(LLVM(r.type), e.type)
      BY <1>5, <2>1, <2>2, PassesIs
    <3>. QED BY <3>1 DEF Passes
  <2>8. HasCode(n, S[1]) <=> r.ir = LLVM(r.type) /\ e.ir = LLVM(e.type)
    BY <1>5, <1>6, <2>1, <2>3, <2>4, <2>5, <2>6, <2>7
  <2>. QED BY <1>3, <1>5, <1>8, <1>9, <2>1, <2>8 DEF n
<1>10. CASE n.op \in {"init", "return"}
  <2>1. n.of \in Type
    BY <1>1, <1>7, <1>10 DEF Written
  <2>2. Assignable(e.type, n.of)
    BY <1>4, <1>5, <1>10, RuleOfStatement DEF n, v, j, rule
  <2>3. Passes(e.ir, n.of) <=> e.ir = LLVM(e.type)
    BY <1>5, <2>1, <2>2, PassesIs
  <2>4. CASE n.op = "init"
    <3>1. HasCode(n, S[1]) <=> Passes(e.ir, n.of) /\ ~HasUndeclared(n.of)
      BY <2>4 DEF HasCode, InitCode, e
    <3>2. Flaw(1) <=> HasUndeclared(n.of)
      BY <1>2, <1>4, <2>4, FlawOf DEF n
    <3>. QED BY <1>3, <1>5, <2>3, <2>4, <3>1, <3>2 DEF n
  <2>5. CASE n.op = "return"
    <3>1. HasCode(n, S[1]) <=> Passes(e.ir, n.of) /\ ~HasUndeclared(n.of) /\ n.of # T("void")
      BY <2>5 DEF HasCode, ReturnCode, e
    <3>2. Flaw(1) <=> HasUndeclared(n.of) \/ n.of = T("void")
      BY <1>2, <1>4, <2>5, FlawOf DEF n
    <3>. QED BY <1>3, <1>5, <2>3, <2>5, <3>1, <3>2 DEF n
  <2>. QED BY <1>10, <2>4, <2>5
<1>11. CASE n.op = "print"
  <2>1. v \in {IntType, BoolType, T("string")}
    BY <1>4, <1>11, RuleOfStatement DEF n, v, j, rule
  <2>2. LLVM(e.type) \in {I32, I8P}
    BY <1>5, <2>1, BasicTypes
  <2>3. HasCode(n, S[1]) <=> e.ir \in {I32, I8P}
    BY <1>11 DEF HasCode, PrintCode, e
  <2>. QED BY <1>3, <1>5, <1>6, <1>8, <1>11, <2>2, <2>3 DEF n
<1>12. CASE n.op = "condition"
  <2>1. v = BoolType
    BY <1>4, <1>12, RuleOfStatement DEF n, v, j, rule
  <2>2. LLVM(e.type) = I32
    BY <1>5, <2>1, BasicTypes
  <2>3. HasCode(n, S[1]) <=> e.ir = I32
    BY <1>12 DEF HasCode, TestCode, e
  <2>. QED BY <1>3, <1>5, <1>6, <1>8, <1>12, <2>2, <2>3 DEF n
<1>13. CASE n.op = "expression"
  <2>1. ~Used[j]
    BY <1>1, <1>3, <1>13, UsedKid DEF j, n
  <2>2. HasCode(n, S[1]) <=> e.ir # NoCode
    BY <1>13 DEF HasCode, e
  <2>. QED BY <1>3, <1>5, <1>6, <1>8, <1>13, <2>1, <2>2 DEF n
<1>. QED BY <1>1, <1>9, <1>10, <1>11, <1>12, <1>13 DEF StatementOps

LEMMA PartsGenerateExactly ==
  ASSUME NEW S, NEW U, Parts(S, U)
  PROVE  GeneratesExactly
<1>1. SUFFICES ASSUME Ended, ~failed
               PROVE  state = "generated" <=> \A i \in DOMAIN nodes : ~Flaw(i)
  BY DEF GeneratesExactly, Flaw
<1>2. Len(nodes) \in Nat /\ DOMAIN nodes = 1..Len(nodes) /\ 1 \in 1..Len(nodes)
  BY FrameFacts, LenProperties DEF Parts, Typed
<1>3. state = "generated" <=> KidsCoded(S, 1) /\ ~Flaw(1)
  BY <1>1, TreeEnds, StatementCoded
<1>4. ASSUME NEW i \in 2..Len(nodes)
      PROVE  Coded(S, i) <=> KidsCoded(S, i) /\ ~Flaw(i)
  <2>1. i \in 1..Len(nodes)
    BY <1>2
  <2>2. nodes[i].op \in LeafOps \cup UnaryOps \cup BinaryOps \cup CallOps
    BY <2>1, NodeFacts
  <2>3. nodes[i].op \in CallOps => Coded(S, i) <=> KidsCoded(S, i) /\ ~Flaw(i)
    BY <1>1, CodedLocalCall, CodedVarCall DEF CallOps
  <2>. QED BY <1>1, <2>2, <2>3, CodedLeaf, CodedUnary, CodedBinary
<1>5. ASSUME KidsCoded(S, 1), ~Flaw(1)
      PROVE  \A i \in 1..Len(nodes) : ~Flaw(i)
  <2>. DEFINE F == {i \in 1..Len(nodes) : KidsCoded(S, i) /\ ~Flaw(i)}
  <2>1. ASSUME NEW i \in 1..Len(nodes), \A p \in 1..(i - 1) : p \in F PROVE i \in F
    <3>1. CASE i = 1
      BY <1>5, <3>1
    <3>2. CASE i # 1
      <4>. DEFINE p == nodes[i].parent
      <4>1. p \in 1..(i - 1) /\ i \in 2..Len(nodes)
        BY <3>2, NodeFacts
      <4>2. KidsCoded(S, p) /\ p \in 1..Len(nodes) /\ i \in Kids(p)
        BY <1>2, <2>1, <4>1 DEF Kids
      <4>3. nodes[i].nth \in 1..Len(S[p]) /\ i = Kid(p, nodes[i].nth)
        BY <1>1, <4>2, KidsHave
      <4>4. Coded(S, i)
        BY <4>2, <4>3 DEF KidsCoded
      <4>. QED BY <1>4, <4>1, <4>4
    <3>. QED BY <3>1, <3>2
  <2>2. \A i \in 1..Len(nodes) : i \in F
    <3>. HIDE DEF F
    <3>. QED BY <1>2, <2>1, Forward
  <2>. QED BY <2>2
<1>6. ASSUME \A i \in 1..Len(nodes) : ~Flaw(i)
      PROVE  KidsCoded(S, 1)
  <2>. DEFINE F == {i \in 2..Len(nodes) : Coded(S, i)}
  <2>1. ASSUME NEW i \in 1..Len(nodes), \A q \in 2..Len(nodes) : i < q => q \in F
        PROVE  KidsCoded(S, i)
    BY <1>1, <2>1, KidsAre DEF KidsCoded
  <2>2. ASSUME NEW i \in 2..Len(nodes), \A q \in 2..Len(nodes) : i < q => q \in F
        PROVE  i \in F
    <3>1. i \in 1..Len(nodes)
      BY <1>2
    <3>2. KidsCoded(S, i)
      BY <2>1, <2>2, <3>1
    <3>. QED BY <1>4, <1>6, <3>1, <3>2
  <2>3. \A i \in 2..Len(nodes) : i \in F
    <3>. HIDE DEF F
    <3>. QED BY <1>2, <2>2, Backward
  <2>. QED BY <1>2, <2>1, <2>3
<1>. QED BY <1>2, <1>3, <1>5, <1>6

(* CodeGenVisitor generates an accepted statement, of any size, exactly    *)
(* when none of its nodes is among the gaps that GeneratesExactly names:   *)
(* everywhere else every value has the LLVM type its use wants.            *)
THEOREM CodeGeneratorIsExact == Spec => []GeneratesExactly
<1>1. ExpressionsInv => GeneratesExactly
  BY PartsGenerateExactly DEF ExpressionsInv
<1>. QED BY <1>1, ExpressionsInvariant, PTL
=============================================================================
