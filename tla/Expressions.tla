---------------------------- MODULE Expressions -----------------------------
(***************************************************************************)
(* The expression visitors of TypeChecker and CodeGenVisitor over one      *)
(* statement.  Its tree grows in the order in which TypeChecker visits it: *)
(* "nodes" are its nodes, "frames" the visitors that are active, each with *)
(* what the subexpressions visited so far have returned.                   *)
(*                                                                         *)
(* TypeChecker returns a type and keeps it for the node; allowClassName is *)
(* one flag for the visitor, set while a prefix "expr." is visited.        *)
(* CodeGenVisitor, which only runs when nothing was reported, returns an   *)
(* LLVM value, known here by its type.  What it would return is followed   *)
(* at once: it depends on the subexpressions only.                         *)
(*                                                                         *)
(* What a name stands for is chosen where it is used, as the lookups would *)
(* find it (Names, MemberTable); "this class" is visible as a class only.  *)
(* Arrays have one dimension.  The names of classes are not also those of  *)
(* variables.                                                              *)
(***************************************************************************)
EXTENDS Hierarchy, SequencesExt

CONSTANTS
  Undeclared,   \* a class name that no class has
  VarTypes,     \* the types of the variables and fields that occur
  ElementTypes, \* the types of elements in "new" for an array
  Callees,      \* what the lookup of a member finds
  MaxNodes      \* bound on the size of the statement

T(kind) == [kind |-> kind, of |-> NoBase]
Class(c) == [kind |-> "class", of |-> c]
Array(t) == [kind |-> "array", of |-> t]

Literals == {T(k) : k \in {"int", "bool", "string", "null"}}
Element == Literals \cup {T("void")} \cup {Class(c) : c \in Name \cup {Undeclared}}
Type == Element \cup {Array(t) : t \in Element}
Error == T("error")
Unset == T("unset")

(* A method with its parameters and result; "own" if the class in which it *)
(* is looked up declares it itself.  Or a field, the name "length", or no  *)
(* member.                                                                 *)
Callee == [is : {"method", "length", "field", "nothing"}, static : BOOLEAN,
           own : BOOLEAN, args : Seq(Type), type : Type]

ASSUME ExpressionsAssumption ==
  /\ Undeclared \notin Name \cup {NoBase}
  /\ VarTypes \subseteq Type \ {T("void"), T("null")}
  /\ ElementTypes \subseteq Element \ {T("null")}
  /\ Callees \subseteq Callee
  /\ MaxNodes \in Nat

VARIABLES
  base,        \* BaseChecker::bases
  curClass, static,   \* the class of the method, and whether it is static
  nodes,       \* the nodes of the tree so far, by first visit
  frames,      \* the visitors that are active, the innermost last
  allow,       \* allowClassName
  exprTypes,   \* ASTAttrManager::exprTypes, by node
  failed,      \* typeFailed
  state        \* "visiting", or what became of the statement

method == <<base, curClass, static>>
vars == <<method, nodes, frames, allow, exprTypes, failed, state>>

(* What CodeGenVisitor returns: a value of an LLVM type; or an empty Any,  *)
(* of which a caller that wants a value makes an exception; or no code at  *)
(* all, as it crashes or what it emits is not valid.                       *)
I32 == T("i32")
I8P == T("i8*")
Empty == T("empty")
NoCode == T("no code")

LLVMElement(t) ==
  CASE t.kind \in {"int", "bool"} -> I32
    [] t.kind \in {"string", "null"} -> I8P
    [] OTHER -> t
LLVM(t) == IF t.kind = "array" THEN Array(LLVMElement(t.of)) ELSE LLVMElement(t)

(* getLLVMType finds no struct for a class that is not declared, and then  *)
(* dereferences the null pointer.                                          *)
HasUndeclared(t) == t \in {Class(Undeclared), Array(Class(Undeclared))}
Value(t) == IF HasUndeclared(t) THEN NoCode ELSE LLVM(t)

Pointer(ir) == ir = I8P \/ ir.kind \in {"class", "array"}
Provided(condition, ir) == IF condition THEN ir ELSE NoCode

(* A visitor's answers: TypeChecker's type, whether it reports an error,   *)
(* whether the expression is marked as a class name, CodeGenVisitor's      *)
(* value.                                                                  *)
R(type, bad, ir) == [type |-> type, bad |-> bad, cls |-> FALSE, ir |-> ir]
Bad == R(Error, TRUE, NoCode)

-----------------------------------------------------------------------------
(* Type::compare yields SAMETYPE or SUBTYPE.  An array is only compatible  *)
(* with its own type, not with null.                                       *)
SubClass(c, d) == c = d \/ (c \in Name /\ d \in Ancestors(base, c))

IsCompat(a, b) ==
  \/ Error \in {a, b}
  \/ a.kind = "class" /\ b.kind = "class" /\ SubClass(a.of, b.of)
  \/ a.kind = "null" /\ b.kind = "class"
  \/ a = b

Is(e, kind) == e.type.kind \in {kind, "error"}

(* checkVar: the name of a class, as long as the flag is up.               *)
ClassName(c) ==
  IF allow THEN [type |-> Class(c), bad |-> FALSE, cls |-> TRUE, ir |-> NoCode] ELSE Bad

(* checkVar and getVarValue.                                               *)
Variable(t) == R(t, FALSE, Value(t))
Field(t) == IF static THEN Bad ELSE Variable(t)
This == IF static THEN Bad ELSE Variable(Class(curClass))

(* _dcf_ALLOCATE's result, cast to a pointer to the class's struct.        *)
Allocated(c) == Class(c)
New(c) == IF c \in Name THEN R(Class(c), FALSE, Allocated(c)) ELSE Bad

(* CodeGenVisitor has no visitors for these: the default one visits the    *)
(* children and returns what the last of them, a token, does.              *)
Read(t) == R(t, FALSE, Empty)
Paren(e) == R(e.type, FALSE, Provided(e.ir # NoCode, Empty))

(* Both operands are checked at once, and not when one is an error.        *)
BadOperands(kind, l, r) ==
  Error \notin {l.type, r.type} /\ {l.type, r.type} # {T(kind)}

(* The default visitor again: it returns the value of the right operand.   *)
Logical(l, r) ==
  R(T("bool"), BadOperands("bool", l, r), Provided(l.ir # NoCode, r.ir))

(* One LLVM instruction, or one and a select.                              *)
UnaryValue(e) == Provided(e.ir = I32, I32)
BinaryValue(l, r) == Provided({l.ir, r.ir} = {I32}, I32)

Minus(e) == R(T("int"), ~Is(e, "int"), UnaryValue(e))
Not(e) == R(T("bool"), ~Is(e, "bool"), UnaryValue(e))

Arithmetic(l, r) == R(T("int"), BadOperands("int", l, r), BinaryValue(l, r))
Relation(l, r) == R(T("bool"), BadOperands("int", l, r), BinaryValue(l, r))

(* Objects and arrays: the difference of the pointers.  Strings: a call of *)
(* the library.  Anything else, null on the left too: an instruction, for  *)
(* two values of one type.                                                 *)
Comparable(l, r) ==
  IF l.type.kind \in {"class", "array", "string"} THEN Pointer(l.ir) /\ Pointer(r.ir)
  ELSE l.ir = r.ir /\ l.ir \in {I32, I8P}

Equality(l, r) ==
  R(T("bool"),
    ~IsCompat(l.type, r.type) /\ ~IsCompat(r.type, l.type),
    Provided(Comparable(l, r), I32))

(* The object's first word is loaded and its tables are walked.            *)
InstanceOfValue(e) == Provided(Pointer(e.ir), I32)
InstanceOf(c, e) ==
  R(T("bool"), ~Is(e, "class") \/ c \notin Name, InstanceOfValue(e))

CastValue(c, e) == Provided(Pointer(e.ir), Class(c))
Cast(c, e) == R(Class(c), ~Is(e, "class") \/ c \notin Name, CastValue(c, e))

(* "new void[n]" is not rejected, though the type void[] is.               *)
ArrayNewValue(t, e) == Provided(e.ir = I32 /\ t # T("void"), Value(Array(t)))
ArrayNew(t, e) == R(Array(t), ~Is(e, "int"), ArrayNewValue(t, e))

ArrayLength(a) == Provided(Pointer(a.ir), I32)

IndexValue(element, a, e) ==
  Provided(ArrayLength(a) = I32 /\ e.ir = I32, LLVM(element))
Index(a, e) ==
  LET element == IF a.type.kind = "array" THEN a.type.of ELSE Error IN
  R(element, ~Is(a, "array") \/ ~Is(e, "int"), IndexValue(element, a, e))

(* checkVarSel and getVarSelValue, of the member that is found.            *)
VarSelValue(found, e) == Provided(Pointer(e.ir), Value(found.type))
VarSel(found, e) ==
  IF e.type = Error THEN R(Error, FALSE, NoCode)
  ELSE IF \/ e.cls \/ e.type.kind # "class" \/ ~IsCompat(Class(curClass), e.type)
          \/ found.is # "field" \/ static
       THEN Bad
       ELSE R(found.type, FALSE, VarSelValue(found, e))

-----------------------------------------------------------------------------
(* checkArgs reports the wrong number of arguments without visiting any,   *)
(* and the first argument of a wrong type without visiting the next.       *)
ArgsFit(found, args) ==
  \A i \in 1..Len(args) : IsCompat(args[i].type, found.args[i])

Args(found, given, args) == Len(found.args) = given /\ ArgsFit(found, args)

(* Mutant: any method by the name of a class.                              *)
MayCallByName(found, local, cls) ==
  /\ found.is = "method"
  /\ local => (static => found.static)

(* The checks of checkCall before the arguments.                           *)
MayCall(found, local, cls) ==
  /\ found.is = "method"
  /\ local => (static => found.static)
  /\ ~local /\ cls => found.static

(* Mutant: the value is passed as it is.                                   *)
PassesUncast(ir, t) == ir = LLVM(t)

(* Pointers are cast to what is wanted.                                    *)
Passes(ir, t) == ir = LLVM(t) \/ (Pointer(ir) /\ Pointer(LLVM(t)))

(* getVarCallValue.  Without an object, the function is looked up by the   *)
(* class it was called with; with one, the object is passed as well.       *)
(* genMethodProto has made the function unless it met HasUndeclared.       *)
CallValue(found, object, args) ==
  Provided(/\ IF object THEN ~found.static ELSE found.own
           /\ \A i \in DOMAIN found.args : ~HasUndeclared(found.args[i])
           /\ \A i \in 1..Len(args) : Passes(args[i].ir, found.args[i]),
           Value(found.type))

Call(found, given, local, cls, object, args) ==
  IF MayCall(found, local, cls) /\ Args(found, given, args)
  THEN R(found.type, FALSE, CallValue(found, object, args))
  ELSE Bad

LocalCall(found, given, args) == Call(found, given, TRUE, FALSE, ~static, args)

IsLength(found, e) == e.type.kind = "array" /\ found.is = "length"

VarCall(found, given, e, args) ==
  CASE e.type = Error -> R(Error, FALSE, NoCode)
    [] IsLength(found, e) -> R(T("int"), given > 0, ArrayLength(e))
    [] e.type.kind = "class" ->
         LET r == Call(found, given, FALSE, e.cls, ~e.cls, args) IN
         [r EXCEPT !.ir = Provided(e.cls \/ Pointer(e.ir), r.ir)]
    [] OTHER -> Bad
-----------------------------------------------------------------------------
(* The nodes.  "of" is the type, the class or the member that the node     *)
(* names, "given" the number of arguments written in a call.               *)
Op(op, of) == [op |-> op, of |-> of, given |-> 0]
Node(e, parent, nth) ==
  [op |-> e.op, of |-> e.of, given |-> e.given, parent |-> parent, nth |-> nth]

Leaves ==
  {Op(op, t) : op \in {"variable", "field"}, t \in VarTypes}
  \cup {Op("literal", t) : t \in Literals}
  \cup {Op("read", T(k)) : k \in {"int", "string"}}
  \cup {Op("name", c) : c \in Name}
  \cup {Op("new", c) : c \in Name \cup {Undeclared}}
  \cup {Op("this", NoBase)}

Unaries ==
  {Op(op, NoBase) : op \in {"paren", "minus", "not"}}
  \cup {Op(op, c) : op \in {"cast", "instanceof"}, c \in Name \cup {Undeclared}}
  \cup {Op("arrayNew", t) : t \in ElementTypes}
  \cup {Op("varSel", m) : m \in Callees}

Binaries == {Op(op, NoBase) : op \in {"arith", "relation", "equality", "logical", "index"}}

Calls ==
  UNION {{[op |-> op, of |-> m, given |-> n] : n \in {Len(m.args), Len(m.args) + 1}} :
            op \in {"varCall", "localCall"}, m \in Callees}

Statements ==
  {Op(op, NoBase) : op \in {"assign", "print", "condition", "expression"}}
  \cup {Op("init", t) : t \in VarTypes}
  \cup {Op("return", t) : t \in VarTypes \cup {T("void")}}

(* How tightly the grammar lets a form bind its operands.                  *)
Level(op) ==
  CASE op = "logical" -> 0
    [] op = "equality" -> 1
    [] op = "relation" -> 2
    [] op = "arith" -> 3
    [] op \in {"minus", "not", "cast"} -> 4
    [] OTHER -> 5

Prefixed == {"varSel", "index", "varCall"}
Selecting == {"varSel", "varCall"}

Fits(op, parent, nth) ==
  CASE parent = "assign" /\ nth = 1 -> op \in {"variable", "field", "varSel", "index"}
    [] parent \in Prefixed /\ nth = 1 -> Level(op) = 5
    [] parent \in {"minus", "not", "cast"} -> Level(op) >= 4
    [] parent \in {"equality", "relation"} /\ nth = 2 -> Level(op) > Level(parent)
    [] parent \in {"logical", "equality", "relation", "arith"} -> Level(op) >= Level(parent)
    [] OTHER -> TRUE

-----------------------------------------------------------------------------
top == frames[Len(frames)]
Form(f) == nodes[f.node]

(* Does the visitor visit another subexpression?                           *)
MoreArgs(found, given, args) ==
  Len(found.args) = given /\ Len(args) < given /\ ArgsFit(found, args)

More(f) ==
  LET n == Form(f)
      visited == Len(f.kids) IN
  CASE n.op = "varCall" /\ visited > 0 ->
         /\ f.kids[1].type.kind = "class"
         /\ MayCall(n.of, FALSE, f.kids[1].cls)
         /\ MoreArgs(n.of, n.given, Tail(f.kids))
    [] n.op = "localCall" -> MayCall(n.of, TRUE, FALSE) /\ MoreArgs(n.of, n.given, f.kids)
    [] n.op \in {b.op : b \in Binaries} \cup {"assign"} -> visited < 2
    [] OTHER -> visited < 1

(* TypeChecker uses the symbol of a class that is not declared, which is   *)
(* null; for a cast, after having reported it.                             *)
Dereferences(f) ==
  LET n == Form(f) IN
  \/ n.op = "cast" /\ n.of = Undeclared /\ ~More(f)
  \/ n.op = "varCall" /\ f.kids # <<>> /\ f.kids[1].type = Class(Undeclared)

Answer(n, kids) ==
  CASE n.op = "variable" -> Variable(n.of)
    [] n.op = "field" -> Field(n.of)
    [] n.op = "literal" -> R(n.of, FALSE, LLVM(n.of))
    [] n.op = "read" -> Read(n.of)
    [] n.op = "name" -> ClassName(n.of)
    [] n.op = "new" -> New(n.of)
    [] n.op = "this" -> This
    [] n.op = "paren" -> Paren(kids[1])
    [] n.op = "minus" -> Minus(kids[1])
    [] n.op = "not" -> Not(kids[1])
    [] n.op = "cast" -> Cast(n.of, kids[1])
    [] n.op = "instanceof" -> InstanceOf(n.of, kids[1])
    [] n.op = "arrayNew" -> ArrayNew(n.of, kids[1])
    [] n.op = "varSel" -> VarSel(n.of, kids[1])
    [] n.op = "arith" -> Arithmetic(kids[1], kids[2])
    [] n.op = "relation" -> Relation(kids[1], kids[2])
    [] n.op = "equality" -> Equality(kids[1], kids[2])
    [] n.op = "logical" -> Logical(kids[1], kids[2])
    [] n.op = "index" -> Index(kids[1], kids[2])
    [] n.op = "varCall" -> VarCall(n.of, n.given, kids[1], Tail(kids))
    [] n.op = "localCall" -> LocalCall(n.of, n.given, kids)

(* The statements: what TypeChecker rejects, and whether CodeGenVisitor    *)
(* has code for what it does not.                                          *)
RejectsAssign(l, e) == ~IsCompat(e.type, l.type)
RejectsInit(t, e) == ~IsCompat(e.type, t)
RejectsReturn(t, e) == ~IsCompat(e.type, t)
RejectsPrint(e) == e.type.kind \notin {"int", "bool", "string", "error"}
RejectsTest(e) == e.type # T("bool")

Rejects(n, kids) ==
  CASE n.op = "assign" -> RejectsAssign(kids[1], kids[2])
    [] n.op = "init" -> RejectsInit(n.of, kids[1])
    [] n.op = "return" -> RejectsReturn(n.of, kids[1])
    [] n.op = "print" -> RejectsPrint(kids[1])
    [] n.op = "condition" -> RejectsTest(kids[1])
    [] n.op = "expression" -> FALSE

AssignCode(l, e) ==
  \/ e.ir = l.ir /\ l.ir # NoCode
  \/ Pointer(e.ir) /\ Pointer(l.ir)
InitCode(t, e) == Passes(e.ir, t) /\ ~HasUndeclared(t)
ReturnCode(t, e) == Passes(e.ir, t) /\ ~HasUndeclared(t) /\ t # T("void")
PrintCode(e) == e.ir \in {I32, I8P}
TestCode(e) == e.ir = I32

HasCode(n, kids) ==
  CASE n.op = "assign" -> AssignCode(kids[1], kids[2])
    [] n.op = "init" -> InitCode(n.of, kids[1])
    [] n.op = "return" -> ReturnCode(n.of, kids[1])
    [] n.op = "print" -> PrintCode(kids[1])
    [] n.op = "condition" -> TestCode(kids[1])
    [] n.op = "expression" -> kids[1].ir # NoCode

-----------------------------------------------------------------------------
Init ==
  /\ base \in {b \in BaseMap : Acyclic(b)}
  /\ curClass \in Name /\ static \in BOOLEAN
  /\ \E s \in Statements : nodes = <<Node(s, 0, 0)>>
  /\ frames = <<[node |-> 1, kids |-> <<>>]>>
  /\ allow = FALSE /\ exprTypes = <<Unset>>
  /\ failed = FALSE /\ state = "visiting"

(* The next subexpression of the innermost visitor has the form e.         *)
Visits(e) ==
  LET nth == Len(top.kids) + 1 IN
  /\ state = "visiting" /\ Len(nodes) < MaxNodes
  /\ More(top) /\ ~Dereferences(top) /\ Fits(e.op, Form(top).op, nth)
  /\ nodes' = Append(nodes, Node(e, top.node, nth))
  /\ UNCHANGED <<method, state>>

(* Mutant: the flag is not lowered.                                        *)
ReturnFlagUp(r, fs) ==
  LET f == fs[Len(fs)] IN
  /\ frames' = [fs EXCEPT ![Len(fs)].kids = Append(f.kids, r)]
  /\ failed' = (failed \/ r.bad)
  /\ UNCHANGED allow

(* visit returns r to the visitor that is the last of fs.  The flag goes   *)
(* down when the prefix has been visited.                                  *)
Return(r, fs) ==
  LET f == fs[Len(fs)] IN
  /\ frames' = [fs EXCEPT ![Len(fs)].kids = Append(f.kids, r)]
  /\ allow' = (allow /\ ~(Form(f).op \in Selecting /\ f.kids = <<>>))
  /\ failed' = (failed \/ r.bad)

(* Mutant: the visitor of a parenthesis returns the type only.             *)
KeptNotParen(n, r) == IF n.op = "paren" THEN Unset ELSE r.type

(* returnExprType keeps the type, but an lValue is not an expr.            *)
Kept(n, r) == IF n.parent = 1 /\ n.nth = 1 /\ nodes[1].op = "assign" THEN Unset ELSE r.type

VisitLeaf ==
  \E e \in Leaves :
    LET r == Answer(e, <<>>) IN
    /\ Visits(e)
    /\ Return(r, frames)
    /\ exprTypes' = Append(exprTypes, Kept(nodes'[Len(nodes')], r))

EnterExpr ==
  \E e \in Unaries \cup Binaries \cup Calls :
    /\ Visits(e)
    /\ frames' = Append(frames, [node |-> Len(nodes) + 1, kids |-> <<>>])
    /\ allow' = (allow \/ e.op \in Selecting)
    /\ exprTypes' = Append(exprTypes, Unset)
    /\ UNCHANGED failed

LeaveExpr ==
  LET r == Answer(Form(top), top.kids) IN
  /\ state = "visiting" /\ Len(frames) > 1
  /\ ~More(top) /\ ~Dereferences(top)
  /\ Return(r, Front(frames))
  /\ exprTypes' = [exprTypes EXCEPT ![top.node] = Kept(Form(top), r)]
  /\ UNCHANGED <<method, nodes, state>>

CheckerCrashes ==
  /\ state = "visiting" /\ Dereferences(top)
  /\ state' = "crashed"
  /\ UNCHANGED <<method, nodes, frames, allow, exprTypes, failed>>

EndStatement ==
  /\ state = "visiting" /\ Len(frames) = 1 /\ ~More(top)
  /\ failed' = (failed \/ Rejects(nodes[1], top.kids))
  /\ state' = IF failed' THEN "rejected"
              ELSE IF HasCode(nodes[1], top.kids) THEN "generated" ELSE "broken"
  /\ UNCHANGED <<method, nodes, frames, allow, exprTypes>>

Next == VisitLeaf \/ EnterExpr \/ LeaveExpr \/ CheckerCrashes \/ EndStatement

Spec == Init /\ [][Next]_vars

-----------------------------------------------------------------------------
(* Types of the variables.  An error type that is passed on has been       *)
(* reported, so it silences errors only of a statement that fails; the     *)
(* flag is up only while a prefix is being visited.                        *)
TypeOK ==
  /\ base \in BaseMap /\ curClass \in Name /\ static \in BOOLEAN
  /\ allow \in BOOLEAN /\ failed \in BOOLEAN
  /\ state \in {"visiting", "crashed", "rejected", "generated", "broken"}
  /\ Len(exprTypes) = Len(nodes)
  /\ \A i \in DOMAIN exprTypes : exprTypes[i] \in Type \cup {Error, Unset}
  /\ \A k \in DOMAIN frames : frames[k].node \in DOMAIN nodes
  /\ (\E i \in DOMAIN exprTypes : exprTypes[i] = Error) => failed
  /\ allow => \E k \in DOMAIN frames : Form(frames[k]).op \in Selecting /\ frames[k].kids = <<>>

-----------------------------------------------------------------------------
(* The typing rules, as a reader of the language has them, over the whole  *)
(* tree.  A name of a class has a type of its own, which only the prefix   *)
(* of a call may have.                                                     *)
Kids(i) == {j \in DOMAIN nodes : nodes[j].parent = i}
HasKid(i, n) == \E j \in Kids(i) : nodes[j].nth = n
Kid(i, n) == CHOOSE j \in Kids(i) : nodes[j].nth = n

Assignable(a, b) ==
  \/ a = b
  \/ b.kind = "class" /\ a.kind = "null"
  \/ b.kind = "class" /\ a.kind = "class" /\ SubClass(a.of, b.of)

IntType == T("int")
BoolType == T("bool")

Takes(i, W, nth, types) ==
  /\ nodes[i].given = Len(types)
  /\ \A a \in DOMAIN types : HasKid(i, nth + a) /\ Assignable(W[Kid(i, nth + a)], types[a])

(* The type of node i, when W has those of its subexpressions.             *)
Rule(i, W, ofName) ==
  LET n == nodes[i]
      k(m) == W[Kid(i, m)]
      calls == n.of.is = "method" IN
  CASE n.op \in {"variable", "literal", "read"} -> n.of
    [] n.op = "field" /\ ~static -> n.of
    [] n.op = "this" /\ ~static -> Class(curClass)
    [] n.op = "name" -> ofName
    [] n.op = "new" /\ n.of \in Name -> Class(n.of)
    [] n.op = "paren" -> k(1)
    [] n.op = "minus" /\ k(1) = IntType -> IntType
    [] n.op = "not" /\ k(1) = BoolType -> BoolType
    [] n.op = "cast" /\ k(1).kind = "class" /\ n.of \in Name -> Class(n.of)
    [] n.op = "instanceof" /\ k(1).kind = "class" /\ n.of \in Name -> BoolType
    [] n.op = "arrayNew" /\ k(1) = IntType -> Array(n.of)
    [] n.op = "arith" /\ k(1) = IntType /\ k(2) = IntType -> IntType
    [] n.op = "relation" /\ k(1) = IntType /\ k(2) = IntType -> BoolType
    [] n.op = "equality" /\ (Assignable(k(1), k(2)) \/ Assignable(k(2), k(1))) -> BoolType
    [] n.op = "logical" /\ k(1) = BoolType /\ k(2) = BoolType -> BoolType
    [] n.op = "index" /\ k(1).kind = "array" /\ k(2) = IntType -> k(1).of
    [] /\ n.op = "varSel" /\ n.of.is = "field" /\ ~static
       /\ k(1).kind = "class" /\ SubClass(curClass, k(1).of) -> n.of.type
    [] n.op = "varCall" /\ n.of.is = "length" /\ k(1).kind = "array" /\ n.given = 0 -> IntType
    [] /\ n.op = "varCall" /\ calls /\ (k(1).kind = "class" \/ (k(1).kind = "name" /\ n.of.static))
       /\ Takes(i, W, 1, n.of.args) -> n.of.type
    [] n.op = "localCall" /\ calls /\ (static => n.of.static) /\ Takes(i, W, 0, n.of.args) -> n.of.type
    [] n.op = "assign" /\ Assignable(k(2), k(1)) -> T("void")
    [] n.op \in {"init", "return"} /\ Assignable(k(1), n.of) -> T("void")
    [] n.op = "print" /\ k(1) \in {IntType, BoolType, T("string")} -> T("void")
    [] n.op = "condition" /\ k(1) = BoolType -> T("void")
    [] n.op = "expression" -> T("void")
    [] OTHER -> Error

IsSelected(i) == nodes[i].nth = 1 /\ nodes[nodes[i].parent].op \in Selecting

(* i is within the prefix of the last call or selection before it.         *)
Within(i, j) ==
  LET up[k \in 0..Len(nodes)] == k >= j /\ (k = j \/ up[nodes[k].parent]) IN up[i]
InLastPrefix(i) ==
  LET before == {p \in 1..(i - 1) : nodes[p].op \in Selecting} IN
  before # {} /\ LET p == Max(before) IN Within(i, Kid(p, 1))

(* The types of all nodes.  The names of classes that TypeChecker takes    *)
(* for values are those in the prefix of the last call or selection.       *)
Typing ==
  LET W[i \in DOMAIN nodes] ==
        IF \E j \in Kids(i) : W[j] = Error THEN Error
        ELSE Rule(i, W, IF IsSelected(i) THEN [kind |-> "name", of |-> nodes[i].of]
                        ELSE IF InLastPrefix(i) THEN Class(nodes[i].of) ELSE Error)
  IN W

Ended == state \in {"rejected", "generated", "broken"}

(* TypeChecker rejects exactly the statements that the typing rules do,    *)
(* although it goes on after errors and skips subexpressions after some;   *)
(* but it takes the name of a class for a value wherever a prefix is being *)
(* visited that has no call or selection of its own before the name.       *)
RejectsExactly == Ended => (failed <=> Typing[1] = Error)

(* CodeGenVisitor reads back for every expression of an accepted statement *)
(* the type that the rules give it.                                        *)
KeptTypesAreRight ==
  Ended /\ ~failed =>
    \A i \in 2..Len(nodes) :
      \/ exprTypes[i] = Unset /\ nodes[1].op = "assign" /\ i = Kid(1, 1)
      \/ exprTypes[i] = Typing[i]
      \/ nodes[i].op = "name" /\ exprTypes[i] = Class(nodes[i].of)

-----------------------------------------------------------------------------
(* What an accepted statement must not contain to be generated.            *)
Used ==
  LET up[i \in DOMAIN nodes] ==
        nodes[i].parent # 0 =>
          /\ nodes[nodes[i].parent].op \notin {"paren", "expression"}
          /\ nodes[nodes[i].parent].op = "logical" => nodes[i].nth = 2 /\ up[nodes[i].parent]
  IN up

NoVisitor(i) == nodes[i].op \in {"paren", "read"} /\ Used[i]
NameAsValue(i) == nodes[i].op = "name" /\ ~IsSelected(i)
ByName(i) == nodes[i].op = "varCall" /\ nodes[Kid(i, 1)].op = "name"

Misdirected(i) ==
  LET m == nodes[i].of IN
  CASE nodes[i].op = "varCall" /\ m.is = "method" -> IF ByName(i) THEN ~m.own ELSE m.static
    [] nodes[i].op = "localCall" -> IF static THEN ~m.own ELSE m.static
    [] OTHER -> FALSE

OfNoClass(i) ==
  LET n == nodes[i] IN
  CASE n.op \in {"variable", "field", "arrayNew", "init", "return"} -> HasUndeclared(n.of)
    [] n.op = "varSel" -> HasUndeclared(n.of.type)
    [] n.op \in {"varCall", "localCall"} /\ n.of.is = "method" ->
         HasUndeclared(n.of.type) \/ \E a \in DOMAIN n.of.args : HasUndeclared(n.of.args[a])
    [] OTHER -> FALSE

NullOnTheLeft(i) ==
  /\ nodes[i].op = "equality" /\ exprTypes[Kid(i, 1)] = T("null")
  /\ exprTypes[Kid(i, 2)] # T("null")

OfVoid(i) ==
  \/ nodes[i].op \in {"arrayNew", "return"} /\ nodes[i].of = T("void")
  \/ nodes[i].op = "equality" /\ exprTypes[Kid(i, 1)] = T("void")

(* Everything TypeChecker accepts is generated, each value with the LLVM   *)
(* type its use wants, but for these: a parenthesis, ReadInteger or        *)
(* ReadLine whose value is used; the name of a class as a value; a static  *)
(* method called through an object, or by the name of a class that only    *)
(* inherits it; null on the left of "=="; a class that does not exist;     *)
(* values of type void.                                                    *)
GeneratesExactly ==
  Ended /\ ~failed =>
    (state = "generated" <=>
       \A i \in DOMAIN nodes :
         ~(\/ NoVisitor(i) \/ NameAsValue(i) \/ Misdirected(i)
           \/ OfNoClass(i) \/ NullOnTheLeft(i) \/ OfVoid(i)))
=============================================================================
