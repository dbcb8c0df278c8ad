------------------------------ MODULE Objects -------------------------------
(***************************************************************************)
(* The objects of a compiled program.  Constructor's machine first emits   *)
(* the constructors.  Then Link chooses the members of the classes, and    *)
(* operations on objects are compiled and executed one by one: allocation  *)
(* and the constructors' code, access to fields through getFieldPtr,       *)
(* calls through tables or function names, instanceof and casts.           *)
(*                                                                         *)
(* The tables are those that VTable's machine builds: slots lead to the    *)
(* most derived method (VTable!VirtualCallsDispatch).  Memory is a         *)
(* sequence of words, an object is the index of its first word.  A field   *)
(* or a pointer takes one word; null is not operated on.                   *)
(***************************************************************************)
EXTENDS Constructor

CONSTANTS
  Field, Method,   \* the names of members
  Value,           \* what a field can hold, 0 included
  MaxSize          \* bound on the members and objects of a program

ASSUME ObjectsAssumption ==
  /\ IsFiniteSet(Field) /\ IsFiniteSet(Method) /\ Field \cap Method = {}
  /\ 0 \in Value /\ Value \cap Name = {}
  /\ MaxSize \in Nat

VARIABLES
  above,     \* BaseChecker::isBase of a class and each of its bases
  members,   \* per class, getOrderedSymbols of its scope
  state,     \* codegen, running, halted, or how it went wrong
  heap,      \* what _dcf_ALLOCATE has given out
  objs,      \* the objects, by order of creation
  walk,      \* the call of _dcf_rt_INSTANCE_OF, when there is one
  seen,      \* history: the last operation and its result
  fault      \* history: the operation that went wrong

compiler == <<next, frames, block, insert, above>>
objVars == <<program, compiler, members, state, heap, objs, walk, seen, fault>>

(* A field is of one of two LLVM types, which stand for all.               *)
VarKinds == {"i32", "ptr"}
Member == [kind : VarKinds, name : Field]
            \cup [kind : {"method", "static"}, name : Method]
IsVar(symbol) == symbol.kind \in VarKinds

IsA(c, a) == c = a \/ a \in above[c]

(* What SymbolChecker accepts (MemberTable!OverridesAreSound): only an     *)
(* instance method may be declared again, by a method that may be static.  *)
Legal(mem) ==
  \A c, a \in Name : \A i \in DOMAIN mem[c], j \in DOMAIN mem[a] :
    mem[c][i].name = mem[a][j].name /\ <<c, i>> # <<a, j>> =>
      c # a /\ (IsA(c, a) => mem[a][j].kind = "method")

ObjInit ==
  /\ Init
  /\ above = [c \in Name |-> Ancestors(base, c)]
  /\ members = [c \in Name |-> <<>>]
  /\ state = "codegen"
  /\ heap = <<>> /\ objs = <<>> /\ walk = <<>> /\ seen = <<>> /\ fault = <<>>

-----------------------------------------------------------------------------
(* genLLVMStruct: the base's struct or the pointer to the table, and then  *)
(* the variables among the class's symbols.                                *)
Variables(symbols) ==
  LET upTo[i \in 0..Len(symbols)] ==
        IF i = 0 THEN <<>>
        ELSE IF IsVar(symbols[i]) THEN Append(upTo[i - 1], symbols[i])
        ELSE upTo[i - 1]
  IN upTo[Len(symbols)]

Contents(c) == Variables(members[c])

BasePart(c) == 1 + Cardinality(UNION {{a} \X DOMAIN Contents(a) : a \in above[c]})
SizeOf(c) == BasePart(c) + Len(Contents(c))

Declared(c) == {members[c][i].name : i \in DOMAIN members[c]}
Symbol(d, n) == CHOOSE m \in Member : m.name = n /\ \E i \in DOMAIN members[d] : members[d][i] = m

(* Mutant: the part of the base is not skipped.                            *)
IndexFromZero(d, x) == (CHOOSE i \in DOMAIN members[d] : members[d][i].name = x) - 1

(* getFieldPtr counts all symbols of the class, methods too.               *)
Index(d, x) == CHOOSE i \in DOMAIN members[d] : members[d][i].name = x

(* Mutant: an element of any type will do.                                 *)
CompilesAnyType(d, x) == Index(d, x) \in DOMAIN Contents(d)

(* CreateStructGEP needs an element of that index, and the load or store   *)
(* one of the field's type.                                                *)
Compiles(d, x) ==
  /\ Index(d, x) \in DOMAIN Contents(d)
  /\ Contents(d)[Index(d, x)].kind = Symbol(d, x).kind

(* Mutant: fields are counted from the start of the object.                *)
OwnFieldPtr(obj, d, x) == obj + Index(d, x)

FieldPtr(obj, d, x) == obj + BasePart(d) + Index(d, x) - 1

(* ClassScope::lookup, and VTable::getFunction by VirtualCallsDispatch.    *)
Nearest(c, n) ==
  CHOOSE d \in Name : IsA(c, d) /\ n \in Declared(d)
    /\ \A a \in Name : IsA(c, a) /\ n \in Declared(a) => IsA(d, a)
Understands(c, n) == \E d \in Name : IsA(c, d) /\ n \in Declared(d)
IsStatic(d, m) == Symbol(d, m).kind = "static"

-----------------------------------------------------------------------------
Generate ==
  /\ Next
  /\ UNCHANGED <<above, members, state, heap, objs, walk, seen, fault>>

Size == Cardinality(UNION {{c} \X DOMAIN members[c] : c \in Name}) + Len(objs)

(* The members are the program's; choosing them late only saves states.    *)
Declare(c, m) ==
  /\ Done /\ state = "codegen" /\ Size < MaxSize
  /\ members' = [members EXCEPT ![c] = Append(@, m)]
  /\ Legal(members')
  /\ UNCHANGED <<program, compiler, state, heap, objs, walk, seen, fault>>

Link ==
  /\ Done /\ state = "codegen"
  /\ state' = "running"
  /\ UNCHANGED <<program, compiler, members, heap, objs, walk, seen, fault>>

Operate == state = "running" /\ walk = <<>> /\ seen = <<>>

(* The program goes on to its next operation.                              *)
Proceed ==
  /\ state = "running" /\ seen # <<>>
  /\ seen' = <<>>
  /\ UNCHANGED <<program, compiler, members, state, heap, objs, walk, fault>>

Fail(how, op) ==
  /\ state' = how
  /\ fault' = op
  /\ UNCHANGED <<program, compiler, members, heap, objs, walk, seen>>

Observe(result) ==
  /\ seen' = result
  /\ UNCHANGED <<program, compiler, members, state, objs, walk, fault>>

(* Executing the constructor of c runs those of its bases first, as far as *)
(* their code is right.                                                    *)
Constructs(c) == \A a \in Name : IsA(c, a) => Proper(a)

(* Mutant: memory for the fields of the class itself only.                 *)
NewOwnPart(c) ==
  /\ Operate /\ Size < MaxSize /\ Constructs(c)
  /\ heap' = heap \o [w \in 1..(1 + Len(Contents(c))) |-> IF w = 1 THEN c ELSE 0]
  /\ objs' = Append(objs, Len(heap) + 1)
  /\ seen' = <<"new", Len(objs')>>
  /\ UNCHANGED <<program, compiler, members, state, walk, fault>>

(* The last constructor to set the vptr is that of c.                      *)
New(c) ==
  /\ Operate /\ Size < MaxSize /\ Constructs(c)
  /\ heap' = heap \o [w \in 1..SizeOf(c) |-> IF w = 1 THEN c ELSE 0]
  /\ objs' = Append(objs, Len(heap) + 1)
  /\ seen' = <<"new", Len(objs')>>
  /\ UNCHANGED <<program, compiler, members, state, walk, fault>>

(* A block without an end, or with code after its return.                  *)
NewBroken(c) ==
  /\ Operate /\ ~Constructs(c)
  /\ Fail("undefined", <<"new", c>>)

vptr(i) == heap[objs[i]]

Access(i, x) == Operate /\ x \in Field /\ Understands(vptr(i), x)

Write(i, x, v) ==
  LET d == Nearest(vptr(i), x) IN
  /\ Access(i, x) /\ Compiles(d, x)
  /\ heap' = [heap EXCEPT ![FieldPtr(objs[i], d, x)] = v]
  /\ Observe(<<"write", i, x>>)

Read(i, x) ==
  LET d == Nearest(vptr(i), x) IN
  /\ Access(i, x) /\ Compiles(d, x)
  /\ Observe(<<"read", i, x, heap[FieldPtr(objs[i], d, x)]>>)
  /\ UNCHANGED heap

AccessBroken(i, x) ==
  LET d == Nearest(vptr(i), x) IN
  /\ Access(i, x) /\ ~Compiles(d, x)
  /\ Fail("crashed", <<"field", d, x>>)

-----------------------------------------------------------------------------
(* A call through an expression of static class c, or a local call in an   *)
(* instance method of c, passes the object in front of the arguments.      *)
Receives(i, c, m) ==
  Operate /\ m \in Method /\ IsA(vptr(i), c) /\ Understands(c, m)

Call(i, c, m) ==
  /\ Receives(i, c, m)
  /\ ~IsStatic(Nearest(c, m), m) /\ ~IsStatic(Nearest(vptr(i), m), m)
  /\ Observe(<<"call", i, m, Nearest(vptr(i), m)>>)
  /\ UNCHANGED heap

(* The prototype found through the static class has no parameter for it.   *)
CallExtraArgument(i, c, m) ==
  /\ Receives(i, c, m) /\ IsStatic(Nearest(c, m), m)
  /\ Fail("crashed", <<"extra", i, c, m>>)

(* The function in the object's table has none.                            *)
CallMisplaced(i, c, m) ==
  /\ Receives(i, c, m)
  /\ ~IsStatic(Nearest(c, m), m) /\ IsStatic(Nearest(vptr(i), m), m)
  /\ Fail("undefined", <<"misplaced", i, c, m>>)

(* A call by the name of class c, or a local call in a static method of c: *)
(* a static method, looked up as the function of that very class.          *)
CallsStatic(c, m) ==
  Operate /\ m \in Method /\ Understands(c, m) /\ IsStatic(Nearest(c, m), m)

CallStatic(c, m) ==
  /\ CallsStatic(c, m) /\ m \in Declared(c)
  /\ Observe(<<"static", c, m, c>>)
  /\ UNCHANGED heap

CallNoFunction(c, m) ==
  /\ CallsStatic(c, m) /\ m \notin Declared(c)
  /\ Fail("crashed", <<"static", c, m>>)

-----------------------------------------------------------------------------
(* _dcf_rt_INSTANCE_OF goes from table to table by their first words.      *)
InstanceOf(i, c, op) ==
  /\ Operate
  /\ walk' = [obj |-> i, dst |-> c, op |-> op, at |-> vptr(i)]
  /\ UNCHANGED <<program, compiler, members, state, heap, objs, seen, fault>>

(* Mutant: the loop does not advance.                                      *)
WalkInPlace ==
  /\ walk # <<>> /\ walk.at \notin {NoBase, walk.dst}
  /\ UNCHANGED objVars

WalkUp ==
  /\ walk # <<>> /\ walk.at \notin {NoBase, walk.dst}
  /\ walk' = [walk EXCEPT !.at = base[@]]
  /\ UNCHANGED <<program, compiler, members, state, heap, objs, seen, fault>>

(* A cast that fails halts the program.                                    *)
EndWalk ==
  /\ walk # <<>> /\ walk.at \in {NoBase, walk.dst}
  /\ walk' = <<>>
  /\ seen' = <<walk.op, walk.obj, walk.dst, walk.at = walk.dst>>
  /\ state' = IF walk.op = "cast" /\ walk.at = NoBase THEN "halted" ELSE state
  /\ UNCHANGED <<program, compiler, members, heap, objs, fault>>

ObjNext ==
  \/ Generate
  \/ \E c \in Name, m \in Member : Declare(c, m)
  \/ Link
  \/ Proceed
  \/ \E c \in Name : New(c) \/ NewBroken(c)
  \/ \E i \in DOMAIN objs, x \in Field, v \in Value : Write(i, x, v)
  \/ \E i \in DOMAIN objs, x \in Field : Read(i, x) \/ AccessBroken(i, x)
  \/ \E i \in DOMAIN objs, c \in Name, m \in Method :
       Call(i, c, m) \/ CallExtraArgument(i, c, m) \/ CallMisplaced(i, c, m)
  \/ \E c \in Name, m \in Method : CallStatic(c, m) \/ CallNoFunction(c, m)
  \/ \E i \in DOMAIN objs, c \in Name, op \in {"instanceof", "cast"} : InstanceOf(i, c, op)
  \/ WalkUp
  \/ EndWalk

ObjSpec == ObjInit /\ [][ObjNext]_objVars

(* One thread: the compiler finishes, and so does a walk up the tables.    *)
ObjFairSpec == ObjSpec /\ WF_objVars(Generate) /\ WF_objVars(WalkUp \/ EndWalk)

-----------------------------------------------------------------------------
(* Types, those of the constructors' code too, and that the objects lie    *)
(* apart in memory, each with a word for the pointer to its class's table  *)
(* and one for every field it has.                                         *)
ObjTypeOK ==
  /\ TypeOK
  /\ members \in [Name -> Seq(Member)] /\ Legal(members)
  /\ state \in {"codegen", "running", "halted", "crashed", "undefined"}
  /\ \A w \in DOMAIN heap : heap[w] \in Value \cup Name
  /\ \A i \in DOMAIN objs : heap[objs[i]] \in Name
  /\ \A i \in DOMAIN objs :
       objs[i] + SizeOf(vptr(i)) =
         IF i + 1 \in DOMAIN objs THEN objs[i + 1] ELSE Len(heap) + 1
  /\ walk # <<>> => walk.obj \in DOMAIN objs /\ walk.at \in Name \cup {NoBase}
  /\ fault # <<>> <=> state \in {"crashed", "undefined"}

Attributes(c) == {x \in Field : Understands(c, x)}

ValueOf(i, x) ==
  LET d == Nearest(vptr(i), x) IN
  IF Compiles(d, x) THEN heap[FieldPtr(objs[i], d, x)] ELSE 0

Linked(set) == [c \in Name |-> IF state = "codegen" THEN {} ELSE Declared(c) \cap set]

Abstract == INSTANCE ObjectStore WITH
  attrs   <- Linked(Field),
  defs    <- Linked(Method),
  running <- state # "codegen",
  objs    <- [i \in DOMAIN objs |->
                [cls |-> vptr(i), value |-> [x \in Attributes(vptr(i)) |-> ValueOf(i, x)]]]

(* As long as an operation is compiled and defined, structs in structs,    *)
(* pointers to tables and slots do what is promised of objects: a field    *)
(* keeps its value whatever is written to other fields, of the object's    *)
(* bases and of objects beside it, and calls, instanceof and casts go by   *)
(* the class the object was created with.                                  *)
ImplementsObjectStore == Abstract!Spec

(* A field comes out as the one that stands, among the fields of its class,*)
(* as many places later as there are methods before it.                    *)
FieldsAfter(d, x) ==
  {i \in DOMAIN members[d] : i > Index(d, x) /\ IsVar(members[d][i])}
MethodsBefore(d, x) == {i \in 1..Index(d, x) : ~IsVar(members[d][i])}

Misplaced(d, x) ==
  LET shift == Cardinality(MethodsBefore(d, x)) IN
  /\ shift > 0
  /\ ~\E i \in FieldsAfter(d, x) :
        /\ Cardinality({j \in FieldsAfter(d, x) : j <= i}) = shift
        /\ members[d][i].kind = Symbol(d, x).kind

(* Which classes have no objects, said of the order of the classes: those  *)
(* that are themselves written after a class derived from them, or have a  *)
(* base that is, and no others.  A class can lose its constructor to a     *)
(* sibling this way, although it stands behind all of its own bases.       *)
Overtaken(c) == \E a \in Name : IsA(c, a) /\ DerivedBefore(a, Place(a))

NewFailsExactly ==
  /\ seen # <<>> /\ seen[1] = "new" => ~Overtaken(vptr(seen[2]))
  /\ fault # <<>> /\ fault[1] = "new" => Overtaken(fault[2])

(* Which fields cannot be used, said of the order of a class's members:    *)
(* those that the methods written before them move onto no field of the    *)
(* class, or onto one of another type.                                     *)
FieldsFailExactly ==
  /\ seen # <<>> /\ seen[1] \in {"read", "write"} =>
       ~Misplaced(Nearest(vptr(seen[2]), seen[3]), seen[3])
  /\ fault # <<>> /\ fault[1] = "field" => Misplaced(fault[2], fault[3])

(* A program with its bases written first, the fields of a class before    *)
(* its methods, and no static methods never goes wrong.                    *)
Disciplined ==
  /\ BaseFirst(base, order)
  /\ \A c \in Name : \A i, j \in DOMAIN members[c] :
       /\ members[c][i].kind # "static"
       /\ i < j /\ IsVar(members[c][j]) => IsVar(members[c][i])

DisciplinedIsSafe == Disciplined => fault = <<>>

(* Every walk up the tables ends.                                          *)
InstanceOfReturns == walk # <<>> ~> walk = <<>>

(* The layout that genLLVMStruct and README.md:71-74 give an object, "all  *)
(* fields of the bases" and "the fields of the class": any field declared  *)
(* can be reached.                                                         *)
FieldsAreReached ==
  state = "running" => \A c \in Name, x \in Field : x \in Declared(c) => Compiles(c, x)
=============================================================================
