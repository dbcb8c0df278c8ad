# A TLA+ model of the Decaf compiler

The repository compiles Decaf, a small object-oriented language with single
inheritance, to LLVM IR.  These modules model the parts of it whose
correctness depends on the *order* of things: the order in which classes are
written, the order in which the passes visit them, and the order in which
recursive code generation touches shared state.  The compiler has one thread,
so every model is the interleaving of nothing but the program being compiled:
TLC explores all small programs, and the proofs cover all of them.

## The system

`main.cpp` runs a straight line of phases; a phase that fails ends the run.

| Component | State it keeps | Operations | Depends on |
|---|---|---|---|
| `CommonLexer` | the string being read, `lexerFailed` | string mode, literal checks | ANTLR |
| parser (ANTLR, `DecafParser.g4`) | parse tree | | |
| `SymbolChecker`, passes 1 and 2 | `GlobalScope::symbols`, `BaseChecker::bases`, `symbolFailed` | `addClasses`, `checkBase` | `Scope`, `BaseChecker` |
| `SymbolChecker`, pass 3 | class, formal and local scopes | `visitVarDef`, `visitMethodDef`, `visitVarList`, `visitBlock`, `visitForStmt`, `visitLocalVarDef`, `checkMain` | `ClassScope`, `FormalScope`, `LocalScope`, `Type::compare` |
| `TypeChecker` | `ASTAttrManager` (`hasRet`, `isClassName`, expression types), `loopLevel`, `allowClassName`, `typeFailed` | one visitor per construct | scopes, types |
| `CodeGenVisitor` | LLVM module, the one `IRBuilder` and its insertion point, `loopExits`, values of symbols | one visitor per construct, layouts, prototypes | `ASTAttrManager`, scopes |
| `VTable` | `funsVec` | `generate`, `getFunctionPtr`, `instanceOf` | `BaseChecker`, ordered symbols |
| `Constructor` | functions of the module, the insertion point | `generate` | `BaseChecker`, `VTable` |
| `runtime.c` | heap, standard input and output | allocation, strings, `instanceof` walk | C library |
| `ASTPrinter`, `printer`, `error`, `Pos` | none | output | |
| `RuntimeChecker` | none | an empty stub | |

The components do not call back or run concurrently.  They interact through
three shared structures: the static map of `BaseChecker`, the scope tree with
its position-ordered symbols, and the `ASTAttrManager` tables.  A later phase
relies on what an earlier one established in them and does not check it again:
the loops over the base map have no bound, a null symbol is not tested, and
`verifyModule`'s verdict is ignored.  That is where this code is hard to get
right and hard to test, because each case needs a whole program, with its
classes in one particular order, to show.

What makes each component correct:

* class passes: exactly the legal hierarchies pass; the map then is a forest
  and is the one the program states; the passes end; errors are not repeated;
* member pass: overriding and shadowing follow the language's rules whatever
  the order of the classes; `Main.main` exists;
* vtables: a slot number means the same method in a class and in every class
  derived from it, and holds the most derived definition;
* constructors: each calls its base's, then sets the vptr, in its own body;
* statements: control flow of the emitted blocks is that of the statements, each
  block has one terminator, a method with a value cannot run off its end;
* objects: every field has a place of its own; `instanceof` agrees with the
  hierarchy;
* scopes: a name means the nearest declaration before its use;
* expressions: accepted programs never make code generation dereference null.

## Modules

| Module | Models | Source |
|---|---|---|
| `Hierarchy` | the base map, ancestors, subclassing, source orders: operators only | `BaseChecker.cpp`, `Scope.cpp` |
| `AcceptedProgram` | the forest and the source order that the earlier passes hand to the generators | |
| `ClassTable` | passes 1 and 2 over every program | `SymbolChecker.cpp`, `GlobalScope.cpp` |
| `MemberTable` | pass 3 for class members and `checkMain` | `SymbolChecker.cpp`, `ClassScope.cpp`, `MethodType.cpp` |
| `Blocks` | abstract: block structure, a body read once from the left | |
| `Names` | parameters and locals in all three walks over a body; implements `Blocks` | `FormalScope.cpp`, `LocalScope.cpp`, `TypeChecker.cpp`, `CodeGen.cpp` |
| `Expressions` | types and LLVM types of one statement, visitor by visitor | `TypeChecker.cpp`, `CodeGen.cpp`, `Type.cpp` |
| `Lowering` | statements through `TypeChecker` and `CodeGenVisitor` | `TypeChecker.cpp`, `CodeGen.cpp` |
| `DispatchTables` | abstract: one table per class from method to defining class | |
| `VTable` | the memoised recursive generation with slots; implements `DispatchTables` | `VTable.cpp` |
| `Constructor` | the recursive generation and the builder it shares | `Constructor.cpp`, `CodeGen.cpp` |
| `ObjectStore` | abstract: objects with a class and fields | |
| `Objects` | memory under the compiled program; extends `Constructor`, implements `ObjectStore` | `CodeGen.cpp`, `VTable.cpp`, `runtime.c` |
| `Literals` | strings and integers from source to constant | `DecafLexer.g4`, `CommonLexer.cpp`, `TypeChecker.cpp`, `CodeGen.cpp` |
| `MC*` | instances for TLC | |
| `*Proofs` | theorems | |

The compositions are: `Objects` runs `Constructor` to its end and goes on with
the objects its code makes, with tables that are what `VTable`'s
`VirtualCallsDispatch` promises; `Expressions` and `MemberTable` start in
hierarchies that `ClassTable` accepts (`AcceptedIsForest`).

**ClassTable.**  A program is a sequence of class definitions (name and base),
chosen in `Init`; names may repeat, bases may be missing or cyclic.  `at` is
the definition the visitor is at.  `AddClass` and `AddClassConflict` are
`addClasses`; `SkipRoot`, `BaseNotFound` and `StartWalk` are the entry of
`checkBase`, and its loop is one action per turn (`WalkUp`, `CutCycle`,
`EndWalk`), so that a loop that does not end is a behaviour that does not end.
The only bound is `MaxDefs`, the length of the program.

**VTable.**  `Init` picks any forest, source order and lists of methods: what
the earlier passes accept, see `AcceptedIsForest`.  `NextTable` is the loop of
the public `generate`; `calls` is the stack of the recursive one, `vec` its
local table.  A slot holds a function, known by the class that defines it.

**Constructor.**  `frames` is the call stack of `generate` with a program
counter per call; `insert` is the IRBuilder's block, shared by all calls.
Emission goes to `insert`, whichever constructor's block that is.

**Objects.**  First every step of `Constructor` for a forest and a source
order.  Then members are chosen (`Declare`), which fixes the struct of each
class (`genLLVMStruct`, the base's struct first) and the numbers that
`getFieldPtr` counts.  After `Link`, objects are allocated and constructed
(`New`), by the code that the constructors hold by then; fields are written and
read, methods called, and `_dcf_rt_INSTANCE_OF` walks up the tables one at a
time (`InstanceOf`, `WalkUp`, `EndWalk`).  Each operation has the actions in
which it goes wrong beside it (`NewBroken`, `AccessBroken`,
`CallExtraArgument`, `CallMisplaced`, `CallNoFunction`).  `NewFailsExactly` says
which classes have no objects, each by its own place in the text: those written
after a class derived from them, and those that extend such a class.
`FieldsFailExactly` says which fields cannot be used, by the order of the class's
members.  Both are stated in both directions: of what succeeded and of what went
wrong.  Calls go wrong just when a static method is involved, which is the guard
of those actions and no property; `DisciplinedIsSafe` says that nothing goes
wrong in programs which write bases first, fields before methods and no static
methods.

**Lowering.**  The method body grows by one visitor event at a time: start or
end a construct.  Both visitors are followed at once, since `hasRet` of a
statement depends on that statement only; an ending that `TypeChecker`
rejects ends the run.  Blocks hold points (evaluated expressions), branches
and returns.  The ghost variables `pend` and `flow` record which point may
follow which by the meaning of the statements, without blocks, and `clean`
that no statement so far follows a returning one.  Run-time checks are one
kind of expression ("checked"): all three of the code (index, length, cast)
have the same shape.  The bound is `MaxSize`, where a statement and a check
count one each (empty statements are free).

**MemberTable.**  `Init` picks a forest and a source order; the visitor is in
class `order[at]` and comes to one member at a time, any field or method that
the constants offer, until it leaves the class (`EndClass`).  Each branch of
`declareVar` and `declareMethod` is an action: the errors `OverrideVar`,
`ConflictVar`, `VoidVar`, `ConflictMethod`, `OverrideMismatch`, and the
declarations `AddVar`, `AddMethod`.  `symbols` are the class scopes; `source`
remembers what was written, declared or not, for the properties and the bound.
`Finish` is `checkMain`.  Fields are of type int or void, since no rule looks
at another type.  The properties are about every order of the classes.  A class
`Sees` an ancestor if no class on the way down to it is written before that;
`OverridesAreSound` and `AcceptedIsLegal` hold each member against those of the
ancestors its class sees, wherever other classes are written.  What a class does
not see is missed: the program with a field in a class that is written before
its base, and a field of the same name in the base, is accepted.  And an
inherited `main` is taken for `Main`'s own.

**Names.**  The first walk chooses the body, event by event (a parameter, the
start and end of a block, a definition with the names its initialiser uses, a
use) and declares; the second and third walk the same body and look up, by
position, in the finished tree.  `static` and `outer` say what an identifier
is around the method.  The third walk gives each local its value when it
leaves the definition, so that `NullLoadExactly` can say which loads have no
address: those of a local in its own initialiser.  `Blocks` reads the body once
and keeps a stack of what is in scope; the refinement maps each walk to that
reading.

**Expressions.**  One statement in a class with a base: a tree grows in the
order in which the visitors enter and leave its nodes.  Each visitor of
`TypeChecker` and of `CodeGenVisitor` has an operator, which gives the type it
keeps, what it reports, and the LLVM type of the value, or that there is no
code (a null value used, a call with the wrong operands, an operand of the
wrong type; LLVM is built without assertions, so such a module is invalid and
not a stop).  Where the checker itself crashes (a null symbol used) the run
ends; `GeneratesExactly` is about statements that it accepts.  `allowClassName` is a variable, restored where the code restores
it, and the error type is followed.  What a name stands for is chosen
from what `Names` and `MemberTable` can deliver.  Arrays have one dimension;
there is no object of the null type to operate on; and a statement has one
expression, two for an assignment.

**Literals.**  One source, read with the lexer's modes token by token: the
string that is collected, the errors and what becomes of an unterminated
string; then `CodeGenVisitor` makes the constant, replacing the escapes.
Characters are those that the grammar tells apart.  An integer is a prefix and digits; the
three bases and the largest int are constants, scaled down in the run, so that
every literal around the limit is tried.  `StringsAreWritten` says exactly which
strings get the text that was meant, those without an escape right behind
another; `PassOver` is the branch the code says it never takes, and
`EscapesAreKnown`, that it does not, is violated.  `IntegersExactly` says which
integers are rejected and which stop the compiler (those with a leading zero
that fit as octal numbers and not as decimal ones); of the others, decimal ones
get their value and hexadecimal ones are generated as 0.

## What the runs show

| Run | Bounds | Shows |
|---|---|---|
| `class_table` | 3 names, 4 definitions | legal programs pass, accepted ones are the stated forest, one report per cycle, only cycles are cut; when exactly the pass ends: a class leading into a later cycle makes `checkBase` run for ever |
| `member_table` | 3 members in all: methods named `main`, one at most static, over 3 classes, or of any name over 2 | overriding is sound over one and two bases; what is accepted keeps the rules as far as classes see their ancestors; legal programs pass in any order |
| `names` | 2 identifiers, 7 events | which declarations succeed, which loads have no address; lookup by position implements block structure |
| `expressions` | 2 classes and an undeclared one, 5 nodes | what is rejected, which types are kept, for which accepted statements there is no code |
| `lowering` | size 5, checks in any expression | loop exits, `hasRet`, branch targets, terminators and the control flow of the blocks |
| `lowering_terminators` | size 3, no checks | **violation**: two terminators in a block |
| `vtable` | 3 classes, 2 methods | dispatch reaches the most derived method; tables are complete, names occur once; the generation implements the abstract tables and completes |
| `constructor_order` | 4 classes | **violation**: a class written before its base has a constructor in the base's body |
| `objects` | 3 classes, 4 members and objects, 2 fields, 1 method, values 0 and 1 | which constructors are right, of which classes there can be objects and which fields can be used, a discipline under which nothing goes wrong, and that the operations that do not go wrong implement objects with a class and fields; `instanceof` ends |
| `objects_fields` | 3 classes, 2 members and objects | **violation**: a field after a method is not reached |
| `literals` | 7 characters, 5 digits, bases 2, 3 and 4, largest int 10 | strings are read as written and their constants hold what was meant, with the exceptions stated; which integers are accepted and what they become |
| `literals_wouldnt_go` | as `literals` | **violation**: a backslash that begins no escape is found |

Three names and four definitions are enough for the class passes: a cycle of
two, a class leading into it and a duplicate of any of them fit.  Three
classes give every forest with a grandparent or two children; two methods give
an override and an addition in one class.  A size of five holds a loop in a
loop with a conditional break, and a conditional with both sides returning
inside a loop, with a checked condition.  Three members are a declaration, its
overriding and the overriding of that; `Main` has to have one of them when the
program is accepted.  Seven events hold a definition, a block with another of
the same name and uses before, between and behind.  Five nodes hold a call
through a selection with an argument, or an assignment between two nested
operands.  Four members and objects are a field and a method in each of two
classes, or two fields, a method and an object of a derived class.

Some runs have a `CONSTRAINT`, to leave out what only multiplies states; the
comment at each says what.  `MCObjects` has members for one source order only,
since the struct and the numbers do not look at it, and for the orders with a
base after a derived class the constructors are compared alone.  No
constraint keeps a walk or a phase from ending.  Only `names` uses symmetry,
over the identifiers, and it has no liveness property.

**Fairness.**  Weak fairness of the whole next-state relation is assumed in
`ClassTable`, `VTable` and `Constructor`: the compiler is one thread whose
loops and recursion go on as long as a step is possible.  In `Objects`, only
the generation of the constructors and the walk of `instanceof` are fair; a
program need not make or use objects.  Deadlock is not checked, since every
model ends when the phase it models does.

## What is proved

With TLAPS, for any finite or infinite set of names, any number of classes and
any source order, unless stated:

* `ClassTableProofs`: `TypeCorrect`, `AcceptedForest`, `LegalAccepted`,
  `CyclesReportedOnce`, `CutsOnlyCycles`.  The inductive invariant `ForestInv`
  says that the map differs from the stated one only where a cycle was
  reported, and that a class already checked without a report cannot be on a
  cycle of what is left; acyclicity is stated by closed sets (a set in which
  every class has its base), which makes it provable without induction.
  `CycleInv` adds what counting the reports needs: each blamed class stands on
  a stated cycle of its own, every class behind the pass reaches a root, and
  `ptr` is an ancestor of the class at hand.  On a cycle the ancestors lead
  back, so a cycle that is met has no blamed class yet.
* `HierarchyProofs`: how ancestors and most derived definitions change from a
  base to the class that extends it, and that the ancestors of a class lie in
  line.  Induction over the numbers is stated here with sets (`UpTo`: a set that
  has 0 and with each number below `n` its successor has all up to `n`), from
  the well-foundedness of `<`; it makes functions defined by recursion provable.
* `ObjectsProofs`, of `VTable`: `VTableTypeCorrect`, `DispatchCorrect`, `CompleteTables`,
  `RefinesDispatchTables` (finite names).  The inductive invariant adds, for
  the table being filled, that slots of the base keep their names and that an
  owner is either inherited or the class itself; completeness adds that the
  methods before the one at hand are in the table.  The last theorem is the
  safety half of the refinement: finished tables are those of the abstract
  specification, a base before the classes that extend it, and never change.
* `ObjectsProofs`, of `Constructor`: `ConstructorsProper`,
  `ConstructorTypeCorrect`, `ConstructorsProperExactly` (finite names).  With bases first the recursion
  never starts a second function, so the insertion point stays.  For any order
  the invariant `TurnInv` describes each turn of the loop of `genClasses`: the
  constructors that turn starts, and that all code of the turn goes to the one
  started last, which leaves the others empty and, unless it is that of the
  class of the turn, makes that one too long.
* `ObjectsProofs`, of `Objects`: `ConstructorsOfPrograms`,
  `ObjectsLieApart`, `NewFailuresExact`, `FieldFailuresExact`,
  `DisciplineIsEnough` and `ObjectsImplement`, the refinement of `ObjectStore` (finite names and members;
  any forest, any lists of symbols, any number of objects).  The arithmetic
  is that of `genLLVMStruct` and `getFieldPtr`: a struct is as long as those of
  its ancestors together and its own fields, so that the places of two
  fields of one class differ, and a field's place is the same in every class
  that inherits it.  A number that counts the symbols before it, methods
  included, is the field's place exactly if no method is before it.  `ObjInv`
  has the invariants of the generation, the heap (`HeapInv`: objects without
  gaps, each with its class in its first word), the runtime's walk (`WalkInv`:
  what is left to visit decides as much as the whole chain), what was last
  seen (`SeenInv`: a new object's class has its constructors, a field that was
  used compiles) and, for each fault, the operation that made it
  (`FaultInv`).  In the refinement an object's promise is its class and the
  words its fields have; a write changes one word, which no other field of any
  object has.
* `LoweringProofs`: `LoweringTypeCorrect`, `ExitsCorrect`, `HasRetCorrect`,
  `BranchesStayInside`, `WellFormedCorrect`, `FlowCorrect`, for bodies of any size.  The invariant `LoweringInv`
  says that the builder's block and every block a construct has in store
  exist, and matches the exits with the open loops by counting them: the n-th
  exit belongs to the loop with n loops up to it.  That `break` finds one
  needs a loop that is innermost, which is the maximum of a finite set, taken
  from a well-founded order.  `RetInv` adds what has to be remembered about
  the side before `else` until its `if` ends: if it returned, control leaves
  it nowhere.  `DangleInv` says that each branch leads into the function or to
  a block that an open construct will still place: its else block, its out
  block, or a merge block that is only left out when nothing leads to it.
  For `WellFormedCorrect`, while the
  method is `clean` every block but the builder's is closed by its only
  terminator or, if not in the function yet, empty, and the builder's block is
  closed exactly after a statement that returned.  Once it is not, an
  instruction stands behind a terminator, or the next one inserted will; none
  of the builder's operations takes it back.  The blocks that open constructs
  will place are pairwise different and still out of the function.
  `FlowCorrect` needs to say where control goes in code that is not finished.
  Each block leads to the places that control comes to first from it, a place
  being a point or the end of what is written of a block (`Graph`), and to
  each place come the points before it (`Ways`).  `FlowInv` says that the
  points before the builder's place are `pend`, that those before the first
  places of the blocks in store are what each open construct waits for
  (`Waits`: the condition before its else block, the ends of the loop before
  its out block), and that `flow` is what the ways give.  A point moves on
  one place, a terminator hands what came to it to its targets, and the rest
  of the builder's operations change nothing.  That the reference's recursion,
  which passes at most as many blocks as there are, comes to the end
  of every chain of blocks that only branch is a matter of a rank that grows
  along the chain (`Ranked`): when a block is ended, the empty blocks that it
  branches to get the highest rank, and the branch back of a loop leads to a
  block that starts with its condition.
* `MemberTableProofs`: `OverridingSound`, `LegalMembersAccepted`,
  `AcceptedMembersLegal`, `MembersTypeCorrect` (finite names).  The pass reports nothing exactly when every member
  met is right by itself and declared once, and `declareMethod` compares with
  the nearest ancestor that has declared the name; overriding is transitive,
  which carries the result to the far ones.  Scopes of classes to come are empty:
  of an ancestor that a class sees, the members are complete when the class, or
  one in between, is checked.
* `NamesProofs`: `LookupIsBlockStructure`, the refinement of `Blocks` by
  `Names`, `OnlyOwnInitialisersCrash`, `DeclarationsFollowBlocks` and
  `NamesTypeCorrect`, for any identifiers and bodies of any length.  The
  invariant says of the finished tree that a scope's declarations stand behind
  its opening and before its end, so that of all declarations in the current
  path those at positions before the use are just the ones that a reader from
  the left has met, and that a later declaration in the same scope was
  rejected.  `LoadInv` adds that the generator has entered every parameter and
  every local before the place it has reached; `ExactInv`, that a block
  encloses a position exactly when its scope is on the path there.
* `LiteralsProofs`: `LiteralsTypeCorrect`, `StringsReadCorrectly`,
  `StringsWritten` and `IntegersCorrect`, for sources of any length, any three
  bases that grow and any largest int.  Which backslashes start an escape is a
  function by recursion over the source; the lexer's invariant is that what it
  has taken is a clean prefix, which does not end inside an escape.  For
  the generator, the meaning of a text is followed from each character to
  the next, and the invariant `Written` relates the text replaced so far to
  it: they agree (`Alike`) until an escape stands right behind another one;
  from then on the search is behind a row of backslashes too long for the
  meaning (`Ahead`, or `Amid` inside an escape), and once another character
  comes, has written something else (`Different`), which later replacements do
  not touch.  So the text comes out right exactly without such escapes.
  `std::stoi` is the value of the longest prefix whose digits the base has, and
  grows with the base, which decides the integers near the limit.
* `ExpressionsProofs`: `ExpressionsInvariant`, `ExpressionsTypeCorrect`,
  `TypeCheckerIsExact`, `ExpressionTypesKept` and `CodeGeneratorIsExact`, for
  statements of any size in any classes.  The invariant `ExpressionsInv` has
  two functions on the nodes: `S` gives for each node the answers its visitor
  has heard from its operands, in their places, and `U` its ancestors.  The
  open visitors are a path of the tree, each with the answers heard so far
  (`Stack`); a node that was left answered what the visitors answer for its
  form and those operands (`Right`); and `allowClassName` is up exactly if the
  top stands in the prefix of a call or selection (`FlagRight`).  At the end
  the reference's types, which are defined by recursion over the tree, are
  compared with the answers by induction from the last node back: a node is
  `Fine` if it answered the type of the rule.  A node that did not has an error
  of its own or an operand with the error type, and every error sets `failed`;
  conversely an error that is reported is one of a rule.  For code, a node has
  some exactly when its operands have (`KidsCoded`) and it is not itself one of
  the gaps (`Flaw`): LLVM types of the values agree with the checked types
  except for names of classes, and of the gaps only those are met whose node
  is evaluated (`Used`, which goes down from the root).

Every safety invariant of the passing runs is stated by a theorem.  Only
model-checked is everything under fairness (`EndsUnlessEarlyLasso`,
`AllGenerated`, `InstanceOfReturns` and the end of the generation in
`ImplementsDispatchTables`), since the prover has no rules for `ENABLED`.

An induction theorem that takes an operator cannot be used with the provers at
hand, so recursion is written with functions and induction with sets, as said
of `HierarchyProofs`.  What selects from a sequence or folds one by a
recursive operator of a library stays out of reach, and the definitions that
are proved about do not use it.

## What is not modelled

* The parser is generated, and its run-time is the vendored ANTLR library
  (about 15 000 of the repository's 21 000 lines are that library's headers).
  The project's own code is some 6 000 lines, of which the AST printer, error
  wording, the printing of scopes, accessors and include lists keep no state
  that a property could be about.
* Programs with syntax errors: `main.cpp` does not look at the parser's error
  count, and what ANTLR's recovery leaves of the tree is the library's.
* The driver is a straight line of calls; each model contains the test with
  which its phase ends.  `RuntimeChecker` is empty.
* The memory of arrays, and arithmetic, which is one LLVM instruction per operator.
* Input and output of `runtime.c`, which are calls of the C library.  Its
  buffer of 64 bytes is listed among the hazards.

Facts that were met and that no run states: `&&` and `||` have no visitor in
`CodeGenVisitor`, whose default evaluates both operands and keeps the right
one's value (`Expressions` has it so); the names of the functions of two
classes can be the same once joined with `_` (`VTable.cpp:74-81`); a member
call reads the vptr of its object without a test for null.

## Plan

1. Done: the class passes, vtables, constructors, statements, members; names
   against block structure; expressions; objects against their abstraction;
   literals; theorems for all of them.
2. Arrays of more dimensions and their memory.
