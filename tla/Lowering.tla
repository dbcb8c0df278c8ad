------------------------------ MODULE Lowering ------------------------------
(***************************************************************************)
(* One method body through the two visitors that must agree about it.      *)
(* TypeChecker computes which statements surely return (hasRet) and counts *)
(* the open loops; CodeGenVisitor turns the same statements into basic     *)
(* blocks through one IRBuilder, relying on hasRet to know whether a       *)
(* branch already ended its block.  hasRet of a statement only depends on  *)
(* that statement, so both visitors are followed in one walk: the body     *)
(* grows by the visitor event that comes next, of all that can.            *)
(*                                                                         *)
(* An instruction is known by its place, <<block, index>>.  Evaluating an  *)
(* expression emits one "point"; a checked expression, with an array       *)
(* access or allocation in it, ends its block with a bounds check.         *)
(* "pend" and "flow" follow the meaning of the statements as the language  *)
(* has it, without blocks: they are what the blocks are compared with.     *)
(***************************************************************************)
EXTENDS Integers, Sequences, FiniteSets

CONSTANTS
  Exprs,     \* the kinds of expressions that occur
  MaxSize    \* bound on the statements and run-time checks of the body

ASSUME LoweringAssumption == Exprs \subseteq {"plain", "checked"} /\ MaxSize \in Nat

VARIABLES
  isVoid,     \* the method's return type is void
  open,       \* the constructs being visited, the body's block first
  size,       \* statements so far, empty ones not counted, and checks
  phase,      \* whether the compiler is still at work
  loopLevel,  \* TypeChecker::loopLevel
  ir,         \* the function's blocks and the builder's insertion block
  loopExits,  \* CodeGenVisitor::loopExits
  clean,      \* nothing so far may run on after a statement that returns
  pend,       \* the points after which control is at the present one
  flow        \* pairs of points that follow each other

vars == <<isVoid, open, size, phase, loopLevel, ir, loopExits, clean, pend, flow>>

Returns == {"none", "noret", "ret"}   \* of a statement; none before its end
Place == Nat \X Nat
Entry == <<0, 0>>

Frame ==
  [kind : {"block", "then", "else", "loop"},
   done : Returns,                    \* hasRet of the last statement inside
   back : Nat, out : Nat,             \* inBB or elseBB, outBB or mergeBB
   cond : Place,                      \* the point that evaluates the condition
   thenRet : Returns,                 \* hasRet of the statement before else
   ends : SUBSET Place,               \* where control leaves for out
   update : {"none"} \cup Exprs]      \* forUpdate

F(kind, back, out, cond, ends, update) ==
  [kind |-> kind, done |-> "none", back |-> back, out |-> out, cond |-> cond,
   thenRet |-> "none", ends |-> ends, update |-> update]

Block == F("block", 0, 0, Entry, {}, "none")

Instr == [op : {"point", "br", "ret"}, to : SUBSET Nat]
BasicBlock == [code : Seq(Instr), placed : BOOLEAN]
IR == [blocks : Seq(BasicBlock), at : Nat]

Point == [op |-> "point", to |-> {}]
Br(targets) == [op |-> "br", to |-> targets]
Ret == [op |-> "ret", to |-> {}]
IsTerminator(i) == i.op # "point"

-----------------------------------------------------------------------------
(* The IRBuilder and the functions of the code that drive it.              *)
Put(s, i) == [s EXCEPT !.blocks[s.at].code = Append(@, i)]
Create(s, placed) == [s EXCEPT !.blocks = Append(@, [code |-> <<>>, placed |-> placed])]
PlaceAt(s, b) == [blocks |-> [s.blocks EXCEPT ![b].placed = TRUE], at |-> b]
SetInsertPoint(s, b) == [s EXCEPT !.at = b]

Fresh(s) == Len(s.blocks) + 1
Loc(s) == <<s.at, Len(s.blocks[s.at].code) + 1>>

(* checkArrayIdx and checkArrayLen: the failing side halts in chkBB, but   *)
(* that block also ends with a branch to outBB.                            *)
CheckArray(s) ==
  LET chk == Fresh(s)
      s1  == Put(Create(Create(s, TRUE), FALSE), Br({chk, chk + 1}))
      s2  == Put(SetInsertPoint(s1, chk), Br({chk + 1}))
  IN  PlaceAt(s2, chk + 1)

Eval(s, e) == IF e = "checked" THEN CheckArray(Put(s, Point)) ELSE Put(s, Point)

(* The condition of a loop is evaluated and branched on, its targets made  *)
(* by then; control is left at the end of the current block.               *)
Branch(s, e, targets) == Put(Eval(s, e), Br(targets))

Init ==
  /\ isVoid \in BOOLEAN
  /\ open = <<Block>>
  /\ size = 0
  /\ phase = "visiting"
  /\ loopLevel = 0
  /\ ir = [blocks |-> <<[code |-> <<>>, placed |-> TRUE]>>, at |-> 1]
  /\ loopExits = <<>>
  /\ clean = TRUE
  /\ pend = {Entry}
  /\ flow = {}

top == open[Len(open)]
Outer == SubSeq(open, 1, Len(open) - 1)

(* A statement may come next: blocks take any number, the others one.      *)
AtStatement == phase = "visiting" /\ (top.kind = "block" \/ top.done = "none")
Inside(kind) == phase = "visiting" /\ top.kind = kind /\ top.done # "none"

Size(e) == IF e = "checked" THEN 1 ELSE 0

Starts(n) ==
  /\ AtStatement /\ size + 1 + n <= MaxSize
  /\ size' = size + 1 + n
  /\ clean' = (clean /\ top.done # "ret")

(* What the enclosing construct learns when a statement is complete.       *)
Ends(fs, r) == [fs EXCEPT ![Len(fs)].done = r]

FlowTo(p) == pend \X {p}

-----------------------------------------------------------------------------
Empty ==
  /\ AtStatement
  /\ clean' = (clean /\ top.done # "ret")
  /\ open' = Ends(open, "noret")
  /\ UNCHANGED <<isVoid, size, phase, loopLevel, ir, loopExits, pend, flow>>

(* An expression, an assignment, a local variable or a print.              *)
Simple(e) ==
  /\ Starts(Size(e))
  /\ open' = Ends(open, "noret")
  /\ ir' = Eval(ir, e)
  /\ pend' = {Loc(ir)}
  /\ flow' = flow \cup FlowTo(Loc(ir))
  /\ UNCHANGED <<isVoid, phase, loopLevel, loopExits>>

(* A void method may return the value of a call of a void method.          *)
Return(e) ==
  /\ Starts(Size(e))
  /\ open' = Ends(open, "ret")
  /\ ir' = Put(Eval(ir, e), Ret)
  /\ pend' = {}
  /\ flow' = flow \cup FlowTo(Loc(ir))
  /\ UNCHANGED <<isVoid, phase, loopLevel, loopExits>>

(* TypeChecker visits the expression that "return;" does not have.         *)
ReturnNothing ==
  /\ Starts(0)
  /\ phase' = "crashed"
  /\ UNCHANGED <<isVoid, open, loopLevel, ir, loopExits, pend, flow>>

InnermostLoop ==
  CHOOSE i \in DOMAIN open :
    /\ open[i].kind = "loop"
    /\ \A j \in DOMAIN open : j > i => open[j].kind # "loop"

(* Mutant: no new block for the code after the break.                      *)
BreakInPlace ==
  /\ Starts(0) /\ loopLevel > 0
  /\ open' = Ends([open EXCEPT ![InnermostLoop].ends = @ \cup pend], "noret")
  /\ ir' = Put(ir, Br({loopExits[Len(loopExits)]}))
  /\ pend' = {}
  /\ UNCHANGED <<isVoid, phase, loopLevel, loopExits, flow>>

(* Mutant: the exit is taken from the wrong end of the list.               *)
BreakOutermost ==
  /\ Starts(0) /\ loopLevel > 0
  /\ open' = Ends([open EXCEPT ![InnermostLoop].ends = @ \cup pend], "noret")
  /\ LET s == Put(ir, Br({loopExits[1]}))
     IN  ir' = SetInsertPoint(Create(s, TRUE), Fresh(s))
  /\ pend' = {}
  /\ UNCHANGED <<isVoid, phase, loopLevel, loopExits, flow>>

Break ==
  /\ Starts(0) /\ loopLevel > 0
  /\ open' = Ends([open EXCEPT ![InnermostLoop].ends = @ \cup pend], "noret")
  /\ LET s == Put(ir, Br({loopExits[Len(loopExits)]}))
     IN  ir' = SetInsertPoint(Create(s, TRUE), Fresh(s))
  /\ pend' = {}
  /\ UNCHANGED <<isVoid, phase, loopLevel, loopExits, flow>>

BreakOutsideLoop ==
  /\ Starts(0) /\ loopLevel = 0
  /\ phase' = "rejected"
  /\ UNCHANGED <<isVoid, open, loopLevel, ir, loopExits, pend, flow>>

OpenBlock ==
  /\ Starts(0)
  /\ open' = Append(open, Block)
  /\ UNCHANGED <<isVoid, phase, loopLevel, ir, loopExits, pend, flow>>

(* hasRet of a block is that of its last statement.                        *)
CloseBlock ==
  /\ phase = "visiting" /\ top.kind = "block" /\ Len(open) > 1
  /\ open' = Ends(Outer, IF top.done = "ret" THEN "ret" ELSE "noret")
  /\ UNCHANGED <<isVoid, size, phase, loopLevel, ir, loopExits, clean, pend, flow>>

-----------------------------------------------------------------------------
If(e) ==
  /\ Starts(Size(e))
  /\ LET s     == Eval(ir, e)
         then  == Fresh(s)
         else  == then + 1
         merge == then + 2
         made  == Create(Create(Create(s, TRUE), FALSE), FALSE)
     IN  /\ ir' = SetInsertPoint(Put(made, Br({then, else})), then)
         /\ open' = Append(open, F("then", else, merge, Loc(ir), {}, "none"))
  /\ pend' = {Loc(ir)}
  /\ flow' = flow \cup FlowTo(Loc(ir))
  /\ UNCHANGED <<isVoid, phase, loopLevel, loopExits>>

(* The then or else statement is complete: no branch after a return.       *)
ToMerge == IF top.done = "ret" THEN ir ELSE Put(ir, Br({top.out}))

Else ==
  /\ Inside("then")
  /\ ir' = PlaceAt(ToMerge, top.back)
  /\ open' = [open EXCEPT ![Len(open)] =
                [@ EXCEPT !.kind = "else", !.thenRet = top.done, !.done = "none", !.ends = pend]]
  /\ pend' = {top.cond}
  /\ UNCHANGED <<isVoid, size, phase, loopLevel, loopExits, clean, flow>>

EndIf ==
  /\ Inside("then")
  /\ ir' = PlaceAt(Put(PlaceAt(ToMerge, top.back), Br({top.out})), top.out)
  /\ open' = Ends(Outer, "noret")
  /\ pend' = pend \cup {top.cond}
  /\ UNCHANGED <<isVoid, size, phase, loopLevel, loopExits, clean, flow>>

(* Mutant: one returning side is taken for both.                           *)
EndIfEither ==
  /\ Inside("else")
  /\ LET returns == top.thenRet = "ret" \/ top.done = "ret"
     IN  /\ ir' = IF returns THEN ToMerge ELSE PlaceAt(ToMerge, top.out)
         /\ open' = Ends(Outer, IF returns THEN "ret" ELSE "noret")
  /\ pend' = top.ends \cup pend
  /\ UNCHANGED <<isVoid, size, phase, loopLevel, loopExits, clean, flow>>

(* Mutant: mergeBB is left out when the then side returns.                 *)
EndIfForgetMerge ==
  /\ Inside("else")
  /\ LET returns == top.thenRet = "ret" /\ top.done = "ret"
     IN  /\ ir' = IF top.thenRet = "ret" THEN ToMerge ELSE PlaceAt(ToMerge, top.out)
         /\ open' = Ends(Outer, IF returns THEN "ret" ELSE "noret")
  /\ pend' = top.ends \cup pend
  /\ UNCHANGED <<isVoid, size, phase, loopLevel, loopExits, clean, flow>>

EndIfElse ==
  /\ Inside("else")
  /\ LET returns == top.thenRet = "ret" /\ top.done = "ret"
     IN  /\ ir' = IF returns THEN ToMerge ELSE PlaceAt(ToMerge, top.out)
         /\ open' = Ends(Outer, IF returns THEN "ret" ELSE "noret")
  /\ pend' = top.ends \cup pend
  /\ UNCHANGED <<isVoid, size, phase, loopLevel, loopExits, clean, flow>>

-----------------------------------------------------------------------------
(* Mutant: loopLevel is not incremented.                                   *)
EnterLoopUncounted(s, in, e, update) ==
  /\ ir' = PlaceAt(Branch(SetInsertPoint(Put(s, Br({in})), in), e, {in + 1, in + 2}), in + 1)
  /\ loopExits' = Append(loopExits, in + 2)
  /\ UNCHANGED loopLevel
  /\ open' = Append(open, F("loop", in, in + 2, <<in, 1>>, {<<in, 1>>}, update))
  /\ pend' = {<<in, 1>>}

(* inBB, bodyBB and outBB are made, the builder goes through the condition *)
(* in inBB to bodyBB; s is where the loop is entered from.                 *)
EnterLoop(s, in, e, update) ==
  /\ ir' = PlaceAt(Branch(SetInsertPoint(Put(s, Br({in})), in), e, {in + 1, in + 2}), in + 1)
  /\ loopExits' = Append(loopExits, in + 2)
  /\ loopLevel' = loopLevel + 1
  /\ open' = Append(open, F("loop", in, in + 2, <<in, 1>>, {<<in, 1>>}, update))
  /\ pend' = {<<in, 1>>}

LoopBlocks == Create(Create(Create(ir, TRUE), FALSE), FALSE)

While(e) ==
  /\ Starts(Size(e))
  /\ EnterLoop(LoopBlocks, Fresh(ir), e, "none")
  /\ flow' = flow \cup FlowTo(<<Fresh(ir), 1>>)
  /\ UNCHANGED <<isVoid, phase>>

For(init, e, update) ==
  /\ Starts(Size(init) + Size(e) + Size(update))
  /\ EnterLoop(Eval(LoopBlocks, init), Fresh(ir), e, update)
  /\ flow' = flow \cup FlowTo(Loc(ir)) \cup {<<Loc(ir), <<Fresh(ir), 1>>>>}
  /\ UNCHANGED <<isVoid, phase>>

(* CodeGenVisitor visits the forInit or forUpdate that is not there.  The  *)
(* rest of the body is one that TypeChecker accepts.                       *)
ForWithoutPart ==
  /\ Starts(0)
  /\ phase' = "crashed"
  /\ UNCHANGED <<isVoid, open, loopLevel, ir, loopExits, pend, flow>>

(* Mutant: the loop's exit is not popped.                                  *)
EndLoopKeepExit ==
  /\ Inside("loop")
  /\ LET s == IF top.update = "none" THEN ir ELSE Eval(ir, top.update)
     IN  ir' = PlaceAt(Put(s, Br({top.back})), top.out)
  /\ open' = Ends(Outer, "noret")
  /\ loopLevel' = loopLevel - 1
  /\ clean' = (clean /\ top.done # "ret")
  /\ pend' = top.ends
  /\ flow' = flow \cup (IF top.update = "none" THEN FlowTo(top.cond)
                        ELSE FlowTo(Loc(ir)) \cup {<<Loc(ir), top.cond>>})
  /\ UNCHANGED <<isVoid, size, phase, loopExits>>

(* The body is complete: forUpdate follows it, whatever its hasRet.        *)
EndLoop ==
  /\ Inside("loop")
  /\ LET s == IF top.update = "none" THEN ir ELSE Eval(ir, top.update)
     IN  ir' = PlaceAt(Put(s, Br({top.back})), top.out)
  /\ open' = Ends(Outer, "noret")
  /\ loopExits' = SubSeq(loopExits, 1, Len(loopExits) - 1)
  /\ loopLevel' = loopLevel - 1
  /\ clean' = (clean /\ top.done # "ret")
  /\ pend' = top.ends
  /\ flow' = flow \cup (IF top.update = "none" THEN FlowTo(top.cond)
                        ELSE FlowTo(Loc(ir)) \cup {<<Loc(ir), top.cond>>})
  /\ UNCHANGED <<isVoid, size, phase>>

-----------------------------------------------------------------------------
AtMethodEnd == phase = "visiting" /\ Len(open) = 1

MissingReturn ==
  /\ AtMethodEnd /\ ~isVoid /\ top.done # "ret"
  /\ phase' = "rejected"
  /\ UNCHANGED <<isVoid, open, size, loopLevel, ir, loopExits, clean, pend, flow>>

EndValueMethod ==
  /\ AtMethodEnd /\ ~isVoid /\ top.done = "ret"
  /\ phase' = "generated"
  /\ UNCHANGED <<isVoid, open, size, loopLevel, ir, loopExits, clean, pend, flow>>

(* A return is emitted at the end of a void method in any case.            *)
EndVoidMethod ==
  /\ AtMethodEnd /\ isVoid
  /\ phase' = "generated"
  /\ ir' = Put(Put(ir, Point), Ret)
  /\ clean' = (clean /\ top.done # "ret")
  /\ pend' = {}
  /\ flow' = flow \cup FlowTo(Loc(ir))
  /\ UNCHANGED <<isVoid, open, size, loopLevel, loopExits>>

Next ==
  \/ Empty \/ ReturnNothing \/ Break \/ BreakOutsideLoop
  \/ \E e \in Exprs : Simple(e) \/ Return(e) \/ If(e) \/ While(e)
  \/ \E init, e, update \in Exprs : For(init, e, update)
  \/ ForWithoutPart
  \/ OpenBlock \/ CloseBlock \/ Else \/ EndIf \/ EndIfElse \/ EndLoop
  \/ MissingReturn \/ EndValueMethod \/ EndVoidMethod

Spec == Init /\ [][Next]_vars

-----------------------------------------------------------------------------
Blocks == DOMAIN ir.blocks
Code(b) == ir.blocks[b].code
Placed(b) == ir.blocks[b].placed
Targets(b) == IF Code(b) = <<>> THEN {} ELSE Code(b)[Len(Code(b))].to

(* One terminator, and it is the last instruction.                         *)
WellFormed(b) ==
  /\ Code(b) # <<>>
  /\ \A i \in DOMAIN Code(b) : IsTerminator(Code(b)[i]) <=> i = Len(Code(b))

(* The points control comes to first when it enters a block, passing at    *)
(* most n blocks that only branch.                                         *)
FirstPoints[n \in 0..Len(ir.blocks)] ==
  [b \in Blocks |->
     IF Code(b)[1].op = "point" THEN {<<b, 1>>}
     ELSE IF n = 0 THEN {} ELSE UNION {FirstPoints[n - 1][t] : t \in Targets(b)}]

Leads(b) == FirstPoints[Len(ir.blocks)][b]

Points == UNION {{<<b, i>> : i \in {j \in DOMAIN Code(b) : Code(b)[j].op = "point"}} : b \in Blocks}

(* The points that follow p in the emitted code.                           *)
Following(p) ==
  LET code == Code(p[1]) IN
    IF code[p[2] + 1].op = "point" THEN {<<p[1], p[2] + 1>>}
    ELSE UNION {Leads(t) : t \in code[p[2] + 1].to}

EmittedFlow ==
  {<<Entry, q>> : q \in Leads(1)} \cup UNION {{<<p, q>> : q \in Following(p)} : p \in Points}

LoopsOpen == {i \in DOMAIN open : open[i].kind = "loop"}

-----------------------------------------------------------------------------
(* Types; the builder inserts into a block that exists, and the body's own *)
(* block stays open until the end.                                         *)
TypeOK ==
  /\ isVoid \in BOOLEAN
  /\ open \in Seq(Frame) /\ open # <<>> /\ open[1].kind = "block"
  /\ size \in 0..MaxSize
  /\ phase \in {"visiting", "rejected", "crashed", "generated"}
  /\ loopLevel \in Nat
  /\ ir \in IR /\ ir.at \in Blocks
  /\ loopExits \in Seq(Nat)
  /\ clean \in BOOLEAN
  /\ pend \subseteq Place
  /\ flow \subseteq Place \X Place

(* The two visitors agree on the open loops: a break TypeChecker lets pass *)
(* finds an exit on loopExits (back() of an empty list is undefined),      *)
(* and the n-th exit is that of the n-th open loop.                        *)
LoopExitsAreOpenLoops ==
  /\ loopLevel = Cardinality(LoopsOpen) /\ Len(loopExits) = loopLevel
  /\ \A i \in LoopsOpen :
       loopExits[Cardinality({j \in LoopsOpen : j <= i})] = open[i].out

(* hasRet tells the truth: control does not get past a statement that has  *)
(* it, so no method with a value runs off its end.                         *)
HasRetStops ==
  /\ top.done = "ret" => pend = {}
  /\ phase = "generated" => pend = {}

(* The builder always inserts into a block of the function, and in the end *)
(* only those are branched to: mergeBB is left out when no branch needs it.*)
NoDanglingTarget ==
  /\ Placed(ir.at)
  /\ phase = "generated" =>
       \A b \in Blocks : Placed(b) =>
         \A i \in DOMAIN Code(b) : \A t \in Code(b)[i].to : Placed(t)

(* The blocks are well-formed exactly for the methods in which no          *)
(* statement follows a returning one in its block, no loop body returns in *)
(* any case, and no void method ends by returning a value.                 *)
WellFormedExactly ==
  phase = "generated" => (clean <=> \A b \in Blocks : Placed(b) => WellFormed(b))

(* For those methods the branches between the blocks take control, from    *)
(* every point of the body, exactly where the statements of the language   *)
(* do: through both sides of an if, around a loop, out of the innermost    *)
(* one at a break, and nowhere from a return.                              *)
FlowIsPreserved == phase = "generated" /\ clean => EmittedFlow = flow

(* The comments of visitMethodDef and visitIfStmt, "BasicBlock must have a *)
(* terminator" and "Every basic block must have only one terminator".      *)
OneTerminatorPerBlock ==
  phase = "generated" => \A b \in Blocks : Placed(b) => WellFormed(b)
=============================================================================
