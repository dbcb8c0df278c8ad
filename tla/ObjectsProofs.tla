--------------------------- MODULE ObjectsProofs ---------------------------
(***************************************************************************)
(* For every program, with any number of classes, members and objects:     *)
(* which constructors come out right, whatever the order of the classes;   *)
(* that its objects lie apart in memory; exactly which operations on them  *)
(* go wrong, and that a program with the discipline stated in Objects has  *)
(* none; that the operations that do not go wrong are those of             *)
(* ObjectStore; and that the method tables they go through are those of    *)
(* DispatchTables.                                                         *)
(***************************************************************************)
EXTENDS Objects, VTable, HierarchyProofs, FiniteSetTheorems, SequenceTheorems

-----------------------------------------------------------------------------
(* The constructors.                                                       *)
(* Every constructor but c's has the code it is meant to have.             *)
ProperBut(c) == \A x \in DOMAIN block : x # c => Proper(x)

BaseReady(c) == base[c] # NoBase => base[c] # c /\ Exists(base[c])

(* With bases first there is never more than the class at hand under       *)
(* construction, its base's constructor exists when it is wanted, and the  *)
(* builder stays in the block it was moved to.                             *)
Emitting(c) ==
  \/ /\ frames = <<F(c, "enter")>>
     /\ ProperBut(NoBase)
  \/ /\ frames \in {<<F(c, "base")>>, <<F(c, "call")>>, <<F(c, "call"), F(base[c], "enter")>>}
     /\ frames # <<F(c, "base")>> => base[c] # NoBase
     /\ ProperBut(c) /\ Exists(c) /\ insert = c /\ block[c] = <<>>
  \/ /\ frames = <<F(c, "vptr")>>
     /\ ProperBut(c) /\ Exists(c) /\ insert = c
     /\ block[c] = IF base[c] = NoBase THEN <<>> ELSE <<I("call_base", c)>>

FirstInv ==
  /\ base \in BaseMap
  /\ order \in SourceOrders
  /\ BaseFirst(base, order) =>
       /\ next \in Nat \ {0}
       /\ DOMAIN block \subseteq Name
       /\ \/ /\ frames = <<>> /\ ProperBut(NoBase)
             /\ \A i \in DOMAIN order : i < next => Exists(order[i])
          \/ /\ next - 1 \in DOMAIN order
             /\ \A i \in DOMAIN order : i < next - 1 => Exists(order[i])
             /\ BaseReady(order[next - 1])
             /\ Emitting(order[next - 1])

LEMMA OrderShape ==
  ASSUME order \in SourceOrders
  PROVE  /\ \E n \in Nat : DOMAIN order = 1..n
         /\ \A i \in DOMAIN order : order[i] \in Name
         /\ \A i, j \in DOMAIN order : order[i] = order[j] => i = j
<1>1. Cardinality(Name) \in Nat
  BY FiniteNames, FS_CardinalityType
<1>2. PICK n \in 0..Cardinality(Name) :
        order \in [1..n -> Name] /\ \A i, j \in 1..n : order[i] = order[j] => i = j
  BY DEF SourceOrders, Rows
<1>. QED BY <1>1, <1>2

LEMMA FirstInit == Init => FirstInv
  BY OrderShape DEF Init, FirstInv, ProperBut

LEMMA FirstImplies == FirstInv => ProperWhenBaseFirst
<1>. SUFFICES ASSUME FirstInv, BaseFirst(base, order), NEW c \in Name, Finished(c)
              PROVE  Proper(c)
  BY DEF ProperWhenBaseFirst
<1>1. CASE ProperBut(NoBase)
  BY <1>1, NoBaseAssumption DEF ProperBut, Finished, Exists
<1>2. CASE ~ProperBut(NoBase)
  <2>. DEFINE d == order[next - 1]
  <2>1. ProperBut(d) /\ 1 \in DOMAIN frames /\ frames[1].cls = d
    BY <1>2 DEF FirstInv, Emitting, F
  <2>. QED BY <2>1 DEF Finished, ProperBut, Exists
<1>. QED BY <1>1, <1>2

(* The frame the steps look at.                                            *)
LEMMA OneFrame ==
  ASSUME NEW c, NEW pc, frames = <<F(c, pc)>>
  PROVE  /\ cname = c /\ frames # <<>> /\ top.pc = pc
         /\ \A q : Goto(q) = <<F(c, q)>>
         /\ Return = <<>>
  BY DEF cname, top, Goto, Return, F

LEMMA TwoFrames ==
  ASSUME NEW c, NEW pc, NEW d, NEW qc, frames = <<F(c, pc), F(d, qc)>>
  PROVE  /\ cname = d /\ frames # <<>> /\ top.pc = qc
         /\ Return = <<F(c, pc)>>
<1>1. Len(frames) = 2 /\ frames[2] = F(d, qc)
  OBVIOUS
<1>2. ASSUME NEW x, NEW y PROVE SubSeq(<<x, y>>, 1, 1) = <<x>>
  <2>1. \A i \in 1..1 : <<x, y>>[i] \in {x}
    OBVIOUS
  <2>2. /\ SubSeq(<<x, y>>, 1, 1) \in Seq({x})
        /\ Len(SubSeq(<<x, y>>, 1, 1)) = 1
    BY <2>1, SubSeqProperties
  <2>. DEFINE p == SubSeq(<<x, y>>, 1, 1)
  <2>3. <<x>> \in Seq({x}) /\ Len(<<x>>) = 1 /\ <<x>>[1] = x
    OBVIOUS
  <2>4. p[1] = x
    BY <2>2, ElementOfSeq
  <2>. HIDE DEF p
  <2>5. p \in Seq({x}) /\ Len(p) = 1
    BY <2>2 DEF p
  <2>6. p = <<x>>
    BY <2>3, <2>4, <2>5, SeqEqual
  <2>. QED BY <2>6 DEF p
<1>3. Return = <<F(c, pc)>>
  BY <1>1, <1>2 DEF Return
<1>. QED BY <1>1, <1>3 DEF cname, top, F

LEMMA AppendPair ==
  ASSUME NEW x, NEW y
  PROVE  Append(<<x>>, y) = <<x, y>>
<1>. DEFINE S == {x, y}
            s == Append(<<x>>, y)
<1>1. <<x>> \in Seq(S) /\ y \in S /\ Len(<<x>>) = 1 /\ <<x>>[1] = x
  OBVIOUS
<1>2. s \in Seq(S) /\ Len(s) = 2 /\ s[1] = x /\ s[2] = y
  BY <1>1, AppendProperties
<1>3. <<x, y>> \in Seq(S) /\ Len(<<x, y>>) = 2 /\ <<x, y>>[1] = x /\ <<x, y>>[2] = y
  OBVIOUS
<1>. HIDE DEF s
<1>4. s = <<x, y>>
  BY <1>2, <1>3, SeqEqual
<1>. QED BY <1>4 DEF s

(* Taking up the next class: its base is already there.                    *)
LEMMA NextClassFirst ==
  ASSUME FirstInv, NextClass, BaseFirst(base, order)
  PROVE  FirstInv'
<1>. USE DEF FirstInv
<1>1. /\ frames = <<>> /\ ProperBut(NoBase) /\ next \in DOMAIN order
      /\ \A i \in DOMAIN order : i < next => Exists(order[i])
      /\ frames' = <<F(order[next], "enter")>> /\ next' = next + 1
      /\ UNCHANGED <<base, order, block, insert>>
  BY DEF NextClass, Emitting, program
<1>2. BaseReady(order[next])
  <2>. SUFFICES ASSUME base[order[next]] # NoBase
                PROVE  base[order[next]] # order[next] /\ Exists(base[order[next]])
    BY DEF BaseReady
  <2>1. PICK j \in DOMAIN order : j < next /\ order[j] = base[order[next]]
    BY <1>1 DEF BaseFirst
  <2>. QED BY <1>1, <2>1, OrderShape
<1>3. next' - 1 = next
  BY <1>1
<1>. QED BY <1>1, <1>2, <1>3 DEF ProperBut, Proper, BaseReady, Exists, Emitting

(* What a step of the emission of c leads to.                              *)
Outcome(c) ==
  /\ UNCHANGED <<base, order, next>>
  /\ DOMAIN block \subseteq DOMAIN block' /\ DOMAIN block' \subseteq Name
  /\ \/ frames' = <<>> /\ ProperBut(NoBase)' /\ Exists(c)'
     \/ Emitting(c)'

LEMMA EmissionStep ==
  ASSUME NEW c \in Name, base \in BaseMap, BaseReady(c), Emitting(c), DOMAIN block \subseteq Name,
         Next
  PROVE  Outcome(c)
<1>0. frames # <<>> /\ c # NoBase
  BY NoBaseAssumption DEF Emitting
<1>1. CASE frames = <<F(c, "enter")>>
  <2>1. /\ cname = c /\ top.pc = "enter" /\ Goto("base") = <<F(c, "base")>> /\ Return = <<>>
    BY <1>1, OneFrame
  <2>2. ProperBut(NoBase)
    BY <1>1 DEF Emitting, F
  <2>3. CASE DontRepeat
    BY <2>1, <2>2, <2>3 DEF DontRepeat, Outcome, program, ProperBut, Proper, Exists
  <2>4. CASE StartEmitting
    <3>1. /\ UNCHANGED <<base, order, next>>
          /\ DOMAIN block' = DOMAIN block \cup {c} /\ ~Exists(c)
          /\ block'[c] = <<>> /\ \A x \in DOMAIN block : block'[x] = block[x]
          /\ insert' = c /\ frames' = <<F(c, "base")>>
      BY <2>1, <2>4 DEF StartEmitting, program, Exists
    <3>2. ProperBut(c)'
      BY <2>2, <3>1, NoBaseAssumption DEF ProperBut, Proper, Exists
    <3>3. frames' # <<F(c, "enter")>>
      BY <3>1 DEF F
    <3>. QED BY <3>1, <3>2 DEF Outcome, Emitting, Exists
  <2>. QED BY <1>0, <2>1, <2>3, <2>4 DEF Next, NextClass, NoBaseCall, GenerateBase, CallBase,
                                        SetVptrAndReturn, At
<1>2. CASE frames = <<F(c, "base")>>
  <2>1. /\ cname = c /\ top.pc = "base"
        /\ Goto("vptr") = <<F(c, "vptr")>> /\ Goto("call") = <<F(c, "call")>>
    BY <1>2, OneFrame
  <2>2. ProperBut(c) /\ Exists(c) /\ insert = c /\ block[c] = <<>>
    BY <1>2 DEF Emitting, F
  <2>3. CASE NoBaseCall
    BY <2>1, <2>2, <2>3 DEF NoBaseCall, Outcome, Emitting, program, ProperBut, Proper, Exists
  <2>4. CASE GenerateBase
    <3>1. ASSUME NEW x, NEW y PROVE Append(<<x>>, y) = <<x, y>>
      BY AppendPair
    <3>2. /\ UNCHANGED <<base, order, next, block, insert>> /\ base[c] # NoBase
          /\ frames' = <<F(c, "call"), F(base[c], "enter")>>
      BY <2>1, <2>4, <3>1 DEF GenerateBase, program
    <3>3. frames' # <<F(c, "base")>>
      BY <3>2
    <3>4. ProperBut(c)'
      BY <2>2, <3>2 DEF ProperBut, Proper
    <3>. QED BY <2>2, <3>2, <3>3, <3>4 DEF Outcome, Emitting, Exists
  <2>. QED BY <1>0, <2>1, <2>3, <2>4 DEF Next, NextClass, DontRepeat, StartEmitting, CallBase,
                                        SetVptrAndReturn, At
<1>3. CASE frames = <<F(c, "call"), F(base[c], "enter")>>
  <2>1. /\ cname = base[c] /\ top.pc = "enter" /\ Return = <<F(c, "call")>>
    BY <1>3, TwoFrames
  <2>2. ProperBut(c) /\ Exists(c) /\ insert = c /\ block[c] = <<>> /\ base[c] # NoBase
    BY <1>3 DEF Emitting, F
  <2>3. CASE DontRepeat
    BY <2>1, <2>2, <2>3 DEF DontRepeat, Outcome, Emitting, program, ProperBut, Proper, Exists, F
  <2>4. CASE StartEmitting
    BY <2>1, <2>2, <2>4 DEF StartEmitting, BaseReady
  <2>. QED BY <1>0, <2>1, <2>3, <2>4 DEF Next, NextClass, NoBaseCall, GenerateBase, CallBase,
                                        SetVptrAndReturn, At
<1>4. CASE frames = <<F(c, "call")>>
  <2>1. /\ cname = c /\ top.pc = "call" /\ Goto("vptr") = <<F(c, "vptr")>>
    BY <1>4, OneFrame
  <2>2. ProperBut(c) /\ Exists(c) /\ insert = c /\ block[c] = <<>> /\ base[c] # NoBase
    BY <1>4 DEF Emitting, F
  <2>3. CASE CallBase
    <3>1. /\ UNCHANGED <<base, order, next, insert>> /\ frames' = <<F(c, "vptr")>>
          /\ block' = [block EXCEPT ![c] = @ \o <<I("call_base", c)>>]
      BY <2>1, <2>2, <2>3 DEF CallBase, Emit, program
    <3>2. block'[c] = <<I("call_base", c)>>
      BY <2>2, <3>1 DEF Exists
    <3>3. ProperBut(c)'
      BY <2>2, <3>1 DEF ProperBut, Proper
    <3>. QED BY <2>2, <3>1, <3>2, <3>3 DEF Outcome, Emitting, Exists
  <2>. QED BY <1>0, <2>1, <2>3 DEF Next, NextClass, DontRepeat, StartEmitting, NoBaseCall,
                                  GenerateBase, SetVptrAndReturn, At
<1>5. CASE frames = <<F(c, "vptr")>>
  <2>1. /\ cname = c /\ top.pc = "vptr" /\ Return = <<>>
    BY <1>5, OneFrame
  <2>2. /\ ProperBut(c) /\ Exists(c) /\ insert = c
        /\ block[c] = IF base[c] = NoBase THEN <<>> ELSE <<I("call_base", c)>>
    BY <1>5 DEF Emitting, F
  <2>3. CASE SetVptrAndReturn
    <3>1. /\ UNCHANGED <<base, order, next, insert>> /\ frames' = <<>>
          /\ block' = [block EXCEPT ![c] = @ \o <<I("set_vptr", c), I("ret", c)>>]
      BY <2>1, <2>2, <2>3 DEF SetVptrAndReturn, Emit, program
    <3>2. Proper(c)'
      BY <2>2, <3>1 DEF Proper, Exists
    <3>3. \A x \in DOMAIN block : x # c => Proper(x)'
      BY <2>2, <3>1 DEF ProperBut, Proper
    <3>4. ProperBut(NoBase)' /\ DOMAIN block' = DOMAIN block
      BY <3>1, <3>2, <3>3 DEF ProperBut
    <3>. QED BY <2>2, <3>1, <3>4 DEF Outcome, Exists
  <2>. QED BY <1>0, <2>1, <2>3 DEF Next, NextClass, DontRepeat, StartEmitting, NoBaseCall,
                                  GenerateBase, CallBase, At
<1>. QED BY <1>1, <1>2, <1>3, <1>4, <1>5 DEF Emitting

LEMMA StepFirst ==
  ASSUME FirstInv, BaseFirst(base, order), frames # <<>>, [Next]_vars
  PROVE  FirstInv'
<1>1. PICK c \in Name :
        /\ next - 1 \in DOMAIN order /\ c = order[next - 1]
        /\ \A i \in DOMAIN order : i < next - 1 => Exists(order[i])
        /\ BaseReady(c) /\ Emitting(c)
  BY OrderShape DEF FirstInv
<1>2. next \in Nat /\ \A i \in DOMAIN order : i < next => i < next - 1 \/ i = next - 1
  BY OrderShape DEF FirstInv
<1>3. CASE Next
  <2>1. Outcome(c)
    BY <1>1, <1>3, EmissionStep DEF FirstInv
  <2>2. BaseReady(c)' /\ \A x : Exists(x) => Exists(x)'
    BY <1>1, <2>1 DEF Outcome, BaseReady, Exists
  <2>. QED BY <1>1, <1>2, <2>1, <2>2 DEF Outcome, FirstInv
<1>4. CASE UNCHANGED vars
  BY <1>4 DEF vars, program, FirstInv, ProperBut, Proper, BaseReady, Emitting, Exists
<1>. QED BY <1>3, <1>4

LEMMA FirstNext == FirstInv /\ [Next]_vars => FirstInv'
<1>. SUFFICES ASSUME FirstInv, [Next]_vars PROVE FirstInv'
  OBVIOUS
<1>1. UNCHANGED <<base, order>>
  BY DEF Next, vars, program, NextClass, DontRepeat, StartEmitting, NoBaseCall, GenerateBase,
         CallBase, SetVptrAndReturn
<1>2. CASE ~BaseFirst(base, order)
  BY <1>1, <1>2 DEF FirstInv
<1>3. CASE BaseFirst(base, order) /\ frames # <<>>
  BY <1>3, StepFirst
<1>4. CASE BaseFirst(base, order) /\ frames = <<>> /\ ~NextClass
  <2>1. UNCHANGED vars
    BY <1>4 DEF Next, DontRepeat, StartEmitting, NoBaseCall, GenerateBase, CallBase,
                SetVptrAndReturn, At
  <2>. QED BY <2>1 DEF vars, program, FirstInv, ProperBut, Proper, BaseReady, Emitting, Exists
<1>5. CASE BaseFirst(base, order) /\ NextClass
  BY <1>5, NextClassFirst
<1>. QED BY <1>2, <1>3, <1>4, <1>5

(* Every class written after its base: every finished constructor calls    *)
(* its base's first, stores its own vptr and returns, in its own block.    *)
THEOREM ConstructorsProper == Spec => []ProperWhenBaseFirst
  BY FirstInit, FirstNext, FirstImplies, PTL DEF Spec

-----------------------------------------------------------------------------
LEMMA TopFrame ==
  ASSUME TypeOK, frames # <<>>
  PROVE  /\ Len(frames) \in Nat \ {0} /\ Len(frames) \in DOMAIN frames
         /\ DOMAIN frames = 1..Len(frames)
         /\ cname \in Name /\ top.pc \in {"enter", "base", "call", "vptr"}
         /\ top = frames[Len(frames)] /\ cname # NoBase
<1>1. frames \in Seq(Frame) /\ Len(frames) \in Nat /\ DOMAIN frames = 1..Len(frames)
  BY DEF TypeOK
<1>2. Len(frames) # 0
  BY <1>1
<1>3. Len(frames) \in DOMAIN frames /\ frames[Len(frames)] \in Frame
  BY <1>1, <1>2
<1>. QED BY <1>1, <1>2, <1>3, NoBaseAssumption DEF top, cname, Frame

LEMMA GotoFacts ==
  ASSUME TypeOK, frames # <<>>, NEW pc \in {"enter", "base", "call", "vptr"}
  PROVE  /\ Goto(pc) \in Seq(Frame) /\ Len(Goto(pc)) = Len(frames)
         /\ \A i \in DOMAIN frames : Goto(pc)[i].cls = frames[i].cls
         /\ \A i \in DOMAIN frames : i < Len(frames) => Goto(pc)[i] = frames[i]
         /\ Goto(pc)[Len(frames)].pc = pc
<1>1. PICK n \in Nat : n = Len(frames) /\ n \in DOMAIN frames /\ DOMAIN frames = 1..n
  BY TopFrame
<1>2. frames \in Seq(Frame) /\ \A i \in DOMAIN frames : frames[i] \in Frame
  BY DEF TypeOK
<1>3. Goto(pc) = [frames EXCEPT ![n] = [frames[n] EXCEPT !.pc = pc]]
  BY <1>1 DEF Goto
<1>4. [frames[n] EXCEPT !.pc = pc] \in Frame
  BY <1>1, <1>2 DEF Frame
<1>5. Goto(pc) \in Seq(Frame) /\ Len(Goto(pc)) = n
  BY <1>1, <1>2, <1>3, <1>4
<1>6. \A i \in DOMAIN frames :
        Goto(pc)[i] = IF i = n THEN [frames[n] EXCEPT !.pc = pc] ELSE frames[i]
  BY <1>3
<1>7. [frames[n] EXCEPT !.pc = pc].pc = pc /\ [frames[n] EXCEPT !.pc = pc].cls = frames[n].cls
  BY <1>1, <1>2 DEF Frame
<1>8. /\ \A i \in DOMAIN frames : Goto(pc)[i].cls = frames[i].cls
      /\ \A i \in DOMAIN frames : i < n => Goto(pc)[i] = frames[i]
      /\ Goto(pc)[n].pc = pc
  <2>1. \A i \in DOMAIN frames : i < n => i # n
    BY <1>1
  <2>. QED BY <1>1, <1>6, <1>7, <2>1
<1>. QED BY <1>1, <1>5, <1>8

LEMMA ReturnFacts ==
  ASSUME TypeOK, frames # <<>>
  PROVE  /\ Return \in Seq(Frame) /\ Len(Return) = Len(frames) - 1
         /\ \A i \in 1..(Len(frames) - 1) : Return[i] = frames[i]
<1>1. frames \in Seq(Frame) /\ Len(frames) \in Nat \ {0}
  BY TopFrame DEF TypeOK
<1>2. PICK n \in Nat : n = Len(frames) /\ n # 0
  BY <1>1
<1>3. 1 \in 1..(n + 1) /\ n - 1 \in 0..n
  BY <1>2
<1>4. /\ SubSeq(frames, 1, n - 1) \in Seq(Frame)
      /\ Len(SubSeq(frames, 1, n - 1)) = n - 1
      /\ \A i \in 1..(n - 1) : SubSeq(frames, 1, n - 1)[i] = frames[i]
  <2>1. \A i \in 1..(n - 1) : frames[i] \in Frame
    BY <1>1, <1>2
  <2>. QED BY <1>1, <1>2, <2>1
<1>. QED BY <1>2, <1>4 DEF Return

(* The shape of the recursion, kept by any step that leaves the program    *)
(* and the blocks that exist.                                              *)
Calls ==
  /\ frames \in Seq(Frame)
  /\ \A i \in DOMAIN frames : i > 1 => frames[i].cls = base[frames[i - 1].cls]
  /\ \A i \in DOMAIN frames : frames[i].pc # "enter" => Exists(frames[i].cls)
  /\ \A i \in DOMAIN frames : i < Len(frames) => frames[i].pc = "call"

LEMMA GoesOn ==
  ASSUME TypeOK, frames # <<>>, NEW pc \in {"enter", "base", "call", "vptr"}, frames' = Goto(pc),
         base' = base, DOMAIN block \subseteq DOMAIN block', pc # "enter" => cname \in DOMAIN block'
  PROVE  Calls'
<1>1. PICK n \in Nat : n = Len(frames) /\ n # 0 /\ DOMAIN frames = 1..n /\ cname = frames[n].cls
  BY TopFrame DEF cname
<1>2. /\ frames' \in Seq(Frame) /\ Len(frames') = n
      /\ \A i \in 1..n : frames'[i].cls = frames[i].cls
      /\ \A i \in 1..n : i < n => frames'[i] = frames[i]
      /\ frames'[n].pc = pc
  BY <1>1, GotoFacts
<1>3. DOMAIN frames' = 1..n
  BY <1>2
<1>4. \A i \in 1..n : i > 1 => frames'[i].cls = base'[frames'[i - 1].cls]
  BY <1>1, <1>2 DEF TypeOK
<1>5. \A i \in 1..n : frames'[i].pc # "enter" => frames'[i].cls \in DOMAIN block'
  <2>. SUFFICES ASSUME NEW i \in 1..n, frames'[i].pc # "enter" PROVE frames'[i].cls \in DOMAIN block'
    OBVIOUS
  <2>1. CASE i = n
    BY <1>1, <1>2, <2>1
  <2>2. CASE i < n
    BY <1>1, <1>2, <2>2 DEF TypeOK, Exists
  <2>. QED BY <2>1, <2>2
<1>6. \A i \in 1..n : i < n => frames'[i].pc = "call"
  BY <1>1, <1>2 DEF TypeOK
<1>. QED BY <1>2, <1>3, <1>4, <1>5, <1>6 DEF Calls, Exists

LEMMA Returns ==
  ASSUME TypeOK, frames # <<>>, frames' = Return, base' = base, DOMAIN block \subseteq DOMAIN block'
  PROVE  Calls'
<1>1. PICK n \in Nat : n = Len(frames) /\ n # 0 /\ DOMAIN frames = 1..n
  BY TopFrame
<1>2. /\ frames' \in Seq(Frame) /\ Len(frames') = n - 1 /\ DOMAIN frames' = 1..(n - 1)
      /\ \A i \in 1..(n - 1) : frames'[i] = frames[i]
  BY <1>1, ReturnFacts
<1>3. \A i \in 1..(n - 1) : /\ i \in DOMAIN frames /\ i < Len(frames)
                            /\ i > 1 => i - 1 \in 1..(n - 1)
  BY <1>1
<1>4. \A i \in 1..(n - 1) : i > 1 => frames'[i].cls = base'[frames'[i - 1].cls]
  BY <1>2, <1>3 DEF TypeOK
<1>5. \A i \in 1..(n - 1) : frames'[i].pc # "enter" => frames'[i].cls \in DOMAIN block'
  BY <1>2, <1>3 DEF TypeOK, Exists
<1>6. \A i \in 1..(n - 1) : i < n - 1 => frames'[i].pc = "call"
  BY <1>2, <1>3 DEF TypeOK
<1>. QED BY <1>2, <1>4, <1>5, <1>6 DEF Calls, Exists

LEMMA Emits ==
  ASSUME TypeOK, NEW code \in Seq(Instr), Emit(code)
  PROVE  /\ DOMAIN block' = DOMAIN block
         /\ \A c \in DOMAIN block : block'[c] \in Seq(Instr)
BY ConcatProperties DEF TypeOK, Emit

LEMMA EmittedIsCode ==
  ASSUME NEW c \in Name
  PROVE  /\ <<I("call_base", c)>> \in Seq(Instr)
         /\ <<I("set_vptr", c), I("ret", c)>> \in Seq(Instr)
<1>1. I("call_base", c) \in Instr /\ I("set_vptr", c) \in Instr /\ I("ret", c) \in Instr
  BY DEF I, Instr
<1>. QED BY <1>1

LEMMA TypeStep == TypeOK /\ [Next]_vars => TypeOK'
<1>. SUFFICES ASSUME TypeOK, [Next]_vars PROVE TypeOK'
  OBVIOUS
<1>. DEFINE Rest == /\ base' = base /\ order' = order /\ next' \in Nat
                    /\ DOMAIN block' \subseteq Name
                    /\ \A c \in DOMAIN block' : block'[c] \in Seq(Instr)
                    /\ insert' \in DOMAIN block' \cup {NoBase}
                    /\ (insert' = NoBase) <=> (DOMAIN block' = {})
<1>0. Calls' /\ Rest => TypeOK'
  BY DEF TypeOK, Calls, Exists
<1>00. next \in Nat
  BY DEF TypeOK
<1>1. CASE NextClass
  <2>1. PICK c \in Name : frames' = <<F(c, "enter")>>
    BY <1>1, OrderShape DEF NextClass, TypeOK
  <2>2. F(c, "enter") \in Frame /\ F(c, "enter").pc = "enter"
    BY DEF F, Frame
  <2>3. Calls'
    <3>1. /\ frames' \in Seq(Frame) /\ DOMAIN frames' = 1..1 /\ Len(frames') = 1
          /\ frames'[1].pc = "enter"
      BY <2>1, <2>2
    <3>. QED BY <3>1 DEF Calls
  <2>4. Rest
    BY <1>1, <1>00 DEF NextClass, program, TypeOK
  <2>. QED BY <1>0, <2>3, <2>4
<1>2. CASE DontRepeat
  <2>1. Calls'
    BY <1>2, Returns DEF DontRepeat, At, program, Exists
  <2>2. Rest
    BY <1>2 DEF DontRepeat, program, TypeOK
  <2>. QED BY <1>0, <2>1, <2>2
<1>3. CASE StartEmitting
  <2>1. frames # <<>> /\ base' = base /\ frames' = Goto("base")
    BY <1>3 DEF StartEmitting, At, program
  <2>2. cname \in Name /\ cname # NoBase
    BY <2>1, TopFrame
  <2>3. /\ DOMAIN block' = DOMAIN block \cup {cname}
        /\ block'[cname] = <<>> /\ \A c \in DOMAIN block : c # cname => block'[c] = block[c]
        /\ insert' = cname
    BY <1>3 DEF StartEmitting
  <2>4. Calls'
    BY <2>1, <2>3, GoesOn DEF Exists
  <2>5. <<>> \in Seq(Instr)
    OBVIOUS
  <2>6. order' = order /\ next' = next
    BY <1>3 DEF StartEmitting, program
  <2>7. Rest
    <3>1. \A c \in DOMAIN block' : block'[c] \in Seq(Instr)
      BY <2>3, <2>5 DEF TypeOK
    <3>2. DOMAIN block' \subseteq Name /\ insert' \in DOMAIN block' /\ insert' # NoBase
      BY <2>2, <2>3 DEF TypeOK
    <3>. QED BY <1>00, <2>1, <2>6, <3>1, <3>2
  <2>. QED BY <1>0, <2>4, <2>7
<1>4. CASE NoBaseCall
  <2>1. frames # <<>> /\ base' = base /\ frames' = Goto("vptr") /\ block' = block
    BY <1>4 DEF NoBaseCall, At, program
  <2>2. Exists(cname)
    BY <1>4, TopFrame DEF NoBaseCall, At, TypeOK, cname
  <2>3. Calls'
    BY <2>1, <2>2, GoesOn DEF Exists
  <2>4. Rest
    BY <1>4 DEF NoBaseCall, program, TypeOK
  <2>. QED BY <1>0, <2>3, <2>4
<1>5. CASE GenerateBase
  <2>1. PICK n \in Nat : n = Len(frames) /\ n # 0 /\ DOMAIN frames = 1..n
    BY <1>5, TopFrame DEF GenerateBase, At
  <2>2. PICK g \in Seq(Frame) :
          /\ g = Goto("call") /\ Len(g) = n /\ DOMAIN g = 1..n
          /\ \A i \in 1..n : g[i].cls = frames[i].cls
          /\ \A i \in 1..n : i < n => g[i] = frames[i]
          /\ g[n].pc = "call"
    <3>1. frames # <<>>
      BY <1>5 DEF GenerateBase, At
    <3>2. Goto("call") \in Seq(Frame) /\ Len(Goto("call")) = n
      BY <2>1, <3>1, GotoFacts
    <3>3. DOMAIN Goto("call") = 1..n
      BY <3>2
    <3>. QED BY <2>1, <3>1, <3>2, <3>3, GotoFacts
  <2>3. PICK b \in Name : b = base[cname]
    BY <1>5, TopFrame DEF GenerateBase, At, TypeOK, BaseMap
  <2>4. F(b, "enter") \in Frame /\ F(b, "enter").cls = b /\ F(b, "enter").pc = "enter"
    BY DEF F, Frame
  <2>5. frames' = Append(g, F(b, "enter")) /\ base' = base /\ block' = block
    BY <1>5, <2>2, <2>3 DEF GenerateBase, program
  <2>6. /\ frames' \in Seq(Frame) /\ Len(frames') = n + 1 /\ DOMAIN frames' = 1..(n + 1)
        /\ \A i \in 1..n : frames'[i] = g[i]
        /\ frames'[n + 1] = F(b, "enter")
    BY <2>2, <2>4, <2>5, AppendProperties
  <2>7. Exists(cname) /\ cname = frames[n].cls
    BY <1>5, <2>1, TopFrame DEF GenerateBase, At, TypeOK, cname
  <2>8. Calls'
    <3>1. \A i \in 1..(n + 1) : i > 1 => frames'[i].cls = base'[frames'[i - 1].cls]
      <4>. SUFFICES ASSUME NEW i \in 1..(n + 1), i > 1
                    PROVE  frames'[i].cls = base'[frames'[i - 1].cls]
        OBVIOUS
      <4>1. i - 1 \in 1..n
        OBVIOUS
      <4>2. frames'[i - 1].cls = frames[i - 1].cls
        BY <2>2, <2>6, <4>1
      <4>3. CASE i = n + 1
        <5>1. i - 1 = n
          BY <4>3
        <5>2. frames'[i].cls = base[cname]
          BY <2>3, <2>4, <2>6, <4>3
        <5>. QED BY <2>5, <2>7, <4>2, <5>1, <5>2
      <4>4. CASE i # n + 1
        <5>1. i \in 1..n
          BY <4>4
        <5>2. frames[i].cls = base[frames[i - 1].cls]
          BY <2>1, <5>1 DEF TypeOK
        <5>3. frames'[i].cls = frames[i].cls
          BY <2>2, <2>6, <5>1
        <5>. QED BY <2>5, <4>2, <5>2, <5>3
      <4>. QED BY <4>3, <4>4
    <3>2. \A i \in 1..(n + 1) : frames'[i].pc # "enter" => frames'[i].cls \in DOMAIN block'
      <4>. SUFFICES ASSUME NEW i \in 1..(n + 1), frames'[i].pc # "enter"
                    PROVE  frames'[i].cls \in DOMAIN block
        BY <2>5
      <4>1. i \in 1..n
        BY <2>4, <2>6
      <4>2. CASE i = n
        BY <2>2, <2>6, <2>7, <4>1, <4>2 DEF Exists
      <4>3. CASE i < n
        BY <2>1, <2>2, <2>6, <4>1, <4>3 DEF TypeOK, Exists
      <4>. QED BY <4>1, <4>2, <4>3
    <3>3. \A i \in 1..(n + 1) : i < n + 1 => frames'[i].pc = "call"
      <4>. SUFFICES ASSUME NEW i \in 1..n PROVE frames'[i].pc = "call"
        OBVIOUS
      <4>1. CASE i = n
        BY <2>2, <2>6, <4>1
      <4>2. CASE i < n
        BY <2>1, <2>2, <2>6, <4>2 DEF TypeOK
      <4>. QED BY <4>1, <4>2
    <3>. QED BY <2>6, <3>1, <3>2, <3>3 DEF Calls, Exists
  <2>9. Rest
    BY <1>5 DEF GenerateBase, program, TypeOK
  <2>. QED BY <1>0, <2>8, <2>9
<1>6. CASE CallBase
  <2>1. frames # <<>> /\ base' = base /\ frames' = Goto("vptr")
    BY <1>6 DEF CallBase, At, program
  <2>2. cname \in Name /\ Exists(cname)
    BY <1>6, TopFrame DEF CallBase, At, TypeOK, cname
  <2>3. DOMAIN block' = DOMAIN block /\ \A c \in DOMAIN block : block'[c] \in Seq(Instr)
    BY <1>6, <2>2, EmittedIsCode, Emits DEF CallBase
  <2>4. Calls'
    BY <2>1, <2>2, <2>3, GoesOn DEF Exists
  <2>5. Rest
    BY <1>6, <2>3 DEF CallBase, program, TypeOK
  <2>. QED BY <1>0, <2>4, <2>5
<1>7. CASE SetVptrAndReturn
  <2>1. frames # <<>> /\ base' = base /\ frames' = Return
    BY <1>7 DEF SetVptrAndReturn, At, program
  <2>2. cname \in Name
    BY <2>1, TopFrame
  <2>3. DOMAIN block' = DOMAIN block /\ \A c \in DOMAIN block : block'[c] \in Seq(Instr)
    BY <1>7, <2>2, EmittedIsCode, Emits DEF SetVptrAndReturn
  <2>4. Calls'
    BY <2>1, <2>3, Returns DEF Exists
  <2>5. Rest
    BY <1>7, <2>3 DEF SetVptrAndReturn, program, TypeOK
  <2>. QED BY <1>0, <2>4, <2>5
<1>8. CASE UNCHANGED vars
  BY <1>8 DEF vars, TypeOK, Exists
<1>. QED BY <1>1, <1>2, <1>3, <1>4, <1>5, <1>6, <1>7, <1>8 DEF Next

(* Whatever the order of the classes: the recursion goes up the chain of   *)
(* bases, each call past its entry has made its function, and the builder  *)
(* inserts into a function that exists.                                    *)
THEOREM ConstructorTypeCorrect == Spec => []TypeOK
<1>1. Init => TypeOK
  BY DEF Init, TypeOK
<1>. QED BY <1>1, TypeStep, PTL DEF Spec

-----------------------------------------------------------------------------
(* Any order.  Made(k): the constructors that the first k - 1 turns of the *)
(* loop of genClasses make.  Right(c): c is made by its own turn and its   *)
(* base, if any, by an earlier one.                                        *)
Made(k) == {c \in Name : \E d \in Name : IsSubclass(base, d, c) /\ Place(d) < k}

BaseIn(c, S) == base[c] = NoBase \/ base[c] \in S
Right(c) == c \notin Made(Place(c)) /\ BaseIn(c, Made(Place(c)))
Judged(S) == \A c \in S : Proper(c) <=> Right(c)

(* One turn, for class s, when the constructors of M were there.  The new  *)
(* ones are those of s and of bases of s.  All code goes to the last that  *)
(* was started, the highest; what is not "right" in the end is longer than *)
(* a constructor, or empty.                                                *)
Phase ==
  \/ /\ top.pc = "enter" /\ Len(frames) > 1
     /\ insert = frames[Len(frames) - 1].cls /\ block[insert] = <<>>
  \/ /\ top.pc = "base" /\ insert = cname /\ block[insert] = <<>>
  \/ /\ top.pc \in {"call", "vptr"} /\ BaseIn(insert, DOMAIN block)
     /\ \/ /\ insert = cname
           /\ top.pc = "call" => base[cname] # NoBase
           /\ block[insert] = IF top.pc = "call" \/ base[cname] = NoBase THEN <<>>
                              ELSE <<I("call_base", cname)>>
        \/ /\ insert \in Ancestors(base, cname)
           /\ Len(block[insert]) > 1
           /\ top.pc = "vptr" => Len(block[insert]) > 2

Emission(s, M) ==
  /\ s \in DOMAIN block \ M /\ insert \in DOMAIN block \ M
  /\ \A c \in DOMAIN block \ M :
       c # insert => block[c] = <<>> /\ BaseIn(c, DOMAIN block)
  /\ insert = s => DOMAIN block \ M = {s}
  /\ insert # s => ~BaseIn(s, M)

Turn(s, M) ==
  /\ frames # <<>> /\ frames[1].cls = s
  /\ M \subseteq DOMAIN block
  /\ Judged(M)
  /\ \A i \in DOMAIN frames : IsSubclass(base, s, frames[i].cls)
  /\ \A c \in DOMAIN block \ M : IsSubclass(base, s, c)
  /\ \/ DOMAIN block = M /\ Len(frames) = 1 /\ top.pc = "enter"
     \/ Emission(s, M) /\ Phase

Between == frames = <<>> /\ DOMAIN block = Made(next) /\ Judged(Made(next))

TurnInv ==
  /\ next # 0
  /\ Between \/ \E k \in DOMAIN order : next = k + 1 /\ Turn(order[k], Made(k))

-----------------------------------------------------------------------------
LEMMA PlaceIs ==
  ASSUME order \in SourceOrders
  PROVE  /\ \A c \in Name : Place(c) \in DOMAIN order /\ order[Place(c)] = c
         /\ \A k \in DOMAIN order : Place(order[k]) = k
<1>1. \A c \in Name : \E i \in DOMAIN order : order[i] = c
  BY DEF SourceOrders
<1>. QED BY <1>1, OrderShape DEF Place

LEMMA MadeClosed ==
  ASSUME base \in BaseMap, NEW k, NEW c \in Made(k), NEW a \in Name, IsSubclass(base, c, a)
  PROVE  a \in Made(k)
BY SubclassTransitive DEF Made

LEMMA MadeNext ==
  ASSUME order \in SourceOrders, NEW k \in DOMAIN order
  PROVE  \A c \in Name : c \in Made(k + 1) <=> c \in Made(k) \/ IsSubclass(base, order[k], c)
<1>1. \A c \in Name : Place(c) \in Nat /\ k \in Nat
  BY PlaceIs, OrderShape
<1>2. \A c \in Name : Place(c) < k + 1 <=> Place(c) < k \/ c = order[k]
  BY <1>1, PlaceIs
<1>. QED BY <1>2, OrderShape DEF Made

(* Right(c), and the end of all turns, in terms of the text.               *)
LEMMA RightIs ==
  ASSUME TypeOK, NEW c \in Name
  PROVE  Right(c) <=> /\ ~DerivedBefore(c, Place(c))
                      /\ \/ base[c] = NoBase
                         \/ Place(base[c]) < Place(c)
                         \/ DerivedBefore(base[c], Place(c))
<1>1. \A k, d : d \in Name => (d \in Made(k) <=> Place(d) < k \/ DerivedBefore(d, k))
  BY DEF Made, IsSubclass, DerivedBefore
<1>2. ~(Place(c) < Place(c))
  BY PlaceIs, OrderShape DEF TypeOK
<1>3. base[c] = NoBase \/ base[c] \in Name
  BY DEF TypeOK, BaseMap
<1>. QED BY <1>1, <1>2, <1>3, NoBaseAssumption DEF Right, BaseIn, Made

LEMMA AllMade ==
  ASSUME TypeOK, next # 0, next \notin DOMAIN order
  PROVE  Made(next) = Name
<1>1. PICK n \in Nat : DOMAIN order = 1..n
  BY OrderShape DEF TypeOK
<1>2. \A c \in Name : Place(c) < next
  BY <1>1, PlaceIs DEF TypeOK
<1>. QED BY <1>2 DEF Made, IsSubclass

LEMMA TurnImplies == TypeOK /\ TurnInv => ProperExactly
<1>. SUFFICES ASSUME TypeOK, TurnInv, Done, NEW c \in Name
              PROVE  Proper(c) <=> /\ ~DerivedBefore(c, Place(c))
                                   /\ \/ base[c] = NoBase
                                      \/ Place(base[c]) < Place(c)
                                      \/ DerivedBefore(base[c], Place(c))
  BY DEF ProperExactly
<1>1. Between
  BY DEF TurnInv, Done, Turn
<1>. QED BY <1>1, AllMade, RightIs DEF Between, Judged, Done, TurnInv

(* What a step of a turn leaves alone.                                     *)
LEMMA SameProgram ==
  ASSUME UNCHANGED program
  PROVE  /\ base' = base /\ order' = order
         /\ \A k : Made(k)' = Made(k)
         /\ \A c : Right(c)' <=> Right(c)
         /\ \A c, S : BaseIn(c, S)' <=> BaseIn(c, S)
<1>1. base' = base /\ order' = order
  BY DEF program
<1>2. \A k : Made(k)' = Made(k)
  BY <1>1 DEF Made, Place
<1>3. \A c, S : BaseIn(c, S)' <=> BaseIn(c, S)
  BY <1>1 DEF BaseIn
<1>4. \A c : Place(c)' = Place(c)
  BY <1>1 DEF Place
<1>5. \A c : Right(c)' <=> Right(c)
  BY <1>1, <1>2, <1>3, <1>4 DEF Right
<1>. QED BY <1>1, <1>2, <1>3, <1>5

LEMMA JudgedStill ==
  ASSUME UNCHANGED program, NEW M, Judged(M), \A c \in M : block'[c] = block[c]
  PROVE  Judged(M)'
BY SameProgram DEF Judged, Proper

LEMMA ProperLength ==
  ASSUME NEW c \in Name, NEW root \in BOOLEAN
  PROVE  Len((IF root THEN <<>> ELSE <<I("call_base", c)>>) \o <<I("set_vptr", c), I("ret", c)>>)
           \in 2..3
<1>1. <<I("set_vptr", c), I("ret", c)>> \in Seq(Instr) /\ <<I("call_base", c)>> \in Seq(Instr)
  BY EmittedIsCode
<1>2. Len(<<>> \o <<I("set_vptr", c), I("ret", c)>>) = 2
  BY <1>1
<1>3. Len(<<I("call_base", c)>> \o <<I("set_vptr", c), I("ret", c)>>) = 3
  BY <1>1
<1>. QED BY <1>2, <1>3

LEMMA NewRight ==
  ASSUME TypeOK, NEW k \in DOMAIN order, NEW c \in Name, IsSubclass(base, order[k], c),
         c \notin Made(k)
  PROVE  Right(c) <=> c = order[k] /\ BaseIn(c, Made(k))
<1>1. order \in SourceOrders /\ order[k] \in Name /\ Place(order[k]) = k /\ k \in Nat
  BY PlaceIs, OrderShape DEF TypeOK
<1>2. Place(c) \in Nat /\ order[Place(c)] = c
  BY <1>1, PlaceIs, OrderShape
<1>3. CASE c = order[k]
  BY <1>1, <1>3 DEF Right
<1>4. CASE c # order[k]
  <2>1. ~(Place(c) < k)
    BY DEF Made, IsSubclass
  <2>2. k < Place(c)
    BY <1>1, <1>2, <1>4, <2>1
  <2>3. c \in Made(Place(c))
    BY <1>1, <2>2 DEF Made
  <2>. QED BY <1>4, <2>3 DEF Right
<1>. QED BY <1>3, <1>4

(* The end of a turn: s and its bases are there, s alone may be right.     *)
LEMMA EndOfTurn ==
  ASSUME TypeOK, NEW k \in DOMAIN order, next = k + 1, NEW s, s = order[k], NEW M, M = Made(k),
         UNCHANGED <<program, next>>, frames' = <<>>,
         NEW D, D = DOMAIN block', D \subseteq Name,
         M \subseteq D, Judged(M)', s \in D,
         \A c \in D \ M : IsSubclass(base, s, c) /\ BaseIn(c, D),
         \A c \in D \ M : Proper(c)' <=> c = s /\ BaseIn(s, M)
  PROVE  Between'
<1>1. base \in BaseMap /\ order \in SourceOrders /\ s \in Name
  BY OrderShape DEF TypeOK
<1>2. \A c \in D : BaseIn(c, D)
  <2>. SUFFICES ASSUME NEW c \in D, c \in M, base[c] # NoBase PROVE base[c] \in D
    BY DEF BaseIn
  <2>1. c \in Name /\ base[c] \in Name
    BY <1>1 DEF BaseMap
  <2>2. IsSubclass(base, c, base[c])
    BY <1>1, <2>1, AncestorStep DEF IsSubclass
  <2>3. base[c] \in M
    BY <1>1, <2>1, <2>2, MadeClosed
  <2>. QED BY <2>3
<1>3. \A c \in Name : IsSubclass(base, s, c) => c \in D
  <2>. SUFFICES ASSUME NEW c \in Ancestors(base, s) PROVE c \in D
    BY DEF IsSubclass
  <2>1. UpwardClosed(base, D) /\ (base[s] \in Name => base[s] \in D)
    BY <1>1, <1>2, NoBaseAssumption DEF UpwardClosed, BaseIn
  <2>2. D \in SUBSET Name
    OBVIOUS
  <2>. QED BY <2>1, <2>2 DEF Ancestors
<1>4. D = Made(next)
  <2>1. \A c \in Name : c \in Made(next) <=> c \in M \/ IsSubclass(base, s, c)
    BY <1>1, MadeNext
  <2>2. Made(next) \subseteq Name
    BY DEF Made
  <2>. QED BY <1>3, <2>1, <2>2
<1>5. Made(next)' = D
  <2>1. \A j : Made(j)' = Made(j)
    BY SameProgram
  <2>2. Made(next)' = Made(next)
    BY SameProgram DEF Made, Place
  <2>. QED BY <1>4, <2>2
<1>6. \A c \in D : Proper(c)' <=> Right(c)'
  <2>. SUFFICES ASSUME NEW c \in D PROVE Proper(c)' <=> Right(c)
    BY SameProgram
  <2>1. CASE c \in M
    BY <2>1, SameProgram DEF Judged
  <2>2. CASE c \notin M
    BY <2>2, NewRight
  <2>. QED BY <2>1, <2>2
<1>. QED BY <1>5, <1>6 DEF Between, Judged

LEMMA NextClassTurn ==
  ASSUME TypeOK, TurnInv, NextClass
  PROVE  TurnInv'
<1>1. /\ next \in DOMAIN order /\ next' = next + 1 /\ frames' = <<F(order[next], "enter")>>
      /\ UNCHANGED program /\ block' = block
  BY DEF NextClass
<1>2. Between
  BY DEF TurnInv, Turn, NextClass
<1>3. PICK k \in DOMAIN order : k = next
  BY <1>1
<1>4. PICK s \in Name : s = order[k] /\ k \in Nat
  BY OrderShape DEF TypeOK
<1>5. PICK M : M = Made(k)
  OBVIOUS
<1>6. /\ Len(frames') = 1 /\ DOMAIN frames' = 1..1 /\ frames'[1] = F(s, "enter")
      /\ frames' # <<>>
  BY <1>1, <1>3, <1>4
<1>7. F(s, "enter").cls = s /\ F(s, "enter").pc = "enter"
  BY DEF F
<1>8. DOMAIN block' = M /\ Judged(M)'
  BY <1>1, <1>2, <1>3, <1>4, <1>5, JudgedStill DEF Between
<1>9. Turn(s, M)'
  <2>1. top'.pc = "enter"
    BY <1>6, <1>7 DEF top
  <2>. QED BY <1>6, <1>7, <1>8, <2>1 DEF Turn, IsSubclass
<1>10. order'[k] = s /\ Made(k)' = M /\ k \in DOMAIN order' /\ next' = k + 1
  BY <1>1, <1>3, <1>4, <1>5, SameProgram
<1>11. Turn(order[k], Made(k))'
  BY <1>9, <1>10 DEF Turn, Emission
<1>. QED BY <1>3, <1>4, <1>5, <1>10, <1>11 DEF TurnInv

LEMMA TurnGoesOn ==
  ASSUME TypeOK, NEW k \in DOMAIN order, next = k + 1, NEW s, s = order[k], NEW M, M = Made(k),
         UNCHANGED <<program, next>>, Turn(s, M)'
  PROVE  TurnInv'
<1>1. order'[k] = s /\ Made(k)' = M /\ k \in DOMAIN order' /\ next' = k + 1 /\ k \in Nat
  BY SameProgram, OrderShape DEF TypeOK
<1>2. Turn(order[k], Made(k))'
  BY <1>1 DEF Turn, Emission
<1>. QED BY <1>1, <1>2 DEF TurnInv

LEMMA GotoTurn ==
  ASSUME TypeOK, frames # <<>>, base' = base, NEW pc \in {"enter", "base", "call", "vptr"},
         frames' = Goto(pc), NEW s, frames[1].cls = s,
         \A i \in DOMAIN frames : IsSubclass(base, s, frames[i].cls)
  PROVE  /\ frames' # <<>> /\ frames'[1].cls = s
         /\ \A i \in DOMAIN frames' : IsSubclass(base', s, frames'[i].cls)
         /\ top'.pc = pc /\ cname' = cname
<1>1. PICK n \in Nat : n = Len(frames) /\ n # 0 /\ DOMAIN frames = 1..n /\ cname = frames[n].cls
  BY TopFrame DEF cname
<1>2. Goto(pc) \in Seq(Frame) /\ Len(Goto(pc)) = n
  BY <1>1, GotoFacts
<1>3. DOMAIN frames' = 1..n /\ Len(frames') = n
  BY <1>2
<1>4. \A i \in 1..n : frames'[i].cls = frames[i].cls
  BY <1>1, GotoFacts
<1>5. frames'[n].pc = pc
  BY <1>1, GotoFacts
<1>6. 1 \in 1..n /\ n \in 1..n
  BY <1>1
<1>7. top' = frames'[n] /\ cname' = top'.cls
  BY <1>3 DEF top, cname
<1>. QED BY <1>1, <1>3, <1>4, <1>5, <1>6, <1>7

LEMMA ReturnTurn ==
  ASSUME TypeOK, frames # <<>>, Len(frames) > 1, base' = base, frames' = Return,
         NEW s, frames[1].cls = s,
         \A i \in DOMAIN frames : IsSubclass(base, s, frames[i].cls)
  PROVE  /\ frames' # <<>> /\ frames'[1].cls = s
         /\ \A i \in DOMAIN frames' : IsSubclass(base', s, frames'[i].cls)
         /\ top'.pc = "call" /\ cname' = frames[Len(frames) - 1].cls
         /\ cname' \in Name /\ base[cname'] = cname
<1>1. PICK n \in Nat : n = Len(frames) /\ n > 1 /\ DOMAIN frames = 1..n /\ cname = frames[n].cls
  BY TopFrame DEF cname
<1>2. /\ Return \in Seq(Frame) /\ Len(Return) = n - 1
      /\ \A i \in 1..(n - 1) : Return[i] = frames[i]
  BY <1>1, ReturnFacts
<1>3. DOMAIN frames' = 1..(n - 1) /\ Len(frames') = n - 1
  BY <1>1, <1>2
<1>4. 1 \in 1..(n - 1) /\ n - 1 \in 1..(n - 1) /\ n - 1 < n
  BY <1>1
<1>5. \A i \in 1..(n - 1) : i \in DOMAIN frames /\ frames'[i] = frames[i]
  BY <1>1, <1>2
<1>6. top' = frames[n - 1] /\ cname' = frames[n - 1].cls
  BY <1>3, <1>4, <1>5 DEF top, cname
<1>7. frames[n - 1].pc = "call" /\ frames[n].cls = base[frames[n - 1].cls]
  <2>1. n \in DOMAIN frames /\ n - 1 \in DOMAIN frames /\ n - 1 < Len(frames)
    BY <1>1
  <2>. QED BY <1>1, <2>1 DEF TypeOK
<1>8. frames[n - 1] \in Frame
  BY <1>1, <1>4, <1>5 DEF TypeOK
<1>. QED BY SMTT(30), <1>1, <1>3, <1>4, <1>5, <1>6, <1>7, <1>8 DEF Frame

(* Nothing but the calls changes.                                          *)
LEMMA EmissionStill ==
  ASSUME NEW s, NEW M, Emission(s, M), UNCHANGED program, block' = block, insert' = insert
  PROVE  Emission(s, M)'
BY SameProgram DEF Emission, BaseIn

LEMMA NoBaseCallTurn ==
  ASSUME TypeOK, NEW s, NEW M, Turn(s, M), NoBaseCall
  PROVE  Turn(s, M)'
<1>1. /\ frames # <<>> /\ top.pc = "base" /\ base[cname] = NoBase /\ frames' = Goto("vptr")
      /\ UNCHANGED program /\ base' = base /\ block' = block /\ insert' = insert
  BY DEF NoBaseCall, At, program
<1>2. /\ frames' # <<>> /\ frames'[1].cls = s
      /\ \A i \in DOMAIN frames' : IsSubclass(base', s, frames'[i].cls)
      /\ top'.pc = "vptr" /\ cname' = cname
  BY <1>1, GotoTurn DEF Turn
<1>3. Emission(s, M) /\ Phase
  BY <1>1 DEF Turn
<1>4. insert = cname /\ block[insert] = <<>>
  BY <1>1, <1>3 DEF Phase
<1>5. Emission(s, M)'
  BY <1>1, <1>3, EmissionStill
<1>6. Phase'
  BY <1>1, <1>2, <1>4 DEF Phase, BaseIn
<1>7. Judged(M)'
  BY <1>1, JudgedStill DEF Turn
<1>. QED BY <1>1, <1>2, <1>5, <1>6, <1>7 DEF Turn

LEMMA GenerateBaseTurn ==
  ASSUME TypeOK, NEW s, NEW M, Turn(s, M), GenerateBase
  PROVE  Turn(s, M)'
<1>1. /\ frames # <<>> /\ top.pc = "base" /\ base[cname] # NoBase
      /\ UNCHANGED program /\ base' = base /\ block' = block /\ insert' = insert
      /\ frames' = Append(Goto("call"), F(base[cname], "enter"))
  BY DEF GenerateBase, At, program
<1>2. PICK n \in Nat : n = Len(frames) /\ n # 0 /\ DOMAIN frames = 1..n /\ cname = frames[n].cls
  BY <1>1, TopFrame DEF cname
<1>3. cname \in Name /\ base[cname] \in Name /\ base \in BaseMap
  BY <1>1, TopFrame DEF TypeOK, BaseMap
<1>4. PICK e : e = F(base[cname], "enter") /\ e.cls = base[cname] /\ e.pc = "enter" /\ e \in Frame
  <2>1. F(base[cname], "enter") \in Frame
    BY <1>3 DEF F, Frame
  <2>2. F(base[cname], "enter").cls = base[cname] /\ F(base[cname], "enter").pc = "enter"
    BY DEF F
  <2>. QED BY <2>1, <2>2
<1>5. PICK g \in Seq(Frame) : g = Goto("call") /\ Len(g) = n /\ \A i \in 1..n : g[i].cls = frames[i].cls
  <2>1. Goto("call") \in Seq(Frame) /\ Len(Goto("call")) = n
    BY <1>1, <1>2, GotoFacts
  <2>. QED BY <1>1, <1>2, <2>1, GotoFacts
<1>6. /\ frames' \in Seq(Frame) /\ Len(frames') = n + 1 /\ DOMAIN frames' = 1..(n + 1)
      /\ \A i \in 1..n : frames'[i] = g[i]
      /\ frames'[n + 1] = e
  BY <1>1, <1>4, <1>5, AppendProperties
<1>7. frames' # <<>> /\ frames'[1].cls = s
  <2>1. 1 \in 1..n
    BY <1>2
  <2>. QED BY <1>5, <1>6, <2>1 DEF Turn
<1>8. IsSubclass(base, s, base[cname])
  <2>1. IsSubclass(base, s, cname)
    BY <1>2 DEF Turn
  <2>2. IsSubclass(base, cname, base[cname])
    BY <1>3, AncestorStep DEF IsSubclass
  <2>3. s \in Name
    <3>1. 1 \in DOMAIN frames
      BY <1>2
    <3>2. frames[1] \in Frame
      BY <3>1 DEF TypeOK
    <3>. QED BY <3>2 DEF Turn, Frame
  <2>. QED BY <1>3, <2>1, <2>2, <2>3, SubclassTransitive
<1>9. \A i \in DOMAIN frames' : IsSubclass(base', s, frames'[i].cls)
  <2>. SUFFICES ASSUME NEW i \in 1..(n + 1) PROVE IsSubclass(base, s, frames'[i].cls)
    BY <1>1, <1>6
  <2>1. CASE i = n + 1
    BY <1>4, <1>6, <1>8, <2>1
  <2>2. CASE i \in 1..n
    BY <1>2, <1>5, <1>6, <2>2 DEF Turn
  <2>. QED BY <2>1, <2>2
<1>10. top'.pc = "enter" /\ Len(frames') > 1 /\ frames'[Len(frames') - 1].cls = cname
  <2>1. n \in 1..n /\ Len(frames') - 1 = n
    BY <1>2, <1>6
  <2>. QED BY <1>2, <1>4, <1>5, <1>6, <2>1 DEF top
<1>11. Emission(s, M) /\ Phase
  BY <1>1 DEF Turn
<1>12. insert = cname /\ block[insert] = <<>>
  BY <1>1, <1>11 DEF Phase
<1>13. Emission(s, M)' /\ Phase'
  BY <1>1, <1>10, <1>11, <1>12, EmissionStill DEF Phase
<1>14. Judged(M)'
  BY <1>1, JudgedStill DEF Turn
<1>. QED BY <1>1, <1>7, <1>9, <1>13, <1>14 DEF Turn

LEMMA StartEmittingTurn ==
  ASSUME TypeOK, NEW s, NEW M, Turn(s, M), StartEmitting
  PROVE  Turn(s, M)'
<1>1. /\ frames # <<>> /\ top.pc = "enter" /\ cname \notin DOMAIN block /\ frames' = Goto("base")
      /\ UNCHANGED program /\ base' = base
      /\ DOMAIN block' = DOMAIN block \cup {cname} /\ insert' = cname
      /\ block'[cname] = <<>> /\ \A c \in DOMAIN block : block'[c] = block[c]
  BY DEF StartEmitting, At, program, Exists
<1>2. PICK n \in Nat : n = Len(frames) /\ n # 0 /\ DOMAIN frames = 1..n /\ cname = frames[n].cls
  BY <1>1, TopFrame DEF cname
<1>3. /\ frames' # <<>> /\ frames'[1].cls = s
      /\ \A i \in DOMAIN frames' : IsSubclass(base', s, frames'[i].cls)
      /\ top'.pc = "base" /\ cname' = cname
  BY <1>1, GotoTurn DEF Turn
<1>4. PICK d, D : d = cname /\ D = DOMAIN block /\ d \notin D
  BY <1>1
<1>5. Phase'
  BY <1>1, <1>3 DEF Phase
<1>6. M \subseteq D /\ d \in Name /\ IsSubclass(base, s, d)
  <2>1. n \in DOMAIN frames
    BY <1>2
  <2>. QED BY <1>1, <1>2, <1>4, <2>1, TopFrame DEF Turn
<1>7. Judged(M)'
  BY <1>1, <1>4, <1>6, JudgedStill DEF Turn
<1>8. \A c \in DOMAIN block' \ M : IsSubclass(base', s, c)
  BY <1>1, <1>4, <1>6 DEF Turn
<1>9. Emission(s, M)'
  <2>1. CASE D = M /\ n = 1
    <3>1. d = s
      BY <1>2, <1>4, <2>1 DEF Turn
    <3>2. DOMAIN block' \ M = {s} /\ insert' = s
      BY <1>1, <1>4, <1>6, <2>1, <3>1
    <3>. QED BY <3>2 DEF Emission
  <2>2. CASE ~(D = M /\ n = 1)
    <3>1. Emission(s, M) /\ Phase
      BY <1>2, <1>4, <2>2 DEF Turn
    <3>2. /\ n > 1 /\ insert = frames[n - 1].cls
      BY <1>1, <1>2, <3>1 DEF Phase
    <3>3. d = base[insert]
      BY <1>2, <1>4, <3>2 DEF TypeOK
    <3>4. DOMAIN block' \ M = (D \ M) \cup {d} /\ insert' = d /\ d # s /\ s \in D \ M
      BY <1>1, <1>4, <1>6, <3>1 DEF Emission
    <3>5. ASSUME NEW c \in D \ M PROVE block'[c] = <<>> /\ BaseIn(c, DOMAIN block)'
      <4>1. CASE c = insert
        <5>1. block[c] = <<>>
          BY <1>1, <3>1, <4>1 DEF Phase
        <5>. QED BY <1>1, <1>4, <3>3, <4>1, <5>1 DEF BaseIn
      <4>2. CASE c # insert
        BY <1>1, <1>4, <3>1, <4>2 DEF Emission, BaseIn
      <4>. QED BY <4>1, <4>2
    <3>6. ~BaseIn(s, M)
      <4>1. CASE insert = s
        BY <1>4, <1>6, <3>3, <4>1, NoBaseAssumption DEF BaseIn
      <4>2. CASE insert # s
        BY <3>1, <4>2 DEF Emission
      <4>. QED BY <4>1, <4>2
    <3>. QED BY <1>1, <3>4, <3>5, <3>6 DEF Emission, BaseIn
  <2>. QED BY <2>1, <2>2
<1>. QED BY <1>1, <1>3, <1>4, <1>5, <1>6, <1>7, <1>8, <1>9 DEF Turn

LEMMA DontRepeatTurn ==
  ASSUME TypeOK, NEW k \in DOMAIN order, next = k + 1, NEW s, s = order[k], NEW M, M = Made(k),
         Turn(s, M), DontRepeat
  PROVE  TurnInv'
<1>1. /\ frames # <<>> /\ top.pc = "enter" /\ cname \in DOMAIN block /\ frames' = Return
      /\ UNCHANGED <<program, next>> /\ base' = base /\ block' = block /\ insert' = insert
  BY DEF DontRepeat, At, program, Exists
<1>2. PICK n \in Nat : n = Len(frames) /\ n # 0 /\ DOMAIN frames = 1..n /\ cname = frames[n].cls
  BY <1>1, TopFrame DEF cname
<1>3. Judged(M)'
  BY <1>1, JudgedStill DEF Turn
<1>4. CASE DOMAIN block = M /\ n = 1
  <2>1. frames' = <<>>
    BY <1>1, <1>2, <1>4, ReturnFacts
  <2>2. s \in M
    BY <1>1, <1>2, <1>4 DEF Turn
  <2>3. PICK D : D = DOMAIN block' /\ D = M /\ D \subseteq Name
    BY <1>1, <1>4 DEF TypeOK
  <2>4. Between'
    BY <1>1, <1>3, <2>1, <2>2, <2>3, EndOfTurn
  <2>. QED BY <1>1, <2>4, OrderShape DEF TurnInv, TypeOK
<1>5. CASE ~(DOMAIN block = M /\ n = 1)
  <2>1. Emission(s, M) /\ Phase
    BY <1>2, <1>5 DEF Turn
  <2>2. n > 1 /\ insert = frames[n - 1].cls /\ block[insert] = <<>>
    BY <1>1, <1>2, <2>1 DEF Phase
  <2>3. /\ frames' # <<>> /\ frames'[1].cls = s
        /\ \A i \in DOMAIN frames' : IsSubclass(base', s, frames'[i].cls)
        /\ top'.pc = "call" /\ cname' = frames[n - 1].cls
        /\ cname' \in Name /\ base[cname'] = cname
    BY <1>1, <1>2, <2>2, ReturnTurn DEF Turn
  <2>4. cname # NoBase
    BY <1>1, TopFrame
  <2>5. Phase'
    BY <1>1, <2>2, <2>3, <2>4 DEF Phase, BaseIn
  <2>6. Emission(s, M)'
    BY <1>1, <2>1, EmissionStill
  <2>7. Turn(s, M)'
    BY <1>1, <1>3, <2>3, <2>5, <2>6 DEF Turn
  <2>. QED BY <1>1, <2>7, TurnGoesOn
<1>. QED BY <1>4, <1>5

LEMMA Emitted ==
  ASSUME TypeOK, NEW c, c = insert, c \in DOMAIN block, NEW code \in Seq(Instr), Emit(code)
  PROVE  /\ DOMAIN block' = DOMAIN block
         /\ block'[c] = block[c] \o code
         /\ Len(block[c]) \in Nat /\ Len(block'[c]) = Len(block[c]) + Len(code)
         /\ \A d \in DOMAIN block : d # c => block'[d] = block[d]
<1>1. block[c] \in Seq(Instr)
  BY DEF TypeOK
<1>2. Len(block[c] \o code) = Len(block[c]) + Len(code) /\ Len(block[c]) \in Nat
  BY <1>1
<1>. QED BY <1>2 DEF Emit

LEMMA CallBaseTurn ==
  ASSUME TypeOK, NEW s, NEW M, Turn(s, M), CallBase
  PROVE  Turn(s, M)'
<1>1. /\ frames # <<>> /\ top.pc = "call" /\ frames' = Goto("vptr")
      /\ UNCHANGED program /\ base' = base /\ insert' = insert /\ Emit(<<I("call_base", cname)>>)
  BY DEF CallBase, At, program
<1>2. /\ frames' # <<>> /\ frames'[1].cls = s
      /\ \A i \in DOMAIN frames' : IsSubclass(base', s, frames'[i].cls)
      /\ top'.pc = "vptr" /\ cname' = cname
  BY <1>1, GotoTurn DEF Turn
<1>3. Emission(s, M) /\ Phase
  BY <1>1 DEF Turn
<1>4. PICK c : c = cname /\ c \in Name
  BY <1>1, TopFrame
<1>5. PICK p : p = insert /\ p \in DOMAIN block \ M
  BY <1>3 DEF Emission
<1>6. <<I("call_base", c)>> \in Seq(Instr) /\ Len(<<I("call_base", c)>>) = 1
  BY <1>4, EmittedIsCode
<1>7. /\ DOMAIN block' = DOMAIN block
      /\ block'[p] = block[p] \o <<I("call_base", c)>>
      /\ Len(block[p]) \in Nat /\ Len(block'[p]) = Len(block[p]) + 1
      /\ \A d \in DOMAIN block : d # p => block'[d] = block[d]
  BY <1>1, <1>4, <1>5, <1>6, Emitted
<1>8. Emission(s, M)'
  BY <1>1, <1>3, <1>5, <1>7 DEF Emission, BaseIn
<1>9. BaseIn(p, DOMAIN block)'
  BY <1>1, <1>3, <1>5, <1>7 DEF Phase, BaseIn
<1>10. CASE p = c
  <2>1. /\ base[c] # NoBase /\ block[p] = <<>>
    BY <1>1, <1>3, <1>4, <1>5, <1>10, NotOwnAncestor DEF Phase, TypeOK
  <2>2. block'[p] = <<I("call_base", c)>>
    BY <1>7, <2>1
  <2>. QED BY <1>1, <1>2, <1>3, <1>4, <1>5, <1>7, <1>8, <1>9, <1>10, <2>1, <2>2, JudgedStill
           DEF Turn, Phase
<1>11. CASE p # c
  <2>1. p \in Ancestors(base, c) /\ Len(block[p]) > 1
    BY <1>1, <1>3, <1>4, <1>5, <1>11 DEF Phase
  <2>2. Len(block'[p]) > 2
    BY <1>7, <2>1
  <2>3. Phase'
    BY <1>1, <1>2, <1>4, <1>5, <1>9, <2>1, <2>2 DEF Phase
  <2>. QED BY <1>1, <1>2, <1>5, <1>7, <1>8, <2>3, JudgedStill DEF Turn
<1>. QED BY <1>10, <1>11

LEMMA SetVptrAndReturnTurn ==
  ASSUME TypeOK, NEW k \in DOMAIN order, next = k + 1, NEW s, s = order[k], NEW M, M = Made(k),
         Turn(s, M), SetVptrAndReturn
  PROVE  TurnInv'
<1>1. /\ frames # <<>> /\ top.pc = "vptr" /\ frames' = Return
      /\ UNCHANGED <<program, next>> /\ base' = base /\ insert' = insert
      /\ Emit(<<I("set_vptr", cname), I("ret", cname)>>)
  BY DEF SetVptrAndReturn, At, program
<1>2. PICK n \in Nat : n = Len(frames) /\ n # 0 /\ DOMAIN frames = 1..n /\ cname = frames[n].cls
  BY <1>1, TopFrame DEF cname
<1>3. Emission(s, M) /\ Phase
  BY <1>1 DEF Turn
<1>4. PICK c : c = cname /\ c \in Name
  BY <1>1, TopFrame
<1>5. PICK p : p = insert /\ p \in DOMAIN block \ M
  BY <1>3 DEF Emission
<1>6. PICK code \in Seq(Instr) : code = <<I("set_vptr", c), I("ret", c)>> /\ Len(code) = 2
  BY <1>4, EmittedIsCode
<1>7. /\ DOMAIN block' = DOMAIN block
      /\ block'[p] = block[p] \o code
      /\ Len(block[p]) \in Nat /\ Len(block'[p]) = Len(block[p]) + 2
      /\ \A d \in DOMAIN block : d # p => block'[d] = block[d]
  <2>1. Emit(code)
    BY <1>1, <1>4, <1>6
  <2>2. p = insert /\ p \in DOMAIN block
    BY <1>5
  <2>3. /\ DOMAIN block' = DOMAIN block
        /\ block'[p] = block[p] \o code
        /\ Len(block[p]) \in Nat /\ Len(block'[p]) = Len(block[p]) + Len(code)
        /\ \A d \in DOMAIN block : d # p => block'[d] = block[d]
    BY <2>1, <2>2, Emitted
  <2>. QED BY <1>6, <2>3
<1>8. Judged(M)'
  BY <1>1, <1>5, <1>7, JudgedStill DEF Turn
<1>9. BaseIn(p, DOMAIN block)
  BY <1>1, <1>3, <1>5 DEF Phase
<1>10. p = c \/ p \in Ancestors(base, c)
  BY <1>1, <1>3, <1>4, <1>5 DEF Phase
<1>11. CASE n > 1
  <2>1. /\ frames' # <<>> /\ frames'[1].cls = s
        /\ \A i \in DOMAIN frames' : IsSubclass(base', s, frames'[i].cls)
        /\ top'.pc = "call"
        /\ cname' \in Name /\ base[cname'] = c
    BY <1>1, <1>2, <1>4, <1>11, ReturnTurn DEF Turn
  <2>2. PICK d \in Name : d = cname' /\ base[d] = c
    BY <2>1
  <2>3. p \in Ancestors(base, d)
    BY <1>4, <1>5, <1>10, <2>2, AncestorStep DEF TypeOK
  <2>4. BaseIn(p, DOMAIN block)' /\ Len(block'[p]) > 1
    BY <1>1, <1>7, <1>9 DEF BaseIn
  <2>5. Phase'
    BY <1>1, <1>5, <2>1, <2>2, <2>3, <2>4 DEF Phase
  <2>6. Emission(s, M)'
    BY <1>1, <1>3, <1>5, <1>7 DEF Emission, BaseIn
  <2>7. Turn(s, M)'
    BY <1>1, <1>7, <1>8, <2>1, <2>5, <2>6 DEF Turn
  <2>. QED BY <1>1, <2>7, TurnGoesOn
<1>12. CASE n = 1
  <2>1. frames' = <<>>
    BY <1>1, <1>2, <1>12, ReturnFacts
  <2>2. c = s
    BY <1>2, <1>4, <1>12 DEF Turn
  <2>3. PICK D : D = DOMAIN block /\ D \subseteq Name /\ M \subseteq D /\ s \in D \ M /\ p \in D \ M
    BY <1>3, <1>5 DEF TypeOK, Turn, Emission
  <2>4. \A d \in D \ M : IsSubclass(base, s, d) /\ BaseIn(d, D)
    BY <1>3, <1>5, <1>9, <2>3 DEF Turn, Emission
  <2>5. s \notin Ancestors(base, s) /\ base[s] # s
    <3>1. s \notin Ancestors(base, s)
      BY <2>3, NotOwnAncestor DEF TypeOK
    <3>. QED BY <2>3, <3>1, AncestorStep DEF TypeOK
  <2>6. ASSUME NEW d \in D \ M PROVE Proper(d)' <=> d = s /\ BaseIn(s, M)
    <3>1. Proper(d)' => Len(block'[d]) \in 2..3
      BY <1>1, <2>3, ProperLength DEF Proper
    <3>2. CASE d # p
      <4>1. block'[d] = <<>>
        BY <1>3, <1>5, <1>7, <2>3, <3>2 DEF Emission
      <4>2. d = s => ~BaseIn(s, M)
        BY <1>3, <1>5, <3>2 DEF Emission
      <4>. QED BY <3>1, <4>1, <4>2
    <3>3. CASE d = p /\ p = s
      <4>1. D \ M = {s}
        BY <1>3, <1>5, <2>3, <3>3 DEF Emission
      <4>2. BaseIn(s, M)
        BY <1>9, <2>3, <2>5, <3>3, <4>1 DEF BaseIn
      <4>3. block[s] = IF base[s] = NoBase THEN <<>> ELSE <<I("call_base", s)>>
        BY <1>1, <1>3, <1>4, <1>5, <2>2, <2>5, <3>3 DEF Phase
      <4>4. Proper(s)'
        BY <1>1, <1>6, <1>7, <2>2, <3>3, <4>3 DEF Proper
      <4>. QED BY <3>3, <4>2, <4>4
    <3>4. CASE d = p /\ p # s
      <4>1. Len(block[p]) > 2
        BY <1>1, <1>3, <1>4, <1>5, <2>2, <3>4 DEF Phase
      <4>2. Len(block'[p]) > 3 /\ Len(block'[p]) \in Nat
        BY <1>7, <4>1
      <4>3. ~(Len(block'[p]) \in 2..3)
        <5>1. \A m \in Nat : m > 3 => ~(m \in 2..3)
          OBVIOUS
        <5>. QED BY <4>2, <5>1
      <4>. QED BY <3>1, <3>4, <4>3
    <3>. QED BY <3>2, <3>3, <3>4
  <2>7. Between'
    BY <1>1, <1>7, <1>8, <2>1, <2>3, <2>4, <2>6, EndOfTurn
  <2>. QED BY <1>1, <2>7, OrderShape DEF TurnInv, TypeOK
<1>. QED BY <1>2, <1>11, <1>12

LEMMA TurnStep == TypeOK /\ TurnInv /\ [Next]_vars => TurnInv'
<1>. SUFFICES ASSUME TypeOK, TurnInv, [Next]_vars PROVE TurnInv'
  OBVIOUS
<1>1. CASE UNCHANGED vars
  <2>1. UNCHANGED <<program, next, frames, block, insert>>
    BY <1>1 DEF vars, program
  <2>2. \A M : Judged(M) => Judged(M)'
    BY <2>1, JudgedStill
  <2>3. Made(next)' = Made(next)
    BY <2>1 DEF program, Made, Place
  <2>4. CASE Between
    <3>1. Judged(Made(next))'
      BY <2>1, <2>3, <2>4, SameProgram DEF Between, Judged, Proper
    <3>. QED BY <2>1, <2>3, <2>4, <3>1 DEF TurnInv, Between
  <2>5. CASE ~Between
    <3>1. PICK k \in DOMAIN order : next = k + 1 /\ Turn(order[k], Made(k))
      BY <2>5 DEF TurnInv
    <3>2. PICK s, M : s = order[k] /\ M = Made(k) /\ Turn(s, M)
      BY <3>1
    <3>3. Emission(s, M) => Emission(s, M)'
      BY <2>1, EmissionStill
    <3>4. Phase => Phase'
      BY <2>1 DEF program, Phase, top, cname, BaseIn
    <3>5. Turn(s, M)'
      BY <2>1, <2>2, <3>2, <3>3, <3>4 DEF program, Turn, top
    <3>. QED BY <2>1, <3>1, <3>2, <3>5, TurnGoesOn
  <2>. QED BY <2>4, <2>5
<1>2. CASE NextClass
  BY <1>2, NextClassTurn
<1>3. CASE Next /\ ~NextClass
  <2>1. frames # <<>>
    BY <1>3 DEF Next, At, DontRepeat, StartEmitting, NoBaseCall, GenerateBase, CallBase,
                SetVptrAndReturn
  <2>2. PICK k \in DOMAIN order : next = k + 1 /\ Turn(order[k], Made(k))
    BY <2>1 DEF TurnInv, Between
  <2>3. PICK s, M : s = order[k] /\ M = Made(k) /\ Turn(s, M)
    BY <2>2
  <2>4. CASE StartEmitting \/ NoBaseCall \/ GenerateBase \/ CallBase
    <3>1. Turn(s, M)'
      BY <2>3, <2>4, StartEmittingTurn, NoBaseCallTurn, GenerateBaseTurn, CallBaseTurn
    <3>2. UNCHANGED <<program, next>>
      BY <2>4 DEF StartEmitting, NoBaseCall, GenerateBase, CallBase
    <3>. QED BY <2>2, <2>3, <3>1, <3>2, TurnGoesOn
  <2>. QED BY <1>3, <2>2, <2>3, <2>4, DontRepeatTurn, SetVptrAndReturnTurn DEF Next
<1>. QED BY <1>1, <1>2, <1>3

LEMMA TurnInit == Init => TypeOK /\ TurnInv
<1>. SUFFICES ASSUME Init PROVE TypeOK /\ TurnInv
  OBVIOUS
<1>1. TypeOK
  BY DEF Init, TypeOK
<1>2. \A c \in Name : Place(c) \in Nat /\ Place(c) > 0
  BY <1>1, PlaceIs, OrderShape DEF TypeOK
<1>3. Made(next) = {}
  BY <1>2 DEF Init, Made
<1>. QED BY <1>1, <1>3 DEF Init, TurnInv, Between, Judged

(* In whatever order the classes are written: a constructor comes out      *)
(* right exactly when its class is generated in its own turn, not for a    *)
(* class derived from it, and after its base.                              *)
THEOREM ConstructorsProperExactly == Spec => []ProperExactly
  BY TurnInit, TypeStep, TurnStep, TurnImplies, PTL DEF Spec

-----------------------------------------------------------------------------
(* Sequences and recursive functions.                                      *)
(* The loop over the symbols of a class, one symbol at a time.             *)
OneMore(s, f, i) ==
  IF i = 0 THEN <<>> ELSE IF IsVar(s[i]) THEN Append(f[i - 1], s[i]) ELSE f[i - 1]
Loops(s, f, k) == f = [i \in 0..k |-> OneMore(s, f, i)]

LEMMA LoopGoesOn ==
  ASSUME NEW s, NEW k \in Nat, NEW f, Loops(s, f, k)
  PROVE  \E g : Loops(s, g, k + 1)
<1>. DEFINE g == [i \in 0..(k + 1) |-> IF i <= k THEN f[i] ELSE OneMore(s, f, i)]
<1>1. \A i \in 0..k : g[i] = f[i]
  OBVIOUS
<1>2. g[k + 1] = OneMore(s, f, k + 1)
  OBVIOUS
<1>3. \A i \in 0..k : f[i] = OneMore(s, f, i)
  BY DEF Loops
<1>4. g = [i \in 0..(k + 1) |-> g[i]]
  OBVIOUS
<1>. HIDE DEF g
<1>5. ASSUME NEW i \in 0..(k + 1) PROVE g[i] = OneMore(s, g, i)
  <2>1. OneMore(s, g, i) = OneMore(s, f, i)
    BY <1>1 DEF OneMore
  <2>. QED BY <1>1, <1>2, <1>3, <2>1
<1>. QED BY <1>4, <1>5 DEF Loops

LEMMA LoopIsDefined ==
  ASSUME NEW s, NEW n \in Nat
  PROVE  \E f : Loops(s, f, n)
<1>. DEFINE S == {k \in 0..n : \E f : Loops(s, f, k)}
<1>1. 0 \in S
  <2>1. Loops(s, [i \in 0..0 |-> <<>>], 0)
    BY DEF Loops, OneMore
  <2>. QED BY <2>1
<1>2. ASSUME NEW k \in 0..(n - 1), k \in S PROVE k + 1 \in S
  BY <1>2, LoopGoesOn
<1>3. n \in S
  <2>. HIDE DEF S
  <2>. QED BY <1>1, <1>2, UpTo
<1>. QED BY <1>3

LEMMA VariablesStep ==
  ASSUME NEW s \in Seq(Member)
  PROVE  \E f \in [0..Len(s) -> Seq(Member)] :
           /\ Variables(s) = f[Len(s)]
           /\ \A i \in 0..Len(s) : f[i] = OneMore(s, f, i)
<1>. DEFINE n == Len(s)
            upTo == CHOOSE f : Loops(s, f, n)
<1>1. n \in Nat /\ \A i \in 1..n : s[i] \in Member
  OBVIOUS
<1>2. Loops(s, upTo, n)
  BY <1>1, LoopIsDefined
<1>3. Variables(s) = upTo[n]
  BY DEF Variables, Loops, OneMore
<1>. HIDE DEF upTo
<1>4. \A i \in 0..n : upTo[i] = OneMore(s, upTo, i)
  BY <1>2 DEF Loops
<1>5. \A i \in 0..n : upTo[i] \in Seq(Member)
  <2>. DEFINE Good == {i \in 0..n : upTo[i] \in Seq(Member)}
  <2>1. 0 \in Good
    <3>1. 0 \in 0..n /\ <<>> \in Seq(Member)
      BY <1>1
    <3>2. upTo[0] = <<>>
      BY <1>4, <3>1 DEF OneMore
    <3>. QED BY <3>1, <3>2
  <2>2. ASSUME NEW i \in 0..(n - 1), i \in Good PROVE i + 1 \in Good
    <3>1. i + 1 \in 1..n /\ i + 1 \in 0..n /\ (i + 1) - 1 = i /\ i + 1 # 0
      BY <1>1
    <3>2. upTo[i + 1] \in {Append(upTo[i], s[i + 1]), upTo[i]}
      BY <1>4, <3>1 DEF OneMore
    <3>3. upTo[i] \in Seq(Member) /\ s[i + 1] \in Member
      BY <1>1, <2>2, <3>1
    <3>4. upTo[i + 1] \in Seq(Member)
      <4>1. \A q \in Seq(Member), e \in Member : Append(q, e) \in Seq(Member)
        OBVIOUS
      <4>2. Append(upTo[i], s[i + 1]) \in Seq(Member)
        BY <3>3, <4>1
      <4>. QED BY <3>2, <3>3, <4>2
    <3>. QED BY <3>1, <3>4
  <2>3. \A i \in 0..n : i \in Good
    <3>. HIDE DEF Good, n
    <3>. QED BY <1>1, <2>1, <2>2, UpTo
  <2>. QED BY <2>3
<1>6. upTo \in [0..n -> Seq(Member)]
  BY <1>2, <1>5 DEF Loops
<1>. QED BY <1>1, <1>3, <1>4, <1>6
(* The variables of a row of symbols, and the place of one among them.     *)
Vars(s) == {i \in DOMAIN s : IsVar(s[i])}
Rank(s, i) == Cardinality({j \in Vars(s) : j <= i})

LEMMA RankStep ==
  ASSUME NEW s \in Seq(Member), NEW i \in 0..Len(s)
  PROVE  /\ IsFiniteSet({j \in Vars(s) : j <= i}) /\ Rank(s, i) \in Nat
         /\ i = 0 => Rank(s, i) = 0
         /\ i > 0 => Rank(s, i) = IF i \in Vars(s) THEN Rank(s, i - 1) + 1 ELSE Rank(s, i - 1)
<1>. DEFINE V(k) == {j \in Vars(s) : j <= k}
<1>1. Vars(s) \subseteq 1..Len(s) /\ IsFiniteSet(1..Len(s)) /\ Len(s) \in Nat
  BY FS_Interval DEF Vars
<1>2. \A k : IsFiniteSet(V(k)) /\ Cardinality(V(k)) \in Nat
  <2>. SUFFICES ASSUME NEW k PROVE IsFiniteSet(V(k)) /\ Cardinality(V(k)) \in Nat
    OBVIOUS
  <2>1. V(k) \in SUBSET (1..Len(s))
    BY <1>1
  <2>. HIDE DEF V
  <2>. QED BY <1>1, <2>1, FS_Subset, FS_CardinalityType
<1>3. ASSUME i = 0 PROVE Rank(s, i) = 0
  <2>1. V(i) = {}
    BY <1>1, <1>3
  <2>. QED BY <2>1, FS_EmptySet DEF Rank
<1>4. ASSUME i > 0
      PROVE  Rank(s, i) = IF i \in Vars(s) THEN Rank(s, i - 1) + 1 ELSE Rank(s, i - 1)
  <2>1. V(i) = IF i \in Vars(s) THEN V(i - 1) \cup {i} ELSE V(i - 1)
    BY <1>1, <1>4
  <2>2. i \notin V(i - 1)
    OBVIOUS
  <2>3. IsFiniteSet(V(i - 1))
    BY <1>2
  <2>4. Cardinality(V(i - 1) \cup {i}) = Cardinality(V(i - 1)) + 1
    <3>. HIDE DEF V
    <3>. QED BY <2>2, <2>3, FS_AddElement
  <2>. QED BY <2>1, <2>4 DEF Rank
<1>. QED BY <1>2, <1>3, <1>4 DEF Rank

(* The loop collects the variables, each at its place.                     *)
LEMMA VariablesAre ==
  ASSUME NEW s \in Seq(Member)
  PROVE  /\ Variables(s) \in Seq(Member) /\ Len(Variables(s)) = Rank(s, Len(s))
         /\ \A i \in Vars(s) :
              Rank(s, i) \in DOMAIN Variables(s) /\ Variables(s)[Rank(s, i)] = s[i]
         /\ \A k \in DOMAIN Variables(s) : \E i \in Vars(s) : Rank(s, i) = k
<1>1. PICK f \in [0..Len(s) -> Seq(Member)] :
        Variables(s) = f[Len(s)] /\ \A i \in 0..Len(s) : f[i] = OneMore(s, f, i)
  BY VariablesStep
<1>. DEFINE Fits(m) ==
              /\ Len(f[m]) = Rank(s, m)
              /\ \A i \in Vars(s) : i <= m =>
                   Rank(s, i) \in 1..Rank(s, m) /\ f[m][Rank(s, i)] = s[i]
              /\ \A k \in 1..Rank(s, m) : \E i \in Vars(s) : i <= m /\ Rank(s, i) = k
<1>2. Vars(s) \subseteq 1..Len(s) /\ Len(s) \in Nat /\ \A i \in 1..Len(s) : s[i] \in Member
  BY DEF Vars
<1>3. Fits(0)
  <2>1. f[0] = <<>> /\ Rank(s, 0) = 0
    <3>1. 0 \in 0..Len(s)
      BY <1>2
    <3>2. Rank(s, 0) = 0
      BY <3>1, RankStep
    <3>. QED BY <1>1, <3>1, <3>2 DEF OneMore
  <2>2. \A i \in Vars(s) : ~(i <= 0)
    BY <1>2
  <2>. QED BY <2>1, <2>2
<1>4. ASSUME NEW m \in 0..(Len(s) - 1), Fits(m) PROVE Fits(m + 1)
  <2>1. m + 1 \in 0..Len(s) /\ m + 1 \in 1..Len(s) /\ (m + 1) - 1 = m /\ m \in 0..Len(s)
        /\ m + 1 # 0
    BY <1>2
  <2>2. f[m + 1] = IF IsVar(s[m + 1]) THEN Append(f[m], s[m + 1]) ELSE f[m]
    <3>1. f[m + 1] = OneMore(s, f, m + 1)
      BY <1>1, <2>1
    <3>. QED BY <2>1, <3>1 DEF OneMore
  <2>3. m + 1 \in Vars(s) <=> IsVar(s[m + 1])
    BY <2>1 DEF Vars
  <2>4. Rank(s, m) \in Nat
        /\ Rank(s, m + 1) = IF m + 1 \in Vars(s) THEN Rank(s, m) + 1 ELSE Rank(s, m)
    BY <2>1, RankStep
  <2>5. \A i \in Vars(s) : i <= m + 1 <=> i <= m \/ i = m + 1
    BY <1>2
  <2>6. CASE m + 1 \notin Vars(s)
    BY <1>4, <2>2, <2>3, <2>4, <2>5, <2>6
  <2>7. CASE m + 1 \in Vars(s)
    <3>1. PICK q \in Seq(Member) : q = f[m]
      BY <2>1
    <3>2. PICK e \in Member : e = s[m + 1]
      BY <1>2, <2>1
    <3>3. f[m + 1] = Append(q, e) /\ Len(q) = Rank(s, m)
      BY <1>4, <2>2, <2>3, <2>7, <3>1, <3>2
    <3>4. Len(f[m + 1]) = Rank(s, m + 1)
      BY SMTT(30), <2>4, <2>7, <3>3
    <3>5. ASSUME NEW i \in Vars(s), i <= m + 1
          PROVE  Rank(s, i) \in 1..Rank(s, m + 1) /\ f[m + 1][Rank(s, i)] = s[i]
      <4>1. CASE i <= m
        BY <1>4, <2>4, <2>7, <3>1, <3>3, <4>1
      <4>2. CASE i = m + 1
        BY <2>4, <2>7, <3>2, <3>3, <4>2
      <4>. QED BY <2>5, <3>5, <4>1, <4>2
    <3>6. ASSUME NEW k \in 1..Rank(s, m + 1)
          PROVE  \E i \in Vars(s) : i <= m + 1 /\ Rank(s, i) = k
      <4>1. k \in 1..Rank(s, m) \/ k = Rank(s, m + 1)
        BY <2>4, <2>7
      <4>. QED BY <1>4, <2>1, <2>5, <2>7, <4>1
    <3>. QED BY <3>4, <3>5, <3>6
  <2>. QED BY <2>6, <2>7
<1>5. Fits(Len(s))
  <2>. DEFINE S == {m \in 0..Len(s) : Fits(m)}
  <2>. HIDE DEF Fits
  <2>1. 0 \in S
    BY <1>2, <1>3
  <2>2. \A m \in 0..(Len(s) - 1) : m \in S => m + 1 \in S
    BY <1>2, <1>4
  <2>3. \A m \in 0..Len(s) : m \in S
    <3>. HIDE DEF S
    <3>1. Len(s) \in Nat
      BY <1>2
    <3>. QED BY <2>1, <2>2, <3>1, UpTo
  <2>4. Len(s) \in 0..Len(s)
    BY <1>2
  <2>. QED BY <2>3, <2>4
<1>6. f[Len(s)] \in Seq(Member) /\ DOMAIN f[Len(s)] = 1..Len(f[Len(s)])
  BY <1>2
<1>. QED BY <1>1, <1>2, <1>5, <1>6
-----------------------------------------------------------------------------
(* What is accepted declares a name once in a class.                       *)
Lawful == members \in [Name -> Seq(Member)] /\ Legal(members)

LEMMA IndexIs ==
  ASSUME Lawful, NEW d \in Name, NEW n \in Declared(d)
  PROVE  /\ Index(d, n) \in 1..Len(members[d]) /\ members[d][Index(d, n)].name = n
         /\ members[d][Index(d, n)] \in Member
         /\ \A i \in DOMAIN members[d] : members[d][i].name = n => i = Index(d, n)
         /\ Symbol(d, n) = members[d][Index(d, n)]
<1>1. members[d] \in Seq(Member)
  BY DEF Lawful
<1>2. DOMAIN members[d] = 1..Len(members[d]) /\ \A i \in DOMAIN members[d] : members[d][i] \in Member
  BY <1>1
<1>3. \E i \in DOMAIN members[d] : members[d][i].name = n
  BY DEF Declared
<1>4. Index(d, n) \in DOMAIN members[d] /\ members[d][Index(d, n)].name = n
  BY <1>3 DEF Index
<1>5. ASSUME NEW i \in DOMAIN members[d], NEW j \in DOMAIN members[d],
             members[d][i].name = n, members[d][j].name = n
      PROVE  i = j
  <2>1. <<d, i>> = <<d, j>>
    BY <1>5 DEF Lawful, Legal
  <2>. QED BY <2>1
<1>6. Symbol(d, n) = members[d][Index(d, n)]
  <2>1. \A m \in Member : m.name = n /\ (\E i \in DOMAIN members[d] : members[d][i] = m)
          <=> m = members[d][Index(d, n)]
    BY <1>2, <1>4, <1>5
  <2>. HIDE DEF Member
  <2>2. members[d][Index(d, n)] \in Member
    BY <1>2, <1>4
  <2>. QED BY <2>1, <2>2 DEF Symbol
<1>. QED BY <1>2, <1>4, <1>5, <1>6

(* A field takes the place of its row that the loop of getFieldPtr counts, *)
(* unless methods before it shift the count onto another or past the end.  *)
LEMMA CompilesUnlessMisplaced ==
  ASSUME Lawful, NEW d \in Name, NEW x \in Field, x \in Declared(d)
  PROVE  Compiles(d, x) <=> ~Misplaced(d, x)
<1>. DEFINE s == members[d]
            p == Index(d, x)
            q == Rank(s, p)
            shift == Cardinality(MethodsBefore(d, x))
            After(i) == {j \in FieldsAfter(d, x) : j <= i}
<1>1. s \in Seq(Member) /\ Len(s) \in Nat /\ DOMAIN s = 1..Len(s)
  BY DEF Lawful
<1>2. p \in 1..Len(s) /\ s[p].name = x /\ s[p] \in Member /\ Symbol(d, x) = s[p]
  BY IndexIs
<1>3. p \in Vars(s)
  BY <1>1, <1>2, ObjectsAssumption DEF Member, IsVar, VarKinds, Vars
<1>4. q \in Nat /\ shift \in Nat /\ p = q + shift
  <2>. DEFINE V == {j \in Vars(s) : j <= p}
  <2>1. V \cup MethodsBefore(d, x) = 1..p /\ V \cap MethodsBefore(d, x) = {}
    BY <1>1, <1>2 DEF Vars, MethodsBefore
  <2>2. IsFiniteSet(1..p) /\ Cardinality(1..p) = p
    BY <1>2, FS_Interval
  <2>3. V \in SUBSET (1..p) /\ MethodsBefore(d, x) \in SUBSET (1..p)
    BY <2>1
  <2>. HIDE DEF V
  <2>4. IsFiniteSet(V) /\ IsFiniteSet(MethodsBefore(d, x))
    BY <2>2, <2>3, FS_Subset
  <2>5. Cardinality(V) \in Nat /\ Cardinality(MethodsBefore(d, x)) \in Nat
    BY <2>4, FS_CardinalityType
  <2>6. p = Cardinality(V) + Cardinality(MethodsBefore(d, x))
    <3>1. Cardinality(V \cup MethodsBefore(d, x)) = Cardinality(V)
            + Cardinality(MethodsBefore(d, x)) - Cardinality(V \cap MethodsBefore(d, x))
      BY <2>4, FS_Union
    <3>2. Cardinality(V \cap MethodsBefore(d, x)) = 0
      BY <2>1, FS_EmptySet
    <3>3. p \in Nat /\ Cardinality(1..p) = p
      BY <1>2, <2>2
    <3>. HIDE DEF p
    <3>4. Cardinality(V \cup MethodsBefore(d, x)) = p
      BY <2>1, <3>3
    <3>. QED BY <2>5, <3>1, <3>2, <3>3, <3>4
  <2>. QED BY <2>5, <2>6 DEF V, Rank
<1>5. \A i \in 1..Len(s) : Rank(s, i) \in Nat /\ IsFiniteSet({j \in Vars(s) : j <= i})
  <2>. SUFFICES ASSUME NEW i \in 1..Len(s)
                PROVE  Rank(s, i) \in Nat /\ IsFiniteSet({j \in Vars(s) : j <= i})
    OBVIOUS
  <2>1. i \in 0..Len(s)
    BY <1>1
  <2>. QED BY <1>1, <2>1, RankStep
<1>6. ASSUME NEW i \in Vars(s), i > p
      PROVE  Rank(s, i) = q + Cardinality(After(i)) /\ Cardinality(After(i)) \in Nat
  <2>. DEFINE V(k) == {j \in Vars(s) : j <= k}
  <2>0. i \in 1..Len(s) /\ Vars(s) \subseteq 1..Len(s)
    BY <1>1 DEF Vars
  <2>1. V(i) = V(p) \cup After(i) /\ V(p) \cap After(i) = {}
    BY <1>1, <1>2, <1>6, <2>0 DEF Vars, FieldsAfter
  <2>2. IsFiniteSet(V(i)) /\ IsFiniteSet(V(p))
    BY <1>2, <1>5, <2>0
  <2>3. After(i) \in SUBSET V(i)
    BY <2>1
  <2>4. Rank(s, i) = Cardinality(V(i)) /\ q = Cardinality(V(p))
    BY DEF Rank
  <2>. HIDE DEF V, After, q
  <2>5. IsFiniteSet(After(i))
    BY <2>2, <2>3, FS_Subset
  <2>6. Cardinality(V(i)) = Cardinality(V(p)) + Cardinality(After(i)) - Cardinality(V(p) \cap After(i))
    BY <2>1, <2>2, <2>5, FS_Union
  <2>7. Cardinality(V(p)) \in Nat /\ Cardinality(After(i)) \in Nat
    BY <2>2, <2>5, FS_CardinalityType
  <2>8. Cardinality(V(p) \cap After(i)) = 0
    BY <2>1, FS_EmptySet
  <2>9. Cardinality(V(i)) = Cardinality(V(p)) + Cardinality(After(i))
    BY <2>6, <2>7, <2>8
  <2>. QED BY <2>4, <2>7, <2>9
<1>7. ASSUME NEW i \in Vars(s), i <= p PROVE Rank(s, i) <= q
  <2>. DEFINE V(k) == {j \in Vars(s) : j <= k}
  <2>1. i \in 1..Len(s) /\ Vars(s) \subseteq 1..Len(s)
    BY <1>1 DEF Vars
  <2>2. V(i) \in SUBSET V(p) /\ IsFiniteSet(V(p))
    BY <1>2, <1>5, <1>7, <2>1
  <2>3. Cardinality(V(i)) <= Cardinality(V(p))
    <3>. HIDE DEF V
    <3>. QED BY <2>2, FS_Subset
  <2>. QED BY <2>3 DEF Rank
<1>8. Contents(d) \in Seq(Member)
      /\ (\A i \in Vars(s) : Rank(s, i) \in DOMAIN Contents(d) /\ Contents(d)[Rank(s, i)] = s[i])
      /\ \A k \in DOMAIN Contents(d) : \E i \in Vars(s) : Rank(s, i) = k
  BY <1>1, VariablesAre DEF Contents
<1>9. \A i \in Vars(s) : i \in Nat /\ (i > p <=> i \in FieldsAfter(d, x))
  BY <1>1 DEF FieldsAfter, Vars
<1>10. FieldsAfter(d, x) \subseteq Vars(s)
  BY DEF FieldsAfter, Vars
<1>11. Compiles(d, x) <=> p \in DOMAIN Contents(d) /\ Contents(d)[p].kind = s[p].kind
  BY <1>2 DEF Compiles
<1>12. Misplaced(d, x) <=> /\ shift > 0
                           /\ ~\E i \in FieldsAfter(d, x) :
                                 Cardinality(After(i)) = shift /\ s[i].kind = s[p].kind
  BY <1>2 DEF Misplaced
<1>. HIDE DEF s, p, q, shift, After
<1>13. \A i \in FieldsAfter(d, x) :
         Rank(s, i) = q + Cardinality(After(i)) /\ Cardinality(After(i)) \in Nat
  BY <1>6, <1>9, <1>10
<1>14. CASE shift = 0
  <2>1. q = p
    BY <1>4, <1>14
  <2>. QED BY <1>3, <1>8, <1>11, <1>12, <1>14, <2>1 DEF q
<1>15. CASE shift > 0
  <2>1. ASSUME Compiles(d, x) PROVE ~Misplaced(d, x)
    <3>1. PICK i \in Vars(s) : Rank(s, i) = p
      BY <1>8, <1>11, <2>1
    <3>2. i \in FieldsAfter(d, x)
      BY <1>2, <1>4, <1>7, <1>9, <1>15, <3>1
    <3>3. \A n \in Nat : p = q + n => n = shift
      BY <1>4
    <3>4. Rank(s, i) = q + Cardinality(After(i)) /\ s[i].kind = s[p].kind
      BY <1>8, <1>11, <1>13, <2>1, <3>1, <3>2
    <3>. QED BY <1>12, <1>13, <3>1, <3>2, <3>3, <3>4
  <2>2. ASSUME ~Misplaced(d, x) PROVE Compiles(d, x)
    <3>1. PICK i \in FieldsAfter(d, x) : Cardinality(After(i)) = shift /\ s[i].kind = s[p].kind
      BY <1>12, <1>15, <2>2
    <3>2. Rank(s, i) = p
      BY <1>4, <1>13, <3>1
    <3>. QED BY <1>8, <1>10, <1>11, <3>1, <3>2
  <2>. QED BY <2>1, <2>2
<1>. QED BY <1>4, <1>14, <1>15
-----------------------------------------------------------------------------
(* The struct of a class: its base's, then its own variables.              *)
Forest ==
  /\ base \in BaseMap /\ Acyclic(base)
  /\ above = [c \in Name |-> Ancestors(base, c)]

Parts(S) == UNION {{a} \X DOMAIN Contents(a) : a \in S}

LEMMA ContentsAre ==
  ASSUME Lawful, NEW c \in Name
  PROVE  /\ Contents(c) \in Seq(Member) /\ Len(Contents(c)) \in Nat
         /\ DOMAIN Contents(c) = 1..Len(Contents(c))
<1>1. members[c] \in Seq(Member)
  BY DEF Lawful
<1>2. Contents(c) \in Seq(Member)
  BY <1>1, VariablesAre DEF Contents
<1>. QED BY <1>2

LEMMA IsAMeans ==
  ASSUME Forest, NEW c \in Name
  PROVE  \A a \in Name : /\ IsA(c, a) <=> IsSubclass(base, c, a)
                         /\ a \in above[c] <=> a \in Ancestors(base, c)
BY DEF Forest, IsA, IsSubclass

LEMMA PartsFinite ==
  ASSUME Lawful, NEW S \in SUBSET Name
  PROVE  IsFiniteSet(Parts(S)) /\ Cardinality(Parts(S)) \in Nat
<1>. DEFINE f == [a \in S |-> {a} \X DOMAIN Contents(a)]
            T == {f[a] : a \in S}
<1>1. IsFiniteSet(S)
  BY FiniteNames, FS_Subset
<1>2. f \in Surjection(S, T)
  BY DEF Surjection
<1>3. IsFiniteSet(T)
  <2>. HIDE DEF f, T
  <2>. QED BY <1>1, <1>2, FS_Surjection
<1>4. ASSUME NEW a \in S PROVE IsFiniteSet(f[a])
  <2>1. IsFiniteSet({a}) /\ IsFiniteSet(DOMAIN Contents(a))
    <3>1. a \in Name
      OBVIOUS
    <3>2. DOMAIN Contents(a) = 1..Len(Contents(a)) /\ Len(Contents(a)) \in Nat
      BY <3>1, ContentsAre
    <3>3. IsFiniteSet(1..Len(Contents(a)))
      BY <3>2, FS_Interval
    <3>. QED BY <3>2, <3>3, FS_Singleton
  <2>2. f[a] = {a} \X DOMAIN Contents(a)
    OBVIOUS
  <2>. QED BY <2>1, <2>2, FS_Product
<1>5. Parts(S) = UNION T
  BY DEF Parts
<1>6. \A t \in T : IsFiniteSet(t)
  <2>. HIDE DEF f
  <2>. QED BY <1>4
<1>. HIDE DEF T
<1>. QED BY <1>3, <1>5, <1>6, FS_UNION, FS_CardinalityType

LEMMA PartsAdd ==
  ASSUME Lawful, NEW S \in SUBSET Name, NEW c \in Name, c \notin S
  PROVE  Cardinality(Parts(S \cup {c})) = Cardinality(Parts(S)) + Len(Contents(c))
<1>. DEFINE own == {c} \X DOMAIN Contents(c)
<1>1. Parts(S \cup {c}) = Parts(S) \cup own /\ Parts(S) \cap own = {}
  BY DEF Parts
<1>2. IsFiniteSet(own) /\ Cardinality(own) = Len(Contents(c)) /\ Len(Contents(c)) \in Nat
  <2>1. IsFiniteSet({c}) /\ Cardinality({c}) = 1
    BY FS_Singleton
  <2>2. IsFiniteSet(DOMAIN Contents(c)) /\ Cardinality(DOMAIN Contents(c)) = Len(Contents(c))
        /\ Len(Contents(c)) \in Nat
    BY ContentsAre, FS_Interval
  <2>3. IsFiniteSet(own) /\ Cardinality(own) = 1 * Len(Contents(c))
    BY <2>1, <2>2, FS_Product
  <2>. QED BY <2>2, <2>3
<1>3. IsFiniteSet(Parts(S)) /\ Cardinality(Parts(S)) \in Nat
  BY PartsFinite
<1>. HIDE DEF own
<1>4. Cardinality(Parts(S) \cup own) = Cardinality(Parts(S)) + Cardinality(own)
        - Cardinality(Parts(S) \cap own)
  BY <1>2, <1>3, FS_Union
<1>5. Cardinality(Parts(S) \cap own) = 0
  BY <1>1, FS_EmptySet
<1>6. Cardinality(Parts(S \cup {c})) = Cardinality(Parts(S) \cup own)
  BY <1>1
<1>. QED BY <1>2, <1>3, <1>4, <1>5, <1>6

LEMMA LayoutIs ==
  ASSUME Lawful, Forest, NEW c \in Name
  PROVE  /\ BasePart(c) \in Nat \ {0} /\ SizeOf(c) \in Nat \ {0}
         /\ SizeOf(c) = BasePart(c) + Len(Contents(c))
         /\ SizeOf(c) = 1 + Cardinality(Parts(above[c] \cup {c}))
<1>1. above[c] \in SUBSET Name /\ c \notin above[c]
  BY NotOwnAncestor DEF Forest, Ancestors
<1>2. BasePart(c) = 1 + Cardinality(Parts(above[c])) /\ Cardinality(Parts(above[c])) \in Nat
  BY <1>1, PartsFinite DEF BasePart, Parts
<1>3. Len(Contents(c)) \in Nat
  BY ContentsAre
<1>4. Cardinality(Parts(above[c] \cup {c})) = Cardinality(Parts(above[c])) + Len(Contents(c))
  BY <1>1, PartsAdd
<1>. QED BY <1>2, <1>3, <1>4 DEF SizeOf

LEMMA BasesComeFirst ==
  ASSUME Lawful, Forest, NEW c \in Name, NEW d \in Name, d \in above[c]
  PROVE  SizeOf(d) <= BasePart(c)
<1>1. above[c] \in SUBSET Name /\ above[d] \cup {d} \subseteq above[c]
  BY AncestorOfAncestor DEF Forest, Ancestors
<1>2. Parts(above[d] \cup {d}) \in SUBSET Parts(above[c])
  BY <1>1 DEF Parts
<1>3. IsFiniteSet(Parts(above[c])) /\ Cardinality(Parts(above[c])) \in Nat
  BY <1>1, PartsFinite
<1>4. Cardinality(Parts(above[d] \cup {d})) <= Cardinality(Parts(above[c]))
  BY <1>2, <1>3, FS_Subset
<1>5. BasePart(c) = 1 + Cardinality(Parts(above[c]))
  BY DEF BasePart, Parts
<1>6. Cardinality(Parts(above[d] \cup {d})) \in Nat
  BY <1>2, <1>3, FS_Subset, FS_CardinalityType
<1>7. SizeOf(d) = 1 + Cardinality(Parts(above[d] \cup {d}))
  BY LayoutIs
<1>. QED BY <1>3, <1>4, <1>5, <1>6, <1>7

(* Where a field is: inside the object, past its first word, and not where *)
(* another field of the object is.                                         *)
Placed(c, d, x) ==
  d \in Name /\ IsA(c, d) /\ x \in Declared(d) /\ Compiles(d, x)

LEMMA FieldInside ==
  ASSUME Lawful, Forest, NEW c \in Name, NEW d, NEW x, Placed(c, d, x), NEW o \in Nat
  PROVE  /\ FieldPtr(o, d, x) \in (o + 1)..(o + SizeOf(c) - 1)
         /\ FieldPtr(o, d, x) \in (o + BasePart(d))..(o + SizeOf(d) - 1)
<1>1. d \in Name /\ Index(d, x) \in 1..Len(Contents(d)) /\ Len(Contents(d)) \in Nat
  BY ContentsAre DEF Placed, Compiles
<1>2. BasePart(d) \in Nat \ {0} /\ SizeOf(d) = BasePart(d) + Len(Contents(d))
      /\ SizeOf(c) \in Nat /\ BasePart(c) \in Nat /\ BasePart(c) <= SizeOf(c)
  <2>1. BasePart(d) \in Nat \ {0} /\ SizeOf(d) = BasePart(d) + Len(Contents(d))
    BY <1>1, LayoutIs
  <2>2. SizeOf(c) \in Nat /\ BasePart(c) \in Nat /\ SizeOf(c) = BasePart(c) + Len(Contents(c))
    BY LayoutIs
  <2>3. Len(Contents(c)) \in Nat
    BY ContentsAre
  <2>. QED BY <2>1, <2>2, <2>3
<1>3. SizeOf(d) <= SizeOf(c)
  <2>1. CASE c = d
    BY <1>2, <2>1
  <2>2. CASE d \in above[c]
    BY <1>1, <1>2, <2>2, BasesComeFirst
  <2>. QED BY <2>1, <2>2 DEF Placed, IsA
<1>4. FieldPtr(o, d, x) = o + BasePart(d) + Index(d, x) - 1
  BY DEF FieldPtr
<1>. QED BY SMTT(30), <1>1, <1>2, <1>3, <1>4

LEMMA FieldsApart ==
  ASSUME Lawful, Forest, NEW c \in Name, NEW d, NEW x, NEW e, NEW y,
         Placed(c, d, x), Placed(c, e, y), NEW o \in Nat,
         FieldPtr(o, d, x) = FieldPtr(o, e, y)
  PROVE  d = e /\ x = y
<1>1. d \in Name /\ e \in Name /\ x \in Declared(d) /\ y \in Declared(e)
  BY DEF Placed
<1>2. ASSUME d = e PROVE x = y
  <2>1. Index(d, x) \in Nat /\ Index(d, y) \in Nat /\ BasePart(d) \in Nat
    <3>1. Index(d, x) \in 1..Len(members[d]) /\ Index(d, y) \in 1..Len(members[d])
      BY <1>1, <1>2, IndexIs
    <3>2. BasePart(d) \in Nat
      BY <1>1, LayoutIs
    <3>. QED BY <3>1, <3>2
  <2>2. Index(d, x) = Index(d, y)
    BY <1>2, <2>1 DEF FieldPtr
  <2>. QED BY <1>1, <1>2, <2>2, IndexIs
<1>3. ASSUME NEW a \in Name, NEW b \in Name, NEW u, NEW v, a \in above[b],
             Placed(c, a, u), Placed(c, b, v)
      PROVE  FieldPtr(o, a, u) # FieldPtr(o, b, v)
  <2>1. FieldPtr(o, a, u) \in (o + BasePart(a))..(o + SizeOf(a) - 1)
        /\ FieldPtr(o, b, v) \in (o + BasePart(b))..(o + SizeOf(b) - 1)
    BY <1>3, FieldInside
  <2>2. SizeOf(a) <= BasePart(b) /\ SizeOf(a) \in Nat /\ BasePart(b) \in Nat
        /\ BasePart(a) \in Nat /\ SizeOf(b) \in Nat
    BY <1>3, BasesComeFirst, LayoutIs
  <2>. QED BY <2>1, <2>2
<1>4. d = e \/ d \in above[e] \/ e \in above[d]
  <2>1. IsSubclass(base, c, d) /\ IsSubclass(base, c, e)
    BY <1>1, IsAMeans DEF Placed
  <2>2. IsSubclass(base, d, e) \/ IsSubclass(base, e, d)
    BY <1>1, <2>1, AncestorsInLine DEF Forest
  <2>. QED BY <1>1, <2>2, IsAMeans DEF IsSubclass
<1>. QED BY <1>1, <1>2, <1>3, <1>4
-----------------------------------------------------------------------------
LEMMA NearestIs ==
  ASSUME Forest, NEW c \in Name, NEW n, Understands(c, n)
  PROVE  /\ Nearest(c, n) \in Name /\ IsA(c, Nearest(c, n)) /\ n \in Declared(Nearest(c, n))
         /\ \A a \in Name : IsA(c, a) /\ n \in Declared(a) => IsA(Nearest(c, n), a)
<1>. DEFINE D == {d \in Name : n \in Declared(d)}
<1>1. PICK e \in Name : IsA(c, e) /\ n \in Declared(e)
  BY DEF Understands
<1>2. e \in D /\ D \in SUBSET Name /\ IsSubclass(base, c, e)
  BY <1>1, IsAMeans
<1>3. PICK d \in D : /\ IsSubclass(base, c, d)
                     /\ \A a \in D : IsSubclass(base, c, a) => IsSubclass(base, d, a)
  <2>. HIDE DEF D
  <2>. QED BY <1>2, NearestExists DEF Forest
<1>4. /\ d \in Name /\ IsA(c, d) /\ n \in Declared(d)
      /\ \A a \in Name : IsA(c, a) /\ n \in Declared(a) => IsA(d, a)
  BY <1>3, IsAMeans
<1>. QED BY <1>4 DEF Nearest

(* What a step that leaves the program's text alone does not change.       *)
SameText == UNCHANGED <<program, compiler, members>>

LEMMA TextStays ==
  ASSUME SameText
  PROVE  /\ base' = base /\ order' = order /\ above' = above /\ members' = members
         /\ \A c : /\ Contents(c)' = Contents(c) /\ BasePart(c)' = BasePart(c)
                  /\ SizeOf(c)' = SizeOf(c) /\ Declared(c)' = Declared(c)
                  /\ Constructs(c)' = Constructs(c)
         /\ \A c, a : IsA(c, a)' = IsA(c, a)
         /\ \A d, n : Index(d, n)' = Index(d, n) /\ Symbol(d, n)' = Symbol(d, n)
         /\ \A o, d, x : FieldPtr(o, d, x)' = FieldPtr(o, d, x)
<1>1. /\ base' = base /\ order' = order /\ above' = above /\ members' = members
      /\ block' = block /\ frames' = frames /\ next' = next /\ insert' = insert
  BY DEF SameText, program, compiler
<1>2. \A c : Contents(c)' = Contents(c)
  BY <1>1 DEF Contents
<1>3. \A c : BasePart(c)' = BasePart(c) /\ SizeOf(c)' = SizeOf(c) /\ Declared(c)' = Declared(c)
  BY <1>1, <1>2 DEF BasePart, SizeOf, Declared
<1>4. \A c, a : IsA(c, a)' = IsA(c, a)
  BY <1>1 DEF IsA
<1>5. \A d, n : Index(d, n)' = Index(d, n) /\ Symbol(d, n)' = Symbol(d, n)
  BY <1>1 DEF Index, Symbol
<1>6. \A o, d, x : FieldPtr(o, d, x)' = FieldPtr(o, d, x)
  BY <1>3, <1>5 DEF FieldPtr
<1>7. \A c : Constructs(c)' = Constructs(c)
  BY <1>1, <1>4 DEF Constructs, Proper
<1>. QED BY <1>1, <1>2, <1>3, <1>4, <1>5, <1>6, <1>7

LEMMA MeaningStays ==
  ASSUME SameText
  PROVE  /\ \A c, n : /\ Understands(c, n)' = Understands(c, n)
                     /\ Nearest(c, n)' = Nearest(c, n)
         /\ \A d, n : /\ Compiles(d, n)' = Compiles(d, n)
                     /\ IsStatic(d, n)' = IsStatic(d, n)
                     /\ Misplaced(d, n)' = Misplaced(d, n)
<1>1. \A c, n : Understands(c, n)' = Understands(c, n) /\ Nearest(c, n)' = Nearest(c, n)
  BY TextStays DEF Understands, Nearest
<1>2. \A d, n : Compiles(d, n)' = Compiles(d, n) /\ IsStatic(d, n)' = IsStatic(d, n)
  BY TextStays DEF Compiles, IsStatic
<1>3. \A d, n : Misplaced(d, n)' = Misplaced(d, n)
  <2>1. \A d, n : MethodsBefore(d, n)' = MethodsBefore(d, n) /\ FieldsAfter(d, n)' = FieldsAfter(d, n)
    BY TextStays DEF MethodsBefore, FieldsAfter
  <2>. QED BY <2>1, TextStays DEF Misplaced
<1>. QED BY <1>1, <1>2, <1>3
-----------------------------------------------------------------------------
(* The inductive invariant.  The text: what Constructor's proofs need, and *)
(* that it is final once the program runs.                                 *)
TextInv ==
  /\ TypeOK /\ FirstInv /\ TurnInv
  /\ Lawful /\ Forest
  /\ state # "codegen" => Done
  /\ state = "codegen" => heap = <<>> /\ objs = <<>> /\ walk = <<>> /\ seen = <<>>

(* Memory: the objects one after the other, without gaps.                  *)
HeapInv ==
  /\ heap \in Seq(Value \cup Name) /\ objs \in Seq(Nat)
  /\ \A i \in DOMAIN objs : objs[i] \in DOMAIN heap /\ vptr(i) \in Name
  /\ \A i \in DOMAIN objs :
       objs[i] + SizeOf(vptr(i)) = IF i + 1 \in DOMAIN objs THEN objs[i + 1] ELSE Len(heap) + 1
  /\ \A i, j \in DOMAIN objs : i < j => objs[i] + SizeOf(vptr(i)) <= objs[j]
  /\ \A i \in DOMAIN objs : objs[i] + SizeOf(vptr(i)) <= Len(heap) + 1

(* A walk has not passed the class it looks for.                           *)
WalkInv ==
  walk # <<>> =>
    /\ state = "running" /\ seen = <<>>
    /\ walk \in [obj : DOMAIN objs, dst : Name, op : {"instanceof", "cast"},
                 at : Name \cup {NoBase}]
    /\ IsA(vptr(walk.obj), walk.dst) <=> walk.at \in Name /\ IsA(walk.at, walk.dst)

(* A field that was used compiles, and a class that has just been created  *)
(* an object of has its constructors.                                      *)
SeenInv ==
  /\ seen # <<>> /\ seen[1] \in {"read", "write"} =>
       /\ seen[2] \in DOMAIN objs /\ seen[3] \in Field
       /\ Understands(vptr(seen[2]), seen[3])
       /\ Compiles(Nearest(vptr(seen[2]), seen[3]), seen[3])
  /\ seen # <<>> /\ seen[1] = "new" =>
       seen[2] \in DOMAIN objs /\ Constructs(vptr(seen[2]))

(* How an operation that went wrong did.                                   *)
Faulty ==
  \/ \E c \in Name : fault = <<"new", c>> /\ ~Constructs(c)
  \/ \E d \in Name, x \in Field :
       fault = <<"field", d, x>> /\ x \in Declared(d) /\ ~Compiles(d, x)
  \/ \E i \in DOMAIN objs, c \in Name, m \in Method :
       /\ fault = <<"extra", i, c, m>>
       /\ Understands(c, m) /\ IsStatic(Nearest(c, m), m)
  \/ \E i \in DOMAIN objs, c \in Name, m \in Method :
       /\ fault = <<"misplaced", i, c, m>>
       /\ ~IsStatic(Nearest(c, m), m)
       /\ Understands(vptr(i), m) /\ IsStatic(Nearest(vptr(i), m), m)
  \/ \E c \in Name, m \in Method :
       /\ fault = <<"static", c, m>> /\ m \notin Declared(c)
       /\ Understands(c, m) /\ IsStatic(Nearest(c, m), m)

FaultInv ==
  /\ state \in {"codegen", "running", "halted", "crashed", "undefined"}
  /\ fault # <<>> <=> state \in {"crashed", "undefined"}
  /\ fault # <<>> => Faulty

ObjInv == TextInv /\ HeapInv /\ WalkInv /\ SeenInv /\ FaultInv

-----------------------------------------------------------------------------
(* The words of a field belong to one object and are no vptr.              *)
LEMMA FieldsOfObjects ==
  ASSUME TextInv, HeapInv, NEW i \in DOMAIN objs, NEW d, NEW x, Placed(vptr(i), d, x)
  PROVE  /\ FieldPtr(objs[i], d, x) \in DOMAIN heap
         /\ \A j \in DOMAIN objs : objs[j] # FieldPtr(objs[i], d, x)
         /\ \A j \in DOMAIN objs : \A e, y :
              Placed(vptr(j), e, y) /\ FieldPtr(objs[j], e, y) = FieldPtr(objs[i], d, x) =>
                i = j /\ d = e /\ x = y
<1>. DEFINE p == FieldPtr(objs[i], d, x)
<1>1. \A j \in DOMAIN objs : /\ objs[j] \in Nat /\ vptr(j) \in Name /\ objs[j] \in 1..Len(heap)
                            /\ SizeOf(vptr(j)) \in Nat \ {0}
  <2>1. \A j \in DOMAIN objs : objs[j] \in Nat /\ vptr(j) \in Name /\ objs[j] \in 1..Len(heap)
    BY DEF HeapInv
  <2>2. \A c \in Name : SizeOf(c) \in Nat \ {0}
    BY LayoutIs DEF TextInv
  <2>. QED BY <2>1, <2>2
<1>2. \A j \in DOMAIN objs : \A e, y : Placed(vptr(j), e, y) =>
        FieldPtr(objs[j], e, y) \in (objs[j] + 1)..(objs[j] + SizeOf(vptr(j)) - 1)
  BY <1>1, FieldInside DEF TextInv
<1>3. p \in (objs[i] + 1)..(objs[i] + SizeOf(vptr(i)) - 1)
  BY <1>2
<1>4. objs[i] + SizeOf(vptr(i)) <= Len(heap) + 1 /\ Len(heap) \in Nat /\ DOMAIN heap = 1..Len(heap)
  BY DEF HeapInv
<1>5. p \in DOMAIN heap
  BY <1>1, <1>3, <1>4
<1>6. \A j \in DOMAIN objs : i # j => (i < j \/ j < i)
  BY DEF HeapInv
<1>7. \A j, k \in DOMAIN objs : j < k => objs[j] + SizeOf(vptr(j)) <= objs[k]
  BY DEF HeapInv
<1>. HIDE DEF p
<1>8. ASSUME NEW j \in DOMAIN objs PROVE objs[j] # p
  BY <1>1, <1>3, <1>6, <1>7
<1>9. ASSUME NEW j \in DOMAIN objs, NEW e, NEW y, Placed(vptr(j), e, y),
             FieldPtr(objs[j], e, y) = p
      PROVE  i = j /\ d = e /\ x = y
  <2>1. FieldPtr(objs[j], e, y) \in (objs[j] + 1)..(objs[j] + SizeOf(vptr(j)) - 1)
    BY <1>2, <1>9
  <2>2. i = j
    BY <1>1, <1>3, <1>6, <1>7, <1>9, <2>1
  <2>. QED BY <1>1, <1>9, <2>2, FieldsApart DEF TextInv, p
<1>. QED BY <1>5, <1>8, <1>9 DEF p

(* A field an object's class has is placed in it, once it compiles.        *)
LEMMA UsedIsPlaced ==
  ASSUME Forest, NEW c \in Name, NEW x, Understands(c, x), Compiles(Nearest(c, x), x)
  PROVE  Placed(c, Nearest(c, x), x)
BY NearestIs DEF Placed

(* Once the text is final it stays.                                        *)
LEMMA TextKept ==
  ASSUME TextInv, SameText, Done, state' # "codegen"
  PROVE  TextInv'
<1>1. UNCHANGED vars
  BY DEF SameText, program, compiler, vars
<1>2. TypeOK' /\ FirstInv' /\ TurnInv'
  BY <1>1, TypeStep, FirstNext, TurnStep DEF TextInv
<1>3. Lawful' /\ Forest'
  <2>1. Legal(members)'
    BY TextStays DEF TextInv, Lawful, Legal
  <2>. QED BY <2>1, TextStays DEF TextInv, Lawful, Forest
<1>4. Done'
  BY <1>1 DEF Done, vars, program
<1>. QED BY <1>2, <1>3, <1>4 DEF TextInv

LEMMA HeapKept ==
  ASSUME HeapInv, SameText, UNCHANGED <<heap, objs>>
  PROVE  HeapInv' /\ \A i : vptr(i)' = vptr(i)
<1>1. \A i : vptr(i)' = vptr(i)
  BY DEF vptr
<1>2. \A c : SizeOf(c)' = SizeOf(c)
  BY TextStays
<1>. QED BY <1>1, <1>2 DEF HeapInv

LEMMA FaultKept ==
  ASSUME FaultInv, SameText, UNCHANGED <<objs, fault>>, fault = <<>>,
         state' \in {"codegen", "running", "halted"}
  PROVE  FaultInv'
BY DEF FaultInv

LEMMA InitObj == ObjInit => ObjInv
<1>. SUFFICES ASSUME ObjInit PROVE ObjInv
  OBVIOUS
<1>1. TypeOK /\ FirstInv /\ TurnInv
  BY FirstInit, TurnInit DEF ObjInit
<1>2. Lawful
  <2>1. \A c \in Name : members[c] = <<>>
    BY DEF ObjInit
  <2>2. members \in [Name -> Seq(Member)]
    BY DEF ObjInit
  <2>. QED BY <2>1, <2>2 DEF Lawful, Legal
<1>3. Forest
  BY DEF ObjInit, Init, Forest
<1>4. /\ state = "codegen" /\ heap = <<>> /\ objs = <<>> /\ walk = <<>> /\ seen = <<>>
      /\ fault = <<>>
  BY DEF ObjInit
<1>5. HeapInv
  <2>1. heap \in Seq(Value \cup Name) /\ objs \in Seq(Nat) /\ DOMAIN objs = {}
    BY <1>4
  <2>. QED BY <2>1 DEF HeapInv
<1>. QED BY <1>1, <1>2, <1>3, <1>4, <1>5 DEF ObjInv, TextInv, WalkInv, SeenInv, FaultInv

-----------------------------------------------------------------------------
(* While the compiler works there are no objects.                          *)
LEMMA CompilingStep ==
  ASSUME ObjInv, state = "codegen", UNCHANGED <<heap, objs, walk, seen, fault>>,
         state' \in {"codegen", "running"}
  PROVE  HeapInv' /\ WalkInv' /\ SeenInv' /\ FaultInv'
<1>1. heap' = <<>> /\ objs' = <<>> /\ walk' = <<>> /\ seen' = <<>> /\ fault' = <<>>
  BY DEF ObjInv, TextInv, FaultInv
<1>2. HeapInv'
  <2>1. heap' \in Seq(Value \cup Name) /\ objs' \in Seq(Nat) /\ DOMAIN objs' = {}
    BY <1>1
  <2>. QED BY <2>1 DEF HeapInv
<1>. QED BY <1>1, <1>2 DEF WalkInv, SeenInv, FaultInv

LEMMA NotGenerating == Done => ~Next
BY DEF Done, Next, NextClass, DontRepeat, StartEmitting, NoBaseCall, GenerateBase, CallBase,
       SetVptrAndReturn, At

LEMMA GenerateObj == ObjInv /\ Generate => ObjInv'
<1>. SUFFICES ASSUME ObjInv, Generate PROVE ObjInv'
  OBVIOUS
<1>1. Next /\ UNCHANGED <<above, members, state, heap, objs, walk, seen, fault>>
  BY DEF Generate
<1>2. state = "codegen"
  BY <1>1, NotGenerating DEF ObjInv, TextInv
<1>3. TypeOK' /\ FirstInv' /\ TurnInv'
  BY <1>1, TypeStep, FirstNext, TurnStep DEF ObjInv, TextInv
<1>4. base' = base
  BY <1>1 DEF Next, NextClass, DontRepeat, StartEmitting, NoBaseCall, GenerateBase, CallBase,
              SetVptrAndReturn, program
<1>5. Lawful' /\ Forest'
  <2>1. Legal(members)'
    BY <1>1 DEF ObjInv, TextInv, Lawful, Legal, IsA
  <2>. QED BY <1>1, <1>4, <2>1 DEF ObjInv, TextInv, Lawful, Forest
<1>6. TextInv'
  BY <1>1, <1>2, <1>3, <1>5 DEF ObjInv, TextInv
<1>. QED BY <1>1, <1>2, <1>6, CompilingStep DEF ObjInv

LEMMA DeclareObj ==
  ASSUME ObjInv, NEW c \in Name, NEW m \in Member, Declare(c, m)
  PROVE  ObjInv'
<1>1. /\ state = "codegen" /\ Legal(members')
      /\ members' = [members EXCEPT ![c] = Append(@, m)]
      /\ UNCHANGED <<program, compiler, state, heap, objs, walk, seen, fault>>
  BY DEF Declare
<1>2. UNCHANGED vars
  BY <1>1 DEF program, compiler, vars
<1>3. TypeOK' /\ FirstInv' /\ TurnInv'
  BY <1>2, TypeStep, FirstNext, TurnStep DEF ObjInv, TextInv
<1>4. base' = base /\ above' = above
  BY <1>1 DEF program, compiler
<1>5. Forest'
  BY <1>4 DEF ObjInv, TextInv, Forest
<1>6. members' \in [Name -> Seq(Member)]
  <2>1. members \in [Name -> Seq(Member)]
    BY DEF ObjInv, TextInv, Lawful
  <2>2. Append(members[c], m) \in Seq(Member)
    BY <2>1, AppendProperties
  <2>. QED BY <1>1, <2>1, <2>2
<1>7. Legal(members)'
  BY <1>1, <1>4 DEF Legal, IsA
<1>8. TextInv'
  BY <1>1, <1>3, <1>5, <1>6, <1>7 DEF ObjInv, TextInv, Lawful
<1>. QED BY <1>1, <1>8, CompilingStep DEF ObjInv

LEMMA LinkObj == ObjInv /\ Link => ObjInv'
<1>. SUFFICES ASSUME ObjInv, Link PROVE ObjInv'
  OBVIOUS
<1>1. /\ Done /\ state = "codegen" /\ state' = "running" /\ SameText
      /\ UNCHANGED <<heap, objs, walk, seen, fault>>
  BY DEF Link, SameText
<1>2. TextInv'
  BY <1>1, TextKept DEF ObjInv
<1>. QED BY <1>1, <1>2, CompilingStep DEF ObjInv

(* What is known when an operation starts.                                 *)
LEMMA Running ==
  ASSUME ObjInv, state = "running"
  PROVE  Done /\ fault = <<>> /\ Lawful /\ Forest
BY DEF ObjInv, TextInv, FaultInv

LEMMA ProceedObj == ObjInv /\ Proceed => ObjInv'
<1>. SUFFICES ASSUME ObjInv, Proceed PROVE ObjInv'
  OBVIOUS
<1>1. /\ SameText /\ state = "running" /\ seen # <<>> /\ seen' = <<>>
      /\ UNCHANGED <<state, heap, objs, walk, fault>>
  BY DEF Proceed, SameText
<1>2. TextInv' /\ HeapInv' /\ FaultInv'
  BY <1>1, Running, TextKept, HeapKept, FaultKept DEF ObjInv
<1>3. walk' = <<>>
  BY <1>1 DEF ObjInv, WalkInv
<1>. QED BY <1>1, <1>2, <1>3 DEF ObjInv, WalkInv, SeenInv

(* Operations that fail leave everything but the state.                    *)
LEMMA FailObj ==
  ASSUME ObjInv, Operate, NEW how \in {"crashed", "undefined"}, NEW op, op # <<>>, Fail(how, op),
         Faulty'
  PROVE  ObjInv'
<1>1. /\ SameText /\ state = "running" /\ walk = <<>> /\ seen = <<>> /\ state' = how /\ fault' = op
      /\ UNCHANGED <<heap, objs, walk, seen>>
  BY DEF Operate, Fail, SameText
<1>2. TextInv' /\ HeapInv'
  BY <1>1, Running, TextKept, HeapKept DEF ObjInv
<1>. QED BY <1>1, <1>2 DEF ObjInv, WalkInv, SeenInv, FaultInv

LEMMA NewBrokenObj ==
  ASSUME ObjInv, NEW c \in Name, NewBroken(c)
  PROVE  ObjInv'
<1>1. Operate /\ ~Constructs(c) /\ Fail("undefined", <<"new", c>>)
  BY DEF NewBroken
<1>2. SameText /\ fault' = <<"new", c>>
  BY <1>1 DEF Fail, SameText
<1>3. Faulty'
  BY <1>1, <1>2, TextStays DEF Faulty
<1>. QED BY <1>1, <1>3, FailObj

LEMMA AccessBrokenObj ==
  ASSUME ObjInv, NEW i \in DOMAIN objs, NEW x \in Field, AccessBroken(i, x)
  PROVE  ObjInv'
<1>. DEFINE d == Nearest(vptr(i), x)
<1>1. Operate /\ Understands(vptr(i), x) /\ ~Compiles(d, x) /\ Fail("crashed", <<"field", d, x>>)
  BY DEF AccessBroken, Access
<1>2. SameText /\ fault' = <<"field", d, x>>
  BY <1>1 DEF Fail, SameText
<1>3. d \in Name /\ x \in Declared(d)
  <2>1. vptr(i) \in Name /\ Forest
    BY DEF ObjInv, HeapInv, TextInv
  <2>. QED BY <1>1, <2>1, NearestIs
<1>4. Faulty'
  <2>. HIDE DEF d
  <2>. QED BY <1>1, <1>2, <1>3, TextStays, MeaningStays DEF Faulty
<1>. QED BY <1>1, <1>4, FailObj

LEMMA CallBrokenObj ==
  ASSUME ObjInv, NEW i \in DOMAIN objs, NEW c \in Name, NEW m \in Method,
         CallExtraArgument(i, c, m) \/ CallMisplaced(i, c, m)
  PROVE  ObjInv'
<1>1. Operate /\ Understands(c, m) /\ IsA(vptr(i), c)
  BY DEF CallExtraArgument, CallMisplaced, Receives
<1>2. CASE CallExtraArgument(i, c, m)
  <2>1. Fail("crashed", <<"extra", i, c, m>>) /\ IsStatic(Nearest(c, m), m)
    BY <1>2 DEF CallExtraArgument
  <2>2. SameText /\ fault' = <<"extra", i, c, m>> /\ objs' = objs
    BY <2>1 DEF Fail, SameText
  <2>3. Faulty'
    BY <1>1, <2>1, <2>2, MeaningStays DEF Faulty
  <2>. QED BY <1>1, <2>1, <2>3, FailObj
<1>3. CASE CallMisplaced(i, c, m)
  <2>1. Fail("undefined", <<"misplaced", i, c, m>>) /\ ~IsStatic(Nearest(c, m), m)
        /\ IsStatic(Nearest(vptr(i), m), m)
    BY <1>3 DEF CallMisplaced
  <2>2. SameText /\ fault' = <<"misplaced", i, c, m>> /\ objs' = objs /\ heap' = heap
    BY <2>1 DEF Fail, SameText
  <2>3. vptr(i)' = vptr(i)
    BY <2>2 DEF vptr
  <2>4. Understands(vptr(i), m)
    <3>1. vptr(i) \in Name /\ Forest
      BY DEF ObjInv, HeapInv, TextInv
    <3>. QED BY <1>1, <3>1, IsAMeans, SubclassTransitive DEF Understands, Forest
  <2>5. Faulty'
    <3>1. Understands(vptr(i), m)' /\ IsStatic(Nearest(vptr(i), m), m)' /\ ~IsStatic(Nearest(c, m), m)'
      BY <2>1, <2>2, <2>3, <2>4, MeaningStays
    <3>. QED BY <2>2, <3>1 DEF Faulty
  <2>. QED BY <1>1, <2>1, <2>5, FailObj
<1>. QED BY <1>2, <1>3

LEMMA CallNoFunctionObj ==
  ASSUME ObjInv, NEW c \in Name, NEW m \in Method, CallNoFunction(c, m)
  PROVE  ObjInv'
<1>1. /\ Operate /\ Understands(c, m) /\ IsStatic(Nearest(c, m), m) /\ m \notin Declared(c)
      /\ Fail("crashed", <<"static", c, m>>)
  BY DEF CallNoFunction, CallsStatic
<1>2. SameText /\ fault' = <<"static", c, m>>
  BY <1>1 DEF Fail, SameText
<1>3. Faulty'
  BY <1>1, <1>2, TextStays, MeaningStays DEF Faulty
<1>. QED BY <1>1, <1>3, FailObj

(* Operations that only observe.                                           *)
LEMMA ObserveObj ==
  ASSUME ObjInv, Operate, SameText, UNCHANGED <<state, heap, objs, walk, fault>>, SeenInv'
  PROVE  ObjInv'
<1>1. state = "running" /\ walk = <<>>
  BY DEF Operate
<1>2. TextInv' /\ HeapInv' /\ FaultInv'
  BY <1>1, Running, TextKept, HeapKept, FaultKept DEF ObjInv
<1>. QED BY <1>1, <1>2 DEF ObjInv, WalkInv

LEMMA ReadObj ==
  ASSUME ObjInv, NEW i \in DOMAIN objs, NEW x \in Field, Read(i, x)
  PROVE  ObjInv'
<1>. DEFINE d == Nearest(vptr(i), x)
<1>1. /\ Operate /\ Understands(vptr(i), x) /\ Compiles(d, x) /\ SameText
      /\ UNCHANGED <<state, heap, objs, walk, fault>>
      /\ seen' = <<"read", i, x, heap[FieldPtr(objs[i], d, x)]>>
  BY DEF Read, Access, Observe, SameText
<1>2. /\ seen'[1] = "read" /\ seen'[2] = i /\ seen'[3] = x
      /\ DOMAIN objs' = DOMAIN objs /\ vptr(i)' = vptr(i)
  BY <1>1 DEF vptr
<1>3. Understands(vptr(i), x)' /\ Compiles(Nearest(vptr(i), x), x)'
  BY <1>1, <1>2, MeaningStays
<1>4. SeenInv'
  BY <1>2, <1>3 DEF SeenInv
<1>. QED BY <1>1, <1>4, ObserveObj

LEMMA CallObj ==
  ASSUME ObjInv, NEW i \in DOMAIN objs, NEW c \in Name, NEW m \in Method, Call(i, c, m)
  PROVE  ObjInv'
<1>1. /\ Operate /\ SameText /\ UNCHANGED <<state, heap, objs, walk, fault>>
      /\ seen' = <<"call", i, m, Nearest(vptr(i), m)>>
  BY DEF Call, Receives, Observe, SameText
<1>2. SeenInv'
  BY <1>1 DEF SeenInv
<1>. QED BY <1>1, <1>2, ObserveObj

LEMMA CallStaticObj ==
  ASSUME ObjInv, NEW c \in Name, NEW m \in Method, CallStatic(c, m)
  PROVE  ObjInv'
<1>1. /\ Operate /\ SameText /\ UNCHANGED <<state, heap, objs, walk, fault>>
      /\ seen' = <<"static", c, m, c>>
  BY DEF CallStatic, CallsStatic, Observe, SameText
<1>2. SeenInv'
  BY <1>1 DEF SeenInv
<1>. QED BY <1>1, <1>2, ObserveObj

LEMMA WriteObj ==
  ASSUME ObjInv, NEW i \in DOMAIN objs, NEW x \in Field, NEW v \in Value, Write(i, x, v)
  PROVE  ObjInv' /\ \A j \in DOMAIN objs : vptr(j)' = vptr(j)
<1>. DEFINE d == Nearest(vptr(i), x)
            p == FieldPtr(objs[i], d, x)
<1>1. /\ Operate /\ Understands(vptr(i), x) /\ Compiles(d, x) /\ SameText
      /\ UNCHANGED <<state, objs, walk, fault>>
      /\ heap' = [heap EXCEPT ![p] = v] /\ seen' = <<"write", i, x>>
  BY DEF Write, Access, Observe, SameText
<1>2. vptr(i) \in Name
  BY DEF ObjInv, HeapInv
<1>3. Placed(vptr(i), d, x)
  BY <1>1, <1>2, UsedIsPlaced DEF ObjInv, TextInv
<1>4. p \in DOMAIN heap /\ \A j \in DOMAIN objs : objs[j] # p
  BY <1>3, FieldsOfObjects DEF ObjInv
<1>. HIDE DEF d, p
<1>5. ASSUME NEW j \in DOMAIN objs PROVE vptr(j)' = vptr(j)
  <2>1. objs[j] # p /\ objs[j] \in DOMAIN heap
    BY <1>4 DEF ObjInv, HeapInv
  <2>. QED BY <1>1, <2>1 DEF vptr
<1>6. HeapInv'
  <2>1. heap' \in Seq(Value \cup Name) /\ Len(heap') = Len(heap) /\ DOMAIN heap' = DOMAIN heap
    BY <1>1, <1>4 DEF ObjInv, HeapInv
  <2>2. \A j \in DOMAIN objs : SizeOf(vptr(j))' = SizeOf(vptr(j))
    BY <1>1, <1>5, TextStays
  <2>. QED BY <1>1, <1>5, <2>1, <2>2 DEF ObjInv, HeapInv
<1>7. SeenInv'
  <2>1. /\ seen'[1] = "write" /\ seen'[2] = i /\ seen'[3] = x
        /\ DOMAIN objs' = DOMAIN objs /\ vptr(i)' = vptr(i)
    BY <1>1, <1>5
  <2>2. Understands(vptr(i), x)' /\ Compiles(Nearest(vptr(i), x), x)'
    BY <1>1, <2>1, MeaningStays DEF d
  <2>. QED BY <2>1, <2>2 DEF SeenInv
<1>8. TextInv' /\ FaultInv' /\ walk' = <<>>
  BY <1>1, Running, TextKept, FaultKept DEF ObjInv, Operate
<1>. QED BY <1>5, <1>6, <1>7, <1>8 DEF ObjInv, WalkInv

(* A new object lies behind the others and starts with its vptr.           *)
LEMMA NewObject ==
  ASSUME ObjInv, NEW c \in Name, New(c)
  PROVE  /\ \A i \in DOMAIN objs : objs'[i] = objs[i] /\ vptr(i)' = vptr(i)
         /\ Len(objs') = Len(objs) + 1 /\ DOMAIN objs' = 1..(Len(objs) + 1)
         /\ objs'[Len(objs) + 1] = Len(heap) + 1 
         /\ \A last : last = Len(objs) + 1 => vptr(last)' = c
         /\ objs' \in Seq(Nat)
         /\ heap' \in Seq(Value \cup Name) /\ Len(heap') = Len(heap) + SizeOf(c)
         /\ \A w \in DOMAIN heap : heap'[w] = heap[w]
         /\ \A w \in 2..SizeOf(c) : heap'[Len(heap) + w] = 0
<1>. DEFINE n == SizeOf(c)
            words == [w \in 1..n |-> IF w = 1 THEN c ELSE 0]
<1>1. heap' = heap \o words /\ objs' = Append(objs, Len(heap) + 1)
  BY DEF New
<1>2. n \in Nat \ {0}
  BY LayoutIs DEF ObjInv, TextInv
<1>3. heap \in Seq(Value \cup Name) /\ objs \in Seq(Nat)
  BY DEF ObjInv, HeapInv
<1>. HIDE DEF n
<1>4. words \in Seq(Value \cup Name) /\ Len(words) = n /\ \A w \in 1..n : words[w] = IF w = 1 THEN c ELSE 0
  BY <1>2, ObjectsAssumption
<1>. HIDE DEF words
<1>5. /\ heap' \in Seq(Value \cup Name) /\ Len(heap') = Len(heap) + n
      /\ \A w \in 1..(Len(heap) + n) : heap'[w] =
           IF w <= Len(heap) THEN heap[w] ELSE words[w - Len(heap)]
  BY <1>1, <1>3, <1>4, ConcatProperties
<1>6. Len(heap) \in Nat /\ DOMAIN heap = 1..Len(heap)
  BY <1>3
<1>7. /\ objs' \in Seq(Nat) /\ Len(objs') = Len(objs) + 1
      /\ DOMAIN objs' = 1..(Len(objs) + 1) /\ Len(objs) \in Nat /\ DOMAIN objs = 1..Len(objs)
      /\ \A i \in DOMAIN objs : objs'[i] = objs[i]
      /\ objs'[Len(objs) + 1] = Len(heap) + 1
  BY <1>1, <1>3, <1>6
<1>8. \A w \in DOMAIN heap : heap'[w] = heap[w]
  BY <1>2, <1>5, <1>6
<1>9. ASSUME NEW w \in 1..n PROVE heap'[Len(heap) + w] = words[w]
  <2>1. Len(heap) + w \in 1..(Len(heap) + n) /\ ~(Len(heap) + w <= Len(heap))
        /\ (Len(heap) + w) - Len(heap) = w
    BY <1>2, <1>6
  <2>. QED BY <1>5, <2>1
<1>10. \A w \in 2..n : heap'[Len(heap) + w] = 0
  BY <1>2, <1>4, <1>9
<1>11. heap'[Len(heap) + 1] = c
  BY <1>2, <1>4, <1>9
<1>12. \A i \in DOMAIN objs : vptr(i)' = vptr(i)
  BY <1>7, <1>8 DEF ObjInv, HeapInv, vptr
<1>13. \A last : last = Len(objs) + 1 => vptr(last)' = c
  BY <1>7, <1>11 DEF vptr
<1>. QED BY <1>5, <1>7, <1>8, <1>10, <1>12, <1>13 DEF n

LEMMA NewObj ==
  ASSUME ObjInv, NEW c \in Name, New(c)
  PROVE  ObjInv'
<1>1. /\ Operate /\ SameText /\ UNCHANGED <<state, walk, fault>>
      /\ seen' = <<"new", Len(objs')>> /\ Constructs(c)
  BY DEF New, SameText
<1>2. TextInv' /\ walk' = <<>>
  BY <1>1, Running, TextKept DEF ObjInv, Operate
<1>3. FaultInv'
  BY <1>1, Running DEF ObjInv, FaultInv, Operate
<1>5. SizeOf(c) \in Nat \ {0} /\ \A d : SizeOf(d)' = SizeOf(d)
  BY <1>1, TextStays, LayoutIs DEF ObjInv, TextInv
<1>6. Len(heap) \in Nat /\ Len(objs) \in Nat /\ DOMAIN objs = 1..Len(objs) /\ DOMAIN heap = 1..Len(heap)
  BY DEF ObjInv, HeapInv
<1>7. \A i \in DOMAIN objs : /\ objs[i] \in Nat /\ vptr(i) \in Name /\ SizeOf(vptr(i)) \in Nat
                            /\ objs[i] \in DOMAIN heap
                            /\ objs[i] + SizeOf(vptr(i)) <= Len(heap) + 1
  <2>1. \A i \in DOMAIN objs : objs[i] \in Nat /\ vptr(i) \in Name /\ objs[i] \in DOMAIN heap
                            /\ objs[i] + SizeOf(vptr(i)) <= Len(heap) + 1
    BY DEF ObjInv, HeapInv
  <2>2. \A d \in Name : SizeOf(d) \in Nat
    BY LayoutIs DEF ObjInv, TextInv
  <2>. QED BY <2>1, <2>2
<1>8. PICK last : last = Len(objs) + 1
  OBVIOUS
<1>9. /\ \A i \in DOMAIN objs : objs'[i] = objs[i] /\ vptr(i)' = vptr(i)
      /\ DOMAIN objs' = 1..last /\ objs'[last] = Len(heap) + 1 /\ vptr(last)' = c
      /\ objs' \in Seq(Nat) /\ heap' \in Seq(Value \cup Name)
      /\ Len(heap') = Len(heap) + SizeOf(c) /\ DOMAIN heap' = 1..Len(heap')
  <2>1. heap' \in Seq(Value \cup Name)
    BY NewObject
  <2>2. DOMAIN heap' = 1..Len(heap')
    BY <2>1
  <2>. QED BY <1>8, <2>1, <2>2, NewObject
<1>4. SeenInv'
  <2>1. Len(objs') = last /\ last \in DOMAIN objs'
    BY <1>6, <1>8, <1>9, NewObject
  <2>2. seen'[1] = "new" /\ seen'[2] = last
    BY <1>1, <2>1
  <2>3. Constructs(vptr(last))'
    BY <1>1, <1>9, TextStays
  <2>4. (seen[2] \in DOMAIN objs /\ Constructs(vptr(seen[2])))'
    BY <2>1, <2>2, <2>3
  <2>. QED BY <2>2, <2>4 DEF SeenInv
<1>10. \A i \in DOMAIN objs' : i \in DOMAIN objs \/ i = last
  BY <1>6, <1>8, <1>9
<1>11. HeapInv'
  <2>1. \A i \in DOMAIN objs' : objs'[i] \in DOMAIN heap' /\ vptr(i)' \in Name
    BY <1>5, <1>6, <1>7, <1>9, <1>10
  <2>2. ASSUME NEW i \in DOMAIN objs'
        PROVE  objs'[i] + SizeOf(vptr(i))' = IF i + 1 \in DOMAIN objs' THEN objs'[i + 1] ELSE Len(heap') + 1
    <3>1. CASE i = last
      BY <1>5, <1>6, <1>8, <1>9, <3>1
    <3>2. CASE i \in DOMAIN objs
      <4>1. objs[i] + SizeOf(vptr(i)) = IF i + 1 \in DOMAIN objs THEN objs[i + 1] ELSE Len(heap) + 1
        BY <3>2 DEF ObjInv, HeapInv
      <4>2. i + 1 \in DOMAIN objs \/ i + 1 = last
        BY <1>6, <1>8, <3>2
      <4>3. last \notin DOMAIN objs /\ last \in DOMAIN objs' /\ \A k \in DOMAIN objs : k \in DOMAIN objs'
        BY <1>6, <1>8, <1>9
      <4>. QED BY <1>5, <1>9, <3>2, <4>1, <4>2, <4>3
    <3>. QED BY <1>10, <3>1, <3>2
  <2>3. ASSUME NEW i \in DOMAIN objs', NEW j \in DOMAIN objs', i < j
        PROVE  objs'[i] + SizeOf(vptr(i))' <= objs'[j]
    <3>1. i \in DOMAIN objs
      BY <1>6, <1>8, <1>9, <2>3
    <3>2. CASE j \in DOMAIN objs
      BY <1>5, <1>9, <2>3, <3>1, <3>2 DEF ObjInv, HeapInv
    <3>3. CASE j = last
      BY <1>5, <1>7, <1>9, <3>1, <3>3
    <3>. QED BY <1>10, <3>2, <3>3
  <2>4. ASSUME NEW i \in DOMAIN objs' PROVE objs'[i] + SizeOf(vptr(i))' <= Len(heap') + 1
    <3>1. CASE i = last
      BY <1>5, <1>6, <1>9, <3>1
    <3>2. CASE i \in DOMAIN objs
      BY <1>5, <1>6, <1>7, <1>9, <3>2
    <3>. QED BY <1>10, <3>1, <3>2
  <2>. QED BY <1>9, <2>1, <2>2, <2>3, <2>4 DEF HeapInv
<1>. QED BY <1>2, <1>3, <1>4, <1>11 DEF ObjInv, WalkInv

-----------------------------------------------------------------------------
(* The walk up the tables.                                                 *)
LEMMA InstanceOfObj ==
  ASSUME ObjInv, NEW i \in DOMAIN objs, NEW c \in Name, NEW op \in {"instanceof", "cast"},
         InstanceOf(i, c, op)
  PROVE  ObjInv'
<1>1. /\ SameText /\ state = "running" /\ seen = <<>>
      /\ walk' = [obj |-> i, dst |-> c, op |-> op, at |-> vptr(i)]
      /\ UNCHANGED <<state, heap, objs, seen, fault>>
  BY DEF InstanceOf, Operate, SameText
<1>2. TextInv' /\ HeapInv' /\ FaultInv' /\ \A j : vptr(j)' = vptr(j)
  BY <1>1, Running, TextKept, HeapKept, FaultKept DEF ObjInv
<1>3. vptr(i) \in Name
  BY DEF ObjInv, HeapInv
<1>4. WalkInv'
  <2>1. walk' \in [obj : DOMAIN objs', dst : Name, op : {"instanceof", "cast"},
                   at : Name \cup {NoBase}]
    BY <1>1, <1>3
  <2>2. walk'.obj = i /\ walk'.dst = c /\ walk'.at = vptr(i)
    BY <1>1
  <2>3. vptr(walk.obj)' = vptr(i)
    BY <1>1, <2>2 DEF vptr
  <2>4. IsA(vptr(walk.obj), walk.dst)' <=> walk'.at \in Name /\ IsA(walk.at, walk.dst)'
    BY <1>3, <2>2, <2>3 DEF IsA
  <2>. QED BY <1>1, <2>1, <2>4 DEF WalkInv
<1>5. SeenInv'
  BY <1>1 DEF SeenInv
<1>. QED BY <1>2, <1>4, <1>5 DEF ObjInv

LEMMA WalkUpObj == ObjInv /\ WalkUp => ObjInv'
<1>. SUFFICES ASSUME ObjInv, WalkUp PROVE ObjInv'
  OBVIOUS
<1>1. /\ SameText /\ walk # <<>> /\ walk.at \notin {NoBase, walk.dst}
      /\ walk' = [walk EXCEPT !.at = base[@]]
      /\ UNCHANGED <<state, heap, objs, seen, fault>>
  BY DEF WalkUp, SameText
<1>2. /\ state = "running" /\ seen = <<>>
      /\ walk \in [obj : DOMAIN objs, dst : Name, op : {"instanceof", "cast"},
                   at : Name \cup {NoBase}]
      /\ IsA(vptr(walk.obj), walk.dst) <=> walk.at \in Name /\ IsA(walk.at, walk.dst)
  BY <1>1 DEF ObjInv, WalkInv
<1>3. TextInv' /\ HeapInv' /\ FaultInv' /\ \A j : vptr(j)' = vptr(j)
  BY <1>1, <1>2, Running, TextKept, HeapKept, FaultKept DEF ObjInv
<1>4. PICK a \in Name, c \in Name, i \in DOMAIN objs : a = walk.at /\ c = walk.dst /\ i = walk.obj
  BY <1>1, <1>2
<1>5. Forest /\ base \in BaseMap /\ base[a] \in Name \cup {NoBase}
  BY DEF ObjInv, TextInv, Forest, BaseMap
<1>6. IsA(a, c) <=> base[a] \in Name /\ IsA(base[a], c)
  BY <1>1, <1>4, <1>5, SubclassStep, IsAMeans
<1>7. walk'.at = base[a] /\ walk'.dst = c /\ walk'.obj = i
      /\ walk' \in [obj : DOMAIN objs, dst : Name, op : {"instanceof", "cast"},
                    at : Name \cup {NoBase}]
  BY <1>1, <1>2, <1>4, <1>5
<1>8. WalkInv'
  <2>1. vptr(walk.obj)' = vptr(i) /\ above' = above
    BY <1>1, <1>7, TextStays DEF vptr
  <2>2. IsA(vptr(walk.obj), walk.dst)' <=> IsA(vptr(i), c)
    BY <1>7, <2>1 DEF IsA
  <2>3. IsA(walk.at, walk.dst)' <=> IsA(base[a], c)
    BY <1>7, <2>1 DEF IsA
  <2>. QED BY <1>1, <1>2, <1>4, <1>6, <1>7, <2>2, <2>3 DEF WalkInv
<1>9. SeenInv'
  BY <1>1, <1>2 DEF SeenInv
<1>. QED BY <1>3, <1>8, <1>9 DEF ObjInv

LEMMA EndWalkObj == ObjInv /\ EndWalk => ObjInv'
<1>. SUFFICES ASSUME ObjInv, EndWalk PROVE ObjInv'
  OBVIOUS
<1>1. /\ SameText /\ walk # <<>> /\ walk' = <<>> /\ UNCHANGED <<heap, objs, fault>>
      /\ seen' = <<walk.op, walk.obj, walk.dst, walk.at = walk.dst>>
      /\ state' \in {"halted", state}
  BY DEF EndWalk, SameText
<1>2. state = "running" /\ walk.op \in {"instanceof", "cast"}
  BY <1>1 DEF ObjInv, WalkInv
<1>3. TextInv' /\ HeapInv' /\ FaultInv'
  BY <1>1, <1>2, Running, TextKept, HeapKept, FaultKept DEF ObjInv
<1>4. SeenInv'
  <2>1. seen'[1] = walk.op
    BY <1>1
  <2>. QED BY <1>2, <2>1 DEF SeenInv
<1>. QED BY <1>1, <1>3, <1>4 DEF ObjInv, WalkInv

-----------------------------------------------------------------------------
LEMMA StillObj == ObjInv /\ UNCHANGED objVars => ObjInv'
<1>. SUFFICES ASSUME ObjInv, UNCHANGED objVars PROVE ObjInv'
  OBVIOUS
<1>1. SameText /\ UNCHANGED <<state, heap, objs, walk, seen, fault>> /\ UNCHANGED vars
  BY DEF objVars, SameText, program, compiler, vars
<1>2. TypeOK' /\ FirstInv' /\ TurnInv'
  BY <1>1, TypeStep, FirstNext, TurnStep DEF ObjInv, TextInv
<1>3. TextInv'
  <2>1. Legal(members)' /\ Forest' /\ members' = members
    BY <1>1, TextStays DEF ObjInv, TextInv, Lawful, Legal, Forest
  <2>2. Done' = Done
    BY <1>1 DEF Done, vars, program
  <2>. QED BY <1>1, <1>2, <2>1, <2>2 DEF ObjInv, TextInv, Lawful
<1>4. HeapInv' /\ \A i : vptr(i)' = vptr(i)
  BY <1>1, HeapKept DEF ObjInv
<1>5. WalkInv'
  BY <1>1, <1>4, TextStays DEF ObjInv, WalkInv, IsA, vptr
<1>6. SeenInv'
  BY <1>1, <1>4, MeaningStays, TextStays DEF ObjInv, SeenInv, vptr
<1>7. FaultInv'
  <2>1. Faulty' <=> Faulty
    BY <1>1, <1>4, TextStays, MeaningStays DEF Faulty, vptr
  <2>. QED BY <1>1, <2>1 DEF ObjInv, FaultInv
<1>. QED BY <1>3, <1>4, <1>5, <1>6, <1>7 DEF ObjInv

LEMMA StepObj == ObjInv /\ [ObjNext]_objVars => ObjInv'
<1>. SUFFICES ASSUME ObjInv, [ObjNext]_objVars PROVE ObjInv'
  OBVIOUS
<1>1. CASE UNCHANGED objVars
  BY <1>1, StillObj
<1>2. CASE Generate \/ Link \/ Proceed \/ WalkUp \/ EndWalk
  BY <1>2, GenerateObj, LinkObj, ProceedObj, WalkUpObj, EndWalkObj
<1>3. CASE \E c \in Name, m \in Member : Declare(c, m)
  BY <1>3, DeclareObj
<1>4. CASE \E c \in Name : New(c) \/ NewBroken(c)
  BY <1>4, NewObj, NewBrokenObj
<1>5. CASE \E i \in DOMAIN objs, x \in Field, v \in Value : Write(i, x, v)
  BY <1>5, WriteObj
<1>6. CASE \E i \in DOMAIN objs, x \in Field : Read(i, x) \/ AccessBroken(i, x)
  BY <1>6, ReadObj, AccessBrokenObj
<1>7. CASE \E i \in DOMAIN objs, c \in Name, m \in Method :
             Call(i, c, m) \/ CallExtraArgument(i, c, m) \/ CallMisplaced(i, c, m)
  BY <1>7, CallObj, CallBrokenObj
<1>8. CASE \E c \in Name, m \in Method : CallStatic(c, m) \/ CallNoFunction(c, m)
  BY <1>8, CallStaticObj, CallNoFunctionObj
<1>9. CASE \E i \in DOMAIN objs, c \in Name, op \in {"instanceof", "cast"} : InstanceOf(i, c, op)
  BY <1>9, InstanceOfObj
<1>. QED BY <1>1, <1>2, <1>3, <1>4, <1>5, <1>6, <1>7, <1>8, <1>9 DEF ObjNext

LEMMA ObjInvariant == ObjSpec => []ObjInv
  BY InitObj, StepObj, PTL DEF ObjSpec

(* The machine of Constructor runs in this one unchanged, so what is       *)
(* proved of it holds here: which constructors come out right.             *)
THEOREM ConstructorsOfPrograms == ObjSpec => [](ProperWhenBaseFirst /\ ProperExactly)
<1>1. ObjInv => ProperWhenBaseFirst /\ ProperExactly
  BY FirstImplies, TurnImplies DEF ObjInv, TextInv
<1>. QED BY <1>1, ObjInvariant, PTL

(* The objects of any program lie apart in memory, without gaps, and each  *)
(* keeps the pointer to its class's table: New, Write and the layout of    *)
(* genLLVMStruct never let a field overlap another object or its vptr.     *)
THEOREM ObjectsLieApart == ObjSpec => []ObjTypeOK
<1>1. ObjInv => ObjTypeOK
  <2>. SUFFICES ASSUME ObjInv PROVE ObjTypeOK
    OBVIOUS
  <2>1. TypeOK /\ members \in [Name -> Seq(Member)] /\ Legal(members)
    BY DEF ObjInv, TextInv, Lawful
  <2>2. \A w \in DOMAIN heap : heap[w] \in Value \cup Name
    BY DEF ObjInv, HeapInv
  <2>3. \A i \in DOMAIN objs : heap[objs[i]] \in Name
    BY DEF ObjInv, HeapInv, vptr
  <2>4. \A i \in DOMAIN objs :
          objs[i] + SizeOf(vptr(i)) = IF i + 1 \in DOMAIN objs THEN objs[i + 1] ELSE Len(heap) + 1
    BY DEF ObjInv, HeapInv
  <2>5. walk # <<>> => walk.obj \in DOMAIN objs /\ walk.at \in Name \cup {NoBase}
    BY DEF ObjInv, WalkInv
  <2>. QED BY <2>1, <2>2, <2>3, <2>4, <2>5 DEF ObjInv, FaultInv, ObjTypeOK
<1>. QED BY <1>1, ObjInvariant, PTL

(* A chain of constructors comes out right exactly when no class of it is  *)
(* written after one derived from it: the base's constructor is then there *)
(* before the class is reached.                                            *)
LEMMA ConstructsExactly ==
  ASSUME ObjInv, state # "codegen", NEW c \in Name
  PROVE  Constructs(c) <=> ~Overtaken(c)
<1>1. /\ Forest /\ TypeOK /\ TurnInv /\ Done
      /\ base \in BaseMap /\ order \in SourceOrders
  BY DEF ObjInv, TextInv, TypeOK
<1>2. \A a \in Name : Proper(a) <=>
        /\ ~DerivedBefore(a, Place(a))
        /\ \/ base[a] = NoBase
           \/ Place(base[a]) < Place(a)
           \/ DerivedBefore(base[a], Place(a))
  BY <1>1, TurnImplies DEF ProperExactly
<1>3. ASSUME Constructs(c) PROVE ~Overtaken(c)
  BY <1>2, <1>3 DEF Constructs, Overtaken
<1>4. ASSUME ~Overtaken(c), NEW a \in Name, IsA(c, a) PROVE Proper(a)
  <2>1. ~DerivedBefore(a, Place(a))
    BY <1>4 DEF Overtaken
  <2>2. ASSUME base[a] # NoBase PROVE Place(base[a]) < Place(a)
    <3>1. base[a] \in Name /\ base[a] \in Ancestors(base, a)
      <4>1. base[a] \in Name
        BY <1>1, <2>2 DEF BaseMap
      <4>. QED BY <1>1, <4>1, AncestorStep
    <3>2. IsSubclass(base, c, base[a])
      BY <1>1, <1>4, <3>1, IsAMeans, SubclassTransitive DEF IsSubclass
    <3>3. ~DerivedBefore(base[a], Place(base[a]))
      BY <1>1, <1>4, <3>1, <3>2, IsAMeans DEF Overtaken
    <3>4. ~(Place(a) < Place(base[a]))
      BY <3>1, <3>3 DEF DerivedBefore
    <3>5. Place(a) # Place(base[a])
      BY <1>1, <3>1, PlaceIs, NotOwnAncestor DEF TypeOK
    <3>6. Place(a) \in Int /\ Place(base[a]) \in Int
      BY <1>1, <3>1, PlaceIs, OrderShape
    <3>. QED BY <3>4, <3>5, <3>6
  <2>. QED BY <1>2, <2>1, <2>2
<1>. QED BY <1>3, <1>4 DEF Constructs

(* For every program, objects can be created exactly of the classes that   *)
(* were not written after a class derived from them and have no base that  *)
(* was: genClasses generates constructors in the order of the text and     *)
(* leaves those it was interrupted in broken (Constructor.cpp:42).         *)
THEOREM NewFailuresExact == ObjSpec => []NewFailsExactly
<1>1. ObjInv => NewFailsExactly
  <2>. SUFFICES ASSUME ObjInv PROVE NewFailsExactly
    OBVIOUS
  <2>1. ASSUME seen # <<>>, seen[1] = "new" PROVE ~Overtaken(vptr(seen[2]))
    <3>1. vptr(seen[2]) \in Name /\ Constructs(vptr(seen[2])) /\ state # "codegen"
      BY <2>1 DEF ObjInv, SeenInv, HeapInv, TextInv
    <3>. QED BY <3>1, ConstructsExactly
  <2>2. ASSUME fault # <<>>, fault[1] = "new" PROVE Overtaken(fault[2])
    <3>1. Faulty /\ state # "codegen"
      BY <2>2 DEF ObjInv, FaultInv
    <3>2. PICK c \in Name : fault = <<"new", c>> /\ ~Constructs(c)
      BY <2>2, <3>1 DEF Faulty
    <3>. QED BY <3>1, <3>2, ConstructsExactly
  <2>. QED BY <2>1, <2>2 DEF NewFailsExactly
<1>. QED BY <1>1, ObjInvariant, PTL

(* For every program, the fields that can be used are those that the       *)
(* methods written before them do not move away (CodeGen.cpp:1037): all    *)
(* accesses that succeed are to such fields and all that fail are not.     *)
THEOREM FieldFailuresExact == ObjSpec => []FieldsFailExactly
<1>1. ObjInv => FieldsFailExactly
  <2>. SUFFICES ASSUME ObjInv PROVE FieldsFailExactly
    OBVIOUS
  <2>1. Lawful /\ Forest
    BY DEF ObjInv, TextInv
  <2>2. ASSUME seen # <<>>, seen[1] \in {"read", "write"}
        PROVE  ~Misplaced(Nearest(vptr(seen[2]), seen[3]), seen[3])
    <3>1. /\ vptr(seen[2]) \in Name /\ seen[3] \in Field
          /\ Understands(vptr(seen[2]), seen[3])
          /\ Compiles(Nearest(vptr(seen[2]), seen[3]), seen[3])
      BY <2>2 DEF ObjInv, SeenInv, HeapInv
    <3>2. Nearest(vptr(seen[2]), seen[3]) \in Name
          /\ seen[3] \in Declared(Nearest(vptr(seen[2]), seen[3]))
      BY <2>1, <3>1, NearestIs
    <3>. QED BY <2>1, <3>1, <3>2, CompilesUnlessMisplaced
  <2>3. ASSUME fault # <<>>, fault[1] = "field" PROVE Misplaced(fault[2], fault[3])
    <3>1. Faulty
      BY <2>3 DEF ObjInv, FaultInv
    <3>2. PICK d \in Name, x \in Field :
            fault = <<"field", d, x>> /\ x \in Declared(d) /\ ~Compiles(d, x)
      BY <2>3, <3>1 DEF Faulty
    <3>. QED BY <2>1, <3>2, CompilesUnlessMisplaced
  <2>. QED BY <2>2, <2>3 DEF FieldsFailExactly
<1>. QED BY <1>1, ObjInvariant, PTL

(* A program with its bases and its fields first and no static methods     *)
(* never goes wrong.                                                       *)
THEOREM DisciplineIsEnough == ObjSpec => []DisciplinedIsSafe
<1>1. ObjInv => DisciplinedIsSafe
  <2>. SUFFICES ASSUME ObjInv, Disciplined, fault # <<>> PROVE FALSE
    BY DEF DisciplinedIsSafe
  <2>1. Faulty /\ Lawful /\ Forest
    BY DEF ObjInv, FaultInv, TextInv
  <2>2. \A d \in Name : members[d] \in Seq(Member)
    BY <2>1 DEF Lawful
  <2>3. ASSUME NEW c \in Name, NEW m, Understands(c, m) PROVE ~IsStatic(Nearest(c, m), m)
    <3>. DEFINE d == Nearest(c, m)
    <3>1. d \in Name /\ m \in Declared(d)
      BY <2>1, <2>3, NearestIs
    <3>. HIDE DEF d
    <3>2. Symbol(d, m) = members[d][Index(d, m)] /\ Index(d, m) \in DOMAIN members[d]
      BY <2>1, <2>2, <3>1, IndexIs
    <3>. QED BY <3>1, <3>2 DEF Disciplined, IsStatic, d
  <2>4. ASSUME NEW d \in Name, NEW x \in Field, x \in Declared(d) PROVE ~Misplaced(d, x)
    <3>1. /\ Index(d, x) \in DOMAIN members[d] /\ members[d][Index(d, x)].name = x
          /\ members[d][Index(d, x)] \in Member /\ DOMAIN members[d] = 1..Len(members[d])
      BY <2>1, <2>2, <2>4, IndexIs
    <3>2. IsVar(members[d][Index(d, x)])
      BY <3>1, ObjectsAssumption DEF Member, IsVar, VarKinds
    <3>3. MethodsBefore(d, x) = {}
      <4>. SUFFICES ASSUME NEW i \in 1..Index(d, x), ~IsVar(members[d][i]) PROVE FALSE
        BY DEF MethodsBefore
      <4>1. i \in DOMAIN members[d] /\ i < Index(d, x)
        BY <3>1, <3>2
      <4>. QED BY <3>1, <3>2, <4>1 DEF Disciplined
    <3>. QED BY <3>3, FS_EmptySet DEF Misplaced
  <2>5. ASSUME NEW c \in Name PROVE Constructs(c)
    <3>1. Done /\ TypeOK /\ TurnInv /\ FirstInv
      BY DEF ObjInv, TextInv, FaultInv
    <3>2. DOMAIN block = Name
      BY <3>1, AllMade DEF Done, TurnInv, Between, Turn
    <3>3. \A a \in Name : Finished(a)
      BY <3>1, <3>2 DEF Finished, Exists, Done
    <3>. QED BY <3>1, <3>3, FirstImplies DEF Constructs, ProperWhenBaseFirst, Disciplined
  <2>6. CASE \E d \in Name, x \in Field :
               fault = <<"field", d, x>> /\ x \in Declared(d) /\ ~Compiles(d, x)
    BY <2>1, <2>4, <2>6, CompilesUnlessMisplaced
  <2>7. ASSUME \E i \in DOMAIN objs, c \in Name, m \in Method :
                 (Understands(c, m) /\ IsStatic(Nearest(c, m), m))
                   \/ (Understands(vptr(i), m) /\ IsStatic(Nearest(vptr(i), m), m))
        PROVE  FALSE
    <3>1. \A i \in DOMAIN objs : vptr(i) \in Name
      BY DEF ObjInv, HeapInv
    <3>. QED BY <2>3, <2>7, <3>1
  <2>. QED BY <2>1, <2>3, <2>5, <2>6, <2>7 DEF Faulty
<1>. QED BY <1>1, ObjInvariant, PTL

-----------------------------------------------------------------------------
(* The refinement.  The object that the words of memory stand for.         *)
Promised(i) == [cls |-> vptr(i), value |-> [x \in Attributes(vptr(i)) |-> ValueOf(i, x)]]
PromisedAll == [i \in DOMAIN objs |-> Promised(i)]

LEMMA AttributesAre ==
  ASSUME state # "codegen", NEW c
  PROVE  Abstract!Attributes(c) = Attributes(c)
<1>1. Linked(Field) = [a \in Name |-> Declared(a) \cap Field]
  BY DEF Linked
<1>. QED BY <1>1 DEF Abstract!Attributes, Abstract!IsA, Attributes, Understands, IsA

LEMMA Unchanged ==
  ASSUME above' = above, Linked(Field)' = Linked(Field), Linked(Method)' = Linked(Method),
         state' # "codegen" <=> state # "codegen", PromisedAll' = PromisedAll, seen' = seen
  PROVE  UNCHANGED Abstract!vars
BY DEF Abstract!vars, PromisedAll, Promised

LEMMA AbstractOperate ==
  ASSUME SameText, state = "running", state' # "codegen", NEW result, seen' = result
  PROVE  Abstract!Operate(result)
<1>1. Linked(Field)' = Linked(Field) /\ Linked(Method)' = Linked(Method) /\ above' = above
  BY TextStays DEF Linked
<1>. QED BY <1>1 DEF Abstract!Operate, Abstract!program

(* Objects whose words do not change stay what they are.                   *)
LEMMA PromiseKept ==
  ASSUME SameText, UNCHANGED objs, NEW i, vptr(i)' = vptr(i),
         \A x \in Attributes(vptr(i)) : ValueOf(i, x)' = ValueOf(i, x)
  PROVE  Promised(i)' = Promised(i)
<1>1. \A c : Attributes(c)' = Attributes(c)
  BY MeaningStays DEF Attributes
<1>. QED BY <1>1 DEF Promised

LEMMA PromisesKept ==
  ASSUME SameText, UNCHANGED <<heap, objs>>
  PROVE  PromisedAll' = PromisedAll
<1>1. \A i : vptr(i)' = vptr(i)
  BY DEF vptr
<1>2. \A i, x : ValueOf(i, x)' = ValueOf(i, x)
  BY <1>1, TextStays, MeaningStays DEF ValueOf
<1>3. \A i : Promised(i)' = Promised(i)
  BY <1>1, <1>2, PromiseKept
<1>. QED BY <1>3 DEF PromisedAll

LEMMA AbstractInit == ObjInit => Abstract!Init
<1>. SUFFICES ASSUME ObjInit PROVE Abstract!Init
  OBVIOUS
<1>1. state = "codegen" /\ objs = <<>> /\ seen = <<>>
      /\ base \in BaseMap /\ Acyclic(base) /\ above = [c \in Name |-> Ancestors(base, c)]
  BY DEF ObjInit, Init
<1>2. Linked(Field) = [c \in Name |-> {}] /\ Linked(Method) = [c \in Name |-> {}]
  BY <1>1 DEF Linked
<1>3. PromisedAll = <<>>
  BY <1>1 DEF PromisedAll
<1>4. \A b : /\ Abstract!Acyclic(b) <=> Acyclic(b)
             /\ \A c : Abstract!Ancestors(b, c) = Ancestors(b, c)
  BY DEF Abstract!Acyclic, Acyclic, Abstract!Closed, Closed, Abstract!Ancestors, Ancestors,
         Abstract!UpwardClosed, UpwardClosed
<1>5. Abstract!BaseMap = BaseMap
  BY DEF Abstract!BaseMap, BaseMap
<1>. QED BY <1>1, <1>2, <1>3, <1>4, <1>5 DEF Abstract!Init, PromisedAll, Promised

LEMMA CompilingRefines ==
  ASSUME ObjInv, ObjInv', state = "codegen", state' = "codegen", seen' = seen, above' = above
  PROVE  UNCHANGED Abstract!vars
<1>1. objs = <<>> /\ objs' = <<>>
  BY DEF ObjInv, TextInv
<1>2. PromisedAll' = PromisedAll
  BY <1>1 DEF PromisedAll
<1>3. Linked(Field)' = Linked(Field) /\ Linked(Method)' = Linked(Method)
  BY DEF Linked
<1>. QED BY <1>2, <1>3, Unchanged

LEMMA LinkRefines ==
  ASSUME ObjInv, Link
  PROVE  Abstract!Start
<1>1. /\ SameText /\ state = "codegen" /\ state' = "running" /\ UNCHANGED <<heap, objs, seen>>
      /\ above' = above
  BY DEF Link, SameText, compiler
<1>2. Linked(Field)' \in [Name -> SUBSET Field] /\ Linked(Method)' \in [Name -> SUBSET Method]
  BY <1>1 DEF Linked
<1>3. PromisedAll' = PromisedAll
  BY <1>1, PromisesKept
<1>. QED BY <1>1, <1>2, <1>3 DEF Abstract!Start, PromisedAll, Promised

LEMMA SilentRefines ==
  ASSUME SameText, UNCHANGED <<heap, objs, seen>>, state = "running", state' # "codegen"
  PROVE  UNCHANGED Abstract!vars
<1>1. Linked(Field)' = Linked(Field) /\ Linked(Method)' = Linked(Method) /\ above' = above
  BY TextStays DEF Linked
<1>. QED BY <1>1, PromisesKept, Unchanged

(* The abstract operations, in terms of the promised objects.              *)
LEMMA AbstractSteps ==
  /\ \A c : /\ Abstract!Operate(<<"new", Len(PromisedAll) + 1>>)
            /\ PromisedAll' = Append(PromisedAll, [cls |-> c, value |-> [x \in Abstract!Attributes(c) |-> 0]])
            => Abstract!New(c)
  /\ \A i, x, v : /\ Abstract!Operate(<<"write", i, x>>)
                  /\ x \in Abstract!Attributes(PromisedAll[i].cls)
                  /\ PromisedAll' = [PromisedAll EXCEPT ![i].value[x] = v]
                  => Abstract!Write(i, x, v)
  /\ \A i, x : /\ Abstract!Operate(<<"read", i, x, PromisedAll[i].value[x]>>)
               /\ x \in Abstract!Attributes(PromisedAll[i].cls)
               /\ PromisedAll' = PromisedAll
               => Abstract!Read(i, x)
  /\ \A i, c, op : /\ Abstract!Operate(<<op, i, c, Abstract!IsA(PromisedAll[i].cls, c)>>)
                   /\ PromisedAll' = PromisedAll
                   => Abstract!InstanceOf(i, c, op)
  /\ \A i, m, d : /\ Abstract!Operate(<<"call", i, m, d>>)
                  /\ Abstract!MostDerivedDef(PromisedAll[i].cls, m, d)
                  /\ PromisedAll' = PromisedAll
                  => Abstract!Call(i, m, d)
  /\ \A c, m, d : /\ Abstract!Operate(<<"static", c, m, d>>)
                  /\ Abstract!MostDerivedDef(c, m, d)
                  /\ PromisedAll' = PromisedAll
                  => Abstract!CallStatic(c, m, d)
  /\ Abstract!Operate(<<>>) /\ PromisedAll' = PromisedAll => Abstract!Proceed
BY DEF Abstract!New, Abstract!Write, Abstract!Read, Abstract!InstanceOf, Abstract!Call,
       Abstract!CallStatic, Abstract!Proceed, PromisedAll, Promised

LEMMA MostDerivedIs ==
  ASSUME ObjInv, state # "codegen", NEW c \in Name, NEW m \in Method, NEW d \in Name,
         IsA(c, d), m \in Declared(d),
         \A a \in Name : IsA(c, a) /\ m \in Declared(a) => IsA(d, a)
  PROVE  Abstract!MostDerivedDef(c, m, d)
<1>1. \A a \in Name : m \in Linked(Method)[a] <=> m \in Declared(a)
  BY DEF Linked
<1>. QED BY <1>1 DEF Abstract!MostDerivedDef, Abstract!IsA, IsA

LEMMA PromisedIs ==
  ASSUME ObjInv
  PROVE  /\ DOMAIN PromisedAll = DOMAIN objs /\ Len(PromisedAll) = Len(objs)
         /\ \A i \in DOMAIN objs :
              /\ PromisedAll[i].cls = vptr(i) /\ vptr(i) \in Name
              /\ PromisedAll[i].value = [x \in Attributes(vptr(i)) |-> ValueOf(i, x)]
<1>1. objs \in Seq(Nat) /\ \A i \in DOMAIN objs : vptr(i) \in Name
  BY DEF ObjInv, HeapInv
<1>2. Len(PromisedAll) = Len(objs)
  BY <1>1 DEF PromisedAll
<1>. QED BY <1>1, <1>2 DEF PromisedAll, Promised

LEMMA ProceedRefines ==
  ASSUME Proceed
  PROVE  Abstract!Proceed
<1>1. SameText /\ UNCHANGED <<heap, objs>> /\ state = "running" /\ state' # "codegen" /\ seen' = <<>>
  BY DEF Proceed, SameText
<1>. QED BY <1>1, AbstractOperate, PromisesKept, AbstractSteps

LEMMA NewRefines ==
  ASSUME ObjInv, NEW c \in Name, New(c)
  PROVE  Abstract!New(c)
<1>1. /\ SameText /\ state = "running" /\ state' # "codegen"
      /\ seen' = <<"new", Len(objs')>>
  BY DEF New, Operate, SameText
<1>2. Len(objs') = Len(PromisedAll) + 1 /\ Len(objs) \in Nat /\ DOMAIN objs = 1..Len(objs)
  BY NewObject, PromisedIs DEF ObjInv, HeapInv
<1>3. Abstract!Operate(<<"new", Len(PromisedAll) + 1>>)
  BY <1>1, <1>2, AbstractOperate
<1>4. \A a : Attributes(a)' = Attributes(a)
  BY <1>1, MeaningStays DEF Attributes
<1>5. ASSUME NEW i \in DOMAIN objs PROVE Promised(i)' = Promised(i)
  <2>1. vptr(i)' = vptr(i) /\ objs'[i] = objs[i] /\ vptr(i) \in Name
    BY NewObject, PromisedIs
  <2>2. ASSUME NEW x \in Attributes(vptr(i)) PROVE ValueOf(i, x)' = ValueOf(i, x)
    <3>. DEFINE d == Nearest(vptr(i), x)
    <3>1. Nearest(vptr(i), x)' = d /\ Compiles(d, x)' = Compiles(d, x)
          /\ FieldPtr(objs[i], d, x)' = FieldPtr(objs[i], d, x)
      <4>1. \A e : /\ Nearest(e, x)' = Nearest(e, x) /\ Compiles(e, x)' = Compiles(e, x)
                   /\ \A o : FieldPtr(o, e, x)' = FieldPtr(o, e, x)
        BY <1>1, TextStays, MeaningStays
      <4>. QED BY <2>1, <4>1
    <3>2. ASSUME Compiles(d, x) PROVE heap'[FieldPtr(objs[i], d, x)] = heap[FieldPtr(objs[i], d, x)]
      <4>1. Placed(vptr(i), d, x)
        BY <2>1, <3>2, UsedIsPlaced DEF Attributes, ObjInv, TextInv
      <4>2. FieldPtr(objs[i], d, x) \in DOMAIN heap
        BY <4>1, FieldsOfObjects DEF ObjInv
      <4>. QED BY <4>2, NewObject
    <3>. QED BY <2>1, <3>1, <3>2 DEF ValueOf
  <2>. QED BY <1>4, <2>1, <2>2 DEF Promised
<1>6. PICK n : n = Len(objs) + 1
  OBVIOUS
<1>7. Promised(n)' = [cls |-> c, value |-> [x \in Abstract!Attributes(c) |-> 0]]
  <2>1. vptr(n)' = c /\ objs'[n] = Len(heap) + 1
    BY <1>6, NewObject
  <2>2. ASSUME NEW x \in Attributes(c) PROVE ValueOf(n, x)' = 0
    <3>. DEFINE d == Nearest(c, x)
    <3>1. \A e : /\ Nearest(e, x)' = Nearest(e, x) /\ Compiles(e, x)' = Compiles(e, x)
                 /\ \A o : FieldPtr(o, e, x)' = FieldPtr(o, e, x)
      BY <1>1, TextStays, MeaningStays
    <3>2. ASSUME Compiles(d, x) PROVE heap'[FieldPtr(Len(heap) + 1, d, x)] = 0
      <4>1. Placed(c, d, x)
        BY <3>2, UsedIsPlaced DEF Attributes, ObjInv, TextInv
      <4>2. Len(heap) \in Nat /\ SizeOf(c) \in Nat
        <5>1. Len(heap) \in Nat
          BY DEF ObjInv, HeapInv
        <5>2. SizeOf(c) \in Nat
          BY LayoutIs DEF ObjInv, TextInv
        <5>. QED BY <5>1, <5>2
      <4>3. FieldPtr(Len(heap) + 1, d, x) \in (Len(heap) + 2)..(Len(heap) + SizeOf(c))
        <5>1. FieldPtr(Len(heap) + 1, d, x)
                \in ((Len(heap) + 1) + 1)..((Len(heap) + 1) + SizeOf(c) - 1)
          BY <4>1, <4>2, FieldInside DEF ObjInv, TextInv
        <5>. QED BY <4>2, <5>1
      <4>4. PICK w \in 2..SizeOf(c) : FieldPtr(Len(heap) + 1, d, x) = Len(heap) + w
        <5>1. FieldPtr(Len(heap) + 1, d, x) - Len(heap) \in 2..SizeOf(c)
              /\ FieldPtr(Len(heap) + 1, d, x)
                   = Len(heap) + (FieldPtr(Len(heap) + 1, d, x) - Len(heap))
          BY <4>2, <4>3
        <5>. QED BY <5>1
      <4>. QED BY <4>4, NewObject
    <3>3. ValueOf(n, x)' = IF Compiles(d, x) THEN heap'[FieldPtr(Len(heap) + 1, d, x)] ELSE 0
      BY <2>1, <3>1 DEF ValueOf
    <3>. QED BY <3>2, <3>3
  <2>3. Abstract!Attributes(c) = Attributes(c)
    BY <1>1, AttributesAre
  <2>. QED BY <1>4, <2>1, <2>2, <2>3 DEF Promised
<1>8. PromisedAll' = Append(PromisedAll, [cls |-> c, value |-> [x \in Abstract!Attributes(c) |-> 0]])
  <2>1. DOMAIN objs' = 1..n
    BY <1>6, NewObject
  <2>2. PromisedAll' = [i \in 1..n |-> IF i = n THEN Promised(n)' ELSE Promised(i)]
    BY <1>2, <1>5, <1>6, <2>1 DEF PromisedAll
  <2>3. PromisedAll = [i \in 1..Len(objs) |-> Promised(i)]
    BY <1>2 DEF PromisedAll
  <2>. QED BY <1>2, <1>6, <1>7, <2>2, <2>3
<1>. QED BY <1>3, <1>8, AbstractSteps

LEMMA ReadRefines ==
  ASSUME ObjInv, NEW i \in DOMAIN objs, NEW x \in Field, Read(i, x)
  PROVE  Abstract!Read(i, x)
<1>. DEFINE d == Nearest(vptr(i), x)
<1>1. /\ SameText /\ state = "running" /\ state' # "codegen" /\ UNCHANGED <<heap, objs>>
      /\ Understands(vptr(i), x) /\ Compiles(d, x)
      /\ seen' = <<"read", i, x, heap[FieldPtr(objs[i], d, x)]>>
  BY DEF Read, Access, Observe, Operate, SameText
<1>2. x \in Attributes(vptr(i)) /\ ValueOf(i, x) = heap[FieldPtr(objs[i], d, x)]
  BY <1>1 DEF Attributes, ValueOf
<1>3. x \in Abstract!Attributes(PromisedAll[i].cls)
  BY <1>1, <1>2, AttributesAre, PromisedIs
<1>4. seen' = <<"read", i, x, PromisedAll[i].value[x]>>
  BY <1>1, <1>2, PromisedIs
<1>. QED BY <1>1, <1>3, <1>4, AbstractOperate, PromisesKept, AbstractSteps

LEMMA WriteRefines ==
  ASSUME ObjInv, NEW i \in DOMAIN objs, NEW x \in Field, NEW v \in Value, Write(i, x, v)
  PROVE  Abstract!Write(i, x, v)
<1>. DEFINE d == Nearest(vptr(i), x)
            p == FieldPtr(objs[i], d, x)
<1>1. /\ SameText /\ state = "running" /\ state' # "codegen" /\ objs' = objs
      /\ Understands(vptr(i), x) /\ Compiles(d, x)
      /\ heap' = [heap EXCEPT ![p] = v] /\ seen' = <<"write", i, x>>
  BY DEF Write, Access, Observe, Operate, SameText
<1>2. \A j \in DOMAIN objs : vptr(j) \in Name /\ vptr(j)' = vptr(j)
  BY WriteObj, PromisedIs
<1>3. Placed(vptr(i), d, x)
  BY <1>1, <1>2, UsedIsPlaced DEF ObjInv, TextInv
<1>4. /\ p \in DOMAIN heap
      /\ \A j \in DOMAIN objs : \A e, y :
           Placed(vptr(j), e, y) /\ FieldPtr(objs[j], e, y) = p => i = j /\ d = e /\ x = y
  BY <1>3, FieldsOfObjects DEF ObjInv
<1>5. \A c : Attributes(c)' = Attributes(c)
  BY <1>1, MeaningStays DEF Attributes
<1>6. \A e, y : /\ Nearest(e, y)' = Nearest(e, y) /\ Compiles(e, y)' = Compiles(e, y)
                /\ \A o : FieldPtr(o, e, y)' = FieldPtr(o, e, y)
  BY <1>1, TextStays, MeaningStays
<1>7. ASSUME NEW j \in DOMAIN objs, NEW y \in Attributes(vptr(j))
      PROVE  ValueOf(j, y)' = IF i = j /\ x = y THEN v ELSE ValueOf(j, y)
  <2>. DEFINE e == Nearest(vptr(j), y)
  <2>1. ValueOf(j, y)' = IF Compiles(e, y) THEN heap'[FieldPtr(objs[j], e, y)] ELSE 0
    BY <1>1, <1>2, <1>6 DEF ValueOf
  <2>2. CASE ~Compiles(e, y)
    BY <1>1, <2>1, <2>2 DEF ValueOf
  <2>3. CASE Compiles(e, y)
    <3>1. Placed(vptr(j), e, y)
      BY <1>2, <2>3, UsedIsPlaced DEF Attributes, ObjInv, TextInv
    <3>2. FieldPtr(objs[j], e, y) = p <=> i = j /\ x = y
      BY <1>4, <3>1
    <3>3. FieldPtr(objs[j], e, y) \in DOMAIN heap
      BY <3>1, FieldsOfObjects DEF ObjInv
    <3>. QED BY <1>1, <1>4, <2>1, <2>3, <3>2, <3>3 DEF ValueOf
  <2>. QED BY <2>2, <2>3
<1>8. x \in Attributes(vptr(i))
  BY <1>1 DEF Attributes
<1>. HIDE DEF d, p
<1>9. ASSUME NEW j \in DOMAIN objs, j # i PROVE Promised(j)' = Promised(j)
  BY <1>2, <1>5, <1>7, <1>9 DEF Promised
<1>10. Promised(i)' = [Promised(i) EXCEPT !.value[x] = v]
  <2>1. Promised(i)' = [cls |-> vptr(i), value |-> [y \in Attributes(vptr(i)) |-> ValueOf(i, y)']]
    BY <1>2, <1>5 DEF Promised
  <2>2. [y \in Attributes(vptr(i)) |-> ValueOf(i, y)']
          = [[y \in Attributes(vptr(i)) |-> ValueOf(i, y)] EXCEPT ![x] = v]
    BY <1>7, <1>8
  <2>3. Promised(i) = [cls |-> vptr(i), value |-> [y \in Attributes(vptr(i)) |-> ValueOf(i, y)]]
    BY DEF Promised
  <2>4. ASSUME NEW cls, NEW f PROVE [[cls |-> cls, value |-> f] EXCEPT !.value[x] = v]
                                      = [cls |-> cls, value |-> [f EXCEPT ![x] = v]]
    OBVIOUS
  <2>. QED BY <2>1, <2>2, <2>3, <2>4
<1>11. PromisedAll' = [PromisedAll EXCEPT ![i].value[x] = v]
  BY <1>1, <1>9, <1>10 DEF PromisedAll
<1>12. x \in Abstract!Attributes(PromisedAll[i].cls)
  BY <1>1, <1>8, AttributesAre, PromisedIs
<1>. QED BY <1>1, <1>11, <1>12, AbstractOperate, AbstractSteps

LEMMA CallRefines ==
  ASSUME ObjInv, NEW i \in DOMAIN objs, NEW c \in Name, NEW m \in Method, Call(i, c, m)
  PROVE  \E d \in Name : Abstract!Call(i, m, d)
<1>1. /\ SameText /\ state = "running" /\ state' # "codegen" /\ UNCHANGED <<heap, objs>>
      /\ IsA(vptr(i), c) /\ Understands(c, m)
      /\ seen' = <<"call", i, m, Nearest(vptr(i), m)>>
  BY DEF Call, Receives, Observe, Operate, SameText
<1>2. vptr(i) \in Name /\ Forest /\ PromisedAll[i].cls = vptr(i)
  BY PromisedIs DEF ObjInv, TextInv
<1>3. Understands(vptr(i), m)
  BY <1>1, <1>2, IsAMeans, SubclassTransitive DEF Understands, Forest
<1>4. PICK d \in Name : /\ d = Nearest(vptr(i), m) /\ IsA(vptr(i), d) /\ m \in Declared(d)
                        /\ \A a \in Name : IsA(vptr(i), a) /\ m \in Declared(a) => IsA(d, a)
  BY <1>2, <1>3, NearestIs
<1>5. Abstract!MostDerivedDef(PromisedAll[i].cls, m, d)
  BY <1>1, <1>2, <1>4, MostDerivedIs
<1>. QED BY <1>1, <1>4, <1>5, AbstractOperate, PromisesKept, AbstractSteps

LEMMA CallStaticRefines ==
  ASSUME ObjInv, NEW c \in Name, NEW m \in Method, CallStatic(c, m)
  PROVE  Abstract!CallStatic(c, m, c)
<1>1. /\ SameText /\ state = "running" /\ state' # "codegen" /\ UNCHANGED <<heap, objs>>
      /\ m \in Declared(c) /\ seen' = <<"static", c, m, c>>
  BY DEF CallStatic, CallsStatic, Observe, Operate, SameText
<1>2. Abstract!MostDerivedDef(c, m, c)
  BY <1>1, MostDerivedIs DEF IsA
<1>. QED BY <1>1, <1>2, AbstractOperate, PromisesKept, AbstractSteps

LEMMA EndWalkRefines ==
  ASSUME ObjInv, EndWalk
  PROVE  \E i \in DOMAIN objs, c \in Name, op \in {"instanceof", "cast"} : Abstract!InstanceOf(i, c, op)
<1>1. /\ SameText /\ walk # <<>> /\ UNCHANGED <<heap, objs>>
      /\ walk.at \in {NoBase, walk.dst}
      /\ seen' = <<walk.op, walk.obj, walk.dst, walk.at = walk.dst>>
      /\ state' \in {"halted", state}
  BY DEF EndWalk, SameText
<1>2. /\ state = "running"
      /\ walk.obj \in DOMAIN objs /\ walk.dst \in Name /\ walk.op \in {"instanceof", "cast"}
      /\ IsA(vptr(walk.obj), walk.dst) <=> walk.at \in Name /\ IsA(walk.at, walk.dst)
  BY <1>1 DEF ObjInv, WalkInv
<1>3. PICK i \in DOMAIN objs, c \in Name, op \in {"instanceof", "cast"} :
        i = walk.obj /\ c = walk.dst /\ op = walk.op
  BY <1>2
<1>4. (walk.at = c) = Abstract!IsA(PromisedAll[i].cls, c)
  <2>1. PromisedAll[i].cls = vptr(i)
    BY PromisedIs
  <2>2. IsA(vptr(i), c) <=> walk.at = c
    BY <1>1, <1>2, <1>3, NoBaseAssumption DEF IsA
  <2>3. Abstract!IsA(vptr(i), c) <=> IsA(vptr(i), c)
    BY DEF Abstract!IsA, IsA
  <2>4. (walk.at = c) \in BOOLEAN /\ Abstract!IsA(vptr(i), c) \in BOOLEAN
    BY DEF Abstract!IsA
  <2>. QED BY <2>1, <2>2, <2>3, <2>4
<1>5. seen' = <<op, i, c, Abstract!IsA(PromisedAll[i].cls, c)>>
  BY <1>1, <1>3, <1>4
<1>6. Abstract!InstanceOf(i, c, op)
  BY <1>1, <1>2, <1>5, AbstractOperate, PromisesKept, AbstractSteps
<1>. QED BY <1>6

(* Every step of the machine is one of the abstract objects, or shows      *)
(* nothing.                                                                *)
LEMMA StepRefines == ObjInv /\ [ObjNext]_objVars => [Abstract!Next]_(Abstract!vars)
<1>. SUFFICES ASSUME ObjInv, [ObjNext]_objVars
              PROVE  Abstract!Next \/ UNCHANGED Abstract!vars
  BY DEF PromisedAll
<1>0. ObjInv'
  BY StepObj
<1>1. DOMAIN PromisedAll = DOMAIN objs
  BY PromisedIs
<1>2. CASE Generate
  <2>1. state = "codegen" /\ state' = state /\ seen' = seen /\ above' = above
    BY <1>2, NotGenerating DEF Generate, ObjInv, TextInv
  <2>. QED BY <1>0, <2>1, CompilingRefines
<1>3. ASSUME NEW c \in Name, NEW m \in Member, Declare(c, m) PROVE UNCHANGED Abstract!vars
  BY <1>0, <1>3, CompilingRefines DEF Declare, compiler
<1>4. CASE Link
  BY <1>4, LinkRefines DEF Abstract!Next
<1>5. CASE Proceed
  BY <1>5, ProceedRefines DEF Abstract!Next
<1>6. ASSUME NEW c \in Name, New(c) PROVE Abstract!Next
  BY <1>6, NewRefines DEF Abstract!Next
<1>7. ASSUME NEW c \in Name, NewBroken(c) PROVE UNCHANGED Abstract!vars
  BY <1>7, SilentRefines DEF NewBroken, Fail, Operate, SameText
<1>8. ASSUME NEW i \in DOMAIN objs, NEW x \in Field, NEW v \in Value, Write(i, x, v) PROVE Abstract!Next
  BY <1>1, <1>8, WriteRefines DEF Abstract!Next, PromisedAll, Promised
<1>9. ASSUME NEW i \in DOMAIN objs, NEW x \in Field, Read(i, x) PROVE Abstract!Next
  BY <1>1, <1>9, ReadRefines DEF Abstract!Next, PromisedAll, Promised
<1>10. ASSUME NEW i \in DOMAIN objs, NEW x \in Field, AccessBroken(i, x) PROVE UNCHANGED Abstract!vars
  BY <1>10, SilentRefines DEF AccessBroken, Access, Fail, Operate, SameText
<1>11. ASSUME NEW i \in DOMAIN objs, NEW c \in Name, NEW m \in Method, Call(i, c, m) PROVE Abstract!Next
  <2>1. PICK d \in Name : Abstract!Call(i, m, d)
    BY <1>11, CallRefines
  <2>. QED BY <1>1, <2>1 DEF Abstract!Next, PromisedAll, Promised
<1>12. ASSUME NEW i \in DOMAIN objs, NEW c \in Name, NEW m \in Method,
              CallExtraArgument(i, c, m) \/ CallMisplaced(i, c, m)
       PROVE  UNCHANGED Abstract!vars
  BY <1>12, SilentRefines DEF CallExtraArgument, CallMisplaced, Receives, Fail, Operate, SameText
<1>13. ASSUME NEW c \in Name, NEW m \in Method, CallStatic(c, m) PROVE Abstract!Next
  BY <1>13, CallStaticRefines DEF Abstract!Next
<1>14. ASSUME NEW c \in Name, NEW m \in Method, CallNoFunction(c, m) PROVE UNCHANGED Abstract!vars
  BY <1>14, SilentRefines DEF CallNoFunction, CallsStatic, Fail, Operate, SameText
<1>15. ASSUME NEW i \in DOMAIN objs, NEW c \in Name, NEW op \in {"instanceof", "cast"}, InstanceOf(i, c, op)
       PROVE  UNCHANGED Abstract!vars
  BY <1>15, SilentRefines DEF InstanceOf, Operate, SameText
<1>16. CASE WalkUp
  <2>1. state = "running"
    BY <1>16 DEF WalkUp, ObjInv, WalkInv
  <2>. QED BY <1>16, <2>1, SilentRefines DEF WalkUp, SameText
<1>17. CASE EndWalk
  <2>1. PICK i \in DOMAIN objs, c \in Name, op \in {"instanceof", "cast"} : Abstract!InstanceOf(i, c, op)
    BY <1>17, EndWalkRefines
  <2>. QED BY <1>1, <2>1 DEF Abstract!Next, PromisedAll, Promised
<1>18. CASE UNCHANGED objVars
  <2>1. SameText /\ UNCHANGED <<heap, objs, seen, state>> /\ above' = above
    BY <1>18 DEF objVars, compiler, SameText
  <2>2. Linked(Field)' = Linked(Field) /\ Linked(Method)' = Linked(Method)
    BY <2>1, TextStays DEF Linked
  <2>. QED BY <2>1, <2>2, PromisesKept, Unchanged
<1>. QED
  BY <1>2, <1>3, <1>4, <1>5, <1>6, <1>7, <1>8, <1>9, <1>10, <1>11, <1>12, <1>13, <1>14, <1>15,
     <1>16, <1>17, <1>18 DEF ObjNext

(* As long as an operation is compiled and defined, memory, tables and the *)
(* runtime's walk do what is promised of objects: values are kept whatever *)
(* is written elsewhere, and calls, instanceof and casts go by the class   *)
(* the object was created with.                                            *)
THEOREM ObjectsImplement == ObjSpec => ImplementsObjectStore
<1>1. ObjInit => Abstract!Init
  BY AbstractInit
<1>2. ObjInv /\ [ObjNext]_objVars => [Abstract!Next]_(Abstract!vars)
  BY StepRefines
<1>. QED BY <1>1, <1>2, ObjInvariant, PTL DEF ObjSpec, ImplementsObjectStore, Abstract!Spec

-----------------------------------------------------------------------------
(* The tables that the calls go through: VTable::generate, which runs      *)
(* before any object exists.                                               *)

LEMMA TableRowShape ==
  ASSUME NEW S, IsFiniteSet(S), NEW r \in Rows(S)
  PROVE  \E n \in Nat : DOMAIN r = 1..n /\ r \in [1..n -> S]
<1>1. Cardinality(S) \in Nat
  BY FS_CardinalityType
<1>2. PICK n \in 0..Cardinality(S) : r \in [1..n -> S]
  BY DEF Rows
<1>. QED BY <1>1, <1>2

LEMMA TableMethods ==
  ASSUME TableTypeOK, NEW c \in Name
  PROVE  \E n \in Nat : DOMAIN methods[c] = 1..n /\ methods[c] \in [1..n -> MethodName]
  BY TableRowShape, FiniteMethodNames DEF TableTypeOK

(* The class of the innermost call.                                        *)
LEMMA TableCur ==
  ASSUME TableTypeOK, calls # <<>>
  PROVE  /\ cur \in Name /\ ~Built(cur)
         /\ Len(calls) \in DOMAIN calls
         /\ SubSeq(calls, 1, Len(calls) - 1) \in Seq(Name)
  BY DEF TableTypeOK, cur

(* The recursion never enters a class twice: the bases would form a cycle. *)
LEMMA TableNoReentry ==
  ASSUME TableTypeOK, NEW i \in DOMAIN calls, i < Len(calls)
  PROVE  calls[i] # cur
<1>. SUFFICES ASSUME calls[i] = cur PROVE FALSE
  OBVIOUS
<1>. DEFINE S == {calls[x] : x \in i..Len(calls)}
<1>1. \A x \in i..Len(calls) : x \in DOMAIN calls
  BY DEF TableTypeOK
<1>a. \A y \in Nat : y \in DOMAIN calls /\ y + 1 \in DOMAIN calls => calls[y + 1] = base[calls[y]]
  <2>. SUFFICES ASSUME NEW y \in Nat, y \in DOMAIN calls, y + 1 \in DOMAIN calls
                PROVE  calls[y + 1] = base[calls[y]]
    OBVIOUS
  <2>1. \A z \in DOMAIN calls : z > 1 => calls[z] = base[calls[z - 1]]
    BY DEF TableTypeOK
  <2>2. y + 1 > 1 /\ (y + 1) - 1 = y
    BY DEF TableTypeOK
  <2>. QED BY <2>1, <2>2
<1>b. Len(calls) \in Nat /\ DOMAIN calls = 1..Len(calls)
  BY DEF TableTypeOK
<1>2. S \in SUBSET Name /\ S # {}
  BY <1>1 DEF TableTypeOK
<1>3. Closed(base, S)
  <2>. SUFFICES ASSUME NEW x \in i..Len(calls) PROVE base[calls[x]] \in S
    BY DEF Closed
  <2>1. CASE x < Len(calls)
    <3>1. x + 1 \in i..Len(calls) /\ calls[x + 1] = base[calls[x]]
      BY <2>1, <1>a, <1>b
    <3>. QED BY <3>1
  <2>2. CASE x = Len(calls)
    <3>1. i + 1 \in i..Len(calls) /\ calls[i + 1] = base[calls[i]]
      BY <1>a, <1>b
    <3>. QED BY <3>1, <2>2 DEF cur
  <2>. QED BY <2>1, <2>2
<1>. HIDE DEF S
<1>. QED BY <1>2, <1>3 DEF Acyclic, TableTypeOK

LEMMA TableSlot ==
  ASSUME NEW table, NEW m, HasSlot(table, m)
  PROVE  SlotOf(table, m) \in DOMAIN table /\ table[SlotOf(table, m)].name = m
  BY DEF HasSlot, SlotOf

-----------------------------------------------------------------------------
LEMMA TableTypeInit == TableInit => TableTypeOK
  BY DEF TableInit, TableTypeOK, Built

LEMMA TableTypeNext == TableTypeOK /\ [TableNext]_tableVars => TableTypeOK'
<1>. SUFFICES ASSUME TableTypeOK, [TableNext]_tableVars PROVE TableTypeOK'
  OBVIOUS
<1>1. CASE NextTable
  <2>1. order[nextTable] \in Name
    BY <1>1, OrderShape DEF NextTable, TableTypeOK
  <2>2. calls' \in Seq(Name) /\ \A i \in DOMAIN calls' : i = 1 /\ calls'[i] = order[nextTable]
    BY <1>1, <2>1 DEF NextTable
  <2>. QED BY <1>1, <2>1, <2>2 DEF NextTable, TableTypeOK, accepted, Built
<1>2. CASE GenerateBaseTable
  <2>1. cur \in Name /\ ~Built(cur) /\ calls # <<>>
    BY <1>2, TableCur DEF GenerateBaseTable, Entering
  <2>2. base[cur] \in Name /\ ~Built(base[cur])
    BY <1>2, <2>1 DEF GenerateBaseTable, TableTypeOK, BaseMap
  <2>. QED BY <1>2, <2>1, <2>2 DEF GenerateBaseTable, Entering, TableTypeOK, accepted,
      Built, cur
<1>3. CASE CopyBaseTable
  <2>1. vec' \in Seq(Slot)
    BY <1>3 DEF CopyBaseTable, Entering, TableTypeOK, Built
  <2>. QED BY <1>3, <2>1 DEF CopyBaseTable, Entering, TableTypeOK, accepted, Built
<1>4. CASE ReplaceMethod \/ AddMethod
  <2>1. cur \in Name /\ turn # 0 /\ calls # <<>> /\ method \in MethodName
    BY <1>4, TableCur, TableMethods DEF ReplaceMethod, AddMethod, Filling, method
  <2>2. vec' \in Seq(Slot)
    <3>1. CASE ReplaceMethod
      <4>1. /\ SlotOf(vec, method) \in DOMAIN vec
            /\ vec' = [vec EXCEPT ![SlotOf(vec, method)].owner = cur]
        BY <3>1, TableSlot DEF ReplaceMethod
      <4>a. vec[SlotOf(vec, method)] \in Slot
        BY <4>1 DEF TableTypeOK
      <4>2. [vec[SlotOf(vec, method)] EXCEPT !.owner = cur] \in Slot
        BY <2>1, <4>a DEF Slot
      <4>. QED BY <4>1, <4>2 DEF TableTypeOK
    <3>2. CASE AddMethod
      <4>1. [name |-> method, owner |-> cur] \in Slot
        BY <2>1 DEF Slot
      <4>. QED BY <3>2, <4>1 DEF AddMethod, TableTypeOK
    <3>. QED BY <1>4, <3>1, <3>2
  <2>. QED BY <1>4, <2>1, <2>2 DEF ReplaceMethod, AddMethod, TableTypeOK, accepted,
      Built
<1>5. CASE FinishTable
  <2>1. cur \in Name /\ calls' \in Seq(Name)
    BY <1>5, TableCur DEF FinishTable
  <2>2. /\ DOMAIN funs' = DOMAIN funs \cup {cur}
        /\ \A c \in DOMAIN funs' : funs'[c] \in Seq(Slot)
    BY <1>5 DEF FinishTable, TableTypeOK
  <2>3. \A i \in DOMAIN calls' : /\ i \in DOMAIN calls
                                 /\ calls'[i] = calls[i]
                                 /\ i < Len(calls)
    BY <1>5 DEF FinishTable, TableTypeOK
  <2>4. \A i \in DOMAIN calls' : calls'[i] \notin DOMAIN funs'
    BY <2>2, <2>3, TableNoReentry DEF TableTypeOK, Built
  <2>a. DOMAIN calls' = 1..(Len(calls) - 1) /\ Len(calls) \in Nat
    BY <1>5 DEF FinishTable, TableTypeOK
  <2>5. \A i \in DOMAIN calls' : i > 1 => calls'[i] = base[calls'[i - 1]]
    <3>. SUFFICES ASSUME NEW i \in DOMAIN calls', i > 1
                  PROVE  calls'[i] = base[calls'[i - 1]]
      OBVIOUS
    <3>1. i - 1 \in DOMAIN calls'
      BY <2>a
    <3>2. calls[i] = base[calls[i - 1]]
      BY <2>3 DEF TableTypeOK
    <3>. QED BY <2>3, <3>1, <3>2
  <2>. QED BY <1>5, <2>1, <2>2, <2>4, <2>5 DEF FinishTable, TableTypeOK, accepted, Built
<1>6. CASE UNCHANGED tableVars
  BY <1>6 DEF TableTypeOK, tableVars, accepted, Built
<1>. QED BY <1>1, <1>2, <1>3, <1>4, <1>5, <1>6 DEF TableNext

(* The recursion of VTable::generate (VTable.cpp:92-104) only ever runs    *)
(* from a class up its chain of bases, and never makes a table twice.      *)
THEOREM VTableTypeCorrect == TableSpec => []TableTypeOK
  BY TableTypeInit, TableTypeNext, PTL DEF TableSpec

-----------------------------------------------------------------------------
(* Why dispatch is right.  A table is made after the one of its base ...   *)
BasesBuilt == \A c \in DOMAIN funs : base[c] # NoBase => Built(base[c])

UniqueNames(table) == \A s, t \in DOMAIN table : table[s].name = table[t].name => s = t

Taken(m) == \E i \in DOMAIN methods[cur] : i < turn /\ methods[cur][i] = m

(* ... it keeps the slots of its base in place, and each entry is either   *)
(* the class's own or the base's, untouched, for a method the loop has not *)
(* come to.                                                                *)
VecInv ==
  turn # 0 =>
    /\ base[cur] # NoBase => Built(base[cur])
    /\ UniqueNames(vec)
    /\ base[cur] # NoBase => \A s \in DOMAIN funs[base[cur]] :
         s \in DOMAIN vec /\ vec[s].name = funs[base[cur]][s].name
    /\ \A s \in DOMAIN vec :
         \/ vec[s].owner = cur /\ Defines(cur, vec[s].name)
         \/ /\ base[cur] # NoBase /\ s \in DOMAIN funs[base[cur]]
            /\ vec[s] = funs[base[cur]][s]
            /\ ~Taken(vec[s].name)

DispatchInv ==
  /\ TableTypeOK /\ BasesBuilt /\ VecInv
  /\ \A c \in DOMAIN funs : UniqueNames(funs[c])
  /\ VirtualCallsDispatch

LEMMA DispatchInit == TableInit => DispatchInv
  BY TableTypeInit DEF TableInit, DispatchInv, BasesBuilt, VecInv, VirtualCallsDispatch

LEMMA VecNext == DispatchInv /\ [TableNext]_tableVars => VecInv'
<1>. SUFFICES ASSUME DispatchInv, [TableNext]_tableVars PROVE VecInv'
  OBVIOUS
<1>. USE DEF DispatchInv
<1>1. CASE NextTable \/ GenerateBaseTable \/ FinishTable
  BY <1>1 DEF NextTable, GenerateBaseTable, FinishTable, Entering, VecInv, TableTypeOK
<1>2. CASE CopyBaseTable
  <2>1. cur \in Name /\ cur' = cur /\ turn' = 1 /\ UNCHANGED <<base, methods, funs>>
    BY <1>2, TableCur DEF CopyBaseTable, Entering, accepted, cur
  <2>2. ~\E i \in DOMAIN methods[cur] : i < 1
    BY <2>1, TableMethods
  <2>. QED BY <1>2, <2>1, <2>2 DEF CopyBaseTable, VecInv, Taken, Built, UniqueNames
<1>3. CASE ReplaceMethod
  <2>. DEFINE t == SlotOf(vec, method)
  <2>1. /\ t \in DOMAIN vec /\ vec[t].name = method
        /\ vec' = [vec EXCEPT ![t].owner = cur]
        /\ turn' = turn + 1 /\ turn # 0
        /\ UNCHANGED <<base, methods, calls, funs>>
    BY <1>3, TableSlot DEF ReplaceMethod, Filling, accepted
  <2>2. vec \in Seq(Slot) /\ vec[t] \in Slot
    BY <2>1 DEF TableTypeOK
  <2>3. /\ DOMAIN vec' = DOMAIN vec
        /\ vec'[t].name = method /\ vec'[t].owner = cur
        /\ \A s \in DOMAIN vec : vec'[s].name = vec[s].name
        /\ \A s \in DOMAIN vec : s # t => vec'[s] = vec[s]
    BY <2>1, <2>2 DEF Slot
  <2>. HIDE DEF t
  <2>4. \A m : Taken(m)' => Taken(m) \/ m = method
    <3>1. cur' = cur /\ turn \in Nat /\ \A i \in DOMAIN methods[cur] : i \in Nat
      BY <2>1, TableMethods, TableCur, <1>3 DEF cur, TableTypeOK, ReplaceMethod, Filling
    <3>. QED BY <3>1, <2>1 DEF Taken, method
  <2>5. \A s \in DOMAIN vec : s # t => vec[s].name # method
    BY <2>1 DEF VecInv, UniqueNames
  <2>6. Defines(cur, method)
    BY <1>3 DEF ReplaceMethod, Filling, Defines, method
  <2>7. cur' = cur /\ \A m : Defines(cur, m)' <=> Defines(cur, m)
    BY <2>1 DEF cur, Defines
  <2>8. UniqueNames(vec)'
    BY <2>1, <2>3 DEF UniqueNames, VecInv
  <2>9. \A s \in DOMAIN vec' :
         \/ vec'[s].owner = cur /\ Defines(cur, vec'[s].name)
         \/ /\ base[cur] # NoBase /\ s \in DOMAIN funs[base[cur]]
            /\ vec'[s] = funs[base[cur]][s]
            /\ ~Taken(vec'[s].name) /\ vec'[s].name # method
    BY <2>1, <2>3, <2>5, <2>6 DEF VecInv
  <2>10. base[cur] # NoBase => \A s \in DOMAIN funs[base[cur]] :
           s \in DOMAIN vec' /\ vec'[s].name = funs[base[cur]][s].name
    BY <2>1, <2>3 DEF VecInv
  <2>11. base[cur] # NoBase => Built(base[cur])
    BY <2>1 DEF VecInv
  <2>. QED BY <2>1, <2>4, <2>7, <2>8, <2>9, <2>10, <2>11 DEF VecInv, Built
<1>4. CASE AddMethod
  <2>. DEFINE n == Len(vec)
  <2>1. /\ vec' = Append(vec, [name |-> method, owner |-> cur])
        /\ turn' = turn + 1 /\ turn # 0
        /\ UNCHANGED <<base, methods, calls, funs>>
        /\ \A s \in DOMAIN vec : vec[s].name # method
    BY <1>4 DEF AddMethod, Filling, accepted, HasSlot
  <2>2. /\ n \in Nat /\ DOMAIN vec = 1..n /\ DOMAIN vec' = 1..(n + 1)
        /\ vec'[n + 1] = [name |-> method, owner |-> cur]
        /\ \A s \in DOMAIN vec : vec'[s] = vec[s]
    BY <2>1 DEF TableTypeOK
  <2>. HIDE DEF n
  <2>3. \A s \in DOMAIN vec' : s \in DOMAIN vec \/ s = n + 1
    BY <2>2
  <2>4. \A m : Taken(m)' => Taken(m) \/ m = method
    <3>1. cur' = cur /\ turn \in Nat /\ \A i \in DOMAIN methods[cur] : i \in Nat
      BY <2>1, TableMethods, TableCur, <1>4 DEF cur, TableTypeOK, AddMethod, Filling
    <3>. QED BY <3>1, <2>1 DEF Taken, method
  <2>5. Defines(cur, method)
    BY <1>4 DEF AddMethod, Filling, Defines, method
  <2>a. cur' = cur /\ \A m : Defines(cur, m)' <=> Defines(cur, m)
    BY <2>1 DEF cur, Defines
  <2>6. UniqueNames(vec)'
    BY <2>1, <2>2, <2>3 DEF UniqueNames, VecInv
  <2>7. \A s \in DOMAIN vec' :
         \/ vec'[s].owner = cur /\ Defines(cur, vec'[s].name)
         \/ /\ base[cur] # NoBase /\ s \in DOMAIN funs[base[cur]]
            /\ vec'[s] = funs[base[cur]][s]
            /\ ~Taken(vec'[s].name) /\ vec'[s].name # method
    BY <2>1, <2>2, <2>3, <2>5 DEF VecInv
  <2>8. base[cur] # NoBase => /\ Built(base[cur])
                              /\ \A s \in DOMAIN funs[base[cur]] :
                                   s \in DOMAIN vec' /\ vec'[s].name = funs[base[cur]][s].name
    BY <2>1, <2>2 DEF VecInv
  <2>. QED BY <2>1, <2>4, <2>a, <2>6, <2>7, <2>8 DEF VecInv, Built
<1>5. CASE UNCHANGED tableVars
  BY <1>5 DEF VecInv, tableVars, accepted, Taken, Built, UniqueNames, cur, Defines
<1>. QED BY <1>1, <1>2, <1>3, <1>4, <1>5 DEF TableNext

(* The bases of a class with a table all have theirs.                      *)
LEMMA AncestorsBuilt ==
  ASSUME TableTypeOK, BasesBuilt, NEW d \in DOMAIN funs, NEW c \in Name, IsSubclass(base, d, c)
  PROVE  Built(c)
<1>1. DOMAIN funs \in SUBSET Name /\ UpwardClosed(base, DOMAIN funs)
  BY NoBaseAssumption DEF TableTypeOK, BasesBuilt, UpwardClosed, Built
<1>2. base[d] \in Name => base[d] \in DOMAIN funs
  BY NoBaseAssumption DEF BasesBuilt, Built
<1>. QED BY <1>1, <1>2 DEF IsSubclass, Ancestors, Built

(* The finished table of the innermost call dispatches to the most derived *)
(* definitions, its own where it has one and its base's elsewhere.         *)
LEMMA FinishedSlot ==
  ASSUME DispatchInv, FinishTable, NEW s \in DOMAIN vec
  PROVE  MostDerived(base, Defs, cur, vec[s].name, vec[s].owner)
<1>. USE DEF DispatchInv
<1>1. cur \in Name /\ base \in BaseMap
  BY TableCur DEF FinishTable, TableTypeOK
<1>2. \A m : Defines(cur, m) <=> m \in Defs[cur]
  BY <1>1 DEF Defines, Defs
<1>3. \A m : Defines(cur, m) => Taken(m)
  <2>1. PICK n \in Nat : DOMAIN methods[cur] = 1..n
    BY <1>1, TableMethods
  <2>2. \A i \in DOMAIN methods[cur] : i < turn
    BY <2>1 DEF FinishTable, TableTypeOK
  <2>. QED BY <2>2 DEF Defines, Taken
<1>4. CASE vec[s].owner = cur /\ Defines(cur, vec[s].name)
  BY <1>1, <1>2, <1>4, OwnDefinition
<1>5. CASE /\ base[cur] # NoBase /\ s \in DOMAIN funs[base[cur]]
           /\ vec[s] = funs[base[cur]][s]
           /\ ~Taken(vec[s].name)
  <2>1. base[cur] \in DOMAIN funs /\ base[cur] \in Name
    BY <1>5 DEF VecInv, FinishTable, Built, TableTypeOK
  <2>a. vec[s] \in Slot
    BY DEF TableTypeOK
  <2>2. vec[s].owner \in Name
    BY <2>a DEF Slot
  <2>3. MostDerived(base, Defs, base[cur], vec[s].name, vec[s].owner)
    BY <1>5, <2>1 DEF VirtualCallsDispatch, IsSubclass
  <2>4. vec[s].name \notin Defs[cur]
    BY <1>2, <1>3, <1>5
  <2>. QED BY <1>1, <2>1, <2>2, <2>3, <2>4, InheritDefinition
<1>. QED BY <1>4, <1>5 DEF VecInv, FinishTable

LEMMA FinishDispatch ==
  ASSUME DispatchInv, FinishTable
  PROVE  VirtualCallsDispatch'
<1>. USE DEF DispatchInv
<1>0. /\ cur \in Name /\ ~Built(cur)
      /\ base \in BaseMap /\ base' = base /\ Defs' = Defs
      /\ DOMAIN funs' = DOMAIN funs \cup {cur}
      /\ funs'[cur] = vec
      /\ \A c \in DOMAIN funs : c # cur /\ c \in Name /\ funs'[c] = funs[c]
      /\ turn # 0
  BY TableCur DEF FinishTable, TableTypeOK, accepted, Defs, Built
<1>. SUFFICES ASSUME NEW c \in DOMAIN funs', NEW d \in DOMAIN funs', IsSubclass(base, d, c),
                     NEW s \in DOMAIN funs'[c]
              PROVE  /\ s \in DOMAIN funs'[d]
                     /\ funs'[d][s].name = funs'[c][s].name
                     /\ MostDerived(base, Defs, d, funs'[d][s].name, funs'[d][s].owner)
  BY <1>0 DEF VirtualCallsDispatch
<1>1. CASE d # cur
  <2>1. d \in DOMAIN funs /\ c \in DOMAIN funs
    BY <1>0, <1>1, AncestorsBuilt DEF Built
  <2>. QED BY <1>0, <2>1 DEF VirtualCallsDispatch
<1>2. CASE d = cur /\ c = cur
  BY <1>0, <1>2, FinishedSlot
<1>3. CASE d = cur /\ c # cur
  <2>1. base[cur] \in Name /\ IsSubclass(base, base[cur], c) /\ c \in DOMAIN funs
    BY <1>0, <1>3, SubclassStep
  <2>2. base[cur] \in DOMAIN funs
    BY <1>0, <2>1, NoBaseAssumption DEF VecInv, Built
  <2>3. /\ s \in DOMAIN funs[base[cur]]
        /\ funs[base[cur]][s].name = funs[c][s].name
    BY <1>0, <2>1, <2>2 DEF VirtualCallsDispatch
  <2>4. s \in DOMAIN vec /\ vec[s].name = funs[c][s].name
    BY <1>0, <2>1, <2>3, NoBaseAssumption DEF VecInv
  <2>. QED BY <1>0, <1>3, <2>1, <2>4, FinishedSlot
<1>. QED BY <1>0, <1>1, <1>2, <1>3

LEMMA DispatchNext == DispatchInv /\ [TableNext]_tableVars => DispatchInv'
<1>. SUFFICES ASSUME DispatchInv, [TableNext]_tableVars PROVE DispatchInv'
  OBVIOUS
<1>1. TableTypeOK' /\ VecInv'
  BY TableTypeNext, VecNext DEF DispatchInv
<1>2. CASE FinishTable
  <2>1. /\ cur \in Name /\ base' = base /\ turn # 0
        /\ DOMAIN funs' = DOMAIN funs \cup {cur}
        /\ funs'[cur] = vec
        /\ \A c \in DOMAIN funs : c # cur /\ funs'[c] = funs[c]
    BY <1>2, TableCur DEF FinishTable, accepted, DispatchInv, Built
  <2>2. BasesBuilt'
    BY <2>1 DEF DispatchInv, BasesBuilt, VecInv, Built
  <2>3. \A c \in DOMAIN funs' : UniqueNames(funs'[c])
    BY <2>1 DEF DispatchInv, VecInv
  <2>4. VirtualCallsDispatch'
    BY <1>2, FinishDispatch
  <2>5. (\A c \in DOMAIN funs : UniqueNames(funs[c]))'
    BY <2>3 DEF UniqueNames
  <2>. QED BY <1>1, <2>2, <2>4, <2>5 DEF DispatchInv
<1>3. CASE ~FinishTable
  <2>1. UNCHANGED <<base, methods, funs>>
    BY <1>3 DEF TableNext, tableVars, accepted, NextTable, GenerateBaseTable, CopyBaseTable,
        ReplaceMethod, AddMethod
  <2>. QED BY <1>1, <2>1 DEF DispatchInv, BasesBuilt, Built, UniqueNames,
      VirtualCallsDispatch, Defs
<1>. QED BY <1>2, <1>3

(* A call finds the slot of the method in the table of the static class    *)
(* and reads it in the table of the object's class: it gets the most       *)
(* derived definition, for every hierarchy and every source order.         *)
THEOREM DispatchCorrect == TableSpec => []VirtualCallsDispatch
<1>1. DispatchInv => VirtualCallsDispatch
  BY DEF DispatchInv
<1>. QED BY DispatchInit, DispatchNext, <1>1, PTL DEF TableSpec

-----------------------------------------------------------------------------
(* The table being filled has the base's methods and those that the loop   *)
(* has come to.                                                            *)
Inherits(c) == IF base[c] # NoBase THEN Names(funs[base[c]]) ELSE {}

VecNames ==
  turn # 0 => Names(vec) = Inherits(cur) \cup
             {methods[cur][i] : i \in {j \in DOMAIN methods[cur] : j < turn}}

CompleteInv ==
  /\ VecNames
  /\ \A c \in DOMAIN funs : Names(funs[c]) = Understood(base, Defs, c)

LEMMA VecNamesNext == DispatchInv /\ VecNames /\ [TableNext]_tableVars => VecNames'
<1>. SUFFICES ASSUME DispatchInv, VecNames, [TableNext]_tableVars PROVE VecNames'
  OBVIOUS
<1>. USE DEF DispatchInv
<1>1. CASE NextTable \/ GenerateBaseTable \/ FinishTable
  BY <1>1 DEF NextTable, GenerateBaseTable, FinishTable, Entering, VecNames, TableTypeOK
<1>2. CASE CopyBaseTable
  <2>1. cur \in Name /\ cur' = cur /\ turn' = 1 /\ UNCHANGED <<base, methods, funs>>
    BY <1>2, TableCur DEF CopyBaseTable, Entering, accepted, cur
  <2>2. {j \in DOMAIN methods[cur] : j < 1} = {}
    BY <2>1, TableMethods
  <2>3. Names(vec)' = Inherits(cur)
    BY <1>2, <2>1 DEF CopyBaseTable, Names, Inherits
  <2>. QED BY <2>1, <2>2, <2>3 DEF VecNames, Inherits, Names
<1>3. CASE ReplaceMethod \/ AddMethod
  <2>1. /\ cur \in Name /\ cur' = cur /\ turn' = turn + 1 /\ turn \in Nat /\ turn # 0
        /\ turn \in DOMAIN methods[cur] /\ UNCHANGED <<base, methods, funs>>
    BY <1>3, TableCur DEF ReplaceMethod, AddMethod, Filling, accepted, cur,
        TableTypeOK
  <2>2. {methods[cur][i] : i \in {j \in DOMAIN methods[cur] : j < turn + 1}} =
          {methods[cur][i] : i \in {j \in DOMAIN methods[cur] : j < turn}} \cup {method}
    <3>1. \A j \in DOMAIN methods[cur] : j \in Nat
      BY <2>1, TableMethods
    <3>. QED BY <2>1, <3>1 DEF method
  <2>3. Names(vec)' = Names(vec) \cup {method}
    <3>1. CASE ReplaceMethod
      <4>. DEFINE t == SlotOf(vec, method)
      <4>1. t \in DOMAIN vec /\ vec[t].name = method /\ vec' = [vec EXCEPT ![t].owner = cur]
        BY <3>1, TableSlot DEF ReplaceMethod
      <4>2. vec \in Seq(Slot) /\ vec[t] \in Slot
        BY <4>1 DEF TableTypeOK
      <4>3. DOMAIN vec' = DOMAIN vec /\ \A s \in DOMAIN vec : vec'[s].name = vec[s].name
        BY <4>1, <4>2 DEF Slot
      <4>. HIDE DEF t
      <4>. QED BY <4>1, <4>3 DEF Names
    <3>2. CASE AddMethod
      <4>1. PICK n \in Nat : n = Len(vec)
        BY DEF TableTypeOK
      <4>2. /\ DOMAIN vec = 1..n /\ DOMAIN vec' = 1..(n + 1)
            /\ vec'[n + 1] = [name |-> method, owner |-> cur]
            /\ \A s \in DOMAIN vec : vec'[s] = vec[s]
        BY <3>2, <4>1 DEF AddMethod, TableTypeOK
      <4>3. DOMAIN vec' = DOMAIN vec \cup {n + 1} /\ vec'[n + 1].name = method
        BY <4>1, <4>2
      <4>. QED BY <4>2, <4>3 DEF Names
    <3>. QED BY <1>3, <3>1, <3>2
  <2>4. Names(vec) = Inherits(cur) \cup
          {methods[cur][i] : i \in {j \in DOMAIN methods[cur] : j < turn}}
    BY <2>1 DEF VecNames
  <2>5. Inherits(cur)' = Inherits(cur)
    BY <2>1 DEF Inherits, Names
  <2>6. Names(vec)' = Inherits(cur) \cup
          {methods[cur][i] : i \in {j \in DOMAIN methods[cur] : j < turn + 1}}
    BY <2>2, <2>3, <2>4
  <2>7. VecNames' <=>
          (turn + 1 # 0 => Names(vec)' = Inherits(cur)' \cup
             {methods[cur][i] : i \in {j \in DOMAIN methods[cur] : j < turn + 1}})
    BY <2>1 DEF VecNames
  <2>. QED BY <2>5, <2>6, <2>7
<1>4. CASE UNCHANGED tableVars
  <2>1. /\ turn' = turn /\ cur' = cur /\ methods' = methods /\ Names(vec)' = Names(vec)
        /\ Inherits(cur)' = Inherits(cur)
    BY <1>4 DEF tableVars, accepted, Inherits, Names, cur
  <2>2. VecNames' <=>
          (turn' # 0 => Names(vec)' = Inherits(cur)' \cup
             {methods'[cur'][i] : i \in {j \in DOMAIN methods'[cur'] : j < turn'}})
    BY DEF VecNames
  <2>. QED BY <2>1, <2>2 DEF VecNames
<1>. QED BY <1>1, <1>2, <1>3, <1>4 DEF TableNext

(* The finished table has all methods of the class and its bases.          *)
LEMMA FinishedNames ==
  ASSUME DispatchInv, CompleteInv, FinishTable
  PROVE  Names(vec) = Understood(base, Defs, cur)
<1>. USE DEF DispatchInv
<1>1. cur \in Name /\ base \in BaseMap /\ turn # 0
  BY TableCur DEF FinishTable, TableTypeOK
<1>2. {methods[cur][i] : i \in {j \in DOMAIN methods[cur] : j < turn}} = Defs[cur]
  <2>1. PICK n \in Nat : DOMAIN methods[cur] = 1..n
    BY <1>1, TableMethods
  <2>2. \A i \in DOMAIN methods[cur] : i < turn
    BY <2>1 DEF FinishTable, TableTypeOK
  <2>. QED BY <1>1, <2>2 DEF Defs
<1>3. Inherits(cur) =
        IF base[cur] \in Name THEN Understood(base, Defs, base[cur]) ELSE {}
  BY <1>1, NoBaseAssumption DEF Inherits, CompleteInv, VecInv, Built, BaseMap
<1>4. Names(vec) = Inherits(cur) \cup Defs[cur]
  BY <1>1, <1>2 DEF CompleteInv, VecNames
<1>. QED BY <1>1, <1>3, <1>4, UnderstoodStep

LEMMA CompleteNext == DispatchInv /\ CompleteInv /\ [TableNext]_tableVars => CompleteInv'
<1>. SUFFICES ASSUME DispatchInv, CompleteInv, [TableNext]_tableVars PROVE CompleteInv'
  OBVIOUS
<1>1. VecNames'
  BY VecNamesNext DEF CompleteInv
<1>2. CASE FinishTable
  <2>1. /\ cur \in Name /\ base' = base /\ Defs' = Defs
        /\ DOMAIN funs' = DOMAIN funs \cup {cur}
        /\ funs'[cur] = vec
        /\ \A c \in DOMAIN funs : c # cur /\ funs'[c] = funs[c]
    BY <1>2, TableCur DEF FinishTable, accepted, DispatchInv, Built, Defs
  <2>2. \A c \in DOMAIN funs' : Names(funs'[c]) = Understood(base, Defs, c)
    BY <1>2, <2>1, FinishedNames DEF CompleteInv
  <2>. QED BY <1>1, <2>1, <2>2 DEF CompleteInv, Names
<1>3. CASE ~FinishTable
  <2>1. UNCHANGED <<base, methods, funs>>
    BY <1>3 DEF TableNext, tableVars, accepted, NextTable, GenerateBaseTable, CopyBaseTable,
        ReplaceMethod, AddMethod
  <2>2. Defs' = Defs
    BY <2>1 DEF Defs
  <2>. QED BY <1>1, <2>1, <2>2 DEF CompleteInv, Names
<1>. QED BY <1>2, <1>3

LEMMA CompleteInit == TableInit => CompleteInv
  BY DEF TableInit, CompleteInv, VecNames

(* No method of a class or of its bases is missing from its table, and the *)
(* linear searches of getFunction and getFunctionPtr find the only match.  *)
THEOREM CompleteTables == TableSpec => []TablesAreComplete
<1>1. DispatchInv /\ CompleteInv => TablesAreComplete
  BY DEF DispatchInv, CompleteInv, TablesAreComplete, UniqueNames
<1>. QED
  BY DispatchInit, DispatchNext, CompleteInit, CompleteNext, <1>1, PTL DEF TableSpec

-----------------------------------------------------------------------------
(* The new table is the one Build makes: its owners are the most derived   *)
(* definitions, and these are unique.                                      *)
AbstractTable(table) == [m \in Names(table) |-> table[SlotOf(table, m)].owner]

LEMMA SameHierarchy ==
  /\ Dispatch!BaseMap = BaseMap /\ (Dispatch!Acyclic(base) <=> Acyclic(base))
  /\ \A c \in Name : Dispatch!Understood(base, Defs, c) = Understood(base, Defs, c)
  /\ \A c, d \in Name : \A m :
       Dispatch!MostDerived(base, Defs, c, m, d) <=> MostDerived(base, Defs, c, m,
       d)
<1>1. Dispatch!BaseMap = BaseMap /\ (Dispatch!Acyclic(base) <=> Acyclic(base))
  BY DEF Dispatch!BaseMap, BaseMap, Dispatch!Acyclic, Acyclic, Dispatch!Closed,
      Closed
<1>2. \A c : Dispatch!Ancestors(base, c) = Ancestors(base, c)
  BY DEF Dispatch!Ancestors, Ancestors, Dispatch!UpwardClosed, UpwardClosed
<1>3. \A c, a : Dispatch!IsSubclass(base, c, a) <=> IsSubclass(base, c, a)
  BY <1>2 DEF Dispatch!IsSubclass, IsSubclass
<1>. QED BY <1>1, <1>3 DEF Dispatch!Understood, Understood, Dispatch!MostDerived,
    MostDerived

LEMMA FinishBuilds ==
  ASSUME DispatchInv, CompleteInv, FinishTable
  PROVE  AbstractTable(vec) =
           [m \in Dispatch!Understood(base, Defs, cur) |->
              CHOOSE d \in Name : Dispatch!MostDerived(base, Defs, cur, m, d)]
<1>1. Names(vec) = Understood(base, Defs, cur)
  BY FinishedNames
<1>2. base \in BaseMap /\ Acyclic(base) /\ cur \in Name
  BY TableCur DEF DispatchInv, TableTypeOK, FinishTable
<1>3. ASSUME NEW m \in Names(vec)
      PROVE  vec[SlotOf(vec, m)].owner =
               CHOOSE d \in Name : Dispatch!MostDerived(base, Defs, cur, m, d)
  <2>1. HasSlot(vec, m)
    BY <1>3 DEF Names, HasSlot
  <2>2. PICK s \in DOMAIN vec : s = SlotOf(vec, m) /\ vec[s].name = m
    BY <2>1, TableSlot
  <2>3. vec[s] \in Slot
    BY DEF DispatchInv, TableTypeOK
  <2>4. vec[s].owner \in Name
    BY <2>3 DEF Slot
  <2>5. MostDerived(base, Defs, cur, m, vec[s].owner)
    BY <2>2, FinishedSlot
  <2>6. \A d \in Name : MostDerived(base, Defs, cur, m, d) => d = vec[s].owner
    BY <1>2, <2>4, <2>5, MostDerivedUnique
  <2>7. \A d \in Name : Dispatch!MostDerived(base, Defs, cur, m, d) <=> d = vec[s].owner
    BY <1>2, <2>5, <2>6, SameHierarchy
  <2>8. (CHOOSE d \in Name : Dispatch!MostDerived(base, Defs, cur, m, d)) = vec[s].owner
    BY <2>4, <2>7
  <2>. QED BY <2>2, <2>8
<1>4. Dispatch!Understood(base, Defs, cur) = Names(vec)
  BY <1>1, <1>2, SameHierarchy
<1>. QED BY <1>3, <1>4 DEF AbstractTable

LEMMA StepBuilds ==
  ASSUME DispatchInv, CompleteInv, [TableNext]_tableVars
  PROVE  [Dispatch!Next]_<<base, Defs, tables>>
<1>1. CASE FinishTable
  <2>1. /\ cur \in Name /\ cur \notin DOMAIN funs
        /\ base' = base /\ Defs' = Defs
        /\ DOMAIN funs' = DOMAIN funs \cup {cur}
        /\ funs'[cur] = vec
        /\ \A c \in DOMAIN funs : c # cur /\ funs'[c] = funs[c]
        /\ base[cur] # NoBase => base[cur] \in DOMAIN funs
    BY <1>1, TableCur DEF FinishTable, accepted, DispatchInv, VecInv, Built, Defs
  <2>2. AbstractTable(vec) =
          [m \in Dispatch!Understood(base, Defs, cur) |->
             CHOOSE d \in Name : Dispatch!MostDerived(base, Defs, cur, m, d)]
    BY <1>1, FinishBuilds
  <2>3. /\ DOMAIN tables = DOMAIN funs
        /\ \A c \in DOMAIN funs : tables[c] = AbstractTable(funs[c])
    BY DEF tables, AbstractTable
  <2>4. tables' = [c \in DOMAIN funs' |-> AbstractTable(funs'[c])]
    BY DEF tables, AbstractTable, Names, SlotOf
  <2>5. tables' = [x \in DOMAIN tables \cup {cur} |->
                     IF x = cur THEN AbstractTable(vec) ELSE tables[x]]
    BY <2>1, <2>3, <2>4
  <2>6. Dispatch!Build(cur)
    BY <2>1, <2>2, <2>3, <2>5 DEF Dispatch!Build
  <2>. QED BY <2>1, <2>6 DEF Dispatch!Next
<1>2. CASE ~FinishTable
  <2>1. UNCHANGED <<base, methods, funs>>
    BY <1>2 DEF TableNext, tableVars, accepted, NextTable, GenerateBaseTable, CopyBaseTable,
        ReplaceMethod, AddMethod
  <2>. QED BY <2>1 DEF Defs, tables, Names, SlotOf
<1>. QED BY <1>1, <1>2

(* The recursive, memoised generation of slots only takes steps of the     *)
(* abstract tables: the safety half of ImplementsDispatchTables, for every *)
(* forest, source order and list of methods.                               *)
THEOREM RefinesDispatchTables ==
  TableSpec => Dispatch!Init /\ [][Dispatch!Next]_<<base, Defs, tables>>
<1>1. TableInit => Dispatch!Init
  <2>. SUFFICES ASSUME TableInit PROVE Dispatch!Init
    OBVIOUS
  <2>1. Defs \in [Name -> SUBSET MethodName]
    <3>1. \A c \in Name : methods[c] \in Rows(MethodName)
      BY DEF TableInit
    <3>2. ASSUME NEW c \in Name, NEW i \in DOMAIN methods[c] PROVE methods[c][i] \in MethodName
      BY <3>1, TableRowShape, FiniteMethodNames
    <3>. QED BY <3>2 DEF Defs
  <2>2. tables = <<>>
    <3>1. DOMAIN funs = {}
      BY DEF TableInit
    <3>. QED BY <3>1 DEF tables
  <2>. QED BY <2>1, <2>2, SameHierarchy DEF TableInit, Dispatch!Init
<1>2. DispatchInv /\ CompleteInv /\ [TableNext]_tableVars =>
        DispatchInv' /\ CompleteInv' /\ [Dispatch!Next]_<<base, Defs, tables>>
  BY DispatchNext, CompleteNext, StepBuilds
<1>. QED BY <1>1, <1>2, DispatchInit, CompleteInit, PTL DEF TableSpec
=============================================================================
