---------------------------- MODULE Constructor ----------------------------
(***************************************************************************)
(* Constructor::generate: one constructor function per class, emitted for  *)
(* the classes in source order.  The constructor of a class calls the one  *)
(* of its base, so generate recurses to the base when the class is written *)
(* first.  All emission goes through one IRBuilder, whose insertion point  *)
(* every call of generate moves to the block it creates.                   *)
(***************************************************************************)
EXTENDS AcceptedProgram

VARIABLES
  next,     \* the class the loop of genClasses is at
  frames,   \* the active calls of generate: class and program counter
  block,    \* for each constructor function that exists, its one block
  insert    \* the constructor whose block the builder inserts into

vars == <<base, order, next, frames, block, insert>>

(* The instructions that tell constructors apart; "of" is the class whose  *)
(* generate emitted it, so also the function whose argument it uses.       *)
Instr == [op : {"call_base", "set_vptr", "ret"}, of : Name]
I(op, c) == [op |-> op, of |-> c]

Frame == [cls : Name, pc : {"enter", "base", "call", "vptr"}]
F(c, pc) == [cls |-> c, pc |-> pc]

Init ==
  /\ base \in BaseMap /\ Acyclic(base)
  /\ order \in SourceOrders
  /\ next = 1
  /\ frames = <<>>
  /\ block = <<>>
  /\ insert = NoBase

top == frames[Len(frames)]
cname == top.cls
At(pc) == frames # <<>> /\ top.pc = pc
Goto(pc) == [frames EXCEPT ![Len(frames)].pc = pc]
Return == SubSeq(frames, 1, Len(frames) - 1)
Exists(c) == c \in DOMAIN block

Emit(code) == block' = [block EXCEPT ![insert] = @ \o code]

-----------------------------------------------------------------------------
NextClass ==
  /\ frames = <<>> /\ next \in DOMAIN order
  /\ frames' = <<F(order[next], "enter")>>
  /\ next' = next + 1
  /\ UNCHANGED <<program, block, insert>>

DontRepeat ==
  /\ At("enter") /\ Exists(cname)
  /\ frames' = Return
  /\ UNCHANGED <<program, next, block, insert>>

(* Mutant: the builder is not moved to the new block.                      *)
StayInBlock ==
  /\ At("enter") /\ ~Exists(cname)
  /\ block' = [c \in DOMAIN block \cup {cname} |-> IF c = cname THEN <<>> ELSE block[c]]
  /\ insert' = IF insert = NoBase THEN cname ELSE insert
  /\ frames' = Goto("base")
  /\ UNCHANGED <<program, next>>

(* Mutant: the function is made only once its base's exists.               *)
StartAfterBase ==
  /\ At("enter") /\ ~Exists(cname)
  /\ base[cname] # NoBase => Exists(base[cname])
  /\ block' = [c \in DOMAIN block \cup {cname} |-> IF c = cname THEN <<>> ELSE block[c]]
  /\ insert' = cname
  /\ frames' = Goto("base")
  /\ UNCHANGED <<program, next>>

(* The function and its block are made and the builder moves there.        *)
StartEmitting ==
  /\ At("enter") /\ ~Exists(cname)
  /\ block' = [c \in DOMAIN block \cup {cname} |-> IF c = cname THEN <<>> ELSE block[c]]
  /\ insert' = cname
  /\ frames' = Goto("base")
  /\ UNCHANGED <<program, next>>

NoBaseCall ==
  /\ At("base") /\ base[cname] = NoBase
  /\ frames' = Goto("vptr")
  /\ UNCHANGED <<program, next, block, insert>>

GenerateBase ==
  /\ At("base") /\ base[cname] # NoBase
  /\ frames' = Append(Goto("call"), F(base[cname], "enter"))
  /\ UNCHANGED <<program, next, block, insert>>

(* Mutant: the base's constructor is called after the vptr is set.         *)
CallBaseLast ==
  /\ At("call")
  /\ Emit(<<I("set_vptr", cname), I("call_base", cname), I("ret", cname)>>)
  /\ frames' = Return
  /\ UNCHANGED <<program, next, insert>>

CallBase ==
  /\ At("call")
  /\ Emit(<<I("call_base", cname)>>)
  /\ frames' = Goto("vptr")
  /\ UNCHANGED <<program, next, insert>>

SetVptrAndReturn ==
  /\ At("vptr")
  /\ Emit(<<I("set_vptr", cname), I("ret", cname)>>)
  /\ frames' = Return
  /\ UNCHANGED <<program, next, insert>>

Next ==
  \/ NextClass \/ DontRepeat \/ StartEmitting \/ NoBaseCall
  \/ GenerateBase \/ CallBase \/ SetVptrAndReturn

Spec == Init /\ [][Next]_vars

(* One thread runs the loop of genClasses to its end.                      *)
FairSpec == Spec /\ WF_vars(Next)

-----------------------------------------------------------------------------
Done == frames = <<>> /\ next \notin DOMAIN order

(* The code a constructor is meant to have, and nothing else.              *)
Proper(c) ==
  block[c] = (IF base[c] = NoBase THEN <<>> ELSE <<I("call_base", c)>>)
               \o <<I("set_vptr", c), I("ret", c)>>

Place(c) == CHOOSE i \in DOMAIN order : order[i] = c

(* a class that derives from c, directly or not, is written before p       *)
DerivedBefore(c, p) == \E d \in Name : c \in Ancestors(base, d) /\ Place(d) < p

-----------------------------------------------------------------------------
(* Types, and the shape of the recursion: calls go up the chain of bases,  *)
(* and a call past its entry has made its function.                        *)
TypeOK ==
  /\ base \in BaseMap /\ Acyclic(base)
  /\ order \in SourceOrders
  /\ next \in Nat
  /\ frames \in Seq(Frame)
  /\ \A i \in DOMAIN frames : i > 1 => frames[i].cls = base[frames[i - 1].cls]
  /\ \A i \in DOMAIN frames : frames[i].pc # "enter" => Exists(frames[i].cls)
  /\ \A i \in DOMAIN frames : i < Len(frames) => frames[i].pc = "call"
  /\ DOMAIN block \subseteq Name
  /\ \A c \in DOMAIN block : block[c] \in Seq(Instr)
  /\ insert \in DOMAIN block \cup {NoBase}
  /\ (insert = NoBase) <=> (DOMAIN block = {})

Finished(c) == Exists(c) /\ \A i \in DOMAIN frames : frames[i].cls # c

(* When every class is written after its base, each constructor that is    *)
(* finished calls its base's constructor first, then sets its own vptr,    *)
(* then returns, all in its own block.                                     *)
ProperWhenBaseFirst ==
  BaseFirst(base, order) => \A c \in Name : Finished(c) => Proper(c)

(* In any order: a constructor comes out right exactly when no derived     *)
(* class was written before the class, and the base's constructor had been *)
(* generated, for the base or for another class derived from it, by then.  *)
ProperExactly ==
  Done => \A c \in Name : Proper(c) <=>
    /\ ~DerivedBefore(c, Place(c))
    /\ \/ base[c] = NoBase
       \/ Place(base[c]) < Place(c)
       \/ DerivedBefore(base[c], Place(c))

(* Whatever the order, the recursion ends and no class is left without a   *)
(* constructor function.                                                   *)
AllGenerated == <>(Done /\ DOMAIN block = Name)

(* The comments of generate, "Call base's constructor first" and "let vptr *)
(* point to its own vtable": every constructor does, in any order.         *)
BaseConstructedFirst == Done => \A c \in Name : Proper(c)
=============================================================================
