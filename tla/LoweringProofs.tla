-------------------------- MODULE LoweringProofs --------------------------
(***************************************************************************)
(* For method bodies of any size: the two visitors agree about the loops   *)
(* that are open, the builder always inserts into a block that exists,     *)
(* hasRet tells the truth, no branch leads to a block that is not in the   *)
(* function, and exactly which bodies are emitted with one terminator at   *)
(* the end of every block; and the branches of those take control where    *)
(* the statements do.                                                      *)
(***************************************************************************)
EXTENDS Lowering, FiniteSetTheorems, SequenceTheorems, WellFoundedInduction, TLAPS

(* Inserting is possible.                                                  *)
Good(s) == s \in IR /\ s.at \in 1..Len(s.blocks)

(* The blocks a construct has in store are there.                          *)
HasBlocks(fs, n) ==
  \A i \in DOMAIN fs : fs[i].kind # "block" => fs[i].back \in 1..n /\ fs[i].out \in 1..n

LoopsOf(fs) == {i \in DOMAIN fs : fs[i].kind = "loop"}
Upto(fs, i) == {j \in LoopsOf(fs) : j <= i}

ExitsMatch(fs, xs, n) ==
  /\ n = Cardinality(LoopsOf(fs)) /\ Len(xs) = n
  /\ \A i \in LoopsOf(fs) : xs[Cardinality(Upto(fs, i))] = fs[i].out

(* Two lists of constructs with the same loops.                            *)
SameLoops(fs, gs) ==
  /\ LoopsOf(fs) = LoopsOf(gs)
  /\ \A i \in LoopsOf(fs) : fs[i].out = gs[i].out

-----------------------------------------------------------------------------
(* The builder.                                                            *)
LEMMA InstrTypes ==
  /\ Point \in Instr /\ Ret \in Instr
  /\ \A T \in SUBSET Nat : Br(T) \in Instr
BY DEF Point, Ret, Br, Instr

LEMMA PutGood ==
  ASSUME NEW s, Good(s), NEW i \in Instr
  PROVE  Good(Put(s, i)) /\ Len(Put(s, i).blocks) = Len(s.blocks) /\ Put(s, i).at = s.at
<1>. DEFINE b == s.blocks[s.at]
            c == [b EXCEPT !.code = Append(@, i)]
<1>1. s.blocks \in Seq(BasicBlock) /\ s.at \in Nat /\ s.at \in 1..Len(s.blocks)
  BY DEF Good, IR
<1>2. b \in BasicBlock
  BY <1>1, ElementOfSeq
<1>3. c \in BasicBlock
  <2>1. b.code \in Seq(Instr) /\ b.placed \in BOOLEAN /\ b = [code |-> b.code, placed |-> b.placed]
    BY <1>2 DEF BasicBlock
  <2>2. Append(b.code, i) \in Seq(Instr)
    BY <2>1, AppendProperties
  <2>3. c = [code |-> Append(b.code, i), placed |-> b.placed]
    <3>. HIDE DEF b
    <3>. QED BY <2>1
  <2>. QED BY <2>1, <2>2, <2>3 DEF BasicBlock
<1>4. Put(s, i) = [s EXCEPT !.blocks = [s.blocks EXCEPT ![s.at] = c]]
  BY <1>1 DEF Put, Good, IR
<1>5. /\ [s.blocks EXCEPT ![s.at] = c] \in Seq(BasicBlock)
      /\ Len([s.blocks EXCEPT ![s.at] = c]) = Len(s.blocks)
  BY <1>1, <1>3, ExceptSeq
<1>6. s = [blocks |-> s.blocks, at |-> s.at]
  BY DEF Good, IR
<1>7. Put(s, i) = [blocks |-> [s.blocks EXCEPT ![s.at] = c], at |-> s.at]
  BY <1>4, <1>6
<1>. QED BY <1>1, <1>5, <1>7 DEF Good, IR

LEMMA CreateGood ==
  ASSUME NEW s, Good(s), NEW p \in BOOLEAN
  PROVE  Good(Create(s, p)) /\ Len(Create(s, p).blocks) = Len(s.blocks) + 1
<1>. DEFINE b == [code |-> <<>>, placed |-> p]
<1>1. s.blocks \in Seq(BasicBlock) /\ s.at \in Nat /\ s.at \in 1..Len(s.blocks)
  BY DEF Good, IR
<1>2. b \in BasicBlock
  BY DEF BasicBlock
<1>3. Append(s.blocks, b) \in Seq(BasicBlock) /\ Len(Append(s.blocks, b)) = Len(s.blocks) + 1
  BY <1>1, <1>2, AppendProperties
<1>4. Create(s, p) = [blocks |-> Append(s.blocks, b), at |-> s.at]
  <2>1. s = [blocks |-> s.blocks, at |-> s.at]
    BY DEF Good, IR
  <2>2. Create(s, p) = [s EXCEPT !.blocks = Append(s.blocks, b)]
    BY DEF Create
  <2>. HIDE DEF b
  <2>. QED BY <2>1, <2>2
<1>. QED BY <1>1, <1>3, <1>4 DEF Good, IR

LEMMA PlaceAtGood ==
  ASSUME NEW s, Good(s), NEW b \in 1..Len(s.blocks)
  PROVE  Good(PlaceAt(s, b)) /\ Len(PlaceAt(s, b).blocks) = Len(s.blocks)
<1>. DEFINE c == [s.blocks[b] EXCEPT !.placed = TRUE]
<1>1. s.blocks \in Seq(BasicBlock)
  BY DEF Good, IR
<1>2. s.blocks[b] \in BasicBlock
  BY <1>1, ElementOfSeq
<1>3. c \in BasicBlock
  BY <1>2 DEF BasicBlock
<1>4. /\ [s.blocks EXCEPT ![b] = c] \in Seq(BasicBlock)
      /\ Len([s.blocks EXCEPT ![b] = c]) = Len(s.blocks)
  BY <1>1, <1>3, ExceptSeq
<1>5. PlaceAt(s, b) = [blocks |-> [s.blocks EXCEPT ![b] = c], at |-> b]
  BY DEF PlaceAt
<1>6. b \in Nat
  BY <1>1, LenProperties
<1>. QED BY <1>4, <1>5, <1>6 DEF Good, IR

LEMMA SetInsertPointGood ==
  ASSUME NEW s, Good(s), NEW b \in 1..Len(s.blocks)
  PROVE  Good(SetInsertPoint(s, b)) /\ Len(SetInsertPoint(s, b).blocks) = Len(s.blocks)
<1>1. s.blocks \in Seq(BasicBlock)
  BY DEF Good, IR
<1>2. b \in Nat
  BY <1>1, LenProperties
<1>3. SetInsertPoint(s, b) = [blocks |-> s.blocks, at |-> b]
  BY DEF SetInsertPoint, Good, IR
<1>. QED BY <1>1, <1>2, <1>3 DEF Good, IR

LEMMA GoodLen == ASSUME NEW s, Good(s) PROVE Len(s.blocks) \in Nat /\ Fresh(s) = Len(s.blocks) + 1
BY LenProperties DEF Good, IR, Fresh

LEMMA EvalGood ==
  ASSUME NEW s, Good(s), NEW e
  PROVE  Good(Eval(s, e)) /\ Len(Eval(s, e).blocks) >= Len(s.blocks)
<1>. DEFINE t   == Put(s, Point)
            chk == Fresh(t)
            s0  == Create(Create(t, TRUE), FALSE)
            s1  == Put(s0, Br({chk, chk + 1}))
            s2  == Put(SetInsertPoint(s1, chk), Br({chk + 1}))
<1>1. Good(t) /\ Len(t.blocks) = Len(s.blocks) /\ Len(s.blocks) \in Nat
  BY PutGood, InstrTypes, GoodLen
<1>2. chk \in Nat /\ chk = Len(t.blocks) + 1
  BY <1>1, GoodLen
<1>3. Good(s0) /\ Len(s0.blocks) = chk + 1
  <2>1. Good(Create(t, TRUE)) /\ Len(Create(t, TRUE).blocks) = chk
    BY <1>1, <1>2, CreateGood
  <2>. QED BY <2>1, CreateGood
<1>4. Br({chk, chk + 1}) \in Instr /\ Br({chk + 1}) \in Instr
  <2>1. {chk, chk + 1} \in SUBSET Nat /\ {chk + 1} \in SUBSET Nat
    BY <1>2
  <2>. QED BY <2>1, InstrTypes
<1>. HIDE DEF t, chk, s0
<1>5. Good(s1) /\ Len(s1.blocks) = chk + 1
  BY <1>3, <1>4, PutGood
<1>6. chk \in 1..Len(s1.blocks) /\ chk + 1 \in 1..Len(s1.blocks)
  BY <1>1, <1>2, <1>5
<1>. HIDE DEF s1
<1>7. Good(SetInsertPoint(s1, chk)) /\ Len(SetInsertPoint(s1, chk).blocks) = chk + 1
  BY <1>5, <1>6, SetInsertPointGood
<1>8. Good(s2) /\ Len(s2.blocks) = chk + 1
  BY <1>7, <1>4, PutGood
<1>. HIDE DEF s2
<1>9. Good(PlaceAt(s2, chk + 1)) /\ Len(PlaceAt(s2, chk + 1).blocks) = chk + 1
  BY <1>5, <1>6, <1>8, PlaceAtGood
<1>10. CheckArray(t) = PlaceAt(s2, chk + 1)
  BY DEF CheckArray, s2, s1, s0, chk
<1>11. Eval(s, e) = t \/ Eval(s, e) = CheckArray(t)
  BY DEF Eval, t
<1>. QED BY <1>1, <1>2, <1>9, <1>10, <1>11

-----------------------------------------------------------------------------
(* The list of open constructs.                                            *)
LEMMA FrameTypes ==
  ASSUME NEW kind \in {"block", "then", "else", "loop"}, NEW back \in Nat, NEW out \in Nat,
         NEW cond \in Place, NEW ends \in SUBSET Place, NEW update \in {"none"} \cup Exprs
  PROVE  F(kind, back, out, cond, ends, update) \in Frame
BY DEF F, Frame, Returns

(* The rest of the list when the construct on top ends.                    *)
LEMMA OuterShape ==
  ASSUME open \in Seq(Frame), Len(open) > 1
  PROVE  /\ Outer \in Seq(Frame) /\ Len(Outer) = Len(open) - 1 /\ Outer # <<>>
         /\ \A i \in 1..Len(Outer) : Outer[i] = open[i]
<1>1. Len(open) \in Nat /\ \A i \in 1..(Len(open) - 1) : open[i] \in Frame
  BY ElementOfSeq, LenProperties
<1>2. /\ Outer \in Seq(Frame) /\ Len(Outer) = Len(open) - 1
      /\ \A i \in 1..(Len(open) - 1) : SubSeq(open, 1, Len(open) - 1)[i] = open[1 + i - 1]
  BY <1>1, SubSeqProperties DEF Outer
<1>3. \A i \in 1..(Len(open) - 1) : Outer[i] = open[i]
  BY <1>1, <1>2 DEF Outer
<1>4. Outer # <<>>
  BY <1>1, <1>2
<1>. QED BY <1>1, <1>2, <1>3, <1>4

(* Noting that a statement inside is complete changes nothing else.        *)
LEMMA EndsShape ==
  ASSUME NEW fs \in Seq(Frame), fs # <<>>, NEW r \in Returns
  PROVE  /\ Ends(fs, r) \in Seq(Frame) /\ Len(Ends(fs, r)) = Len(fs)
         /\ Ends(fs, r)[Len(fs)].done = r
         /\ \A i \in 1..Len(fs) :
              /\ Ends(fs, r)[i].kind = fs[i].kind
              /\ Ends(fs, r)[i].back = fs[i].back
              /\ Ends(fs, r)[i].out = fs[i].out
              /\ Ends(fs, r)[i].thenRet = fs[i].thenRet
              /\ Ends(fs, r)[i].ends = fs[i].ends
              /\ Ends(fs, r)[i].cond = fs[i].cond
<1>. DEFINE n == Len(fs)
            g == [fs[n] EXCEPT !.done = r]
<1>1. n \in 1..n
  BY EmptySeq
<1>2. fs[n] \in Frame
  BY <1>1, ElementOfSeq
<1>3. g \in Frame
  BY <1>2 DEF Frame
<1>4. Ends(fs, r) = [fs EXCEPT ![n] = g]
  BY DEF Ends
<1>5. /\ g.done = r /\ g.kind = fs[n].kind /\ g.back = fs[n].back /\ g.out = fs[n].out
      /\ g.thenRet = fs[n].thenRet /\ g.ends = fs[n].ends /\ g.cond = fs[n].cond
  BY <1>2 DEF Frame
<1>. HIDE DEF g
<1>. QED BY <1>1, <1>3, <1>4, <1>5, ExceptSeq

(* Constructs to come back to are not touched by what only reads           *)
(* completions.                                                            *)
LEMMA SameKinds ==
  ASSUME NEW fs \in Seq(Frame), NEW gs \in Seq(Frame), Len(fs) = Len(gs), NEW n \in Nat, NEW m \in Nat,
         HasBlocks(fs, n), n <= m,
         \A i \in 1..Len(fs) : gs[i].kind = fs[i].kind /\ gs[i].back = fs[i].back /\ gs[i].out = fs[i].out
  PROVE  HasBlocks(gs, m) /\ SameLoops(fs, gs)
<1>1. DOMAIN fs = 1..Len(fs) /\ DOMAIN gs = 1..Len(fs)
  BY LenProperties
<1>. QED BY <1>1 DEF HasBlocks, SameLoops, LoopsOf

LEMMA LoopsFinite ==
  ASSUME NEW fs \in Seq(Frame)
  PROVE  IsFiniteSet(LoopsOf(fs)) /\ Cardinality(LoopsOf(fs)) \in Nat
<1>1. DOMAIN fs = 1..Len(fs) /\ Len(fs) \in Nat
  BY LenProperties
<1>2. IsFiniteSet(1..Len(fs))
  BY <1>1, FS_Interval
<1>3. LoopsOf(fs) \in SUBSET (1..Len(fs))
  BY <1>1 DEF LoopsOf
<1>. QED BY <1>2, <1>3, FS_Subset, FS_CardinalityType

LEMMA ExitsSame ==
  ASSUME NEW fs, NEW gs, SameLoops(fs, gs), NEW xs, NEW n, ExitsMatch(fs, xs, n)
  PROVE  ExitsMatch(gs, xs, n)
<1>1. \A i : Upto(gs, i) = Upto(fs, i)
  BY DEF Upto, SameLoops
<1>. QED BY <1>1 DEF ExitsMatch, SameLoops

(* The position of a loop among the loops.                                 *)
LEMMA UptoBounds ==
  ASSUME NEW fs \in Seq(Frame), NEW i \in LoopsOf(fs)
  PROVE  Cardinality(Upto(fs, i)) \in 1..Cardinality(LoopsOf(fs))
<1>1. IsFiniteSet(LoopsOf(fs)) /\ Cardinality(LoopsOf(fs)) \in Nat
  BY LoopsFinite
<1>2. Upto(fs, i) \in SUBSET LoopsOf(fs)
  BY DEF Upto
<1>3. /\ IsFiniteSet(Upto(fs, i)) /\ Cardinality(Upto(fs, i)) \in Nat
      /\ Cardinality(Upto(fs, i)) <= Cardinality(LoopsOf(fs))
  BY <1>1, <1>2, FS_Subset, FS_CardinalityType
<1>4. i \in Upto(fs, i)
  BY LenProperties DEF Upto, LoopsOf
<1>5. Cardinality(Upto(fs, i)) # 0
  BY <1>3, <1>4, FS_EmptySet
<1>. QED BY <1>1, <1>3, <1>5

(* A construct that is no loop is opened.                                  *)
LEMMA ExitsOther ==
  ASSUME NEW fs \in Seq(Frame), NEW f \in Frame, f.kind # "loop"
  PROVE  SameLoops(fs, Append(fs, f))
<1>1. /\ Append(fs, f) \in Seq(Frame) /\ Len(Append(fs, f)) = Len(fs) + 1
      /\ \A i \in 1..Len(fs) : Append(fs, f)[i] = fs[i]
      /\ Append(fs, f)[Len(fs) + 1] = f
  BY AppendProperties
<1>2. /\ DOMAIN fs = 1..Len(fs) /\ Len(fs) \in Nat
      /\ DOMAIN Append(fs, f) = 1..(Len(fs) + 1)
  BY <1>1, LenProperties
<1>. QED BY <1>1, <1>2 DEF SameLoops, LoopsOf

(* A loop is opened, with its exit.                                        *)
LEMMA ExitsPush ==
  ASSUME NEW fs \in Seq(Frame), NEW f \in Frame, f.kind = "loop",
         NEW xs \in Seq(Nat), NEW n \in Nat, ExitsMatch(fs, xs, n)
  PROVE  ExitsMatch(Append(fs, f), Append(xs, f.out), n + 1)
<1>. DEFINE gs == Append(fs, f)
            ys == Append(xs, f.out)
            top1 == Len(fs) + 1
<1>1. /\ gs \in Seq(Frame) /\ Len(gs) = top1
      /\ \A i \in 1..Len(fs) : gs[i] = fs[i]
      /\ gs[top1] = f
  BY AppendProperties
<1>2. DOMAIN fs = 1..Len(fs) /\ Len(fs) \in Nat /\ DOMAIN gs = 1..top1
  BY <1>1, LenProperties
<1>3. LoopsOf(gs) = LoopsOf(fs) \cup {top1} /\ top1 \notin LoopsOf(fs)
  BY <1>1, <1>2 DEF LoopsOf
<1>4. n = Cardinality(LoopsOf(fs)) /\ Len(xs) = n
  BY DEF ExitsMatch
<1>5. Cardinality(LoopsOf(gs)) = n + 1
  <2>1. IsFiniteSet(LoopsOf(fs))
    BY LoopsFinite
  <2>. HIDE DEF gs, top1
  <2>2. Cardinality(LoopsOf(fs) \cup {top1}) = Cardinality(LoopsOf(fs)) + 1
    BY <2>1, <1>3, FS_AddElement
  <2>. QED BY <2>2, <1>3, <1>4
<1>6. f.out \in Nat
  BY DEF Frame
<1>7. /\ Len(ys) = n + 1 /\ ys[n + 1] = f.out
      /\ \A i \in 1..n : ys[i] = xs[i]
  BY SMTT(30), <1>4, <1>6, AppendProperties
<1>8. ASSUME NEW i \in LoopsOf(gs)
      PROVE  ys[Cardinality(Upto(gs, i))] = gs[i].out
  <2>. HIDE DEF gs, ys, top1
  <2>1. CASE i = top1
    <3>1. Upto(gs, i) = LoopsOf(gs)
      BY <1>2, <2>1 DEF Upto, LoopsOf
    <3>. QED BY <3>1, <2>1, <1>1, <1>5, <1>7
  <2>2. CASE i # top1
    <3>1. i \in LoopsOf(fs) /\ i \in 1..Len(fs)
      BY <2>2, <1>2, <1>3 DEF LoopsOf
    <3>2. Upto(gs, i) = Upto(fs, i)
      BY <3>1, <1>2, <1>3 DEF Upto, top1
    <3>3. Cardinality(Upto(fs, i)) \in 1..n
      BY <3>1, <1>4, UptoBounds
    <3>. QED BY <3>1, <3>2, <3>3, <1>1, <1>7 DEF ExitsMatch
  <2>. QED BY <2>1, <2>2
<1>. QED BY <1>5, <1>7, <1>8 DEF ExitsMatch

(* The construct on top is ended; if it is a loop its exit goes, too.      *)
LEMMA ExitsPop ==
  ASSUME NEW fs \in Seq(Frame), NEW gs \in Seq(Frame), Len(fs) > 0, Len(gs) = Len(fs) - 1,
         \A i \in 1..Len(gs) : gs[i] = fs[i],
         NEW xs \in Seq(Nat), NEW n \in Nat, ExitsMatch(fs, xs, n)
  PROVE  /\ fs[Len(fs)].kind # "loop" => ExitsMatch(gs, xs, n)
         /\ fs[Len(fs)].kind = "loop" =>
              /\ n > 0
              /\ ExitsMatch(gs, SubSeq(xs, 1, Len(xs) - 1), n - 1)
<1>. DEFINE last == Len(fs)
            ys == SubSeq(xs, 1, Len(xs) - 1)
<1>1. /\ DOMAIN fs = 1..last /\ last \in Nat
      /\ DOMAIN gs = 1..(last - 1)
  BY LenProperties
<1>. HIDE DEF last
<1>2. LoopsOf(gs) = LoopsOf(fs) \ {last}
  <2>1. \A i : i \in 1..(last - 1) <=> i \in 1..last /\ i # last
    BY <1>1
  <2>2. \A i \in 1..(last - 1) : gs[i] = fs[i]
    BY DEF last
  <2>. QED BY <2>1, <2>2, <1>1 DEF LoopsOf
<1>3. \A i \in LoopsOf(gs) : Upto(gs, i) = Upto(fs, i) /\ gs[i].out = fs[i].out
  <2>. SUFFICES ASSUME NEW i \in LoopsOf(gs)
                PROVE  Upto(gs, i) = Upto(fs, i) /\ gs[i].out = fs[i].out
    OBVIOUS
  <2>1. i \in 1..(last - 1)
    BY <1>1 DEF LoopsOf
  <2>2. gs[i] = fs[i]
    BY <2>1 DEF last
  <2>3. \A j \in LoopsOf(fs) : j <= i => j # last
    BY <2>1, <1>1
  <2>. QED BY <2>2, <2>3, <1>2 DEF Upto
<1>4. n = Cardinality(LoopsOf(fs)) /\ Len(xs) = n
  BY DEF ExitsMatch
<1>5. CASE fs[last].kind # "loop"
  <2>1. LoopsOf(gs) = LoopsOf(fs)
    BY <1>2, <1>5 DEF LoopsOf
  <2>. QED BY <2>1, <1>3, <1>5 DEF ExitsMatch, last
<1>6. CASE fs[last].kind = "loop"
  <2>1. last \in LoopsOf(fs)
    BY <1>1, <1>6 DEF LoopsOf
  <2>2. n > 0
    BY <2>1, <1>4, UptoBounds
  <2>3. Cardinality(LoopsOf(gs)) = n - 1
    BY <2>1, <1>2, <1>4, LoopsFinite, FS_RemoveElement
  <2>4. \A i \in 1..(Len(xs) - 1) : xs[i] \in Nat
    BY <1>4, <2>2, ElementOfSeq
  <2>5. Len(ys) = n - 1 /\ \A i \in 1..(n - 1) : ys[i] = xs[i]
    <3>1. /\ Len(ys) = IF 1 <= Len(xs) - 1 THEN Len(xs) - 1 - 1 + 1 ELSE 0
          /\ \A i \in 1..(Len(xs) - 1) - 1 + 1 : ys[i] = xs[1 + i - 1]
      BY <1>4, <2>4, SubSeqProperties
    <3>. HIDE DEF ys
    <3>. QED BY <3>1, <1>4, <2>2
  <2>. HIDE DEF ys
  <2>6. ASSUME NEW i \in LoopsOf(gs)
        PROVE  ys[Cardinality(Upto(gs, i))] = gs[i].out
    <3>1. i \in LoopsOf(fs)
      BY <1>2
    <3>2. Cardinality(Upto(gs, i)) \in 1..(n - 1)
      BY <2>3, UptoBounds
    <3>3. xs[Cardinality(Upto(fs, i))] = fs[i].out
      BY <3>1 DEF ExitsMatch
    <3>. QED BY <3>2, <3>3, <1>3, <2>5
  <2>. QED BY <1>6, <2>2, <2>3, <2>5, <2>6 DEF ExitsMatch, ys, last
<1>. QED BY <1>5, <1>6 DEF last

(* There is an innermost loop if there is any.                             *)
LEMMA InnermostExists ==
  ASSUME NEW fs \in Seq(Frame), LoopsOf(fs) # {}
  PROVE  \E i \in LoopsOf(fs) : \A j \in LoopsOf(fs) : j <= i
<1>. DEFINE n == Len(fs)
            T == {m \in Nat : \E i \in LoopsOf(fs) : m = n - i}
            R == OpToRel(<, Nat)
<1>1. n \in Nat /\ DOMAIN fs = 1..n
  BY LenProperties
<1>2. \A i \in LoopsOf(fs) : i \in 1..n /\ n - i \in T
  BY <1>1 DEF LoopsOf
<1>3. T \subseteq Nat /\ T # {}
  BY <1>2
<1>4. PICK m \in T : \A y \in T : ~ (<<y, m>> \in R)
  <2>. HIDE DEF T, R
  <2>1. IsWellFoundedOn(R, Nat)
    BY NatLessThanWellFounded DEF R
  <2>. QED BY <1>3, <2>1, WFMin
<1>5. \A y \in T : ~(y < m)
  BY <1>4 DEF OpToRel
<1>6. PICK i \in LoopsOf(fs) : m = n - i
  OBVIOUS
<1>7. \A j \in LoopsOf(fs) : j <= i
  <2>. SUFFICES ASSUME NEW j \in LoopsOf(fs) PROVE j <= i
    OBVIOUS
  <2>1. n - j \in T
    BY <1>2
  <2>2. ~(n - j < n - i)
    BY <1>5, <1>6, <2>1
  <2>. QED BY <2>2, <1>1, <1>2
<1>. QED BY <1>7

-----------------------------------------------------------------------------
(* The constructs, the exits and the blocks, as they belong together.      *)
Stack ==
  /\ open \in Seq(Frame) /\ open # <<>> /\ open[1].kind = "block"
  /\ loopExits \in Seq(Nat) /\ loopLevel \in Nat
  /\ Good(ir)
  /\ HasBlocks(open, Len(ir.blocks))
  /\ ExitsMatch(open, loopExits, loopLevel)

Rest ==
  /\ isVoid \in BOOLEAN
  /\ size \in 0..MaxSize
  /\ phase \in {"visiting", "rejected", "crashed", "generated"}
  /\ clean \in BOOLEAN
  /\ pend \subseteq Place
  /\ flow \subseteq Place \X Place

LoweringInv == Stack /\ Rest

Grows == Good(ir') /\ Len(ir.blocks) <= Len(ir'.blocks)

LEMMA TopShape ==
  ASSUME Stack
  PROVE  /\ Len(open) \in Nat \ {0} /\ DOMAIN open = 1..Len(open)
         /\ top \in Frame
         /\ top.kind # "block" =>
              /\ Len(open) > 1
              /\ top.back \in 1..Len(ir.blocks) /\ top.out \in 1..Len(ir.blocks)
         /\ Len(ir.blocks) \in Nat \ {0}
<1>1. open \in Seq(Frame) /\ open # <<>> /\ open[1].kind = "block" /\ Good(ir)
  BY DEF Stack
<1>2. Len(open) \in Nat \ {0} /\ DOMAIN open = 1..Len(open)
  BY <1>1, EmptySeq, LenProperties
<1>3. top \in Frame
  BY <1>1, <1>2, ElementOfSeq DEF top
<1>4. top.kind # "block" => Len(open) > 1
  BY <1>1, <1>2 DEF top
<1>5. HasBlocks(open, Len(ir.blocks))
  BY DEF Stack
<1>6. top.kind # "block" => top.back \in 1..Len(ir.blocks) /\ top.out \in 1..Len(ir.blocks)
  BY <1>2, <1>5 DEF HasBlocks, top
<1>7. Len(ir.blocks) \in Nat /\ ir.at \in 1..Len(ir.blocks)
  BY <1>1, GoodLen DEF Good
<1>. QED BY <1>2, <1>3, <1>4, <1>6, <1>7

(* A step that changes neither kinds nor exits.                            *)
LEMMA StackStays ==
  ASSUME Stack, Grows, open' \in Seq(Frame), Len(open') = Len(open),
         \A i \in 1..Len(open) :
           open'[i].kind = open[i].kind /\ open'[i].back = open[i].back /\ open'[i].out = open[i].out,
         UNCHANGED <<loopExits, loopLevel>>
  PROVE  Stack'
<1>1. Len(open) \in Nat \ {0} /\ Len(ir.blocks) \in Nat
  BY TopShape
<1>2. Len(ir'.blocks) \in Nat
  BY GoodLen DEF Grows
<1>3. HasBlocks(open', Len(ir'.blocks)) /\ SameLoops(open, open')
  BY <1>1, <1>2, SameKinds DEF Stack, Grows
<1>4. ExitsMatch(open', loopExits, loopLevel)
  BY <1>3, ExitsSame DEF Stack
<1>5. open' # <<>> /\ open'[1].kind = "block"
  BY <1>1 DEF Stack
<1>. QED BY <1>3, <1>4, <1>5 DEF Stack, Grows

LEMMA StackComplete ==
  ASSUME Stack, Grows, NEW r \in Returns, open' = Ends(open, r), UNCHANGED <<loopExits, loopLevel>>
  PROVE  Stack'
BY StackStays, EndsShape DEF Stack

LEMMA StackOpens ==
  ASSUME Stack, Grows, NEW f \in Frame, f.kind # "loop",
         f.kind # "block" => f.back \in 1..Len(ir'.blocks) /\ f.out \in 1..Len(ir'.blocks),
         open' = Append(open, f), UNCHANGED <<loopExits, loopLevel>>
  PROVE  Stack'
<1>. DEFINE fs == Append(open, f)
<1>1. /\ fs \in Seq(Frame) /\ fs # <<>> /\ Len(fs) = Len(open) + 1
      /\ \A i \in 1..Len(open) : fs[i] = open[i]
      /\ fs[Len(open) + 1] = f
  BY AppendProperties DEF Stack
<1>2. /\ Len(open) \in Nat \ {0} /\ DOMAIN open = 1..Len(open)
      /\ DOMAIN fs = 1..(Len(open) + 1)
      /\ Len(ir.blocks) \in Nat /\ Len(ir'.blocks) \in Nat
  BY <1>1, TopShape, LenProperties, GoodLen DEF Grows
<1>3. SameLoops(open, fs)
  BY ExitsOther DEF Stack
<1>. HIDE DEF fs
<1>4. HasBlocks(fs, Len(ir'.blocks))
  <2>. SUFFICES ASSUME NEW i \in 1..(Len(open) + 1), fs[i].kind # "block"
                PROVE  fs[i].back \in 1..Len(ir'.blocks) /\ fs[i].out \in 1..Len(ir'.blocks)
    BY <1>2 DEF HasBlocks
  <2>1. CASE i = Len(open) + 1
    BY <1>1, <2>1
  <2>2. CASE i \in DOMAIN open
    <3>1. open[i].back \in 1..Len(ir.blocks) /\ open[i].out \in 1..Len(ir.blocks)
      BY <1>1, <1>2, <2>2 DEF HasBlocks, Stack
    <3>. QED BY <3>1, <1>1, <1>2, <2>2 DEF Grows
  <2>. QED BY <2>1, <2>2, <1>2
<1>5. ExitsMatch(fs, loopExits, loopLevel)
  BY <1>3, ExitsSame DEF Stack
<1>6. fs[1].kind = "block"
  BY <1>1, <1>2 DEF Stack
<1>. QED BY <1>1, <1>4, <1>5, <1>6 DEF Stack, Grows, fs

LEMMA StackLoop ==
  ASSUME Stack, Grows, NEW f \in Frame, f.kind = "loop",
         f.back \in 1..Len(ir'.blocks), f.out \in 1..Len(ir'.blocks),
         open' = Append(open, f), loopExits' = Append(loopExits, f.out), loopLevel' = loopLevel + 1
  PROVE  Stack'
<1>. DEFINE fs == Append(open, f)
<1>1. /\ fs \in Seq(Frame) /\ fs # <<>> /\ Len(fs) = Len(open) + 1
      /\ \A i \in 1..Len(open) : fs[i] = open[i]
      /\ fs[Len(open) + 1] = f
  BY SMTT(30), AppendProperties DEF Stack
<1>2. /\ Len(open) \in Nat \ {0} /\ DOMAIN open = 1..Len(open)
      /\ DOMAIN fs = 1..(Len(open) + 1)
      /\ Len(ir.blocks) \in Nat /\ Len(ir'.blocks) \in Nat
  BY <1>1, TopShape, LenProperties, GoodLen DEF Grows
<1>3. ExitsMatch(fs, loopExits', loopLevel')
  BY ExitsPush DEF Stack
<1>. HIDE DEF fs
<1>4. HasBlocks(fs, Len(ir'.blocks))
  <2>. SUFFICES ASSUME NEW i \in 1..(Len(open) + 1), fs[i].kind # "block"
                PROVE  fs[i].back \in 1..Len(ir'.blocks) /\ fs[i].out \in 1..Len(ir'.blocks)
    BY <1>2 DEF HasBlocks
  <2>1. CASE i = Len(open) + 1
    BY <1>1, <2>1
  <2>2. CASE i \in DOMAIN open
    <3>1. open[i].back \in 1..Len(ir.blocks) /\ open[i].out \in 1..Len(ir.blocks)
      BY <1>1, <1>2, <2>2 DEF HasBlocks, Stack
    <3>. QED BY SMTT(30), <3>1, <1>1, <1>2, <2>2 DEF Grows
  <2>. QED BY <2>1, <2>2, <1>2
<1>5. loopExits' \in Seq(Nat) /\ loopLevel' \in Nat
  BY AppendProperties DEF Stack, Frame
<1>6. fs[1].kind = "block"
  BY <1>1, <1>2 DEF Stack
<1>. QED BY <1>1, <1>3, <1>4, <1>5, <1>6 DEF Stack, Grows, fs

(* The construct on top is complete.                                       *)
LEMMA StackCloses ==
  ASSUME Stack, Grows, Len(open) > 1, NEW r \in Returns, open' = Ends(Outer, r),
         top.kind # "loop" => UNCHANGED <<loopExits, loopLevel>>,
         top.kind = "loop" => /\ loopExits' = SubSeq(loopExits, 1, Len(loopExits) - 1)
                              /\ loopLevel' = loopLevel - 1
  PROVE  Stack'
<1>1. /\ Outer \in Seq(Frame) /\ Len(Outer) = Len(open) - 1 /\ Outer # <<>>
      /\ \A i \in 1..Len(Outer) : Outer[i] = open[i]
  BY OuterShape DEF Stack
<1>2. /\ Len(open) \in Nat \ {0} /\ DOMAIN open = 1..Len(open)
      /\ DOMAIN Outer = 1..(Len(open) - 1)
      /\ Len(ir.blocks) \in Nat /\ Len(ir'.blocks) \in Nat
  BY <1>1, TopShape, LenProperties, GoodLen DEF Grows
<1>3. HasBlocks(Outer, Len(ir.blocks))
  <2>. SUFFICES ASSUME NEW i \in 1..(Len(open) - 1), open[i].kind # "block"
                PROVE  open[i].back \in 1..Len(ir.blocks) /\ open[i].out \in 1..Len(ir.blocks)
    BY <1>1, <1>2 DEF HasBlocks
  <2>1. i \in DOMAIN open
    BY <1>2
  <2>. QED BY <2>1 DEF HasBlocks, Stack
<1>4. ExitsMatch(Outer, loopExits', loopLevel') /\ loopLevel' \in Nat
  <2>1. /\ open \in Seq(Frame) /\ Len(open) > 0 /\ loopExits \in Seq(Nat) /\ loopLevel \in Nat
        /\ ExitsMatch(open, loopExits, loopLevel)
    BY DEF Stack
  <2>2. /\ top.kind # "loop" => ExitsMatch(Outer, loopExits, loopLevel)
        /\ top.kind = "loop" =>
             /\ loopLevel > 0
             /\ ExitsMatch(Outer, SubSeq(loopExits, 1, Len(loopExits) - 1), loopLevel - 1)
    BY <1>1, <2>1, ExitsPop DEF top
  <2>3. CASE top.kind # "loop"
    BY <2>1, <2>2, <2>3
  <2>4. CASE top.kind = "loop"
    <3>1. ExitsMatch(Outer, loopExits', loopLevel')
      BY <2>2, <2>4
    <3>. QED BY <3>1, <2>1, <2>2, <2>4
  <2>. QED BY <2>3, <2>4
<1>5. loopExits' \in Seq(Nat)
  <2>1. CASE top.kind # "loop"
    BY <2>1 DEF Stack
  <2>2. CASE top.kind = "loop"
    <3>1. loopExits \in Seq(Nat) /\ Len(loopExits) \in Nat
      BY LenProperties DEF Stack
    <3>2. \A i \in 1..(Len(loopExits) - 1) : loopExits[i] \in Nat
      BY <3>1, ElementOfSeq
    <3>. QED BY <2>2, <3>1, <3>2, SubSeqProperties
  <2>. QED BY <2>1, <2>2
<1>6. /\ open' \in Seq(Frame) /\ Len(open') = Len(Outer)
      /\ \A i \in 1..Len(Outer) :
           open'[i].kind = Outer[i].kind /\ open'[i].back = Outer[i].back /\ open'[i].out = Outer[i].out
  <2>1. PICK gs \in Seq(Frame) : gs = Outer
    BY <1>1
  <2>2. gs # <<>> /\ r \in Returns
    BY <1>1, <2>1
  <2>3. /\ Ends(gs, r) \in Seq(Frame) /\ Len(Ends(gs, r)) = Len(gs)
        /\ \A i \in 1..Len(gs) : /\ Ends(gs, r)[i].kind = gs[i].kind
                                  /\ Ends(gs, r)[i].back = gs[i].back /\ Ends(gs, r)[i].out = gs[i].out
    BY ONLY <2>1, <2>2, EndsShape
  <2>4. open' = Ends(gs, r)
    BY <2>1
  <2>. QED BY ONLY <2>1, <2>3, <2>4
<1>7. HasBlocks(open', Len(ir'.blocks)) /\ SameLoops(Outer, open')
  BY <1>1, <1>2, <1>3, <1>6, SameKinds DEF Grows
<1>8. ExitsMatch(open', loopExits', loopLevel')
  BY <1>4, <1>7, ExitsSame
<1>9. open' # <<>> /\ open'[1].kind = "block"
  BY SMTT(30), <1>1, <1>2, <1>6 DEF Stack
<1>. QED BY <1>4, <1>5, <1>6, <1>7, <1>8, <1>9 DEF Stack, Grows

-----------------------------------------------------------------------------
(* What the actions have in common.                                        *)
LEMMA LocPlace == ASSUME NEW s, Good(s) PROVE Loc(s) \in Place
<1>1. s.blocks \in Seq(BasicBlock) /\ s.at \in Nat /\ s.blocks[s.at] \in BasicBlock
  BY ElementOfSeq DEF Good, IR
<1>2. Len(s.blocks[s.at].code) \in Nat
  BY <1>1, LenProperties DEF BasicBlock
<1>. QED BY SMTT(30), <1>1, <1>2 DEF Loc, Place

LEMMA FlowGrows ==
  ASSUME Rest, NEW p \in Place
  PROVE  flow \cup FlowTo(p) \subseteq Place \X Place
BY DEF Rest, FlowTo

LEMMA StartsRest ==
  ASSUME Rest, NEW n \in Nat, Starts(n)
  PROVE  size' \in 0..MaxSize /\ clean' \in BOOLEAN
<1>1. size' \in 0..MaxSize
  BY LoweringAssumption DEF Rest, Starts
<1>2. clean' \in BOOLEAN
  BY DEF Rest, Starts
<1>. QED BY <1>1, <1>2

LEMMA SizeNat == \A e : Size(e) \in Nat
BY DEF Size

LEMMA GrowsEval == ASSUME Stack, NEW e, ir' = Eval(ir, e) PROVE Grows
BY EvalGood, GoodLen DEF Stack, Grows

LEMMA GrowsStays == ASSUME Stack, UNCHANGED ir PROVE Grows
BY GoodLen DEF Stack, Grows

(* The construct on top comes to its end: ToMerge, and from there.         *)
LEMMA ToMergeGood ==
  ASSUME Stack, top.kind # "block"
  PROVE  Good(ToMerge) /\ Len(ToMerge.blocks) = Len(ir.blocks)
<1>1. top.out \in Nat /\ Good(ir)
  BY TopShape DEF Stack
<1>2. Br({top.out}) \in Instr
  BY <1>1, InstrTypes
<1>. QED BY <1>1, <1>2, PutGood DEF ToMerge

LEMMA FramePlaces ==
  ASSUME Stack
  PROVE  top.cond \in Place /\ top.ends \subseteq Place /\ top.done \in Returns
BY TopShape DEF Frame

-----------------------------------------------------------------------------
(* Simple statements.                                                      *)
LEMMA EmptyInv == ASSUME LoweringInv, Empty PROVE LoweringInv'
<1>1. Stack'
  BY GrowsStays, StackComplete DEF LoweringInv, Empty, Returns
<1>2. clean' \in BOOLEAN
  BY DEF LoweringInv, Empty, Rest
<1>. QED BY <1>1, <1>2 DEF LoweringInv, Empty, Rest

LEMMA SimpleInv == ASSUME LoweringInv, NEW e, Simple(e) PROVE LoweringInv'
<1>1. Stack'
  BY GrowsEval, StackComplete DEF LoweringInv, Simple, Returns
<1>2. size' \in 0..MaxSize /\ clean' \in BOOLEAN
  BY StartsRest, SizeNat DEF LoweringInv, Simple
<1>3. Loc(ir) \in Place
  BY LocPlace DEF LoweringInv, Stack
<1>4. flow' \subseteq Place \X Place
  BY <1>3, FlowGrows DEF LoweringInv, Simple
<1>. QED BY <1>1, <1>2, <1>3, <1>4 DEF LoweringInv, Simple, Rest

LEMMA ReturnInv == ASSUME LoweringInv, NEW e, Return(e) PROVE LoweringInv'
<1>1. Good(Eval(ir, e)) /\ Len(Eval(ir, e).blocks) >= Len(ir.blocks)
  BY EvalGood DEF LoweringInv, Stack
<1>2. Grows
  BY <1>1, PutGood, InstrTypes, GoodLen DEF Return, Grows, LoweringInv, Stack
<1>3. Stack'
  BY <1>2, StackComplete DEF LoweringInv, Return, Returns
<1>4. size' \in 0..MaxSize /\ clean' \in BOOLEAN
  BY StartsRest, SizeNat DEF LoweringInv, Return
<1>5. Loc(ir) \in Place
  BY LocPlace DEF LoweringInv, Stack
<1>6. flow' \subseteq Place \X Place
  BY <1>5, FlowGrows DEF LoweringInv, Return
<1>. QED BY <1>3, <1>4, <1>6 DEF LoweringInv, Return, Rest

(* The compiler stops: nothing but the phase matters.                      *)
LEMMA StopInv ==
  ASSUME LoweringInv, Starts(0), phase' \in {"rejected", "crashed"},
         UNCHANGED <<isVoid, open, loopLevel, ir, loopExits, pend, flow>>
  PROVE  LoweringInv'
<1>1. Stack'
  BY DEF LoweringInv, Stack
<1>2. size' \in 0..MaxSize /\ clean' \in BOOLEAN
  BY StartsRest DEF LoweringInv
<1>. QED BY <1>1, <1>2 DEF LoweringInv, Rest

(* Noting an exit of the innermost loop changes nothing else.              *)
LEMMA BreakShape ==
  ASSUME open \in Seq(Frame), pend \in SUBSET Place
  PROVE  LET fs == [open EXCEPT ![InnermostLoop].ends = @ \cup pend]
         IN  /\ fs \in Seq(Frame) /\ Len(fs) = Len(open)
             /\ \A i \in 1..Len(open) :
                  /\ fs[i].kind = open[i].kind /\ fs[i].back = open[i].back
                  /\ fs[i].out = open[i].out /\ fs[i].thenRet = open[i].thenRet
                  /\ i # InnermostLoop => fs[i].ends = open[i].ends
<1>. DEFINE k  == InnermostLoop
            g  == [open[k] EXCEPT !.ends = @ \cup pend]
            fs == [open EXCEPT ![k].ends = @ \cup pend]
<1>1. fs = [open EXCEPT ![k] = g]
  OBVIOUS
<1>2. CASE k \in 1..Len(open)
  <2>. HIDE DEF k
  <2>1. open[k] \in Frame
    BY <1>2, ElementOfSeq
  <2>2. /\ g \in Frame /\ g.kind = open[k].kind /\ g.back = open[k].back
        /\ g.out = open[k].out /\ g.thenRet = open[k].thenRet
    BY <2>1 DEF Frame
  <2>. HIDE DEF g, fs
  <2>3. /\ [open EXCEPT ![k] = g] \in Seq(Frame)
        /\ Len([open EXCEPT ![k] = g]) = Len(open)
        /\ \A j \in 1..Len(open) : [open EXCEPT ![k] = g][j] = IF j = k THEN g ELSE open[j]
    BY <1>2, <2>2, ExceptSeq
  <2>4. /\ fs \in Seq(Frame) /\ Len(fs) = Len(open)
        /\ \A j \in 1..Len(open) : fs[j] = IF j = k THEN g ELSE open[j]
    BY <1>1, <2>3
  <2>5. /\ fs \in Seq(Frame) /\ Len(fs) = Len(open)
        /\ \A i \in 1..Len(open) :
             /\ fs[i].kind = open[i].kind /\ fs[i].back = open[i].back
             /\ fs[i].out = open[i].out /\ fs[i].thenRet = open[i].thenRet
             /\ i # k => fs[i].ends = open[i].ends
    BY <2>2, <2>4
  <2>. QED BY <2>5 DEF fs, k
<1>3. CASE k \notin 1..Len(open)
  <2>1. open \in [1..Len(open) -> Frame] /\ DOMAIN open = 1..Len(open)
    BY LenProperties
  <2>2. fs = open
    <3>. HIDE DEF k, g
    <3>. QED BY <1>1, <1>3, <2>1
  <2>. HIDE DEF fs
  <2>3. /\ fs \in Seq(Frame) /\ Len(fs) = Len(open)
        /\ \A i \in 1..Len(open) : fs[i] = open[i]
    BY <2>2
  <2>4. /\ fs \in Seq(Frame) /\ Len(fs) = Len(open)
        /\ \A i \in 1..Len(open) :
             /\ fs[i].kind = open[i].kind /\ fs[i].back = open[i].back
             /\ fs[i].out = open[i].out /\ fs[i].thenRet = open[i].thenRet
             /\ i # k => fs[i].ends = open[i].ends
    BY <2>3
  <2>. QED BY <2>4 DEF fs, k
<1>. QED BY <1>2, <1>3

LEMMA BreakInv == ASSUME LoweringInv, Break PROVE LoweringInv'
<1>. DEFINE fs == [open EXCEPT ![InnermostLoop].ends = @ \cup pend]
            s  == Put(ir, Br({loopExits[Len(loopExits)]}))
            s1 == Create(s, TRUE)
<1>0. Stack /\ pend \in SUBSET Place /\ open \in Seq(Frame)
  BY DEF LoweringInv, Rest, Stack
<1>1. loopExits[Len(loopExits)] \in Nat
  <2>1. loopExits \in Seq(Nat) /\ Len(loopExits) = loopLevel /\ loopLevel \in Nat /\ loopLevel > 0
    BY <1>0 DEF Break, Stack, ExitsMatch
  <2>2. Len(loopExits) \in 1..Len(loopExits)
    BY <2>1
  <2>. QED BY <2>1, <2>2, ElementOfSeq
<1>2. Br({loopExits[Len(loopExits)]}) \in Instr
  <2>1. {loopExits[Len(loopExits)]} \in SUBSET Nat
    BY <1>1
  <2>. QED BY <2>1, InstrTypes
<1>3. Good(s) /\ Len(s.blocks) = Len(ir.blocks)
  BY <1>0, <1>2, PutGood DEF Stack
<1>4. ir' = SetInsertPoint(s1, Fresh(s))
  BY DEF Break
<1>. HIDE DEF s
<1>5. Good(s1) /\ Len(s1.blocks) = Len(s.blocks) + 1 /\ Fresh(s) = Len(s.blocks) + 1
  BY <1>3, CreateGood, GoodLen
<1>. HIDE DEF s1
<1>6. Grows
  <2>1. Len(s.blocks) \in Nat
    BY <1>3, GoodLen
  <2>2. Fresh(s) \in 1..Len(s1.blocks)
    BY <2>1, <1>5
  <2>3. Good(SetInsertPoint(s1, Fresh(s))) /\ Len(SetInsertPoint(s1, Fresh(s)).blocks) = Len(s1.blocks)
    BY <1>5, <2>2, SetInsertPointGood
  <2>. QED BY <2>1, <2>3, <1>3, <1>4, <1>5 DEF Grows
<1>7. /\ fs \in Seq(Frame) /\ Len(fs) = Len(open)
      /\ \A i \in 1..Len(open) :
           fs[i].kind = open[i].kind /\ fs[i].back = open[i].back /\ fs[i].out = open[i].out
  BY <1>0, BreakShape
<1>8. open' = Ends(fs, "noret")
  BY DEF Break
<1>. HIDE DEF fs
<1>9. fs # <<>>
  BY <1>0, <1>7, TopShape
<1>10. /\ open' \in Seq(Frame) /\ Len(open') = Len(open)
       /\ \A i \in 1..Len(open) :
            open'[i].kind = open[i].kind /\ open'[i].back = open[i].back /\ open'[i].out = open[i].out
  BY <1>7, <1>8, <1>9, EndsShape DEF Returns
<1>11. Stack'
  BY <1>0, <1>6, <1>10, StackStays DEF Break
<1>12. size' \in 0..MaxSize /\ clean' \in BOOLEAN
  BY StartsRest DEF LoweringInv, Break
<1>. QED BY <1>11, <1>12 DEF LoweringInv, Break, Rest

-----------------------------------------------------------------------------
(* Blocks.                                                                 *)
LEMMA OpenBlockInv == ASSUME LoweringInv, OpenBlock PROVE LoweringInv'
<1>1. Block \in Frame /\ Block.kind = "block"
  BY DEF Block, F, Frame, Returns, Entry, Place
<1>2. Stack'
  BY <1>1, GrowsStays, StackOpens DEF LoweringInv, OpenBlock
<1>3. size' \in 0..MaxSize /\ clean' \in BOOLEAN
  BY StartsRest DEF LoweringInv, OpenBlock
<1>. QED BY <1>2, <1>3 DEF LoweringInv, OpenBlock, Rest

LEMMA CloseBlockInv == ASSUME LoweringInv, CloseBlock PROVE LoweringInv'
<1>1. Stack'
  BY GrowsStays, StackCloses DEF LoweringInv, CloseBlock, Returns
<1>. QED BY <1>1 DEF LoweringInv, CloseBlock, Rest

-----------------------------------------------------------------------------
(* Conditionals.                                                           *)
LEMMA IfInv == ASSUME LoweringInv, NEW e, If(e) PROVE LoweringInv'
<1>. DEFINE s     == Eval(ir, e)
            then  == Fresh(s)
            else  == then + 1
            merge == then + 2
            m1    == Create(s, TRUE)
            m2    == Create(m1, FALSE)
            made  == Create(m2, FALSE)
            cut   == Put(made, Br({then, else}))
            f     == F("then", else, merge, Loc(ir), {}, "none")
<1>0. Stack /\ Rest /\ Good(ir) /\ Loc(ir) \in Place
  BY LocPlace DEF LoweringInv, Stack
<1>1. /\ ir' = SetInsertPoint(cut, then)
      /\ open' = Append(open, f)
  BY DEF If
<1>2. Good(s) /\ Len(s.blocks) >= Len(ir.blocks)
  BY <1>0, EvalGood
<1>. HIDE DEF s
<1>3. Len(s.blocks) \in Nat /\ then = Len(s.blocks) + 1
  BY <1>2, GoodLen
<1>. HIDE DEF then
<1>4. Good(m1) /\ Len(m1.blocks) = then
  BY <1>2, <1>3, CreateGood
<1>. HIDE DEF m1
<1>5. Good(m2) /\ Len(m2.blocks) = then + 1
  BY <1>4, CreateGood
<1>. HIDE DEF m2
<1>6. Good(made) /\ Len(made.blocks) = then + 1 + 1
  BY <1>5, CreateGood
<1>. HIDE DEF made
<1>7. Br({then, else}) \in Instr
  <2>1. {then, else} \in SUBSET Nat
    BY <1>3
  <2>. QED BY <2>1, InstrTypes
<1>8. Good(cut) /\ Len(cut.blocks) = then + 1 + 1
  BY <1>6, <1>7, PutGood
<1>. HIDE DEF cut
<1>9. then \in 1..Len(cut.blocks) /\ else \in 1..Len(cut.blocks) /\ merge \in 1..Len(cut.blocks)
  BY <1>3, <1>8
<1>10. Good(ir') /\ Len(ir'.blocks) = Len(cut.blocks)
  BY <1>1, <1>8, <1>9, SetInsertPointGood
<1>11. Grows
  <2>1. Len(ir.blocks) \in Nat
    BY <1>0, GoodLen
  <2>. QED BY <2>1, <1>2, <1>3, <1>8, <1>10 DEF Grows
<1>12. f \in Frame /\ f.kind = "then" /\ f.back = else /\ f.out = merge
  <2>1. else \in Nat /\ merge \in Nat
    BY <1>3
  <2>2. f.kind = "then" /\ f.back = else /\ f.out = merge
    BY DEF F
  <2>. QED BY <1>0, <2>1, <2>2, FrameTypes
<1>. HIDE DEF f, else, merge
<1>13. Stack'
  BY <1>0, <1>1, <1>9, <1>10, <1>11, <1>12, StackOpens DEF If
<1>14. size' \in 0..MaxSize /\ clean' \in BOOLEAN
  BY StartsRest, SizeNat DEF LoweringInv, If
<1>15. flow' \subseteq Place \X Place
  BY <1>0, FlowGrows DEF If
<1>. QED BY <1>0, <1>13, <1>14, <1>15 DEF LoweringInv, If, Rest

LEMMA ElseInv == ASSUME LoweringInv, Else PROVE LoweringInv'
<1>. DEFINE n == Len(open)
            g == [top EXCEPT !.kind = "else", !.thenRet = top.done, !.done = "none", !.ends = pend]
<1>0. Stack /\ Rest /\ top.kind = "then"
  BY DEF LoweringInv, Else, Inside
<1>1. /\ open \in Seq(Frame) /\ n \in 1..n /\ top \in Frame /\ n \in Nat
      /\ top.back \in 1..Len(ir.blocks) /\ DOMAIN open = 1..n
  BY <1>0, TopShape DEF Stack
<1>2. /\ g \in Frame /\ g.kind = "else" /\ g.back = top.back /\ g.out = top.out
  <2>1. PICK t \in Frame : t = top
    BY <1>1
  <2>2. PICK P \in SUBSET Place : P = pend
    BY <1>0 DEF Rest
  <2>3. PICK h : h = [t EXCEPT !.kind = "else", !.thenRet = t.done, !.done = "none", !.ends = P]
    OBVIOUS
  <2>4. h = [kind |-> "else", done |-> "none", back |-> t.back, out |-> t.out, cond |-> t.cond,
             thenRet |-> t.done, ends |-> P, update |-> t.update]
    BY <2>3 DEF Frame
  <2>5. h \in Frame /\ h.kind = "else" /\ h.back = t.back /\ h.out = t.out
    BY <2>4 DEF Frame, Returns
  <2>6. h = g
    BY <2>1, <2>2, <2>3
  <2>. QED BY <2>1, <2>5, <2>6
<1>3. open' = [open EXCEPT ![n] = g]
  BY DEF Else, top
<1>. HIDE DEF g
<1>4. /\ open' \in Seq(Frame) /\ Len(open') = Len(open)
      /\ \A i \in 1..Len(open) : open'[i] = IF i = n THEN g ELSE open[i]
  BY <1>1, <1>2, <1>3, ExceptSeq
<1>5. Grows
  <2>1. Good(ToMerge) /\ Len(ToMerge.blocks) = Len(ir.blocks)
    BY <1>0, ToMergeGood
  <2>2. Good(ir') /\ Len(ir'.blocks) = Len(ir.blocks)
    BY <1>1, <2>1, PlaceAtGood DEF Else
  <2>. QED BY <2>2, <1>0, TopShape DEF Grows
<1>6. HasBlocks(open', Len(ir'.blocks)) /\ SameLoops(open, open')
  <2>1. DOMAIN open' = 1..n
    BY <1>4, LenProperties
  <2>2. top = open[n]
    BY DEF top
  <2>3. SameLoops(open, open')
    BY <1>0, <1>1, <1>2, <1>4, <2>1, <2>2 DEF SameLoops, LoopsOf
  <2>4. ASSUME NEW i \in 1..n, open'[i].kind # "block"
        PROVE  open'[i].back \in 1..Len(ir'.blocks) /\ open'[i].out \in 1..Len(ir'.blocks)
    <3>1. open'[i].back = open[i].back /\ open'[i].out = open[i].out /\ open[i].kind # "block"
      BY <1>0, <1>2, <1>4, <2>2, <2>4
    <3>2. open[i].back \in 1..Len(ir.blocks) /\ open[i].out \in 1..Len(ir.blocks)
      BY <3>1, <1>0, <1>1 DEF HasBlocks, Stack
    <3>3. Len(ir.blocks) \in Nat /\ Len(ir'.blocks) \in Nat /\ Len(ir.blocks) <= Len(ir'.blocks)
      BY <1>0, <1>5, TopShape, GoodLen DEF Grows
    <3>. QED BY <3>1, <3>2, <3>3
  <2>. QED BY <2>1, <2>3, <2>4 DEF HasBlocks
<1>7. ExitsMatch(open', loopExits, loopLevel)
  BY <1>0, <1>6, ExitsSame DEF Stack
<1>8. open' # <<>> /\ open'[1].kind = "block"
  <2>1. n > 1
    BY <1>0, TopShape
  <2>2. 1 \in 1..Len(open) /\ 1 # n
    BY <1>1, <2>1
  <2>3. open'[1] = open[1]
    BY <1>4, <2>2
  <2>. QED BY <2>3, <2>1, <1>0, <1>4 DEF Stack
<1>9. Stack'
  BY <1>0, <1>4, <1>5, <1>6, <1>7, <1>8 DEF Stack, Grows, Else
<1>. QED BY <1>0, <1>9, FramePlaces DEF LoweringInv, Else, Rest

LEMMA EndIfInv == ASSUME LoweringInv, EndIf PROVE LoweringInv'
<1>. DEFINE s  == ToMerge
            s1 == PlaceAt(s, top.back)
            s2 == Put(s1, Br({top.out}))
<1>0. Stack /\ Rest /\ top.kind = "then" /\ ir' = PlaceAt(s2, top.out)
  BY DEF LoweringInv, EndIf, Inside
<1>1. /\ Len(open) > 1 /\ Len(ir.blocks) \in Nat
      /\ top.back \in 1..Len(ir.blocks) /\ top.out \in 1..Len(ir.blocks)
  BY <1>0, TopShape
<1>2. Good(s) /\ Len(s.blocks) = Len(ir.blocks)
  BY <1>0, ToMergeGood
<1>. HIDE DEF s
<1>3. Good(s1) /\ Len(s1.blocks) = Len(ir.blocks)
  BY <1>1, <1>2, PlaceAtGood
<1>. HIDE DEF s1
<1>4. Br({top.out}) \in Instr
  <2>1. {top.out} \in SUBSET Nat
    BY <1>1
  <2>. QED BY <2>1, InstrTypes
<1>5. Good(s2) /\ Len(s2.blocks) = Len(ir.blocks)
  BY <1>3, <1>4, PutGood
<1>. HIDE DEF s2
<1>6. Grows
  BY <1>0, <1>1, <1>5, PlaceAtGood DEF Grows
<1>7. Stack'
  BY <1>0, <1>1, <1>6, StackCloses DEF EndIf, Returns
<1>. QED BY <1>0, <1>7, FramePlaces DEF LoweringInv, EndIf, Rest

LEMMA EndIfElseInv == ASSUME LoweringInv, EndIfElse PROVE LoweringInv'
<1>0. Stack /\ Rest /\ top.kind = "else"
  BY DEF LoweringInv, EndIfElse, Inside
<1>1. Len(open) > 1 /\ Len(ir.blocks) \in Nat /\ top.out \in 1..Len(ir.blocks)
  BY <1>0, TopShape
<1>2. Good(ToMerge) /\ Len(ToMerge.blocks) = Len(ir.blocks)
  BY <1>0, ToMergeGood
<1>3. ir' = ToMerge \/ ir' = PlaceAt(ToMerge, top.out)
  BY DEF EndIfElse
<1>4. Grows
  BY <1>1, <1>2, <1>3, PlaceAtGood DEF Grows
<1>5. PICK r \in Returns : open' = Ends(Outer, r)
  BY DEF EndIfElse, Returns
<1>6. Stack'
  BY <1>0, <1>1, <1>4, <1>5, StackCloses DEF EndIfElse
<1>. QED BY <1>0, <1>6, FramePlaces DEF LoweringInv, EndIfElse, Rest

-----------------------------------------------------------------------------
(* Loops.                                                                  *)
LEMMA LoopBlocksGood ==
  ASSUME Stack
  PROVE  Good(LoopBlocks) /\ Len(LoopBlocks.blocks) = Len(ir.blocks) + 3
<1>. DEFINE m1 == Create(ir, TRUE)
            m2 == Create(m1, FALSE)
            n  == Len(ir.blocks)
<1>1. Good(ir) /\ n \in Nat
  BY GoodLen DEF Stack
<1>2. Good(m1) /\ Len(m1.blocks) = n + 1
  BY <1>1, CreateGood
<1>3. LoopBlocks = Create(m2, FALSE)
  BY DEF LoopBlocks
<1>. HIDE DEF m1
<1>4. Good(m2) /\ Len(m2.blocks) = n + 1 + 1
  BY <1>2, CreateGood
<1>. HIDE DEF m2
<1>5. Good(LoopBlocks) /\ Len(LoopBlocks.blocks) = n + 1 + 1 + 1
  BY <1>3, <1>4, CreateGood
<1>. QED BY <1>1, <1>5

(* s has the three blocks of the loop, the first of them number in.        *)
LEMMA EnterLoopInv ==
  ASSUME LoweringInv, NEW s, Good(s), Len(s.blocks) >= Len(ir.blocks) + 3,
         NEW in, in = Fresh(ir), NEW e, NEW update \in {"none"} \cup Exprs,
         EnterLoop(s, in, e, update)
  PROVE  Stack' /\ pend' \subseteq Place
<1>. DEFINE s1  == Put(s, Br({in}))
            s2  == SetInsertPoint(s1, in)
            s3  == Eval(s2, e)
            s4  == Put(s3, Br({in + 1, in + 2}))
            f   == F("loop", in, in + 2, <<in, 1>>, {<<in, 1>>}, update)
<1>0. Stack /\ Good(ir) /\ Len(ir.blocks) \in Nat /\ in = Len(ir.blocks) + 1 /\ Len(s.blocks) \in Nat
  BY GoodLen DEF LoweringInv, Stack
<1>1. /\ ir' = PlaceAt(s4, in + 1)
      /\ open' = Append(open, f)
      /\ loopExits' = Append(loopExits, in + 2)
      /\ loopLevel' = loopLevel + 1
      /\ pend' = {<<in, 1>>}
  BY DEF EnterLoop, Branch
<1>2. Br({in}) \in Instr /\ Br({in + 1, in + 2}) \in Instr
  <2>1. {in} \in SUBSET Nat /\ {in + 1, in + 2} \in SUBSET Nat
    BY <1>0
  <2>. QED BY <2>1, InstrTypes
<1>3. Good(s1) /\ Len(s1.blocks) = Len(s.blocks)
  BY <1>2, PutGood
<1>. HIDE DEF s1
<1>4. in \in 1..Len(s1.blocks)
  BY <1>0, <1>3
<1>5. Good(s2) /\ Len(s2.blocks) = Len(s.blocks)
  BY <1>3, <1>4, SetInsertPointGood
<1>. HIDE DEF s2
<1>6. Good(s3) /\ Len(s3.blocks) >= Len(s.blocks)
  BY <1>5, EvalGood
<1>. HIDE DEF s3
<1>7. Good(s4) /\ Len(s4.blocks) = Len(s3.blocks) /\ Len(s4.blocks) \in Nat
  BY <1>2, <1>6, PutGood, GoodLen
<1>. HIDE DEF s4
<1>8. in \in 1..Len(s4.blocks) /\ in + 1 \in 1..Len(s4.blocks) /\ in + 2 \in 1..Len(s4.blocks)
  BY SMTT(30), <1>0, <1>6, <1>7
<1>9. Good(ir') /\ Len(ir'.blocks) = Len(s4.blocks)
  BY <1>1, <1>7, <1>8, PlaceAtGood
<1>10. Grows
  BY <1>0, <1>6, <1>7, <1>9 DEF Grows
<1>11. <<in, 1>> \in Place
  BY <1>0 DEF Place
<1>12. f \in Frame /\ f.kind = "loop" /\ f.back = in /\ f.out = in + 2
  <2>1. in \in Nat /\ in + 2 \in Nat /\ {<<in, 1>>} \in SUBSET Place
    BY <1>0, <1>11
  <2>2. f.kind = "loop" /\ f.back = in /\ f.out = in + 2
    BY DEF F
  <2>. QED BY <1>11, <2>1, <2>2, FrameTypes
<1>. HIDE DEF f
<1>13. Stack'
  BY <1>0, <1>1, <1>8, <1>9, <1>10, <1>12, StackLoop
<1>. QED BY <1>1, <1>11, <1>13

LEMMA WhileInv == ASSUME LoweringInv, NEW e \in Exprs, While(e) PROVE LoweringInv'
<1>1. Stack /\ Good(ir) /\ Len(ir.blocks) \in Nat /\ Fresh(ir) = Len(ir.blocks) + 1
  BY GoodLen DEF LoweringInv, Stack
<1>2. Good(LoopBlocks) /\ Len(LoopBlocks.blocks) >= Len(ir.blocks) + 3
  BY <1>1, LoopBlocksGood
<1>3. Stack' /\ pend' \subseteq Place
  BY <1>2, EnterLoopInv DEF While
<1>4. size' \in 0..MaxSize /\ clean' \in BOOLEAN
  BY StartsRest, SizeNat DEF LoweringInv, While
<1>5. <<Fresh(ir), 1>> \in Place
  BY <1>1 DEF Place
<1>6. flow' \subseteq Place \X Place
  BY <1>5, FlowGrows DEF LoweringInv, While
<1>. QED BY <1>3, <1>4, <1>6 DEF LoweringInv, While, Rest

LEMMA ForInv ==
  ASSUME LoweringInv, NEW init \in Exprs, NEW e \in Exprs, NEW update \in Exprs, For(init, e, update)
  PROVE  LoweringInv'
<1>. DEFINE s == Eval(LoopBlocks, init)
<1>1. Stack /\ Good(ir) /\ Len(ir.blocks) \in Nat /\ Fresh(ir) = Len(ir.blocks) + 1
  BY GoodLen DEF LoweringInv, Stack
<1>2. Good(LoopBlocks) /\ Len(LoopBlocks.blocks) = Len(ir.blocks) + 3
  BY <1>1, LoopBlocksGood
<1>3. Good(s) /\ Len(s.blocks) >= Len(ir.blocks) + 3
  BY <1>2, EvalGood
<1>4. Stack' /\ pend' \subseteq Place
  BY <1>3, EnterLoopInv DEF For
<1>5. size' \in 0..MaxSize /\ clean' \in BOOLEAN
  <2>1. Size(init) + Size(e) + Size(update) \in Nat
    BY SizeNat
  <2>. QED BY <2>1, StartsRest DEF LoweringInv, For
<1>6. <<Fresh(ir), 1>> \in Place /\ Loc(ir) \in Place
  BY <1>1, LocPlace DEF Place
<1>7. flow' \subseteq Place \X Place
  BY <1>6, FlowGrows DEF LoweringInv, For
<1>. QED BY <1>4, <1>5, <1>7 DEF LoweringInv, For, Rest

LEMMA EndLoopInv == ASSUME LoweringInv, EndLoop PROVE LoweringInv'
<1>. DEFINE s  == IF top.update = "none" THEN ir ELSE Eval(ir, top.update)
            s1 == Put(s, Br({top.back}))
<1>0. Stack /\ Rest /\ top.kind = "loop" /\ ir' = PlaceAt(s1, top.out)
  BY DEF LoweringInv, EndLoop, Inside
<1>1. /\ Len(open) > 1 /\ Len(ir.blocks) \in Nat /\ Good(ir)
      /\ top.back \in 1..Len(ir.blocks) /\ top.out \in 1..Len(ir.blocks)
  BY <1>0, TopShape DEF Stack
<1>2. Good(s) /\ Len(s.blocks) >= Len(ir.blocks)
  BY <1>1, EvalGood
<1>. HIDE DEF s
<1>3. Br({top.back}) \in Instr
  <2>1. {top.back} \in SUBSET Nat
    BY <1>1
  <2>. QED BY <2>1, InstrTypes
<1>4. Good(s1) /\ Len(s1.blocks) = Len(s.blocks) /\ Len(s.blocks) \in Nat
  BY <1>2, <1>3, PutGood, GoodLen
<1>. HIDE DEF s1
<1>5. top.out \in 1..Len(s1.blocks)
  BY <1>1, <1>2, <1>4
<1>6. Grows
  BY <1>0, <1>1, <1>2, <1>4, <1>5, PlaceAtGood DEF Grows
<1>7. Stack'
  BY <1>0, <1>1, <1>6, StackCloses DEF EndLoop, Returns
<1>8. /\ Loc(ir) \in Place /\ top.cond \in Place /\ top.ends \subseteq Place
      /\ clean \in BOOLEAN
  BY <1>0, <1>1, LocPlace, FramePlaces DEF Rest
<1>9. flow' \subseteq Place \X Place
  <2>1. CASE top.update = "none"
    BY <1>0, <1>8, <2>1, FlowGrows DEF EndLoop
  <2>2. CASE top.update # "none"
    BY <1>0, <1>8, <2>2, FlowGrows DEF EndLoop
  <2>. QED BY <2>1, <2>2
<1>10. pend' \subseteq Place /\ clean' \in BOOLEAN
  BY <1>8 DEF EndLoop
<1>. QED BY <1>0, <1>7, <1>9, <1>10 DEF LoweringInv, EndLoop, Rest

-----------------------------------------------------------------------------
(* The end of the method.                                                  *)
LEMMA EndInv ==
  ASSUME LoweringInv, MissingReturn \/ EndValueMethod
  PROVE  LoweringInv'
BY DEF LoweringInv, MissingReturn, EndValueMethod, Stack, Rest

LEMMA EndVoidInv == ASSUME LoweringInv, EndVoidMethod PROVE LoweringInv'
<1>. DEFINE s == Put(ir, Point)
<1>0. Stack /\ Rest /\ Good(ir) /\ Len(ir.blocks) \in Nat /\ ir' = Put(s, Ret)
  BY GoodLen DEF LoweringInv, Stack, EndVoidMethod
<1>1. Good(s) /\ Len(s.blocks) = Len(ir.blocks)
  BY <1>0, PutGood, InstrTypes
<1>. HIDE DEF s
<1>2. Grows
  BY <1>0, <1>1, PutGood, InstrTypes DEF Grows
<1>3. Stack'
  BY <1>0, <1>2, StackStays DEF EndVoidMethod, Stack
<1>4. Loc(ir) \in Place
  BY <1>0, LocPlace
<1>5. flow' \subseteq Place \X Place
  BY <1>0, <1>4, FlowGrows DEF EndVoidMethod
<1>. QED BY <1>0, <1>3, <1>5 DEF LoweringInv, EndVoidMethod, Rest

-----------------------------------------------------------------------------
LEMMA LoweringInit == Init => LoweringInv
<1>. SUFFICES ASSUME Init PROVE LoweringInv
  OBVIOUS
<1>. DEFINE b == [code |-> <<>>, placed |-> TRUE]
<1>1. Block \in Frame /\ Block.kind = "block" /\ Entry \in Place
  BY DEF Block, F, Frame, Returns, Entry, Place
<1>2. /\ open = <<Block>> /\ open \in Seq(Frame) /\ open # <<>> /\ open[1] = Block
      /\ DOMAIN open = {1}
  BY <1>1 DEF Init
<1>3. loopExits \in Seq(Nat) /\ Len(loopExits) = 0
  BY EmptySeq DEF Init
<1>4. Good(ir)
  <2>1. b \in BasicBlock
    BY EmptySeq DEF BasicBlock
  <2>2. ir = [blocks |-> <<b>>, at |-> 1]
    BY DEF Init
  <2>. HIDE DEF b
  <2>3. <<b>> \in Seq(BasicBlock) /\ Len(<<b>>) = 1
    BY <2>1
  <2>4. ir \in IR
    BY <2>2, <2>3 DEF IR
  <2>5. ir.at = 1 /\ Len(ir.blocks) = 1
    BY <2>2, <2>3
  <2>. QED BY <2>4, <2>5 DEF Good
<1>5. HasBlocks(open, Len(ir.blocks)) /\ LoopsOf(open) = {}
  BY <1>1, <1>2 DEF HasBlocks, LoopsOf
<1>6. ExitsMatch(open, loopExits, loopLevel)
  BY <1>3, <1>5, FS_EmptySet DEF ExitsMatch, Init
<1>7. Stack
  BY <1>1, <1>2, <1>3, <1>4, <1>5, <1>6 DEF Stack, Init
<1>8. Rest
  BY <1>1, LoweringAssumption DEF Rest, Init
<1>. QED BY <1>7, <1>8 DEF LoweringInv

LEMMA LoweringStep == LoweringInv /\ [Next]_vars => LoweringInv'
<1>. SUFFICES ASSUME LoweringInv, [Next]_vars PROVE LoweringInv'
  OBVIOUS
<1>1. CASE Empty
  BY <1>1, EmptyInv
<1>2. CASE ReturnNothing \/ BreakOutsideLoop \/ ForWithoutPart
  BY <1>2, StopInv DEF ReturnNothing, BreakOutsideLoop, ForWithoutPart
<1>3. CASE Break
  BY <1>3, BreakInv
<1>4. CASE \E e \in Exprs : Simple(e) \/ Return(e) \/ If(e) \/ While(e)
  BY <1>4, SimpleInv, ReturnInv, IfInv, WhileInv
<1>5. CASE \E init, e, update \in Exprs : For(init, e, update)
  BY <1>5, ForInv
<1>6. CASE OpenBlock \/ CloseBlock
  BY <1>6, OpenBlockInv, CloseBlockInv
<1>7. CASE Else \/ EndIf \/ EndIfElse
  BY <1>7, ElseInv, EndIfInv, EndIfElseInv
<1>8. CASE EndLoop
  BY <1>8, EndLoopInv
<1>9. CASE MissingReturn \/ EndValueMethod \/ EndVoidMethod
  BY <1>9, EndInv, EndVoidInv
<1>10. CASE UNCHANGED vars
  BY <1>10 DEF vars, LoweringInv, Stack, Rest
<1>. QED BY <1>1, <1>2, <1>3, <1>4, <1>5, <1>6, <1>7, <1>8, <1>9, <1>10 DEF Next

LEMMA LoweringInvariant == Spec => []LoweringInv
BY LoweringInit, LoweringStep, PTL DEF Spec

(* For bodies of any size the state has its types: in particular the       *)
(* builder always inserts into a block that was created, and loopLevel is  *)
(* never decremented below zero.                                           *)
THEOREM LoweringTypeCorrect == Spec => []TypeOK
<1>1. LoweringInv => TypeOK
  BY LenProperties DEF LoweringInv, Stack, Rest, TypeOK, Good, IR, Blocks
<1>. QED BY <1>1, LoweringInvariant, PTL

(* For bodies of any size, TypeChecker's loopLevel and CodeGenVisitor's    *)
(* loopExits tell of the same open loops, innermost last: no break that is *)
(* accepted finds the list of exits empty.                                 *)
THEOREM ExitsCorrect == Spec => []LoopExitsAreOpenLoops
<1>1. LoweringInv => LoopExitsAreOpenLoops
  BY DEF LoweringInv, Stack, ExitsMatch, LoopsOf, Upto, LoopExitsAreOpenLoops, LoopsOpen
<1>. QED BY <1>1, LoweringInvariant, PTL

-----------------------------------------------------------------------------
(* Control is nowhere after a statement that returns; and once the side    *)
(* before else has returned, it leaves for the end of the if from nowhere. *)
RetInv ==
  /\ top.done = "ret" => pend = {}
  /\ \A i \in DOMAIN open : open[i].kind = "else" /\ open[i].thenRet = "ret" => open[i].ends = {}
  /\ phase = "generated" => pend = {}

LEMMA RetComplete ==
  ASSUME Stack, RetInv, NEW r \in Returns, open' = Ends(open, r),
         r = "ret" => pend' = {}, phase' # "generated"
  PROVE  RetInv'
<1>1. /\ open \in Seq(Frame) /\ open # <<>> /\ DOMAIN open = 1..Len(open)
  BY TopShape DEF Stack
<1>2. /\ open' \in Seq(Frame) /\ Len(open') = Len(open)
      /\ open'[Len(open)].done = r
      /\ \A i \in 1..Len(open) :
           /\ open'[i].kind = open[i].kind /\ open'[i].thenRet = open[i].thenRet
           /\ open'[i].ends = open[i].ends
  BY <1>1, EndsShape
<1>3. DOMAIN open' = 1..Len(open)
  BY <1>2, LenProperties
<1>4. top' = open'[Len(open)]
  BY <1>2 DEF top
<1>. QED BY <1>1, <1>2, <1>3, <1>4 DEF RetInv

LEMMA RetOpens ==
  ASSUME Stack, RetInv, NEW f \in Frame, f.done = "none", f.kind # "else",
         open' = Append(open, f), phase' # "generated"
  PROVE  RetInv'
<1>1. /\ open' \in Seq(Frame) /\ Len(open') = Len(open) + 1
      /\ \A i \in 1..Len(open) : open'[i] = open[i]
      /\ open'[Len(open) + 1] = f
  BY AppendProperties DEF Stack
<1>2. DOMAIN open' = 1..(Len(open) + 1) /\ DOMAIN open = 1..Len(open) /\ Len(open) \in Nat
  BY <1>1, TopShape, LenProperties
<1>3. top' = f
  BY <1>1 DEF top
<1>. QED BY <1>1, <1>2, <1>3 DEF RetInv

LEMMA RetCloses ==
  ASSUME Stack, RetInv, Len(open) > 1, NEW r \in Returns, open' = Ends(Outer, r),
         r = "ret" => pend' = {}, phase' # "generated"
  PROVE  RetInv'
<1>1. /\ Outer \in Seq(Frame) /\ Len(Outer) = Len(open) - 1 /\ Outer # <<>>
      /\ \A i \in 1..Len(Outer) : Outer[i] = open[i]
  BY OuterShape DEF Stack
<1>2. /\ open' \in Seq(Frame) /\ Len(open') = Len(Outer)
      /\ open'[Len(Outer)].done = r
      /\ \A i \in 1..Len(Outer) :
           /\ open'[i].kind = Outer[i].kind /\ open'[i].thenRet = Outer[i].thenRet
           /\ open'[i].ends = Outer[i].ends
  BY SMTT(30), <1>1, EndsShape
<1>3. DOMAIN open' = 1..Len(Outer) /\ DOMAIN open = 1..Len(open) /\ Len(open) \in Nat
  BY <1>2, TopShape, LenProperties
<1>4. top' = open'[Len(Outer)]
  BY <1>2 DEF top
<1>5. \A i \in 1..Len(Outer) : i \in DOMAIN open
  BY <1>1, <1>3
<1>. QED BY SMTT(30), <1>1, <1>2, <1>3, <1>4, <1>5 DEF RetInv

(* A break notes where control leaves a loop, never at an else.            *)
LEMMA RetBreak == ASSUME LoweringInv, RetInv, Break PROVE RetInv'
<1>. DEFINE fs == [open EXCEPT ![InnermostLoop].ends = @ \cup pend]
<1>1. Stack /\ open \in Seq(Frame) /\ pend \in SUBSET Place /\ open # <<>>
  BY DEF LoweringInv, Rest, Stack
<1>2. InnermostLoop \in DOMAIN open /\ open[InnermostLoop].kind = "loop"
  <2>1. LoopsOf(open) # {}
    <3>1. loopLevel = Cardinality(LoopsOf(open)) /\ loopLevel > 0
      BY <1>1 DEF Break, Stack, ExitsMatch
    <3>. QED BY <3>1, FS_EmptySet
  <2>2. PICK i \in LoopsOf(open) : \A j \in LoopsOf(open) : j <= i
    BY <1>1, <2>1, InnermostExists
  <2>3. DOMAIN open = 1..Len(open) /\ Len(open) \in Nat
    BY <1>1, TopShape
  <2>4. \A j \in DOMAIN open : j > i => open[j].kind # "loop"
    BY <2>2, <2>3 DEF LoopsOf
  <2>. QED BY <2>2, <2>4 DEF InnermostLoop, LoopsOf
<1>3. /\ fs \in Seq(Frame) /\ Len(fs) = Len(open)
      /\ \A i \in 1..Len(open) :
           /\ fs[i].kind = open[i].kind /\ fs[i].thenRet = open[i].thenRet
           /\ i # InnermostLoop => fs[i].ends = open[i].ends
  BY <1>1, BreakShape
<1>4. open' = Ends(fs, "noret") /\ phase' = "visiting"
  BY DEF Break, Starts, AtStatement
<1>. HIDE DEF fs
<1>5. fs # <<>> /\ Len(open) \in Nat \ {0} /\ DOMAIN open = 1..Len(open)
  BY <1>1, <1>3, TopShape
<1>6. /\ open' \in Seq(Frame) /\ Len(open') = Len(open)
      /\ open'[Len(open)].done = "noret"
      /\ \A i \in 1..Len(open) :
           /\ open'[i].kind = fs[i].kind /\ open'[i].thenRet = fs[i].thenRet
           /\ open'[i].ends = fs[i].ends
  BY <1>3, <1>4, <1>5, EndsShape DEF Returns
<1>7. DOMAIN open' = 1..Len(open)
  BY <1>6, LenProperties
<1>8. top' = open'[Len(open)]
  BY <1>6 DEF top
<1>9. \A i \in DOMAIN open' : open'[i].kind = "else" /\ open'[i].thenRet = "ret" => open'[i].ends = {}
  BY <1>2, <1>3, <1>5, <1>6, <1>7 DEF RetInv
<1>. QED BY <1>4, <1>6, <1>8, <1>9 DEF RetInv

LEMMA RetElse == ASSUME LoweringInv, RetInv, Else PROVE RetInv'
<1>. DEFINE n == Len(open)
<1>1. Stack /\ open \in Seq(Frame) /\ n \in 1..n /\ DOMAIN open = 1..n /\ top \in Frame /\ top = open[n]
  BY TopShape DEF LoweringInv, Stack, top
<1>2. open' \in Seq(Frame) /\ Stack'
  BY ElseInv DEF LoweringInv, Stack
<1>3. PICK g : /\ g = [top EXCEPT !.kind = "else", !.thenRet = top.done, !.done = "none", !.ends = pend]
               /\ open' = [open EXCEPT ![n] = g]
  BY DEF Else, top
<1>4. g.done = "none" /\ g.thenRet = top.done /\ g.ends = pend
  BY <1>1, <1>3 DEF Frame
<1>5. /\ DOMAIN open' = 1..n /\ open'[n] = g
      /\ \A i \in 1..n : i # n => open'[i] = open[i]
  BY <1>1, <1>3
<1>6. top' = g
  <2>1. g \in Frame
    BY <1>1, <1>2, <1>5, LenProperties
  <2>2. Len(open') = n
    BY <1>1, <1>3, <2>1, ExceptSeq
  <2>. QED BY <2>2, <1>5 DEF top
<1>7. phase' = "visiting"
  BY DEF Else, Inside
<1>. QED BY <1>1, <1>4, <1>5, <1>6, <1>7 DEF RetInv

LEMMA RetInit == Init => RetInv
BY DEF Init, RetInv, top, Block, F

LEMMA RetStep == LoweringInv /\ RetInv /\ [Next]_vars => RetInv'
<1>. SUFFICES ASSUME LoweringInv, RetInv, [Next]_vars PROVE RetInv'
  OBVIOUS
<1>0. Stack
  BY DEF LoweringInv
<1>. USE DEF Starts, AtStatement, Inside, Returns
<1>1. CASE Empty
  BY <1>0, <1>1, RetComplete DEF Empty
<1>2. CASE ReturnNothing \/ BreakOutsideLoop \/ ForWithoutPart
  BY <1>2 DEF ReturnNothing, BreakOutsideLoop, ForWithoutPart, RetInv, top
<1>3. CASE Break
  BY <1>3, RetBreak
<1>4. ASSUME NEW e \in Exprs, Simple(e) PROVE RetInv'
  BY <1>0, <1>4, RetComplete DEF Simple
<1>5. ASSUME NEW e \in Exprs, Return(e) PROVE RetInv'
  BY <1>0, <1>5, RetComplete DEF Return
<1>6. ASSUME NEW e \in Exprs, If(e) PROVE RetInv'
  <2>1. PICK f : f.done = "none" /\ f.kind = "then" /\ open' = Append(open, f)
    BY <1>6 DEF If, F
  <2>2. Len(open') = Len(open) + 1 /\ open' \in Seq(Frame) /\ open'[Len(open')] = f
    BY <1>0, <1>6, <2>1, IfInv DEF LoweringInv, Stack
  <2>3. f \in Frame
    BY <1>0, <2>2, TopShape, ElementOfSeq
  <2>. QED BY <1>0, <1>6, <2>1, <2>3, RetOpens DEF If
<1>7. CASE OpenBlock
  <2>1. Block \in Frame /\ Block.kind = "block" /\ Block.done = "none"
    BY DEF Block, F, Frame, Entry, Place
  <2>. QED BY <1>0, <1>7, <2>1, RetOpens DEF OpenBlock
<1>8. CASE CloseBlock
  BY <1>0, <1>8, RetCloses DEF CloseBlock, RetInv
<1>9. CASE Else
  BY <1>9, RetElse
<1>10. CASE EndIf
  <2>1. Len(open) > 1
    BY <1>0, <1>10, TopShape DEF EndIf
  <2>. QED BY <1>0, <1>10, <2>1, RetCloses DEF EndIf
<1>11. CASE EndIfElse
  <2>. DEFINE returns == top.thenRet = "ret" /\ top.done = "ret"
  <2>1. Len(open) > 1 /\ Len(open) \in DOMAIN open
    BY <1>0, <1>11, TopShape DEF EndIfElse
  <2>2. top.kind = "else" /\ top.thenRet = "ret" => top.ends = {}
    BY <2>1 DEF RetInv, top
  <2>3. returns => pend' = {}
    BY <1>11, <2>2 DEF EndIfElse, RetInv
  <2>4. open' = Ends(Outer, IF returns THEN "ret" ELSE "noret") /\ phase' = "visiting"
    BY <1>11 DEF EndIfElse
  <2>. HIDE DEF returns
  <2>5. CASE returns
    BY <1>0, <2>1, <2>3, <2>4, <2>5, RetCloses
  <2>6. CASE ~returns
    BY <1>0, <2>1, <2>4, <2>6, RetCloses
  <2>. QED BY <2>5, <2>6
<1>12. CASE EndLoop
  <2>1. Len(open) > 1
    BY <1>0, <1>12, TopShape DEF EndLoop
  <2>. QED BY <1>0, <1>12, <2>1, RetCloses DEF EndLoop
<1>13. ASSUME NEW s, NEW in, NEW e, NEW update, EnterLoop(s, in, e, update), LoweringInv', phase' = "visiting"
       PROVE  RetInv'
  <2>1. PICK f : f.done = "none" /\ f.kind = "loop" /\ open' = Append(open, f)
    BY <1>13 DEF EnterLoop, F
  <2>2. Len(open') = Len(open) + 1 /\ open' \in Seq(Frame) /\ open'[Len(open')] = f
    BY <1>0, <1>13, <2>1 DEF LoweringInv, Stack
  <2>3. f \in Frame
    BY <1>0, <2>2, TopShape, ElementOfSeq
  <2>. QED BY <1>0, <1>13, <2>1, <2>3, RetOpens
<1>14. ASSUME NEW e \in Exprs, While(e) PROVE RetInv'
  <2>1. EnterLoop(LoopBlocks, Fresh(ir), e, "none") /\ phase' = "visiting"
    BY <1>14 DEF While
  <2>2. LoweringInv'
    BY <1>14, WhileInv
  <2>. QED BY <2>1, <2>2, <1>13
<1>15. ASSUME NEW init \in Exprs, NEW e \in Exprs, NEW update \in Exprs, For(init, e, update)
       PROVE  RetInv'
  <2>1. EnterLoop(Eval(LoopBlocks, init), Fresh(ir), e, update) /\ phase' = "visiting"
    BY <1>15 DEF For
  <2>2. LoweringInv'
    BY <1>15, ForInv
  <2>. QED BY <2>1, <2>2, <1>13
<1>16. CASE MissingReturn \/ EndValueMethod \/ EndVoidMethod
  BY <1>16 DEF MissingReturn, EndValueMethod, EndVoidMethod, RetInv, top
<1>17. CASE UNCHANGED vars
  BY <1>17 DEF vars, RetInv, top
<1>. QED BY <1>1, <1>2, <1>3, <1>4, <1>5, <1>6, <1>7, <1>8, <1>9, <1>10, <1>11, <1>12,
            <1>14, <1>15, <1>16, <1>17 DEF Next

(* For bodies of any size hasRet tells the truth: control is not past a    *)
(* statement that has it, and when code is generated for a method that     *)
(* must return a value, control does not reach the end of its body.        *)
THEOREM HasRetCorrect == Spec => []HasRetStops
<1>1. LoweringInv /\ RetInv /\ [Next]_vars => LoweringInv' /\ RetInv'
  BY LoweringStep, RetStep
<1>2. RetInv => HasRetStops
  BY DEF RetInv, HasRetStops
<1>. QED BY <1>1, <1>2, LoweringInit, RetInit, PTL DEF Spec

-----------------------------------------------------------------------------
(* The blocks that are in the function, and those that a branch leads to.  *)
InPlace(s) == {b \in 1..Len(s.blocks) : s.blocks[b].placed}
Aims(code) == UNION {code[i].to : i \in DOMAIN code}
AimsOf(s) == UNION {Aims(s.blocks[b].code) : b \in 1..Len(s.blocks)}

(* Every branch leads into the function, or to a block of P, to come later.*)
Safe(s, P) == s.at \in InPlace(s) /\ AimsOf(s) \subseteq InPlace(s) \cup P

LEMMA SafeWeaker ==
  ASSUME NEW s, NEW P, NEW Q, Safe(s, P), P \subseteq InPlace(s) \cup Q
  PROVE  Safe(s, Q)
BY DEF Safe

LEMMA AimsIn ==
  ASSUME NEW s, NEW x
  PROVE  x \in AimsOf(s) <=> \E b \in 1..Len(s.blocks) : x \in Aims(s.blocks[b].code)
BY DEF AimsOf

LEMMA PutSafe ==
  ASSUME NEW s, Good(s), NEW P, Safe(s, P), NEW i \in Instr, i.to \subseteq InPlace(s) \cup P
  PROVE  Safe(Put(s, i), P) /\ InPlace(Put(s, i)) = InPlace(s)
<1>. DEFINE b == s.blocks[s.at]
            c == [b EXCEPT !.code = Append(@, i)]
            t == Put(s, i)
<1>1. s.blocks \in Seq(BasicBlock) /\ s.at \in 1..Len(s.blocks) /\ Len(s.blocks) \in Nat
  BY GoodLen DEF Good, IR
<1>2. b \in BasicBlock
  BY <1>1, ElementOfSeq
<1>3. /\ b.code \in Seq(Instr)
      /\ c.code = Append(b.code, i) /\ c.placed = b.placed
  BY <1>2 DEF BasicBlock
<1>4. Good(t) /\ Len(t.blocks) = Len(s.blocks) /\ t.at = s.at
  BY PutGood
<1>5. \A k \in 1..Len(s.blocks) : t.blocks[k] = IF k = s.at THEN c ELSE s.blocks[k]
  <2>1. t.blocks = [s.blocks EXCEPT ![s.at] = c]
    BY <1>1 DEF Put, Good, IR
  <2>2. s.blocks \in [1..Len(s.blocks) -> BasicBlock]
    BY <1>1, LenProperties
  <2>. QED BY <2>1, <2>2
<1>6. Aims(c.code) = Aims(b.code) \cup i.to
  <2>1. PICK q : q = b.code
    OBVIOUS
  <2>2. /\ DOMAIN q = 1..Len(q) /\ Len(q) \in Nat
        /\ DOMAIN Append(q, i) = 1..(Len(q) + 1)
        /\ \A k \in 1..Len(q) : Append(q, i)[k] = q[k]
        /\ Append(q, i)[Len(q) + 1] = i
    BY <1>3, <2>1, AppendProperties, LenProperties
  <2>3. Aims(Append(q, i)) = Aims(q) \cup i.to
    BY <2>2 DEF Aims
  <2>. QED BY <1>3, <2>1, <2>3
<1>. HIDE DEF c, b, t
<1>7. InPlace(t) = InPlace(s)
  BY <1>1, <1>3, <1>4, <1>5 DEF InPlace, b
<1>8. AimsOf(t) = AimsOf(s) \cup i.to
  <2>. SUFFICES ASSUME NEW x PROVE x \in AimsOf(t) <=> x \in AimsOf(s) \/ x \in i.to
    OBVIOUS
  <2>1. ASSUME NEW k \in 1..Len(s.blocks)
        PROVE  x \in Aims(t.blocks[k].code) <=>
                 x \in Aims(s.blocks[k].code) \/ (k = s.at /\ x \in i.to)
    <3>1. CASE k = s.at
      BY <3>1, <1>5, <1>6 DEF b
    <3>2. CASE k # s.at
      BY <3>2, <1>5
    <3>. QED BY <3>1, <3>2
  <2>. QED BY <2>1, <1>1, <1>4, AimsIn
<1>9. Safe(t, P)
  BY <1>4, <1>7, <1>8 DEF Safe
<1>. QED BY <1>7, <1>9 DEF t

LEMMA CreateSafe ==
  ASSUME NEW s, Good(s), NEW P, Safe(s, P), NEW p \in BOOLEAN
  PROVE  /\ Safe(Create(s, p), P) /\ InPlace(s) \subseteq InPlace(Create(s, p))
         /\ p => Fresh(s) \in InPlace(Create(s, p))
<1>. DEFINE b == [code |-> <<>>, placed |-> p]
            t == Create(s, p)
            n == Len(s.blocks)
<1>1. s.blocks \in Seq(BasicBlock) /\ n \in Nat /\ Fresh(s) = n + 1
  BY GoodLen DEF Good, IR
<1>2. b \in BasicBlock /\ Aims(b.code) = {} /\ b.placed = p
  BY DEF BasicBlock, Aims
<1>3. /\ Len(t.blocks) = n + 1 /\ t.blocks[n + 1] = b /\ t.at = s.at
      /\ \A k \in 1..n : t.blocks[k] = s.blocks[k]
  <2>1. t.blocks = Append(s.blocks, b) /\ t.at = s.at
    BY DEF Create, Good, IR
  <2>. HIDE DEF b, t
  <2>. QED BY <1>1, <1>2, <2>1, AppendProperties
<1>. HIDE DEF b, t
<1>4. InPlace(s) \subseteq InPlace(t) /\ (p => n + 1 \in InPlace(t))
  BY <1>1, <1>2, <1>3 DEF InPlace
<1>5. AimsOf(t) = AimsOf(s)
  <2>. SUFFICES ASSUME NEW x PROVE x \in AimsOf(t) <=> x \in AimsOf(s)
    OBVIOUS
  <2>1. \A k \in 1..n : x \in Aims(t.blocks[k].code) <=> x \in Aims(s.blocks[k].code)
    BY <1>3
  <2>2. x \notin Aims(t.blocks[n + 1].code)
    BY <1>2, <1>3
  <2>3. \A k \in 1..(n + 1) : k = n + 1 \/ k \in 1..n
    BY <1>1
  <2>. QED BY <2>1, <2>2, <2>3, <1>1, <1>3, AimsIn
<1>. QED BY <1>1, <1>3, <1>4, <1>5 DEF Safe, t

LEMMA PlaceAtSafe ==
  ASSUME NEW s, Good(s), NEW P, Safe(s, P), NEW b \in 1..Len(s.blocks)
  PROVE  /\ Safe(PlaceAt(s, b), P) /\ Safe(PlaceAt(s, b), P \ {b})
         /\ InPlace(PlaceAt(s, b)) = InPlace(s) \cup {b}
<1>. DEFINE c == [s.blocks[b] EXCEPT !.placed = TRUE]
            t == PlaceAt(s, b)
<1>1. s.blocks \in Seq(BasicBlock) /\ Len(s.blocks) \in Nat
  BY GoodLen DEF Good, IR
<1>2. s.blocks[b] \in BasicBlock
  BY <1>1, ElementOfSeq
<1>3. c.placed = TRUE /\ c.code = s.blocks[b].code
  BY <1>2 DEF BasicBlock
<1>4. /\ Len(t.blocks) = Len(s.blocks) /\ t.at = b
      /\ \A k \in 1..Len(s.blocks) : t.blocks[k] = IF k = b THEN c ELSE s.blocks[k]
  <2>1. t.blocks = [s.blocks EXCEPT ![b] = c] /\ t.at = b
    BY DEF PlaceAt
  <2>2. s.blocks \in [1..Len(s.blocks) -> BasicBlock]
    BY <1>1, LenProperties
  <2>3. Len(t.blocks) = Len(s.blocks)
    BY PlaceAtGood
  <2>. QED BY <2>1, <2>2, <2>3
<1>. HIDE DEF c, t
<1>5. InPlace(t) = InPlace(s) \cup {b}
  BY <1>3, <1>4 DEF InPlace
<1>6. AimsOf(t) = AimsOf(s)
  BY <1>3, <1>4 DEF AimsOf
<1>. QED BY <1>4, <1>5, <1>6 DEF Safe, t

LEMMA InsertSafe ==
  ASSUME NEW s, Good(s), NEW P, Safe(s, P), NEW b \in InPlace(s)
  PROVE  Safe(SetInsertPoint(s, b), P) /\ InPlace(SetInsertPoint(s, b)) = InPlace(s)
<1>1. SetInsertPoint(s, b).blocks = s.blocks /\ SetInsertPoint(s, b).at = b
  BY DEF SetInsertPoint, Good, IR
<1>. QED BY <1>1 DEF Safe, InPlace, AimsOf

LEMMA EvalSafe ==
  ASSUME NEW s, Good(s), NEW P, Safe(s, P), NEW e
  PROVE  Safe(Eval(s, e), P) /\ InPlace(s) \subseteq InPlace(Eval(s, e))
<1>. DEFINE t   == Put(s, Point)
            chk == Fresh(t)
            c1  == Create(t, TRUE)
            c2  == Create(c1, FALSE)
            s1  == Put(c2, Br({chk, chk + 1}))
            i1  == SetInsertPoint(s1, chk)
            s2  == Put(i1, Br({chk + 1}))
            Q   == P \cup {chk + 1}
<1>1. /\ Good(t) /\ Len(t.blocks) = Len(s.blocks) /\ Len(s.blocks) \in Nat
      /\ Safe(t, P) /\ InPlace(t) = InPlace(s)
  <2>1. Point \in Instr /\ Point.to = {}
    BY InstrTypes DEF Point
  <2>. QED BY <2>1, PutGood, PutSafe, GoodLen
<1>2. chk \in Nat /\ chk = Len(t.blocks) + 1
  BY <1>1, GoodLen
<1>3. Safe(t, Q)
  BY <1>1, SafeWeaker
<1>. HIDE DEF t
<1>4. /\ Good(c1) /\ Len(c1.blocks) = chk
      /\ Safe(c1, Q) /\ InPlace(t) \subseteq InPlace(c1) /\ chk \in InPlace(c1)
  BY <1>1, <1>2, <1>3, CreateGood, CreateSafe
<1>. HIDE DEF c1, chk
<1>5. /\ Good(c2) /\ Len(c2.blocks) = chk + 1
      /\ Safe(c2, Q) /\ InPlace(c1) \subseteq InPlace(c2)
  BY <1>4, CreateGood, CreateSafe
<1>. HIDE DEF c2
<1>6. /\ Br({chk, chk + 1}) \in Instr /\ Br({chk, chk + 1}).to = {chk, chk + 1}
      /\ Br({chk + 1}) \in Instr /\ Br({chk + 1}).to = {chk + 1}
  <2>1. {chk, chk + 1} \in SUBSET Nat /\ {chk + 1} \in SUBSET Nat
    BY <1>2
  <2>. QED BY <2>1, InstrTypes DEF Br
<1>61. Br({chk, chk + 1}).to \subseteq InPlace(c2) \cup Q /\ Br({chk + 1}).to \subseteq Q
  BY <1>4, <1>5, <1>6
<1>7. Good(s1) /\ Len(s1.blocks) = chk + 1 /\ Safe(s1, Q) /\ InPlace(s1) = InPlace(c2)
  BY <1>5, <1>6, <1>61, PutGood, PutSafe
<1>. HIDE DEF s1
<1>8. chk \in InPlace(s1) /\ chk \in 1..Len(s1.blocks) /\ chk + 1 \in 1..Len(s1.blocks)
  BY <1>1, <1>2, <1>4, <1>5, <1>7
<1>9. Good(i1) /\ Len(i1.blocks) = chk + 1 /\ Safe(i1, Q) /\ InPlace(i1) = InPlace(s1)
  BY <1>7, <1>8, SetInsertPointGood, InsertSafe
<1>. HIDE DEF i1
<1>10. Good(s2) /\ Len(s2.blocks) = chk + 1 /\ Safe(s2, Q) /\ InPlace(s2) = InPlace(s1)
  <2>1. Br({chk + 1}).to \subseteq InPlace(i1) \cup Q
    BY <1>61
  <2>. QED BY <1>6, <1>9, <2>1, PutGood, PutSafe
<1>. HIDE DEF s2, Q
<1>11. /\ Safe(PlaceAt(s2, chk + 1), Q \ {chk + 1})
       /\ InPlace(PlaceAt(s2, chk + 1)) = InPlace(s2) \cup {chk + 1}
  BY <1>7, <1>8, <1>10, PlaceAtSafe
<1>12. Safe(PlaceAt(s2, chk + 1), P)
  BY <1>11, SafeWeaker DEF Q
<1>13. CheckArray(t) = PlaceAt(s2, chk + 1)
  BY DEF CheckArray, s2, i1, s1, c2, c1, chk
<1>14. Eval(s, e) = t \/ Eval(s, e) = CheckArray(t)
  BY DEF Eval, t
<1>. QED BY <1>1, <1>4, <1>5, <1>7, <1>10, <1>11, <1>12, <1>13, <1>14

-----------------------------------------------------------------------------
(* The blocks that a construct will still put into the function, and that  *)
(* branches may lead to by now.  The block after an if is left out when    *)
(* both sides return: then no branch leads there.                          *)
Later(f) ==
  CASE f.kind = "then" -> {f.back}
    [] f.kind = "loop" -> {f.out}
    [] f.kind = "else" -> IF f.thenRet = "ret" THEN {} ELSE {f.out}
    [] OTHER -> {}

Pending(fs) == UNION {Later(fs[i]) : i \in DOMAIN fs}

(* The conditions of the loops are in the function, too.                   *)
Backs(fs) == {fs[i].back : i \in LoopsOf(fs)}

DangleInv ==
  /\ Safe(ir, Pending(open)) /\ Backs(open) \subseteq InPlace(ir) /\ 1 \in InPlace(ir)
  /\ phase = "generated" => Len(open) = 1

LEMMA PendingSame ==
  ASSUME NEW fs \in Seq(Frame), NEW gs \in Seq(Frame), Len(gs) = Len(fs),
         \A i \in 1..Len(fs) :
           /\ gs[i].kind = fs[i].kind /\ gs[i].back = fs[i].back
           /\ gs[i].out = fs[i].out /\ gs[i].thenRet = fs[i].thenRet
  PROVE  Pending(gs) = Pending(fs) /\ Backs(gs) = Backs(fs)
<1>1. DOMAIN fs = 1..Len(fs) /\ DOMAIN gs = 1..Len(fs)
  BY LenProperties
<1>2. \A i \in 1..Len(fs) : Later(gs[i]) = Later(fs[i])
  BY DEF Later
<1>3. Pending(gs) = Pending(fs)
  BY <1>1, <1>2 DEF Pending
<1>4. LoopsOf(gs) = LoopsOf(fs) /\ LoopsOf(fs) \subseteq 1..Len(fs)
  BY <1>1 DEF LoopsOf
<1>. QED BY <1>3, <1>4 DEF Backs

(* What the construct on top adds to the others.                           *)
LEMMA PendingLast ==
  ASSUME NEW fs \in Seq(Frame), NEW gs \in Seq(Frame), Len(gs) = Len(fs) + 1,
         \A i \in 1..Len(fs) : gs[i] = fs[i],
         NEW f, gs[Len(fs) + 1] = f
  PROVE  /\ Pending(gs) = Pending(fs) \cup Later(f)
         /\ Backs(gs) = Backs(fs) \cup (IF f.kind = "loop" THEN {f.back} ELSE {})
<1>2. /\ Len(fs) \in Nat /\ DOMAIN fs = 1..Len(fs) /\ DOMAIN gs = 1..(Len(fs) + 1)
      /\ \A i \in 1..Len(fs) : gs[i] = fs[i]
      /\ gs[Len(fs) + 1] = f
  BY LenProperties
<1>3. \A i : i \in DOMAIN gs <=> i \in DOMAIN fs \/ i = Len(fs) + 1
  BY <1>2
<1>4. Pending(gs) = Pending(fs) \cup Later(f)
  <2>. SUFFICES ASSUME NEW x PROVE x \in Pending(gs) <=> x \in Pending(fs) \/ x \in Later(f)
    OBVIOUS
  <2>1. /\ x \in Pending(gs) <=> \E i \in DOMAIN gs : x \in Later(gs[i])
        /\ x \in Pending(fs) <=> \E i \in DOMAIN fs : x \in Later(fs[i])
    BY DEF Pending
  <2>. QED BY <1>2, <1>3, <2>1
<1>5. \A i : i \in LoopsOf(gs) <=> i \in LoopsOf(fs) \/ (i = Len(fs) + 1 /\ f.kind = "loop")
  BY <1>2, <1>3 DEF LoopsOf
<1>6. Backs(gs) = Backs(fs) \cup (IF f.kind = "loop" THEN {f.back} ELSE {})
  <2>. SUFFICES ASSUME NEW x
                PROVE  x \in Backs(gs) <=> x \in Backs(fs) \/ (f.kind = "loop" /\ x = f.back)
    OBVIOUS
  <2>1. /\ x \in Backs(gs) <=> \E i \in LoopsOf(gs) : x = gs[i].back
        /\ x \in Backs(fs) <=> \E i \in LoopsOf(fs) : x = fs[i].back
    BY DEF Backs
  <2>2. \A i \in LoopsOf(fs) : gs[i] = fs[i]
    BY <1>2 DEF LoopsOf
  <2>. QED BY <1>2, <1>5, <2>1, <2>2
<1>. QED BY <1>4, <1>6

LEMMA PendingPush ==
  ASSUME NEW fs \in Seq(Frame), NEW f \in Frame
  PROVE  /\ Pending(Append(fs, f)) = Pending(fs) \cup Later(f)
         /\ Backs(Append(fs, f)) = Backs(fs) \cup (IF f.kind = "loop" THEN {f.back} ELSE {})
<1>1. PICK gs \in Seq(Frame) : gs = Append(fs, f)
  BY AppendProperties
<1>2. /\ Len(gs) = Len(fs) + 1 /\ gs[Len(fs) + 1] = f
      /\ \A i \in 1..Len(fs) : gs[i] = fs[i]
  BY <1>1, AppendProperties, LenProperties
<1>. QED BY <1>1, <1>2, PendingLast

LEMMA PendingOuter ==
  ASSUME Stack, Len(open) > 1
  PROVE  Pending(open) = Pending(Outer) \cup Later(top) /\ Backs(Outer) \subseteq Backs(open)
<1>1. /\ Outer \in Seq(Frame) /\ Len(Outer) = Len(open) - 1
      /\ \A i \in 1..Len(Outer) : Outer[i] = open[i]
  BY OuterShape DEF Stack
<1>2. open \in Seq(Frame) /\ Len(open) = Len(Outer) + 1 /\ open[Len(Outer) + 1] = top
  BY <1>1, TopShape DEF Stack, top
<1>. QED BY <1>1, <1>2, PendingLast

LEMMA TopLater ==
  ASSUME Stack
  PROVE  Later(top) \subseteq Pending(open) /\ (top.kind = "loop" => top.back \in Backs(open))
<1>1. Len(open) \in DOMAIN open /\ top = open[Len(open)]
  BY TopShape DEF top
<1>2. Later(top) \subseteq Pending(open)
  BY <1>1 DEF Pending
<1>3. top.kind = "loop" => top.back \in Backs(open)
  BY <1>1 DEF Backs, LoopsOf
<1>. QED BY <1>2, <1>3

(* Steps by what they do to the list of constructs.                        *)
Advances == Safe(ir', Pending(open)) /\ InPlace(ir) \subseteq InPlace(ir')

LEMMA DangleStays ==
  ASSUME Stack, DangleInv, Advances, open' \in Seq(Frame), Len(open') = Len(open),
         \A i \in 1..Len(open) :
           /\ open'[i].kind = open[i].kind /\ open'[i].back = open[i].back
           /\ open'[i].out = open[i].out /\ open'[i].thenRet = open[i].thenRet,
         phase' = "generated" => Len(open) = 1
  PROVE  DangleInv'
<1>1. Pending(open') = Pending(open) /\ Backs(open') = Backs(open)
  BY PendingSame DEF Stack
<1>. QED BY <1>1 DEF DangleInv, Advances

LEMMA DangleComplete ==
  ASSUME Stack, DangleInv, Advances, NEW r \in Returns, open' = Ends(open, r), phase' # "generated"
  PROVE  DangleInv'
BY DangleStays, EndsShape DEF Stack

LEMMA DangleOpens ==
  ASSUME Stack, DangleInv, NEW f \in Frame, open' = Append(open, f), phase' # "generated",
         Safe(ir', Pending(open) \cup Later(f)), InPlace(ir) \subseteq InPlace(ir'),
         f.kind = "loop" => f.back \in InPlace(ir')
  PROVE  DangleInv'
<1>1. /\ Pending(open') = Pending(open) \cup Later(f)
      /\ Backs(open') = Backs(open) \cup (IF f.kind = "loop" THEN {f.back} ELSE {})
  BY PendingPush DEF Stack
<1>. QED BY <1>1 DEF DangleInv

LEMMA DangleCloses ==
  ASSUME Stack, DangleInv, Len(open) > 1, NEW r \in Returns, open' = Ends(Outer, r),
         phase' # "generated",
         Safe(ir', Pending(Outer)), InPlace(ir) \subseteq InPlace(ir')
  PROVE  DangleInv'
<1>1. Outer \in Seq(Frame) /\ Outer # <<>>
  BY OuterShape DEF Stack
<1>2. Pending(open') = Pending(Outer) /\ Backs(open') = Backs(Outer)
  BY <1>1, EndsShape, PendingSame
<1>. QED BY <1>2, PendingOuter DEF DangleInv

-----------------------------------------------------------------------------
LEMMA AdvancesStays == ASSUME DangleInv, UNCHANGED ir PROVE Advances
BY DEF DangleInv, Advances

LEMMA AdvancesEval == ASSUME Stack, DangleInv, NEW e, ir' = Eval(ir, e) PROVE Advances
BY EvalSafe DEF Stack, DangleInv, Advances

LEMMA RetTypes == Ret \in Instr /\ Ret.to = {} /\ Point \in Instr /\ Point.to = {}
BY InstrTypes DEF Ret, Point

LEMMA BrTypes ==
  ASSUME NEW T \in SUBSET Nat
  PROVE  Br(T) \in Instr /\ Br(T).to = T
BY InstrTypes DEF Br

(* A branch leads out of the innermost loop, to a block that is to come.   *)
LEMMA BreakSafe ==
  ASSUME Stack, loopLevel > 0
  PROVE  loopExits[Len(loopExits)] \in Pending(open) /\ loopExits[Len(loopExits)] \in Nat
<1>1. /\ open \in Seq(Frame) /\ loopLevel = Cardinality(LoopsOf(open)) /\ Len(loopExits) = loopLevel
      /\ \A i \in LoopsOf(open) : loopExits[Cardinality(Upto(open, i))] = open[i].out
  BY DEF Stack, ExitsMatch
<1>2. LoopsOf(open) # {}
  <2>1. loopLevel = Cardinality(LoopsOf(open)) /\ loopLevel > 0
    BY <1>1
  <2>. QED BY <2>1, FS_EmptySet
<1>3. PICK i \in LoopsOf(open) : \A j \in LoopsOf(open) : j <= i
  BY <1>1, <1>2, InnermostExists
<1>4. Upto(open, i) = LoopsOf(open)
  BY <1>3 DEF Upto
<1>5. loopExits[Len(loopExits)] = open[i].out
  BY <1>1, <1>4
<1>6. i \in DOMAIN open /\ open[i].kind = "loop" /\ open[i] \in Frame
  BY <1>1, LenProperties, ElementOfSeq DEF LoopsOf
<1>7. open[i].out \in Pending(open)
  BY <1>6 DEF Pending, Later
<1>. QED BY <1>5, <1>6, <1>7 DEF Frame

LEMMA DangleReturn == ASSUME Stack, DangleInv, NEW e, Return(e) PROVE DangleInv'
<1>. DEFINE s == Eval(ir, e)
<1>1. Good(ir) /\ ir' = Put(s, Ret) /\ open' = Ends(open, "ret") /\ phase' = "visiting"
  BY DEF Stack, Return, Starts, AtStatement
<1>2. Good(s) /\ Safe(s, Pending(open)) /\ InPlace(ir) \subseteq InPlace(s)
  BY <1>1, EvalGood, EvalSafe DEF DangleInv
<1>. HIDE DEF s
<1>3. Advances
  BY <1>1, <1>2, RetTypes, PutSafe DEF Advances
<1>. QED BY <1>1, <1>3, DangleComplete DEF Returns

LEMMA DangleBreak == ASSUME LoweringInv, DangleInv, Break PROVE DangleInv'
<1>. DEFINE exit == loopExits[Len(loopExits)]
            s    == Put(ir, Br({exit}))
            s1   == Create(s, TRUE)
            fs   == [open EXCEPT ![InnermostLoop].ends = @ \cup pend]
<1>1. Stack /\ Good(ir) /\ open \in Seq(Frame) /\ pend \in SUBSET Place /\ open # <<>>
  BY DEF LoweringInv, Rest, Stack
<1>2. /\ ir' = SetInsertPoint(s1, Fresh(s)) /\ open' = Ends(fs, "noret")
      /\ phase' = "visiting" /\ loopLevel > 0
  BY DEF Break, Starts, AtStatement
<1>3. /\ fs \in Seq(Frame) /\ Len(fs) = Len(open)
      /\ \A i \in 1..Len(open) :
           /\ fs[i].kind = open[i].kind /\ fs[i].back = open[i].back
           /\ fs[i].out = open[i].out /\ fs[i].thenRet = open[i].thenRet
  BY <1>1, BreakShape
<1>4. exit \in Pending(open) /\ exit \in Nat
  BY <1>1, <1>2, BreakSafe
<1>5. Br({exit}) \in Instr /\ Br({exit}).to \subseteq Pending(open)
  <2>1. {exit} \in SUBSET Nat
    BY <1>4
  <2>. QED BY <1>4, <2>1, BrTypes
<1>. HIDE DEF exit, fs
<1>6. Good(s) /\ Safe(s, Pending(open)) /\ InPlace(s) = InPlace(ir)
  BY <1>1, <1>5, PutGood, PutSafe DEF DangleInv
<1>. HIDE DEF s
<1>7. /\ Good(s1) /\ Safe(s1, Pending(open)) /\ InPlace(s) \subseteq InPlace(s1)
      /\ Fresh(s) \in InPlace(s1)
  BY <1>6, CreateGood, CreateSafe
<1>. HIDE DEF s1
<1>8. Advances
  BY <1>2, <1>6, <1>7, InsertSafe DEF Advances
<1>9. fs # <<>>
  BY <1>1, <1>3, TopShape
<1>10. /\ open' \in Seq(Frame) /\ Len(open') = Len(open)
       /\ \A i \in 1..Len(open) :
            /\ open'[i].kind = open[i].kind /\ open'[i].back = open[i].back
            /\ open'[i].out = open[i].out /\ open'[i].thenRet = open[i].thenRet
  BY <1>2, <1>3, <1>9, EndsShape DEF Returns
<1>. QED BY <1>1, <1>2, <1>8, <1>10, DangleStays

LEMMA DangleIf == ASSUME Stack, DangleInv, NEW e, If(e) PROVE DangleInv'
<1>. DEFINE s     == Eval(ir, e)
            then  == Fresh(s)
            else  == then + 1
            merge == then + 2
            m1    == Create(s, TRUE)
            m2    == Create(m1, FALSE)
            made  == Create(m2, FALSE)
            cut   == Put(made, Br({then, else}))
            f     == F("then", else, merge, Loc(ir), {}, "none")
            P     == Pending(open)
            Q     == P \cup {else}
<1>1. /\ Good(ir) /\ Loc(ir) \in Place /\ ir' = SetInsertPoint(cut, then)
      /\ open' = Append(open, f) /\ phase' = "visiting"
  BY LocPlace DEF If, Stack, Starts, AtStatement
<1>2. Good(s) /\ Safe(s, P) /\ InPlace(ir) \subseteq InPlace(s)
  BY <1>1, EvalGood, EvalSafe DEF DangleInv
<1>. HIDE DEF s
<1>3. Len(s.blocks) \in Nat /\ then = Len(s.blocks) + 1
  BY <1>2, GoodLen
<1>4. /\ Good(m1) /\ Safe(m1, P) /\ InPlace(s) \subseteq InPlace(m1) /\ then \in InPlace(m1)
  BY <1>2, CreateGood, CreateSafe
<1>. HIDE DEF m1, then
<1>5. Good(m2) /\ Safe(m2, P) /\ InPlace(m1) \subseteq InPlace(m2)
  BY <1>4, CreateGood, CreateSafe
<1>. HIDE DEF m2
<1>6. Good(made) /\ Safe(made, P) /\ InPlace(m2) \subseteq InPlace(made)
  BY <1>5, CreateGood, CreateSafe
<1>. HIDE DEF made
<1>7. Safe(made, Q)
  <2>1. P \subseteq InPlace(made) \cup Q
    OBVIOUS
  <2>. HIDE DEF P, Q
  <2>. QED BY <1>6, <2>1, SafeWeaker
<1>8. Br({then, else}) \in Instr /\ Br({then, else}).to \subseteq InPlace(made) \cup Q
  <2>1. {then, else} \in SUBSET Nat
    BY <1>3
  <2>. QED BY <1>4, <1>5, <1>6, <2>1, BrTypes
<1>. HIDE DEF P, Q
<1>9. Good(cut) /\ Safe(cut, Q) /\ InPlace(cut) = InPlace(made)
  BY <1>6, <1>7, <1>8, PutGood, PutSafe
<1>. HIDE DEF cut
<1>10. Safe(ir', Q) /\ InPlace(ir) \subseteq InPlace(ir')
  BY <1>1, <1>2, <1>4, <1>5, <1>6, <1>9, InsertSafe
<1>11. f \in Frame /\ f.kind = "then" /\ f.back = else
  <2>1. else \in Nat /\ merge \in Nat
    BY <1>3
  <2>2. f.kind = "then" /\ f.back = else
    BY DEF F
  <2>. QED BY <1>1, <2>1, <2>2, FrameTypes
<1>. HIDE DEF f
<1>12. Q = Pending(open) \cup Later(f)
  BY <1>11 DEF Later, Q, P
<1>. QED BY <1>1, <1>10, <1>11, <1>12, DangleOpens

LEMMA ToMergeSafe ==
  ASSUME Stack, DangleInv, top.kind # "block"
  PROVE  /\ Good(ToMerge) /\ Len(ToMerge.blocks) = Len(ir.blocks)
         /\ InPlace(ToMerge) = InPlace(ir)
         /\ Safe(ToMerge, Pending(open) \cup (IF top.done = "ret" THEN {} ELSE {top.out}))
<1>. DEFINE Q == Pending(open) \cup (IF top.done = "ret" THEN {} ELSE {top.out})
<1>1. Good(ir) /\ top.out \in Nat
  BY TopShape DEF Stack
<1>2. Safe(ir, Q)
  <2>1. Pending(open) \subseteq InPlace(ir) \cup Q
    OBVIOUS
  <2>. HIDE DEF Q
  <2>. QED BY <2>1, SafeWeaker DEF DangleInv
<1>3. CASE top.done = "ret"
  BY <1>2, <1>3, ToMergeGood DEF ToMerge
<1>4. CASE top.done # "ret"
  <2>1. Br({top.out}) \in Instr /\ Br({top.out}).to = {top.out}
    <3>1. {top.out} \in SUBSET Nat
      BY <1>1
    <3>. QED BY <3>1, BrTypes
  <2>2. Br({top.out}).to \subseteq InPlace(ir) \cup Q /\ ToMerge = Put(ir, Br({top.out}))
    BY <1>4, <2>1 DEF ToMerge
  <2>. HIDE DEF Q
  <2>3. Safe(Put(ir, Br({top.out})), Q) /\ InPlace(Put(ir, Br({top.out}))) = InPlace(ir)
    BY <1>1, <1>2, <2>1, <2>2, PutSafe
  <2>. QED BY <2>2, <2>3, ToMergeGood DEF Q
<1>. QED BY <1>3, <1>4

LEMMA DangleElse == ASSUME LoweringInv, DangleInv, Else PROVE DangleInv'
<1>. DEFINE n == Len(open)
            s == ToMerge
            L == IF top.done = "ret" THEN {} ELSE {top.out}
            Q == Pending(open) \cup L
<1>1. /\ Stack /\ open \in Seq(Frame) /\ n \in 1..n /\ n > 1 /\ top \in Frame /\ top = open[n]
      /\ top.kind = "then" /\ top.back \in 1..Len(ir.blocks) /\ phase' = "visiting"
  BY TopShape DEF LoweringInv, Stack, top, Else, Inside
<1>2. open' \in Seq(Frame)
  BY ElseInv DEF LoweringInv, Stack
<1>3. PICK g : /\ g = [top EXCEPT !.kind = "else", !.thenRet = top.done, !.done = "none", !.ends = pend]
               /\ open' = [open EXCEPT ![n] = g]
  BY DEF Else, top
<1>4. g.kind = "else" /\ g.thenRet = top.done /\ g.out = top.out
  BY <1>1, <1>3 DEF Frame
<1>5. /\ DOMAIN open' = 1..n /\ open'[n] = g
      /\ \A i \in 1..n : i # n => open'[i] = open[i]
  BY <1>1, <1>3, LenProperties
<1>6. Len(open') = n
  <2>1. g \in Frame
    BY <1>1, <1>2, <1>5, LenProperties
  <2>. QED BY <2>1, <1>1, <1>3, ExceptSeq
<1>7. /\ Outer \in Seq(Frame) /\ Len(Outer) = n - 1
      /\ \A i \in 1..Len(Outer) : Outer[i] = open'[i]
  BY <1>1, <1>5, OuterShape
<1>8. Pending(open') = Pending(Outer) \cup L /\ Backs(open') \subseteq Backs(open)
  <2>1. /\ Pending(open') = Pending(Outer) \cup Later(g)
        /\ Backs(open') = Backs(Outer) \cup (IF g.kind = "loop" THEN {g.back} ELSE {})
    <3>1. /\ Len(open') = Len(Outer) + 1 /\ open'[Len(Outer) + 1] = g
          /\ \A i \in 1..Len(Outer) : open'[i] = Outer[i]
      <4>1. n \in Int /\ n = Len(Outer) + 1
        BY <1>1, <1>7
      <4>. HIDE DEF n
      <4>. QED BY <4>1, <1>5, <1>6, <1>7
    <3>. QED BY <1>2, <1>7, <3>1, PendingLast
  <2>2. Later(g) = L
    BY <1>4 DEF Later
  <2>. HIDE DEF L
  <2>. QED BY <1>1, <1>4, <2>1, <2>2, PendingOuter
<1>9. Pending(open) = Pending(Outer) \cup {top.back}
  BY <1>1, PendingOuter DEF Later
<1>10. /\ Good(s) /\ Safe(s, Q) /\ InPlace(s) = InPlace(ir) /\ top.back \in 1..Len(s.blocks)
       /\ ir' = PlaceAt(s, top.back)
  BY <1>1, ToMergeSafe DEF Else
<1>. HIDE DEF s, Q
<1>11. Safe(ir', Q) /\ InPlace(ir') = InPlace(ir) \cup {top.back}
  BY <1>10, PlaceAtSafe
<1>12. Q \subseteq InPlace(ir') \cup Pending(open')
  BY <1>8, <1>9, <1>11 DEF Q
<1>13. Safe(ir', Pending(open'))
  BY <1>11, <1>12, SafeWeaker
<1>. QED BY <1>1, <1>8, <1>11, <1>13 DEF DangleInv

LEMMA DangleEndIf == ASSUME Stack, DangleInv, EndIf PROVE DangleInv'
<1>. DEFINE s  == ToMerge
            s1 == PlaceAt(s, top.back)
            s2 == Put(s1, Br({top.out}))
            Q  == Pending(open) \cup {top.out}
<1>1. /\ Len(open) > 1 /\ top.kind = "then" /\ ir' = PlaceAt(s2, top.out)
      /\ top.back \in 1..Len(ir.blocks) /\ top.out \in 1..Len(ir.blocks)
      /\ open' = Ends(Outer, "noret") /\ phase' = "visiting"
  BY TopShape DEF EndIf, Inside
<1>2. Good(s) /\ Len(s.blocks) = Len(ir.blocks) /\ InPlace(s) = InPlace(ir) /\ Safe(s, Q)
  <2>1. PICK L \in SUBSET {top.out} : Safe(s, Pending(open) \cup L)
    BY <1>1, ToMergeSafe
  <2>2. Pending(open) \cup L \subseteq InPlace(s) \cup Q
    OBVIOUS
  <2>3. Good(s) /\ Len(s.blocks) = Len(ir.blocks) /\ InPlace(s) = InPlace(ir)
    BY <1>1, ToMergeSafe
  <2>. HIDE DEF s, Q
  <2>. QED BY <2>1, <2>2, <2>3, SafeWeaker
<1>. HIDE DEF s, Q
<1>3. /\ Good(s1) /\ Len(s1.blocks) = Len(ir.blocks) /\ Safe(s1, Q)
      /\ InPlace(s1) = InPlace(ir) \cup {top.back}
  BY <1>1, <1>2, PlaceAtGood, PlaceAtSafe
<1>. HIDE DEF s1
<1>4. Br({top.out}) \in Instr /\ Br({top.out}).to \subseteq InPlace(s1) \cup Q
  <2>1. {top.out} \in SUBSET Nat
    BY <1>1
  <2>. QED BY <2>1, BrTypes DEF Q
<1>5. Good(s2) /\ Len(s2.blocks) = Len(ir.blocks) /\ Safe(s2, Q) /\ InPlace(s2) = InPlace(s1)
  BY <1>3, <1>4, PutGood, PutSafe
<1>. HIDE DEF s2
<1>6. Safe(ir', Q) /\ InPlace(ir') = InPlace(s2) \cup {top.out}
  BY <1>1, <1>5, PlaceAtSafe
<1>7. Q \subseteq InPlace(ir') \cup Pending(Outer)
  <2>1. Pending(open) = Pending(Outer) \cup {top.back}
    BY <1>1, PendingOuter DEF Later
  <2>. QED BY <1>3, <1>5, <1>6, <2>1 DEF Q
<1>8. Safe(ir', Pending(Outer)) /\ InPlace(ir) \subseteq InPlace(ir')
  BY <1>3, <1>5, <1>6, <1>7, SafeWeaker
<1>. QED BY <1>1, <1>8, DangleCloses DEF Returns

(* Without mergeBB no branch leads there: both sides returned.             *)
LEMMA DangleEndIfElse == ASSUME Stack, DangleInv, EndIfElse PROVE DangleInv'
<1>. DEFINE returns == top.thenRet = "ret" /\ top.done = "ret"
            s == ToMerge
            L == IF top.done = "ret" THEN {} ELSE {top.out}
            Q == Pending(open) \cup L
<1>1. /\ Len(open) > 1 /\ top.kind = "else" /\ top.out \in 1..Len(ir.blocks)
      /\ ir' = IF returns THEN s ELSE PlaceAt(s, top.out)
      /\ open' = Ends(Outer, IF returns THEN "ret" ELSE "noret") /\ phase' = "visiting"
  BY TopShape DEF EndIfElse, Inside
<1>2. Good(s) /\ Safe(s, Q) /\ InPlace(s) = InPlace(ir) /\ top.out \in 1..Len(s.blocks)
  BY <1>1, ToMergeSafe
<1>3. Pending(open) = Pending(Outer) \cup (IF top.thenRet = "ret" THEN {} ELSE {top.out})
  BY <1>1, PendingOuter DEF Later
<1>. HIDE DEF s
<1>4. CASE returns
  <2>1. Q = Pending(Outer)
    BY <1>3, <1>4
  <2>2. Safe(ir', Pending(Outer)) /\ InPlace(ir) \subseteq InPlace(ir')
    BY <1>1, <1>2, <1>4, <2>1
  <2>3. open' = Ends(Outer, "ret")
    BY <1>1, <1>4
  <2>. QED BY <1>1, <2>2, <2>3, DangleCloses DEF Returns
<1>5. CASE ~returns
  <2>1. ir' = PlaceAt(s, top.out) /\ open' = Ends(Outer, "noret")
    BY <1>1, <1>5
  <2>2. Q \subseteq Pending(Outer) \cup {top.out}
    BY <1>3
  <2>. HIDE DEF Q
  <2>3. Safe(ir', Q) /\ InPlace(ir') = InPlace(ir) \cup {top.out}
    BY <1>2, <2>1, PlaceAtSafe
  <2>4. Safe(ir', Pending(Outer)) /\ InPlace(ir) \subseteq InPlace(ir')
    BY <2>2, <2>3, SafeWeaker
  <2>. QED BY <1>1, <2>1, <2>4, DangleCloses DEF Returns
<1>. QED BY <1>4, <1>5

LEMMA LoopBlocksSafe ==
  ASSUME Stack, DangleInv
  PROVE  /\ Safe(LoopBlocks, Pending(open)) /\ InPlace(ir) \subseteq InPlace(LoopBlocks)
         /\ Fresh(ir) \in InPlace(LoopBlocks)
<1>. DEFINE m1 == Create(ir, TRUE)
            m2 == Create(m1, FALSE)
<1>1. Good(ir) /\ LoopBlocks = Create(m2, FALSE)
  BY DEF Stack, LoopBlocks
<1>2. /\ Good(m1) /\ Safe(m1, Pending(open)) /\ InPlace(ir) \subseteq InPlace(m1)
      /\ Fresh(ir) \in InPlace(m1)
  BY <1>1, CreateGood, CreateSafe DEF DangleInv
<1>. HIDE DEF m1
<1>3. Good(m2) /\ Safe(m2, Pending(open)) /\ InPlace(m1) \subseteq InPlace(m2)
  BY <1>2, CreateGood, CreateSafe
<1>. HIDE DEF m2
<1>. QED BY <1>1, <1>2, <1>3, CreateSafe

LEMMA DangleLoop ==
  ASSUME Stack, DangleInv, phase' = "visiting",
         NEW s, Good(s), Len(s.blocks) >= Len(ir.blocks) + 3,
         Safe(s, Pending(open)), InPlace(ir) \subseteq InPlace(s),
         NEW in, in = Fresh(ir), in \in InPlace(s), NEW e, NEW update \in {"none"} \cup Exprs,
         EnterLoop(s, in, e, update)
  PROVE  DangleInv'
<1>. DEFINE s1  == Put(s, Br({in}))
            s2  == SetInsertPoint(s1, in)
            s3  == Eval(s2, e)
            s4  == Put(s3, Br({in + 1, in + 2}))
            f   == F("loop", in, in + 2, <<in, 1>>, {<<in, 1>>}, update)
            Q   == Pending(open) \cup {in + 1, in + 2}
<1>1. /\ ir' = PlaceAt(s4, in + 1) /\ open' = Append(open, f)
      /\ Len(ir.blocks) \in Nat /\ in = Len(ir.blocks) + 1 /\ Len(s.blocks) \in Nat
  BY GoodLen DEF EnterLoop, Branch, Stack
<1>2. Safe(s, Q)
  <2>1. Pending(open) \subseteq InPlace(s) \cup Q
    OBVIOUS
  <2>. HIDE DEF Q
  <2>. QED BY <2>1, SafeWeaker
<1>3. /\ Br({in}) \in Instr /\ Br({in}).to = {in}
      /\ Br({in + 1, in + 2}) \in Instr /\ Br({in + 1, in + 2}).to \subseteq Q
  <2>1. {in} \in SUBSET Nat /\ {in + 1, in + 2} \in SUBSET Nat
    BY <1>1
  <2>. QED BY <2>1, BrTypes
<1>. HIDE DEF Q
<1>4. Good(s1) /\ Len(s1.blocks) = Len(s.blocks) /\ Safe(s1, Q) /\ InPlace(s1) = InPlace(s)
  <2>1. Br({in}).to \subseteq InPlace(s) \cup Q
    BY <1>3
  <2>. QED BY <1>2, <1>3, <2>1, PutGood, PutSafe
<1>. HIDE DEF s1
<1>5. Good(s2) /\ Len(s2.blocks) = Len(s.blocks) /\ Safe(s2, Q) /\ InPlace(s2) = InPlace(s)
  <2>1. in \in 1..Len(s1.blocks)
    BY <1>1, <1>4
  <2>. QED BY <1>4, <2>1, SetInsertPointGood, InsertSafe
<1>. HIDE DEF s2
<1>6. /\ Good(s3) /\ Len(s3.blocks) >= Len(s.blocks) /\ Safe(s3, Q)
      /\ InPlace(s) \subseteq InPlace(s3)
  BY <1>5, EvalGood, EvalSafe
<1>. HIDE DEF s3
<1>7. Good(s4) /\ Len(s4.blocks) = Len(s3.blocks) /\ Safe(s4, Q) /\ InPlace(s4) = InPlace(s3)
  <2>1. Br({in + 1, in + 2}).to \subseteq InPlace(s3) \cup Q
    BY <1>3
  <2>. QED BY <1>3, <1>6, <2>1, PutGood, PutSafe
<1>. HIDE DEF s4
<1>8. Safe(ir', Q) /\ InPlace(ir') = InPlace(s4) \cup {in + 1}
  <2>1. in + 1 \in 1..Len(s4.blocks)
    <3>1. Len(s4.blocks) \in Nat
      BY <1>7, GoodLen
    <3>. QED BY SMTT(30), <3>1, <1>1, <1>6, <1>7
  <2>. QED BY <1>1, <1>7, <2>1, PlaceAtSafe
<1>9. /\ f \in Frame /\ f.kind = "loop" /\ f.back = in /\ f.out = in + 2
  <2>1. in \in Nat /\ in + 2 \in Nat /\ <<in, 1>> \in Place
    BY <1>1 DEF Place
  <2>2. f.kind = "loop" /\ f.back = in /\ f.out = in + 2
    BY DEF F
  <2>3. {<<in, 1>>} \in SUBSET Place
    BY <2>1
  <2>. QED BY <2>1, <2>2, <2>3, FrameTypes
<1>. HIDE DEF f
<1>10. Safe(ir', Pending(open) \cup Later(f))
  <2>1. Later(f) = {in + 2}
    BY <1>9 DEF Later
  <2>2. Q \subseteq InPlace(ir') \cup (Pending(open) \cup Later(f))
    BY <1>8, <2>1 DEF Q
  <2>. QED BY <1>8, <2>2, SafeWeaker
<1>11. InPlace(ir) \subseteq InPlace(ir') /\ f.back \in InPlace(ir')
  BY <1>6, <1>7, <1>8, <1>9
<1>. QED BY <1>1, <1>9, <1>10, <1>11, DangleOpens

LEMMA DangleWhile == ASSUME Stack, DangleInv, NEW e, While(e) PROVE DangleInv'
<1>1. Good(LoopBlocks) /\ Len(LoopBlocks.blocks) = Len(ir.blocks) + 3 /\ Len(ir.blocks) \in Nat
  BY LoopBlocksGood, GoodLen DEF Stack
<1>2. EnterLoop(LoopBlocks, Fresh(ir), e, "none") /\ phase' = "visiting"
  BY DEF While, Starts, AtStatement
<1>. QED BY <1>1, <1>2, LoopBlocksSafe, DangleLoop

LEMMA DangleFor ==
  ASSUME Stack, DangleInv, NEW init, NEW e, NEW update \in Exprs, For(init, e, update)
  PROVE  DangleInv'
<1>. DEFINE s == Eval(LoopBlocks, init)
<1>1. Good(LoopBlocks) /\ Len(LoopBlocks.blocks) = Len(ir.blocks) + 3 /\ Len(ir.blocks) \in Nat
  BY LoopBlocksGood, GoodLen DEF Stack
<1>2. EnterLoop(s, Fresh(ir), e, update) /\ phase' = "visiting"
  BY DEF For, Starts, AtStatement
<1>3. /\ Good(s) /\ Len(s.blocks) >= Len(ir.blocks) + 3
      /\ Safe(s, Pending(open)) /\ InPlace(LoopBlocks) \subseteq InPlace(s)
  BY <1>1, EvalGood, EvalSafe, LoopBlocksSafe
<1>. HIDE DEF s
<1>4. InPlace(ir) \subseteq InPlace(s) /\ Fresh(ir) \in InPlace(s)
  BY <1>3, LoopBlocksSafe
<1>. QED BY <1>2, <1>3, <1>4, DangleLoop

LEMMA DangleEndLoop == ASSUME Stack, DangleInv, EndLoop PROVE DangleInv'
<1>. DEFINE s  == IF top.update = "none" THEN ir ELSE Eval(ir, top.update)
            s1 == Put(s, Br({top.back}))
            P  == Pending(open)
<1>1. /\ Len(open) > 1 /\ top.kind = "loop" /\ ir' = PlaceAt(s1, top.out) /\ Good(ir)
      /\ top.back \in 1..Len(ir.blocks) /\ top.out \in 1..Len(ir.blocks)
      /\ Len(ir.blocks) \in Nat
      /\ open' = Ends(Outer, "noret") /\ phase' = "visiting"
  BY TopShape DEF EndLoop, Inside, Stack
<1>2. /\ Good(s) /\ Len(s.blocks) >= Len(ir.blocks)
      /\ Safe(s, P) /\ InPlace(ir) \subseteq InPlace(s)
  <2>1. CASE top.update = "none"
    BY <1>1, <2>1 DEF DangleInv
  <2>2. CASE top.update # "none"
    BY <1>1, <2>2, EvalGood, EvalSafe DEF DangleInv
  <2>. QED BY <2>1, <2>2
<1>. HIDE DEF s, P
<1>3. Br({top.back}) \in Instr /\ Br({top.back}).to \subseteq InPlace(s) \cup P
  <2>1. {top.back} \in SUBSET Nat
    BY <1>1
  <2>2. top.back \in InPlace(ir)
    BY <1>1, TopLater DEF DangleInv
  <2>. QED BY <1>2, <2>1, <2>2, BrTypes
<1>4. Good(s1) /\ Len(s1.blocks) = Len(s.blocks) /\ Safe(s1, P) /\ InPlace(s1) = InPlace(s)
  BY <1>2, <1>3, PutGood, PutSafe
<1>. HIDE DEF s1
<1>5. Safe(ir', P) /\ InPlace(ir') = InPlace(s1) \cup {top.out}
  <2>1. top.out \in 1..Len(s1.blocks)
    <3>1. Len(s1.blocks) \in Nat
      BY <1>4, GoodLen
    <3>. QED BY <3>1, <1>1, <1>2, <1>4
  <2>. QED BY <1>1, <1>4, <2>1, PlaceAtSafe
<1>6. P \subseteq InPlace(ir') \cup Pending(Outer)
  <2>1. Pending(open) = Pending(Outer) \cup {top.out}
    BY <1>1, PendingOuter DEF Later
  <2>. QED BY <1>5, <2>1 DEF P
<1>7. Safe(ir', Pending(Outer)) /\ InPlace(ir) \subseteq InPlace(ir')
  BY <1>2, <1>4, <1>5, <1>6, SafeWeaker
<1>. QED BY <1>1, <1>7, DangleCloses DEF Returns

LEMMA DangleVoid == ASSUME Stack, DangleInv, EndVoidMethod PROVE DangleInv'
<1>. DEFINE s == Put(ir, Point)
<1>1. Good(ir) /\ ir' = Put(s, Ret) /\ UNCHANGED open /\ Len(open) = 1 /\ open \in Seq(Frame)
  BY DEF Stack, EndVoidMethod, AtMethodEnd
<1>2. Good(s) /\ Safe(s, Pending(open)) /\ InPlace(s) = InPlace(ir)
  BY <1>1, RetTypes, PutGood, PutSafe DEF DangleInv
<1>. HIDE DEF s
<1>3. Advances
  BY <1>1, <1>2, RetTypes, PutSafe DEF Advances
<1>. QED BY <1>1, <1>3, DangleStays

LEMMA DangleInit == Init => DangleInv
<1>. SUFFICES ASSUME Init PROVE DangleInv
  OBVIOUS
<1>. DEFINE b == [code |-> <<>>, placed |-> TRUE]
<1>1. ir.blocks = <<b>> /\ ir.at = 1 /\ open = <<Block>> /\ phase = "visiting"
  BY DEF Init
<1>2. b.placed = TRUE /\ Aims(b.code) = {} /\ Block.kind = "block"
  BY DEF Aims, Block, F
<1>. HIDE DEF b
<1>3. InPlace(ir) = {1} /\ AimsOf(ir) = {}
  BY <1>1, <1>2 DEF InPlace, AimsOf
<1>4. Backs(open) = {}
  BY <1>1, <1>2 DEF Backs, LoopsOf
<1>. QED BY <1>1, <1>3, <1>4 DEF DangleInv, Safe

LEMMA DangleStep == LoweringInv /\ DangleInv /\ [Next]_vars => DangleInv'
<1>. SUFFICES ASSUME LoweringInv, DangleInv, [Next]_vars PROVE DangleInv'
  OBVIOUS
<1>0. Stack
  BY DEF LoweringInv
<1>. USE DEF Starts, AtStatement, Returns
<1>1. CASE Empty
  BY <1>0, <1>1, AdvancesStays, DangleComplete DEF Empty
<1>2. CASE ReturnNothing \/ BreakOutsideLoop \/ ForWithoutPart
  BY <1>2 DEF ReturnNothing, BreakOutsideLoop, ForWithoutPart, DangleInv
<1>3. CASE Break
  BY <1>3, DangleBreak
<1>4. ASSUME NEW e \in Exprs, Simple(e) PROVE DangleInv'
  <2>1. Advances /\ open' = Ends(open, "noret") /\ phase' = "visiting"
    BY <1>0, <1>4, AdvancesEval DEF Simple
  <2>. QED BY <1>0, <2>1, DangleComplete
<1>5. CASE \E e \in Exprs : Return(e) \/ If(e) \/ While(e)
  BY <1>0, <1>5, DangleReturn, DangleIf, DangleWhile
<1>6. CASE \E init, e, update \in Exprs : For(init, e, update)
  BY <1>0, <1>6, DangleFor
<1>7. CASE OpenBlock
  <2>1. Block \in Frame /\ Block.kind = "block"
    BY DEF Block, F, Frame, Entry, Place
  <2>2. Safe(ir', Pending(open) \cup Later(Block)) /\ InPlace(ir) \subseteq InPlace(ir')
    BY <1>7, <2>1 DEF OpenBlock, Later, DangleInv
  <2>. QED BY <1>0, <1>7, <2>1, <2>2, DangleOpens DEF OpenBlock
<1>8. CASE CloseBlock
  <2>1. /\ Len(open) > 1 /\ top.kind = "block" /\ phase' = "visiting" /\ UNCHANGED ir
        /\ open' = Ends(Outer, IF top.done = "ret" THEN "ret" ELSE "noret")
    BY <1>8 DEF CloseBlock
  <2>2. Safe(ir', Pending(Outer))
    BY <1>0, <2>1, PendingOuter DEF Later, DangleInv
  <2>. QED BY <1>0, <2>1, <2>2, DangleCloses
<1>9. CASE Else \/ EndIf \/ EndIfElse
  BY <1>0, <1>9, DangleElse, DangleEndIf, DangleEndIfElse
<1>10. CASE EndLoop
  BY <1>0, <1>10, DangleEndLoop
<1>11. CASE MissingReturn \/ EndValueMethod
  BY <1>11 DEF MissingReturn, EndValueMethod, AtMethodEnd, DangleInv
<1>12. CASE EndVoidMethod
  BY <1>0, <1>12, DangleVoid
<1>13. CASE UNCHANGED vars
  BY <1>13 DEF vars, DangleInv
<1>. QED BY <1>1, <1>2, <1>3, <1>4, <1>5, <1>6, <1>7, <1>8, <1>9, <1>10, <1>11, <1>12, <1>13 DEF Next

(* For bodies of any size the builder inserts into blocks of the function, *)
(* and when code is generated every branch leads to one: mergeBB is left   *)
(* out of the function only when no branch leads there, and the blocks of  *)
(* every if and loop are put into it by the time the construct ends.       *)
THEOREM BranchesStayInside == Spec => []NoDanglingTarget
<1>1. LoweringInv /\ DangleInv /\ [Next]_vars => LoweringInv' /\ DangleInv'
  BY LoweringStep, DangleStep
<1>2. LoweringInv /\ DangleInv => NoDanglingTarget
  <2>. SUFFICES ASSUME Stack, DangleInv PROVE NoDanglingTarget
    BY DEF LoweringInv
  <2>2. Blocks = 1..Len(ir.blocks) /\ \A b : b \in InPlace(ir) <=> b \in Blocks /\ Placed(b)
    <3>1. ir.blocks \in Seq(BasicBlock)
      BY DEF Stack, Good, IR
    <3>. QED BY <3>1, LenProperties DEF Blocks, InPlace, Placed
  <2>3. Placed(ir.at)
    BY <2>2 DEF DangleInv, Safe
  <2>4. ASSUME phase = "generated", NEW b \in Blocks, NEW i \in DOMAIN Code(b), NEW t \in Code(b)[i].to
        PROVE  Placed(t)
    <3>1. open \in Seq(Frame) /\ Len(open) = 1 /\ open[1].kind = "block" /\ DOMAIN open = {1}
      BY <2>4, TopShape DEF DangleInv, Stack
    <3>2. Pending(open) = {}
      BY <3>1 DEF Pending, Later
    <3>3. t \in Aims(ir.blocks[b].code)
      BY DEF Aims, Code
    <3>4. t \in AimsOf(ir)
      BY <2>2, <3>3, AimsIn
    <3>. QED BY <2>2, <3>2, <3>4 DEF DangleInv, Safe
  <2>. QED BY <2>3, <2>4 DEF NoDanglingTarget
<1>. QED BY <1>1, <1>2, LoweringInit, DangleInit, PTL DEF Spec

-----------------------------------------------------------------------------
(* Which bodies are emitted with one terminator at the end of every block, *)
(* and that the others are emitted with one in the middle of a block,      *)
(* where nothing mends it.                                                 *)
(* The code of a block, and of the one the builder inserts into.           *)
Plain(q) == \A i \in DOMAIN q : ~IsTerminator(q[i])
Closed(q) == q # <<>> /\ \A i \in DOMAIN q : IsTerminator(q[i]) <=> i = Len(q)
Stops(q) == q # <<>> /\ IsTerminator(q[Len(q)])
Broken(q) == \E i \in DOMAIN q : i # Len(q) /\ IsTerminator(q[i])
CodeAt(s) == s.blocks[s.at].code

Sound(s) == Good(s) /\ s.at \in InPlace(s)
Unplaced(s) == {b \in 1..Len(s.blocks) : ~s.blocks[b].placed}

(* All blocks but the builder's are complete; those to be filled are empty.*)
Tidy(s, E) ==
  \A b \in 1..Len(s.blocks) : b # s.at =>
    IF b \in InPlace(s) /\ b \notin E THEN Closed(s.blocks[b].code) ELSE s.blocks[b].code = <<>>

Damaged(s) == \E b \in InPlace(s) : Broken(s.blocks[b].code)
Hurt(s) == Damaged(s) \/ Stops(CodeAt(s))

(* The builder may go on in its block, or has finished it; if not clean,   *)
(* what it inserts next does damage, or damage is done.                    *)
Run(s, E, c) == IF c THEN Tidy(s, E) /\ Plain(CodeAt(s)) ELSE Hurt(s)
Shut(s, E, c) == IF c THEN Tidy(s, E) /\ Closed(CodeAt(s)) ELSE Damaged(s)

-----------------------------------------------------------------------------
(* Appending an instruction.                                               *)
LEMMA AppendCode ==
  ASSUME NEW q \in Seq(Instr), NEW i \in Instr
  PROVE  /\ Plain(q) => IF IsTerminator(i) THEN Closed(Append(q, i)) ELSE Plain(Append(q, i))
         /\ Stops(q) \/ Broken(q) => Broken(Append(q, i))
         /\ IsTerminator(i) => Stops(Append(q, i))
<1>1. PICK r : r = Append(q, i)
  OBVIOUS
<1>2. /\ DOMAIN q = 1..Len(q) /\ Len(q) \in Nat /\ (q # <<>> => Len(q) > 0)
      /\ r # <<>> /\ Len(r) = Len(q) + 1 /\ DOMAIN r = 1..(Len(q) + 1)
      /\ \A k \in 1..Len(q) : r[k] = q[k]
      /\ r[Len(q) + 1] = i
  BY <1>1, AppendProperties, LenProperties, EmptySeq
<1>3. ASSUME Plain(q), IsTerminator(i) PROVE Closed(r)
  BY <1>2, <1>3 DEF Plain, Closed
<1>4. ASSUME Plain(q), ~IsTerminator(i) PROVE Plain(r)
  BY <1>2, <1>4 DEF Plain
<1>5. ASSUME Stops(q) PROVE Broken(r)
  <2>1. Len(q) \in 1..Len(q)
    BY <1>2, <1>5 DEF Stops
  <2>2. PICK n \in Nat : n = Len(q)
    BY <1>2
  <2>3. n \in 1..(n + 1) /\ n # n + 1 /\ n \in 1..n
    BY <2>1, <2>2
  <2>4. n \in DOMAIN r /\ n # Len(r) /\ r[n] = q[n]
    BY <1>2, <2>2, <2>3
  <2>. QED BY <1>5, <2>2, <2>4 DEF Stops, Broken
<1>6. ASSUME Broken(q) PROVE Broken(r)
  <2>1. PICK k \in DOMAIN q : k # Len(q) /\ IsTerminator(q[k])
    BY <1>6 DEF Broken
  <2>2. k \in DOMAIN r /\ k # Len(r) /\ r[k] = q[k]
    BY <1>2, <2>1
  <2>. QED BY <2>1, <2>2 DEF Broken
<1>7. ASSUME IsTerminator(i) PROVE Stops(r)
  BY <1>2, <1>7 DEF Stops
<1>. QED BY <1>1, <1>3, <1>4, <1>5, <1>6, <1>7

LEMMA EmptyCode == Plain(<<>>)
BY DEF Plain

LEMMA ClosedStops ==
  ASSUME NEW q \in Seq(Instr), Closed(q)
  PROVE  Stops(q) /\ ~Broken(q)
<1>1. DOMAIN q = 1..Len(q) /\ Len(q) \in Nat /\ Len(q) > 0
  BY LenProperties, EmptySeq DEF Closed
<1>. QED BY <1>1 DEF Closed, Stops, Broken

LEMMA CodeTypes ==
  ASSUME NEW s, Good(s), NEW b \in 1..Len(s.blocks)
  PROVE  /\ s.blocks[b] \in BasicBlock /\ s.blocks[b].code \in Seq(Instr)
         /\ b \in InPlace(s) <=> b \notin Unplaced(s)
<1>1. s.blocks[b] \in BasicBlock
  BY ElementOfSeq DEF Good, IR
<1>2. s.blocks[b].code \in Seq(Instr)
  BY <1>1 DEF BasicBlock
<1>. QED BY <1>1, <1>2 DEF InPlace, Unplaced

(* What the builder's operations do to the blocks.                         *)
LEMMA PutBlocks ==
  ASSUME NEW s, Good(s), NEW i \in Instr
  PROVE  /\ Good(Put(s, i)) /\ Len(Put(s, i).blocks) = Len(s.blocks) /\ Put(s, i).at = s.at
         /\ CodeAt(Put(s, i)) = Append(CodeAt(s), i)
         /\ \A k \in 1..Len(s.blocks) :
              /\ Put(s, i).blocks[k].placed = s.blocks[k].placed
              /\ k # s.at => Put(s, i).blocks[k].code = s.blocks[k].code
         /\ InPlace(Put(s, i)) = InPlace(s) /\ Unplaced(Put(s, i)) = Unplaced(s)
<1>. DEFINE b == s.blocks[s.at]
            c == [b EXCEPT !.code = Append(@, i)]
            t == Put(s, i)
<1>1. s.blocks \in Seq(BasicBlock) /\ s.at \in 1..Len(s.blocks) /\ Len(s.blocks) \in Nat
  BY GoodLen DEF Good, IR
<1>2. b \in BasicBlock
  BY <1>1, ElementOfSeq
<1>3. c.code = Append(b.code, i) /\ c.placed = b.placed
  BY <1>2 DEF BasicBlock
<1>4. Good(t) /\ Len(t.blocks) = Len(s.blocks) /\ t.at = s.at
  BY PutGood
<1>5. \A k \in 1..Len(s.blocks) : t.blocks[k] = IF k = s.at THEN c ELSE s.blocks[k]
  <2>1. t.blocks = [s.blocks EXCEPT ![s.at] = c]
    BY <1>1 DEF Put, Good, IR
  <2>2. s.blocks \in [1..Len(s.blocks) -> BasicBlock]
    BY <1>1, LenProperties
  <2>. QED BY <2>1, <2>2
<1>. HIDE DEF c, b, t
<1>6. CodeAt(t) = Append(CodeAt(s), i)
  BY <1>1, <1>3, <1>4, <1>5 DEF CodeAt, b
<1>7. \A k \in 1..Len(s.blocks) :
        /\ t.blocks[k].placed = s.blocks[k].placed
        /\ k # s.at => t.blocks[k].code = s.blocks[k].code
  BY <1>3, <1>5 DEF b
<1>8. InPlace(t) = InPlace(s) /\ Unplaced(t) = Unplaced(s)
  BY <1>4, <1>7 DEF InPlace, Unplaced
<1>. QED BY <1>4, <1>6, <1>7, <1>8 DEF t

LEMMA CreateBlocks ==
  ASSUME NEW s, Good(s), NEW p \in BOOLEAN
  PROVE  /\ Good(Create(s, p)) /\ Len(Create(s, p).blocks) = Len(s.blocks) + 1
         /\ Create(s, p).at = s.at
         /\ Fresh(s) = Len(s.blocks) + 1 /\ Len(s.blocks) \in Nat
         /\ Create(s, p).blocks[Fresh(s)].code = <<>>
         /\ \A k \in 1..Len(s.blocks) : Create(s, p).blocks[k] = s.blocks[k]
         /\ InPlace(Create(s, p)) = InPlace(s) \cup (IF p THEN {Fresh(s)} ELSE {})
         /\ Unplaced(Create(s, p)) = Unplaced(s) \cup (IF p THEN {} ELSE {Fresh(s)})
<1>. DEFINE b == [code |-> <<>>, placed |-> p]
            t == Create(s, p)
            n == Len(s.blocks)
<1>1. s.blocks \in Seq(BasicBlock) /\ n \in Nat /\ Fresh(s) = n + 1
  BY GoodLen DEF Good, IR
<1>2. b \in BasicBlock /\ b.code = <<>> /\ b.placed = p
  BY DEF BasicBlock
<1>3. /\ Len(t.blocks) = n + 1 /\ t.blocks[n + 1] = b /\ t.at = s.at
      /\ \A k \in 1..n : t.blocks[k] = s.blocks[k]
  <2>1. t.blocks = Append(s.blocks, b) /\ t.at = s.at
    BY DEF Create, Good, IR
  <2>. HIDE DEF b, t
  <2>. QED BY <1>1, <1>2, <2>1, AppendProperties
<1>4. Good(t)
  BY CreateGood
<1>. HIDE DEF b, t
<1>5. InPlace(t) = InPlace(s) \cup (IF p THEN {n + 1} ELSE {})
  BY SMTT(30), <1>1, <1>2, <1>3 DEF InPlace
<1>6. Unplaced(t) = Unplaced(s) \cup (IF p THEN {} ELSE {n + 1})
  BY <1>1, <1>2, <1>3 DEF Unplaced
<1>. QED BY <1>1, <1>2, <1>3, <1>4, <1>5, <1>6 DEF t

LEMMA PlaceAtBlocks ==
  ASSUME NEW s, Good(s), NEW b \in 1..Len(s.blocks)
  PROVE  /\ Good(PlaceAt(s, b)) /\ Len(PlaceAt(s, b).blocks) = Len(s.blocks)
         /\ PlaceAt(s, b).at = b
         /\ \A k \in 1..Len(s.blocks) : PlaceAt(s, b).blocks[k].code = s.blocks[k].code
         /\ InPlace(PlaceAt(s, b)) = InPlace(s) \cup {b}
         /\ Unplaced(PlaceAt(s, b)) = Unplaced(s) \ {b}
<1>. DEFINE c == [s.blocks[b] EXCEPT !.placed = TRUE]
            t == PlaceAt(s, b)
<1>1. s.blocks \in Seq(BasicBlock) /\ Len(s.blocks) \in Nat
  BY GoodLen DEF Good, IR
<1>2. s.blocks[b] \in BasicBlock
  BY <1>1, ElementOfSeq
<1>3. c.placed = TRUE /\ c.code = s.blocks[b].code
  BY <1>2 DEF BasicBlock
<1>4. /\ Good(t) /\ Len(t.blocks) = Len(s.blocks) /\ t.at = b
      /\ \A k \in 1..Len(s.blocks) : t.blocks[k] = IF k = b THEN c ELSE s.blocks[k]
  <2>1. t.blocks = [s.blocks EXCEPT ![b] = c] /\ t.at = b
    BY DEF PlaceAt
  <2>2. s.blocks \in [1..Len(s.blocks) -> BasicBlock]
    BY <1>1, LenProperties
  <2>3. Good(t) /\ Len(t.blocks) = Len(s.blocks)
    BY PlaceAtGood
  <2>. QED BY <2>1, <2>2, <2>3
<1>. HIDE DEF c, t
<1>5. InPlace(t) = InPlace(s) \cup {b} /\ Unplaced(t) = Unplaced(s) \ {b}
  BY <1>3, <1>4 DEF InPlace, Unplaced
<1>6. \A k \in 1..Len(s.blocks) : t.blocks[k].code = s.blocks[k].code
  BY <1>3, <1>4
<1>. QED BY <1>4, <1>5, <1>6 DEF t

LEMMA InsertBlocks ==
  ASSUME NEW s, Good(s), NEW b \in 1..Len(s.blocks)
  PROVE  /\ Good(SetInsertPoint(s, b)) /\ SetInsertPoint(s, b).blocks = s.blocks
         /\ SetInsertPoint(s, b).at = b
         /\ InPlace(SetInsertPoint(s, b)) = InPlace(s)
         /\ Unplaced(SetInsertPoint(s, b)) = Unplaced(s)
<1>1. SetInsertPoint(s, b).blocks = s.blocks /\ SetInsertPoint(s, b).at = b
  BY DEF SetInsertPoint, Good, IR
<1>2. Good(SetInsertPoint(s, b))
  BY SetInsertPointGood
<1>. QED BY <1>1, <1>2 DEF InPlace, Unplaced

-----------------------------------------------------------------------------
(* What they do to the state of the builder.                               *)
LEMMA PutSound ==
  ASSUME NEW s, Sound(s), NEW i \in Instr
  PROVE  /\ Sound(Put(s, i)) /\ Len(Put(s, i).blocks) = Len(s.blocks)
         /\ Put(s, i).at = s.at /\ Unplaced(Put(s, i)) = Unplaced(s)
         /\ InPlace(Put(s, i)) = InPlace(s)
BY PutBlocks DEF Sound

LEMMA PutForm ==
  ASSUME NEW s, Sound(s), NEW i \in Instr, NEW E, NEW c, Run(s, E, c)
  PROVE  /\ IsTerminator(i) => Shut(Put(s, i), E, c) /\ Stops(CodeAt(Put(s, i)))
         /\ ~IsTerminator(i) => Run(Put(s, i), E, c)
<1>1. PICK t : t = Put(s, i)
  OBVIOUS
<1>2. /\ Good(s) /\ s.at \in InPlace(s) /\ s.at \in 1..Len(s.blocks) /\ CodeAt(s) \in Seq(Instr)
  BY CodeTypes DEF Sound, Good, CodeAt
<1>3. /\ Good(t) /\ Len(t.blocks) = Len(s.blocks) /\ t.at = s.at
      /\ CodeAt(t) = Append(CodeAt(s), i)
      /\ \A k \in 1..Len(s.blocks) : k # s.at => t.blocks[k].code = s.blocks[k].code
      /\ InPlace(t) = InPlace(s)
  BY <1>1, <1>2, PutBlocks
<1>4. Tidy(s, E) => Tidy(t, E)
  BY <1>3 DEF Tidy
<1>5. Hurt(s) => Damaged(t)
  <2>1. ASSUME Stops(CodeAt(s)) \/ Broken(CodeAt(s)) PROVE Damaged(t)
    BY <1>2, <1>3, <2>1, AppendCode DEF Damaged, CodeAt
  <2>2. ASSUME NEW b \in InPlace(s), Broken(s.blocks[b].code), b # s.at PROVE Damaged(t)
    BY <1>3, <2>2 DEF Damaged, InPlace
  <2>. QED BY <2>1, <2>2 DEF Hurt, Damaged, CodeAt
<1>6. CASE IsTerminator(i)
  BY <1>1, <1>2, <1>3, <1>4, <1>5, <1>6, AppendCode DEF Run, Shut
<1>7. CASE ~IsTerminator(i)
  BY <1>1, <1>2, <1>3, <1>4, <1>5, <1>7, AppendCode DEF Run, Hurt
<1>. QED BY <1>6, <1>7

LEMMA CreateSound ==
  ASSUME NEW s, Sound(s), NEW p \in BOOLEAN
  PROVE  /\ Sound(Create(s, p)) /\ Len(Create(s, p).blocks) = Len(s.blocks) + 1
         /\ Create(s, p).at = s.at
         /\ p => /\ Unplaced(Create(s, p)) = Unplaced(s)
                 /\ InPlace(Create(s, p)) = InPlace(s) \cup {Fresh(s)}
         /\ ~p => /\ Unplaced(Create(s, p)) = Unplaced(s) \cup {Fresh(s)}
                  /\ InPlace(Create(s, p)) = InPlace(s)
<1>1. PICK t : t = Create(s, p)
  OBVIOUS
<1>2. PICK N : N = {Fresh(s)}
  OBVIOUS
<1>3. Good(s) /\ s.at \in InPlace(s)
  BY DEF Sound
<1>4. /\ Good(t) /\ Len(t.blocks) = Len(s.blocks) + 1 /\ t.at = s.at
      /\ InPlace(t) = InPlace(s) \cup (IF p THEN N ELSE {})
      /\ Unplaced(t) = Unplaced(s) \cup (IF p THEN {} ELSE N)
  BY <1>1, <1>2, <1>3, CreateBlocks
<1>5. Sound(t)
  BY <1>3, <1>4 DEF Sound
<1>6. CASE p
  BY <1>1, <1>2, <1>4, <1>5, <1>6
<1>7. CASE ~p
  BY <1>1, <1>2, <1>4, <1>5, <1>7
<1>. QED BY <1>6, <1>7

LEMMA CreateForm ==
  ASSUME NEW s, Sound(s), NEW p \in BOOLEAN, NEW E, NEW G, NEW c,
         p => G = E \cup {Fresh(s)}, ~p => G = E
  PROVE  /\ Run(s, E, c) => Run(Create(s, p), G, c)
         /\ Shut(s, E, c) => Shut(Create(s, p), G, c)
<1>1. PICK t : t = Create(s, p)
  OBVIOUS
<1>2. PICK n : n = Fresh(s)
  OBVIOUS
<1>3. Good(s) /\ s.at \in InPlace(s) /\ s.at \in 1..Len(s.blocks)
  BY DEF Sound, Good
<1>4. /\ Good(t) /\ Len(t.blocks) = n /\ t.at = s.at /\ n = Len(s.blocks) + 1 /\ Len(s.blocks) \in Nat
      /\ t.blocks[n].code = <<>>
      /\ \A k \in 1..Len(s.blocks) : t.blocks[k] = s.blocks[k]
      /\ InPlace(t) = InPlace(s) \cup (IF p THEN {n} ELSE {})
  BY <1>1, <1>2, <1>3, CreateBlocks
<1>5. CodeAt(t) = CodeAt(s)
  BY <1>3, <1>4 DEF CodeAt
<1>6. Damaged(s) => Damaged(t)
  BY <1>4 DEF Damaged, InPlace
<1>7. ASSUME Tidy(s, E) PROVE Tidy(t, G)
  <2>. SUFFICES ASSUME NEW b \in 1..n, b # s.at
                PROVE  IF b \in InPlace(t) /\ b \notin G THEN Closed(t.blocks[b].code)
                       ELSE t.blocks[b].code = <<>>
    BY <1>4 DEF Tidy
  <2>1. CASE b = n
    <3>1. p => n \in G
      BY <1>2
    <3>2. ~p => n \notin InPlace(t)
      BY <1>4 DEF InPlace
    <3>. QED BY <1>4, <2>1, <3>1, <3>2
  <2>2. CASE b # n
    <3>1. b \in 1..Len(s.blocks)
      BY <1>4, <2>2
    <3>2. (b \in G <=> b \in E) /\ (b \in InPlace(t) <=> b \in InPlace(s))
      BY <1>2, <1>4, <2>2
    <3>. QED BY <1>4, <1>7, <3>1, <3>2 DEF Tidy
  <2>. QED BY <2>1, <2>2
<1>. QED BY <1>1, <1>2, <1>4, <1>5, <1>6, <1>7 DEF Run, Shut, Hurt

(* The builder goes on in an empty block.                                  *)
LEMMA PlaceSound ==
  ASSUME NEW s, Sound(s), NEW b \in Unplaced(s)
  PROVE  /\ Sound(PlaceAt(s, b)) /\ Len(PlaceAt(s, b).blocks) = Len(s.blocks)
         /\ PlaceAt(s, b).at = b
         /\ Unplaced(PlaceAt(s, b)) = Unplaced(s) \ {b}
         /\ InPlace(PlaceAt(s, b)) = InPlace(s) \cup {b}
<1>1. Good(s) /\ b \in 1..Len(s.blocks)
  BY DEF Sound, Unplaced
<1>. QED BY <1>1, PlaceAtBlocks DEF Sound

LEMMA PlaceForm ==
  ASSUME NEW s, Sound(s), NEW b \in Unplaced(s), NEW E, NEW c, Shut(s, E, c),
         s.at \notin E
  PROVE  Run(PlaceAt(s, b), E, c)
<1>1. PICK t : t = PlaceAt(s, b)
  OBVIOUS
<1>2. /\ Good(s) /\ s.at \in InPlace(s) /\ s.at \in 1..Len(s.blocks) /\ b \in 1..Len(s.blocks)
      /\ b # s.at /\ b \notin InPlace(s)
  BY DEF Sound, Good, Unplaced, InPlace
<1>3. /\ Good(t) /\ Len(t.blocks) = Len(s.blocks) /\ t.at = b
      /\ \A k \in 1..Len(s.blocks) : t.blocks[k].code = s.blocks[k].code
      /\ InPlace(t) = InPlace(s) \cup {b} /\ Unplaced(t) = Unplaced(s) \ {b}
  BY <1>1, <1>2, PlaceAtBlocks
<1>4. Damaged(s) => Damaged(t)
  BY <1>3 DEF Damaged, InPlace
<1>5. ASSUME Tidy(s, E), Closed(CodeAt(s)) PROVE Tidy(t, E) /\ Plain(CodeAt(t))
  <2>1. s.blocks[b].code = <<>>
    BY <1>2, <1>5 DEF Tidy
  <2>2. Plain(CodeAt(t))
    BY <1>2, <1>3, <2>1, EmptyCode DEF CodeAt
  <2>3. ASSUME NEW k \in 1..Len(s.blocks), k # b
        PROVE  IF k \in InPlace(t) /\ k \notin E THEN Closed(t.blocks[k].code)
               ELSE t.blocks[k].code = <<>>
    <3>1. CASE k = s.at
      BY <1>2, <1>3, <1>5, <3>1 DEF CodeAt
    <3>2. CASE k # s.at
      BY <1>3, <1>5, <2>3, <3>2 DEF Tidy
    <3>. QED BY <3>1, <3>2
  <2>. QED BY <1>3, <2>2, <2>3 DEF Tidy
<1>. QED BY <1>1, <1>3, <1>4, <1>5 DEF Run, Shut, Hurt

LEMMA InsertSound ==
  ASSUME NEW s, Sound(s), NEW b \in InPlace(s)
  PROVE  /\ Sound(SetInsertPoint(s, b)) /\ Len(SetInsertPoint(s, b).blocks) = Len(s.blocks)
         /\ SetInsertPoint(s, b).at = b
         /\ Unplaced(SetInsertPoint(s, b)) = Unplaced(s)
         /\ InPlace(SetInsertPoint(s, b)) = InPlace(s)
<1>1. Good(s) /\ b \in 1..Len(s.blocks)
  BY DEF Sound, InPlace
<1>. QED BY <1>1, InsertBlocks DEF Sound

LEMMA InsertForm ==
  ASSUME NEW s, Sound(s), NEW D, NEW b \in InPlace(s), b # s.at, NEW E, NEW c,
         Shut(s, D, c), D = E \cup {b}, s.at \notin E, b \notin E
  PROVE  Run(SetInsertPoint(s, b), E, c)
<1>1. PICK t : t = SetInsertPoint(s, b)
  OBVIOUS
<1>2. /\ Good(s) /\ s.at \in InPlace(s) /\ s.at \in 1..Len(s.blocks) /\ b \in 1..Len(s.blocks)
  BY DEF Sound, Good, InPlace
<1>3. /\ Good(t) /\ t.blocks = s.blocks /\ t.at = b
      /\ InPlace(t) = InPlace(s) /\ Unplaced(t) = Unplaced(s)
  BY <1>1, <1>2, InsertBlocks
<1>4. Damaged(s) => Damaged(t)
  BY <1>3 DEF Damaged
<1>5. ASSUME Tidy(s, D), Closed(CodeAt(s)) PROVE Tidy(t, E) /\ Plain(CodeAt(t))
  <2>1. s.blocks[b].code = <<>>
    BY <1>2, <1>5 DEF Tidy
  <2>2. Plain(CodeAt(t))
    BY <1>3, <2>1, EmptyCode DEF CodeAt
  <2>3. ASSUME NEW k \in 1..Len(s.blocks), k # b
        PROVE  IF k \in InPlace(t) /\ k \notin E THEN Closed(t.blocks[k].code)
               ELSE t.blocks[k].code = <<>>
    <3>1. CASE k = s.at
      BY <1>2, <1>3, <1>5, <3>1 DEF CodeAt
    <3>2. CASE k # s.at
      BY <1>3, <1>5, <2>3, <3>2 DEF Tidy
    <3>. QED BY <3>1, <3>2
  <2>. QED BY <1>3, <2>2, <2>3 DEF Tidy
<1>. QED BY <1>1, <1>3, <1>4, <1>5 DEF Run, Shut, Hurt

LEMMA OpTypes ==
  /\ Point \in Instr /\ Ret \in Instr /\ ~IsTerminator(Point) /\ IsTerminator(Ret)
  /\ \A T \in SUBSET Nat : Br(T) \in Instr /\ IsTerminator(Br(T))
BY InstrTypes DEF Point, Ret, Br, IsTerminator

(* An expression is evaluated in the block it is met in, and in those that *)
(* its checks add.                                                         *)
LEMMA EvalForm ==
  ASSUME NEW s, Sound(s), NEW e, NEW E, E \subseteq 1..Len(s.blocks), NEW c, Run(s, E, c),
         s.at \notin E
  PROVE  /\ Sound(Eval(s, e)) /\ Len(Eval(s, e).blocks) >= Len(s.blocks)
         /\ Unplaced(s) \subseteq Unplaced(Eval(s, e))
         /\ InPlace(s) \subseteq InPlace(Eval(s, e))
         /\ Eval(s, e).at \notin E
         /\ Run(Eval(s, e), E, c)
<1>. DEFINE t   == Put(s, Point)
            chk == Fresh(t)
            next == chk + 1
            c1  == Create(t, TRUE)
            c2  == Create(c1, FALSE)
            s1  == Put(c2, Br({chk, next}))
            i1  == SetInsertPoint(s1, chk)
            s2  == Put(i1, Br({next}))
            q   == PlaceAt(s2, next)
            D   == E \cup {chk}
<1>1. /\ Sound(t) /\ Len(t.blocks) = Len(s.blocks) /\ t.at = s.at /\ Run(t, E, c)
      /\ Unplaced(t) = Unplaced(s) /\ InPlace(t) = InPlace(s)
  BY OpTypes, PutSound, PutForm
<1>. HIDE DEF t
<1>2. chk \in Nat /\ chk = Len(t.blocks) + 1 /\ Len(s.blocks) \in Nat /\ chk \notin E
      /\ chk = Fresh(t)
  BY <1>1, GoodLen DEF Sound
<1>3. chk # s.at /\ chk + 1 \notin Unplaced(s) /\ chk + 1 \notin E
  BY <1>1, <1>2 DEF Sound, Good, Unplaced
<1>4. D = E \cup {chk} /\ next = chk + 1
  OBVIOUS
<1>. HIDE DEF chk, D, next
<1>5. /\ Sound(c1) /\ Len(c1.blocks) = chk /\ c1.at = s.at /\ Run(c1, D, c)
      /\ Unplaced(c1) = Unplaced(s) /\ InPlace(c1) = InPlace(s) \cup {chk}
  <2>1. D = E \cup {Fresh(t)}
    BY <1>2, <1>4
  <2>2. Run(c1, D, c)
    BY <1>1, <2>1, CreateForm
  <2>3. TRUE \in BOOLEAN
    OBVIOUS
  <2>. QED BY <1>1, <1>2, <2>2, <2>3, CreateSound
<1>. HIDE DEF c1
<1>6. Fresh(c1) = next
  BY <1>4, <1>5, GoodLen DEF Sound
<1>7. /\ Sound(c2) /\ Len(c2.blocks) = next /\ c2.at = s.at /\ Run(c2, D, c)
      /\ Unplaced(c2) = Unplaced(s) \cup {next} /\ InPlace(c2) = InPlace(s) \cup {chk}
  <2>1. Run(c2, D, c)
    BY <1>5, CreateForm
  <2>2. FALSE \in BOOLEAN
    OBVIOUS
  <2>. QED BY <1>4, <1>5, <1>6, <2>1, <2>2, CreateSound
<1>. HIDE DEF c2
<1>8. /\ Br({chk, next}) \in Instr /\ IsTerminator(Br({chk, next}))
      /\ Br({next}) \in Instr /\ IsTerminator(Br({next}))
  <2>1. {chk, next} \in SUBSET Nat /\ {next} \in SUBSET Nat
    BY <1>2, <1>4
  <2>. QED BY <2>1, OpTypes
<1>9. /\ Sound(s1) /\ Len(s1.blocks) = next /\ s1.at = s.at /\ Shut(s1, D, c)
      /\ Unplaced(s1) = Unplaced(s) \cup {next} /\ InPlace(s1) = InPlace(s) \cup {chk}
  BY <1>7, <1>8, PutSound, PutForm
<1>. HIDE DEF s1
<1>10. /\ Sound(i1) /\ Len(i1.blocks) = next /\ i1.at = chk /\ Run(i1, E, c)
       /\ Unplaced(i1) = Unplaced(s) \cup {next} /\ InPlace(i1) = InPlace(s) \cup {chk}
  <2>1. chk \in InPlace(s1) /\ chk # s1.at /\ s1.at \notin E /\ chk \notin E
    BY <1>2, <1>3, <1>9
  <2>2. Run(i1, E, c)
    BY <1>4, <1>9, <2>1, InsertForm
  <2>. QED BY <1>9, <2>1, <2>2, InsertSound
<1>. HIDE DEF i1
<1>11. /\ Sound(s2) /\ Len(s2.blocks) = next /\ s2.at = chk /\ Shut(s2, E, c)
       /\ Unplaced(s2) = Unplaced(s) \cup {next} /\ InPlace(s2) = InPlace(s) \cup {chk}
  BY <1>8, <1>10, PutSound, PutForm
<1>. HIDE DEF s2
<1>12. /\ Sound(q) /\ Len(q.blocks) = next /\ Run(q, E, c) /\ q.at = next
       /\ Unplaced(q) = (Unplaced(s) \cup {next}) \ {next}
       /\ InPlace(q) = InPlace(s) \cup {chk} \cup {next}
  <2>1. next \in Unplaced(s2) /\ s2.at \notin E
    BY <1>2, <1>11
  <2>. QED BY <1>11, <2>1, PlaceSound, PlaceForm
<1>. HIDE DEF q
<1>13. CheckArray(t) = q
  BY DEF CheckArray, q, s2, i1, s1, c2, c1, chk, next
<1>14. Eval(s, e) = t \/ Eval(s, e) = q
  BY <1>13 DEF Eval, t
<1>15. CASE Eval(s, e) = t
  BY <1>1, <1>2, <1>15
<1>16. CASE Eval(s, e) = q
  BY <1>1, <1>2, <1>3, <1>4, <1>12, <1>16
<1>. QED BY <1>14, <1>15, <1>16

-----------------------------------------------------------------------------
(* The blocks that the open constructs have in store are in none of the    *)
(* others' store and not in the function yet.                              *)
Kept(f) ==
  CASE f.kind = "then" -> {f.back, f.out}
    [] f.kind \in {"else", "loop"} -> {f.out}
    [] OTHER -> {}

Stored(fs, U) ==
  /\ \A i \in DOMAIN fs : Kept(fs[i]) \subseteq U /\ (fs[i].kind = "then" => fs[i].back # fs[i].out)
  /\ \A i, j \in DOMAIN fs : i # j => Kept(fs[i]) \cap Kept(fs[j]) = {}

(* The builder after a statement with this hasRet.                         *)
Form(s, r, c) == IF r = "ret" THEN Shut(s, {}, c) /\ Stops(CodeAt(s)) ELSE Run(s, {}, c)

FormInv ==
  /\ Sound(ir)
  /\ Stored(open, Unplaced(ir))
  /\ phase = "visiting" => Form(ir, top.done, clean)
  /\ phase = "generated" => Shut(ir, {}, clean)

LEMMA StoredSame ==
  ASSUME NEW fs \in Seq(Frame), NEW gs \in Seq(Frame), Len(gs) = Len(fs),
         \A i \in 1..Len(fs) :
           gs[i].kind = fs[i].kind /\ gs[i].back = fs[i].back /\ gs[i].out = fs[i].out,
         NEW U, NEW V, Stored(fs, U), U \subseteq V
  PROVE  Stored(gs, V)
<1>1. DOMAIN fs = 1..Len(fs) /\ DOMAIN gs = 1..Len(fs)
  BY LenProperties
<1>2. \A i \in 1..Len(fs) : Kept(gs[i]) = Kept(fs[i])
  BY DEF Kept
<1>. QED BY <1>1, <1>2 DEF Stored

LEMMA StoredPush ==
  ASSUME NEW fs \in Seq(Frame), NEW f \in Frame, NEW U, NEW V, Stored(fs, U), U \subseteq V,
         Kept(f) \subseteq V, Kept(f) \cap U = {}, f.kind = "then" => f.back # f.out
  PROVE  Stored(Append(fs, f), V)
<1>1. PICK gs : gs = Append(fs, f)
  OBVIOUS
<1>2. /\ DOMAIN fs = 1..Len(fs) /\ Len(fs) \in Nat /\ DOMAIN gs = 1..(Len(fs) + 1)
      /\ \A i \in 1..Len(fs) : gs[i] = fs[i]
      /\ gs[Len(fs) + 1] = f
  BY <1>1, AppendProperties, LenProperties
<1>3. \A i \in DOMAIN gs : i \in DOMAIN fs \/ i = Len(fs) + 1
  BY <1>2
<1>4. \A i \in DOMAIN fs : gs[i] = fs[i] /\ Kept(fs[i]) \subseteq U
  BY <1>2 DEF Stored
<1>5. \A i \in DOMAIN gs : Kept(gs[i]) \subseteq V /\ (gs[i].kind = "then" => gs[i].back # gs[i].out)
  BY <1>2, <1>3, <1>4 DEF Stored
<1>6. \A i, j \in DOMAIN gs : i # j => Kept(gs[i]) \cap Kept(gs[j]) = {}
  <2>. SUFFICES ASSUME NEW i \in DOMAIN gs, NEW j \in DOMAIN gs, i # j
                PROVE  Kept(gs[i]) \cap Kept(gs[j]) = {}
    OBVIOUS
  <2>1. CASE i \in DOMAIN fs /\ j \in DOMAIN fs
    BY <1>4, <2>1 DEF Stored
  <2>2. CASE i = Len(fs) + 1
    BY <1>2, <1>3, <1>4, <2>2
  <2>3. CASE j = Len(fs) + 1
    BY <1>2, <1>3, <1>4, <2>3
  <2>. QED BY <2>1, <2>2, <2>3, <1>3
<1>. QED BY <1>1, <1>5, <1>6 DEF Stored

(* Without the construct on top, what it had in store may be used.         *)
LEMMA StoredOuter ==
  ASSUME Stack, Len(open) > 1, NEW U, Stored(open, U)
  PROVE  /\ Kept(top) \subseteq U /\ (top.kind = "then" => top.back # top.out)
         /\ Stored(Outer, U \ Kept(top))
<1>1. /\ Outer \in Seq(Frame) /\ Len(Outer) = Len(open) - 1
      /\ \A i \in 1..Len(Outer) : Outer[i] = open[i]
  BY OuterShape DEF Stack
<1>2. /\ Len(open) \in DOMAIN open /\ top = open[Len(open)] /\ Len(open) \in Nat
      /\ DOMAIN open = 1..Len(open) /\ DOMAIN Outer = 1..(Len(open) - 1)
  BY <1>1, TopShape, LenProperties DEF top
<1>3. \A i \in DOMAIN Outer : i \in DOMAIN open /\ i # Len(open) /\ Outer[i] = open[i]
  BY <1>1, <1>2
<1>. QED BY <1>2, <1>3 DEF Stored

-----------------------------------------------------------------------------
(* Steps by what they do to the list of constructs.                        *)
LEMMA FormStays ==
  ASSUME Stack, FormInv, Sound(ir'), Unplaced(ir) \subseteq Unplaced(ir'),
         open' \in Seq(Frame), Len(open') = Len(open),
         \A i \in 1..Len(open) :
           open'[i].kind = open[i].kind /\ open'[i].back = open[i].back /\ open'[i].out = open[i].out,
         NEW r, open'[Len(open)].done = r, phase' = "visiting", Form(ir', r, clean')
  PROVE  FormInv'
<1>1. Stored(open', Unplaced(ir'))
  BY StoredSame DEF Stack, FormInv
<1>2. top'.done = r
  BY DEF top
<1>. QED BY <1>1, <1>2 DEF FormInv

LEMMA FormComplete ==
  ASSUME Stack, FormInv, Sound(ir'), Unplaced(ir) \subseteq Unplaced(ir'),
         NEW r \in Returns, open' = Ends(open, r), phase' = "visiting", Form(ir', r, clean')
  PROVE  FormInv'
BY FormStays, EndsShape DEF Stack

LEMMA FormOpens ==
  ASSUME Stack, FormInv, Sound(ir'), Unplaced(ir) \subseteq Unplaced(ir'),
         NEW f \in Frame, open' = Append(open, f), f.done = "none", phase' = "visiting",
         Kept(f) \subseteq Unplaced(ir'), Kept(f) \cap Unplaced(ir) = {},
         f.kind = "then" => f.back # f.out,
         Run(ir', {}, clean')
  PROVE  FormInv'
<1>1. Stored(open', Unplaced(ir'))
  BY StoredPush DEF Stack, FormInv
<1>2. top' = f
  BY AppendProperties DEF top, Stack
<1>. QED BY <1>1, <1>2 DEF FormInv, Form

LEMMA FormCloses ==
  ASSUME Stack, FormInv, Len(open) > 1, Sound(ir'), Unplaced(ir) \ Kept(top) \subseteq Unplaced(ir'),
         NEW r \in Returns, open' = Ends(Outer, r), phase' = "visiting", Form(ir', r, clean')
  PROVE  FormInv'
<1>1. Outer \in Seq(Frame) /\ Outer # <<>> /\ Stored(Outer, Unplaced(ir) \ Kept(top))
  BY OuterShape, StoredOuter DEF Stack, FormInv
<1>2. /\ open' \in Seq(Frame) /\ Len(open') = Len(Outer) /\ open'[Len(Outer)].done = r
      /\ \A i \in 1..Len(Outer) :
           /\ open'[i].kind = Outer[i].kind /\ open'[i].back = Outer[i].back
           /\ open'[i].out = Outer[i].out
  BY <1>1, EndsShape
<1>3. Stored(open', Unplaced(ir'))
  BY <1>1, <1>2, StoredSame
<1>4. top'.done = r
  BY <1>2 DEF top
<1>. QED BY <1>3, <1>4 DEF FormInv

(* When the next statement starts, the builder may go on; if the last one  *)
(* returned, that does damage, and clean knows.                            *)
LEMMA FormStarts ==
  ASSUME FormInv, phase = "visiting", clean' = (clean /\ top.done # "ret")
  PROVE  Run(ir, {}, clean') /\ Sound(ir)
<1>1. Form(ir, top.done, clean) /\ Sound(ir)
  BY DEF FormInv
<1>2. CASE top.done = "ret"
  <2>1. ~clean' /\ Stops(CodeAt(ir))
    BY <1>1, <1>2 DEF Form
  <2>. QED BY <1>1, <2>1 DEF Run, Hurt
<1>3. CASE top.done # "ret"
  BY <1>1, <1>3 DEF Form, Run
<1>. QED BY <1>2, <1>3

-----------------------------------------------------------------------------
LEMMA FormEmpty == ASSUME Stack, FormInv, Empty PROVE FormInv'
<1>1. Run(ir, {}, clean') /\ Sound(ir)
  BY FormStarts DEF Empty, AtStatement
<1>2. /\ UNCHANGED ir /\ phase' = "visiting" /\ open' = Ends(open, "noret") /\ "noret" \in Returns
      /\ Form(ir', "noret", clean')
  BY <1>1 DEF Empty, AtStatement, Returns, Form
<1>. QED BY <1>1, <1>2, FormComplete

LEMMA FormSimple == ASSUME Stack, FormInv, NEW e, Simple(e) PROVE FormInv'
<1>1. Run(ir, {}, clean') /\ Sound(ir)
  BY FormStarts DEF Simple, Starts, AtStatement
<1>2. /\ ir' = Eval(ir, e) /\ phase' = "visiting" /\ open' = Ends(open, "noret") /\ "noret" \in Returns
  BY DEF Simple, Starts, AtStatement, Returns
<1>3. Sound(ir') /\ Unplaced(ir) \subseteq Unplaced(ir') /\ Run(ir', {}, clean')
  BY <1>1, <1>2, EvalForm
<1>4. Form(ir', "noret", clean')
  BY <1>3 DEF Form
<1>. QED BY <1>2, <1>3, <1>4, FormComplete

LEMMA FormReturn == ASSUME Stack, FormInv, NEW e, Return(e) PROVE FormInv'
<1>. DEFINE s == Eval(ir, e)
<1>1. Run(ir, {}, clean') /\ Sound(ir)
  BY FormStarts DEF Return, Starts, AtStatement
<1>2. /\ ir' = Put(s, Ret) /\ phase' = "visiting" /\ open' = Ends(open, "ret") /\ "ret" \in Returns
  BY DEF Return, Starts, AtStatement, Returns
<1>3. Sound(s) /\ Unplaced(ir) \subseteq Unplaced(s) /\ Run(s, {}, clean')
  BY <1>1, EvalForm
<1>. HIDE DEF s
<1>4. Sound(ir') /\ Unplaced(ir) \subseteq Unplaced(ir')
  BY <1>2, <1>3, OpTypes, PutSound
<1>5. Shut(ir', {}, clean') /\ Stops(CodeAt(ir'))
  BY <1>2, <1>3, OpTypes, PutForm
<1>6. Form(ir', "ret", clean')
  BY <1>5 DEF Form
<1>. QED BY <1>2, <1>4, <1>6, FormComplete

LEMMA BrForm ==
  ASSUME NEW s, Sound(s), NEW T \in SUBSET Nat, NEW E, NEW c, Run(s, E, c)
  PROVE  /\ Sound(Put(s, Br(T))) /\ Len(Put(s, Br(T)).blocks) = Len(s.blocks)
         /\ Put(s, Br(T)).at = s.at /\ Unplaced(Put(s, Br(T))) = Unplaced(s)
         /\ InPlace(Put(s, Br(T))) = InPlace(s)
         /\ Shut(Put(s, Br(T)), E, c)
<1>1. Br(T) \in Instr /\ IsTerminator(Br(T))
  BY OpTypes
<1>. QED BY <1>1, PutSound, PutForm

LEMMA FormBreak == ASSUME LoweringInv, FormInv, Break PROVE FormInv'
<1>. DEFINE exit == loopExits[Len(loopExits)]
            s    == Put(ir, Br({exit}))
            b    == Fresh(s)
            s1   == Create(s, TRUE)
            fs   == [open EXCEPT ![InnermostLoop].ends = @ \cup pend]
<1>1. Stack /\ Good(ir) /\ open \in Seq(Frame) /\ pend \in SUBSET Place /\ open # <<>>
  BY DEF LoweringInv, Rest, Stack
<1>2. /\ ir' = SetInsertPoint(s1, b) /\ open' = Ends(fs, "noret")
      /\ phase' = "visiting" /\ loopLevel > 0
  BY DEF Break, Starts, AtStatement
<1>3. /\ fs \in Seq(Frame) /\ Len(fs) = Len(open)
      /\ \A i \in 1..Len(open) :
           fs[i].kind = open[i].kind /\ fs[i].back = open[i].back /\ fs[i].out = open[i].out
  BY <1>1, BreakShape
<1>4. {exit} \in SUBSET Nat
  BY <1>1, <1>2, BreakSafe
<1>5. Run(ir, {}, clean') /\ Sound(ir)
  BY FormStarts DEF Break, Starts, AtStatement
<1>. HIDE DEF exit, fs
<1>6. Sound(s) /\ Unplaced(s) = Unplaced(ir) /\ Shut(s, {}, clean')
  BY <1>4, <1>5, BrForm
<1>. HIDE DEF s
<1>7. b # s.at
  BY <1>6, GoodLen DEF Sound, Good
<1>8. /\ Sound(s1) /\ s1.at = s.at /\ Unplaced(s1) = Unplaced(s) /\ b \in InPlace(s1)
      /\ Shut(s1, {b}, clean')
  <2>1. TRUE \in BOOLEAN /\ {b} = {} \cup {Fresh(s)}
    OBVIOUS
  <2>. QED BY <1>6, <2>1, CreateSound, CreateForm
<1>. HIDE DEF s1, b
<1>9. Sound(ir') /\ Unplaced(ir') = Unplaced(ir) /\ Run(ir', {}, clean')
  BY <1>2, <1>6, <1>7, <1>8, InsertSound, InsertForm
<1>10. fs # <<>>
  BY <1>1, <1>3, TopShape
<1>11. /\ open' \in Seq(Frame) /\ Len(open') = Len(open) /\ open'[Len(open)].done = "noret"
       /\ \A i \in 1..Len(open) :
            open'[i].kind = open[i].kind /\ open'[i].back = open[i].back /\ open'[i].out = open[i].out
  BY <1>2, <1>3, <1>10, EndsShape DEF Returns
<1>12. Form(ir', "noret", clean')
  BY <1>9 DEF Form
<1>. QED BY <1>1, <1>2, <1>9, <1>11, <1>12, FormStays

LEMMA FormOpenBlock == ASSUME Stack, FormInv, OpenBlock PROVE FormInv'
<1>1. Run(ir, {}, clean') /\ Sound(ir)
  BY FormStarts DEF OpenBlock, Starts, AtStatement
<1>2. UNCHANGED ir /\ open' = Append(open, Block) /\ phase' = "visiting"
  BY DEF OpenBlock, Starts, AtStatement
<1>3. Block \in Frame /\ Block.kind = "block" /\ Block.done = "none" /\ Kept(Block) = {}
  BY DEF Block, F, Frame, Entry, Place, Returns, Kept
<1>. QED BY <1>1, <1>2, <1>3, FormOpens

LEMMA FormCloseBlock == ASSUME Stack, FormInv, CloseBlock PROVE FormInv'
<1>1. /\ UNCHANGED <<ir, clean>> /\ phase' = "visiting" /\ phase = "visiting" /\ Len(open) > 1
      /\ top.kind = "block"
      /\ open' = Ends(Outer, IF top.done = "ret" THEN "ret" ELSE "noret")
  BY DEF CloseBlock
<1>2. Kept(top) = {} /\ Sound(ir) /\ Form(ir, top.done, clean)
  BY <1>1 DEF Kept, FormInv
<1>3. CASE top.done = "ret"
  <2>1. open' = Ends(Outer, "ret") /\ Form(ir', "ret", clean') /\ "ret" \in Returns
    BY <1>1, <1>2, <1>3 DEF Returns
  <2>. QED BY <1>1, <1>2, <2>1, FormCloses
<1>4. CASE top.done # "ret"
  <2>1. open' = Ends(Outer, "noret") /\ Form(ir', "noret", clean') /\ "noret" \in Returns
    BY <1>1, <1>2, <1>4 DEF Returns, Form
  <2>. QED BY <1>1, <1>2, <2>1, FormCloses
<1>. QED BY <1>3, <1>4

-----------------------------------------------------------------------------
(* The three blocks of an if or a loop: the first is in the function.      *)
LEMMA ThreeBlocks ==
  ASSUME NEW s, Sound(s), NEW E, NEW c, Run(s, E, c), NEW n, n = Fresh(s), NEW D, D = E \cup {n}
  PROVE  LET t == Create(Create(Create(s, TRUE), FALSE), FALSE) IN
         /\ Sound(t) /\ Len(t.blocks) = Len(s.blocks) + 3 /\ t.at = s.at
         /\ Unplaced(t) = Unplaced(s) \cup {n + 1, n + 2}
         /\ n \in InPlace(t) /\ Run(t, D, c)
         /\ n \in Nat /\ n = Len(s.blocks) + 1 /\ n # s.at /\ Len(s.blocks) \in Nat
         /\ (Unplaced(s) \cup InPlace(s)) \cap {n, n + 1, n + 2} = {}
<1>. DEFINE t1 == Create(s, TRUE)
            t2 == Create(t1, FALSE)
            t  == Create(t2, FALSE)
<1>1. /\ n \in Nat /\ n = Len(s.blocks) + 1 /\ n # s.at /\ Len(s.blocks) \in Nat
      /\ (Unplaced(s) \cup InPlace(s)) \cap {n, n + 1, n + 2} = {}
  BY GoodLen DEF Sound, Good, Unplaced, InPlace
<1>2. TRUE \in BOOLEAN /\ FALSE \in BOOLEAN
  OBVIOUS
<1>3. /\ Sound(t1) /\ Len(t1.blocks) = n /\ t1.at = s.at
      /\ Unplaced(t1) = Unplaced(s) /\ n \in InPlace(t1) /\ Run(t1, D, c)
  <2>1. Run(t1, D, c)
    BY <1>2, CreateForm
  <2>. QED BY <1>1, <1>2, <2>1, CreateSound
<1>. HIDE DEF t1
<1>4. Fresh(t1) = n + 1
  BY <1>3, GoodLen DEF Sound
<1>5. /\ Sound(t2) /\ Len(t2.blocks) = n + 1 /\ t2.at = s.at
      /\ Unplaced(t2) = Unplaced(s) \cup {n + 1} /\ n \in InPlace(t2) /\ Run(t2, D, c)
  <2>1. Run(t2, D, c)
    BY <1>2, <1>3, CreateForm
  <2>. QED BY <1>2, <1>3, <1>4, <2>1, CreateSound
<1>. HIDE DEF t2
<1>6. Fresh(t2) = n + 2
  BY <1>1, <1>5, GoodLen DEF Sound
<1>7. /\ Sound(t) /\ Len(t.blocks) = n + 2 /\ t.at = s.at
      /\ Unplaced(t) = Unplaced(s) \cup {n + 1, n + 2} /\ n \in InPlace(t) /\ Run(t, D, c)
  <2>1. Run(t, D, c)
    BY <1>2, <1>5, CreateForm
  <2>2. /\ Sound(t) /\ Len(t.blocks) = (n + 1) + 1 /\ t.at = s.at
        /\ Unplaced(t) = Unplaced(t2) \cup {Fresh(t2)} /\ n \in InPlace(t)
    BY <1>2, <1>5, CreateSound
  <2>3. (n + 1) + 1 = n + 2
    BY <1>1
  <2>. HIDE DEF t
  <2>. QED BY <1>5, <1>6, <2>1, <2>2, <2>3
<1>. HIDE DEF t
<1>8. Len(t.blocks) = Len(s.blocks) + 3
  BY <1>1, <1>7
<1>. QED BY <1>1, <1>7, <1>8 DEF t, t2, t1

LEMMA FormIf == ASSUME Stack, FormInv, NEW e, If(e) PROVE FormInv'
<1>. DEFINE s     == Eval(ir, e)
            then  == Fresh(s)
            else  == then + 1
            merge == then + 2
            made  == Create(Create(Create(s, TRUE), FALSE), FALSE)
            cut   == Put(made, Br({then, else}))
            f     == F("then", else, merge, Loc(ir), {}, "none")
            D     == {} \cup {then}
<1>1. Run(ir, {}, clean') /\ Sound(ir)
  BY FormStarts DEF If, Starts, AtStatement
<1>2. /\ Loc(ir) \in Place /\ ir' = SetInsertPoint(cut, then)
      /\ open' = Append(open, f) /\ phase' = "visiting"
  BY LocPlace DEF If, Stack, Starts, AtStatement
<1>3. /\ Sound(s) /\ Unplaced(ir) \subseteq Unplaced(s) /\ InPlace(ir) \subseteq InPlace(s)
      /\ Run(s, {}, clean')
  BY <1>1, EvalForm
<1>. HIDE DEF s
<1>4. /\ Sound(made) /\ made.at = s.at
      /\ Unplaced(made) = Unplaced(s) \cup {then + 1, then + 2} /\ then \in InPlace(made)
      /\ Run(made, D, clean')
      /\ then \in Nat /\ then # s.at
      /\ (Unplaced(s) \cup InPlace(s)) \cap {then, then + 1, then + 2} = {}
  BY <1>3, ThreeBlocks
<1>. HIDE DEF made, then, D
<1>5. {then, else} \in SUBSET Nat
  BY <1>4
<1>6. /\ Sound(cut) /\ cut.at = s.at /\ Unplaced(cut) = Unplaced(made)
      /\ then \in InPlace(cut) /\ Shut(cut, D, clean')
  BY <1>4, <1>5, BrForm
<1>. HIDE DEF cut
<1>7. Sound(ir') /\ Unplaced(ir') = Unplaced(made) /\ Run(ir', {}, clean')
  <2>1. D = {} \cup {then} /\ then # cut.at
    BY <1>4, <1>6 DEF D
  <2>. QED BY <1>2, <1>6, <2>1, InsertSound, InsertForm
<1>8. /\ f \in Frame /\ f.kind = "then" /\ f.done = "none" /\ Kept(f) = {else, merge}
      /\ f.back # f.out
  <2>1. else \in Nat /\ merge \in Nat /\ else # merge
    BY <1>4
  <2>2. f.kind = "then" /\ f.back = else /\ f.out = merge /\ f.done = "none"
    BY DEF F
  <2>3. f \in Frame
    BY <1>2, <2>1, <2>2, FrameTypes
  <2>. HIDE DEF f
  <2>. QED BY <2>1, <2>2, <2>3 DEF Kept
<1>. HIDE DEF f
<1>9. /\ Unplaced(ir) \subseteq Unplaced(ir') /\ Kept(f) \subseteq Unplaced(ir')
      /\ Kept(f) \cap Unplaced(ir) = {}
  BY <1>3, <1>4, <1>7, <1>8
<1>. QED BY <1>2, <1>7, <1>8, <1>9, FormOpens

LEMMA ToMergeForm ==
  ASSUME Stack, FormInv, phase = "visiting", top.kind # "block"
  PROVE  /\ Sound(ToMerge) /\ Unplaced(ToMerge) = Unplaced(ir) /\ Shut(ToMerge, {}, clean)
         /\ ToMerge.at \in InPlace(ToMerge)
<1>1. Sound(ir) /\ Form(ir, top.done, clean) /\ {top.out} \in SUBSET Nat
  BY TopShape DEF FormInv
<1>2. CASE top.done = "ret"
  BY <1>1, <1>2 DEF ToMerge, Form, Sound
<1>3. CASE top.done # "ret"
  <2>1. Run(ir, {}, clean) /\ ToMerge = Put(ir, Br({top.out}))
    BY <1>1, <1>3 DEF Form, ToMerge
  <2>2. Sound(ToMerge) /\ Unplaced(ToMerge) = Unplaced(ir) /\ Shut(ToMerge, {}, clean)
    BY <1>1, <2>1, BrForm
  <2>. QED BY <2>2 DEF Sound
<1>. QED BY <1>2, <1>3

LEMMA FormElse == ASSUME LoweringInv, FormInv, Else PROVE FormInv'
<1>. DEFINE n == Len(open)
            s == ToMerge
<1>1. /\ Stack /\ open \in Seq(Frame) /\ n \in 1..n /\ n > 1 /\ top \in Frame /\ top = open[n]
      /\ top.kind = "then" /\ phase' = "visiting" /\ phase = "visiting" /\ clean' = clean
      /\ ir' = PlaceAt(s, top.back)
  BY TopShape DEF LoweringInv, Stack, top, Else, Inside
<1>2. open' \in Seq(Frame)
  BY ElseInv DEF LoweringInv, Stack
<1>3. PICK g : /\ g = [top EXCEPT !.kind = "else", !.thenRet = top.done, !.done = "none", !.ends = pend]
               /\ open' = [open EXCEPT ![n] = g]
  BY DEF Else, top
<1>4. g.kind = "else" /\ g.done = "none" /\ g.out = top.out
  BY <1>1, <1>3 DEF Frame
<1>5. /\ DOMAIN open = 1..n /\ DOMAIN open' = 1..n /\ open'[n] = g
      /\ \A i \in 1..n : i # n => open'[i] = open[i]
  BY <1>1, <1>3, LenProperties
<1>6. Len(open') = n
  <2>1. g \in Frame
    BY <1>1, <1>2, <1>5, LenProperties
  <2>. QED BY <2>1, <1>1, <1>3, ExceptSeq
<1>7. PICK U : U = Unplaced(ir)
  OBVIOUS
<1>8. /\ Kept(top) = {top.back, top.out} /\ Kept(top) \subseteq U /\ top.back # top.out
      /\ Stored(open, U)
  BY <1>1, <1>7, StoredOuter DEF Kept, FormInv
<1>9. Sound(ir') /\ Unplaced(ir') = U \ {top.back} /\ Run(ir', {}, clean')
  <2>1. Sound(s) /\ Unplaced(s) = U /\ Shut(s, {}, clean) /\ top.back \in Unplaced(s)
    BY <1>1, <1>7, <1>8, ToMergeForm
  <2>. HIDE DEF s
  <2>. QED BY <1>1, <2>1, PlaceSound, PlaceForm
<1>10. Stored(open', U \ {top.back})
  <2>1. Kept(g) = {top.out}
    BY <1>4 DEF Kept
  <2>2. \A i \in 1..n : i # n => Kept(open[i]) \cap Kept(top) = {}
    BY <1>1, <1>5, <1>8 DEF Stored
  <2>3. ASSUME NEW i \in 1..n
        PROVE  /\ Kept(open'[i]) \subseteq Kept(open[i]) /\ Kept(open'[i]) \subseteq U \ {top.back}
               /\ open'[i].kind = "then" => open'[i].back # open'[i].out
    <3>1. CASE i = n
      BY <1>1, <1>4, <1>5, <1>8, <2>1, <3>1
    <3>2. CASE i # n
      BY <1>5, <1>8, <2>2, <3>2 DEF Stored
    <3>. QED BY <3>1, <3>2
  <2>4. \A i, j \in 1..n : i # j => Kept(open[i]) \cap Kept(open[j]) = {}
    BY <1>5, <1>8 DEF Stored
  <2>5. \A i, j \in 1..n : i # j => Kept(open'[i]) \cap Kept(open'[j]) = {}
    BY <2>3, <2>4
  <2>. QED BY <1>5, <2>3, <2>5 DEF Stored
<1>11. top'.done = "none"
  BY <1>4, <1>5, <1>6 DEF top
<1>. QED BY <1>1, <1>9, <1>10, <1>11 DEF FormInv, Form

LEMMA FormEndIf == ASSUME Stack, FormInv, EndIf PROVE FormInv'
<1>. DEFINE s  == ToMerge
            s1 == PlaceAt(s, top.back)
            s2 == Put(s1, Br({top.out}))
<1>1. /\ Len(open) > 1 /\ top.kind = "then" /\ ir' = PlaceAt(s2, top.out)
      /\ {top.out} \in SUBSET Nat /\ clean' = clean /\ phase = "visiting"
      /\ open' = Ends(Outer, "noret") /\ phase' = "visiting"
  BY TopShape DEF EndIf, Inside
<1>2. /\ Kept(top) = {top.back, top.out} /\ Kept(top) \subseteq Unplaced(ir) /\ top.back # top.out
  BY <1>1, StoredOuter DEF Kept, FormInv
<1>3. Sound(s) /\ Unplaced(s) = Unplaced(ir) /\ Shut(s, {}, clean) /\ top.back \in Unplaced(s)
  BY <1>1, <1>2, ToMergeForm
<1>. HIDE DEF s
<1>4. Sound(s1) /\ Unplaced(s1) = Unplaced(ir) \ {top.back} /\ Run(s1, {}, clean)
  BY <1>3, PlaceSound, PlaceForm
<1>. HIDE DEF s1
<1>5. Sound(s2) /\ Unplaced(s2) = Unplaced(ir) \ {top.back} /\ Shut(s2, {}, clean)
  BY <1>1, <1>4, BrForm
<1>. HIDE DEF s2
<1>6. /\ Sound(ir') /\ Unplaced(ir') = (Unplaced(ir) \ {top.back}) \ {top.out}
      /\ Run(ir', {}, clean')
  <2>1. top.out \in Unplaced(s2)
    BY <1>2, <1>5
  <2>. QED BY <1>1, <1>5, <2>1, PlaceSound, PlaceForm
<1>7. Form(ir', "noret", clean') /\ "noret" \in Returns
  BY <1>6 DEF Form, Returns
<1>8. Unplaced(ir) \ Kept(top) \subseteq Unplaced(ir')
  BY <1>2, <1>6
<1>. QED BY <1>1, <1>6, <1>7, <1>8, FormCloses

(* Both sides returned: the builder stays in the block of the second.      *)
LEMMA FormEndIfElse == ASSUME Stack, FormInv, EndIfElse PROVE FormInv'
<1>. DEFINE returns == top.thenRet = "ret" /\ top.done = "ret"
            s == ToMerge
<1>1. /\ Len(open) > 1 /\ top.kind = "else" /\ clean' = clean /\ phase = "visiting"
      /\ ir' = IF returns THEN s ELSE PlaceAt(s, top.out)
      /\ open' = Ends(Outer, IF returns THEN "ret" ELSE "noret") /\ phase' = "visiting"
  BY TopShape DEF EndIfElse, Inside
<1>2. Kept(top) = {top.out} /\ Kept(top) \subseteq Unplaced(ir)
  BY <1>1, StoredOuter DEF Kept, FormInv
<1>3. Sound(s) /\ Unplaced(s) = Unplaced(ir) /\ Shut(s, {}, clean)
  BY <1>1, ToMergeForm
<1>4. CASE returns
  <2>1. ir' = ir /\ open' = Ends(Outer, "ret") /\ top.done = "ret"
    BY <1>1, <1>4 DEF ToMerge
  <2>2. Form(ir', "ret", clean') /\ Sound(ir) /\ "ret" \in Returns
    BY <1>1, <2>1 DEF FormInv, Returns
  <2>. QED BY <1>1, <2>1, <2>2, FormCloses
<1>5. CASE ~returns
  <2>. HIDE DEF s
  <2>1. ir' = PlaceAt(s, top.out) /\ open' = Ends(Outer, "noret") /\ top.out \in Unplaced(s)
    BY <1>1, <1>2, <1>3, <1>5
  <2>2. Sound(ir') /\ Unplaced(ir') = Unplaced(ir) \ {top.out} /\ Run(ir', {}, clean')
    BY <1>1, <1>3, <2>1, PlaceSound, PlaceForm
  <2>3. Form(ir', "noret", clean') /\ "noret" \in Returns
    BY <2>2 DEF Form, Returns
  <2>4. Unplaced(ir) \ Kept(top) \subseteq Unplaced(ir')
    BY <1>2, <2>2
  <2>. QED BY <1>1, <2>1, <2>2, <2>3, <2>4, FormCloses
<1>. QED BY <1>4, <1>5

-----------------------------------------------------------------------------
LEMMA FormLoop ==
  ASSUME Stack, FormInv, phase' = "visiting",
         NEW s, Sound(s), NEW in, in = Fresh(ir), in \in InPlace(s), in # s.at,
         Run(s, {in}, clean'),
         Unplaced(ir) \cup {in + 1, in + 2} \subseteq Unplaced(s),
         NEW e, NEW update \in {"none"} \cup Exprs, EnterLoop(s, in, e, update)
  PROVE  FormInv'
<1>. DEFINE s1 == Put(s, Br({in}))
            s2 == SetInsertPoint(s1, in)
            s3 == Eval(s2, e)
            s4 == Put(s3, Br({in + 1, in + 2}))
            f  == F("loop", in, in + 2, <<in, 1>>, {<<in, 1>>}, update)
<1>1. /\ ir' = PlaceAt(s4, in + 1) /\ open' = Append(open, f)
      /\ Len(ir.blocks) \in Nat /\ in = Len(ir.blocks) + 1
  BY GoodLen DEF EnterLoop, Branch, Stack
<1>2. {in} \in SUBSET Nat /\ {in + 1, in + 2} \in SUBSET Nat
  BY <1>1
<1>3. /\ Sound(s1) /\ s1.at = s.at /\ Unplaced(s1) = Unplaced(s) /\ InPlace(s1) = InPlace(s)
      /\ Shut(s1, {in}, clean')
  BY <1>2, BrForm
<1>. HIDE DEF s1
<1>4. Sound(s2) /\ Unplaced(s2) = Unplaced(s) /\ Run(s2, {}, clean')
  <2>1. {in} = {} \cup {in} /\ in # s1.at /\ in \in InPlace(s1)
    BY <1>3
  <2>. QED BY <1>3, <2>1, InsertSound, InsertForm
<1>. HIDE DEF s2
<1>5. Sound(s3) /\ Unplaced(s) \subseteq Unplaced(s3) /\ Run(s3, {}, clean')
  BY <1>4, EvalForm
<1>. HIDE DEF s3
<1>6. Sound(s4) /\ Unplaced(s4) = Unplaced(s3) /\ Shut(s4, {}, clean')
  BY <1>2, <1>5, BrForm
<1>. HIDE DEF s4
<1>7. Sound(ir') /\ Unplaced(ir') = Unplaced(s4) \ {in + 1} /\ Run(ir', {}, clean')
  <2>1. in + 1 \in Unplaced(s4)
    BY <1>5, <1>6
  <2>. QED BY <1>1, <1>6, <2>1, PlaceSound, PlaceForm
<1>8. f \in Frame /\ f.kind = "loop" /\ f.done = "none" /\ Kept(f) = {in + 2}
  <2>1. in \in Nat /\ in + 2 \in Nat /\ <<in, 1>> \in Place /\ {<<in, 1>>} \in SUBSET Place
    BY <1>1 DEF Place
  <2>2. f.kind = "loop" /\ f.out = in + 2 /\ f.done = "none"
    BY DEF F
  <2>3. f \in Frame
    BY <2>1, FrameTypes
  <2>. HIDE DEF f
  <2>. QED BY <2>2, <2>3 DEF Kept
<1>. HIDE DEF f
<1>9. in + 1 # in + 2 /\ in + 1 \notin Unplaced(ir) /\ in + 2 \notin Unplaced(ir)
  BY <1>1 DEF Unplaced
<1>10. /\ Unplaced(ir) \subseteq Unplaced(ir') /\ Kept(f) \subseteq Unplaced(ir')
       /\ Kept(f) \cap Unplaced(ir) = {}
  BY <1>5, <1>6, <1>7, <1>8, <1>9
<1>. QED BY <1>1, <1>7, <1>8, <1>10, FormOpens

(* The blocks of a loop, the first of which is still empty.                *)
LEMMA LoopForm ==
  ASSUME Stack, NEW c, Run(ir, {}, c), Sound(ir), NEW n, n = Fresh(ir)
  PROVE  /\ Sound(LoopBlocks) /\ n \in InPlace(LoopBlocks) /\ n # LoopBlocks.at
         /\ n \in 1..Len(LoopBlocks.blocks) /\ Run(LoopBlocks, {n}, c)
         /\ Unplaced(ir) \cup {n + 1, n + 2} \subseteq Unplaced(LoopBlocks)
<1>1. {n} = {} \cup {n}
  OBVIOUS
<1>2. PICK t : t = LoopBlocks
  OBVIOUS
<1>3. /\ Sound(t) /\ t.at = ir.at /\ Unplaced(t) = Unplaced(ir) \cup {n + 1, n + 2}
      /\ n \in InPlace(t) /\ Run(t, {n}, c) /\ n # ir.at
  BY ZenonT(60), <1>1, <1>2, ThreeBlocks DEF LoopBlocks
<1>4. n \in 1..Len(t.blocks)
  BY <1>3 DEF InPlace
<1>. QED BY <1>2, <1>3, <1>4

LEMMA FormWhile == ASSUME Stack, FormInv, NEW e, While(e) PROVE FormInv'
<1>1. Run(ir, {}, clean') /\ Sound(ir)
  BY FormStarts DEF While, Starts, AtStatement
<1>2. EnterLoop(LoopBlocks, Fresh(ir), e, "none") /\ phase' = "visiting"
  BY DEF While, Starts, AtStatement
<1>3. PICK n : n = Fresh(ir)
  OBVIOUS
<1>4. PICK t : t = LoopBlocks
  OBVIOUS
<1>5. /\ Sound(t) /\ n \in InPlace(t) /\ n # t.at /\ Run(t, {n}, clean')
      /\ Unplaced(ir) \cup {n + 1, n + 2} \subseteq Unplaced(t)
  BY <1>1, <1>3, <1>4, LoopForm
<1>6. EnterLoop(t, n, e, "none")
  BY <1>2, <1>3, <1>4
<1>. QED BY <1>2, <1>3, <1>5, <1>6, FormLoop

LEMMA FormFor ==
  ASSUME Stack, FormInv, NEW init, NEW e, NEW update \in Exprs, For(init, e, update)
  PROVE  FormInv'
<1>1. Run(ir, {}, clean') /\ Sound(ir)
  BY FormStarts DEF For, Starts, AtStatement
<1>2. EnterLoop(Eval(LoopBlocks, init), Fresh(ir), e, update) /\ phase' = "visiting"
  BY DEF For, Starts, AtStatement
<1>3. PICK n : n = Fresh(ir)
  OBVIOUS
<1>4. PICK t : t = LoopBlocks
  OBVIOUS
<1>5. /\ Sound(t) /\ n \in InPlace(t) /\ n # t.at /\ Run(t, {n}, clean')
      /\ {n} \subseteq 1..Len(t.blocks)
      /\ Unplaced(ir) \cup {n + 1, n + 2} \subseteq Unplaced(t)
  BY <1>1, <1>3, <1>4, LoopForm
<1>6. PICK s : s = Eval(t, init)
  OBVIOUS
<1>7. /\ Sound(s) /\ Unplaced(t) \subseteq Unplaced(s) /\ InPlace(t) \subseteq InPlace(s)
      /\ s.at \notin {n} /\ Run(s, {n}, clean')
  BY <1>5, <1>6, EvalForm
<1>8. EnterLoop(s, n, e, update)
  BY <1>2, <1>3, <1>4, <1>6
<1>. QED BY <1>2, <1>3, <1>5, <1>7, <1>8, FormLoop

(* A body that returned is damaged by the branch back.                     *)
LEMMA FormEndLoop == ASSUME Stack, FormInv, EndLoop PROVE FormInv'
<1>. DEFINE s  == IF top.update = "none" THEN ir ELSE Eval(ir, top.update)
            s1 == Put(s, Br({top.back}))
<1>1. /\ Len(open) > 1 /\ top.kind = "loop" /\ ir' = PlaceAt(s1, top.out)
      /\ {top.back} \in SUBSET Nat /\ phase = "visiting"
      /\ clean' = (clean /\ top.done # "ret")
      /\ open' = Ends(Outer, "noret") /\ phase' = "visiting"
  BY TopShape DEF EndLoop, Inside
<1>2. Run(ir, {}, clean') /\ Sound(ir)
  BY <1>1, FormStarts
<1>3. Kept(top) = {top.out} /\ Kept(top) \subseteq Unplaced(ir)
  BY <1>1, StoredOuter DEF Kept, FormInv
<1>4. Sound(s) /\ Unplaced(ir) \subseteq Unplaced(s) /\ Run(s, {}, clean')
  <2>1. CASE top.update = "none"
    BY <1>2, <2>1
  <2>2. CASE top.update # "none"
    BY <1>2, <2>2, EvalForm
  <2>. QED BY <2>1, <2>2
<1>. HIDE DEF s
<1>5. Sound(s1) /\ Unplaced(s1) = Unplaced(s) /\ Shut(s1, {}, clean')
  BY <1>1, <1>4, BrForm
<1>. HIDE DEF s1
<1>6. Sound(ir') /\ Unplaced(ir') = Unplaced(s1) \ {top.out} /\ Run(ir', {}, clean')
  <2>1. top.out \in Unplaced(s1)
    BY <1>3, <1>4, <1>5
  <2>. QED BY <1>1, <1>5, <2>1, PlaceSound, PlaceForm
<1>7. Form(ir', "noret", clean') /\ "noret" \in Returns
  BY <1>6 DEF Form, Returns
<1>8. Unplaced(ir) \ Kept(top) \subseteq Unplaced(ir')
  BY <1>3, <1>4, <1>5, <1>6
<1>. QED BY <1>1, <1>6, <1>7, <1>8, FormCloses

-----------------------------------------------------------------------------
LEMMA FormEndValue == ASSUME FormInv, EndValueMethod PROVE FormInv'
<1>1. /\ phase = "visiting" /\ top.done = "ret" /\ phase' = "generated"
      /\ UNCHANGED <<open, ir, clean>>
  BY DEF EndValueMethod, AtMethodEnd
<1>2. Shut(ir, {}, clean)
  BY <1>1 DEF FormInv, Form
<1>. QED BY <1>1, <1>2 DEF FormInv

LEMMA FormEndVoid == ASSUME FormInv, EndVoidMethod PROVE FormInv'
<1>. DEFINE s == Put(ir, Point)
<1>1. /\ phase = "visiting" /\ phase' = "generated" /\ UNCHANGED open /\ ir' = Put(s, Ret)
      /\ clean' = (clean /\ top.done # "ret")
  BY DEF EndVoidMethod, AtMethodEnd
<1>2. Run(ir, {}, clean') /\ Sound(ir)
  BY <1>1, FormStarts
<1>3. Sound(s) /\ Unplaced(s) = Unplaced(ir) /\ Run(s, {}, clean')
  BY <1>2, OpTypes, PutSound, PutForm
<1>. HIDE DEF s
<1>4. Sound(ir') /\ Unplaced(ir') = Unplaced(ir) /\ Shut(ir', {}, clean')
  BY <1>1, <1>3, OpTypes, PutSound, PutForm
<1>5. Stored(open', Unplaced(ir'))
  BY <1>1, <1>4 DEF FormInv
<1>. QED BY <1>1, <1>4, <1>5 DEF FormInv

LEMMA FormInit == Init => FormInv
<1>. SUFFICES ASSUME Init PROVE FormInv
  OBVIOUS
<1>. DEFINE b == [code |-> <<>>, placed |-> TRUE]
<1>1. ir.blocks = <<b>> /\ ir.at = 1 /\ open = <<Block>> /\ phase = "visiting" /\ clean = TRUE
  BY DEF Init
<1>2. b.placed = TRUE /\ b.code = <<>> /\ Block.kind = "block" /\ Block.done = "none"
  BY DEF Block, F
<1>. HIDE DEF b
<1>3. Good(ir)
  BY LoweringInit DEF LoweringInv, Stack
<1>4. InPlace(ir) = {1} /\ Len(ir.blocks) = 1 /\ CodeAt(ir) = <<>>
  BY <1>1, <1>2 DEF InPlace, CodeAt
<1>5. Sound(ir) /\ Tidy(ir, {}) /\ Plain(CodeAt(ir))
  BY <1>1, <1>3, <1>4, EmptyCode DEF Sound, Tidy
<1>6. Stored(open, Unplaced(ir))
  BY <1>1, <1>2 DEF Stored, Kept
<1>7. top.done = "none"
  BY <1>1, <1>2 DEF top
<1>. QED BY <1>1, <1>5, <1>6, <1>7 DEF FormInv, Form, Run

LEMMA FormStep == LoweringInv /\ FormInv /\ [Next]_vars => FormInv'
<1>. SUFFICES ASSUME LoweringInv, FormInv, [Next]_vars PROVE FormInv'
  OBVIOUS
<1>0. Stack
  BY DEF LoweringInv
<1>1. CASE Empty \/ Break
  BY <1>0, <1>1, FormEmpty, FormBreak
<1>2. CASE ReturnNothing \/ BreakOutsideLoop \/ ForWithoutPart
  BY <1>2 DEF ReturnNothing, BreakOutsideLoop, ForWithoutPart, FormInv
<1>3. CASE \E e \in Exprs : Simple(e) \/ Return(e) \/ If(e) \/ While(e)
  BY <1>0, <1>3, FormSimple, FormReturn, FormIf, FormWhile
<1>4. CASE \E init, e, update \in Exprs : For(init, e, update)
  BY <1>0, <1>4, FormFor
<1>5. CASE OpenBlock \/ CloseBlock
  BY <1>0, <1>5, FormOpenBlock, FormCloseBlock
<1>6. CASE Else \/ EndIf \/ EndIfElse
  BY <1>0, <1>6, FormElse, FormEndIf, FormEndIfElse
<1>7. CASE EndLoop
  BY <1>0, <1>7, FormEndLoop
<1>8. CASE MissingReturn
  BY <1>8 DEF MissingReturn, FormInv
<1>9. CASE EndValueMethod \/ EndVoidMethod
  BY <1>9, FormEndValue, FormEndVoid
<1>10. CASE UNCHANGED vars
  BY <1>10 DEF vars, FormInv, top
<1>. QED BY <1>1, <1>2, <1>3, <1>4, <1>5, <1>6, <1>7, <1>8, <1>9, <1>10 DEF Next

(* For bodies of any size: when code is generated, each block of the       *)
(* function has one terminator, at its end, exactly if no statement        *)
(* follows a returning one in its block, no loop body returns in any case, *)
(* and no void method ends by returning a value.                           *)
THEOREM WellFormedCorrect == Spec => []WellFormedExactly
<1>1. LoweringInv /\ FormInv /\ [Next]_vars => LoweringInv' /\ FormInv'
  BY LoweringStep, FormStep
<1>2. LoweringInv /\ FormInv => WellFormedExactly
  <2>. SUFFICES ASSUME Good(ir), FormInv, phase = "generated"
                PROVE  clean <=> \A b \in Blocks : Placed(b) => WellFormed(b)
    BY DEF LoweringInv, Stack, WellFormedExactly
  <2>1. Blocks = 1..Len(ir.blocks) /\ \A b : b \in InPlace(ir) <=> b \in Blocks /\ Placed(b)
    <3>1. ir.blocks \in Seq(BasicBlock)
      BY DEF Good, IR
    <3>. QED BY <3>1, LenProperties DEF Blocks, InPlace, Placed
  <2>2. \A b \in Blocks : WellFormed(b) <=> Closed(ir.blocks[b].code)
    BY DEF WellFormed, Closed, Code
  <2>3. Shut(ir, {}, clean)
    BY DEF FormInv
  <2>4. ASSUME clean, NEW b \in InPlace(ir) PROVE Closed(ir.blocks[b].code)
    <3>1. Tidy(ir, {}) /\ Closed(CodeAt(ir)) /\ b \in 1..Len(ir.blocks)
      BY <2>1, <2>3, <2>4 DEF Shut
    <3>. QED BY <3>1 DEF Tidy, CodeAt
  <2>5. ASSUME ~clean PROVE \E b \in InPlace(ir) : ~Closed(ir.blocks[b].code)
    <3>1. PICK b \in InPlace(ir) : Broken(ir.blocks[b].code)
      BY <2>3, <2>5 DEF Shut, Damaged
    <3>2. ir.blocks[b].code \in Seq(Instr)
      BY <2>1, CodeTypes
    <3>. QED BY <3>1, <3>2, ClosedStops
  <2>. QED BY <2>1, <2>2, <2>4, <2>5
<1>. QED BY <1>1, <1>2, LoweringInit, FormInit, PTL DEF Spec

-----------------------------------------------------------------------------
(* Where control goes in the code emitted so far.  C has the code of each  *)
(* block.  A place is <<block, index>>, that of an instruction or, behind  *)
(* the last, of the next one.  L gives for each block the places without a *)
(* terminator that control comes to first when it enters the block.        *)
EndsAt(c, j) == j \in DOMAIN c /\ IsTerminator(c[j])

Goes(C, L, b, j) == IF EndsAt(C[b], j) THEN UNION {L[t] : t \in C[b][j].to} ELSE {<<b, j>>}

PlacesIn(C) == {q \in Place : q[1] \in DOMAIN C /\ q[2] \in 1..(Len(C[q[1]]) + 1)}
PointsIn(C) ==
  {q \in Place : q[1] \in DOMAIN C /\ q[2] \in DOMAIN C[q[1]] /\ ~IsTerminator(C[q[1]][q[2]])}

Graph(C, L) ==
  \A b \in DOMAIN C :
    /\ L[b] = Goes(C, L, b, 1) /\ L[b] \subseteq PlacesIn(C)
    /\ \A j \in DOMAIN C[b] : C[b][j].to \subseteq DOMAIN C

(* The places that follow a point, and the points a place follows.         *)
After(C, L, p) == IF p = Entry THEN L[1] ELSE Goes(C, L, p[1], p[2] + 1)
Into(C, L, q) == {p \in PointsIn(C) \cup {Entry} : q \in After(C, L, p)}

Ways(C, I) == \E L : Graph(C, L) /\ \A q \in Place : I[q] = Into(C, L, q)

(* D has one more instruction than C, the m-th of block a.                 *)
Longer(C, D, a, m) ==
  /\ DOMAIN D = DOMAIN C /\ a \in DOMAIN C
  /\ \A b \in DOMAIN C : b # a => D[b] = C[b]
  /\ DOMAIN C[a] = 1..(m - 1) /\ Len(C[a]) = m - 1 /\ DOMAIN D[a] = 1..m /\ Len(D[a]) = m
  /\ \A j \in 1..(m - 1) : D[a][j] = C[a][j]

Code1 == UNION {[1..n -> Seq(Instr)] : n \in Nat \ {0}}

LEMMA CodeDomain ==
  ASSUME NEW C \in Code1
  PROVE  /\ 1 \in DOMAIN C
         /\ \A b \in DOMAIN C : /\ b \in Nat \ {0} /\ C[b] \in Seq(Instr) /\ Len(C[b]) \in Nat
                                /\ DOMAIN C[b] = 1..Len(C[b])
<1>1. PICK n \in Nat \ {0} : C \in [1..n -> Seq(Instr)]
  BY DEF Code1
<1>. QED BY <1>1, LenProperties

LEMMA PlacesAre ==
  ASSUME NEW C \in Code1, NEW b \in DOMAIN C, NEW j \in Nat
  PROVE  /\ <<b, j>> \in Place /\ <<b, j>>[1] = b /\ <<b, j>>[2] = j /\ <<b, j>> # Entry
         /\ <<b, j>> \in PlacesIn(C) <=> j \in 1..(Len(C[b]) + 1)
         /\ <<b, j>> \in PointsIn(C) <=> j \in DOMAIN C[b] /\ ~EndsAt(C[b], j)
<1>1. b \in Nat \ {0}
  BY CodeDomain
<1>2. <<b, j>> \in Place /\ <<b, j>> # Entry
  BY <1>1 DEF Place, Entry
<1>. QED BY <1>2 DEF PlacesIn, PointsIn, EndsAt

LEMMA PointsAre ==
  ASSUME NEW C \in Code1, NEW p \in PointsIn(C)
  PROVE  /\ p[1] \in DOMAIN C /\ p[2] \in DOMAIN C[p[1]] /\ p[2] \in Nat \ {0}
         /\ p = <<p[1], p[2]>> /\ p # Entry /\ p \in PlacesIn(C)
         /\ p[2] + 1 \in 1..(Len(C[p[1]]) + 1)
<1>1. p \in Nat \X Nat /\ p[1] \in DOMAIN C /\ p[2] \in DOMAIN C[p[1]]
  BY DEF PointsIn, Place
<1>2. /\ p[1] \in Nat \ {0} /\ Len(C[p[1]]) \in Nat /\ DOMAIN C[p[1]] = 1..Len(C[p[1]])
  BY <1>1, CodeDomain
<1>3. p = <<p[1], p[2]>>
  BY <1>1
<1>4. p[2] \in 1..Len(C[p[1]]) /\ p[2] \in Nat \ {0} /\ p[2] + 1 \in 1..(Len(C[p[1]]) + 1)
  BY <1>1, <1>2
<1>5. p \in PlacesIn(C)
  BY <1>1, <1>2, <1>4 DEF PlacesIn, Place
<1>6. p # Entry
  BY <1>2 DEF Entry
<1>. QED BY <1>1, <1>3, <1>4, <1>5, <1>6

(* Control only comes to places of the code.                               *)
LEMMA GoesInside ==
  ASSUME NEW C \in Code1, NEW L, Graph(C, L), NEW b \in DOMAIN C,
         NEW j \in 1..(Len(C[b]) + 1)
  PROVE  Goes(C, L, b, j) \subseteq PlacesIn(C)
<1>1. j \in Nat
  BY CodeDomain
<1>2. CASE EndsAt(C[b], j)
  <2>1. \A t \in C[b][j].to : t \in DOMAIN C
    BY <1>2 DEF Graph, EndsAt
  <2>2. \A t \in C[b][j].to : L[t] \subseteq PlacesIn(C)
    BY <2>1 DEF Graph
  <2>3. Goes(C, L, b, j) = UNION {L[t] : t \in C[b][j].to}
    BY <1>2 DEF Goes
  <2>. QED BY <2>2, <2>3
<1>3. CASE ~EndsAt(C[b], j)
  BY <1>1, <1>3, PlacesAre DEF Goes
<1>. QED BY <1>2, <1>3

LEMMA AfterInside ==
  ASSUME NEW C \in Code1, NEW L, Graph(C, L), NEW p \in PointsIn(C) \cup {Entry}
  PROVE  After(C, L, p) \subseteq PlacesIn(C)
<1>1. CASE p = Entry
  BY <1>1, CodeDomain DEF After, Graph
<1>2. CASE p # Entry
  BY <1>2, PointsAre, GoesInside DEF After
<1>. QED BY <1>1, <1>2

LEMMA IntoInside ==
  ASSUME NEW C \in Code1, NEW I, Ways(C, I), NEW q \in Place
  PROVE  I[q] \subseteq PointsIn(C) \cup {Entry} /\ (q \notin PlacesIn(C) => I[q] = {})
<1>1. PICK L : Graph(C, L) /\ I[q] = Into(C, L, q)
  BY DEF Ways
<1>. QED BY <1>1, AfterInside DEF Into

-----------------------------------------------------------------------------
(* What the builder's operations do to the ways of control.                *)
LEMMA LongerCode ==
  ASSUME NEW C \in Code1, NEW D \in Code1, NEW a, NEW m \in Nat \ {0}, Longer(C, D, a, m)
  PROVE  /\ \A b \in DOMAIN C : Len(C[b]) <= Len(D[b]) /\ DOMAIN C[b] \subseteq DOMAIN D[b]
         /\ PlacesIn(C) \subseteq PlacesIn(D)
         /\ <<a, m>> \in PlacesIn(C) /\ <<a, m>> \notin PointsIn(C)
<1>1. /\ a \in DOMAIN C /\ a \in DOMAIN D /\ DOMAIN D = DOMAIN C
      /\ \A b \in DOMAIN C : b # a => D[b] = C[b]
      /\ DOMAIN C[a] = 1..(m - 1) /\ Len(C[a]) = m - 1 /\ DOMAIN D[a] = 1..m /\ Len(D[a]) = m
      /\ \A j \in 1..(m - 1) : D[a][j] = C[a][j]
  BY DEF Longer
<1>5. ASSUME NEW b \in DOMAIN C PROVE Len(C[b]) <= Len(D[b]) /\ DOMAIN C[b] \subseteq DOMAIN D[b]
  <2>1. CASE b = a
    BY <1>1, <2>1
  <2>2. CASE b # a
    BY <1>1, <2>2, CodeDomain
  <2>. QED BY <2>1, <2>2
<1>6. ASSUME NEW q \in PlacesIn(C) PROVE q \in PlacesIn(D)
  <2>1. q \in Place /\ q[1] \in DOMAIN C /\ q[2] \in 1..(Len(C[q[1]]) + 1) /\ q[1] \in DOMAIN D
    BY <1>1 DEF PlacesIn
  <2>2. Len(C[q[1]]) <= Len(D[q[1]]) /\ Len(C[q[1]]) \in Nat /\ Len(D[q[1]]) \in Nat
    BY <1>5, <2>1, CodeDomain
  <2>3. q[2] \in 1..(Len(D[q[1]]) + 1)
    BY <2>1, <2>2
  <2>. QED BY <2>1, <2>3 DEF PlacesIn
<1>7. m \in 1..(Len(C[a]) + 1) /\ m \notin DOMAIN C[a]
  BY <1>1
<1>8. <<a, m>> \in PlacesIn(C) /\ <<a, m>> \notin PointsIn(C)
  BY <1>1, <1>7, PlacesAre
<1>. QED BY <1>5, <1>6, <1>8

LEMMA LongerEnds ==
  ASSUME NEW C \in Code1, NEW D \in Code1, NEW a, NEW m \in Nat \ {0}, Longer(C, D, a, m),
         NEW b \in DOMAIN C, NEW j \in Nat
  PROVE  /\ EndsAt(D[b], j) = IF b = a /\ j = m THEN IsTerminator(D[a][m]) ELSE EndsAt(C[b], j)
         /\ EndsAt(C[b], j) => ~(b = a /\ j = m) /\ D[b][j] = C[b][j]
<1>1. /\ \A k \in DOMAIN C : k # a => D[k] = C[k]
      /\ DOMAIN C[a] = 1..(m - 1) /\ DOMAIN D[a] = 1..m
      /\ \A k \in 1..(m - 1) : D[a][k] = C[a][k]
  BY DEF Longer
<1>2. CASE b = a /\ j = m
  <2>1. m \notin DOMAIN C[a] /\ m \in DOMAIN D[a]
    BY <1>1
  <2>2. EndsAt(D[a], m) = IsTerminator(D[a][m]) /\ ~EndsAt(C[a], m)
    BY <2>1 DEF EndsAt, IsTerminator
  <2>. QED BY <1>2, <2>2
<1>3. CASE b = a /\ j # m
  <2>1. j \in DOMAIN D[a] <=> j \in DOMAIN C[a]
    BY <1>1, <1>3
  <2>2. j \in DOMAIN C[a] => D[a][j] = C[a][j]
    BY <1>1
  <2>. QED BY <1>3, <2>1, <2>2 DEF EndsAt
<1>4. CASE b # a
  <2>1. D[b] = C[b]
    BY <1>1, <1>4
  <2>. QED BY <1>4, <2>1
<1>. QED BY <1>2, <1>3, <1>4

LEMMA LongerPoints ==
  ASSUME NEW C \in Code1, NEW D \in Code1, NEW a, NEW m \in Nat \ {0}, Longer(C, D, a, m)
  PROVE  PointsIn(D) = PointsIn(C) \cup (IF IsTerminator(D[a][m]) THEN {} ELSE {<<a, m>>})
<1>1. DOMAIN D = DOMAIN C /\ a \in DOMAIN C /\ DOMAIN D[a] = 1..m
  BY DEF Longer
<1>2. ASSUME NEW b \in DOMAIN C, NEW j \in Nat, <<b, j>> # <<a, m>>
      PROVE  <<b, j>> \in PointsIn(D) <=> <<b, j>> \in PointsIn(C)
  <2>1. j \in DOMAIN D[b] <=> j \in DOMAIN C[b]
    <3>1. CASE b = a
      BY <1>2, <3>1 DEF Longer
    <3>2. CASE b # a
      BY <3>2 DEF Longer
    <3>. QED BY <3>1, <3>2
  <2>2. EndsAt(D[b], j) = EndsAt(C[b], j)
    BY <1>2, LongerEnds
  <2>3. <<b, j>> \in PointsIn(D) <=> j \in DOMAIN D[b] /\ ~EndsAt(D[b], j)
    BY <1>1, PlacesAre
  <2>4. <<b, j>> \in PointsIn(C) <=> j \in DOMAIN C[b] /\ ~EndsAt(C[b], j)
    BY PlacesAre
  <2>. QED BY <2>1, <2>2, <2>3, <2>4
<1>3. <<a, m>> \in PointsIn(D) <=> ~IsTerminator(D[a][m])
  <2>1. <<a, m>> \in PointsIn(D) <=> m \in DOMAIN D[a] /\ ~EndsAt(D[a], m)
    BY <1>1, PlacesAre
  <2>2. EndsAt(D[a], m) = IsTerminator(D[a][m])
    BY <1>1, LongerEnds
  <2>3. m \in DOMAIN D[a]
    BY <1>1
  <2>. QED BY <2>1, <2>2, <2>3
<1>4. <<a, m>> \notin PointsIn(C)
  BY LongerCode
<1>5. \A p \in PointsIn(C) \cup PointsIn(D) : p[1] \in DOMAIN C /\ p[2] \in Nat /\ p = <<p[1], p[2]>>
  BY <1>1, PointsAre
<1>6. \A p : p # <<a, m>> => (p \in PointsIn(D) <=> p \in PointsIn(C))
  BY <1>2, <1>5
<1>. QED BY <1>3, <1>4, <1>6

(* A point is put at z: control goes on to the next place.                 *)
OnPoint(I, J, z, y) == \A q \in Place : J[q] = IF q = y THEN {z} ELSE I[q]

LEMMA PointWays ==
  ASSUME NEW C \in Code1, NEW D \in Code1, NEW a, NEW m \in Nat \ {0}, Longer(C, D, a, m),
         ~IsTerminator(D[a][m]), D[a][m].to = {}, NEW I, Ways(C, I)
  PROVE  \E J : Ways(D, J) /\ OnPoint(I, J, <<a, m>>, <<a, m + 1>>)
<1>1. PICK L : Graph(C, L) /\ \A q \in Place : I[q] = Into(C, L, q)
  BY DEF Ways
<1>2. PICK z, y : z = <<a, m>> /\ y = <<a, m + 1>>
  OBVIOUS
<1>3. /\ a \in DOMAIN C /\ DOMAIN D = DOMAIN C /\ Len(C[a]) = m - 1
      /\ PointsIn(D) = PointsIn(C) \cup {z} /\ z \notin PointsIn(C)
      /\ z # Entry /\ y \in Place /\ z[1] = a /\ z[2] = m
      /\ y \notin PlacesIn(C)
  <2>1. a \in DOMAIN C /\ DOMAIN D = DOMAIN C /\ Len(C[a]) = m - 1 /\ m + 1 \notin 1..(Len(C[a]) + 1)
    BY DEF Longer
  <2>2. /\ <<a, m + 1>> \in Place /\ <<a, m + 1>> \notin PlacesIn(C)
        /\ <<a, m>> # Entry /\ <<a, m>>[1] = a /\ <<a, m>>[2] = m
    BY <2>1, PlacesAre
  <2>. QED BY <1>2, <2>1, <2>2, LongerPoints, LongerCode
<1>4. ASSUME NEW b \in DOMAIN C, NEW j \in Nat PROVE Goes(D, L, b, j) = Goes(C, L, b, j)
  <2>1. (EndsAt(D[b], j) <=> EndsAt(C[b], j)) /\ (EndsAt(C[b], j) => D[b][j] = C[b][j])
    BY LongerEnds
  <2>. QED BY <2>1 DEF Goes
<1>5. Graph(D, L)
  <2>1. ASSUME NEW b \in DOMAIN C PROVE L[b] = Goes(D, L, b, 1) /\ L[b] \subseteq PlacesIn(D)
    <3>1. PlacesIn(C) \subseteq PlacesIn(D)
      BY LongerCode
    <3>. QED BY <1>1, <1>4, <3>1 DEF Graph
  <2>2. ASSUME NEW b \in DOMAIN C, NEW j \in DOMAIN D[b] PROVE D[b][j].to \subseteq DOMAIN C
    <3>1. CASE b = a /\ j = m
      BY <3>1
    <3>2. CASE b = a /\ j # m
      <4>1. j \in DOMAIN C[a] /\ D[a][j] = C[a][j]
        BY <2>2, <3>2 DEF Longer
      <4>. QED BY <1>1, <1>3, <3>2, <4>1 DEF Graph
    <3>3. CASE b # a
      BY <1>1, <2>2, <3>3 DEF Graph, Longer
    <3>. QED BY <3>1, <3>2, <3>3
  <2>. QED BY <1>3, <2>1, <2>2 DEF Graph
<1>6. ASSUME NEW p \in PointsIn(C) \cup {Entry} PROVE After(D, L, p) = After(C, L, p)
  BY <1>4, PointsAre, CodeDomain DEF After
<1>7. After(D, L, z) = {y}
  <2>1. After(D, L, z) = Goes(C, L, a, m + 1)
    BY <1>3, <1>4 DEF After
  <2>2. ~EndsAt(C[a], m + 1)
    BY <1>3, CodeDomain DEF EndsAt
  <2>. QED BY <1>2, <2>1, <2>2 DEF Goes
<1>8. \A p \in PointsIn(C) \cup {Entry} : y \notin After(C, L, p)
  BY <1>1, <1>3, AfterInside
<1>9. ASSUME NEW q \in Place PROVE Into(D, L, q) = IF q = y THEN {z} ELSE I[q]
  <2>1. \A p : p \in Into(D, L, q) <=> p \in PointsIn(C) \cup {z, Entry} /\ q \in After(D, L, p)
    BY <1>3 DEF Into
  <2>2. \A p : p \in I[q] <=> p \in PointsIn(C) \cup {Entry} /\ q \in After(C, L, p)
    BY <1>1 DEF Into
  <2>3. CASE q = y
    BY <1>6, <1>7, <1>8, <2>1, <2>3
  <2>4. CASE q # y
    BY <1>3, <1>6, <1>7, <2>1, <2>2, <2>4
  <2>. QED BY <2>3, <2>4
<1>10. PICK J : J = [q \in Place |-> Into(D, L, q)]
  OBVIOUS
<1>11. Ways(D, J)
  BY <1>5, <1>10 DEF Ways
<1>12. \A q \in Place : J[q] = IF q = <<a, m + 1>> THEN {<<a, m>>} ELSE I[q]
  <2>1. \A q \in Place : J[q] = IF q = y THEN {z} ELSE I[q]
    BY <1>9, <1>10
  <2>. QED BY <1>2, <2>1
<1>. QED BY <1>11, <1>12 DEF OnPoint

-----------------------------------------------------------------------------
(* A block that is still empty, and one that starts with a point.          *)
First(C, t) == 1 \in DOMAIN C[t] /\ ~IsTerminator(C[t][1])
Target(C, t) == C[t] = <<>> \/ First(C, t)

LEMMA TargetGoes ==
  ASSUME NEW C \in Code1, NEW L, Graph(C, L), NEW t \in DOMAIN C, Target(C, t)
  PROVE  L[t] = {<<t, 1>>}
<1>1. ~EndsAt(C[t], 1)
  <2>1. CASE C[t] = <<>>
    BY <2>1 DEF EndsAt
  <2>2. CASE First(C, t)
    BY <2>2 DEF First, EndsAt
  <2>. QED BY <2>1, <2>2 DEF Target
<1>. QED BY <1>1 DEF Graph, Goes

(* The block a is ended by a branch to those in T: where control came to   *)
(* the end of a, it comes to the first places of these.                    *)
Moved(S, z, N) == IF z \in S THEN (S \ {z}) \cup N ELSE S

(* D ends block a of C with a branch to T.                                 *)
Ended(C, D, a, m, T) ==
  /\ Longer(C, D, a, m) /\ IsTerminator(D[a][m]) /\ D[a][m].to = T
  /\ T \subseteq DOMAIN C /\ \A t \in T : t # a /\ Target(C, t)

Onward(C, L, M, z, N) == \A b \in DOMAIN C : M[b] = Moved(L[b], z, N)

LEMMA EndGoes ==
  ASSUME NEW C \in Code1, NEW D \in Code1, NEW a, NEW m \in Nat \ {0}, NEW T, Ended(C, D, a, m, T),
         NEW L, Graph(C, L), NEW z, z = <<a, m>>, NEW N, N = {<<t, 1>> : t \in T},
         NEW M, Onward(C, L, M, z, N),
         NEW b \in DOMAIN C, NEW j \in Nat
  PROVE  Goes(D, M, b, j) = Moved(Goes(C, L, b, j), z, N)
<1>1. Longer(C, D, a, m) /\ IsTerminator(D[a][m]) /\ D[a][m].to = T /\ T \subseteq DOMAIN C
  BY DEF Ended
<1>2. \A t \in T : z \notin L[t] /\ L[t] = {<<t, 1>>}
  <2>1. \A t \in T : L[t] = {<<t, 1>>} /\ t # a
    BY TargetGoes DEF Ended
  <2>. QED BY <1>1, <2>1
<1>3. \A t \in T : M[t] = {<<t, 1>>}
  <2>1. \A t \in T : M[t] = Moved(L[t], z, N)
    BY <1>1 DEF Onward
  <2>. QED BY <1>2, <2>1 DEF Moved
<1>4. CASE b = a /\ j = m
  <2>1. EndsAt(D[b], j) /\ ~EndsAt(C[b], j)
    BY <1>1, <1>4, LongerEnds
  <2>2. Goes(D, M, b, j) = UNION {M[t] : t \in T}
    BY <1>1, <1>4, <2>1 DEF Goes
  <2>3. Goes(C, L, b, j) = {z}
    BY <1>1, <1>4, <2>1 DEF Goes
  <2>4. UNION {M[t] : t \in T} = N
    BY <1>3
  <2>. QED BY <1>1, <2>2, <2>3, <2>4 DEF Moved
<1>5. CASE ~(b = a /\ j = m)
  <2>1. (EndsAt(D[b], j) <=> EndsAt(C[b], j)) /\ (EndsAt(C[b], j) => D[b][j] = C[b][j])
    BY <1>1, <1>5, LongerEnds
  <2>2. CASE EndsAt(C[b], j)
    <3>1. PICK S : S = C[b][j].to
      OBVIOUS
    <3>2. S \subseteq DOMAIN C
      BY <2>2, <3>1 DEF Graph, EndsAt
    <3>3. Goes(D, M, b, j) = UNION {M[t] : t \in S} /\ Goes(C, L, b, j) = UNION {L[t] : t \in S}
      BY <2>1, <2>2, <3>1 DEF Goes
    <3>4. ASSUME NEW x PROVE x \in Goes(D, M, b, j) <=> x \in Moved(Goes(C, L, b, j), z, N)
      <4>1. x \in Goes(D, M, b, j) <=> \E t \in S : x \in M[t]
        BY <3>3
      <4>2. \A t \in S : x \in M[t] <=> (x \in L[t] /\ x # z) \/ (z \in L[t] /\ x \in N)
        BY <3>2 DEF Onward, Moved
      <4>3. \A y : y \in Goes(C, L, b, j) <=> \E t \in S : y \in L[t]
        BY <3>3
      <4>4. x \in Moved(Goes(C, L, b, j), z, N)
              <=> \/ x \in Goes(C, L, b, j) /\ x # z
                  \/ z \in Goes(C, L, b, j) /\ x \in N
        BY DEF Moved
      <4>5. x \in Moved(Goes(C, L, b, j), z, N)
              <=> \/ (\E t \in S : x \in L[t]) /\ x # z
                  \/ (\E t \in S : z \in L[t]) /\ x \in N
        BY ONLY <4>3, <4>4
      <4>. QED BY ONLY <4>1, <4>2, <4>5
    <3>. QED BY <3>4
  <2>3. CASE ~EndsAt(C[b], j)
    <3>1. Goes(D, M, b, j) = {<<b, j>>} /\ Goes(C, L, b, j) = {<<b, j>>} /\ <<b, j>> # z
      BY <1>1, <1>5, <2>1, <2>3 DEF Goes
    <3>. QED BY <1>1, <3>1 DEF Moved
  <2>. QED BY <2>2, <2>3
<1>. QED BY <1>4, <1>5

LEMMA EndGraph ==
  ASSUME NEW C \in Code1, NEW D \in Code1, NEW a, NEW m \in Nat \ {0}, NEW T, Ended(C, D, a, m, T),
         NEW L, Graph(C, L), NEW z, z = <<a, m>>, NEW N, N = {<<t, 1>> : t \in T},
         NEW M, Onward(C, L, M, z, N)
  PROVE  Graph(D, M)
<1>1. /\ DOMAIN D = DOMAIN C /\ a \in DOMAIN C
      /\ \A b \in DOMAIN C : b # a => D[b] = C[b]
      /\ DOMAIN C[a] = 1..(m - 1) /\ DOMAIN D[a] = 1..m
      /\ \A j \in 1..(m - 1) : D[a][j] = C[a][j]
      /\ Longer(C, D, a, m) /\ D[a][m].to = T /\ T \subseteq DOMAIN C
  BY DEF Longer, Ended
<1>2. ASSUME NEW b \in DOMAIN C PROVE M[b] = Goes(D, M, b, 1)
  <2>1. Goes(D, M, b, 1) = Moved(Goes(C, L, b, 1), z, N)
    BY EndGoes
  <2>. QED BY <2>1 DEF Graph, Onward
<1>3. ASSUME NEW b \in DOMAIN C PROVE M[b] \subseteq PlacesIn(D)
  <2>1. L[b] \subseteq PlacesIn(D)
    BY <1>1, LongerCode DEF Graph
  <2>2. \A t \in T : <<t, 1>> \in PlacesIn(D)
    <3>1. \A t \in T : 1 \in 1..(Len(D[t]) + 1) /\ t \in DOMAIN D
      BY <1>1, CodeDomain
    <3>. QED BY <3>1, PlacesAre
  <2>3. N \subseteq PlacesIn(D)
    BY <2>2
  <2>4. M[b] = Moved(L[b], z, N)
    BY DEF Onward
  <2>. QED BY <2>1, <2>3, <2>4 DEF Moved
<1>4. ASSUME NEW b \in DOMAIN C, NEW j \in DOMAIN D[b] PROVE D[b][j].to \subseteq DOMAIN C
  <2>1. CASE b = a /\ j = m
    BY <1>1, <2>1
  <2>2. CASE b = a /\ j # m
    <3>1. j \in DOMAIN C[a] /\ D[a][j] = C[a][j]
      BY <1>1, <1>4, <2>2
    <3>. QED BY <1>1, <2>2, <3>1 DEF Graph
  <2>3. CASE b # a
    BY <1>1, <1>4, <2>3 DEF Graph
  <2>. QED BY <2>1, <2>2, <2>3
<1>. QED BY <1>1, <1>2, <1>3, <1>4 DEF Graph

OnEnd(I, J, z, T) ==
  \A q \in Place :
    J[q] = IF q = z THEN {}
           ELSE IF \E t \in T : q = <<t, 1>> THEN I[q] \cup I[z] ELSE I[q]

LEMMA EndWays ==
  ASSUME NEW C \in Code1, NEW D \in Code1, NEW a, NEW m \in Nat \ {0}, NEW T, Ended(C, D, a, m, T),
         NEW I, Ways(C, I)
  PROVE  \E J : Ways(D, J) /\ OnEnd(I, J, <<a, m>>, T)
<1>1. PICK L : Graph(C, L) /\ \A q \in Place : I[q] = Into(C, L, q)
  BY DEF Ways
<1>2. PICK z, N : z = <<a, m>> /\ N = {<<t, 1>> : t \in T}
  OBVIOUS
<1>3. PICK M : M = [b \in DOMAIN C |-> Moved(L[b], z, N)]
  OBVIOUS
<1>4. /\ a \in DOMAIN C /\ DOMAIN D = DOMAIN C /\ z \in Place
      /\ PointsIn(D) = PointsIn(C) /\ z \notin N /\ z # Entry
  <2>1. a \in DOMAIN C /\ DOMAIN D = DOMAIN C
    BY DEF Longer, Ended
  <2>2. PointsIn(D) = PointsIn(C)
    BY LongerPoints DEF Ended
  <2>3. z \notin N
    BY <1>2 DEF Ended
  <2>. QED BY <1>2, <2>1, <2>2, <2>3, PlacesAre
<1>5. Onward(C, L, M, z, N)
  BY <1>3 DEF Onward
<1>6. Graph(D, M)
  BY <1>1, <1>2, <1>5, EndGraph
<1>7. ASSUME NEW p \in PointsIn(C) \cup {Entry} PROVE After(D, M, p) = Moved(After(C, L, p), z, N)
  <2>1. CASE p = Entry
    BY <1>5, <2>1, CodeDomain DEF After, Onward
  <2>2. CASE p # Entry
    <3>1. p[1] \in DOMAIN C /\ p[2] + 1 \in Nat
      BY <2>2, PointsAre
    <3>2. Goes(D, M, p[1], p[2] + 1) = Moved(Goes(C, L, p[1], p[2] + 1), z, N)
      BY <1>1, <1>2, <1>5, <3>1, EndGoes
    <3>. QED BY <2>2, <3>2 DEF After
  <2>. QED BY <2>1, <2>2
<1>8. ASSUME NEW q \in Place
      PROVE  Into(D, M, q) = IF q = z THEN {} ELSE IF q \in N THEN I[q] \cup I[z] ELSE I[q]
  <2>1. \A p : p \in Into(D, M, q) <=> p \in PointsIn(C) \cup {Entry} /\ q \in After(D, M, p)
    BY <1>4 DEF Into
  <2>2. \A p : p \in I[q] <=> p \in PointsIn(C) \cup {Entry} /\ q \in After(C, L, p)
    BY <1>1 DEF Into
  <2>3. \A p : p \in I[z] <=> p \in PointsIn(C) \cup {Entry} /\ z \in After(C, L, p)
    BY <1>1, <1>4 DEF Into
  <2>4. \A p \in PointsIn(C) \cup {Entry} :
          q \in After(D, M, p) <=> \/ q \in After(C, L, p) /\ q # z
                                   \/ z \in After(C, L, p) /\ q \in N
    <3>1. \A S : q \in Moved(S, z, N) <=> (q \in S /\ q # z) \/ (z \in S /\ q \in N)
      BY DEF Moved
    <3>. QED BY <1>7, <3>1
  <2>5. CASE q = z
    BY <1>4, <2>1, <2>4, <2>5
  <2>6. CASE q # z
    BY <2>1, <2>2, <2>3, <2>4, <2>6
  <2>. QED BY <2>5, <2>6
<1>9. PICK J : J = [q \in Place |-> Into(D, M, q)]
  OBVIOUS
<1>10. Ways(D, J)
  BY <1>6, <1>9 DEF Ways
<1>11. ASSUME NEW q \in Place
       PROVE  J[q] = IF q = <<a, m>> THEN {}
                     ELSE IF \E t \in T : q = <<t, 1>> THEN I[q] \cup I[<<a, m>>]
                     ELSE I[q]
  <2>1. J[q] = IF q = z THEN {} ELSE IF q \in N THEN I[q] \cup I[z] ELSE I[q]
    BY <1>8, <1>9
  <2>2. q \in N <=> \E t \in T : q = <<t, 1>>
    BY <1>2
  <2>. QED BY <1>2, <2>1, <2>2
<1>. QED BY <1>10, <1>11 DEF OnEnd


-----------------------------------------------------------------------------
(* Along the blocks that only branch the rank grows, so that they are not  *)
(* passed for ever.                                                        *)
Ranked(C) ==
  \E B \in Nat : \E R \in [DOMAIN C -> 0..B] :
    \A b \in DOMAIN C : EndsAt(C[b], 1) =>
      \A t \in C[b][1].to \cap DOMAIN C : First(C, t) \/ R[b] < R[t]

LEMMA FirstLonger ==
  ASSUME NEW C \in Code1, NEW D \in Code1, NEW a, NEW m \in Nat \ {0}, Longer(C, D, a, m),
         NEW t \in DOMAIN C
  PROVE  /\ First(C, t) => First(D, t)
         /\ t # a => (First(C, t) <=> First(D, t)) /\ D[t] = C[t]
         /\ m = 1 /\ ~IsTerminator(D[a][m]) => First(D, a)
<1>1. /\ \A b \in DOMAIN C : b # a => D[b] = C[b]
      /\ DOMAIN C[a] = 1..(m - 1) /\ DOMAIN D[a] = 1..m
      /\ \A j \in 1..(m - 1) : D[a][j] = C[a][j]
  BY DEF Longer
<1>2. CASE t = a
  <2>1. 1 \in DOMAIN C[a] => 1 \in DOMAIN D[a] /\ D[a][1] = C[a][1]
    BY <1>1
  <2>. QED BY <1>1, <1>2, <2>1 DEF First
<1>3. CASE t # a
  <2>1. D[t] = C[t]
    BY <1>1, <1>3
  <2>2. m = 1 => 1 \in DOMAIN D[a]
    BY <1>1
  <2>. QED BY <1>1, <1>3, <2>1, <2>2 DEF First
<1>. QED BY <1>2, <1>3

LEMMA PlainLonger ==
  ASSUME NEW C, NEW D, NEW a, NEW m \in Nat \ {0}, Longer(C, D, a, m), NEW t \in DOMAIN C
  PROVE  ~Plain(C[t]) => ~Plain(D[t])
<1>1. CASE t = a
  <2>1. \A j \in DOMAIN C[a] : j \in DOMAIN D[a] /\ D[a][j] = C[a][j]
    BY DEF Longer
  <2>. QED BY <1>1, <2>1 DEF Plain
<1>2. CASE t # a
  BY <1>2 DEF Longer
<1>. QED BY <1>1, <1>2

LEMMA PointRanked ==
  ASSUME NEW C \in Code1, NEW D \in Code1, NEW a, NEW m \in Nat \ {0}, Longer(C, D, a, m),
         ~IsTerminator(D[a][m]), Ranked(C)
  PROVE  Ranked(D)
<1>0. PICK B \in Nat : \E R \in [DOMAIN C -> 0..B] :
        \A b \in DOMAIN C : EndsAt(C[b], 1) =>
          \A t \in C[b][1].to \cap DOMAIN C : First(C, t) \/ R[b] < R[t]
  BY DEF Ranked
<1>1. PICK R \in [DOMAIN C -> 0..B] :
        \A b \in DOMAIN C : EndsAt(C[b], 1) =>
          \A t \in C[b][1].to \cap DOMAIN C : First(C, t) \/ R[b] < R[t]
  BY <1>0
<1>2. DOMAIN D = DOMAIN C
  BY DEF Longer
<1>3. ASSUME NEW b \in DOMAIN D, EndsAt(D[b], 1), NEW t \in D[b][1].to \cap DOMAIN D
      PROVE  First(D, t) \/ R[b] < R[t]
  <2>1. EndsAt(C[b], 1) /\ D[b][1] = C[b][1]
    BY <1>2, <1>3, LongerEnds
  <2>2. First(C, t) \/ R[b] < R[t]
    BY <1>1, <1>2, <1>3, <2>1
  <2>3. First(C, t) => First(D, t)
    BY <1>2, <1>3, FirstLonger
  <2>. QED BY <2>2, <2>3
<1>4. R \in [DOMAIN D -> 0..B]
  BY <1>2
<1>. QED BY <1>3, <1>4 DEF Ranked

(* The empty targets of a branch get a rank above all others.              *)
LEMMA EndRanked ==
  ASSUME NEW C \in Code1, NEW D \in Code1, NEW a, NEW m \in Nat \ {0}, NEW T,
         Ended(C, D, a, m, T), Ranked(C)
  PROVE  Ranked(D)
<1>0. PICK B \in Nat : \E R \in [DOMAIN C -> 0..B] :
        \A b \in DOMAIN C : EndsAt(C[b], 1) =>
          \A t \in C[b][1].to \cap DOMAIN C : First(C, t) \/ R[b] < R[t]
  BY DEF Ranked
<1>1. PICK R \in [DOMAIN C -> 0..B] :
        \A b \in DOMAIN C : EndsAt(C[b], 1) =>
          \A t \in C[b][1].to \cap DOMAIN C : First(C, t) \/ R[b] < R[t]
  BY <1>0
<1>2. /\ Longer(C, D, a, m) /\ DOMAIN D = DOMAIN C /\ a \in DOMAIN C
      /\ IsTerminator(D[a][m]) /\ D[a][m].to = T
      /\ \A t \in T : t # a /\ Target(C, t)
  BY DEF Ended, Longer
<1>3. PICK Q : Q = [b \in DOMAIN C |-> IF b \in T /\ C[b] = <<>> THEN B + 1 ELSE R[b]]
  OBVIOUS
<1>4. /\ Q \in [DOMAIN D -> 0..(B + 1)]
      /\ \A b \in DOMAIN C : b \in T /\ C[b] = <<>> => Q[b] = B + 1
      /\ \A b \in DOMAIN C : ~(b \in T /\ C[b] = <<>>) => Q[b] = R[b] /\ Q[b] < B + 1
      /\ \A b \in DOMAIN C : R[b] \in 0..B /\ R[b] <= Q[b]
  <2>1. \A b \in DOMAIN C : R[b] \in 0..B
    BY <1>1
  <2>2. \A b \in DOMAIN C : Q[b] = IF b \in T /\ C[b] = <<>> THEN B + 1 ELSE R[b]
    BY <1>3
  <2>3. \A b \in DOMAIN C : Q[b] \in 0..(B + 1)
    BY <2>1, <2>2
  <2>4. Q \in [DOMAIN D -> 0..(B + 1)]
    BY <1>2, <1>3, <2>3
  <2>. QED BY <2>1, <2>2, <2>4
<1>5. ASSUME NEW b \in DOMAIN D, EndsAt(D[b], 1), NEW t \in D[b][1].to \cap DOMAIN D
      PROVE  First(D, t) \/ Q[b] < Q[t]
  <2>1. First(C, t) => First(D, t)
    BY <1>2, FirstLonger
  <2>2. CASE b = a /\ m = 1
    <3>1. t \in T
      BY <1>2, <1>5, <2>2
    <3>2. First(C, t) \/ C[t] = <<>>
      BY <1>2, <3>1 DEF Target
    <3>3. Q[b] < B + 1
      BY <1>2, <1>4, <2>2
    <3>. QED BY <1>2, <1>4, <2>1, <3>1, <3>2, <3>3
  <2>3. CASE ~(b = a /\ m = 1)
    <3>1. EndsAt(C[b], 1) /\ D[b][1] = C[b][1]
      BY <1>2, <1>5, <2>3, LongerEnds
    <3>2. C[b] # <<>>
      BY <3>1 DEF EndsAt
    <3>3. Q[b] = R[b] /\ Q[b] < B + 1
      BY <1>2, <1>4, <3>2
    <3>4. First(C, t) \/ R[b] < R[t]
      BY <1>1, <1>2, <1>5, <3>1
    <3>5. R[b] < R[t] => Q[b] < Q[t]
      BY <1>2, <1>4, <1>5, <3>3
    <3>. QED BY <2>1, <3>4, <3>5
  <2>. QED BY <2>2, <2>3
<1>6. B + 1 \in Nat
  OBVIOUS
<1>. QED BY <1>4, <1>5, <1>6 DEF Ranked

(* D has one more block than C, an empty one.                              *)
More(C, D, k) ==
  /\ k \notin DOMAIN C /\ DOMAIN D = DOMAIN C \cup {k} /\ D[k] = <<>>
  /\ \A b \in DOMAIN C : D[b] = C[b]

LEMMA MoreRanked ==
  ASSUME NEW C \in Code1, NEW D \in Code1, NEW k, More(C, D, k), Ranked(C)
  PROVE  Ranked(D)
<1>0. PICK B \in Nat : \E R \in [DOMAIN C -> 0..B] :
        \A b \in DOMAIN C : EndsAt(C[b], 1) =>
          \A t \in C[b][1].to \cap DOMAIN C : First(C, t) \/ R[b] < R[t]
  BY DEF Ranked
<1>1. PICK R \in [DOMAIN C -> 0..B] :
        \A b \in DOMAIN C : EndsAt(C[b], 1) =>
          \A t \in C[b][1].to \cap DOMAIN C : First(C, t) \/ R[b] < R[t]
  BY <1>0
<1>2. PICK Q : Q = [b \in DOMAIN D |-> IF b = k THEN B + 1 ELSE R[b]]
  OBVIOUS
<1>3. /\ Q \in [DOMAIN D -> 0..(B + 1)] /\ Q[k] = B + 1
      /\ \A b \in DOMAIN C : Q[b] = R[b] /\ Q[b] < B + 1
  <2>1. \A b \in DOMAIN C : R[b] \in 0..B
    BY <1>1
  <2>2. \A b \in DOMAIN D : Q[b] = IF b = k THEN B + 1 ELSE R[b]
    BY <1>2
  <2>3. \A b \in DOMAIN D : Q[b] \in 0..(B + 1)
    BY <2>1, <2>2 DEF More
  <2>4. Q \in [DOMAIN D -> 0..(B + 1)]
    BY <1>2, <2>3
  <2>. QED BY <2>1, <2>2, <2>4 DEF More
<1>4. ASSUME NEW b \in DOMAIN D, EndsAt(D[b], 1), NEW t \in D[b][1].to \cap DOMAIN D
      PROVE  First(D, t) \/ Q[b] < Q[t]
  <2>1. b \in DOMAIN C /\ D[b] = C[b]
    BY <1>4 DEF More, EndsAt
  <2>2. CASE t = k
    BY <1>3, <2>1, <2>2
  <2>3. CASE t # k
    <3>1. t \in DOMAIN C /\ D[t] = C[t]
      BY <1>4, <2>3 DEF More
    <3>2. First(C, t) \/ R[b] < R[t]
      BY <1>1, <1>4, <2>1, <3>1
    <3>3. First(C, t) => First(D, t)
      BY <3>1 DEF First
    <3>. QED BY <1>3, <2>1, <3>1, <3>2, <3>3
  <2>. QED BY <2>2, <2>3
<1>5. B + 1 \in Nat
  OBVIOUS
<1>. QED BY <1>3, <1>4, <1>5 DEF Ranked

(* Nothing leads to a new block or from it.                                *)
LEMMA MoreWays ==
  ASSUME NEW C \in Code1, NEW D \in Code1, NEW k, More(C, D, k), NEW I, Ways(C, I)
  PROVE  Ways(D, I) /\ PointsIn(D) = PointsIn(C)
<1>1. PICK L : Graph(C, L) /\ \A q \in Place : I[q] = Into(C, L, q)
  BY DEF Ways
<1>2. PICK M : M = [b \in DOMAIN D |-> IF b = k THEN {<<k, 1>>} ELSE L[b]]
  OBVIOUS
<1>3. M[k] = {<<k, 1>>} /\ \A b \in DOMAIN C : M[b] = L[b]
  BY <1>2 DEF More
<1>4. ASSUME NEW b \in DOMAIN C, NEW j \in Nat PROVE Goes(D, M, b, j) = Goes(C, L, b, j)
  <2>1. D[b] = C[b]
    BY DEF More
  <2>2. CASE EndsAt(C[b], j)
    <3>1. C[b][j].to \subseteq DOMAIN C
      BY <1>1, <2>2 DEF Graph, EndsAt
    <3>2. UNION {M[t] : t \in C[b][j].to} = UNION {L[t] : t \in C[b][j].to}
      <4>1. PICK S : S = C[b][j].to
        OBVIOUS
      <4>2. \A t \in S : M[t] = L[t]
        BY <1>3, <3>1, <4>1
      <4>3. UNION {M[t] : t \in S} = UNION {L[t] : t \in S}
        BY <4>2
      <4>. QED BY <4>1, <4>3
    <3>. QED BY <2>1, <2>2, <3>2 DEF Goes
  <2>3. CASE ~EndsAt(C[b], j)
    BY <2>1, <2>3 DEF Goes
  <2>. QED BY <2>2, <2>3
<1>5. PlacesIn(C) \subseteq PlacesIn(D) /\ PointsIn(D) = PointsIn(C)
  BY DEF More, PlacesIn, PointsIn
<1>6. Graph(D, M)
  <2>1. ASSUME NEW b \in DOMAIN C PROVE M[b] = Goes(D, M, b, 1) /\ M[b] \subseteq PlacesIn(D)
    BY <1>1, <1>3, <1>4, <1>5 DEF Graph
  <2>2. k \in DOMAIN D /\ D[k] = <<>>
    BY DEF More
  <2>3. M[k] = Goes(D, M, k, 1) /\ M[k] \subseteq PlacesIn(D)
    <3>1. ~EndsAt(D[k], 1)
      BY <2>2 DEF EndsAt
    <3>2. 1 \in 1..(Len(D[k]) + 1)
      BY <2>2, CodeDomain
    <3>3. <<k, 1>> \in PlacesIn(D)
      BY <2>2, <3>2, PlacesAre
    <3>. QED BY <1>3, <3>1, <3>3 DEF Goes
  <2>4. ASSUME NEW b \in DOMAIN D, NEW j \in DOMAIN D[b] PROVE D[b][j].to \subseteq DOMAIN D
    <3>1. b \in DOMAIN C /\ D[b] = C[b] /\ DOMAIN C \subseteq DOMAIN D
      BY <2>2, <2>4 DEF More
    <3>. QED BY <1>1, <2>4, <3>1 DEF Graph
  <2>. QED BY <2>1, <2>3, <2>4 DEF Graph, More
<1>7. ASSUME NEW p \in PointsIn(C) \cup {Entry} PROVE After(D, M, p) = After(C, L, p)
  <2>1. CASE p = Entry
    BY <1>3, <2>1, CodeDomain DEF After
  <2>2. CASE p # Entry
    <3>1. p[1] \in DOMAIN C /\ p[2] + 1 \in Nat
      BY <2>2, PointsAre
    <3>. QED BY <1>4, <2>2, <3>1 DEF After
  <2>. QED BY <2>1, <2>2
<1>8. \A q \in Place : I[q] = Into(D, M, q)
  BY <1>1, <1>5, <1>7 DEF Into
<1>. QED BY <1>5, <1>6, <1>8 DEF Ways

-----------------------------------------------------------------------------
(* The ways of control in the code that the builder has made so far, and   *)
(* the pairs of points that follow each other there.                       *)
Codes(s) == [b \in 1..Len(s.blocks) |-> s.blocks[b].code]
FlowOf(C, I) == UNION {I[q] \X {q} : q \in PointsIn(C)}
Net(s, I, f) == Ways(Codes(s), I) /\ Ranked(Codes(s)) /\ f = FlowOf(Codes(s), I)

LEMMA CodesAre ==
  ASSUME NEW s, Good(s)
  PROVE  /\ Codes(s) \in Code1 /\ DOMAIN Codes(s) = 1..Len(s.blocks) /\ Len(s.blocks) \in Nat \ {0}
         /\ s.at \in DOMAIN Codes(s)
         /\ \A b \in 1..Len(s.blocks) : Codes(s)[b] = s.blocks[b].code
<1>1. Len(s.blocks) \in Nat \ {0} /\ s.at \in 1..Len(s.blocks)
  <2>1. Len(s.blocks) \in Nat /\ s.at \in 1..Len(s.blocks)
    BY GoodLen DEF Good
  <2>. QED BY <2>1
<1>2. \A b \in 1..Len(s.blocks) : s.blocks[b].code \in Seq(Instr)
  BY CodeTypes
<1>3. Codes(s) \in [1..Len(s.blocks) -> Seq(Instr)]
  BY <1>2 DEF Codes
<1>4. Codes(s) \in Code1
  BY <1>1, <1>3 DEF Code1
<1>. QED BY <1>1, <1>4 DEF Codes

LEMMA LocIs ==
  ASSUME NEW s, Good(s), NEW m, m = Len(CodeAt(s)) + 1
  PROVE  m \in Nat \ {0} /\ Loc(s) = <<s.at, m>> /\ Loc(s) \in Place
<1>1. Len(CodeAt(s)) \in Nat /\ s.at \in Nat
  <2>1. s.at \in 1..Len(s.blocks) /\ CodeAt(s) \in Seq(Instr)
    BY CodeTypes DEF Good, CodeAt
  <2>. QED BY <2>1, LenProperties, GoodLen
<1>2. m \in Nat \ {0}
  BY ONLY <1>1, m = Len(CodeAt(s)) + 1
<1>3. Loc(s) = <<s.at, m>>
  BY ONLY m = Len(CodeAt(s)) + 1 DEF Loc, CodeAt
<1>4. <<s.at, m>> \in Place
  BY ONLY <1>1, <1>2 DEF Place
<1>. QED BY ONLY <1>2, <1>3, <1>4

LEMMA PutLonger ==
  ASSUME NEW s, Good(s), NEW i \in Instr, NEW m, m = Len(CodeAt(s)) + 1
  PROVE  /\ Longer(Codes(s), Codes(Put(s, i)), s.at, m)
         /\ Codes(Put(s, i))[s.at][m] = i /\ Loc(Put(s, i)) = <<s.at, m + 1>>
<1>. DEFINE t == Put(s, i)
<1>1. /\ Good(t) /\ Len(t.blocks) = Len(s.blocks) /\ t.at = s.at /\ CodeAt(t) = Append(CodeAt(s), i)
      /\ \A k \in 1..Len(s.blocks) : k # s.at => t.blocks[k].code = s.blocks[k].code
  BY PutBlocks
<1>2. PICK q, r : q = CodeAt(s) /\ r = CodeAt(t)
  OBVIOUS
<1>3. q \in Seq(Instr) /\ r = Append(q, i)
  BY <1>1, <1>2, CodeTypes DEF Good, CodeAt
<1>4. /\ DOMAIN q = 1..(m - 1) /\ Len(q) = m - 1 /\ m \in Nat \ {0}
      /\ DOMAIN r = 1..m /\ Len(r) = m /\ r[m] = i
      /\ \A j \in 1..(m - 1) : r[j] = q[j]
  <2>1. Len(q) \in Nat /\ DOMAIN q = 1..Len(q) /\ m = Len(q) + 1
    BY <1>2, <1>3, LenProperties
  <2>2. /\ r \in Seq(Instr) /\ Len(r) = Len(q) + 1 /\ r[Len(q) + 1] = i
        /\ \A j \in 1..Len(q) : r[j] = q[j]
    BY <1>3, AppendProperties
  <2>3. DOMAIN r = 1..Len(r)
    BY <2>2, LenProperties
  <2>. QED BY <2>1, <2>2, <2>3
<1>. HIDE DEF t
<1>5. /\ DOMAIN Codes(t) = DOMAIN Codes(s) /\ s.at \in DOMAIN Codes(s)
      /\ Codes(s)[s.at] = q /\ Codes(t)[s.at] = r
      /\ \A b \in DOMAIN Codes(s) : b # s.at => Codes(t)[b] = Codes(s)[b]
  <2>1. DOMAIN Codes(t) = DOMAIN Codes(s) /\ s.at \in DOMAIN Codes(s)
    BY <1>1, CodesAre
  <2>2. \A b \in DOMAIN Codes(s) : Codes(s)[b] = s.blocks[b].code /\ Codes(t)[b] = t.blocks[b].code
    BY <1>1, CodesAre
  <2>3. Codes(s)[s.at] = q /\ Codes(t)[s.at] = r
    BY <1>1, <1>2, <2>1, <2>2 DEF CodeAt
  <2>4. ASSUME NEW b \in DOMAIN Codes(s), b # s.at PROVE Codes(t)[b] = Codes(s)[b]
    <3>1. b \in 1..Len(s.blocks)
      BY CodesAre
    <3>2. t.blocks[b].code = s.blocks[b].code
      BY ONLY <1>1, <2>4, <3>1
    <3>. QED BY ONLY <2>2, <2>4, <3>2
  <2>. QED BY ONLY <2>1, <2>3, <2>4
<1>6. Longer(Codes(s), Codes(t), s.at, m) /\ Codes(t)[s.at][m] = i
  BY <1>4, <1>5 DEF Longer
<1>7. Loc(t) = <<s.at, m + 1>>
  <2>1. Len(CodeAt(t)) = m
    BY <1>2, <1>4
  <2>. QED BY <1>1, <2>1 DEF Loc, CodeAt
<1>. QED BY <1>6, <1>7 DEF t

LEMMA FlowPair ==
  ASSUME NEW C, NEW I, NEW x
  PROVE  x \in FlowOf(C, I) <=> \E q \in PointsIn(C) : \E p \in I[q] : x = <<p, q>>
BY DEF FlowOf

LEMMA NetPoint ==
  ASSUME NEW s, Good(s), NEW I, NEW f, Net(s, I, f)
  PROVE  /\ First(Codes(s), s.at) \/ CodeAt(s) = <<>> => First(Codes(Put(s, Point)), s.at)
         /\ \E J : /\ Net(Put(s, Point), J, f \cup (I[Loc(s)] \X {Loc(s)}))
                   /\ OnPoint(I, J, Loc(s), Loc(Put(s, Point)))
<1>1. PICK t : t = Put(s, Point)
  OBVIOUS
<1>2. PICK m : m = Len(CodeAt(s)) + 1
  OBVIOUS
<1>3. m \in Nat \ {0} /\ Loc(s) = <<s.at, m>> /\ Loc(s) \in Place /\ Good(t) /\ Point.to = {}
  BY <1>1, <1>2, LocIs, PutGood, OpTypes DEF Point
<1>4. /\ Longer(Codes(s), Codes(t), s.at, m) /\ Codes(t)[s.at][m] = Point
      /\ Loc(t) = <<s.at, m + 1>> /\ ~IsTerminator(Point) /\ Loc(t) \in Place
  <2>1. Loc(t) \in Place
    BY <1>3, LocPlace
  <2>. QED BY <1>1, <1>2, <2>1, PutLonger, OpTypes
<1>5. PICK C, D : C = Codes(s) /\ D = Codes(t)
  OBVIOUS
<1>6. C \in Code1 /\ D \in Code1 /\ s.at \in DOMAIN C
  BY <1>3, <1>5, CodesAre
<1>7. PICK J : Ways(D, J) /\ OnPoint(I, J, Loc(s), Loc(t))
  <2>1. PICK a : a = s.at
    OBVIOUS
  <2>2. Ways(C, I) /\ Longer(C, D, a, m) /\ ~IsTerminator(D[a][m]) /\ D[a][m].to = {}
    BY <1>3, <1>4, <1>5, <2>1 DEF Net
  <2>3. \E J : Ways(D, J) /\ OnPoint(I, J, <<a, m>>, <<a, m + 1>>)
    BY ONLY <1>3, <1>6, <2>2, PointWays
  <2>. QED BY <1>3, <1>4, <2>1, <2>3
<1>8. Ranked(D)
  BY <1>3, <1>4, <1>5, <1>6, PointRanked DEF Net
<1>9. PICK z, y : z = Loc(s) /\ y = Loc(t)
  OBVIOUS
<1>10. /\ J[y] = {z} /\ \A q \in Place : q # y => J[q] = I[q]
       /\ PointsIn(D) = PointsIn(C) \cup {z} /\ y \notin PointsIn(D) /\ PointsIn(D) \subseteq Place
  <2>1. PointsIn(D) = PointsIn(C) \cup {z}
    BY <1>3, <1>4, <1>5, <1>6, <1>9, LongerPoints
  <2>2. DOMAIN D[s.at] = 1..m
    BY <1>4, <1>5 DEF Longer
  <2>3. <<s.at, m + 1>> \notin PointsIn(D)
    BY <1>3, <2>2 DEF PointsIn
  <2>. QED BY <1>3, <1>4, <1>7, <1>9, <2>1, <2>3 DEF PointsIn, OnPoint
<1>11. FlowOf(D, J) = f \cup (I[z] \X {z})
  <2>1. f = FlowOf(C, I)
    BY <1>5 DEF Net
  <2>2. \A q \in PointsIn(D) : J[q] = I[q]
    BY <1>10
  <2>3. ASSUME NEW x PROVE x \in FlowOf(D, J) <=> x \in f \/ x \in I[z] \X {z}
    <3>1. x \in FlowOf(D, J) <=> \E q \in PointsIn(C) \cup {z} : \E p \in I[q] : x = <<p, q>>
      BY <1>10, <2>2, FlowPair
    <3>2. x \in f <=> \E q \in PointsIn(C) : \E p \in I[q] : x = <<p, q>>
      BY <2>1, FlowPair
    <3>. QED BY <3>1, <3>2
  <2>. QED BY <2>3
<1>12. Net(t, J, f \cup (I[Loc(s)] \X {Loc(s)}))
  BY <1>5, <1>7, <1>8, <1>9, <1>11 DEF Net
<1>13. First(C, s.at) \/ CodeAt(s) = <<>> => First(D, s.at)
  <2>1. First(C, s.at) => First(D, s.at)
    BY <1>3, <1>4, <1>5, <1>6, FirstLonger
  <2>2. CodeAt(s) = <<>> => m = 1
    BY <1>2, EmptySeq
  <2>3. m = 1 => First(D, s.at)
    BY <1>3, <1>4, <1>5, <1>6, FirstLonger
  <2>. QED BY <2>1, <2>2, <2>3
<1>. QED BY <1>1, <1>5, <1>7, <1>12, <1>13

(* The first places of those targets that have a point there already.      *)
Ahead(s, T) == {<<t, 1>> : t \in {b \in T : First(Codes(s), b)}}

LEMMA NetEnd ==
  ASSUME NEW s, Good(s), NEW I, NEW f, Net(s, I, f), NEW i \in Instr, IsTerminator(i), NEW T,
         i.to = T, T \subseteq 1..Len(s.blocks),
         \A t \in T : t # s.at /\ Target(Codes(s), t)
  PROVE  \E J : Net(Put(s, i), J, f \cup (I[Loc(s)] \X Ahead(s, T))) /\ OnEnd(I, J, Loc(s), T)
<1>1. PICK t : t = Put(s, i)
  OBVIOUS
<1>2. PICK m : m = Len(CodeAt(s)) + 1
  OBVIOUS
<1>3. m \in Nat \ {0} /\ Loc(s) = <<s.at, m>> /\ Loc(s) \in Place /\ Good(t)
  BY <1>1, <1>2, LocIs, PutGood
<1>4. Longer(Codes(s), Codes(t), s.at, m) /\ Codes(t)[s.at][m] = i
  BY <1>1, <1>2, PutLonger
<1>5. PICK C, D : C = Codes(s) /\ D = Codes(t)
  OBVIOUS
<1>6. C \in Code1 /\ D \in Code1 /\ s.at \in DOMAIN C /\ DOMAIN C = 1..Len(s.blocks)
  BY <1>3, <1>5, CodesAre
<1>7. Ended(C, D, s.at, m, T)
  BY <1>4, <1>5, <1>6 DEF Ended
<1>8. PICK J : Ways(D, J) /\ OnEnd(I, J, Loc(s), T)
  <2>1. PICK a : a = s.at
    OBVIOUS
  <2>2. Ways(C, I) /\ Ended(C, D, a, m, T)
    BY <1>5, <1>7, <2>1 DEF Net
  <2>3. \E J : Ways(D, J) /\ OnEnd(I, J, <<a, m>>, T)
    BY ONLY <1>3, <1>6, <2>2, EndWays
  <2>. QED BY <1>3, <2>1, <2>3
<1>9. Ranked(D)
  BY <1>3, <1>5, <1>6, <1>7, EndRanked DEF Net
<1>10. PICK z, A : z = Loc(s) /\ A = Ahead(s, T)
  OBVIOUS
<1>11. /\ PointsIn(D) = PointsIn(C) /\ PointsIn(C) \subseteq Place /\ z \notin PointsIn(C)
       /\ \A q : q \in A <=> q \in PointsIn(C) /\ \E b \in T : q = <<b, 1>>
  <2>1. PointsIn(D) = PointsIn(C)
    <3>1. PICK a : a = s.at
      OBVIOUS
    <3>2. Longer(C, D, a, m) /\ IsTerminator(D[a][m])
      BY <1>7, <3>1 DEF Ended
    <3>3. PointsIn(D) = PointsIn(C) \cup (IF IsTerminator(D[a][m]) THEN {} ELSE {<<a, m>>})
      BY ONLY <1>3, <1>6, <3>2, LongerPoints
    <3>. QED BY ONLY <3>2, <3>3
  <2>2. z \notin PointsIn(C)
    BY <1>3, <1>4, <1>5, <1>6, <1>10, LongerCode
  <2>3. \A b \in T : <<b, 1>> \in PointsIn(C) <=> First(C, b)
    <3>1. \A b \in T : <<b, 1>> \in PointsIn(C) <=> 1 \in DOMAIN C[b] /\ ~EndsAt(C[b], 1)
      BY <1>6, PlacesAre
    <3>. QED BY <3>1 DEF First, EndsAt
  <2>4. \A q : q \in A <=> \E b \in T : First(C, b) /\ q = <<b, 1>>
    BY <1>5, <1>10 DEF Ahead
  <2>. QED BY <2>1, <2>2, <2>3, <2>4 DEF PointsIn
<1>12. \A q \in PointsIn(C) : J[q] = IF q \in A THEN I[q] \cup I[z] ELSE I[q]
  BY <1>3, <1>8, <1>10, <1>11 DEF OnEnd
<1>13. FlowOf(D, J) = f \cup (I[z] \X A)
  <2>1. f = FlowOf(C, I)
    BY <1>5 DEF Net
  <2>2. ASSUME NEW x PROVE x \in FlowOf(D, J) <=> x \in f \/ x \in I[z] \X A
    <3>1. x \in FlowOf(D, J) <=> \E q \in PointsIn(C) : \E p \in J[q] : x = <<p, q>>
      BY <1>11, FlowPair
    <3>2. x \in f <=> \E q \in PointsIn(C) : \E p \in I[q] : x = <<p, q>>
      BY <2>1, FlowPair
    <3>3. x \in I[z] \X A <=> \E q \in A : \E p \in I[z] : x = <<p, q>>
      OBVIOUS
    <3>4. A \subseteq PointsIn(C)
      BY <1>11
    <3>. QED BY ONLY <1>12, <3>1, <3>2, <3>3, <3>4
  <2>. QED BY <2>2
<1>14. Net(t, J, f \cup (I[Loc(s)] \X Ahead(s, T)))
  BY <1>5, <1>8, <1>9, <1>10, <1>13 DEF Net
<1>. QED BY <1>1, <1>8, <1>14

LEMMA NetCreate ==
  ASSUME NEW s, Good(s), NEW I, NEW f, Net(s, I, f), NEW p \in BOOLEAN
  PROVE  /\ Net(Create(s, p), I, f) /\ I[<<Fresh(s), 1>>] = {}
         /\ Loc(Create(s, p)) = Loc(s) /\ Codes(Create(s, p))[Fresh(s)] = <<>>
         /\ \A b \in 1..Len(s.blocks) : Codes(Create(s, p))[b] = Codes(s)[b]
<1>1. PICK t, k : t = Create(s, p) /\ k = Fresh(s)
  OBVIOUS
<1>2. /\ Good(t) /\ Len(t.blocks) = Len(s.blocks) + 1 /\ t.at = s.at
      /\ k = Len(s.blocks) + 1 /\ Len(s.blocks) \in Nat
      /\ t.blocks[k].code = <<>>
      /\ \A b \in 1..Len(s.blocks) : t.blocks[b] = s.blocks[b]
  BY <1>1, CreateBlocks
<1>3. PICK C, D : C = Codes(s) /\ D = Codes(t)
  OBVIOUS
<1>4. /\ C \in Code1 /\ D \in Code1 /\ DOMAIN C = 1..Len(s.blocks) /\ DOMAIN D = 1..Len(t.blocks)
      /\ \A b \in 1..Len(s.blocks) : C[b] = s.blocks[b].code
      /\ \A b \in 1..Len(t.blocks) : D[b] = t.blocks[b].code
  BY <1>2, <1>3, CodesAre
<1>5. More(C, D, k)
  <2>1. k \notin DOMAIN C /\ DOMAIN D = DOMAIN C \cup {k} /\ k \in 1..Len(t.blocks)
    BY <1>2, <1>4
  <2>2. \A b \in DOMAIN C : b \in 1..Len(t.blocks) /\ D[b] = C[b]
    BY <1>2, <1>4
  <2>. QED BY <1>2, <1>4, <2>1, <2>2 DEF More
<1>6. Ways(D, I) /\ PointsIn(D) = PointsIn(C) /\ Ranked(D)
  BY <1>3, <1>4, <1>5, MoreWays, MoreRanked DEF Net
<1>7. FlowOf(D, I) = FlowOf(C, I)
  BY <1>6 DEF FlowOf
<1>8. I[<<k, 1>>] = {}
  <2>1. <<k, 1>> \in Place /\ <<k, 1>> \notin PlacesIn(C)
    BY <1>2, <1>5 DEF More, PlacesIn, Place
  <2>. QED BY <1>3, <1>4, <2>1, IntoInside DEF Net
<1>9. Loc(t) = Loc(s)
  <2>1. t.blocks[s.at] = s.blocks[s.at]
    BY <1>2 DEF Good
  <2>. QED BY <1>2, <2>1 DEF Loc
<1>. QED BY <1>1, <1>3, <1>4, <1>5, <1>6, <1>7, <1>8, <1>9 DEF Net, More

(* The builder moves; the code stays.                                      *)
LEMMA NetPlace ==
  ASSUME NEW s, Good(s), NEW b \in 1..Len(s.blocks)
  PROVE  /\ Codes(PlaceAt(s, b)) = Codes(s) /\ Codes(SetInsertPoint(s, b)) = Codes(s)
         /\ \A I, f : Net(s, I, f) => Net(PlaceAt(s, b), I, f) /\ Net(SetInsertPoint(s, b), I, f)
         /\ Codes(s)[b] = <<>> =>
              Loc(PlaceAt(s, b)) = <<b, 1>> /\ Loc(SetInsertPoint(s, b)) = <<b, 1>>
<1>1. PICK t : t = PlaceAt(s, b)
  OBVIOUS
<1>2. PICK u : u = SetInsertPoint(s, b)
  OBVIOUS
<1>3. /\ Good(t) /\ Len(t.blocks) = Len(s.blocks) /\ t.at = b
      /\ \A k \in 1..Len(s.blocks) : t.blocks[k].code = s.blocks[k].code
  BY <1>1, PlaceAtBlocks
<1>4. Good(u) /\ u.blocks = s.blocks /\ u.at = b
  BY <1>2, InsertBlocks
<1>5. Codes(t) = Codes(s) /\ Codes(u) = Codes(s)
  BY <1>3, <1>4 DEF Codes
<1>6. Codes(s)[b] = <<>> => Loc(t) = <<b, 1>> /\ Loc(u) = <<b, 1>>
  <2>1. Codes(s)[b] = s.blocks[b].code
    BY CodesAre
  <2>2. t.blocks[b].code = s.blocks[b].code
    BY <1>3
  <2>3. Len(<<>>) + 1 = 1
    BY EmptySeq
  <2>. QED BY <1>3, <1>4, <2>1, <2>2, <2>3 DEF Loc
<1>7. \A I, f : Net(s, I, f) => Net(t, I, f) /\ Net(u, I, f)
  BY <1>5 DEF Net
<1>. QED BY <1>1, <1>2, <1>5, <1>6, <1>7

-----------------------------------------------------------------------------
(* The same for the first places of the blocks in X, and where control     *)
(* joins that of S on entering a block in T.                               *)
Same(I, J, X) == \A b \in X : J[<<b, 1>>] = I[<<b, 1>>]
Joins(I, J, X, T, S) ==
  \A b \in X : J[<<b, 1>>] = IF b \in T THEN I[<<b, 1>>] \cup S ELSE I[<<b, 1>>]
FirstsKept(s, t) ==
  \A b \in 1..Len(s.blocks) : /\ First(Codes(s), b) => First(Codes(t), b)
                              /\ ~Plain(Codes(s)[b]) => ~Plain(Codes(t)[b])

LEMMA PutCodes ==
  ASSUME NEW s, Good(s), NEW i \in Instr
  PROVE  /\ \A b \in 1..Len(s.blocks) : b # s.at => Codes(Put(s, i))[b] = Codes(s)[b]
         /\ FirstsKept(s, Put(s, i))
<1>1. PICK m : m = Len(CodeAt(s)) + 1
  OBVIOUS
<1>2. PICK C, D : C = Codes(s) /\ D = Codes(Put(s, i))
  OBVIOUS
<1>3. m \in Nat \ {0} /\ Longer(C, D, s.at, m) /\ C \in Code1 /\ D \in Code1 /\ DOMAIN C = 1..Len(s.blocks)
  BY <1>1, <1>2, LocIs, PutLonger, CodesAre, PutGood
<1>4. \A b \in 1..Len(s.blocks) : (First(C, b) => First(D, b)) /\ (b # s.at => D[b] = C[b])
  BY <1>3, FirstLonger
<1>5. \A b \in 1..Len(s.blocks) : ~Plain(C[b]) => ~Plain(D[b])
  BY <1>3, PlainLonger
<1>. QED BY <1>2, <1>4, <1>5 DEF FirstsKept

LEMMA CreateCodes ==
  ASSUME NEW s, Good(s), NEW p \in BOOLEAN
  PROVE  /\ \A b \in 1..Len(s.blocks) : Codes(Create(s, p))[b] = Codes(s)[b]
         /\ Codes(Create(s, p))[Fresh(s)] = <<>>
         /\ FirstsKept(s, Create(s, p))
<1>1. PICK t, k : t = Create(s, p) /\ k = Fresh(s)
  OBVIOUS
<1>2. /\ Good(t) /\ Len(t.blocks) = Len(s.blocks) + 1
      /\ k = Len(s.blocks) + 1 /\ Len(s.blocks) \in Nat /\ t.blocks[k].code = <<>>
      /\ \A b \in 1..Len(s.blocks) : t.blocks[b] = s.blocks[b]
  BY <1>1, CreateBlocks
<1>3. k \in 1..Len(t.blocks) /\ \A b \in 1..Len(s.blocks) : b \in 1..Len(t.blocks)
  BY <1>2
<1>4. Codes(t)[k] = <<>> /\ \A b \in 1..Len(s.blocks) : Codes(t)[b] = Codes(s)[b]
  <2>1. \A b \in 1..Len(t.blocks) : Codes(t)[b] = t.blocks[b].code
    BY <1>2, CodesAre
  <2>2. \A b \in 1..Len(s.blocks) : Codes(s)[b] = s.blocks[b].code
    BY CodesAre
  <2>. QED BY ONLY <1>2, <1>3, <2>1, <2>2
<1>. QED BY <1>1, <1>4 DEF FirstsKept, First

LEMMA PutPoint ==
  ASSUME NEW s, Good(s), NEW I, NEW f, Net(s, I, f), NEW p, p = Loc(s)
  PROVE  /\ CodeAt(s) = <<>> => First(Codes(Put(s, Point)), s.at)
         /\ \E J : /\ Net(Put(s, Point), J, f \cup (I[p] \X {p}))
                   /\ J[Loc(Put(s, Point))] = {p}
                   /\ Same(I, J, Nat)
<1>1. PICK m : m = Len(CodeAt(s)) + 1
  OBVIOUS
<1>2. m \in Nat \ {0} /\ Loc(Put(s, Point)) = <<s.at, m + 1>> /\ Loc(Put(s, Point)) \in Place
  BY <1>1, LocIs, PutLonger, OpTypes, PutGood, LocPlace
<1>3. PICK J : /\ Net(Put(s, Point), J, f \cup (I[Loc(s)] \X {Loc(s)}))
               /\ OnPoint(I, J, Loc(s), Loc(Put(s, Point)))
  BY NetPoint
<1>4. \A b \in Nat : <<b, 1>> \in Place /\ <<b, 1>> # Loc(Put(s, Point))
  BY <1>2 DEF Place
<1>5. Same(I, J, Nat)
  BY <1>3, <1>4 DEF Same, OnPoint
<1>6. J[Loc(Put(s, Point))] = {p}
  BY <1>2, <1>3 DEF OnPoint
<1>. QED BY <1>3, <1>5, <1>6, NetPoint

LEMMA PutEnd ==
  ASSUME NEW s, Good(s), NEW I, NEW f, Net(s, I, f), NEW i \in Instr, IsTerminator(i), NEW T,
         i.to = T, T \subseteq 1..Len(s.blocks),
         \A t \in T : t # s.at /\ Target(Codes(s), t)
  PROVE  \E J : /\ Net(Put(s, i), J, f \cup (I[Loc(s)] \X Ahead(s, T)))
                /\ J[Loc(Put(s, i))] = {}
                /\ Joins(I, J, Nat \ {s.at}, T, I[Loc(s)])
<1>1. PICK J : Net(Put(s, i), J, f \cup (I[Loc(s)] \X Ahead(s, T))) /\ OnEnd(I, J, Loc(s), T)
  BY NetEnd
<1>2. PICK m : m = Len(CodeAt(s)) + 1
  OBVIOUS
<1>3. /\ m \in Nat \ {0} /\ Loc(s) = <<s.at, m>> /\ Loc(Put(s, i)) = <<s.at, m + 1>>
      /\ Loc(Put(s, i)) \in Place
  BY <1>2, LocIs, PutLonger, PutGood, LocPlace
<1>4. \A b \in Nat \ {s.at} : <<b, 1>> \in Place /\ <<b, 1>> # Loc(s)
  BY <1>3 DEF Place
<1>5. Joins(I, J, Nat \ {s.at}, T, I[Loc(s)])
  <2>1. \A b \in Nat : (\E t \in T : <<b, 1>> = <<t, 1>>) <=> b \in T
    OBVIOUS
  <2>. QED BY <1>1, <1>4, <2>1 DEF Joins, OnEnd
<1>6. J[Loc(Put(s, i))] = {}
  <2>1. I[Loc(Put(s, i))] = {}
    <3>1. DOMAIN Codes(s)[s.at] = 1..(m - 1) /\ Len(Codes(s)[s.at]) = m - 1
      BY <1>2, PutLonger DEF Longer
    <3>2. m + 1 \notin 1..(Len(Codes(s)[s.at]) + 1)
      BY <1>3, <3>1
    <3>3. Loc(Put(s, i)) \notin PlacesIn(Codes(s))
      BY <1>3, <3>2 DEF PlacesIn
    <3>. QED BY <1>3, <3>3, CodesAre, IntoInside DEF Net
  <2>2. Loc(Put(s, i)) # Loc(s) /\ \A t \in T : Loc(Put(s, i)) # <<t, 1>>
    BY <1>3
  <2>. QED BY <1>1, <1>3, <2>1, <2>2 DEF OnEnd
<1>. QED BY <1>1, <1>5, <1>6

(* The targets are empty blocks.                                           *)
LEMMA PutBranch ==
  ASSUME NEW s, Good(s), NEW I, NEW f, Net(s, I, f), NEW T, T \subseteq 1..Len(s.blocks),
         \A t \in T : t # s.at /\ Codes(s)[t] = <<>>
  PROVE  \E J : /\ Net(Put(s, Br(T)), J, f)
                /\ J[Loc(Put(s, Br(T)))] = {}
                /\ Joins(I, J, Nat \ {s.at}, T, I[Loc(s)])
<1>1. PICK i : i = Br(T)
  OBVIOUS
<1>2. i \in Instr /\ IsTerminator(i) /\ i.to = T
  <2>1. T \in SUBSET Nat
    BY GoodLen
  <2>. QED BY <1>1, <2>1, OpTypes DEF Br
<1>3. \A t \in T : t # s.at /\ Target(Codes(s), t)
  BY DEF Target
<1>4. Ahead(s, T) = {}
  BY DEF Ahead, First
<1>5. f \cup (I[Loc(s)] \X Ahead(s, T)) = f
  BY <1>4
<1>6. \E J : /\ Net(Put(s, i), J, f \cup (I[Loc(s)] \X Ahead(s, T)))
             /\ J[Loc(Put(s, i))] = {}
             /\ Joins(I, J, Nat \ {s.at}, T, I[Loc(s)])
  <2>1. Good(s) /\ Net(s, I, f) /\ T \subseteq 1..Len(s.blocks)
    OBVIOUS
  <2>. QED BY ONLY <1>2, <1>3, <2>1, PutEnd
<1>. QED BY <1>1, <1>5, <1>6

(* A point p was put at the builder's place, and control goes on from p to *)
(* its new one; what control came to the other blocks before still does.   *)
Stepped(s, I, f, p, t) ==
  \E J : /\ Net(t, J, f \cup (I[p] \X {p})) /\ J[Loc(t)] = {p}
         /\ Same(I, J, 1..Len(s.blocks) \ {s.at})

LEMMA FirstsTrans ==
  ASSUME NEW s, NEW t, NEW u, Len(s.blocks) \in Nat, Len(t.blocks) \in Nat,
         Len(s.blocks) <= Len(t.blocks), FirstsKept(s, t), FirstsKept(t, u)
  PROVE  FirstsKept(s, u)
<1>1. \A b \in 1..Len(s.blocks) : b \in 1..Len(t.blocks)
  OBVIOUS
<1>. QED BY <1>1 DEF FirstsKept

LEMMA CheckNet ==
  ASSUME NEW t, Good(t), NEW I, NEW g, Net(t, I, g), NEW p, I[Loc(t)] = {p}
  PROVE  /\ FirstsKept(t, CheckArray(t))
         /\ \E J : /\ Net(CheckArray(t), J, g) /\ J[Loc(CheckArray(t))] = {p}
                   /\ Same(I, J, 1..Len(t.blocks) \ {t.at})
<1>. DEFINE chk == Fresh(t)
            next == chk + 1
            c1  == Create(t, TRUE)
            c2  == Create(c1, FALSE)
            s1  == Put(c2, Br({chk, next}))
            i1  == SetInsertPoint(s1, chk)
            s2  == Put(i1, Br({next}))
            q   == PlaceAt(s2, next)
<1>1. /\ chk = Len(t.blocks) + 1 /\ Len(t.blocks) \in Nat /\ chk \in Nat /\ next = chk + 1 /\ next \in Nat
      /\ t.at \in 1..Len(t.blocks) /\ t.at # chk /\ t.at # next /\ chk # next
  <2>1. chk = Len(t.blocks) + 1 /\ Len(t.blocks) \in Nat /\ t.at \in 1..Len(t.blocks)
    BY GoodLen DEF Good
  <2>. QED BY <2>1
<1>2. TRUE \in BOOLEAN /\ FALSE \in BOOLEAN
  OBVIOUS
<1>3. CheckArray(t) = q
  BY DEF CheckArray
<1>4. /\ Good(c1) /\ Len(c1.blocks) = chk /\ c1.at = t.at /\ Net(c1, I, g) /\ I[<<chk, 1>>] = {}
      /\ Loc(c1) = Loc(t) /\ Codes(c1)[chk] = <<>> /\ FirstsKept(t, c1)
  <2>1. Good(c1) /\ Len(c1.blocks) = chk /\ c1.at = t.at
    BY <1>1, <1>2, CreateBlocks
  <2>2. Net(c1, I, g) /\ I[<<chk, 1>>] = {} /\ Loc(c1) = Loc(t)
    BY <1>2, NetCreate
  <2>. QED BY <1>2, <2>1, <2>2, CreateCodes
<1>5. chk = Fresh(t) /\ next = chk + 1
  OBVIOUS
<1>. HIDE DEF chk, next
<1>. HIDE DEF c1
<1>6. /\ Good(c2) /\ Len(c2.blocks) = next /\ c2.at = t.at /\ Net(c2, I, g) /\ I[<<next, 1>>] = {}
      /\ Loc(c2) = Loc(t) /\ Codes(c2)[chk] = <<>> /\ Codes(c2)[next] = <<>> /\ FirstsKept(c1, c2)
  <2>1. Good(c2) /\ Len(c2.blocks) = next /\ c2.at = t.at /\ Fresh(c1) = next
    BY <1>1, <1>2, <1>4, CreateBlocks
  <2>2. Net(c2, I, g) /\ I[<<next, 1>>] = {} /\ Loc(c2) = Loc(t)
    <3>1. Net(c2, I, g) /\ I[<<Fresh(c1), 1>>] = {} /\ Loc(c2) = Loc(c1)
      BY <1>2, <1>4, NetCreate
    <3>. QED BY <1>4, <2>1, <3>1
  <2>3. Codes(c2)[next] = <<>> /\ FirstsKept(c1, c2) /\ Codes(c2)[chk] = Codes(c1)[chk]
    <3>1. chk \in 1..Len(c1.blocks)
      BY <1>1, <1>4
    <3>. QED BY <1>2, <1>4, <2>1, <3>1, CreateCodes
  <2>. QED BY <1>4, <2>1, <2>2, <2>3
<1>. HIDE DEF c2
<1>7. {chk, next} \subseteq 1..Len(c2.blocks) /\ {next} \subseteq 1..Len(c2.blocks)
  BY <1>1, <1>6
<1>8. Br({chk, next}) \in Instr /\ Br({next}) \in Instr
  <2>1. {chk, next} \in SUBSET Nat /\ {next} \in SUBSET Nat
    BY <1>1
  <2>. QED BY <2>1, OpTypes
<1>9. /\ Good(s1) /\ Len(s1.blocks) = next /\ s1.at = t.at /\ FirstsKept(c2, s1)
      /\ Codes(s1)[chk] = <<>> /\ Codes(s1)[next] = <<>>
  <2>1. Good(s1) /\ Len(s1.blocks) = next /\ s1.at = t.at
    BY <1>6, <1>8, PutBlocks
  <2>2. chk \in 1..Len(c2.blocks) /\ next \in 1..Len(c2.blocks) /\ chk # c2.at /\ next # c2.at
    BY <1>1, <1>6, <1>7
  <2>3. Codes(s1)[chk] = Codes(c2)[chk] /\ Codes(s1)[next] = Codes(c2)[next] /\ FirstsKept(c2, s1)
    BY <1>6, <1>8, <2>2, PutCodes
  <2>. QED BY <1>6, <2>1, <2>3
<1>10. PICK J : /\ Net(s1, J, g)
                /\ Joins(I, J, Nat \ {t.at}, {chk, next}, {p})
  <2>1. PICK T : T = {chk, next}
    OBVIOUS
  <2>2. T \subseteq 1..Len(c2.blocks) /\ \A b \in T : b # c2.at /\ Codes(c2)[b] = <<>>
    BY <1>1, <1>6, <1>7, <2>1
  <2>3. \E J : /\ Net(Put(c2, Br(T)), J, g) /\ J[Loc(Put(c2, Br(T)))] = {}
               /\ Joins(I, J, Nat \ {c2.at}, T, I[Loc(c2)])
    BY ONLY <1>6, <2>2, PutBranch
  <2>. QED BY <1>6, <2>1, <2>3
<1>. HIDE DEF s1
<1>11. J[<<chk, 1>>] = {p} /\ J[<<next, 1>>] = {p}
  BY <1>1, <1>4, <1>6, <1>10 DEF Joins
<1>12. /\ Good(i1) /\ Len(i1.blocks) = next /\ i1.at = chk /\ Net(i1, J, g)
       /\ Loc(i1) = <<chk, 1>> /\ Codes(i1) = Codes(s1)
  <2>1. chk \in 1..Len(s1.blocks)
    BY <1>1, <1>9
  <2>2. Good(i1) /\ i1.blocks = s1.blocks /\ i1.at = chk
    BY <1>9, <2>1, InsertBlocks
  <2>. QED BY <1>9, <1>10, <2>1, <2>2, NetPlace
<1>. HIDE DEF i1
<1>13. /\ Good(s2) /\ Len(s2.blocks) = next /\ FirstsKept(i1, s2) /\ Codes(s2)[next] = <<>>
  <2>1. Good(s2) /\ Len(s2.blocks) = next
    BY <1>8, <1>12, PutBlocks
  <2>2. next \in 1..Len(i1.blocks) /\ next # i1.at
    BY <1>1, <1>12
  <2>3. Codes(s2)[next] = Codes(i1)[next] /\ FirstsKept(i1, s2)
    BY <1>8, <1>12, <2>2, PutCodes
  <2>. QED BY <1>9, <1>12, <2>1, <2>3
<1>14. PICK K : Net(s2, K, g) /\ Joins(J, K, Nat \ {chk}, {next}, {p})
  <2>1. PICK T : T = {next}
    OBVIOUS
  <2>2. T \subseteq 1..Len(i1.blocks) /\ \A b \in T : b # i1.at /\ Codes(i1)[b] = <<>>
    BY <1>1, <1>9, <1>12, <2>1
  <2>3. \E K : /\ Net(Put(i1, Br(T)), K, g) /\ K[Loc(Put(i1, Br(T)))] = {}
               /\ Joins(J, K, Nat \ {i1.at}, T, J[Loc(i1)])
    BY ONLY <1>12, <2>2, PutBranch
  <2>. QED BY <1>11, <1>12, <2>1, <2>3
<1>. HIDE DEF s2
<1>15. Net(q, K, g) /\ Loc(q) = <<next, 1>> /\ Codes(q) = Codes(s2)
  <2>1. next \in 1..Len(s2.blocks)
    BY <1>1, <1>13
  <2>. QED BY <1>13, <1>14, <2>1, NetPlace
<1>. HIDE DEF q
<1>16. K[Loc(q)] = {p}
  BY <1>1, <1>11, <1>14, <1>15 DEF Joins
<1>17. Same(I, K, 1..Len(t.blocks) \ {t.at})
  <2>1. ASSUME NEW b \in 1..Len(t.blocks), b # t.at PROVE K[<<b, 1>>] = I[<<b, 1>>]
    <3>1. b \in Nat /\ b # chk /\ b # next
      BY <1>1, <2>1
    <3>. QED BY <1>10, <1>14, <2>1, <3>1 DEF Joins
  <2>. QED BY <2>1 DEF Same
<1>18. FirstsKept(t, q)
  <2>1. /\ FirstsKept(t, c1) /\ FirstsKept(c1, c2) /\ FirstsKept(c2, s1)
        /\ FirstsKept(i1, s2)
    BY <1>4, <1>6, <1>9, <1>13
  <2>2. ASSUME NEW b \in 1..Len(t.blocks)
        PROVE  /\ First(Codes(t), b) => First(Codes(q), b)
               /\ ~Plain(Codes(t)[b]) => ~Plain(Codes(q)[b])
    <3>1. b \in 1..Len(c1.blocks) /\ b \in 1..Len(c2.blocks) /\ b \in 1..Len(i1.blocks)
      BY <1>1, <1>4, <1>6, <1>12, <2>2
    <3>2. Codes(i1) = Codes(s1) /\ Codes(q) = Codes(s2)
      BY <1>12, <1>15
    <3>3. First(Codes(t), b) => First(Codes(q), b)
      BY <2>1, <2>2, <3>1, <3>2 DEF FirstsKept
    <3>4. ~Plain(Codes(t)[b]) => ~Plain(Codes(q)[b])
      BY <2>1, <2>2, <3>1, <3>2 DEF FirstsKept
    <3>. QED BY <3>3, <3>4
  <2>. QED BY <2>2 DEF FirstsKept
<1>. QED BY <1>3, <1>15, <1>16, <1>17, <1>18

LEMMA EvalNet ==
  ASSUME NEW s, Good(s), NEW I, NEW f, Net(s, I, f), NEW e, NEW p, p = Loc(s)
  PROVE  /\ FirstsKept(s, Eval(s, e))
         /\ CodeAt(s) = <<>> => First(Codes(Eval(s, e)), s.at)
         /\ Stepped(s, I, f, p, Eval(s, e))
<1>1. PICK t : t = Put(s, Point)
  OBVIOUS
<1>2. PICK g : g = f \cup (I[p] \X {p})
  OBVIOUS
<1>3. /\ Good(t) /\ Len(t.blocks) = Len(s.blocks) /\ t.at = s.at /\ Len(s.blocks) \in Nat
      /\ s.at \in 1..Len(s.blocks)
  BY <1>1, OpTypes, PutBlocks, GoodLen DEF Good
<1>4. FirstsKept(s, t)
  BY <1>1, OpTypes, PutCodes
<1>5. CodeAt(s) = <<>> => First(Codes(t), s.at)
  BY <1>1, PutPoint
<1>6. PICK J : Net(t, J, g) /\ J[Loc(t)] = {p} /\ Same(I, J, Nat)
  <2>1. \E J : /\ Net(Put(s, Point), J, f \cup (I[p] \X {p}))
               /\ J[Loc(Put(s, Point))] = {p} /\ Same(I, J, Nat)
    BY PutPoint
  <2>. QED BY <1>1, <1>2, <2>1
<1>7. CASE e = "checked"
  <2>1. PICK q : q = CheckArray(t)
    OBVIOUS
  <2>2. Eval(s, e) = q
    BY <1>1, <1>7, <2>1 DEF Eval
  <2>3. FirstsKept(t, q)
    BY <1>3, <1>6, <2>1, CheckNet
  <2>4. PICK K : Net(q, K, g) /\ K[Loc(q)] = {p} /\ Same(J, K, 1..Len(t.blocks) \ {t.at})
    BY <1>3, <1>6, <2>1, CheckNet
  <2>5. Same(I, K, 1..Len(s.blocks) \ {s.at})
    <3>1. \A b \in 1..Len(s.blocks) \ {s.at} : b \in Nat /\ b \in 1..Len(t.blocks) \ {t.at}
      BY <1>3
    <3>2. \A b \in 1..Len(s.blocks) \ {s.at} : K[<<b, 1>>] = J[<<b, 1>>] /\ J[<<b, 1>>] = I[<<b, 1>>]
      BY <1>6, <2>4, <3>1 DEF Same
    <3>. QED BY <3>2 DEF Same
  <2>6. FirstsKept(s, q)
    BY <1>3, <1>4, <2>3, FirstsTrans
  <2>7. CodeAt(s) = <<>> => First(Codes(q), s.at)
    BY <1>3, <1>5, <2>3 DEF FirstsKept
  <2>8. Stepped(s, I, f, p, q)
    BY <1>2, <2>4, <2>5 DEF Stepped
  <2>. QED BY <2>2, <2>6, <2>7, <2>8
<1>8. CASE e # "checked"
  <2>1. Eval(s, e) = t
    BY <1>1, <1>8 DEF Eval
  <2>2. Same(I, J, 1..Len(s.blocks) \ {s.at})
    <3>1. \A b \in 1..Len(s.blocks) \ {s.at} : b \in Nat
      BY <1>3
    <3>. QED BY <1>6, <3>1 DEF Same
  <2>3. Stepped(s, I, f, p, t)
    BY <1>2, <1>6, <2>2 DEF Stepped
  <2>. QED BY <1>4, <1>5, <2>1, <2>3
<1>. QED BY <1>7, <1>8

-----------------------------------------------------------------------------
(* What a construct waits for: where control comes to the blocks it has in *)
(* store; and the first block of a loop starts with its condition and is   *)
(* left behind.                                                            *)
Waits(C, I, g) ==
  /\ g.kind = "then" => I[<<g.back, 1>>] = {g.cond} /\ I[<<g.out, 1>>] = {}
  /\ g.kind \in {"else", "loop"} => I[<<g.out, 1>>] = g.ends
  /\ g.kind = "loop" => g.cond = <<g.back, 1>> /\ First(C, g.back) /\ ~Plain(C[g.back])

FlowAt(s, f, p, fs, I) ==
  /\ Net(s, I, f) /\ I[Loc(s)] = p
  /\ \A i \in DOMAIN fs : Waits(Codes(s), I, fs[i])

(* The ways of control in the blocks are those of the statements so far.   *)
FlowInv == clean => \E I : FlowAt(ir, flow, pend, open, I)

LEMMA WaitsKept ==
  ASSUME NEW g, NEW h, NEW C, NEW D, NEW I, NEW J, Waits(C, I, g),
         h.kind = g.kind, h.back = g.back, h.out = g.out, h.cond = g.cond, h.ends = g.ends,
         \A b \in Kept(g) : J[<<b, 1>>] = I[<<b, 1>>],
         g.kind = "loop" => /\ First(C, g.back) => First(D, g.back)
                            /\ ~Plain(C[g.back]) => ~Plain(D[g.back])
  PROVE  Waits(D, J, h)
<1>1. CASE g.kind = "then"
  <2>1. g.back \in Kept(g) /\ g.out \in Kept(g)
    BY <1>1 DEF Kept
  <2>. QED BY <1>1, <2>1 DEF Waits
<1>2. CASE g.kind \in {"else", "loop"}
  <2>1. g.out \in Kept(g)
    BY <1>2 DEF Kept
  <2>. QED BY <1>2, <2>1 DEF Waits
<1>3. CASE g.kind \notin {"then", "else", "loop"}
  BY <1>3 DEF Waits
<1>. QED BY <1>1, <1>2, <1>3

(* A construct whose blocks are not touched.                               *)
LEMMA StillWaits ==
  ASSUME Stack, FormInv, NEW I, FlowAt(ir, flow, pend, open, I), NEW i \in 1..Len(open),
         NEW s, FirstsKept(ir, s), NEW J, NEW X, Same(I, J, X), Kept(open[i]) \subseteq X,
         NEW h, h.kind = open[i].kind, h.back = open[i].back, h.out = open[i].out,
         h.cond = open[i].cond, h.ends = open[i].ends
  PROVE  Waits(Codes(s), J, h)
<1>1. i \in DOMAIN open
  BY TopShape
<1>2. PICK g : g = open[i]
  OBVIOUS
<1>3. Waits(Codes(ir), I, g)
  BY <1>1, <1>2 DEF FlowAt
<1>4. \A b \in Kept(g) : J[<<b, 1>>] = I[<<b, 1>>]
  BY <1>2 DEF Same
<1>5. g.kind = "loop" => g.back \in 1..Len(ir.blocks)
  BY <1>1, <1>2 DEF Stack, HasBlocks
<1>6. g.kind = "loop" => /\ First(Codes(ir), g.back) => First(Codes(s), g.back)
                         /\ ~Plain(Codes(ir)[g.back]) => ~Plain(Codes(s)[g.back])
  BY <1>5 DEF FirstsKept
<1>. QED BY <1>2, <1>3, <1>4, <1>6, WaitsKept

LEMMA FlowStays ==
  ASSUME Stack, FormInv, NEW I, FlowAt(ir, flow, pend, open, I),
         NEW s, FirstsKept(ir, s), NEW J, Same(I, J, Unplaced(ir)),
         NEW f, NEW p, Net(s, J, f), J[Loc(s)] = p,
         NEW fs \in Seq(Frame), Len(fs) = Len(open),
         \A i \in 1..Len(open) : /\ fs[i].kind = open[i].kind /\ fs[i].back = open[i].back
                                 /\ fs[i].out = open[i].out /\ fs[i].cond = open[i].cond
                                 /\ fs[i].ends = open[i].ends
  PROVE  FlowAt(s, f, p, fs, J)
<1>1. DOMAIN fs = 1..Len(open) /\ DOMAIN open = 1..Len(open)
  BY TopShape, LenProperties
<1>2. ASSUME NEW i \in DOMAIN fs PROVE Waits(Codes(s), J, fs[i])
  <2>1. i \in 1..Len(open) /\ Kept(open[i]) \subseteq Unplaced(ir)
    BY <1>1 DEF FormInv, Stored
  <2>. QED BY <2>1, StillWaits
<1>. QED BY <1>2 DEF FlowAt

LEMMA FlowComplete ==
  ASSUME Stack, FormInv, NEW I, FlowAt(ir, flow, pend, open, I),
         NEW s, FirstsKept(ir, s), NEW J, Same(I, J, Unplaced(ir)),
         NEW f, NEW p, Net(s, J, f), J[Loc(s)] = p, NEW r \in Returns
  PROVE  FlowAt(s, f, p, Ends(open, r), J)
<1>1. open \in Seq(Frame) /\ open # <<>>
  BY DEF Stack
<1>2. PICK fs : fs = Ends(open, r)
  OBVIOUS
<1>3. /\ fs \in Seq(Frame) /\ Len(fs) = Len(open)
      /\ \A i \in 1..Len(open) : /\ fs[i].kind = open[i].kind /\ fs[i].back = open[i].back
                                 /\ fs[i].out = open[i].out /\ fs[i].cond = open[i].cond
                                 /\ fs[i].ends = open[i].ends
  BY <1>1, <1>2, EndsShape
<1>. QED BY <1>2, <1>3, FlowStays

LEMMA FlowOpens ==
  ASSUME Stack, FormInv, NEW I, FlowAt(ir, flow, pend, open, I),
         NEW s, FirstsKept(ir, s), NEW J, Same(I, J, Unplaced(ir)),
         NEW f, NEW p, Net(s, J, f), J[Loc(s)] = p, NEW g \in Frame, Waits(Codes(s), J, g)
  PROVE  FlowAt(s, f, p, Append(open, g), J)
<1>1. PICK fs : fs = Append(open, g)
  OBVIOUS
<1>2. /\ Len(open) \in Nat /\ DOMAIN open = 1..Len(open) /\ DOMAIN fs = 1..(Len(open) + 1)
      /\ fs[Len(open) + 1] = g /\ \A i \in 1..Len(open) : fs[i] = open[i]
  <2>1. open \in Seq(Frame) /\ Len(open) \in Nat /\ DOMAIN open = 1..Len(open)
    BY TopShape DEF Stack
  <2>2. /\ fs \in Seq(Frame) /\ Len(fs) = Len(open) + 1
        /\ fs[Len(open) + 1] = g /\ \A i \in 1..Len(open) : fs[i] = open[i]
    BY <1>1, <2>1, AppendProperties
  <2>. QED BY <2>1, <2>2, LenProperties
<1>3. ASSUME NEW i \in DOMAIN fs PROVE Waits(Codes(s), J, fs[i])
  <2>1. CASE i = Len(open) + 1
    BY <1>2, <2>1
  <2>2. CASE i # Len(open) + 1
    <3>1. i \in 1..Len(open) /\ fs[i] = open[i]
      BY <1>2, <1>3, <2>2
    <3>2. Kept(open[i]) \subseteq Unplaced(ir)
      BY <1>2, <3>1 DEF FormInv, Stored
    <3>. QED BY <3>1, <3>2, StillWaits
  <2>. QED BY <2>1, <2>2
<1>. QED BY <1>1, <1>3 DEF FlowAt

(* The construct on top is complete; what it had in store is used.         *)
LEMMA FlowCloses ==
  ASSUME Stack, FormInv, Len(open) > 1, NEW I, FlowAt(ir, flow, pend, open, I),
         NEW s, FirstsKept(ir, s), NEW J, Same(I, J, Unplaced(ir) \ Kept(top)),
         NEW f, NEW p, Net(s, J, f), J[Loc(s)] = p, NEW r \in Returns
  PROVE  FlowAt(s, f, p, Ends(Outer, r), J)
<1>1. PICK fs : fs = Ends(Outer, r)
  OBVIOUS
<1>2. /\ Outer \in Seq(Frame) /\ Len(Outer) = Len(open) - 1 /\ Outer # <<>>
      /\ \A i \in 1..Len(Outer) : Outer[i] = open[i]
  BY OuterShape DEF Stack
<1>3. Len(open) \in Nat /\ DOMAIN open = 1..Len(open) /\ top = open[Len(open)]
  BY TopShape DEF top
<1>4. /\ fs \in Seq(Frame) /\ Len(fs) = Len(Outer)
      /\ \A i \in 1..Len(Outer) : /\ fs[i].kind = Outer[i].kind /\ fs[i].back = Outer[i].back
                                  /\ fs[i].out = Outer[i].out /\ fs[i].cond = Outer[i].cond
                                  /\ fs[i].ends = Outer[i].ends
  <2>1. PICK gs \in Seq(Frame) : gs = Outer
    BY <1>2
  <2>2. gs # <<>> /\ r \in Returns
    BY <1>2, <2>1
  <2>3. /\ Ends(gs, r) \in Seq(Frame) /\ Len(Ends(gs, r)) = Len(gs)
        /\ \A i \in 1..Len(gs) : /\ Ends(gs, r)[i].kind = gs[i].kind /\ Ends(gs, r)[i].back = gs[i].back
                                  /\ Ends(gs, r)[i].out = gs[i].out /\ Ends(gs, r)[i].cond = gs[i].cond
                                  /\ Ends(gs, r)[i].ends = gs[i].ends
    BY ONLY <2>1, <2>2, EndsShape
  <2>. QED BY <1>1, <2>1, <2>3
<1>5. ASSUME NEW i \in DOMAIN fs PROVE Waits(Codes(s), J, fs[i])
  <2>1. i \in 1..Len(Outer) /\ i \in 1..Len(open) /\ i # Len(open) /\ Len(open) \in 1..Len(open)
    <3>1. DOMAIN fs = 1..Len(Outer)
      BY <1>4, LenProperties
    <3>. QED BY <1>2, <1>3, <1>5, <3>1
  <2>2. Kept(open[i]) \subseteq Unplaced(ir) \ Kept(top)
    BY <1>3, <2>1 DEF FormInv, Stored
  <2>3. Outer[i] = open[i]
    BY <1>2, <2>1
  <2>. QED BY <1>4, <2>1, <2>2, <2>3, StillWaits
<1>. QED BY <1>1, <1>5 DEF FlowAt

(* The innermost loop is that of the last exit.                            *)
LEMMA InnermostIs ==
  ASSUME Stack, loopLevel > 0
  PROVE  /\ InnermostLoop \in 1..Len(open) /\ open[InnermostLoop].kind = "loop"
         /\ loopExits[Len(loopExits)] = open[InnermostLoop].out
<1>1. /\ open \in Seq(Frame) /\ loopLevel = Cardinality(LoopsOf(open)) /\ Len(loopExits) = loopLevel
      /\ \A i \in LoopsOf(open) : loopExits[Cardinality(Upto(open, i))] = open[i].out
  BY DEF Stack, ExitsMatch
<1>2. LoopsOf(open) # {}
  <2>1. loopLevel = Cardinality(LoopsOf(open)) /\ loopLevel > 0
    BY <1>1
  <2>. QED BY <2>1, FS_EmptySet
<1>3. DOMAIN open = 1..Len(open) /\ Len(open) \in Nat
  BY <1>1, LenProperties
<1>4. \E i \in DOMAIN open : /\ open[i].kind = "loop"
                             /\ \A j \in DOMAIN open : j > i => open[j].kind # "loop"
  <2>1. PICK i \in LoopsOf(open) : \A j \in LoopsOf(open) : j <= i
    BY <1>1, <1>2, InnermostExists
  <2>2. ASSUME NEW j \in DOMAIN open, j > i PROVE open[j].kind # "loop"
    <3>1. open[j].kind = "loop" => j <= i
      BY <2>1 DEF LoopsOf
    <3>2. i \in DOMAIN open
      BY <2>1 DEF LoopsOf
    <3>. QED BY <1>3, <2>2, <3>1, <3>2
  <2>. QED BY <2>1, <2>2 DEF LoopsOf
<1>5. PICK k : k = InnermostLoop
  OBVIOUS
<1>6. k \in DOMAIN open /\ open[k].kind = "loop" /\ \A j \in DOMAIN open : j > k => open[j].kind # "loop"
  BY <1>4, <1>5 DEF InnermostLoop
<1>7. Upto(open, k) = LoopsOf(open) /\ k \in LoopsOf(open)
  <2>1. ASSUME NEW j \in LoopsOf(open) PROVE j <= k
    <3>1. j \in DOMAIN open /\ open[j].kind = "loop"
      BY <2>1 DEF LoopsOf
    <3>. QED BY <1>3, <1>6, <3>1
  <2>. QED BY <1>6, <2>1 DEF Upto, LoopsOf
<1>. QED BY <1>1, <1>3, <1>5, <1>6, <1>7

LEMMA BreakEnds ==
  ASSUME open \in Seq(Frame), pend \in SUBSET Place, NEW k, k = InnermostLoop, k \in 1..Len(open),
         NEW fs, fs = [open EXCEPT ![InnermostLoop].ends = @ \cup pend]
  PROVE  /\ \A i \in 1..Len(open) : fs[i].cond = open[i].cond
         /\ fs[k].ends = open[k].ends \cup pend
<1>1. open[k] \in Frame
  BY ElementOfSeq
<1>2. PICK g : g = [open[k] EXCEPT !.ends = @ \cup pend]
  OBVIOUS
<1>3. g.cond = open[k].cond /\ g.ends = open[k].ends \cup pend
  BY <1>1, <1>2 DEF Frame
<1>4. fs = [open EXCEPT ![k] = g]
  BY <1>2
<1>5. open \in [1..Len(open) -> Frame]
  BY LenProperties
<1>. QED BY <1>3, <1>4, <1>5

(* Blocks that are in no place yet, or to be filled, are empty.            *)
LEMMA Idle ==
  ASSUME NEW s, Sound(s), NEW E, Tidy(s, E)
  PROVE  \A b \in 1..Len(s.blocks) :
           b \in Unplaced(s) \/ (b \in E /\ b # s.at) => b # s.at /\ Codes(s)[b] = <<>>
<1>1. s.at \notin Unplaced(s) /\ Tidy(s, E) /\ Good(s)
  BY CodeTypes DEF Sound, Good
<1>2. SUFFICES ASSUME NEW b \in 1..Len(s.blocks), b \in Unplaced(s) \/ (b \in E /\ b # s.at)
               PROVE  b # s.at /\ Codes(s)[b] = <<>>
  OBVIOUS
<1>3. b # s.at
  BY <1>1, <1>2
<1>4. b \in Unplaced(s) <=> b \notin InPlace(s)
  BY <1>1, CodeTypes
<1>5. s.blocks[b].code = <<>>
  BY <1>1, <1>2, <1>3, <1>4 DEF Tidy
<1>. QED BY <1>1, <1>3, <1>5, CodesAre

(* A statement starts that may be reached.                                 *)
LEMMA FlowStarts ==
  ASSUME LoweringInv, FormInv, FlowInv, phase = "visiting",
         clean' = (clean /\ top.done # "ret"), clean'
  PROVE  /\ Stack /\ Good(ir) /\ Sound(ir) /\ Run(ir, {}, TRUE) /\ Unplaced(ir) \subseteq 1..Len(ir.blocks)
         /\ \A b \in Unplaced(ir) : b # ir.at /\ Codes(ir)[b] = <<>>
         /\ \E I : FlowAt(ir, flow, pend, open, I)
<1>1. Run(ir, {}, clean') /\ Sound(ir) /\ Stack /\ Good(ir)
  BY FormStarts DEF LoweringInv, Stack
<1>2. Run(ir, {}, TRUE) /\ Tidy(ir, {})
  BY <1>1 DEF Run
<1>3. Unplaced(ir) \subseteq 1..Len(ir.blocks)
  BY DEF Unplaced
<1>4. \A b \in Unplaced(ir) : b # ir.at /\ Codes(ir)[b] = <<>>
  BY <1>1, <1>2, <1>3, Idle
<1>5. \E I : FlowAt(ir, flow, pend, open, I)
  BY DEF FlowInv
<1>. QED BY <1>1, <1>2, <1>3, <1>4, <1>5

LEMMA FirstsSame == ASSUME NEW s PROVE FirstsKept(s, s)
BY DEF FirstsKept

LEMMA FlowEmpty == ASSUME LoweringInv, FormInv, FlowInv, Empty PROVE FlowInv'
<1>. SUFFICES ASSUME clean' PROVE \E I : FlowAt(ir', flow', pend', open', I)
  BY DEF FlowInv
<1>1. /\ UNCHANGED <<ir, flow, pend>> /\ phase = "visiting" /\ open' = Ends(open, "noret")
      /\ clean' = (clean /\ top.done # "ret") /\ "noret" \in Returns
  BY DEF Empty, AtStatement, Returns
<1>2. PICK I : FlowAt(ir, flow, pend, open, I)
  BY <1>1, FlowStarts
<1>3. Stack
  BY DEF LoweringInv
<1>4. FirstsKept(ir, ir) /\ Same(I, I, Unplaced(ir)) /\ Net(ir, I, flow) /\ I[Loc(ir)] = pend
  BY <1>2, FirstsSame DEF Same, FlowAt
<1>5. FlowAt(ir, flow, pend, Ends(open, "noret"), I)
  BY <1>1, <1>2, <1>3, <1>4, FlowComplete
<1>. QED BY <1>1, <1>5

(* An expression is evaluated next.                                        *)
Evaluated(I, p, s) ==
  \E J : /\ Net(s, J, flow \cup FlowTo(p)) /\ J[Loc(s)] = {p}
         /\ Same(I, J, 1..Len(ir.blocks) \ {ir.at}) /\ Same(I, J, Unplaced(ir))

LEMMA FlowEvaluates ==
  ASSUME Good(ir), Unplaced(ir) \subseteq 1..Len(ir.blocks), \A b \in Unplaced(ir) : b # ir.at,
         NEW I, FlowAt(ir, flow, pend, open, I), NEW e, NEW s, s = Eval(ir, e), NEW p, p = Loc(ir)
  PROVE  FirstsKept(ir, s) /\ Good(s) /\ Evaluated(I, p, s)
<1>1. Net(ir, I, flow) /\ I[p] = pend
  BY DEF FlowAt
<1>2. FirstsKept(ir, s) /\ Stepped(ir, I, flow, p, s) /\ Good(s)
  BY <1>1, EvalNet, EvalGood
<1>3. PICK J : /\ Net(s, J, flow \cup (I[p] \X {p})) /\ J[Loc(s)] = {p}
               /\ Same(I, J, 1..Len(ir.blocks) \ {ir.at})
  BY <1>2 DEF Stepped
<1>4. Same(I, J, Unplaced(ir))
  BY <1>3 DEF Same
<1>. QED BY <1>1, <1>2, <1>3, <1>4 DEF FlowTo, Evaluated

LEMMA FlowSimple == ASSUME LoweringInv, FormInv, FlowInv, NEW e, Simple(e) PROVE FlowInv'
<1>. SUFFICES ASSUME clean' PROVE \E I : FlowAt(ir', flow', pend', open', I)
  BY DEF FlowInv
<1>1. PICK p : p = Loc(ir)
  OBVIOUS
<1>2. PICK s : s = Eval(ir, e)
  OBVIOUS
<1>3. /\ ir' = s /\ flow' = flow \cup FlowTo(p) /\ pend' = {p} /\ phase = "visiting"
      /\ open' = Ends(open, "noret") /\ clean' = (clean /\ top.done # "ret") /\ "noret" \in Returns
  BY <1>1, <1>2 DEF Simple, Starts, AtStatement, Returns
<1>4. /\ Stack /\ Good(ir) /\ Unplaced(ir) \subseteq 1..Len(ir.blocks)
      /\ \A b \in Unplaced(ir) : b # ir.at
  BY <1>3, FlowStarts
<1>5. PICK I : FlowAt(ir, flow, pend, open, I)
  BY <1>3, FlowStarts
<1>6. FirstsKept(ir, s) /\ Evaluated(I, p, s)
  BY <1>1, <1>2, <1>4, <1>5, FlowEvaluates
<1>7. PICK J : /\ Net(s, J, flow \cup FlowTo(p)) /\ J[Loc(s)] = {p}
               /\ Same(I, J, 1..Len(ir.blocks) \ {ir.at}) /\ Same(I, J, Unplaced(ir))
  BY <1>6 DEF Evaluated
<1>8. FlowAt(s, flow \cup FlowTo(p), {p}, Ends(open, "noret"), J)
  BY <1>3, <1>4, <1>5, <1>6, <1>7, FlowComplete
<1>. QED BY <1>3, <1>8

(* A return is put at the end; nothing follows it.                         *)
LEMMA PutRet ==
  ASSUME NEW s, Good(s), NEW I, NEW f, Net(s, I, f), NEW t, t = Put(s, Ret)
  PROVE  /\ FirstsKept(s, t) /\ Len(t.blocks) = Len(s.blocks)
         /\ \E K : /\ Net(t, K, f) /\ K[Loc(t)] = {}
                   /\ Joins(I, K, Nat \ {s.at}, {}, I[Loc(s)])
<1>1. PICK i : i = Ret
  OBVIOUS
<1>2. PICK T : T = {}
  OBVIOUS
<1>3. /\ i \in Instr /\ IsTerminator(i) /\ i.to = T /\ T \subseteq 1..Len(s.blocks) /\ t = Put(s, i)
      /\ \A b \in T : b # s.at /\ Target(Codes(s), b)
  BY <1>1, <1>2, OpTypes DEF Ret
<1>4. PICK K : /\ Net(t, K, f \cup (I[Loc(s)] \X Ahead(s, T))) /\ K[Loc(t)] = {}
               /\ Joins(I, K, Nat \ {s.at}, T, I[Loc(s)])
  <2>1. Good(s) /\ Net(s, I, f)
    OBVIOUS
  <2>. QED BY ONLY <1>3, <2>1, PutEnd
<1>5. f \cup (I[Loc(s)] \X Ahead(s, T)) = f
  BY <1>2 DEF Ahead
<1>6. FirstsKept(s, t) /\ Len(t.blocks) = Len(s.blocks)
  BY <1>3, PutCodes, PutGood
<1>. QED BY <1>2, <1>4, <1>5, <1>6

LEMMA FlowReturn == ASSUME LoweringInv, FormInv, FlowInv, NEW e, Return(e) PROVE FlowInv'
<1>. SUFFICES ASSUME clean' PROVE \E I : FlowAt(ir', flow', pend', open', I)
  BY DEF FlowInv
<1>1. PICK p : p = Loc(ir)
  OBVIOUS
<1>2. PICK s : s = Eval(ir, e)
  OBVIOUS
<1>3. /\ ir' = Put(s, Ret) /\ flow' = flow \cup FlowTo(p) /\ pend' = {} /\ phase = "visiting"
      /\ open' = Ends(open, "ret") /\ clean' = (clean /\ top.done # "ret") /\ "ret" \in Returns
  BY <1>1, <1>2 DEF Return, Starts, AtStatement, Returns
<1>4. /\ Stack /\ Good(ir) /\ Sound(ir) /\ Run(ir, {}, TRUE) /\ Unplaced(ir) \subseteq 1..Len(ir.blocks)
      /\ \A b \in Unplaced(ir) : b # ir.at
  BY <1>3, FlowStarts
<1>5. PICK I : FlowAt(ir, flow, pend, open, I)
  BY <1>3, FlowStarts
<1>6. FirstsKept(ir, s) /\ Good(s) /\ Evaluated(I, p, s)
  BY <1>1, <1>2, <1>4, <1>5, FlowEvaluates
<1>7. PICK J : /\ Net(s, J, flow \cup FlowTo(p)) /\ J[Loc(s)] = {p}
               /\ Same(I, J, 1..Len(ir.blocks) \ {ir.at}) /\ Same(I, J, Unplaced(ir))
  BY <1>6 DEF Evaluated
<1>8. PICK t : t = Put(s, Ret)
  OBVIOUS
<1>9. PICK g : g = flow \cup FlowTo(p)
  OBVIOUS
<1>10. /\ Sound(s) /\ Unplaced(ir) \subseteq Unplaced(s) /\ s.at \notin Unplaced(s)
  <2>1. Sound(s) /\ Unplaced(ir) \subseteq Unplaced(s)
    BY <1>2, <1>4, EvalForm
  <2>. QED BY <2>1, CodeTypes DEF Sound, Good
<1>11. PICK K : Net(t, K, g) /\ K[Loc(t)] = {} /\ Joins(J, K, Nat \ {s.at}, {}, J[Loc(s)])
  <2>1. Net(s, J, g) /\ Good(s)
    BY <1>6, <1>7, <1>9
  <2>. QED BY ONLY <1>8, <2>1, PutRet
<1>12. Same(I, K, Unplaced(ir))
  <2>. SUFFICES ASSUME NEW b \in Unplaced(ir) PROVE K[<<b, 1>>] = I[<<b, 1>>]
    BY DEF Same
  <2>1. b \in Nat \ {s.at}
    BY <1>4, <1>10
  <2>. QED BY <1>7, <1>11, <2>1 DEF Same, Joins
<1>13. FirstsKept(ir, t)
  <2>1. Len(ir.blocks) \in Nat /\ Len(s.blocks) \in Nat
    BY <1>4, <1>6, GoodLen
  <2>2. Len(ir.blocks) <= Len(s.blocks)
    BY <1>2, <1>4, <2>1, EvalGood
  <2>3. Net(s, J, g) /\ Good(s)
    BY <1>6, <1>7, <1>9
  <2>4. FirstsKept(s, t)
    BY ONLY <1>8, <2>3, PutRet
  <2>. QED BY <1>6, <2>1, <2>2, <2>4, FirstsTrans
<1>14. FlowAt(t, g, {}, Ends(open, "ret"), K)
  <2>1. K[Loc(t)] = {} /\ Net(t, K, g) /\ Stack /\ FormInv /\ "ret" \in Returns
    BY <1>3, <1>4, <1>11
  <2>. QED BY ONLY <1>5, <1>12, <1>13, <2>1, FlowComplete
<1>. QED BY <1>3, <1>8, <1>9, <1>14

LEMMA FlowOpenBlock == ASSUME LoweringInv, FormInv, FlowInv, OpenBlock PROVE FlowInv'
<1>. SUFFICES ASSUME clean' PROVE \E I : FlowAt(ir', flow', pend', open', I)
  BY DEF FlowInv
<1>1. /\ UNCHANGED <<ir, flow, pend>> /\ phase = "visiting" /\ open' = Append(open, Block)
      /\ clean' = (clean /\ top.done # "ret")
  BY DEF OpenBlock, Starts, AtStatement
<1>2. PICK I : FlowAt(ir, flow, pend, open, I)
  BY <1>1, FlowStarts
<1>3. Stack
  BY DEF LoweringInv
<1>4. FirstsKept(ir, ir) /\ Same(I, I, Unplaced(ir)) /\ Net(ir, I, flow) /\ I[Loc(ir)] = pend
  BY <1>2, FirstsSame DEF Same, FlowAt
<1>5. Block \in Frame /\ Block.kind = "block"
  BY DEF Block, F, Frame, Entry, Place, Returns
<1>6. Waits(Codes(ir), I, Block)
  BY <1>5 DEF Waits
<1>7. FlowAt(ir, flow, pend, Append(open, Block), I)
  BY <1>2, <1>3, <1>4, <1>5, <1>6, FlowOpens
<1>. QED BY <1>1, <1>7

LEMMA FlowCloseBlock == ASSUME LoweringInv, FormInv, FlowInv, CloseBlock PROVE FlowInv'
<1>. SUFFICES ASSUME clean' PROVE \E I : FlowAt(ir', flow', pend', open', I)
  BY DEF FlowInv
<1>1. PICK r : r = IF top.done = "ret" THEN "ret" ELSE "noret"
  OBVIOUS
<1>2. /\ UNCHANGED <<ir, flow, pend, clean>> /\ phase = "visiting" /\ open' = Ends(Outer, r)
      /\ Len(open) > 1 /\ top.kind = "block" /\ r \in Returns
  BY <1>1 DEF CloseBlock, Returns
<1>3. PICK I : FlowAt(ir, flow, pend, open, I)
  BY <1>2 DEF FlowInv
<1>4. Stack
  BY DEF LoweringInv
<1>5. /\ FirstsKept(ir, ir) /\ Same(I, I, Unplaced(ir) \ Kept(top)) /\ Net(ir, I, flow)
      /\ I[Loc(ir)] = pend
  BY <1>3, FirstsSame DEF Same, FlowAt
<1>6. FlowAt(ir, flow, pend, Ends(Outer, r), I)
  BY <1>2, <1>3, <1>4, <1>5, FlowCloses
<1>. QED BY <1>2, <1>6

(* The branch out of the loop is to the block after it; the next block has *)
(* nothing before it.                                                      *)
LEMMA FlowBreak == ASSUME LoweringInv, FormInv, FlowInv, Break PROVE FlowInv'
<1>. SUFFICES ASSUME clean' PROVE \E I : FlowAt(ir', flow', pend', open', I)
  BY DEF FlowInv
<1>1. PICK exit : exit = loopExits[Len(loopExits)]
  OBVIOUS
<1>2. PICK s : s = Put(ir, Br({exit}))
  OBVIOUS
<1>3. PICK fs : fs = [open EXCEPT ![InnermostLoop].ends = @ \cup pend]
  OBVIOUS
<1>4. PICK k : k = InnermostLoop
  OBVIOUS
<1>5. PICK c : c = Create(s, TRUE)
  OBVIOUS
<1>6. PICK b : b = Fresh(s)
  OBVIOUS
<1>7. PICK t : t = SetInsertPoint(c, b)
  OBVIOUS
<1>8. /\ ir' = t /\ UNCHANGED flow /\ pend' = {} /\ phase = "visiting" /\ loopLevel > 0
      /\ open' = Ends(fs, "noret") /\ clean' = (clean /\ top.done # "ret") /\ "noret" \in Returns
  BY <1>1, <1>2, <1>3, <1>5, <1>6, <1>7 DEF Break, Starts, AtStatement, Returns
<1>9. /\ Stack /\ Good(ir) /\ Unplaced(ir) \subseteq 1..Len(ir.blocks) /\ Len(ir.blocks) \in Nat
      /\ \A x \in Unplaced(ir) : x # ir.at /\ Codes(ir)[x] = <<>>
      /\ open \in Seq(Frame) /\ pend \in SUBSET Place
  BY <1>8, FlowStarts, GoodLen DEF LoweringInv, Rest, Stack
<1>10. PICK I : FlowAt(ir, flow, pend, open, I)
  BY <1>8, FlowStarts
<1>11. /\ k \in 1..Len(open) /\ open[k].kind = "loop" /\ exit = open[k].out
  BY <1>1, <1>4, <1>8, <1>9, InnermostIs
<1>12. DOMAIN open = 1..Len(open) /\ Len(open) \in Nat \ {0}
  BY <1>9, TopShape
<1>13. Kept(open[k]) = {exit} /\ exit \in Unplaced(ir)
  BY <1>11, <1>12 DEF FormInv, Stored, Kept
<1>14. /\ Net(ir, I, flow) /\ I[Loc(ir)] = pend
       /\ \A i \in DOMAIN open : Waits(Codes(ir), I, open[i])
  BY <1>10 DEF FlowAt
<1>15. PICK J : /\ Net(s, J, flow) /\ J[Loc(s)] = {}
                /\ Joins(I, J, Nat \ {ir.at}, {exit}, I[Loc(ir)])
  <2>1. {exit} \subseteq 1..Len(ir.blocks) /\ \A x \in {exit} : x # ir.at /\ Codes(ir)[x] = <<>>
    BY <1>9, <1>13
  <2>. QED BY <1>2, <1>9, <1>14, <2>1, PutBranch
<1>16. /\ Good(s) /\ FirstsKept(ir, s) /\ Len(s.blocks) = Len(ir.blocks)
  <2>1. Br({exit}) \in Instr
    BY <1>9, <1>13, OpTypes
  <2>. QED BY <1>2, <1>9, <2>1, PutCodes, PutGood
<1>17. /\ Net(c, J, flow) /\ J[<<b, 1>>] = {} /\ Codes(c)[b] = <<>> /\ FirstsKept(s, c)
       /\ Good(c) /\ Len(c.blocks) = Len(s.blocks) + 1 /\ b = Len(s.blocks) + 1
  <2>1. TRUE \in BOOLEAN
    OBVIOUS
  <2>. QED BY <1>5, <1>6, <1>15, <1>16, <2>1, NetCreate, CreateCodes, CreateGood, GoodLen
<1>18. Net(t, J, flow) /\ Loc(t) = <<b, 1>> /\ Codes(t) = Codes(c)
  <2>1. b \in 1..Len(c.blocks)
    BY <1>9, <1>16, <1>17
  <2>. QED BY <1>7, <1>17, <2>1, NetPlace
<1>19. FirstsKept(ir, t)
  <2>1. FirstsKept(ir, c)
    BY <1>9, <1>16, <1>17, FirstsTrans
  <2>. QED BY <1>18, <2>1 DEF FirstsKept
<1>20. Same(I, J, Unplaced(ir) \ {exit}) /\ J[<<exit, 1>>] = I[<<exit, 1>>] \cup pend
  <2>1. ASSUME NEW x \in Unplaced(ir) PROVE x \in Nat \ {ir.at}
    BY <1>9, <2>1
  <2>2. \A x \in Unplaced(ir) : J[<<x, 1>>] = IF x \in {exit} THEN I[<<x, 1>>] \cup pend ELSE I[<<x, 1>>]
    BY <1>14, <1>15, <2>1 DEF Joins
  <2>. QED BY <1>13, <2>2 DEF Same
<1>21. /\ fs \in Seq(Frame) /\ Len(fs) = Len(open) /\ fs # <<>>
       /\ \A i \in 1..Len(open) :
            /\ fs[i].kind = open[i].kind /\ fs[i].back = open[i].back /\ fs[i].out = open[i].out
            /\ i # k => fs[i].ends = open[i].ends
            /\ fs[i].cond = open[i].cond
       /\ fs[k].ends = open[k].ends \cup pend
  <2>1. /\ fs \in Seq(Frame) /\ Len(fs) = Len(open)
        /\ \A i \in 1..Len(open) :
             /\ fs[i].kind = open[i].kind /\ fs[i].back = open[i].back /\ fs[i].out = open[i].out
             /\ i # k => fs[i].ends = open[i].ends
    BY <1>3, <1>4, <1>9, BreakShape
  <2>2. (\A i \in 1..Len(open) : fs[i].cond = open[i].cond) /\ fs[k].ends = open[k].ends \cup pend
    BY <1>3, <1>4, <1>9, <1>11, BreakEnds
  <2>. QED BY <1>12, <2>1, <2>2, EmptySeq
<1>22. PICK gs : gs = Ends(fs, "noret")
  OBVIOUS
<1>23. /\ gs \in Seq(Frame) /\ Len(gs) = Len(open)
       /\ \A i \in 1..Len(open) :
            /\ gs[i].kind = fs[i].kind /\ gs[i].back = fs[i].back /\ gs[i].out = fs[i].out
            /\ gs[i].cond = fs[i].cond /\ gs[i].ends = fs[i].ends
  BY <1>8, <1>21, <1>22, EndsShape
<1>24. ASSUME NEW i \in DOMAIN gs PROVE Waits(Codes(t), J, gs[i])
  <2>1. i \in 1..Len(open)
    BY <1>23, <1>24, LenProperties
  <2>2. CASE i = k
    <3>1. Waits(Codes(ir), I, open[k])
      BY <1>11, <1>12, <1>14
    <3>2. /\ I[<<exit, 1>>] = open[k].ends /\ open[k].cond = <<open[k].back, 1>>
          /\ First(Codes(ir), open[k].back) /\ ~Plain(Codes(ir)[open[k].back])
      BY <1>11, <3>1 DEF Waits
    <3>3. open[k].back \in 1..Len(ir.blocks)
      BY <1>9, <1>11, <1>12 DEF Stack, HasBlocks
    <3>4. First(Codes(t), open[k].back) /\ ~Plain(Codes(t)[open[k].back])
      BY <1>19, <3>2, <3>3 DEF FirstsKept
    <3>5. /\ gs[k].kind = "loop" /\ gs[k].back = open[k].back /\ gs[k].out = exit
          /\ gs[k].cond = open[k].cond /\ gs[k].ends = open[k].ends \cup pend
      BY <1>11, <1>21, <1>23
    <3>. QED BY <1>20, <2>2, <3>2, <3>4, <3>5 DEF Waits
  <2>3. CASE i # k
    <3>1. Kept(open[i]) \subseteq Unplaced(ir) \ {exit}
      BY <1>11, <1>12, <1>13, <2>1, <2>3 DEF FormInv, Stored
    <3>2. /\ gs[i].kind = open[i].kind /\ gs[i].back = open[i].back /\ gs[i].out = open[i].out
          /\ gs[i].cond = open[i].cond /\ gs[i].ends = open[i].ends
      BY <1>21, <1>23, <2>1, <2>3
    <3>. QED BY <1>9, <1>10, <1>19, <1>20, <2>1, <3>1, <3>2, StillWaits
  <2>. QED BY <2>2, <2>3
<1>25. FlowAt(t, flow, {}, gs, J)
  BY <1>17, <1>18, <1>24 DEF FlowAt
<1>. QED BY <1>8, <1>22, <1>25

(* The three blocks of an if or a loop have nothing before them.           *)
LEMMA ThreeNet ==
  ASSUME NEW s, Good(s), NEW I, NEW f, Net(s, I, f), NEW n, n = Fresh(s),
         NEW t, t = Create(Create(Create(s, TRUE), FALSE), FALSE)
  PROVE  /\ Net(t, I, f) /\ Loc(t) = Loc(s) /\ Good(t) /\ Len(t.blocks) = Len(s.blocks) + 3
         /\ FirstsKept(s, t)
         /\ I[<<n, 1>>] = {} /\ I[<<n + 1, 1>>] = {} /\ I[<<n + 2, 1>>] = {}
<1>1. TRUE \in BOOLEAN /\ FALSE \in BOOLEAN
  OBVIOUS
<1>2. PICK t1 : t1 = Create(s, TRUE)
  OBVIOUS
<1>3. /\ Net(t1, I, f) /\ Loc(t1) = Loc(s) /\ Good(t1) /\ Len(t1.blocks) = Len(s.blocks) + 1
      /\ FirstsKept(s, t1) /\ I[<<n, 1>>] = {} /\ n = Len(s.blocks) + 1 /\ Len(s.blocks) \in Nat
  BY <1>1, <1>2, NetCreate, CreateCodes, CreateGood, GoodLen
<1>4. Fresh(t1) = n + 1
  BY <1>3, GoodLen
<1>5. PICK t2 : t2 = Create(t1, FALSE)
  OBVIOUS
<1>6. /\ Net(t2, I, f) /\ Loc(t2) = Loc(t1) /\ Good(t2) /\ Len(t2.blocks) = Len(t1.blocks) + 1
      /\ FirstsKept(t1, t2) /\ I[<<n + 1, 1>>] = {}
  BY <1>1, <1>3, <1>4, <1>5, NetCreate, CreateCodes, CreateGood
<1>7. Fresh(t2) = n + 2
  BY <1>3, <1>6, GoodLen
<1>8. t = Create(t2, FALSE)
  BY <1>2, <1>5
<1>9. /\ Net(t, I, f) /\ Loc(t) = Loc(t2) /\ Good(t) /\ Len(t.blocks) = Len(t2.blocks) + 1
      /\ FirstsKept(t2, t) /\ I[<<n + 2, 1>>] = {}
  BY ONLY <1>1, <1>6, <1>7, <1>8, NetCreate, CreateCodes, CreateGood
<1>10. /\ Len(s.blocks) \in Nat /\ Len(t1.blocks) \in Nat /\ Len(t2.blocks) \in Nat /\ Len(t.blocks) \in Nat
       /\ Len(s.blocks) <= Len(t1.blocks) /\ Len(t1.blocks) <= Len(t2.blocks)
       /\ Len(s.blocks) <= Len(t2.blocks) /\ Len(t2.blocks) <= Len(t.blocks)
       /\ Len(t.blocks) = Len(s.blocks) + 3
  BY ONLY <1>3, <1>6, <1>9
<1>11. FirstsKept(s, t)
  <2>1. FirstsKept(s, t2)
    BY ONLY <1>3, <1>6, <1>10, FirstsTrans
  <2>. QED BY ONLY <1>9, <1>10, <2>1, FirstsTrans
<1>. QED BY <1>3, <1>6, <1>9, <1>10, <1>11

LEMMA FlowIf == ASSUME LoweringInv, FormInv, FlowInv, NEW e, If(e) PROVE FlowInv'
<1>. SUFFICES ASSUME clean' PROVE \E I : FlowAt(ir', flow', pend', open', I)
  BY DEF FlowInv
<1>1. PICK p : p = Loc(ir)
  OBVIOUS
<1>2. PICK s : s = Eval(ir, e)
  OBVIOUS
<1>3. PICK n : n = Fresh(s)
  OBVIOUS
<1>4. PICK m : m = Create(Create(Create(s, TRUE), FALSE), FALSE)
  OBVIOUS
<1>5. PICK c : c = Put(m, Br({n, n + 1}))
  OBVIOUS
<1>6. PICK t : t = SetInsertPoint(c, n)
  OBVIOUS
<1>7. PICK h : h = F("then", n + 1, n + 2, p, {}, "none")
  OBVIOUS
<1>8. /\ ir' = t /\ flow' = flow \cup FlowTo(p) /\ pend' = {p} /\ phase = "visiting"
      /\ open' = Append(open, h) /\ clean' = (clean /\ top.done # "ret")
  BY <1>1, <1>2, <1>3, <1>4, <1>5, <1>6, <1>7 DEF If, Starts, AtStatement
<1>9. /\ Stack /\ Good(ir) /\ Sound(ir) /\ Run(ir, {}, TRUE) /\ Unplaced(ir) \subseteq 1..Len(ir.blocks)
      /\ \A b \in Unplaced(ir) : b # ir.at
  BY <1>8, FlowStarts
<1>10. PICK I : FlowAt(ir, flow, pend, open, I)
  BY <1>8, FlowStarts
<1>11. FirstsKept(ir, s) /\ Good(s) /\ Evaluated(I, p, s)
  BY <1>1, <1>2, <1>9, <1>10, FlowEvaluates
<1>12. PICK J : /\ Net(s, J, flow \cup FlowTo(p)) /\ J[Loc(s)] = {p}
                /\ Same(I, J, 1..Len(ir.blocks) \ {ir.at}) /\ Same(I, J, Unplaced(ir))
  BY <1>11 DEF Evaluated
<1>13. PICK g : g = flow \cup FlowTo(p)
  OBVIOUS
<1>14. /\ Sound(s) /\ Unplaced(ir) \subseteq Unplaced(s) /\ Run(s, {}, TRUE)
  BY <1>2, <1>9, EvalForm
<1>15. /\ Sound(m) /\ m.at = s.at /\ Unplaced(m) = Unplaced(s) \cup {n + 1, n + 2}
       /\ n \in InPlace(m) /\ Run(m, {} \cup {n}, TRUE) /\ n \in Nat /\ n # s.at
       /\ (Unplaced(s) \cup InPlace(s)) \cap {n, n + 1, n + 2} = {}
  BY <1>3, <1>4, <1>14, ThreeBlocks
<1>16. /\ Net(m, J, g) /\ Loc(m) = Loc(s) /\ Good(m) /\ Len(m.blocks) = Len(s.blocks) + 3
       /\ FirstsKept(s, m)
       /\ J[<<n, 1>>] = {} /\ J[<<n + 1, 1>>] = {} /\ J[<<n + 2, 1>>] = {}
  <2>1. Net(s, J, g) /\ Good(s)
    BY <1>11, <1>12, <1>13
  <2>. QED BY ONLY <1>3, <1>4, <2>1, ThreeNet
<1>17. /\ n \in 1..Len(m.blocks) /\ n + 1 \in 1..Len(m.blocks)
       /\ n # m.at /\ n + 1 # m.at /\ Codes(m)[n] = <<>> /\ Codes(m)[n + 1] = <<>>
  <2>1. n \in 1..Len(m.blocks) /\ n + 1 \in 1..Len(m.blocks)
    BY <1>15 DEF InPlace, Unplaced
  <2>2. Tidy(m, {} \cup {n}) /\ n + 1 \in Unplaced(m) /\ n # m.at
    BY <1>15 DEF Run
  <2>. QED BY <1>15, <2>1, <2>2, Idle
<1>18. PICK K : /\ Net(c, K, g) /\ K[Loc(c)] = {}
                /\ Joins(J, K, Nat \ {m.at}, {n, n + 1}, J[Loc(m)])
  <2>1. {n, n + 1} \subseteq 1..Len(m.blocks) /\ \A x \in {n, n + 1} : x # m.at /\ Codes(m)[x] = <<>>
    BY <1>17
  <2>. QED BY <1>5, <1>16, <2>1, PutBranch
<1>19. /\ Good(c) /\ FirstsKept(m, c) /\ Len(c.blocks) = Len(m.blocks) /\ Codes(c)[n] = <<>>
  <2>1. {n, n + 1} \in SUBSET Nat
    BY <1>15
  <2>2. Br({n, n + 1}) \in Instr
    BY <2>1, OpTypes
  <2>. QED BY <1>5, <1>16, <1>17, <2>2, PutCodes, PutGood
<1>20. Net(t, K, g) /\ Loc(t) = <<n, 1>> /\ Codes(t) = Codes(c)
  <2>1. n \in 1..Len(c.blocks)
    BY <1>17, <1>19
  <2>. QED BY <1>6, <1>18, <1>19, <2>1, NetPlace
<1>21. \A x \in Nat : x # s.at => K[<<x, 1>>] = IF x \in {n, n + 1} THEN J[<<x, 1>>] \cup {p} ELSE J[<<x, 1>>]
  BY <1>12, <1>15, <1>16, <1>18 DEF Joins
<1>22. K[<<n, 1>>] = {p} /\ K[<<n + 1, 1>>] = {p} /\ K[<<n + 2, 1>>] = {}
  <2>1. n \in Nat /\ n + 1 \in Nat /\ n + 2 \in Nat /\ n + 2 \notin {n, n + 1}
    BY <1>15
  <2>2. n # s.at /\ n + 1 # s.at /\ n + 2 # s.at
    BY <1>14, <1>15 DEF Sound
  <2>. QED BY <1>16, <1>21, <2>1, <2>2
<1>23. Same(I, K, Unplaced(ir))
  <2>. SUFFICES ASSUME NEW b \in Unplaced(ir) PROVE K[<<b, 1>>] = I[<<b, 1>>]
    BY DEF Same
  <2>1. b \in Unplaced(s) /\ b \in Nat
    BY <1>9, <1>14
  <2>2. b # s.at
    BY <1>14, <2>1, CodeTypes DEF Sound, Good
  <2>3. b \notin {n, n + 1}
    BY <1>15, <2>1
  <2>4. J[<<b, 1>>] = I[<<b, 1>>]
    BY <1>12 DEF Same
  <2>. QED BY <1>21, <2>1, <2>2, <2>3, <2>4
<1>24. FirstsKept(ir, t)
  <2>1. /\ Len(ir.blocks) \in Nat /\ Len(s.blocks) \in Nat /\ Len(m.blocks) \in Nat
        /\ Len(ir.blocks) <= Len(s.blocks) /\ Len(s.blocks) <= Len(m.blocks)
    BY <1>2, <1>9, <1>11, <1>16, GoodLen, EvalGood
  <2>2. FirstsKept(ir, m)
    BY <1>11, <1>16, <2>1, FirstsTrans
  <2>3. FirstsKept(ir, c)
    <3>1. Len(ir.blocks) <= Len(m.blocks)
      BY <2>1
    <3>. QED BY <1>19, <2>1, <2>2, <3>1, FirstsTrans
  <2>. QED BY <1>20, <2>3 DEF FirstsKept
<1>25. /\ h \in Frame /\ h.kind = "then" /\ h.back = n + 1 /\ h.out = n + 2 /\ h.cond = p
  <2>1. n + 1 \in Nat /\ n + 2 \in Nat /\ p \in Place
    BY <1>1, <1>9, <1>15, LocPlace
  <2>2. h.kind = "then" /\ h.back = n + 1 /\ h.out = n + 2 /\ h.cond = p
    BY <1>7 DEF F
  <2>. QED BY <1>7, <2>1, <2>2, FrameTypes
<1>26. Waits(Codes(t), K, h)
  BY <1>22, <1>25 DEF Waits
<1>27. FlowAt(t, g, {p}, Append(open, h), K)
  <2>1. K[Loc(t)] = {p}
    BY <1>20, <1>22
  <2>. QED BY <1>9, <1>10, <1>20, <1>23, <1>24, <1>25, <1>26, <2>1, FlowOpens
<1>. QED BY <1>8, <1>13, <1>27

(* Control is at the end of the then or else statement, or nowhere.        *)
Merged(I, m) ==
  \E J : /\ Net(m, J, flow)
         /\ Joins(I, J, Nat \ {ir.at}, {top.out}, pend)

LEMMA FlowToMerge ==
  ASSUME LoweringInv, RetInv, FormInv, phase = "visiting", top.kind \in {"then", "else"}, clean,
         NEW I, FlowAt(ir, flow, pend, open, I), NEW m, m = ToMerge
  PROVE  /\ Sound(m) /\ Unplaced(m) = Unplaced(ir) /\ Tidy(m, {}) /\ Shut(m, {}, TRUE)
         /\ FirstsKept(ir, m) /\ Good(ir) /\ Len(m.blocks) = Len(ir.blocks) /\ Merged(I, m)
         /\ m.at = ir.at /\ ir.at \notin Unplaced(ir)
         /\ top.out \in Unplaced(ir) /\ Stack
<1>1. Stack /\ Good(ir) /\ Sound(ir) /\ Net(ir, I, flow) /\ I[Loc(ir)] = pend
  BY DEF LoweringInv, Stack, FormInv, FlowAt
<1>2. Sound(m) /\ Unplaced(m) = Unplaced(ir) /\ Shut(m, {}, TRUE) /\ Tidy(m, {})
  <2>1. Sound(m) /\ Unplaced(m) = Unplaced(ir) /\ Shut(m, {}, clean)
    BY <1>1, ToMergeForm
  <2>. QED BY <2>1 DEF Shut
<1>3. Len(open) > 1 /\ top.out \in Unplaced(ir)
  <2>1. Len(open) > 1
    BY <1>1, TopShape
  <2>. QED BY <1>1, <2>1, StoredOuter DEF FormInv, Kept
<1>4. ir.at \notin Unplaced(ir)
  BY <1>1, CodeTypes DEF Sound, Good
<1>5. CASE top.done = "ret"
  <2>1. m = ir /\ pend = {}
    BY <1>5 DEF ToMerge, RetInv
  <2>2. Joins(I, I, Nat \ {ir.at}, {top.out}, pend)
    BY <2>1 DEF Joins
  <2>3. Merged(I, m)
    BY <1>1, <2>1, <2>2 DEF Merged
  <2>. QED BY <1>1, <1>2, <1>3, <1>4, <2>1, <2>3, FirstsSame
<1>6. CASE top.done # "ret"
  <2>1. m = Put(ir, Br({top.out})) /\ Run(ir, {}, TRUE) /\ Tidy(ir, {})
    BY <1>6 DEF ToMerge, FormInv, Form, Run
  <2>2. {top.out} \subseteq 1..Len(ir.blocks)
    BY <1>3 DEF Unplaced
  <2>3. \A x \in {top.out} : x # ir.at /\ Codes(ir)[x] = <<>>
    BY <1>1, <1>3, <2>1, <2>2, Idle
  <2>4. PICK J : /\ Net(m, J, flow) /\ J[Loc(m)] = {}
                 /\ Joins(I, J, Nat \ {ir.at}, {top.out}, I[Loc(ir)])
    BY ONLY <1>1, <2>1, <2>2, <2>3, PutBranch
  <2>5. Merged(I, m)
    BY <1>1, <2>4 DEF Merged
  <2>6. {top.out} \in SUBSET Nat
    BY <2>2
  <2>7. Br({top.out}) \in Instr
    BY <2>6, OpTypes
  <2>8. FirstsKept(ir, m) /\ Len(m.blocks) = Len(ir.blocks) /\ m.at = ir.at
    BY <1>1, <2>1, <2>7, PutCodes, PutGood
  <2>. QED BY <1>1, <1>2, <1>3, <1>4, <2>5, <2>8
<1>. QED BY <1>5, <1>6

(* The builder goes to a block that was in no place yet.                   *)
LEMMA PlaceNet ==
  ASSUME NEW s, Sound(s), Tidy(s, {}), NEW b \in Unplaced(s), NEW I, NEW f, Net(s, I, f),
         NEW t, t = PlaceAt(s, b)
  PROVE  /\ Net(t, I, f) /\ Loc(t) = <<b, 1>> /\ FirstsKept(s, t) /\ Good(t)
         /\ Len(t.blocks) = Len(s.blocks) /\ b # s.at /\ t.at = b /\ b \in Nat
<1>1. b \in 1..Len(s.blocks) /\ Good(s)
  BY DEF Unplaced, Sound
<1>2. Codes(s)[b] = <<>> /\ b # s.at
  BY <1>1, Idle
<1>3. Net(t, I, f) /\ Loc(t) = <<b, 1>> /\ Codes(t) = Codes(s)
  BY <1>1, <1>2, NetPlace
<1>4. Good(t) /\ Len(t.blocks) = Len(s.blocks) /\ t.at = b
  BY <1>1, PlaceAtBlocks
<1>. QED BY <1>1, <1>2, <1>3, <1>4 DEF FirstsKept

LEMMA FlowElse == ASSUME LoweringInv, RetInv, FormInv, FlowInv, Else PROVE FlowInv'
<1>. SUFFICES ASSUME clean' PROVE \E I : FlowAt(ir', flow', pend', open', I)
  BY DEF FlowInv
<1>1. PICK m : m = ToMerge
  OBVIOUS
<1>2. PICK t : t = PlaceAt(m, top.back)
  OBVIOUS
<1>3. PICK n : n = Len(open)
  OBVIOUS
<1>4. /\ ir' = t /\ UNCHANGED flow /\ pend' = {top.cond} /\ phase = "visiting" /\ clean
      /\ top.kind = "then" /\ Len(open) > 1
  BY <1>1, <1>2, TopShape DEF Else, Inside, LoweringInv
<1>5. PICK I : FlowAt(ir, flow, pend, open, I)
  BY <1>4 DEF FlowInv
<1>6. /\ Sound(m) /\ Unplaced(m) = Unplaced(ir) /\ Tidy(m, {})
      /\ FirstsKept(ir, m) /\ Good(ir) /\ Len(m.blocks) = Len(ir.blocks) /\ Merged(I, m)
      /\ ir.at \notin Unplaced(ir) /\ top.out \in Unplaced(ir) /\ Stack
  BY <1>1, <1>4, <1>5, FlowToMerge
<1>7. PICK J : Net(m, J, flow) /\ Joins(I, J, Nat \ {ir.at}, {top.out}, pend)
  BY <1>6 DEF Merged
<1>8. Kept(top) = {top.back, top.out} /\ top.back \in Unplaced(ir) /\ top.back # top.out
  BY <1>4, <1>6, StoredOuter DEF FormInv, Kept
<1>9. /\ Net(t, J, flow) /\ Loc(t) = <<top.back, 1>> /\ FirstsKept(m, t)
      /\ Len(t.blocks) = Len(m.blocks) /\ Len(ir.blocks) \in Nat
  BY <1>2, <1>6, <1>7, <1>8, PlaceNet, GoodLen
<1>10. FirstsKept(ir, t)
  BY <1>6, <1>9, FirstsTrans
<1>11. /\ Same(I, J, Unplaced(ir) \ {top.out}) /\ J[<<top.out, 1>>] = I[<<top.out, 1>>] \cup pend
  <2>1. \A x \in Unplaced(ir) : x \in Nat \ {ir.at}
    BY <1>6 DEF Unplaced
  <2>2. \A x \in Unplaced(ir) : J[<<x, 1>>] = IF x \in {top.out} THEN I[<<x, 1>>] \cup pend ELSE I[<<x, 1>>]
    BY <1>7, <2>1 DEF Joins
  <2>. QED BY <1>6, <2>2 DEF Same
<1>12. open \in Seq(Frame) /\ n \in 1..n /\ top = open[n] /\ DOMAIN open = 1..n /\ top \in Frame
  BY <1>3, <1>4, <1>6, TopShape DEF Stack, top
<1>13. I[<<top.back, 1>>] = {top.cond} /\ I[<<top.out, 1>>] = {}
  BY <1>4, <1>5, <1>12 DEF FlowAt, Waits
<1>14. PICK g : /\ g = [top EXCEPT !.kind = "else", !.thenRet = top.done, !.done = "none", !.ends = pend]
                /\ open' = [open EXCEPT ![n] = g]
  BY <1>3 DEF Else, top
<1>15. g.kind = "else" /\ g.out = top.out /\ g.ends = pend
  BY <1>12, <1>14 DEF Frame
<1>16. PICK gs : gs = open'
  OBVIOUS
<1>17. DOMAIN gs = 1..n /\ gs[n] = g /\ \A i \in 1..n : i # n => gs[i] = open[i]
  BY <1>12, <1>14, <1>16
<1>18. ASSUME NEW i \in DOMAIN gs PROVE Waits(Codes(t), J, gs[i])
  <2>1. CASE i = n
    BY <1>11, <1>13, <1>15, <1>17, <2>1 DEF Waits
  <2>2. CASE i # n
    <3>1. i \in 1..Len(open) /\ gs[i] = open[i]
      BY <1>3, <1>17, <1>18, <2>2
    <3>2. Kept(open[i]) \subseteq Unplaced(ir) \ {top.out}
      BY <1>3, <1>8, <1>12, <2>2, <3>1 DEF FormInv, Stored
    <3>. QED BY <1>5, <1>6, <1>10, <1>11, <3>1, <3>2, StillWaits
  <2>. QED BY <2>1, <2>2
<1>19. J[Loc(t)] = {top.cond}
  BY <1>8, <1>9, <1>11, <1>13 DEF Same
<1>20. FlowAt(t, flow, {top.cond}, gs, J)
  BY <1>9, <1>18, <1>19 DEF FlowAt
<1>. QED BY <1>4, <1>16, <1>20

LEMMA FlowEndIf == ASSUME LoweringInv, RetInv, FormInv, FlowInv, EndIf PROVE FlowInv'
<1>. SUFFICES ASSUME clean' PROVE \E I : FlowAt(ir', flow', pend', open', I)
  BY DEF FlowInv
<1>1. PICK m : m = ToMerge
  OBVIOUS
<1>2. PICK s : s = PlaceAt(m, top.back)
  OBVIOUS
<1>3. PICK c : c = Put(s, Br({top.out}))
  OBVIOUS
<1>4. PICK t : t = PlaceAt(c, top.out)
  OBVIOUS
<1>5. /\ ir' = t /\ UNCHANGED flow /\ pend' = pend \cup {top.cond} /\ phase = "visiting" /\ clean
      /\ top.kind = "then" /\ Len(open) > 1 /\ open' = Ends(Outer, "noret") /\ "noret" \in Returns
  BY <1>1, <1>2, <1>3, <1>4, TopShape DEF EndIf, Inside, LoweringInv, Returns
<1>6. PICK I : FlowAt(ir, flow, pend, open, I)
  BY <1>5 DEF FlowInv
<1>7. /\ Sound(m) /\ Unplaced(m) = Unplaced(ir) /\ Tidy(m, {}) /\ Shut(m, {}, TRUE)
      /\ FirstsKept(ir, m) /\ Good(ir) /\ Len(m.blocks) = Len(ir.blocks) /\ Merged(I, m)
      /\ ir.at \notin Unplaced(ir) /\ top.out \in Unplaced(ir) /\ Stack
  BY <1>1, <1>5, <1>6, FlowToMerge
<1>8. PICK J : Net(m, J, flow) /\ Joins(I, J, Nat \ {ir.at}, {top.out}, pend)
  BY <1>7 DEF Merged
<1>9. /\ Kept(top) = {top.back, top.out} /\ top.back \in Unplaced(ir) /\ top.back # top.out
      /\ top.back \in Unplaced(m)
  BY <1>5, <1>7, StoredOuter DEF FormInv, Kept
<1>10. /\ Net(s, J, flow) /\ Loc(s) = <<top.back, 1>> /\ FirstsKept(m, s) /\ Good(s) /\ s.at = top.back
       /\ Len(s.blocks) = Len(m.blocks) /\ Len(ir.blocks) \in Nat
  BY <1>2, <1>7, <1>8, <1>9, PlaceNet, GoodLen
<1>11. Sound(s) /\ Unplaced(s) = Unplaced(ir) \ {top.back} /\ Run(s, {}, TRUE)
  <2>1. Sound(m) /\ top.back \in Unplaced(m) /\ Shut(m, {}, TRUE) /\ m.at \notin {}
    BY <1>7, <1>9
  <2>2. Sound(s) /\ Unplaced(s) = Unplaced(m) \ {top.back}
    BY ONLY <1>2, <2>1, PlaceSound
  <2>3. Run(s, {}, TRUE)
    BY ONLY <1>2, <2>1, PlaceForm
  <2>. QED BY <1>7, <2>2, <2>3
<1>12. top.out \in Unplaced(s) /\ top.out \in 1..Len(s.blocks) /\ top.out # s.at /\ Codes(s)[top.out] = <<>>
  <2>1. top.out \in Unplaced(s) /\ top.out \in 1..Len(s.blocks)
    BY <1>7, <1>9, <1>11 DEF Unplaced
  <2>. QED BY <1>11, <2>1, Idle DEF Run
<1>13. {top.out} \in SUBSET Nat /\ Br({top.out}) \in Instr
  <2>1. {top.out} \in SUBSET Nat
    BY <1>12
  <2>. QED BY <2>1, OpTypes
<1>14. PICK K : /\ Net(c, K, flow) /\ K[Loc(c)] = {}
                /\ Joins(J, K, Nat \ {s.at}, {top.out}, J[Loc(s)])
  <2>1. {top.out} \subseteq 1..Len(s.blocks) /\ \A x \in {top.out} : x # s.at /\ Codes(s)[x] = <<>>
    BY <1>12
  <2>. QED BY ONLY <1>3, <1>10, <2>1, PutBranch
<1>15. /\ Sound(c) /\ Unplaced(c) = Unplaced(s) /\ Tidy(c, {}) /\ FirstsKept(s, c)
       /\ Len(c.blocks) = Len(s.blocks)
  <2>1. Sound(c) /\ Unplaced(c) = Unplaced(s) /\ Shut(c, {}, TRUE)
    BY <1>3, <1>11, <1>13, BrForm
  <2>. QED BY <1>3, <1>10, <1>13, <2>1, PutCodes, PutGood DEF Shut
<1>16. Net(t, K, flow) /\ Loc(t) = <<top.out, 1>> /\ FirstsKept(c, t) /\ Len(t.blocks) = Len(c.blocks)
  BY <1>4, <1>12, <1>14, <1>15, PlaceNet
<1>17. FirstsKept(ir, t)
  <2>1. FirstsKept(ir, s)
    BY ONLY <1>7, <1>10, FirstsTrans
  <2>2. FirstsKept(ir, c)
    BY ONLY <1>7, <1>10, <1>15, <2>1, FirstsTrans
  <2>. QED BY ONLY <1>7, <1>10, <1>15, <1>16, <2>2, FirstsTrans
<1>18. top.cond = top.cond /\ I[<<top.back, 1>>] = {top.cond} /\ I[<<top.out, 1>>] = {}
  <2>1. Len(open) \in DOMAIN open /\ top = open[Len(open)]
    BY <1>7, TopShape DEF top
  <2>. QED BY <1>5, <1>6, <2>1 DEF FlowAt, Waits
<1>19. /\ J[<<top.back, 1>>] = {top.cond} /\ J[<<top.out, 1>>] = pend
       /\ \A x \in Unplaced(ir) \ Kept(top) : J[<<x, 1>>] = I[<<x, 1>>]
  <2>1. \A x \in Unplaced(ir) : x \in Nat \ {ir.at}
    BY <1>7 DEF Unplaced
  <2>2. \A x \in Unplaced(ir) : J[<<x, 1>>] = IF x \in {top.out} THEN I[<<x, 1>>] \cup pend ELSE I[<<x, 1>>]
    BY <1>8, <2>1 DEF Joins
  <2>. QED BY <1>7, <1>9, <1>18, <2>2
<1>20. K[<<top.out, 1>>] = pend \cup {top.cond} /\ Same(I, K, Unplaced(ir) \ Kept(top))
  <2>1. \A x \in Unplaced(ir) \ {top.back} : x \in Nat \ {s.at}
    BY <1>10 DEF Unplaced
  <2>2. \A x \in Unplaced(ir) \ {top.back} :
          K[<<x, 1>>] = IF x \in {top.out} THEN J[<<x, 1>>] \cup {top.cond} ELSE J[<<x, 1>>]
    BY <1>10, <1>14, <1>19, <2>1 DEF Joins
  <2>. QED BY <1>7, <1>9, <1>19, <2>2 DEF Same
<1>21. FlowAt(t, flow, pend \cup {top.cond}, Ends(Outer, "noret"), K)
  <2>1. K[Loc(t)] = pend \cup {top.cond}
    BY <1>16, <1>20
  <2>. QED BY <1>5, <1>6, <1>7, <1>16, <1>17, <1>20, <2>1, FlowCloses
<1>. QED BY <1>5, <1>21

LEMMA FlowEndIfElse == ASSUME LoweringInv, RetInv, FormInv, FlowInv, EndIfElse PROVE FlowInv'
<1>. SUFFICES ASSUME clean' PROVE \E I : FlowAt(ir', flow', pend', open', I)
  BY DEF FlowInv
<1>1. PICK m : m = ToMerge
  OBVIOUS
<1>2. PICK returns : returns = (top.thenRet = "ret" /\ top.done = "ret")
  OBVIOUS
<1>3. /\ ir' = IF returns THEN m ELSE PlaceAt(m, top.out)
      /\ UNCHANGED flow /\ pend' = top.ends \cup pend /\ phase = "visiting" /\ clean
      /\ top.kind = "else" /\ Len(open) > 1
      /\ open' = Ends(Outer, IF returns THEN "ret" ELSE "noret")
  BY <1>1, <1>2, TopShape DEF EndIfElse, Inside, LoweringInv
<1>4. PICK I : FlowAt(ir, flow, pend, open, I)
  BY <1>3 DEF FlowInv
<1>5. /\ Sound(m) /\ Unplaced(m) = Unplaced(ir) /\ Tidy(m, {})
      /\ FirstsKept(ir, m) /\ Good(ir) /\ Len(m.blocks) = Len(ir.blocks) /\ Merged(I, m)
      /\ ir.at \notin Unplaced(ir) /\ top.out \in Unplaced(ir) /\ Stack
  BY <1>1, <1>3, <1>4, FlowToMerge
<1>6. PICK J : Net(m, J, flow) /\ Joins(I, J, Nat \ {ir.at}, {top.out}, pend)
  BY <1>5 DEF Merged
<1>7. Kept(top) = {top.out} /\ Len(open) \in DOMAIN open /\ top = open[Len(open)]
  BY <1>3, <1>5, TopShape DEF Kept, top
<1>8. CASE returns
  <2>1. ir' = ir /\ open' = Ends(Outer, "ret") /\ "ret" \in Returns /\ pend = {} /\ top.ends = {}
    BY <1>1, <1>2, <1>3, <1>7, <1>8 DEF ToMerge, RetInv, Returns
  <2>2. FirstsKept(ir, ir) /\ Same(I, I, Unplaced(ir) \ Kept(top)) /\ Net(ir, I, flow) /\ I[Loc(ir)] = {}
    BY <1>4, <2>1, FirstsSame DEF Same, FlowAt
  <2>3. FlowAt(ir, flow, {}, Ends(Outer, "ret"), I)
    BY <1>3, <1>4, <1>5, <2>1, <2>2, FlowCloses
  <2>. QED BY <1>3, <2>1, <2>3
<1>9. CASE ~returns
  <2>1. PICK t : t = PlaceAt(m, top.out)
    OBVIOUS
  <2>2. ir' = t /\ open' = Ends(Outer, "noret") /\ "noret" \in Returns
    BY <1>3, <1>9, <2>1 DEF Returns
  <2>3. /\ Net(t, J, flow) /\ Loc(t) = <<top.out, 1>> /\ FirstsKept(m, t)
        /\ Len(t.blocks) = Len(m.blocks) /\ Len(ir.blocks) \in Nat
    BY <1>5, <1>6, <2>1, PlaceNet, GoodLen
  <2>4. FirstsKept(ir, t)
    BY ONLY <1>5, <2>3, FirstsTrans
  <2>5. I[<<top.out, 1>>] = top.ends
    BY <1>3, <1>4, <1>7 DEF FlowAt, Waits
  <2>6. J[<<top.out, 1>>] = top.ends \cup pend /\ Same(I, J, Unplaced(ir) \ Kept(top))
    <3>1. \A x \in Unplaced(ir) : x \in Nat \ {ir.at}
      BY <1>5 DEF Unplaced
    <3>2. \A x \in Unplaced(ir) : J[<<x, 1>>] = IF x \in {top.out} THEN I[<<x, 1>>] \cup pend ELSE I[<<x, 1>>]
      BY <1>6, <3>1 DEF Joins
    <3>. QED BY <1>5, <1>7, <2>5, <3>2 DEF Same
  <2>7. FlowAt(t, flow, top.ends \cup pend, Ends(Outer, "noret"), J)
    BY <1>3, <1>4, <1>5, <2>2, <2>3, <2>4, <2>6, FlowCloses
  <2>. QED BY <1>3, <2>2, <2>7
<1>. QED BY <1>8, <1>9

Flows(s, f, p, fs) == \E I : FlowAt(s, f, p, fs, I)

(* A loop is entered: the condition is evaluated first, and the body and   *)
(* the block after the loop follow it.                                     *)
LEMMA FlowLoop ==
  ASSUME Stack, FormInv, Good(ir), NEW I, FlowAt(ir, flow, pend, open, I),
         Unplaced(ir) \subseteq 1..Len(ir.blocks),
         NEW s, Sound(s), NEW in, in = Fresh(ir), in \in InPlace(s), in # s.at,
         Run(s, {in}, TRUE),
         Unplaced(ir) \cup {in + 1, in + 2} \subseteq Unplaced(s),
         Len(s.blocks) >= Len(ir.blocks), FirstsKept(ir, s),
         NEW J, NEW f, Net(s, J, f), NEW P, J[Loc(s)] = P, Same(I, J, Unplaced(ir)),
         J[<<in, 1>>] = {}, J[<<in + 1, 1>>] = {}, J[<<in + 2, 1>>] = {},
         NEW e, NEW update \in {"none"} \cup Exprs, NEW h,
         h = F("loop", in, in + 2, <<in, 1>>, {<<in, 1>>}, update),
         NEW t, t = PlaceAt(Branch(SetInsertPoint(Put(s, Br({in})), in), e, {in + 1, in + 2}), in + 1),
         NEW g, g = f \cup (P \X {<<in, 1>>}), NEW fs, fs = Append(open, h)
  PROVE  Flows(t, g, {<<in, 1>>}, fs)
<1>1. PICK s1 : s1 = Put(s, Br({in}))
  OBVIOUS
<1>2. PICK s2 : s2 = SetInsertPoint(s1, in)
  OBVIOUS
<1>3. PICK s3 : s3 = Eval(s2, e)
  OBVIOUS
<1>4. PICK s4 : s4 = Put(s3, Br({in + 1, in + 2}))
  OBVIOUS
<1>5. PICK p : p = <<in, 1>>
  OBVIOUS
<1>6. t = PlaceAt(s4, in + 1)
  BY <1>1, <1>2, <1>3, <1>4 DEF Branch
<1>7. Len(ir.blocks) \in Nat /\ in = Len(ir.blocks) + 1 /\ Good(s) /\ Len(s.blocks) \in Nat
      /\ in \in Nat /\ in + 1 \in Nat /\ in + 2 \in Nat
  BY GoodLen DEF Sound
<1>8. {in} \in SUBSET Nat /\ {in + 1, in + 2} \in SUBSET Nat /\ Br({in}) \in Instr
      /\ Br({in + 1, in + 2}) \in Instr
  <2>1. {in} \in SUBSET Nat /\ {in + 1, in + 2} \in SUBSET Nat
    BY <1>7
  <2>. QED BY <2>1, OpTypes
(* inBB, bodyBB and outBB are still empty.                                 *)
<1>9. /\ in \in 1..Len(s.blocks) /\ in + 1 \in 1..Len(s.blocks) /\ in + 2 \in 1..Len(s.blocks)
      /\ in # s.at /\ in + 1 # s.at /\ in + 2 # s.at
      /\ Codes(s)[in] = <<>> /\ Codes(s)[in + 1] = <<>> /\ Codes(s)[in + 2] = <<>>
  <2>1. in \in 1..Len(s.blocks) /\ in + 1 \in 1..Len(s.blocks) /\ in + 2 \in 1..Len(s.blocks)
    BY DEF InPlace, Unplaced
  <2>2. in + 1 \in Unplaced(s) /\ in + 2 \in Unplaced(s) /\ in \in {in} /\ Tidy(s, {in})
    BY DEF Run
  <2>. QED BY <2>1, <2>2, Idle
<1>10. PICK K1 : /\ Net(s1, K1, f) /\ K1[Loc(s1)] = {}
                 /\ Joins(J, K1, Nat \ {s.at}, {in}, J[Loc(s)])
  <2>1. {in} \subseteq 1..Len(s.blocks) /\ \A x \in {in} : x # s.at /\ Codes(s)[x] = <<>>
    BY <1>9
  <2>2. Net(s, J, f)
    OBVIOUS
  <2>. QED BY ONLY <1>1, <1>7, <2>1, <2>2, PutBranch
<1>11. \A x \in Nat : x # s.at => K1[<<x, 1>>] = IF x = in THEN J[<<x, 1>>] \cup P ELSE J[<<x, 1>>]
  BY <1>10 DEF Joins
<1>12. K1[<<in, 1>>] = P /\ K1[<<in + 1, 1>>] = {} /\ K1[<<in + 2, 1>>] = {}
  <2>1. in + 1 # in /\ in + 2 # in
    BY <1>7
  <2>. QED BY <1>7, <1>9, <1>11, <2>1
<1>13. /\ Sound(s1) /\ s1.at = s.at /\ Unplaced(s1) = Unplaced(s) /\ in \in InPlace(s1)
       /\ Shut(s1, {in}, TRUE) /\ Len(s1.blocks) = Len(s.blocks) /\ FirstsKept(s, s1)
       /\ Codes(s1)[in] = <<>>
  <2>1. /\ Sound(s1) /\ s1.at = s.at /\ Unplaced(s1) = Unplaced(s) /\ InPlace(s1) = InPlace(s)
        /\ Shut(s1, {in}, TRUE) /\ Len(s1.blocks) = Len(s.blocks)
    BY <1>1, <1>8, BrForm
  <2>2. FirstsKept(s, s1) /\ Codes(s1)[in] = Codes(s)[in]
    BY <1>1, <1>7, <1>8, <1>9, PutCodes
  <2>. QED BY <1>9, <2>1, <2>2
<1>14. /\ Sound(s2) /\ Good(s2) /\ s2.at = in /\ Unplaced(s2) = Unplaced(s) /\ Run(s2, {}, TRUE)
       /\ in \in InPlace(s2) /\ Len(s2.blocks) = Len(s.blocks)
       /\ Net(s2, K1, f) /\ Loc(s2) = p /\ Codes(s2) = Codes(s1) /\ CodeAt(s2) = <<>>
  <2>1. {in} = {} \cup {in} /\ in # s1.at /\ s1.at \notin {} /\ in \notin {} /\ Good(s1)
        /\ in \in 1..Len(s1.blocks)
    BY <1>9, <1>13 DEF Sound
  <2>2. Run(s2, {}, TRUE)
    BY ONLY <1>2, <1>13, <2>1, InsertForm
  <2>3. /\ Sound(s2) /\ s2.at = in /\ Unplaced(s2) = Unplaced(s1) /\ InPlace(s2) = InPlace(s1)
        /\ Len(s2.blocks) = Len(s1.blocks)
    BY ONLY <1>2, <1>13, InsertSound
  <2>4. Net(s2, K1, f) /\ Loc(s2) = p /\ Codes(s2) = Codes(s1)
    BY ONLY <1>2, <1>5, <1>10, <1>13, <2>1, NetPlace
  <2>5. Good(s2) /\ CodeAt(s2) = Codes(s2)[in]
    <3>1. Good(s2) /\ in \in 1..Len(s2.blocks)
      BY <2>1, <2>3 DEF Sound
    <3>2. Codes(s2)[in] = s2.blocks[in].code
      BY ONLY <3>1, CodesAre
    <3>. QED BY <2>3, <3>1, <3>2 DEF CodeAt
  <2>. QED BY <1>13, <2>2, <2>3, <2>4, <2>5
<1>15. /\ Sound(s3) /\ Unplaced(s) \subseteq Unplaced(s3) /\ Run(s3, {}, TRUE) /\ in \in InPlace(s3)
       /\ Good(s3) /\ Len(s3.blocks) \in Nat /\ Len(s3.blocks) >= Len(s.blocks)
  <2>1. /\ Sound(s3) /\ Len(s3.blocks) >= Len(s2.blocks) /\ Unplaced(s2) \subseteq Unplaced(s3)
        /\ InPlace(s2) \subseteq InPlace(s3) /\ Run(s3, {}, TRUE)
    <3>1. s2.at \notin {} /\ {} \subseteq 1..Len(s2.blocks)
      OBVIOUS
    <3>. QED BY ONLY <1>3, <1>14, <3>1, EvalForm
  <2>. QED BY <1>14, <2>1, GoodLen DEF Sound
<1>16. FirstsKept(s2, s3) /\ First(Codes(s3), in) /\ Stepped(s2, K1, f, p, s3)
  BY ONLY <1>3, <1>14, EvalNet
<1>17. PICK K2 : /\ Net(s3, K2, f \cup (K1[p] \X {p})) /\ K2[Loc(s3)] = {p}
                 /\ Same(K1, K2, 1..Len(s2.blocks) \ {s2.at})
  BY <1>16 DEF Stepped
<1>18. g = f \cup (P \X {p})
  BY <1>5
<1>19. Net(s3, K2, g) /\ \A x \in 1..Len(s.blocks) : x # in => K2[<<x, 1>>] = K1[<<x, 1>>]
  BY <1>5, <1>12, <1>14, <1>17, <1>18 DEF Same
<1>20. /\ in + 1 \in Unplaced(s3) /\ in + 2 \in Unplaced(s3)
       /\ in + 1 \in 1..Len(s3.blocks) /\ in + 2 \in 1..Len(s3.blocks)
       /\ in + 1 # s3.at /\ in + 2 # s3.at
       /\ Codes(s3)[in + 1] = <<>> /\ Codes(s3)[in + 2] = <<>>
  <2>1. in + 1 \in Unplaced(s3) /\ in + 2 \in Unplaced(s3)
    BY <1>15
  <2>2. in + 1 \in 1..Len(s3.blocks) /\ in + 2 \in 1..Len(s3.blocks) /\ Tidy(s3, {})
    BY <1>15, <2>1 DEF Unplaced, Run
  <2>. QED BY <1>15, <2>1, <2>2, Idle
<1>21. PICK K : /\ Net(s4, K, g) /\ K[Loc(s4)] = {}
                /\ Joins(K2, K, Nat \ {s3.at}, {in + 1, in + 2}, K2[Loc(s3)])
  <2>1. /\ {in + 1, in + 2} \subseteq 1..Len(s3.blocks)
        /\ \A x \in {in + 1, in + 2} : x # s3.at /\ Codes(s3)[x] = <<>>
    BY <1>20
  <2>. QED BY ONLY <1>4, <1>15, <1>19, <2>1, PutBranch
<1>22. \A x \in Nat : x # s3.at =>
         K[<<x, 1>>] = IF x \in {in + 1, in + 2} THEN K2[<<x, 1>>] \cup {p} ELSE K2[<<x, 1>>]
  BY <1>17, <1>21 DEF Joins
<1>23. K[<<in + 1, 1>>] = {p} /\ K[<<in + 2, 1>>] = {p}
  <2>1. in + 1 # in /\ in + 2 # in
    BY <1>7
  <2>2. K2[<<in + 1, 1>>] = {} /\ K2[<<in + 2, 1>>] = {}
    BY <1>9, <1>12, <1>19, <2>1
  <2>. QED BY <1>7, <1>20, <1>22, <2>2
<1>24. Same(I, K, Unplaced(ir))
  <2>. SUFFICES ASSUME NEW b \in Unplaced(ir) PROVE K[<<b, 1>>] = I[<<b, 1>>]
    BY DEF Same
  <2>1. b \in 1..Len(ir.blocks) /\ b \in Nat /\ b \in Unplaced(s) /\ b \in Unplaced(s3)
    BY <1>7, <1>15
  <2>2. b # in /\ b \notin {in + 1, in + 2} /\ b \in 1..Len(s.blocks)
    BY <1>7, <2>1
  <2>3. b # s.at /\ b # s3.at
    BY <1>7, <1>15, <2>1, CodeTypes DEF Sound, Good
  <2>4. J[<<b, 1>>] = I[<<b, 1>>]
    BY DEF Same
  <2>5. K1[<<b, 1>>] = J[<<b, 1>>]
    BY <1>11, <2>1, <2>2, <2>3
  <2>6. K2[<<b, 1>>] = K1[<<b, 1>>]
    BY <1>19, <2>2
  <2>. QED BY <1>22, <2>1, <2>2, <2>3, <2>4, <2>5, <2>6
<1>25. /\ Sound(s4) /\ Unplaced(s4) = Unplaced(s3) /\ InPlace(s4) = InPlace(s3) /\ Tidy(s4, {})
       /\ Closed(CodeAt(s4)) /\ FirstsKept(s3, s4) /\ Len(s4.blocks) = Len(s3.blocks)
  <2>1. /\ Sound(s4) /\ Unplaced(s4) = Unplaced(s3) /\ InPlace(s4) = InPlace(s3) /\ Shut(s4, {}, TRUE)
        /\ Len(s4.blocks) = Len(s3.blocks)
    BY ONLY <1>4, <1>8, <1>15, BrForm
  <2>2. FirstsKept(s3, s4)
    BY ONLY <1>4, <1>8, <1>15, PutCodes
  <2>. QED BY <2>1, <2>2 DEF Shut
<1>26. /\ Net(t, K, g) /\ Loc(t) = <<in + 1, 1>> /\ FirstsKept(s4, t) /\ Len(t.blocks) = Len(s4.blocks)
       /\ Codes(t) = Codes(s4)
  <2>1. in + 1 \in Unplaced(s4) /\ in + 1 \in 1..Len(s4.blocks) /\ Good(s4)
    BY <1>20, <1>25 DEF Sound
  <2>2. Codes(t) = Codes(s4)
    BY ONLY <1>6, <2>1, NetPlace
  <2>. QED BY <1>6, <1>21, <1>25, <2>1, <2>2, PlaceNet
<1>27. FirstsKept(ir, t)
  <2>1. /\ Len(ir.blocks) <= Len(s1.blocks) /\ Len(s1.blocks) \in Nat
        /\ Len(ir.blocks) <= Len(s2.blocks) /\ Len(s2.blocks) \in Nat
        /\ Len(ir.blocks) <= Len(s3.blocks) /\ Len(s4.blocks) \in Nat
        /\ Len(ir.blocks) <= Len(s4.blocks)
    <3>1. Len(s1.blocks) = Len(s.blocks) /\ Len(s2.blocks) = Len(s.blocks)
      BY <1>13, <1>14
    <3>2. PICK n1, n2, n3 : n1 = Len(ir.blocks) /\ n2 = Len(s.blocks) /\ n3 = Len(s3.blocks)
      OBVIOUS
    <3>3. Len(s4.blocks) = n3
      BY <1>25, <3>2
    <3>4. n1 \in Nat /\ n2 \in Nat /\ n3 \in Nat /\ n1 <= n2 /\ n2 <= n3
      BY <1>7, <1>13, <1>14, <1>15, <3>2
    <3>5. n1 <= n3
      BY ONLY <3>4
    <3>. QED BY ONLY <3>1, <3>2, <3>3, <3>4, <3>5
  <2>2. FirstsKept(ir, s1)
    BY <1>7, <1>13, <2>1, FirstsTrans
  <2>3. FirstsKept(ir, s2)
    BY <1>14, <2>2 DEF FirstsKept
  <2>4. FirstsKept(ir, s3)
    BY <1>7, <1>15, <1>16, <2>1, <2>3, FirstsTrans
  <2>5. FirstsKept(ir, s4)
    BY <1>7, <1>15, <1>25, <2>1, <2>4, FirstsTrans
  <2>. QED BY <1>7, <1>26, <2>1, <2>5, FirstsTrans
<1>28. First(Codes(t), in) /\ ~Plain(Codes(t)[in])
  <2>1. in \in 1..Len(s3.blocks) /\ in \in 1..Len(s4.blocks) /\ in \in InPlace(s4) /\ Good(s4)
    BY <1>15, <1>25 DEF InPlace, Sound
  <2>2. First(Codes(s4), in)
    BY <1>16, <1>25, <2>1 DEF FirstsKept
  <2>3. Closed(s4.blocks[in].code)
    BY <1>25, <2>1 DEF Tidy, CodeAt
  <2>4. Codes(s4)[in] = s4.blocks[in].code /\ Codes(s4)[in] \in Seq(Instr)
    <3>1. Good(s4) /\ in \in 1..Len(s4.blocks)
      BY <1>25, <2>1 DEF Sound
    <3>2. Codes(s4)[in] = s4.blocks[in].code
      BY ONLY <3>1, CodesAre
    <3>3. s4.blocks[in].code \in Seq(Instr)
      BY ONLY <3>1, CodeTypes
    <3>. QED BY ONLY <3>2, <3>3
  <2>5. ~Plain(Codes(s4)[in])
    <3>1. PICK q \in Seq(Instr) : q = Codes(s4)[in] /\ Closed(q)
      BY <2>3, <2>4
    <3>2. Len(q) \in DOMAIN q /\ IsTerminator(q[Len(q)])
      BY <3>1, LenProperties, EmptySeq DEF Closed
    <3>. QED BY <3>1, <3>2 DEF Plain
  <2>. QED BY <1>26, <2>2, <2>5
<1>29. /\ h \in Frame /\ h.kind = "loop" /\ h.back = in /\ h.out = in + 2 /\ h.cond = p /\ h.ends = {p}
  <2>1. p \in Place /\ {p} \in SUBSET Place
    BY <1>5, <1>7 DEF Place
  <2>2. h.kind = "loop" /\ h.back = in /\ h.out = in + 2 /\ h.cond = p /\ h.ends = {p}
    BY <1>5 DEF F
  <2>. QED BY <1>5, <1>7, <2>1, <2>2, FrameTypes
<1>30. Waits(Codes(t), K, h)
  BY <1>5, <1>23, <1>28, <1>29 DEF Waits
<1>31. K[Loc(t)] = {p}
  BY <1>23, <1>26
<1>32. FlowAt(t, g, {p}, Append(open, h), K)
  <2>1. Stack /\ FormInv /\ FlowAt(ir, flow, pend, open, I)
    OBVIOUS
  <2>. QED BY ONLY <1>24, <1>26, <1>27, <1>29, <1>30, <1>31, <2>1, FlowOpens
<1>. QED BY <1>5, <1>32 DEF Flows

LEMMA FlowWhile == ASSUME LoweringInv, FormInv, FlowInv, NEW e, While(e) PROVE FlowInv'
<1>. SUFFICES ASSUME clean' PROVE \E I : FlowAt(ir', flow', pend', open', I)
  BY DEF FlowInv
<1>1. PICK n : n = Fresh(ir)
  OBVIOUS
<1>2. PICK s : s = LoopBlocks
  OBVIOUS
<1>3. PICK h : h = F("loop", n, n + 2, <<n, 1>>, {<<n, 1>>}, "none")
  OBVIOUS
<1>4. PICK t : t = PlaceAt(Branch(SetInsertPoint(Put(s, Br({n})), n), e, {n + 1, n + 2}), n + 1)
  OBVIOUS
<1>5. /\ ir' = t /\ flow' = flow \cup FlowTo(<<n, 1>>) /\ pend' = {<<n, 1>>} /\ phase = "visiting"
      /\ open' = Append(open, h) /\ clean' = (clean /\ top.done # "ret")
  BY <1>1, <1>2, <1>3, <1>4 DEF While, Starts, AtStatement, EnterLoop
<1>6. /\ Stack /\ Good(ir) /\ Sound(ir) /\ Run(ir, {}, TRUE) /\ Unplaced(ir) \subseteq 1..Len(ir.blocks)
  BY <1>5, FlowStarts
<1>7. PICK I : FlowAt(ir, flow, pend, open, I)
  BY <1>5, FlowStarts
<1>8. /\ Sound(s) /\ n \in InPlace(s) /\ n # s.at /\ Run(s, {n}, TRUE)
      /\ Unplaced(ir) \cup {n + 1, n + 2} \subseteq Unplaced(s)
  BY ONLY <1>1, <1>2, <1>6, LoopForm
<1>9. Net(ir, I, flow) /\ I[Loc(ir)] = pend /\ s = Create(Create(Create(ir, TRUE), FALSE), FALSE)
  BY <1>2, <1>7 DEF FlowAt, LoopBlocks
<1>10. /\ Net(s, I, flow) /\ Loc(s) = Loc(ir) /\ Len(s.blocks) = Len(ir.blocks) + 3 /\ FirstsKept(ir, s)
       /\ I[<<n, 1>>] = {} /\ I[<<n + 1, 1>>] = {} /\ I[<<n + 2, 1>>] = {}
  BY ONLY <1>1, <1>6, <1>9, ThreeNet
<1>11. Len(s.blocks) >= Len(ir.blocks)
  <2>1. Len(ir.blocks) \in Nat
    BY <1>6, GoodLen
  <2>. QED BY <1>10, <2>1
<1>12. I[Loc(s)] = pend /\ Same(I, I, Unplaced(ir)) /\ "none" \in {"none"} \cup Exprs
  BY <1>9, <1>10 DEF Same
<1>13. PICK g, fs : g = flow \cup (pend \X {<<n, 1>>}) /\ fs = Append(open, h)
  OBVIOUS
<1>14. Flows(t, g, {<<n, 1>>}, fs)
  <2>1. FormInv
    OBVIOUS
  <2>. QED BY ONLY <1>1, <1>3, <1>4, <1>6, <1>7, <1>8, <1>10, <1>11, <1>12, <1>13, <2>1, FlowLoop
<1>. QED BY <1>5, <1>13, <1>14 DEF FlowTo, Flows

LEMMA FlowFor ==
  ASSUME LoweringInv, FormInv, FlowInv, NEW init, NEW e, NEW update \in Exprs, For(init, e, update)
  PROVE  FlowInv'
<1>. SUFFICES ASSUME clean' PROVE \E I : FlowAt(ir', flow', pend', open', I)
  BY DEF FlowInv
<1>1. PICK n : n = Fresh(ir)
  OBVIOUS
<1>2. PICK m : m = LoopBlocks
  OBVIOUS
<1>3. PICK s : s = Eval(m, init)
  OBVIOUS
<1>4. PICK p : p = Loc(ir)
  OBVIOUS
<1>5. PICK h : h = F("loop", n, n + 2, <<n, 1>>, {<<n, 1>>}, update)
  OBVIOUS
<1>6. PICK t : t = PlaceAt(Branch(SetInsertPoint(Put(s, Br({n})), n), e, {n + 1, n + 2}), n + 1)
  OBVIOUS
<1>7. /\ ir' = t /\ pend' = {<<n, 1>>} /\ phase = "visiting"
      /\ flow' = flow \cup FlowTo(p) \cup {<<p, <<n, 1>>>>}
      /\ open' = Append(open, h) /\ clean' = (clean /\ top.done # "ret")
  BY <1>1, <1>2, <1>3, <1>4, <1>5, <1>6 DEF For, Starts, AtStatement, EnterLoop
<1>8. /\ Stack /\ Good(ir) /\ Sound(ir) /\ Run(ir, {}, TRUE) /\ Unplaced(ir) \subseteq 1..Len(ir.blocks)
  BY <1>7, FlowStarts
<1>9. PICK I : FlowAt(ir, flow, pend, open, I)
  BY <1>7, FlowStarts
<1>10. /\ Sound(m) /\ n \in InPlace(m) /\ n # m.at /\ Run(m, {n}, TRUE) /\ n \in 1..Len(m.blocks)
       /\ Unplaced(ir) \cup {n + 1, n + 2} \subseteq Unplaced(m)
  BY ONLY <1>1, <1>2, <1>8, LoopForm
<1>11. /\ Net(ir, I, flow) /\ I[p] = pend /\ m = Create(Create(Create(ir, TRUE), FALSE), FALSE)
  BY <1>2, <1>4, <1>9 DEF FlowAt, LoopBlocks
<1>12. /\ Net(m, I, flow) /\ Loc(m) = Loc(ir) /\ Len(m.blocks) = Len(ir.blocks) + 3 /\ FirstsKept(ir, m)
       /\ I[<<n, 1>>] = {} /\ I[<<n + 1, 1>>] = {} /\ I[<<n + 2, 1>>] = {} /\ Good(m)
  <2>1. Good(ir) /\ Net(ir, I, flow)
    BY <1>8, <1>11
  <2>2. m = Create(Create(Create(ir, TRUE), FALSE), FALSE)
    BY <1>11
  <2>. QED BY ONLY <1>1, <2>1, <2>2, ThreeNet
<1>13. p = Loc(m) /\ Len(ir.blocks) \in Nat /\ n = Len(ir.blocks) + 1
  BY <1>1, <1>4, <1>8, <1>12, GoodLen
<1>14. FirstsKept(m, s) /\ Stepped(m, I, flow, p, s) /\ Good(s) /\ Len(s.blocks) >= Len(m.blocks)
       /\ Len(s.blocks) \in Nat
  BY ONLY <1>3, <1>12, <1>13, EvalNet, EvalGood, GoodLen
<1>15. PICK J : /\ Net(s, J, flow \cup (I[p] \X {p})) /\ J[Loc(s)] = {p}
                /\ Same(I, J, 1..Len(m.blocks) \ {m.at})
  BY <1>14 DEF Stepped
<1>16. PICK g : g = flow \cup FlowTo(p)
  OBVIOUS
<1>17. Net(s, J, g)
  BY <1>11, <1>15, <1>16 DEF FlowTo
<1>18. /\ Sound(s) /\ n \in InPlace(s) /\ n # s.at /\ Run(s, {n}, TRUE)
       /\ Unplaced(ir) \cup {n + 1, n + 2} \subseteq Unplaced(s)
  <2>1. {n} \subseteq 1..Len(m.blocks) /\ m.at \notin {n}
    BY <1>10
  <2>2. /\ Sound(s) /\ Unplaced(m) \subseteq Unplaced(s) /\ InPlace(m) \subseteq InPlace(s)
        /\ s.at \notin {n} /\ Run(s, {n}, TRUE)
    BY ONLY <1>3, <1>10, <2>1, EvalForm
  <2>. QED BY <1>10, <2>2
<1>19. /\ Len(s.blocks) >= Len(ir.blocks) /\ Len(ir.blocks) <= Len(m.blocks)
       /\ Len(m.blocks) \in Nat
  BY <1>12, <1>13, <1>14
<1>20. FirstsKept(ir, s)
  BY ONLY <1>12, <1>13, <1>14, <1>19, FirstsTrans
<1>21. \A x \in 1..Len(m.blocks) : x # m.at => J[<<x, 1>>] = I[<<x, 1>>]
  BY <1>15 DEF Same
<1>22. \A x \in Unplaced(m) : x \in 1..Len(m.blocks) /\ x # m.at
  BY <1>10, <1>12, CodeTypes DEF Sound, Unplaced
<1>23. Same(I, J, Unplaced(ir))
  <2>1. \A x \in Unplaced(ir) : J[<<x, 1>>] = I[<<x, 1>>]
    BY <1>10, <1>21, <1>22
  <2>. QED BY <2>1 DEF Same
<1>24. J[<<n, 1>>] = {} /\ J[<<n + 1, 1>>] = {} /\ J[<<n + 2, 1>>] = {}
  BY <1>10, <1>12, <1>21, <1>22
<1>25. PICK k, fs : k = g \cup ({p} \X {<<n, 1>>}) /\ fs = Append(open, h)
  OBVIOUS
<1>26. Flows(t, k, {<<n, 1>>}, fs)
  <2>1. FormInv /\ update \in {"none"} \cup Exprs
    OBVIOUS
  <2>. QED BY ONLY <1>1, <1>5, <1>6, <1>8, <1>9, <1>15, <1>17, <1>18, <1>19, <1>20, <1>23, <1>24,
                   <1>25, <2>1, FlowLoop
<1>27. k = flow'
  BY <1>7, <1>16, <1>25
<1>. QED BY <1>7, <1>25, <1>26, <1>27 DEF Flows

(* The body of a loop, and what is evaluated after it, is followed by the  *)
(* condition, which is the first of the loop's first block.                *)
LEMMA FlowBack ==
  ASSUME Stack, FormInv, Good(ir), Len(open) > 1, top.kind = "loop",
         NEW I, FlowAt(ir, flow, pend, open, I),
         \A b \in Unplaced(ir) : Codes(ir)[b] = <<>>,
         NEW s, Sound(s), Run(s, {}, TRUE), Unplaced(ir) \subseteq Unplaced(s), FirstsKept(ir, s),
         Len(s.blocks) >= Len(ir.blocks),
         NEW J, NEW g, Net(s, J, g), NEW P, J[Loc(s)] = P, Same(I, J, Unplaced(ir)),
         NEW t, t = PlaceAt(Put(s, Br({top.back})), top.out)
  PROVE  \E K : FlowAt(t, g \cup (P \X {top.cond}), top.ends, Ends(Outer, "noret"), K)
<1>1. PICK c : c = Put(s, Br({top.back}))
  OBVIOUS
<1>2. Kept(top) = {top.out} /\ top.out \in Unplaced(ir) /\ "noret" \in Returns
  BY StoredOuter DEF FormInv, Kept, Returns
<1>3. top.back \in 1..Len(ir.blocks) /\ Len(ir.blocks) \in Nat /\ Good(s) /\ Len(s.blocks) \in Nat
  BY TopShape, GoodLen DEF Sound
<1>4. /\ I[<<top.out, 1>>] = top.ends /\ top.cond = <<top.back, 1>>
      /\ First(Codes(ir), top.back) /\ ~Plain(Codes(ir)[top.back])
  <2>1. Len(open) \in DOMAIN open /\ top = open[Len(open)]
    BY TopShape DEF top
  <2>. QED BY <2>1 DEF FlowAt, Waits
<1>5. First(Codes(s), top.back) /\ ~Plain(Codes(s)[top.back]) /\ top.back \in 1..Len(s.blocks)
  BY <1>3, <1>4 DEF FirstsKept
<1>6. top.back # s.at
  <2>1. Codes(s)[s.at] = CodeAt(s) /\ Plain(CodeAt(s))
    BY <1>3, CodesAre DEF CodeAt, Good, Run
  <2>. QED BY <1>5, <2>1
<1>7. {top.back} \in SUBSET Nat /\ Br({top.back}) \in Instr /\ IsTerminator(Br({top.back}))
      /\ Br({top.back}).to = {top.back}
  <2>1. {top.back} \in SUBSET Nat
    BY <1>3
  <2>. QED BY <2>1, OpTypes DEF Br
<1>8. PICK T : T = {top.back}
  OBVIOUS
<1>9. PICK K : /\ Net(c, K, g \cup (J[Loc(s)] \X Ahead(s, T))) /\ K[Loc(c)] = {}
               /\ Joins(J, K, Nat \ {s.at}, T, J[Loc(s)])
  <2>1. PICK i : i = Br(T)
    OBVIOUS
  <2>2. /\ i \in Instr /\ IsTerminator(i) /\ i.to = T /\ T \subseteq 1..Len(s.blocks) /\ c = Put(s, i)
        /\ \A b \in T : b # s.at /\ Target(Codes(s), b)
    BY <1>1, <1>5, <1>6, <1>7, <1>8, <2>1 DEF Target
  <2>3. Net(s, J, g)
    OBVIOUS
  <2>. QED BY ONLY <1>3, <2>2, <2>3, PutEnd
<1>10. Ahead(s, T) = {top.cond}
  BY <1>4, <1>5, <1>8 DEF Ahead
<1>11. PICK f : f = g \cup (P \X {top.cond})
  OBVIOUS
<1>12. Net(c, K, f)
  BY <1>9, <1>10, <1>11
<1>13. \A x \in Unplaced(ir) : K[<<x, 1>>] = I[<<x, 1>>]
  <2>. SUFFICES ASSUME NEW x \in Unplaced(ir) PROVE K[<<x, 1>>] = I[<<x, 1>>]
    OBVIOUS
  <2>1. x \in Nat /\ x \in Unplaced(s)
    BY DEF Unplaced
  <2>2. x # s.at
    BY <1>3, <2>1, CodeTypes DEF Sound, Good
  <2>3. x # top.back
    BY <1>4 DEF First
  <2>4. J[<<x, 1>>] = I[<<x, 1>>]
    BY DEF Same
  <2>. QED BY <1>8, <1>9, <2>1, <2>2, <2>3, <2>4 DEF Joins
<1>14. /\ Sound(c) /\ Tidy(c, {}) /\ top.out \in Unplaced(c) /\ FirstsKept(s, c)
       /\ Len(c.blocks) = Len(s.blocks)
  <2>1. Sound(c) /\ Unplaced(c) = Unplaced(s) /\ Shut(c, {}, TRUE) /\ Len(c.blocks) = Len(s.blocks)
    BY <1>1, <1>7, BrForm
  <2>2. FirstsKept(s, c)
    BY <1>1, <1>3, <1>7, PutCodes
  <2>. QED BY <1>2, <2>1, <2>2 DEF Shut
<1>15. Net(t, K, f) /\ Loc(t) = <<top.out, 1>> /\ FirstsKept(c, t)
  <2>1. t = PlaceAt(c, top.out)
    BY <1>1
  <2>. QED BY ONLY <1>12, <1>14, <2>1, PlaceNet
<1>16. FirstsKept(ir, t)
  <2>1. Len(ir.blocks) <= Len(s.blocks) /\ Len(ir.blocks) <= Len(c.blocks) /\ Len(c.blocks) \in Nat
        /\ Len(s.blocks) <= Len(c.blocks)
    BY <1>3, <1>14
  <2>2. FirstsKept(ir, c)
    BY <1>3, <1>14, <2>1, FirstsTrans
  <2>. QED BY <1>3, <1>15, <2>1, <2>2, FirstsTrans
<1>17. K[Loc(t)] = top.ends /\ Same(I, K, Unplaced(ir) \ Kept(top))
  BY <1>2, <1>4, <1>13, <1>15 DEF Same
<1>18. FlowAt(t, f, top.ends, Ends(Outer, "noret"), K)
  <2>1. Stack /\ FormInv /\ Len(open) > 1 /\ FlowAt(ir, flow, pend, open, I)
    OBVIOUS
  <2>. QED BY ONLY <1>2, <1>15, <1>16, <1>17, <2>1, FlowCloses
<1>. QED BY <1>11, <1>18

LEMMA FlowEndLoop == ASSUME LoweringInv, FormInv, FlowInv, EndLoop PROVE FlowInv'
<1>. SUFFICES ASSUME clean' PROVE \E I : FlowAt(ir', flow', pend', open', I)
  BY DEF FlowInv
<1>1. PICK s : s = IF top.update = "none" THEN ir ELSE Eval(ir, top.update)
  OBVIOUS
<1>2. PICK t : t = PlaceAt(Put(s, Br({top.back})), top.out)
  OBVIOUS
<1>3. PICK p : p = Loc(ir)
  OBVIOUS
<1>4. /\ ir' = t /\ pend' = top.ends /\ phase = "visiting" /\ top.kind = "loop" /\ Len(open) > 1
      /\ flow' = flow \cup (IF top.update = "none" THEN FlowTo(top.cond)
                            ELSE FlowTo(p) \cup {<<p, top.cond>>})
      /\ open' = Ends(Outer, "noret") /\ clean' = (clean /\ top.done # "ret")
  BY <1>1, <1>2, <1>3, TopShape DEF EndLoop, Inside, LoweringInv
<1>5. /\ Stack /\ Good(ir) /\ Sound(ir) /\ Run(ir, {}, TRUE) /\ Unplaced(ir) \subseteq 1..Len(ir.blocks)
      /\ \A b \in Unplaced(ir) : b # ir.at /\ Codes(ir)[b] = <<>>
  BY <1>4, FlowStarts
<1>6. PICK I : FlowAt(ir, flow, pend, open, I)
  BY <1>4, FlowStarts
<1>7. FormInv /\ Len(ir.blocks) \in Nat /\ Net(ir, I, flow) /\ I[p] = pend
      /\ \A b \in Unplaced(ir) : Codes(ir)[b] = <<>>
  BY <1>3, <1>5, <1>6, GoodLen DEF FlowAt
<1>8. CASE top.update = "none"
  <2>1. /\ s = ir /\ FirstsKept(ir, s) /\ Same(I, I, Unplaced(ir)) /\ I[Loc(s)] = pend
        /\ Unplaced(ir) \subseteq Unplaced(s) /\ Len(s.blocks) >= Len(ir.blocks)
        /\ Sound(s) /\ Run(s, {}, TRUE) /\ Net(s, I, flow)
    <3>1. s = ir
      BY <1>1, <1>8
    <3>2. FirstsKept(ir, ir) /\ Same(I, I, Unplaced(ir))
      BY FirstsSame DEF Same
    <3>3. I[Loc(ir)] = pend /\ Len(ir.blocks) >= Len(ir.blocks) /\ Unplaced(ir) \subseteq Unplaced(ir)
      BY <1>3, <1>7
    <3>4. Sound(ir) /\ Run(ir, {}, TRUE) /\ Net(ir, I, flow)
      BY <1>5, <1>7
    <3>. QED BY ONLY <3>1, <3>2, <3>3, <3>4
  <2>2. PICK K : FlowAt(t, flow \cup (pend \X {top.cond}), top.ends, Ends(Outer, "noret"), K)
    BY ONLY <1>2, <1>4, <1>5, <1>6, <1>7, <2>1, FlowBack
  <2>. QED BY <1>4, <1>8, <2>2 DEF FlowTo
<1>9. CASE top.update # "none"
  <2>1. s = Eval(ir, top.update)
    BY <1>1, <1>9
  <2>2. FirstsKept(ir, s) /\ Good(s) /\ Evaluated(I, p, s)
    BY <1>3, <1>5, <1>6, <2>1, FlowEvaluates
  <2>3. PICK J : /\ Net(s, J, flow \cup FlowTo(p)) /\ J[Loc(s)] = {p}
                 /\ Same(I, J, 1..Len(ir.blocks) \ {ir.at}) /\ Same(I, J, Unplaced(ir))
    BY <2>2 DEF Evaluated
  <2>4. /\ Sound(s) /\ Unplaced(ir) \subseteq Unplaced(s) /\ Run(s, {}, TRUE)
        /\ Len(s.blocks) >= Len(ir.blocks)
    BY <1>5, <2>1, EvalForm
  <2>5. PICK g : g = flow \cup FlowTo(p)
    OBVIOUS
  <2>6. Net(s, J, g)
    BY <2>3, <2>5
  <2>7. PICK K : FlowAt(t, g \cup ({p} \X {top.cond}), top.ends, Ends(Outer, "noret"), K)
    BY ONLY <1>2, <1>4, <1>5, <1>6, <1>7, <2>2, <2>3, <2>4, <2>6, FlowBack
  <2>8. g \cup ({p} \X {top.cond}) = flow'
    BY <1>4, <1>9, <2>5
  <2>. QED BY <1>4, <2>7, <2>8
<1>. QED BY <1>8, <1>9

LEMMA FlowEndVoid == ASSUME LoweringInv, FormInv, FlowInv, EndVoidMethod PROVE FlowInv'
<1>. SUFFICES ASSUME clean' PROVE \E I : FlowAt(ir', flow', pend', open', I)
  BY DEF FlowInv
<1>1. PICK p : p = Loc(ir)
  OBVIOUS
<1>2. PICK s : s = Put(ir, Point)
  OBVIOUS
<1>3. PICK t : t = Put(s, Ret)
  OBVIOUS
<1>4. /\ ir' = t /\ flow' = flow \cup FlowTo(p) /\ pend' = {} /\ phase = "visiting"
      /\ open' = open /\ clean' = (clean /\ top.done # "ret")
  BY <1>1, <1>2, <1>3 DEF EndVoidMethod, AtMethodEnd
<1>5. /\ Stack /\ Good(ir) /\ Unplaced(ir) \subseteq 1..Len(ir.blocks)
      /\ \A b \in Unplaced(ir) : b # ir.at
  BY <1>4, FlowStarts
<1>6. PICK I : FlowAt(ir, flow, pend, open, I)
  BY <1>4, FlowStarts
<1>7. Net(ir, I, flow) /\ I[p] = pend
  BY <1>1, <1>6 DEF FlowAt
<1>8. PICK J : /\ Net(s, J, flow \cup (I[p] \X {p}))
               /\ J[Loc(s)] = {p}
               /\ Same(I, J, Nat)
  <2>1. Good(ir) /\ Net(ir, I, flow) /\ p = Loc(ir)
    BY <1>1, <1>5, <1>7
  <2>. QED BY ONLY <1>2, <2>1, PutPoint
<1>9. PICK g : g = flow \cup FlowTo(p)
  OBVIOUS
<1>10. Net(s, J, g)
  BY <1>7, <1>8, <1>9 DEF FlowTo
<1>11. /\ Good(s) /\ s.at = ir.at /\ Len(s.blocks) = Len(ir.blocks) /\ FirstsKept(ir, s)
       /\ Len(ir.blocks) \in Nat
  BY <1>2, <1>5, OpTypes, PutGood, PutCodes, GoodLen
<1>12. FirstsKept(s, t) /\ Len(t.blocks) = Len(s.blocks)
  BY ONLY <1>3, <1>10, <1>11, PutRet
<1>13. PICK K : /\ Net(t, K, g) /\ K[Loc(t)] = {}
                /\ Joins(J, K, Nat \ {s.at}, {}, J[Loc(s)])
  BY ONLY <1>3, <1>10, <1>11, PutRet
<1>14. Same(I, K, Unplaced(ir))
  <2>. SUFFICES ASSUME NEW b \in Unplaced(ir) PROVE K[<<b, 1>>] = I[<<b, 1>>]
    BY DEF Same
  <2>1. b \in Nat /\ b # s.at
    BY <1>5, <1>11
  <2>2. K[<<b, 1>>] = J[<<b, 1>>] /\ J[<<b, 1>>] = I[<<b, 1>>]
    BY <1>8, <1>13, <2>1 DEF Same, Joins
  <2>. QED BY <2>2
<1>15. FirstsKept(ir, t)
  BY ONLY <1>11, <1>12, FirstsTrans
<1>16. open \in Seq(Frame)
  BY <1>5 DEF Stack
<1>17. FlowAt(t, g, {}, open, K)
  BY <1>5, <1>6, <1>13, <1>14, <1>15, <1>16, FlowStays
<1>. QED BY <1>4, <1>9, <1>17

(* The rest of the steps change nothing but clean, and that for the worse. *)
LEMMA FlowRest ==
  ASSUME FlowInv, UNCHANGED <<ir, flow, pend, open>>, clean' => clean
  PROVE  FlowInv'
BY DEF FlowInv

LEMMA FlowInit == Init => FlowInv
<1>. SUFFICES ASSUME Init PROVE \E I : FlowAt(ir, flow, pend, open, I)
  BY DEF FlowInv
<1>1. PICK C : C = Codes(ir)
  OBVIOUS
<1>2. PICK p : p = <<1, 1>>
  OBVIOUS
<1>3. Good(ir) /\ open = <<Block>> /\ pend = {Entry} /\ flow = {} /\ ir.at = 1
  BY LoweringInit DEF LoweringInv, Stack, Init
<1>4. Len(ir.blocks) = 1 /\ ir.blocks[1].code = <<>>
  BY DEF Init
<1>5. C \in Code1 /\ DOMAIN C = {1} /\ C[1] = <<>> /\ Loc(ir) = p
  <2>1. C \in Code1 /\ DOMAIN C = 1..1 /\ C[1] = <<>>
    BY <1>1, <1>3, <1>4, CodesAre
  <2>. QED BY <1>2, <1>3, <1>4, <2>1, LocIs DEF CodeAt
<1>6. PointsIn(C) = {} /\ p \in PlacesIn(C) /\ p \in Place /\ Entry \in Place
  BY <1>2, <1>5 DEF PointsIn, PlacesIn, Place, Entry
<1>7. PICK L : L = [b \in {1} |-> {p}]
  OBVIOUS
<1>8. L[1] = {p}
  BY <1>7
<1>9. Graph(C, L)
  <2>1. Goes(C, L, 1, 1) = {p}
    BY <1>2, <1>5 DEF Goes, EndsAt
  <2>2. DOMAIN C[1] = {}
    BY <1>5
  <2>3. L[1] = Goes(C, L, 1, 1) /\ L[1] \subseteq PlacesIn(C)
    BY <1>6, <1>8, <2>1
  <2>. QED BY <1>5, <2>2, <2>3 DEF Graph
<1>10. PICK I : I = [q \in Place |-> Into(C, L, q)]
  OBVIOUS
<1>11. Ways(C, I)
  BY <1>9, <1>10 DEF Ways
<1>12. I[p] = {Entry}
  <2>1. After(C, L, Entry) = {p}
    BY <1>8 DEF After
  <2>. QED BY <1>6, <1>10, <2>1 DEF Into
<1>13. Ranked(C)
  <2>1. [b \in DOMAIN C |-> 0] \in [DOMAIN C -> 0..0]
    OBVIOUS
  <2>2. \A b \in DOMAIN C : ~EndsAt(C[b], 1)
    BY <1>5 DEF EndsAt
  <2>. QED BY <2>1, <2>2 DEF Ranked
<1>14. Net(ir, I, flow)
  BY <1>1, <1>3, <1>6, <1>11, <1>13 DEF Net, FlowOf
<1>15. \A i \in DOMAIN open : Waits(C, I, open[i])
  <2>1. Block.kind = "block"
    BY DEF Block, F
  <2>. QED BY <1>3, <2>1 DEF Waits
<1>. QED BY <1>1, <1>3, <1>5, <1>12, <1>14, <1>15 DEF FlowAt

LEMMA FlowStep == LoweringInv /\ RetInv /\ FormInv /\ FlowInv /\ [Next]_vars => FlowInv'
<1>. SUFFICES ASSUME LoweringInv, RetInv, FormInv, FlowInv, [Next]_vars PROVE FlowInv'
  OBVIOUS
<1>1. CASE Empty \/ Break
  BY <1>1, FlowEmpty, FlowBreak
<1>2. CASE ReturnNothing \/ BreakOutsideLoop \/ ForWithoutPart
  <2>1. UNCHANGED <<ir, flow, pend, open>> /\ (clean' => clean)
    BY <1>2 DEF ReturnNothing, BreakOutsideLoop, ForWithoutPart, Starts
  <2>. QED BY <2>1, FlowRest
<1>3. CASE \E e \in Exprs : Simple(e) \/ Return(e) \/ If(e) \/ While(e)
  BY <1>3, FlowSimple, FlowReturn, FlowIf, FlowWhile
<1>4. CASE \E init, e, update \in Exprs : For(init, e, update)
  BY <1>4, FlowFor
<1>5. CASE OpenBlock \/ CloseBlock
  BY <1>5, FlowOpenBlock, FlowCloseBlock
<1>6. CASE Else \/ EndIf \/ EndIfElse
  BY <1>6, FlowElse, FlowEndIf, FlowEndIfElse
<1>7. CASE EndLoop
  BY <1>7, FlowEndLoop
<1>8. CASE MissingReturn \/ EndValueMethod
  <2>1. UNCHANGED <<ir, flow, pend, open>> /\ (clean' => clean)
    BY <1>8 DEF MissingReturn, EndValueMethod
  <2>. QED BY <2>1, FlowRest
<1>9. CASE EndVoidMethod
  BY <1>9, FlowEndVoid
<1>10. CASE UNCHANGED vars
  <2>1. UNCHANGED <<ir, flow, pend, open>> /\ (clean' => clean)
    BY <1>10 DEF vars
  <2>. QED BY <2>1, FlowRest
<1>. QED BY <1>1, <1>2, <1>3, <1>4, <1>5, <1>6, <1>7, <1>8, <1>9, <1>10 DEF Next

-----------------------------------------------------------------------------
(* What control comes to first, as a recursion over the blocks.            *)

(* What holds of 0 and goes on to the next number holds up to n.           *)
LEMMA CountUp ==
  ASSUME NEW n \in Nat, NEW S, 0 \in S, \A i \in 0..(n - 1) : i \in S => i + 1 \in S
  PROVE  \A i \in 0..n : i \in S
<1>. DEFINE T == {i \in 0..n : i \notin S}
            R == OpToRel(<, Nat)
<1>. SUFFICES ASSUME T # {} PROVE FALSE
  OBVIOUS
<1>1. T \subseteq Nat
  OBVIOUS
<1>2. PICK m \in T : \A y \in T : ~ (<<y, m>> \in R)
  <2>. HIDE DEF T, R
  <2>1. IsWellFoundedOn(R, Nat)
    BY NatLessThanWellFounded DEF R
  <2>. QED BY <1>1, <2>1, WFMin
<1>3. \A y \in T : ~(y < m)
  <2>. HIDE DEF T
  <2>. QED BY <1>1, <1>2 DEF OpToRel
<1>4. m \in 1..n /\ m - 1 \in 0..(n - 1)
  OBVIOUS
<1>5. m - 1 \notin T
  BY <1>3, <1>4
<1>. QED BY <1>4, <1>5

(* A function applied again and again.                                     *)
Repeats(X, a, G, f, k) ==
  f \in [0..k -> X] /\ f[0] = a /\ \A i \in 1..k : f[i] = G[f[i - 1]]

LEMMA Repeated ==
  ASSUME NEW n \in Nat, NEW X, NEW a \in X, NEW G \in [X -> X]
  PROVE  \E f : Repeats(X, a, G, f, n)
<1>. DEFINE S == {k \in 0..n : \E f : Repeats(X, a, G, f, k)}
<1>1. 0 \in S
  <2>1. Repeats(X, a, G, [i \in 0..0 |-> a], 0)
    BY DEF Repeats
  <2>. QED BY <2>1
<1>2. ASSUME NEW k \in 0..(n - 1), k \in S PROVE k + 1 \in S
  <2>1. PICK f : Repeats(X, a, G, f, k)
    BY <1>2
  <2>. DEFINE g == [i \in 0..(k + 1) |-> IF i <= k THEN f[i] ELSE G[f[k]]]
  <2>2. \A i \in 0..k : f[i] \in X /\ g[i] = f[i]
    BY <2>1 DEF Repeats
  <2>3. k + 1 \in 0..n /\ k \in 0..k /\ g[k + 1] = G[f[k]]
    OBVIOUS
  <2>4. g[k + 1] \in X
    BY <2>2, <2>3
  <2>5. g \in [0..(k + 1) -> X]
    BY <2>2, <2>4
  <2>6. g[0] = a
    BY <2>1, <2>2 DEF Repeats
  <2>. HIDE DEF g
  <2>7. \A i \in 1..(k + 1) : g[i] = G[g[i - 1]]
    BY <2>1, <2>2, <2>3 DEF Repeats
  <2>. QED BY <2>3, <2>5, <2>6, <2>7 DEF Repeats
<1>3. \A i \in 0..n : i \in S
  <2>. HIDE DEF S
  <2>. QED BY <1>1, <1>2, CountUp
<1>. QED BY <1>3

FirstFun(e) ==
  e = [n \in 0..Len(ir.blocks) |->
         [b \in Blocks |->
            IF Code(b)[1].op = "point" THEN {<<b, 1>>}
            ELSE IF n = 0 THEN {} ELSE UNION {e[n - 1][t] : t \in Targets(b)}]]

LEMMA FirstsExist ==
  ASSUME Len(ir.blocks) \in Nat, Blocks = 1..Len(ir.blocks),
         \A b \in Blocks : Targets(b) \subseteq Blocks
  PROVE  \E e : FirstFun(e)
<1>1. PICK X : X = [Blocks -> SUBSET Place]
  OBVIOUS
<1>. DEFINE a == [b \in Blocks |-> IF Code(b)[1].op = "point" THEN {<<b, 1>>} ELSE {}]
            H(g) == [b \in Blocks |-> IF Code(b)[1].op = "point" THEN {<<b, 1>>}
                                      ELSE UNION {g[t] : t \in Targets(b)}]
            G == [g \in X |-> H(g)]
<1>2. \A b \in Blocks : {<<b, 1>>} \in SUBSET Place
  BY DEF Place
<1>3. a \in X
  BY <1>1, <1>2
<1>4. ASSUME NEW g \in X PROVE H(g) \in X
  <2>1. ASSUME NEW b \in Blocks PROVE UNION {g[t] : t \in Targets(b)} \in SUBSET Place
    BY <1>1
  <2>. QED BY <1>1, <1>2, <2>1
<1>5. G \in [X -> X]
  BY <1>4
<1>6. PICK f : Repeats(X, a, G, f, Len(ir.blocks))
  <2>. HIDE DEF a, G
  <2>. QED BY <1>3, <1>5, Repeated
<1>7. f \in [0..Len(ir.blocks) -> X] /\ f[0] = a
  BY <1>6 DEF Repeats
<1>8. ASSUME NEW n \in 1..Len(ir.blocks) PROVE f[n] = H(f[n - 1])
  <2>1. n - 1 \in 0..Len(ir.blocks)
    OBVIOUS
  <2>2. f[n - 1] \in X
    BY <1>7, <2>1
  <2>3. f[n] = G[f[n - 1]]
    <3>. HIDE DEF G, a
    <3>. QED BY <1>6 DEF Repeats
  <2>. QED BY <2>2, <2>3
<1>9. PICK e : e = [n \in 0..Len(ir.blocks) |->
                      [b \in Blocks |->
                         IF Code(b)[1].op = "point" THEN {<<b, 1>>}
                         ELSE IF n = 0 THEN {} ELSE UNION {f[n - 1][t] : t \in Targets(b)}]]
  OBVIOUS
<1>10. ASSUME NEW n \in 0..Len(ir.blocks) PROVE f[n] = e[n]
  <2>1. CASE n = 0
    BY <1>7, <1>9, <2>1
  <2>2. CASE n # 0
    <3>1. n \in 1..Len(ir.blocks)
      BY <2>2
    <3>. QED BY <1>8, <1>9, <2>2, <3>1
  <2>. QED BY <2>1, <2>2
<1>11. f = e
  BY <1>7, <1>9, <1>10
<1>. QED BY <1>9, <1>11 DEF FirstFun

LEMMA FirstsAre ==
  ASSUME Len(ir.blocks) \in Nat, Blocks = 1..Len(ir.blocks),
         \A b \in Blocks : Targets(b) \subseteq Blocks, NEW n \in 0..Len(ir.blocks), NEW b \in Blocks
  PROVE  FirstPoints[n][b] =
           IF Code(b)[1].op = "point" THEN {<<b, 1>>}
           ELSE IF n = 0 THEN {} ELSE UNION {FirstPoints[n - 1][t] : t \in Targets(b)}
<1>. DEFINE e == CHOOSE f : FirstFun(f)
<1>1. FirstFun(e)
  BY FirstsExist
<1>2. FirstPoints = e
  BY DEF FirstPoints, FirstFun
<1>. HIDE DEF e
<1>3. e[n] = [c \in Blocks |->
               IF Code(c)[1].op = "point" THEN {<<c, 1>>}
               ELSE IF n = 0 THEN {} ELSE UNION {e[n - 1][t] : t \in Targets(c)}]
  BY <1>1, Zenon DEF FirstFun
<1>4. e[n][b] = IF Code(b)[1].op = "point" THEN {<<b, 1>>}
                ELSE IF n = 0 THEN {} ELSE UNION {e[n - 1][t] : t \in Targets(b)}
  BY <1>3, Zenon
<1>. QED BY ONLY <1>2, <1>4, Zenon

(* The ranks, one for each block.                                          *)
LEMMA RanksFew ==
  ASSUME NEW C, NEW N \in Nat, DOMAIN C = 1..N, Ranked(C)
  PROVE  \E Q \in [1..N -> 1..N] :
           \A b \in 1..N : EndsAt(C[b], 1) =>
             \A t \in C[b][1].to \cap (1..N) : First(C, t) \/ Q[b] < Q[t]
<1>1. PICK B \in Nat : \E R \in [DOMAIN C -> 0..B] :
        \A b \in DOMAIN C : EndsAt(C[b], 1) =>
          \A t \in C[b][1].to \cap DOMAIN C : First(C, t) \/ R[b] < R[t]
  BY DEF Ranked
<1>2. PICK R \in [DOMAIN C -> 0..B] :
        \A b \in DOMAIN C : EndsAt(C[b], 1) =>
          \A t \in C[b][1].to \cap DOMAIN C : First(C, t) \/ R[b] < R[t]
  BY <1>1
<1>. DEFINE Below(b) == {c \in 1..N : R[c] <= R[b]}
            Q == [b \in 1..N |-> Cardinality(Below(b))]
<1>3. IsFiniteSet(1..N) /\ Cardinality(1..N) = N
  BY FS_Interval
<1>4. \A b \in 1..N : R[b] \in Nat
  BY <1>2
<1>5. ASSUME NEW b \in 1..N
      PROVE  IsFiniteSet(Below(b)) /\ Cardinality(Below(b)) \in 1..N /\ b \in Below(b)
  <2>1. Below(b) \subseteq 1..N /\ b \in Below(b)
    BY <1>4
  <2>. HIDE DEF Below
  <2>2. IsFiniteSet(Below(b)) /\ Cardinality(Below(b)) <= N
    BY <1>3, <2>1, FS_Subset
  <2>3. Cardinality(Below(b)) \in Nat /\ Cardinality(Below(b)) # 0
    BY <2>1, <2>2, FS_CardinalityType, FS_EmptySet
  <2>. QED BY <2>1, <2>2, <2>3
<1>6. ASSUME NEW b \in 1..N, NEW t \in 1..N, R[b] < R[t] PROVE Q[b] < Q[t]
  <2>1. Below(b) \subseteq Below(t) /\ t \notin Below(b) /\ t \in Below(t)
    BY <1>4, <1>6
  <2>2. IsFiniteSet(Below(b)) /\ IsFiniteSet(Below(t))
    BY <1>5
  <2>3. Q[b] = Cardinality(Below(b)) /\ Q[t] = Cardinality(Below(t))
    OBVIOUS
  <2>. HIDE DEF Below, Q
  <2>4. Below(b) # Below(t)
    BY <2>1
  <2>5. Cardinality(Below(b)) < Cardinality(Below(t))
    BY <2>1, <2>2, <2>4, FS_Subset, FS_CardinalityType
  <2>. QED BY <2>3, <2>5
<1>7. Q \in [1..N -> 1..N]
  BY <1>5
<1>. HIDE DEF Q
<1>8. \A b \in 1..N : EndsAt(C[b], 1) =>
        \A t \in C[b][1].to \cap (1..N) : First(C, t) \/ Q[b] < Q[t]
  BY <1>2, <1>6
<1>. QED BY <1>7, <1>8

-----------------------------------------------------------------------------
(* Complete code: the blocks of A end with a branch inside A or a return.  *)
Complete(C, A) ==
  /\ A \subseteq DOMAIN C
  /\ \A b \in A : Closed(C[b]) /\ \A j \in DOMAIN C[b] : C[b][j].to \subseteq A

Right(C, L, n, b) == FirstPoints[n][b] = L[b] /\ L[b] \subseteq PointsIn(C)

(* A complete block that only branches.                                    *)
LEMMA OnlyBranches ==
  ASSUME NEW C \in Code1, NEW A, Complete(C, A), NEW b \in A
  PROVE  /\ 1 \in DOMAIN C[b] /\ C[b] # <<>>
         /\ ~First(C, b) => EndsAt(C[b], 1) /\ Len(C[b]) = 1 /\ C[b][1].to \subseteq A
<1>1. b \in DOMAIN C /\ Closed(C[b]) /\ \A j \in DOMAIN C[b] : C[b][j].to \subseteq A
  BY DEF Complete
<1>2. C[b] \in Seq(Instr) /\ Len(C[b]) \in Nat /\ DOMAIN C[b] = 1..Len(C[b])
  BY <1>1, CodeDomain
<1>3. 1 \in DOMAIN C[b] /\ C[b] # <<>>
  BY <1>1, <1>2, EmptySeq DEF Closed
<1>4. ASSUME ~First(C, b) PROVE EndsAt(C[b], 1) /\ Len(C[b]) = 1
  BY <1>1, <1>3, <1>4 DEF First, EndsAt, Closed
<1>. QED BY <1>1, <1>3, <1>4

LEMMA LeadsAre ==
  ASSUME Good(ir), NEW C, C = Codes(ir), NEW L, Graph(C, L), Ranked(C),
         NEW A, Complete(C, A), NEW b \in A
  PROVE  Leads(b) = L[b] /\ L[b] \subseteq PointsIn(C)
<1>1. PICK N : N = Len(ir.blocks)
  OBVIOUS
<1>2. /\ C \in Code1 /\ N \in Nat \ {0} /\ DOMAIN C = 1..N /\ Blocks = 1..N /\ A \subseteq 1..N
      /\ \A c \in 1..N : C[c] = Code(c)
  <2>1. Blocks = 1..Len(ir.blocks)
    BY LenProperties DEF Good, IR, Blocks
  <2>2. C \in Code1 /\ DOMAIN C = 1..N /\ N \in Nat \ {0} /\ \A c \in 1..N : C[c] = ir.blocks[c].code
    BY <1>1, CodesAre
  <2>. QED BY <1>1, <2>1, <2>2 DEF Code, Complete
<1>3. PICK Q \in [1..N -> 1..N] :
        \A c \in 1..N : EndsAt(C[c], 1) => \A t \in C[c][1].to \cap (1..N) : First(C, t) \/ Q[c] < Q[t]
  <2>1. N \in Nat /\ DOMAIN C = 1..N /\ Ranked(C)
    BY <1>2
  <2>. QED BY ONLY <2>1, RanksFew
<1>4. ASSUME NEW c \in Blocks PROVE Targets(c) \subseteq Blocks
  <2>1. Code(c) = C[c] /\ C[c] \in Seq(Instr) /\ DOMAIN C[c] = 1..Len(C[c]) /\ Len(C[c]) \in Nat
    BY <1>2, CodeDomain
  <2>2. CASE Code(c) # <<>>
    <3>1. Len(C[c]) \in DOMAIN C[c]
      BY <2>1, <2>2, EmptySeq
    <3>. QED BY <1>2, <2>1, <2>2, <3>1 DEF Targets, Graph
  <2>3. CASE Code(c) = <<>>
    BY <2>3 DEF Targets
  <2>. QED BY <2>2, <2>3
<1>5. ASSUME NEW n \in 0..N, NEW c \in A
      PROVE  FirstPoints[n][c] =
               IF First(C, c) THEN {<<c, 1>>}
               ELSE IF n = 0 THEN {} ELSE UNION {FirstPoints[n - 1][t] : t \in C[c][1].to}
  <2>1. c \in Blocks /\ Code(c) = C[c]
    BY <1>2
  <2>2. FirstPoints[n][c] =
          IF Code(c)[1].op = "point" THEN {<<c, 1>>}
          ELSE IF n = 0 THEN {} ELSE UNION {FirstPoints[n - 1][t] : t \in Targets(c)}
    BY <1>1, <1>2, <1>4, <2>1, FirstsAre
  <2>3. First(C, c) <=> Code(c)[1].op = "point"
    BY <1>2, <2>1, OnlyBranches DEF First, IsTerminator
  <2>4. ASSUME ~First(C, c) PROVE Targets(c) = C[c][1].to
    <3>1. Len(C[c]) = 1 /\ C[c] # <<>>
      <4>1. C \in Code1 /\ Complete(C, A) /\ c \in A
        BY <1>2
      <4>. QED BY ONLY <2>4, <4>1, OnlyBranches
    <3>. QED BY ONLY <2>1, <3>1 DEF Targets
  <2>. QED BY <2>2, <2>3, <2>4
<1>6. ASSUME NEW c \in A
      PROVE  L[c] = IF First(C, c) THEN {<<c, 1>>} ELSE UNION {L[t] : t \in C[c][1].to}
  <2>1. L[c] = Goes(C, L, c, 1)
    BY <1>2 DEF Graph
  <2>2. EndsAt(C[c], 1) <=> ~First(C, c)
    BY <1>2, OnlyBranches DEF EndsAt, First
  <2>. QED BY <2>1, <2>2 DEF Goes
<1>7. ASSUME NEW n \in 0..N, NEW c \in A, First(C, c) PROVE Right(C, L, n, c)
  <2>1. <<c, 1>> \in PointsIn(C)
    <3>1. c \in DOMAIN C /\ 1 \in DOMAIN C[c] /\ ~EndsAt(C[c], 1)
      BY <1>2, <1>7 DEF First, EndsAt
    <3>. QED BY <1>2, <3>1, PlacesAre
  <2>. QED BY <1>5, <1>6, <1>7, <2>1 DEF Right
<1>. DEFINE S == {n \in 0..N : \A c \in A : Q[c] + n >= N + 1 => Right(C, L, n, c)}
<1>8. \A c \in A : Q[c] \in 1..N
  BY <1>2, <1>3
<1>9. 0 \in S
  BY <1>2, <1>8
<1>10. ASSUME NEW n \in 0..(N - 1), n \in S PROVE n + 1 \in S
  <2>1. n \in 0..N /\ n + 1 \in 0..N /\ n + 1 # 0 /\ (n + 1) - 1 = n /\ n \in Nat
    BY <1>2
  <2>2. ASSUME NEW c \in A, Q[c] + (n + 1) >= N + 1 PROVE Right(C, L, n + 1, c)
    <3>1. CASE First(C, c)
      BY <1>7, <2>1, <3>1
    <3>2. CASE ~First(C, c)
      <4>1. EndsAt(C[c], 1) /\ C[c][1].to \subseteq A /\ c \in 1..N
        BY <1>2, <3>2, OnlyBranches
      <4>2. ASSUME NEW t \in C[c][1].to PROVE Right(C, L, n, t)
        <5>1. t \in A /\ t \in C[c][1].to \cap (1..N)
          BY <1>2, <4>1
        <5>2. First(C, t) \/ Q[c] < Q[t]
          BY <1>3, <4>1, <5>1
        <5>3. CASE First(C, t)
          BY <1>7, <2>1, <5>1, <5>3
        <5>4. CASE Q[c] < Q[t]
          <6>1. Q[c] \in Nat /\ Q[t] \in Nat
            BY <1>8, <5>1
          <6>2. Q[t] + n >= N + 1
            <7>1. PICK x, y : x = Q[c] /\ y = Q[t]
              OBVIOUS
            <7>2. x \in Nat /\ y \in Nat /\ x < y /\ x + (n + 1) >= N + 1 /\ n \in Nat /\ N \in Nat
              BY <1>2, <2>1, <2>2, <5>4, <6>1, <7>1
            <7>3. y + n >= N + 1
              BY ONLY <7>2
            <7>. QED BY <7>1, <7>3
          <6>. QED BY <1>10, <5>1, <6>2
        <5>. QED BY <5>2, <5>3, <5>4
      <4>3. FirstPoints[n + 1][c] = UNION {FirstPoints[n][t] : t \in C[c][1].to}
        <5>1. FirstPoints[n + 1][c] = UNION {FirstPoints[(n + 1) - 1][t] : t \in C[c][1].to}
          BY ONLY <1>5, <2>1, <2>2, <3>2
        <5>. QED BY <2>1, <5>1
      <4>4. L[c] = UNION {L[t] : t \in C[c][1].to}
        BY <1>6, <3>2
      <4>5. \A t \in C[c][1].to : FirstPoints[n][t] = L[t] /\ L[t] \subseteq PointsIn(C)
        BY <4>2 DEF Right
      <4>. QED BY ONLY <4>3, <4>4, <4>5 DEF Right
    <3>. QED BY <3>1, <3>2
  <2>. QED BY <2>1, <2>2
<1>11. N \in S
  <2>. HIDE DEF S
  <2>1. N \in Nat /\ 0 \in S /\ \A i \in 0..(N - 1) : i \in S => i + 1 \in S
    BY <1>2, <1>9, <1>10
  <2>2. \A i \in 0..N : i \in S
    BY ONLY <2>1, CountUp
  <2>. QED BY <2>1, <2>2
<1>12. Right(C, L, N, b)
  <2>1. Q[b] + N >= N + 1
    BY <1>2, <1>8
  <2>. QED BY <1>11, <2>1
<1>. QED BY <1>1, <1>12 DEF Right, Leads

-----------------------------------------------------------------------------
(* In complete code the points that follow p are those that control comes  *)
(* to after p.                                                             *)
LEMMA FollowingIs ==
  ASSUME Good(ir), NEW C, C = Codes(ir), NEW L, Graph(C, L), Ranked(C), NEW A, Complete(C, A),
         \A b \in DOMAIN C : b \notin A => C[b] = <<>>, NEW p \in PointsIn(C)
  PROVE  Following(p) = After(C, L, p) /\ After(C, L, p) \subseteq PointsIn(C)
<1>1. C \in Code1 /\ \A b \in DOMAIN C : C[b] = Code(b)
  BY CodesAre DEF Code
<1>2. PICK b, j : b = p[1] /\ j = p[2]
  OBVIOUS
<1>3. /\ b \in DOMAIN C /\ j \in DOMAIN C[b] /\ j \in Nat \ {0} /\ p = <<b, j>> /\ p # Entry
      /\ p \in PointsIn(C)
  BY <1>1, <1>2, PointsAre
<1>4. b \in A
  BY <1>3
<1>5. j + 1 \in DOMAIN C[b] => C[b][j + 1].to \subseteq A
  BY <1>4 DEF Complete
<1>6. ~EndsAt(C[b], j)
  <2>1. <<b, j>> \in PointsIn(C)
    BY <1>3
  <2>. QED BY <1>1, <1>3, <2>1, PlacesAre
<1>7. j + 1 \in DOMAIN C[b] /\ C[b][j + 1].to \subseteq A
  <2>1. DOMAIN C[b] = 1..Len(C[b]) /\ Len(C[b]) \in Nat
    BY <1>1, <1>3, CodeDomain
  <2>2. Closed(C[b])
    BY <1>4 DEF Complete
  <2>3. j # Len(C[b])
    BY <1>3, <1>6, <2>2 DEF Closed, EndsAt
  <2>4. j + 1 \in DOMAIN C[b]
    <3>1. PICK n : n = Len(C[b])
      OBVIOUS
    <3>2. j \in 1..n /\ n \in Nat /\ j # n
      BY <1>3, <2>1, <2>3, <3>1
    <3>3. j + 1 \in 1..n
      BY ONLY <3>2
    <3>. QED BY <2>1, <3>1, <3>3
  <2>. QED BY <1>5, <2>4
<1>8. After(C, L, p) = Goes(C, L, b, j + 1)
  BY <1>2, <1>3 DEF After
<1>9. C[b] = Code(p[1]) /\ j + 1 = p[2] + 1
  BY <1>1, <1>2, <1>3
<1>10. CASE EndsAt(C[b], j + 1)
  <2>1. \A t \in C[b][j + 1].to : Leads(t) = L[t] /\ L[t] \subseteq PointsIn(C)
    BY <1>7, LeadsAre
  <2>2. After(C, L, p) = UNION {L[t] : t \in C[b][j + 1].to}
    BY <1>8, <1>10 DEF Goes
  <2>3. C[b][j + 1].op # "point"
    BY <1>10 DEF EndsAt, IsTerminator
  <2>4. Following(p) = UNION {Leads(t) : t \in C[b][j + 1].to}
    BY <1>9, <2>3 DEF Following
  <2>. QED BY ONLY <2>1, <2>2, <2>4
<1>11. CASE ~EndsAt(C[b], j + 1)
  <2>1. After(C, L, p) = {<<b, j + 1>>}
    BY <1>8, <1>11 DEF Goes
  <2>2. C[b][j + 1].op = "point"
    BY <1>7, <1>11 DEF EndsAt, IsTerminator
  <2>3. Following(p) = {<<b, j + 1>>}
    BY <1>2, <1>9, <2>2 DEF Following
  <2>4. <<b, j + 1>> \in PointsIn(C)
    BY <1>1, <1>3, <1>7, <1>11, PlacesAre
  <2>. QED BY <2>1, <2>3, <2>4
<1>. QED BY <1>10, <1>11

LEMMA EmittedIs ==
  ASSUME Good(ir), NEW C, C = Codes(ir), NEW L, Graph(C, L), Ranked(C), NEW A, Complete(C, A),
         \A b \in DOMAIN C : b \notin A => C[b] = <<>>, 1 \in A,
         NEW I, \A q \in Place : I[q] = Into(C, L, q)
  PROVE  EmittedFlow = FlowOf(C, I)
<1>1. C \in Code1 /\ \A b \in DOMAIN C : C[b] = Code(b)
  BY CodesAre DEF Code
<1>2. Blocks = DOMAIN C
  <2>1. Blocks = 1..Len(ir.blocks)
    BY LenProperties DEF Good, IR, Blocks
  <2>. QED BY <2>1, CodesAre
<1>3. Points = PointsIn(C)
  <2>1. ASSUME NEW b \in DOMAIN C, NEW j \in DOMAIN C[b]
        PROVE  j \in Nat /\ (<<b, j>> \in PointsIn(C) <=> Code(b)[j].op = "point")
    <3>1. j \in Nat
      BY <1>1, CodeDomain
    <3>2. <<b, j>> \in PointsIn(C) <=> j \in DOMAIN C[b] /\ ~EndsAt(C[b], j)
      BY <1>1, <3>1, PlacesAre
    <3>. QED BY <1>1, <3>1, <3>2 DEF EndsAt, IsTerminator
  <2>2. \A x : x \in Points <=>
          \E b \in DOMAIN C : \E j \in DOMAIN C[b] : Code(b)[j].op = "point" /\ x = <<b, j>>
    BY <1>1, <1>2 DEF Points
  <2>3. ASSUME NEW x \in Points PROVE x \in PointsIn(C)
    BY <2>1, <2>2
  <2>4. ASSUME NEW x \in PointsIn(C) PROVE x \in Points
    <3>1. x[1] \in DOMAIN C /\ x[2] \in DOMAIN C[x[1]] /\ x = <<x[1], x[2]>>
      BY <1>1, PointsAre
    <3>2. Code(x[1])[x[2]].op = "point"
      BY <2>1, <3>1
    <3>. QED BY <2>2, <3>1, <3>2
  <2>. QED BY <2>3, <2>4
<1>4. ASSUME NEW p \in PointsIn(C)
      PROVE  Following(p) = After(C, L, p) /\ After(C, L, p) \subseteq PointsIn(C) /\ p # Entry
  BY <1>1, FollowingIs, PointsAre
<1>5. Leads(1) = After(C, L, Entry) /\ After(C, L, Entry) \subseteq PointsIn(C)
  BY LeadsAre DEF After
<1>6. ASSUME NEW x
      PROVE  x \in EmittedFlow <=>
               \E p \in PointsIn(C) \cup {Entry} : \E q \in After(C, L, p) : x = <<p, q>>
  <2>1. x \in EmittedFlow <=> \/ \E q \in Leads(1) : x = <<Entry, q>>
                              \/ \E p \in Points : \E q \in Following(p) : x = <<p, q>>
    BY DEF EmittedFlow
  <2>. QED BY ONLY <1>3, <1>4, <1>5, <2>1
<1>7. ASSUME NEW x
      PROVE  x \in FlowOf(C, I) <=>
               \E p \in PointsIn(C) \cup {Entry} : \E q \in After(C, L, p) : x = <<p, q>>
  <2>1. x \in FlowOf(C, I) <=> \E q \in PointsIn(C) : \E p \in I[q] : x = <<p, q>>
    BY FlowPair
  <2>2. \A q \in PointsIn(C) : I[q] = {p \in PointsIn(C) \cup {Entry} : q \in After(C, L, p)}
    BY DEF PointsIn, Into
  <2>3. \A p \in PointsIn(C) \cup {Entry} : After(C, L, p) \subseteq PointsIn(C)
    BY <1>4, <1>5
  <2>. QED BY ONLY <2>1, <2>2, <2>3
<1>. QED BY <1>6, <1>7

(* Generated code of a clean body is complete.                             *)
LEMMA FlowEmitted ==
  ASSUME Stack, DangleInv, FormInv, FlowInv, NoDanglingTarget, phase = "generated", clean
  PROVE  EmittedFlow = flow
<1>1. Good(ir) /\ Blocks = 1..Len(ir.blocks)
  BY LenProperties DEF Stack, Good, IR, Blocks
<1>2. PICK C : C = Codes(ir)
  OBVIOUS
<1>3. DOMAIN C = 1..Len(ir.blocks) /\ \A b \in DOMAIN C : C[b] = ir.blocks[b].code
  BY <1>1, <1>2, CodesAre
<1>4. PICK I : FlowAt(ir, flow, pend, open, I)
  BY DEF FlowInv
<1>5. Ways(C, I) /\ Ranked(C) /\ flow = FlowOf(C, I)
  BY <1>2, <1>4 DEF FlowAt, Net
<1>6. PICK L : Graph(C, L) /\ \A q \in Place : I[q] = Into(C, L, q)
  BY <1>5 DEF Ways
<1>7. PICK A : A = InPlace(ir)
  OBVIOUS
<1>8. Tidy(ir, {}) /\ Closed(CodeAt(ir))
  BY DEF FormInv, Shut
<1>9. A \subseteq DOMAIN C /\ 1 \in A /\ ir.at \in A
  BY <1>3, <1>7 DEF InPlace, DangleInv, Safe
<1>10. \A b \in DOMAIN C : IF b \in A THEN Closed(C[b]) ELSE C[b] = <<>>
  <2>1. ASSUME NEW b \in DOMAIN C, b # ir.at
        PROVE  IF b \in A THEN Closed(C[b]) ELSE C[b] = <<>>
    BY <1>3, <1>7, <1>8, <2>1 DEF Tidy
  <2>2. ir.at \in DOMAIN C => Closed(C[ir.at])
    BY <1>3, <1>8 DEF CodeAt
  <2>. QED BY <1>9, <2>1, <2>2
<1>11. ASSUME NEW b \in A, NEW j \in DOMAIN C[b] PROVE C[b][j].to \subseteq A
  <2>1. b \in Blocks /\ Placed(b) /\ C[b] = Code(b)
    BY <1>1, <1>3, <1>7, <1>9 DEF InPlace, Placed, Code
  <2>2. ASSUME NEW t \in C[b][j].to PROVE Placed(t)
    BY <2>1 DEF NoDanglingTarget
  <2>3. C[b][j].to \subseteq DOMAIN C
    BY <1>6, <1>9 DEF Graph
  <2>. QED BY <1>3, <1>7, <2>2, <2>3 DEF InPlace, Placed
<1>12. Complete(C, A)
  BY <1>9, <1>10, <1>11 DEF Complete
<1>13. \A b \in DOMAIN C : b \notin A => C[b] = <<>>
  BY <1>10
<1>14. EmittedFlow = FlowOf(C, I)
  BY ONLY <1>1, <1>2, <1>5, <1>6, <1>9, <1>12, <1>13, EmittedIs
<1>. QED BY <1>5, <1>14

(* For bodies of any size and nesting: when code is generated for a body   *)
(* in which nothing runs on after a returning statement, the branches take *)
(* control from the entry and from every point exactly to the points that  *)
(* the statements send it to, through blocks that only branch as well.     *)
THEOREM FlowCorrect == Spec => []FlowIsPreserved
<1>. DEFINE Inv == LoweringInv /\ RetInv /\ DangleInv /\ FormInv /\ FlowInv
<1>1. Init => Inv
  BY LoweringInit, RetInit, DangleInit, FormInit, FlowInit
<1>2. Inv /\ [Next]_vars => Inv'
  BY LoweringStep, RetStep, DangleStep, FormStep, FlowStep
<1>3. Inv /\ NoDanglingTarget => FlowIsPreserved
  BY FlowEmitted DEF LoweringInv, FlowIsPreserved
<1>4. Spec => []NoDanglingTarget
  BY BranchesStayInside
<1>. QED BY <1>1, <1>2, <1>3, <1>4, PTL DEF Spec
=============================================================================
