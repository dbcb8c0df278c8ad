------------------------------- MODULE VTable -------------------------------
(***************************************************************************)
(* VTable::generate: the virtual method tables of an accepted program.     *)
(* The public generate takes the classes in source order; the private one  *)
(* is memoised on funsVec and recurses to the base first, so that a class  *)
(* may be written before its base.  A table starts as a copy of the base's *)
(* and the methods of the class replace the inherited entry of their name  *)
(* or are added at the end.  All methods are entered, static ones too.     *)
(*                                                                         *)
(* A call through an object finds the slot of the method's name in the     *)
(* table of the STATIC class (VTable::getFunctionPtr) and reads that slot  *)
(* of the table its vptr points to, the one of the DYNAMIC class.          *)
(***************************************************************************)
EXTENDS AcceptedProgram

CONSTANT MethodName   \* method names

ASSUME FiniteMethodNames == IsFiniteSet(MethodName)

VARIABLES
  methods,    \* getMethodMap: the methods of each class by source position
  nextTable,  \* the class the loop of the public generate is at
  calls,      \* the classes of the active calls of the private generate
  turn,       \* the loop over the class's methods: 0 before it starts
  vec,        \* curFunVec of the innermost call, from the copy on
  funs        \* funsVec: the tables built so far

accepted == <<base, order, methods>>
tableVars == <<base, order, methods, nextTable, calls, turn, vec, funs>>

(* The function a slot holds is named after the class that defines it.     *)
Slot == [name : MethodName, owner : Name]

TableInit ==
  /\ base \in BaseMap /\ Acyclic(base)
  /\ order \in SourceOrders
  /\ methods \in [Name -> Rows(MethodName)]
  /\ nextTable = 1
  /\ calls = <<>>
  /\ turn = 0
  /\ vec = <<>>
  /\ funs = <<>>

Built(c) == c \in DOMAIN funs
cur == calls[Len(calls)]
Defines(c, m) == \E i \in DOMAIN methods[c] : methods[c][i] = m
SlotOf(table, m) == CHOOSE s \in DOMAIN table : table[s].name = m
HasSlot(table, m) == \E s \in DOMAIN table : table[s].name = m

-----------------------------------------------------------------------------
(* The loop of the public generate; a table that exists is not made again. *)
NextTable ==
  /\ calls = <<>> /\ nextTable \in DOMAIN order
  /\ calls' = IF Built(order[nextTable]) THEN <<>> ELSE <<order[nextTable]>>
  /\ nextTable' = nextTable + 1
  /\ UNCHANGED <<accepted, turn, vec, funs>>

Entering == calls # <<>> /\ turn = 0

(* Mutant: the recursion goes to the base without looking at funsVec.      *)
GenerateBaseTableAgain ==
  /\ Entering
  /\ base[cur] # NoBase
  /\ calls' = Append(calls, base[cur])
  /\ UNCHANGED <<accepted, nextTable, turn, vec, funs>>

GenerateBaseTable ==
  /\ Entering
  /\ base[cur] # NoBase /\ ~Built(base[cur])
  /\ calls' = Append(calls, base[cur])
  /\ UNCHANGED <<accepted, nextTable, turn, vec, funs>>

(* Mutant: the table of the class starts empty.                            *)
StartEmpty ==
  /\ Entering
  /\ base[cur] # NoBase => Built(base[cur])
  /\ vec' = <<>>
  /\ turn' = 1
  /\ UNCHANGED <<accepted, nextTable, calls, funs>>

CopyBaseTable ==
  /\ Entering
  /\ base[cur] # NoBase => Built(base[cur])
  /\ vec' = IF base[cur] = NoBase THEN <<>> ELSE funs[base[cur]]
  /\ turn' = 1
  /\ UNCHANGED <<accepted, nextTable, calls, funs>>

Filling == calls # <<>> /\ turn # 0 /\ turn \in DOMAIN methods[cur]
method == methods[cur][turn]

(* Mutant: an inherited entry is found but keeps the base's function.      *)
KeepInherited ==
  /\ Filling
  /\ HasSlot(vec, method)
  /\ turn' = turn + 1
  /\ UNCHANGED <<accepted, nextTable, calls, vec, funs>>

ReplaceMethod ==
  /\ Filling
  /\ HasSlot(vec, method)
  /\ vec' = [vec EXCEPT ![SlotOf(vec, method)].owner = cur]
  /\ turn' = turn + 1
  /\ UNCHANGED <<accepted, nextTable, calls, funs>>

(* Mutant: a method is added without looking for an inherited entry.       *)
AddAlways ==
  /\ Filling
  /\ vec' = Append(vec, [name |-> method, owner |-> cur])
  /\ turn' = turn + 1
  /\ UNCHANGED <<accepted, nextTable, calls, funs>>

AddMethod ==
  /\ Filling
  /\ ~HasSlot(vec, method)
  /\ vec' = Append(vec, [name |-> method, owner |-> cur])
  /\ turn' = turn + 1
  /\ UNCHANGED <<accepted, nextTable, calls, funs>>

(* The global variable with the table's contents is made, the table stored *)
(* and the call returns to its caller.                                     *)
FinishTable ==
  /\ calls # <<>> /\ turn # 0 /\ turn \notin DOMAIN methods[cur]
  /\ funs' = [c \in DOMAIN funs \cup {cur} |-> IF c = cur THEN vec ELSE funs[c]]
  /\ calls' = SubSeq(calls, 1, Len(calls) - 1)
  /\ turn' = 0
  /\ vec' = <<>>
  /\ UNCHANGED <<accepted, nextTable>>

TableNext ==
  \/ NextTable \/ GenerateBaseTable \/ CopyBaseTable
  \/ ReplaceMethod \/ AddMethod \/ FinishTable

TableSpec == TableInit /\ [][TableNext]_tableVars

(* One thread runs generate to its end.                                    *)
FairTableSpec == TableSpec /\ WF_tableVars(TableNext)

-----------------------------------------------------------------------------
Defs == [c \in Name |-> {methods[c][i] : i \in DOMAIN methods[c]}]

Names(table) == {table[s].name : s \in DOMAIN table}

tables ==
  [c \in DOMAIN funs |-> [m \in Names(funs[c]) |-> funs[c][SlotOf(funs[c], m)].owner]]

Dispatch == INSTANCE DispatchTables WITH
  Method <- MethodName, defs <- Defs, table <- tables

(* Types, and the shape of the recursion: the active calls run from a      *)
(* class up its bases, none of them has a table yet, and the method loop   *)
(* runs in the innermost one only.                                         *)
TableTypeOK ==
  /\ base \in BaseMap /\ Acyclic(base)
  /\ order \in SourceOrders
  /\ methods \in [Name -> Rows(MethodName)]
  /\ nextTable \in Nat
  /\ calls \in Seq(Name)
  /\ \A i \in DOMAIN calls : ~Built(calls[i])
  /\ \A i \in DOMAIN calls : i > 1 => calls[i] = base[calls[i - 1]]
  /\ turn \in Nat /\ (turn # 0 => calls # <<>>)
  /\ vec \in Seq(Slot) /\ (turn = 0 => vec = <<>>)
  /\ DOMAIN funs \subseteq Name
  /\ \A c \in DOMAIN funs : funs[c] \in Seq(Slot)

(* getFunctionPtr takes a method's slot from the static class c and reads  *)
(* it in the table of the object's class d: whenever d is c or derives     *)
(* from it, that slot exists in d's table, is for the same method, and     *)
(* holds the function of the most derived class that defines it for d.     *)
VirtualCallsDispatch ==
  \A c, d \in DOMAIN funs : IsSubclass(base, d, c) =>
    \A s \in DOMAIN funs[c] :
      /\ s \in DOMAIN funs[d]
      /\ funs[d][s].name = funs[c][s].name
      /\ MostDerived(base, Defs, d, funs[d][s].name, funs[d][s].owner)

(* Through getFunction and getFunctionPtr no method of the class or of a   *)
(* base is missed, and a name stands in one slot only: the first match of  *)
(* their linear search is the only one.                                    *)
TablesAreComplete ==
  \A c \in DOMAIN funs :
    /\ Names(funs[c]) = Understood(base, Defs, c)
    /\ \A s, t \in DOMAIN funs[c] : funs[c][s].name = funs[c][t].name => s = t

(* The recursive, slot-by-slot generation implements the abstract tables,  *)
(* and every class gets one, in whatever order the classes are written.    *)
ImplementsDispatchTables == Dispatch!Spec
=============================================================================
