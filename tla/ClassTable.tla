----------------------------- MODULE ClassTable -----------------------------
(***************************************************************************)
(* The first two passes of SymbolChecker::visitTopLevel over the class     *)
(* definitions of a program: CHECK_CLASS declares every class and records  *)
(* its base in BaseChecker, CHECK_BASE follows the chain of bases of every *)
(* class to find undefined bases and cycles.  A program that passes both   *)
(* reaches CHECK_MEMBER, where every later lookup, subtype test, vtable    *)
(* and constructor walks the same map and relies on it to be a forest.     *)
(*                                                                         *)
(* A definition is known by its place in the program: places are in source *)
(* order, as the positions (Pos) that key the scopes are.                  *)
(***************************************************************************)
EXTENDS Hierarchy

CONSTANT MaxDefs   \* bound on the number of class definitions in a program

ASSUME MaxDefsAssumption == MaxDefs \in Nat \ {0}

(* A classDef of the parse tree; base is NoBase without an extendClause.   *)
ClassDef == [name : Name, base : Name \cup {NoBase}]

(* The grammar wants at least one class.                                   *)
Programs == UNION {[1..n -> ClassDef] : n \in 1..MaxDefs}

VARIABLES
  prog,          \* the class definitions, as parsed
  phase,         \* SymbolChecker::phase, or REJECTED once the pass gave up
  at,            \* the definition visitChildren has reached
  symbols,       \* GlobalScope::symbols: the definition that declared a name
  bases,         \* BaseChecker::bases
  ptr,           \* the symbol the loop of checkBase is at; NoBase outside it
  symbolFailed,  \* SymbolChecker::symbolFailed
  errors         \* the errors reported so far, each with its definition

vars == <<prog, phase, at, symbols, bases, ptr, symbolFailed, errors>>

Phases == {"CHECK_CLASS", "CHECK_BASE", "CHECK_MEMBER", "REJECTED"}
ErrorKinds == {"CONFLICT_DECLAR", "CLASS_NOT_FOUND", "CYCLIC_INHERITANCE"}

-----------------------------------------------------------------------------
(* Scope::lookup in the global scope finds nothing for the empty name.     *)
Declared(n) == n \in Name /\ symbols[n] # 0

SetBase(me, base) == bases' = [bases EXCEPT ![me] = base]

GetBase(me) == bases[me]

Report(kind) ==
  /\ errors' = errors \cup {[kind |-> kind, def |-> at]}
  /\ symbolFailed' = TRUE

NoReport == UNCHANGED <<errors, symbolFailed>>

Init ==
  /\ prog \in Programs
  /\ phase = "CHECK_CLASS"
  /\ at = 1
  /\ symbols = [n \in Name |-> 0]
  /\ bases = [n \in Name |-> NoBase]
  /\ ptr = NoBase
  /\ symbolFailed = FALSE
  /\ errors = {}

Visiting(ph) == phase = ph /\ at \in DOMAIN prog
PassOver(ph) == phase = ph /\ at \notin DOMAIN prog

-----------------------------------------------------------------------------
(* addClasses: a second class of the same name is an error and leaves the  *)
(* first one, with its base, in place.                                     *)
AddClassConflict ==
  /\ Visiting("CHECK_CLASS")
  /\ Declared(prog[at].name)
  /\ Report("CONFLICT_DECLAR")
  /\ at' = at + 1
  /\ UNCHANGED <<prog, phase, symbols, bases, ptr>>

AddClass ==
  /\ Visiting("CHECK_CLASS")
  /\ ~Declared(prog[at].name)
  /\ symbols' = [symbols EXCEPT ![prog[at].name] = at]
  /\ IF prog[at].base = NoBase
     THEN UNCHANGED bases
     ELSE SetBase(prog[at].name, prog[at].base)
  /\ at' = at + 1
  /\ NoReport
  /\ UNCHANGED <<prog, phase, ptr>>

(* The base pass runs whether or not the class pass found an error.        *)
StartBasePass ==
  /\ PassOver("CHECK_CLASS")
  /\ phase' = "CHECK_BASE"
  /\ at' = 1
  /\ NoReport
  /\ UNCHANGED <<prog, symbols, bases, ptr>>

-----------------------------------------------------------------------------
CheckingBase == Visiting("CHECK_BASE") /\ ptr = NoBase
Walking      == Visiting("CHECK_BASE") /\ ptr # NoBase

SkipRoot ==
  /\ CheckingBase
  /\ prog[at].base = NoBase
  /\ at' = at + 1
  /\ NoReport
  /\ UNCHANGED <<prog, phase, symbols, bases, ptr>>

(* Mutant: a base must be written before the class that extends it.        *)
BaseNotSeenYet ==
  /\ CheckingBase
  /\ prog[at].base # NoBase
  /\ Declared(prog[at].base) => symbols[prog[at].base] > at
  /\ Report("CLASS_NOT_FOUND")
  /\ at' = at + 1
  /\ UNCHANGED <<prog, phase, symbols, bases, ptr>>

BaseNotFound ==
  /\ CheckingBase
  /\ prog[at].base # NoBase
  /\ ~Declared(prog[at].base)
  /\ Report("CLASS_NOT_FOUND")
  /\ at' = at + 1
  /\ UNCHANGED <<prog, phase, symbols, bases, ptr>>

(* The chain starts at the base the definition names.                      *)
StartWalk ==
  /\ CheckingBase
  /\ Declared(prog[at].base)
  /\ ptr' = prog[at].base
  /\ NoReport
  /\ UNCHANGED <<prog, phase, at, symbols, bases>>

(* Mutant: the cycle is cut without failing the pass.                      *)
CutCycleSilently ==
  /\ Walking
  /\ ptr = prog[at].name
  /\ SetBase(ptr, NoBase)
  /\ ptr' = NoBase
  /\ at' = at + 1
  /\ NoReport
  /\ UNCHANGED <<prog, phase, symbols>>

(* Mutant: the cycle is reported but the relation is not cut off.          *)
ReportCycleOnly ==
  /\ Walking
  /\ ptr = prog[at].name
  /\ Report("CYCLIC_INHERITANCE")
  /\ ptr' = NoBase
  /\ at' = at + 1
  /\ UNCHANGED <<prog, phase, symbols, bases>>

(* The chain came back to the class: report and cut the cycle here.        *)
CutCycle ==
  /\ Walking
  /\ ptr = prog[at].name
  /\ Report("CYCLIC_INHERITANCE")
  /\ SetBase(ptr, NoBase)
  /\ ptr' = NoBase
  /\ at' = at + 1
  /\ UNCHANGED <<prog, phase, symbols>>

(* Mutant: the result of the lookup is not tested for a null symbol.       *)
WalkUpUnchecked ==
  /\ Walking
  /\ ptr # prog[at].name
  /\ GetBase(ptr) # NoBase
  /\ ptr' = GetBase(ptr)
  /\ NoReport
  /\ UNCHANGED <<prog, phase, at, symbols, bases>>

WalkUp ==
  /\ Walking
  /\ ptr # prog[at].name
  /\ Declared(GetBase(ptr))
  /\ ptr' = GetBase(ptr)
  /\ NoReport
  /\ UNCHANGED <<prog, phase, at, symbols, bases>>

(* Mutant: the walk also drops a base that is not declared.                *)
EndWalkDropBase ==
  /\ Walking
  /\ ptr # prog[at].name
  /\ ~Declared(GetBase(ptr))
  /\ SetBase(ptr, NoBase)
  /\ ptr' = NoBase
  /\ at' = at + 1
  /\ NoReport
  /\ UNCHANGED <<prog, phase, symbols>>

(* No base, or one that is not declared: its own definition reports that.  *)
EndWalk ==
  /\ Walking
  /\ ptr # prog[at].name
  /\ ~Declared(GetBase(ptr))
  /\ ptr' = NoBase
  /\ at' = at + 1
  /\ NoReport
  /\ UNCHANGED <<prog, phase, symbols, bases>>

(* The members are checked only when both passes found no error.           *)
FinishBasePass ==
  /\ PassOver("CHECK_BASE")
  /\ phase' = IF symbolFailed THEN "REJECTED" ELSE "CHECK_MEMBER"
  /\ at' = 1
  /\ NoReport
  /\ UNCHANGED <<prog, symbols, bases, ptr>>

Next ==
  \/ AddClassConflict \/ AddClass \/ StartBasePass
  \/ SkipRoot \/ BaseNotFound \/ StartWalk
  \/ CutCycle \/ WalkUp \/ EndWalk
  \/ FinishBasePass

Spec == Init /\ [][Next]_vars

(* One thread runs the passes to their end: a step that can be taken is.   *)
FairSpec == Spec /\ WF_vars(Next)

-----------------------------------------------------------------------------
Finished == phase \in {"CHECK_MEMBER", "REJECTED"}

DistinctNames(p) == \A i, j \in DOMAIN p : p[i].name = p[j].name => i = j

BasesDefined(p) ==
  \A i \in DOMAIN p : p[i].base = NoBase \/ \E j \in DOMAIN p : p[j].name = p[i].base

(* No set of definitions in which each extends another of the set.         *)
NoCyclicInheritance(p) ==
  \A S \in SUBSET DOMAIN p :
    (\A i \in S : \E j \in S : p[j].name = p[i].base) => S = {}

Legal(p) == DistinctNames(p) /\ BasesDefined(p) /\ NoCyclicInheritance(p)

(* The inheritance the source text states, when no name is defined twice.  *)
StatedBases(p) ==
  [n \in Name |->
     IF \E i \in DOMAIN p : p[i].name = n
     THEN p[CHOOSE i \in DOMAIN p : p[i].name = n].base
     ELSE NoBase]

SameCycle(b, c, d) == c \in Ancestors(b, d) /\ d \in Ancestors(b, c)

(* A definition that is on no cycle itself but inherits from one whose     *)
(* members are all defined after it.                                       *)
EarlyLasso(p) ==
  LET b == StatedBases(p)
  IN  \E i \in DOMAIN p :
        /\ ~OnCycle(b, p[i].name)
        /\ \E c \in Ancestors(b, p[i].name) :
             /\ OnCycle(b, c)
             /\ \A j \in DOMAIN p : SameCycle(b, p[j].name, c) => i < j

-----------------------------------------------------------------------------
(* Types; the loop of checkBase never stands on a null symbol, and the     *)
(* flag that gates the later phases agrees with the reported errors.       *)
TypeOK ==
  /\ prog \in Programs
  /\ phase \in Phases
  /\ at \in Nat /\ (at = 1 \/ at - 1 \in DOMAIN prog)
  /\ symbols \in [Name -> {0} \cup DOMAIN prog]
  /\ bases \in BaseMap
  /\ ptr \in Name \cup {NoBase}
  /\ symbolFailed \in BOOLEAN
  /\ errors \subseteq [kind : ErrorKinds, def : DOMAIN prog]
  /\ ptr # NoBase => Walking /\ Declared(ptr)
  /\ symbolFailed <=> errors # {}

(* What every later phase relies on: when the member pass starts, each     *)
(* name has one definition, BaseChecker holds exactly the inheritance the  *)
(* program states, and following it from any class ends.                   *)
AcceptedIsForest ==
  phase = "CHECK_MEMBER" =>
    /\ \A i \in DOMAIN prog : symbols[prog[i].name] = i
    /\ \A i \in DOMAIN prog : bases[prog[i].name] = prog[i].base
    /\ \A c \in Name : bases[c] # NoBase => Declared(c) /\ Declared(bases[c])
    /\ Acyclic(bases)

(* No program with a legal hierarchy is turned down, in whatever order its *)
(* classes are written.                                                    *)
LegalIsAccepted == Legal(prog) => ~symbolFailed

(* The comment in checkBase: the relation is cut off so that errors are    *)
(* not duplicated.  Each cycle is reported at exactly one of its classes,  *)
(* and a class that only inherits from a cycle is not reported.            *)
EachCycleReportedOnce ==
  Finished /\ DistinctNames(prog) =>
    LET b == StatedBases(prog)
        Blamed(d) == [kind |-> "CYCLIC_INHERITANCE", def |-> d] \in errors
    IN  /\ \A d \in DOMAIN prog : Blamed(d) => OnCycle(b, prog[d].name)
        /\ \A c \in Name : OnCycle(b, c) =>
             \E d \in DOMAIN prog :
               /\ Blamed(d) /\ SameCycle(b, prog[d].name, c)
               /\ \A e \in DOMAIN prog :
                    Blamed(e) /\ SameCycle(b, prog[e].name, c) => e = d

(* The base pass changes the inheritance only by cutting the class at hand *)
(* off a cycle it lies on; a base that is not defined is left alone.  (A   *)
(* second definition of a name is walked with the bases of the first, and  *)
(* may be blamed for a cycle that is not there.)                           *)
OnlyCyclesAreCut ==
  [][phase = "CHECK_BASE" /\ DistinctNames(prog) /\ bases' # bases =>
       /\ OnCycle(bases, prog[at].name)
       /\ bases' = [bases EXCEPT ![prog[at].name] = NoBase]]_vars

(* The loop of checkBase only knows it is on a cycle when it comes back to *)
(* the class it started from.  With each name defined once, the passes end *)
(* exactly for the programs that have no definition inheriting from a      *)
(* cycle written entirely after it; for those, the pass that is meant to   *)
(* "remove cyclic inheritance" follows the cycle for ever.                 *)
EndsUnlessEarlyLasso ==
  /\ DistinctNames(prog) /\ ~EarlyLasso(prog) => <>Finished
  /\ DistinctNames(prog) /\ EarlyLasso(prog) => []~Finished
=============================================================================
