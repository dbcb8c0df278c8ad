-------------------------- MODULE ClassTableProofs --------------------------
(***************************************************************************)
(* For every set of names and every program: the class and base passes     *)
(* hand a forest to the member pass, turn down no legal program, and blame *)
(* one class of each cycle.                                                *)
(***************************************************************************)
EXTENDS ClassTable, HierarchyProofs, TLAPS

(* A program is a nonempty row of class definitions.                       *)
LEMMA ProgramShape ==
  ASSUME NEW p \in Programs
  PROVE  \E n \in Nat \ {0} : DOMAIN p = 1..n /\ p \in [1..n -> ClassDef]
<1>1. PICK n \in 1..MaxDefs : p \in [1..n -> ClassDef]
  BY DEF Programs
<1>2. n \in Nat \ {0}
  BY MaxDefsAssumption
<1>. QED BY <1>1, <1>2

LEMMA DefShape ==
  ASSUME NEW p \in Programs, NEW i \in DOMAIN p
  PROVE  /\ i \in Nat \ {0}
         /\ p[i].name \in Name
         /\ p[i].base \in Name \cup {NoBase}
<1>1. PICK n \in Nat \ {0} : DOMAIN p = 1..n /\ p \in [1..n -> ClassDef]
  BY ProgramShape
<1>2. p[i] \in ClassDef
  BY <1>1
<1>. QED BY <1>1, <1>2 DEF ClassDef

-----------------------------------------------------------------------------
(* The types hold in every reachable state, and the loop of checkBase      *)
(* (SymbolChecker.cpp:249-264) never dereferences a null symbol.           *)
LEMMA TypeInit == Init => TypeOK
<1>. SUFFICES ASSUME Init PROVE TypeOK
  OBVIOUS
<1>1. 1 \in Nat /\ symbols \in [Name -> {0} \cup DOMAIN prog] /\ bases \in BaseMap
  BY DEF Init, BaseMap
<1>2. errors \subseteq [kind : ErrorKinds, def : DOMAIN prog] /\ (symbolFailed <=> errors # {})
  BY DEF Init
<1>. QED BY <1>1, <1>2 DEF Init, TypeOK, Phases

(* An error is reported at the definition at hand and fails the pass.      *)
LEMMA ReportType ==
  ASSUME TypeOK, at \in DOMAIN prog, NEW k \in ErrorKinds, Report(k)
  PROVE  /\ symbolFailed' = TRUE
         /\ errors' \subseteq [kind : ErrorKinds, def : DOMAIN prog]
         /\ errors' # {}
<1>1. [kind |-> k, def |-> at] \in [kind : ErrorKinds, def : DOMAIN prog]
  OBVIOUS
<1>2. errors' = errors \cup {[kind |-> k, def |-> at]}
  BY DEF Report
<1>. QED BY <1>1, <1>2 DEF TypeOK, Report

LEMMA TypeNext == TypeOK /\ [Next]_vars => TypeOK'
<1>. SUFFICES ASSUME TypeOK, [Next]_vars PROVE TypeOK'
  OBVIOUS
<1>0. \A i \in DOMAIN prog : /\ i \in Nat \ {0}
                             /\ prog[i].name \in Name
                             /\ prog[i].base \in Name \cup {NoBase}
  BY DefShape DEF TypeOK
<1>a. NoBase \notin Name
  BY NoBaseAssumption
<1>1. CASE AddClassConflict
  <2>1. Report("CONFLICT_DECLAR") /\ at \in DOMAIN prog
    BY <1>1 DEF AddClassConflict, Visiting
  <2>2. /\ symbolFailed' = TRUE
        /\ errors' \subseteq [kind : ErrorKinds, def : DOMAIN prog]
        /\ errors' # {}
    BY <2>1, ReportType DEF ErrorKinds
  <2>. QED BY <1>0, <1>1, <2>1, <2>2 DEF TypeOK, AddClassConflict, Visiting, Phases, Walking
<1>2. CASE AddClass
  BY <1>0, <1>a, <1>2 DEF TypeOK, AddClass, Visiting, NoReport, Phases, SetBase, BaseMap,
                    Walking, Declared
<1>3. CASE StartBasePass
  BY <1>0, <1>3 DEF TypeOK, StartBasePass, PassOver, NoReport, Phases, Walking, Visiting
<1>4. CASE SkipRoot
  BY <1>0, <1>4 DEF TypeOK, SkipRoot, CheckingBase, Visiting, NoReport, Phases, Walking
<1>5. CASE BaseNotFound
  <2>1. Report("CLASS_NOT_FOUND") /\ at \in DOMAIN prog
    BY <1>5 DEF BaseNotFound, CheckingBase, Visiting
  <2>2. /\ symbolFailed' = TRUE
        /\ errors' \subseteq [kind : ErrorKinds, def : DOMAIN prog]
        /\ errors' # {}
    BY <2>1, ReportType DEF ErrorKinds
  <2>. QED BY <1>0, <1>5, <2>1, <2>2 DEF TypeOK, BaseNotFound, CheckingBase, Visiting, Phases
<1>6. CASE StartWalk
  BY <1>0, <1>a, <1>6 DEF TypeOK, StartWalk, CheckingBase, Visiting, NoReport, Phases,
                    Walking, Declared
<1>7. CASE CutCycle
  <2>1. Report("CYCLIC_INHERITANCE") /\ at \in DOMAIN prog
    BY <1>7 DEF CutCycle, Walking, Visiting
  <2>2. /\ symbolFailed' = TRUE
        /\ errors' \subseteq [kind : ErrorKinds, def : DOMAIN prog]
        /\ errors' # {}
    BY <2>1, ReportType DEF ErrorKinds
  <2>. QED BY <1>0, <1>7, <2>1, <2>2 DEF TypeOK, CutCycle, Walking, Visiting, Phases,
                                         SetBase, BaseMap
<1>8. CASE WalkUp
  BY <1>0, <1>a, <1>8 DEF TypeOK, WalkUp, Walking, Visiting, NoReport, Phases, Declared, GetBase
<1>9. CASE EndWalk
  BY <1>0, <1>9 DEF TypeOK, EndWalk, Walking, Visiting, NoReport, Phases
<1>10. CASE FinishBasePass
  BY <1>0, <1>10 DEF TypeOK, FinishBasePass, PassOver, NoReport, Phases, Walking, Visiting
<1>11. CASE UNCHANGED vars
  BY <1>11 DEF TypeOK, vars, Walking, Visiting, Declared
<1>. QED BY <1>1, <1>2, <1>3, <1>4, <1>5, <1>6, <1>7, <1>8, <1>9, <1>10, <1>11 DEF Next

THEOREM TypeCorrect == Spec => []TypeOK
  BY TypeInit, TypeNext, PTL DEF Spec

-----------------------------------------------------------------------------
(* The strengthening behind both results.  Recorded: what the symbol table *)
(* and BaseChecker hold about the definitions already declared.            *)
RecordedInv ==
  /\ \A n \in Name : symbols[n] # 0 =>
       /\ prog[symbols[n]].name = n
       /\ phase = "CHECK_CLASS" => symbols[n] < at
  /\ \A n \in Name : symbols[n] = 0 => bases[n] = NoBase
  /\ ~symbolFailed => \A i \in DOMAIN prog : (phase = "CHECK_CLASS" => i < at) =>
       /\ symbols[prog[i].name] = i
       /\ bases[prog[i].name] = prog[i].base

(* c is grounded when no chain of bases from c goes on for ever.           *)
Grounded(c) == \A S \in SUBSET Name : Closed(bases, S) => c \notin S

(* Grounded and defined: what the base pass has established of the         *)
(* definitions behind it while it has found no error.                      *)
CheckedInv ==
  ~symbolFailed => \A i \in DOMAIN prog :
    (phase = "CHECK_BASE" /\ i < at) \/ phase = "CHECK_MEMBER" =>
      Grounded(prog[i].name) /\ (prog[i].base # NoBase => Declared(prog[i].base))

(* The walk stays among the classes that an endless chain from the class   *)
(* at hand would pass through.                                             *)
WalkInv ==
  Walking /\ ~symbolFailed =>
    /\ Declared(prog[at].base)
    /\ \A S \in SUBSET Name : Closed(bases, S) /\ prog[at].name \in S => ptr \in S

(* The member pass starts only when no error was found.                    *)
GateInv == phase = "CHECK_MEMBER" => ~symbolFailed

ForestInv == TypeOK /\ RecordedInv /\ CheckedInv /\ WalkInv /\ GateInv

LEMMA ForestInit == Init => ForestInv
<1>. SUFFICES ASSUME Init PROVE ForestInv
  OBVIOUS
<1>1. TypeOK
  BY TypeInit
<1>2. RecordedInv
  <2>1. \A i \in DOMAIN prog : i \in Nat \ {0} /\ prog[i].name \in Name
    BY DefShape DEF Init
  <2>. QED BY <2>1 DEF Init, RecordedInv
<1>3. CheckedInv /\ WalkInv /\ GateInv
  BY DEF Init, CheckedInv, WalkInv, GateInv, Walking, Visiting
<1>. QED BY <1>1, <1>2, <1>3 DEF ForestInv

LEMMA RecordedNext == ForestInv /\ [Next]_vars => RecordedInv'
<1>. SUFFICES ASSUME ForestInv, [Next]_vars PROVE RecordedInv'
  OBVIOUS
<1>. USE DEF ForestInv
<1>0. \A i \in DOMAIN prog : /\ i \in Nat \ {0}
                             /\ prog[i].name \in Name
                             /\ prog[i].base \in Name \cup {NoBase}
  BY DefShape DEF TypeOK
<1>a. /\ NoBase \notin Name
      /\ at \in Nat
      /\ symbols \in [Name -> {0} \cup DOMAIN prog]
      /\ bases \in [Name -> Name \cup {NoBase}]
      /\ \E n \in Nat \ {0} : DOMAIN prog = 1..n
  BY NoBaseAssumption, ProgramShape DEF TypeOK, BaseMap
<1>1. CASE AddClassConflict
  BY <1>0, <1>a, <1>1 DEF RecordedInv, AddClassConflict, Visiting, Report
<1>2. CASE AddClass
  BY <1>0, <1>a, <1>2 DEF RecordedInv, AddClass, Visiting, NoReport, SetBase, Declared
<1>3. CASE StartBasePass
  BY <1>0, <1>a, <1>3 DEF RecordedInv, TypeOK, StartBasePass, PassOver, NoReport
<1>4. CASE SkipRoot \/ StartWalk \/ WalkUp \/ EndWalk
  BY <1>0, <1>a, <1>4 DEF RecordedInv, SkipRoot, StartWalk, WalkUp, EndWalk, CheckingBase,
                          Walking, Visiting, NoReport
<1>5. CASE BaseNotFound
  BY <1>0, <1>a, <1>5 DEF RecordedInv, BaseNotFound, CheckingBase, Visiting, Report
<1>6. CASE CutCycle
  BY <1>0, <1>a, <1>6 DEF RecordedInv, CutCycle, Walking, Visiting, Report, SetBase, TypeOK
<1>7. CASE FinishBasePass
  BY <1>0, <1>a, <1>7 DEF RecordedInv, FinishBasePass, PassOver, NoReport
<1>8. CASE UNCHANGED vars
  BY <1>8 DEF RecordedInv, vars
<1>. QED BY <1>1, <1>2, <1>3, <1>4, <1>5, <1>6, <1>7, <1>8 DEF Next

(* EndWalk: a chain that reached a class without a declared base has ended. *)
LEMMA EndWalkGrounds ==
  ASSUME ForestInv, EndWalk, ~symbolFailed
  PROVE  Grounded(prog[at].name)
<1>. USE DEF ForestInv
<1>1. SUFFICES ASSUME NEW S \in SUBSET Name, Closed(bases, S), prog[at].name \in S
               PROVE  FALSE
  BY DEF Grounded
<1>2. ptr \in S /\ bases[ptr] \in S
  BY <1>1 DEF WalkInv, Closed, EndWalk
<1>3. symbols[bases[ptr]] = 0
  BY <1>2 DEF EndWalk, Declared, GetBase
<1>4. bases[bases[ptr]] = NoBase
  BY <1>2, <1>3 DEF RecordedInv
<1>5. bases[bases[ptr]] \in S
  BY <1>1, <1>2 DEF Closed
<1>. QED BY <1>4, <1>5, NoBaseAssumption

LEMMA CheckedNext == ForestInv /\ [Next]_vars => CheckedInv'
<1>. SUFFICES ASSUME ForestInv, [Next]_vars, ~symbolFailed' PROVE CheckedInv'
  BY DEF CheckedInv
<1>. USE DEF ForestInv
<1>0. \A i \in DOMAIN prog : /\ i \in Nat \ {0}
                             /\ prog[i].name \in Name
                             /\ prog[i].base \in Name \cup {NoBase}
  BY DefShape DEF TypeOK
<1>a. NoBase \notin Name /\ at \in Nat /\ \E n \in Nat \ {0} : DOMAIN prog = 1..n
  BY NoBaseAssumption, ProgramShape DEF TypeOK
<1>1. CASE AddClassConflict \/ BaseNotFound \/ CutCycle
  BY <1>1 DEF AddClassConflict, BaseNotFound, CutCycle, Report
<1>2. CASE AddClass
  BY <1>2 DEF CheckedInv, AddClass, Visiting
<1>3. CASE StartBasePass
  BY <1>0, <1>3 DEF CheckedInv, StartBasePass
<1>4. CASE SkipRoot
  <2>1. bases[prog[at].name] = NoBase
    BY <1>4 DEF SkipRoot, CheckingBase, Visiting, RecordedInv, NoReport
  <2>2. Grounded(prog[at].name)
    BY <2>1, <1>a DEF Grounded, Closed
  <2>. QED BY <1>0, <1>a, <1>4, <2>2 DEF CheckedInv, SkipRoot, CheckingBase, Visiting, NoReport,
                                    Grounded, Declared
<1>5. CASE StartWalk \/ WalkUp
  BY <1>5 DEF CheckedInv, StartWalk, WalkUp, NoReport, Grounded, Declared
<1>6. CASE EndWalk
  <2>1. Grounded(prog[at].name) /\ Declared(prog[at].base)
    BY <1>6, EndWalkGrounds DEF EndWalk, WalkInv, NoReport
  <2>. QED BY <1>0, <1>a, <1>6, <2>1 DEF CheckedInv, EndWalk, Walking, Visiting, NoReport,
                                    Grounded, Declared
<1>7. CASE FinishBasePass
  <2>1. phase = "CHECK_BASE" /\ ~symbolFailed /\ phase' # "CHECK_BASE"
    BY <1>7 DEF FinishBasePass, PassOver, NoReport
  <2>2. \A i \in DOMAIN prog : i < at
    BY <1>0, <1>a, <1>7 DEF FinishBasePass, PassOver, TypeOK
  <2>. QED BY <1>7, <2>1, <2>2 DEF CheckedInv, FinishBasePass, NoReport, Grounded, Declared
<1>8. CASE UNCHANGED vars
  BY <1>8 DEF CheckedInv, vars, Grounded, Declared
<1>. QED BY <1>1, <1>2, <1>3, <1>4, <1>5, <1>6, <1>7, <1>8 DEF Next

LEMMA WalkNext == ForestInv /\ [Next]_vars => WalkInv'
<1>. SUFFICES ASSUME ForestInv, [Next]_vars, Walking', ~symbolFailed' PROVE WalkInv'
  BY DEF WalkInv
<1>. USE DEF ForestInv
<1>1. CASE AddClassConflict \/ BaseNotFound \/ CutCycle
  BY <1>1 DEF AddClassConflict, BaseNotFound, CutCycle, Report
<1>2. CASE AddClass \/ StartBasePass \/ SkipRoot \/ FinishBasePass
  <2>1. ptr' = NoBase
    BY <1>2 DEF AddClass, StartBasePass, SkipRoot, FinishBasePass, CheckingBase,
                Visiting, PassOver, TypeOK, Walking
  <2>. QED BY <2>1 DEF Walking
<1>3. CASE StartWalk
  <2>1. bases[prog[at].name] = prog[at].base
    BY <1>3 DEF StartWalk, CheckingBase, Visiting, RecordedInv, NoReport
  <2>. QED BY <1>3, <2>1 DEF WalkInv, StartWalk, NoReport, Closed, Declared
<1>4. CASE WalkUp
  BY <1>4 DEF WalkInv, WalkUp, NoReport, Closed, Declared, GetBase
<1>5. CASE EndWalk
  BY <1>5 DEF EndWalk, Walking
<1>6. CASE UNCHANGED vars
  BY <1>6 DEF WalkInv, vars, Walking, Visiting, Declared
<1>. QED BY <1>1, <1>2, <1>3, <1>4, <1>5, <1>6 DEF Next

LEMMA GateNext == TypeOK /\ GateInv /\ [Next]_vars => GateInv'
<1>. SUFFICES ASSUME TypeOK, GateInv, [Next]_vars PROVE GateInv'
  OBVIOUS
<1>1. CASE FinishBasePass
  BY <1>1 DEF GateInv, FinishBasePass, NoReport
<1>2. CASE ~FinishBasePass
  BY <1>2 DEF GateInv, Next, vars, AddClassConflict, AddClass, StartBasePass, SkipRoot,
              BaseNotFound, StartWalk, CutCycle, WalkUp, EndWalk, Visiting, PassOver,
              CheckingBase, Walking
<1>. QED BY <1>1, <1>2

LEMMA ForestInductive == Spec => []ForestInv
<1>1. ForestInv /\ [Next]_vars => ForestInv'
  BY TypeNext, RecordedNext, CheckedNext, WalkNext, GateNext DEF ForestInv
<1>. QED BY ForestInit, <1>1, PTL DEF Spec

LEMMA ForestImplies == ForestInv => AcceptedIsForest
<1>. SUFFICES ASSUME ForestInv, phase = "CHECK_MEMBER" PROVE AcceptedIsForest
  BY DEF AcceptedIsForest
<1>. USE DEF ForestInv
<1>0. ~symbolFailed
  BY DEF GateInv
<1>1. \A i \in DOMAIN prog : symbols[prog[i].name] = i /\ bases[prog[i].name] = prog[i].base
  BY <1>0 DEF RecordedInv
<1>2. \A i \in DOMAIN prog :
        Grounded(prog[i].name) /\ (prog[i].base # NoBase => Declared(prog[i].base))
  BY <1>0 DEF CheckedInv
<1>3. \A c \in Name : symbols[c] # 0 => symbols[c] \in DOMAIN prog /\ prog[symbols[c]].name = c
  BY DEF RecordedInv, TypeOK
<1>4. \A c \in Name : symbols[c] = 0 => bases[c] = NoBase
  BY DEF RecordedInv
<1>5. \A c \in Name : bases[c] # NoBase => Declared(c) /\ Declared(bases[c])
  <2>. SUFFICES ASSUME NEW c \in Name, bases[c] # NoBase
                PROVE  Declared(c) /\ Declared(bases[c])
    OBVIOUS
  <2>1. symbols[c] # 0
    BY <1>4
  <2>2. bases[c] = prog[symbols[c]].base
    BY <2>1, <1>3, <1>1
  <2>. QED BY <2>1, <2>2, <1>2, <1>3 DEF Declared
<1>6. Acyclic(bases)
  <2>. SUFFICES ASSUME NEW S \in SUBSET Name, Closed(bases, S), NEW c \in S PROVE FALSE
    BY DEF Acyclic
  <2>1. symbols[c] # 0
    BY <1>4, NoBaseAssumption DEF Closed
  <2>2. Grounded(c)
    BY <2>1, <1>2, <1>3
  <2>. QED BY <2>2 DEF Grounded
<1>. QED BY <1>1, <1>5, <1>6 DEF AcceptedIsForest

(* Whatever the program, the map the member pass starts from is a forest   *)
(* that holds exactly the inheritance the program states.                  *)
THEOREM AcceptedForest == Spec => []AcceptedIsForest
  BY ForestInductive, ForestImplies, PTL

-----------------------------------------------------------------------------
(* The walk so far: a set of classes, the class at hand and ptr among      *)
(* them, in which every class but ptr has its base.                        *)
TrailInv ==
  Walking /\ ~symbolFailed =>
    \E S \in SUBSET Name :
      /\ prog[at].name \in S /\ ptr \in S
      /\ bases[prog[at].name] \in S
      /\ \A c \in S : c # ptr => bases[c] \in S

LegalInv == ForestInv /\ TrailInv /\ LegalIsAccepted

LEMMA TrailNext == ForestInv /\ TrailInv /\ [Next]_vars => TrailInv'
<1>. SUFFICES ASSUME ForestInv, TrailInv, [Next]_vars, Walking', ~symbolFailed'
              PROVE  TrailInv'
  BY DEF TrailInv
<1>. USE DEF ForestInv
<1>1. CASE AddClassConflict \/ BaseNotFound \/ CutCycle
  BY <1>1 DEF AddClassConflict, BaseNotFound, CutCycle, Report
<1>2. CASE AddClass \/ StartBasePass \/ SkipRoot \/ FinishBasePass
  <2>1. ptr' = NoBase
    BY <1>2 DEF AddClass, StartBasePass, SkipRoot, FinishBasePass, CheckingBase,
                Visiting, PassOver, TypeOK, Walking
  <2>. QED BY <2>1 DEF Walking
<1>3. CASE StartWalk
  <2>. DEFINE S == {prog[at].name, prog[at].base}
  <2>1. bases[prog[at].name] = prog[at].base
    BY <1>3 DEF StartWalk, CheckingBase, Visiting, RecordedInv, NoReport
  <2>2. S \in SUBSET Name
    BY <1>3, DefShape DEF StartWalk, CheckingBase, Visiting, Declared, TypeOK
  <2>3. /\ UNCHANGED <<prog, at, bases>>
        /\ ptr' = prog[at].base
    BY <1>3 DEF StartWalk
  <2>. QED BY <2>1, <2>2, <2>3 DEF TrailInv
<1>4. CASE WalkUp
  <2>1. PICK S \in SUBSET Name :
          /\ prog[at].name \in S /\ ptr \in S
          /\ bases[prog[at].name] \in S
          /\ \A c \in S : c # ptr => bases[c] \in S
    BY <1>4 DEF TrailInv, WalkUp, NoReport
  <2>. DEFINE T == S \cup {bases[ptr]}
  <2>2. T \in SUBSET Name /\ ptr' = bases[ptr] /\ UNCHANGED <<prog, at, bases>>
    BY <1>4 DEF WalkUp, Declared, GetBase
  <2>3. /\ prog[at].name \in T /\ ptr' \in T
        /\ bases[prog[at].name] \in T
        /\ \A c \in T : c # ptr' => bases[c] \in T
    BY <2>1, <2>2
  <2>. HIDE DEF T
  <2>. QED BY <2>2, <2>3 DEF TrailInv
<1>5. CASE EndWalk
  BY <1>5 DEF EndWalk, Walking
<1>6. CASE UNCHANGED vars
  BY <1>6 DEF TrailInv, vars, Walking, Visiting
<1>. QED BY <1>1, <1>2, <1>3, <1>4, <1>5, <1>6 DEF Next

(* A walk that came back to its class has been round a stated cycle.       *)
LEMMA CutIsCycle ==
  ASSUME ForestInv, TrailInv, CutCycle, ~symbolFailed
  PROVE  ~NoCyclicInheritance(prog)
<1>. USE DEF ForestInv
<1>1. PICK S \in SUBSET Name :
        /\ prog[at].name \in S
        /\ bases[prog[at].name] \in S
        /\ \A c \in S : c # ptr => bases[c] \in S
  BY DEF TrailInv, CutCycle
<1>2. \A c \in S : bases[c] \in S
  BY <1>1 DEF CutCycle
<1>3. \A c \in S : symbols[c] \in DOMAIN prog /\ prog[symbols[c]].name = c
  BY <1>2, NoBaseAssumption DEF RecordedInv, TypeOK
<1>. DEFINE D == {i \in DOMAIN prog : prog[i].name \in S}
<1>4. \A i \in D : \E j \in D : prog[j].name = prog[i].base
  <2>. SUFFICES ASSUME NEW i \in D PROVE \E j \in D : prog[j].name = prog[i].base
    OBVIOUS
  <2>1. prog[i].base \in S
    BY <1>2 DEF RecordedInv, CutCycle, Walking, Visiting
  <2>. QED BY <2>1, <1>3
<1>5. D # {}
  BY <1>1 DEF CutCycle, Walking, Visiting
<1>. QED BY <1>4, <1>5 DEF NoCyclicInheritance

LEMMA AcceptNext == LegalInv /\ [Next]_vars => LegalIsAccepted'
<1>. SUFFICES ASSUME ForestInv, TrailInv, ~symbolFailed, Legal(prog), [Next]_vars
              PROVE  ~symbolFailed'
  <2>1. [Next]_vars => prog' = prog
    BY DEF Next, vars, AddClassConflict, AddClass, StartBasePass, SkipRoot, BaseNotFound,
           StartWalk, CutCycle, WalkUp, EndWalk, FinishBasePass
  <2>. QED BY <2>1 DEF LegalInv, LegalIsAccepted, Legal, DistinctNames, BasesDefined,
                       NoCyclicInheritance
<1>. USE DEF ForestInv
<1>1. CASE AddClassConflict
  <2>1. at \in DOMAIN prog /\ symbols[prog[at].name] # 0 /\ prog[at].name \in Name
    BY <1>1 DEF AddClassConflict, Visiting, Declared
  <2>2. /\ symbols[prog[at].name] \in DOMAIN prog
        /\ prog[symbols[prog[at].name]].name = prog[at].name
        /\ symbols[prog[at].name] < at
    BY <1>1, <2>1 DEF AddClassConflict, Visiting, RecordedInv, TypeOK
  <2>3. symbols[prog[at].name] \in Nat /\ at \in Nat
    BY <2>2, DefShape DEF TypeOK
  <2>. QED BY <2>1, <2>2, <2>3 DEF Legal, DistinctNames
<1>2. CASE BaseNotFound
  <2>1. PICK j \in DOMAIN prog : prog[j].name = prog[at].base
    BY <1>2 DEF BaseNotFound, CheckingBase, Visiting, Legal, BasesDefined
  <2>2. symbols[prog[at].base] = j /\ j # 0 /\ prog[at].base \in Name
    BY <1>2, <2>1, DefShape DEF BaseNotFound, CheckingBase, Visiting, RecordedInv, TypeOK
  <2>. QED BY <1>2, <2>2 DEF BaseNotFound, Declared
<1>3. CASE CutCycle
  BY <1>3, CutIsCycle DEF Legal
<1>4. CASE ~(AddClassConflict \/ BaseNotFound \/ CutCycle)
  BY <1>4 DEF Next, vars, AddClass, StartBasePass, SkipRoot, StartWalk, WalkUp, EndWalk,
              FinishBasePass, NoReport
<1>. QED BY <1>1, <1>2, <1>3, <1>4

(* A program with distinct names, defined bases and no cycle is never      *)
(* turned down by the class and base passes, whatever the order in which   *)
(* its classes are written.                                                *)
THEOREM LegalAccepted == Spec => []LegalIsAccepted
<1>1. Init => LegalInv
  BY ForestInit DEF Init, LegalInv, TrailInv, LegalIsAccepted, Walking, Visiting
<1>2. LegalInv /\ [Next]_vars => LegalInv'
  <2>1. ForestInv /\ [Next]_vars => ForestInv'
    BY TypeNext, RecordedNext, CheckedNext, WalkNext, GateNext DEF ForestInv
  <2>. QED BY <2>1, TrailNext, AcceptNext DEF LegalInv
<1>. QED BY <1>1, <1>2, PTL DEF Spec, LegalInv

-----------------------------------------------------------------------------
(* On a cycle, the ancestors of a class lead back to it.                   *)
LEMMA CycleBack ==
  ASSUME NEW b \in BaseMap, NEW c \in Name, OnCycle(b, c), NEW x \in Ancestors(b, c)
  PROVE  c \in Ancestors(b, x)
<1>. DEFINE T == {y \in Name : c \in Ancestors(b, y)}
<1>1. ASSUME NEW y \in Name, c \in Ancestors(b, y), b[y] \in Name
      PROVE  b[y] \in T
  <2>1. CASE c = b[y]
    BY <2>1 DEF OnCycle
  <2>2. CASE c # b[y]
    BY <1>1, <2>2, AncestorStep
  <2>. QED BY <2>1, <2>2
<1>2. UpwardClosed(b, T)
  BY <1>1 DEF UpwardClosed
<1>3. b[c] \in Name => b[c] \in T
  BY <1>1 DEF OnCycle
<1>4. T \in SUBSET Name
  OBVIOUS
<1>. HIDE DEF T
<1>5. x \in T
  BY <1>2, <1>3, <1>4 DEF Ancestors
<1>. QED BY <1>5 DEF T

LEMMA CycleClosed ==
  ASSUME NEW b \in BaseMap, NEW c \in Name, OnCycle(b, c)
  PROVE  Closed(b, Ancestors(b, c)) /\ Ancestors(b, c) \subseteq Name /\ c \in Ancestors(b, c)
<1>1. Ancestors(b, c) \subseteq Name
  BY DEF Ancestors
<1>2. ASSUME NEW x \in Ancestors(b, c) PROVE b[x] \in Ancestors(b, c)
  <2>1. x \in Name /\ c \in Ancestors(b, x)
    BY <1>1, CycleBack
  <2>2. b[x] \in Name
    BY <2>1, AncestorStep
  <2>3. b[x] \in Ancestors(b, x)
    BY <2>1, <2>2, AncestorStep
  <2>. QED BY <2>1, <2>3, AncestorOfAncestor
<1>. QED BY <1>1, <1>2 DEF Closed, OnCycle

(* A closed set has the ancestors of its classes.                          *)
LEMMA ClosedHasAncestors ==
  ASSUME NEW b \in BaseMap, NEW S \in SUBSET Name, Closed(b, S), NEW c \in S, NEW a \in Ancestors(b, c)
  PROVE  a \in S
BY DEF Ancestors, Closed, UpwardClosed

LEMMA FewerBases ==
  ASSUME NEW b \in BaseMap, NEW f \in BaseMap, \A c \in Name : f[c] \in {b[c], NoBase},
         NEW c \in Name, NEW a \in Ancestors(f, c)
  PROVE  a \in Ancestors(b, c)
<1>1. ASSUME NEW T \in SUBSET Name, UpwardClosed(b, T), b[c] \in Name => b[c] \in T
      PROVE  UpwardClosed(f, T) /\ (f[c] \in Name => f[c] \in T)
  BY <1>1, NoBaseAssumption DEF UpwardClosed
<1>. QED BY <1>1 DEF Ancestors

-----------------------------------------------------------------------------
Stated == StatedBases(prog)
Blamed(d) == [kind |-> "CYCLIC_INHERITANCE", def |-> d] \in errors

(* With distinct names the base pass has the stated inheritance, but for   *)
(* the classes blamed, which are on one stated cycle each; every class     *)
(* behind it is grounded, cut off or not; and the loop of checkBase is at  *)
(* an ancestor of the class at hand.                                       *)
BlameInv ==
  /\ \A c \in Name : \/ bases[c] = Stated[c]
                     \/ bases[c] = NoBase /\ \E d \in DOMAIN prog : Blamed(d) /\ prog[d].name = c
  /\ \A d \in DOMAIN prog : Blamed(d) =>
       /\ bases[prog[d].name] = NoBase /\ OnCycle(Stated, prog[d].name)
       /\ phase = "CHECK_BASE" => d < at
  /\ \A d, e \in DOMAIN prog :
       Blamed(d) /\ Blamed(e) /\ SameCycle(Stated, prog[d].name, prog[e].name) => d = e

VisitedInv ==
  \A i \in DOMAIN prog : (phase = "CHECK_BASE" => i < at) => Grounded(prog[i].name)

WayInv == Walking => ptr \in Ancestors(bases, prog[at].name)

CycleInv ==
  DistinctNames(prog) =>
    IF phase = "CHECK_CLASS" THEN errors = {} ELSE BlameInv /\ VisitedInv /\ WayInv

LEMMA StatedType ==
  ASSUME TypeOK, DistinctNames(prog)
  PROVE  /\ Stated \in BaseMap
         /\ \A i \in DOMAIN prog : Stated[prog[i].name] = prog[i].base
         /\ \A c \in Name : Stated[c] # NoBase => \E i \in DOMAIN prog : prog[i].name = c
<1>1. \A i \in DOMAIN prog : prog[i].name \in Name /\ prog[i].base \in Name \cup {NoBase}
  BY DefShape DEF TypeOK
<1>2. ASSUME NEW i \in DOMAIN prog
      PROVE  (CHOOSE j \in DOMAIN prog : prog[j].name = prog[i].name) = i
  BY DEF DistinctNames
<1>3. ASSUME NEW i \in DOMAIN prog
      PROVE  Stated[prog[i].name] = prog[i].base
  BY <1>1, <1>2 DEF Stated, StatedBases
<1>4. \A c \in Name : ~(\E i \in DOMAIN prog : prog[i].name = c) => Stated[c] = NoBase
  BY DEF Stated, StatedBases
<1>5. \A c \in Name : Stated[c] \in Name \cup {NoBase}
  BY <1>1, <1>3, <1>4
<1>6. Stated \in BaseMap
  BY <1>5 DEF Stated, StatedBases, BaseMap
<1>. QED BY <1>1, <1>3, <1>4, <1>6

LEMMA CycleInit == Init => CycleInv
  BY DEF Init, CycleInv

(* The class pass: with distinct names it reports nothing.                 *)
LEMMA NoConflict ==
  ASSUME ForestInv, DistinctNames(prog), AddClassConflict
  PROVE  FALSE
<1>1. at \in DOMAIN prog /\ prog[at].name \in Name /\ symbols[prog[at].name] # 0
  BY DEF AddClassConflict, Visiting, Declared
<1>2. PICK j : j = symbols[prog[at].name] /\ j \in DOMAIN prog /\ prog[j].name = prog[at].name /\ j < at
  BY <1>1 DEF ForestInv, TypeOK, RecordedInv, AddClassConflict, Visiting
<1>3. j = at /\ at \in Nat
  BY <1>1, <1>2 DEF DistinctNames, ForestInv, TypeOK
<1>. QED BY <1>2, <1>3

LEMMA StartBlame ==
  ASSUME ForestInv, CycleInv, DistinctNames(prog), StartBasePass
  PROVE  BlameInv' /\ VisitedInv' /\ WayInv'
<1>1. /\ phase = "CHECK_CLASS" /\ errors = {} /\ errors' = {} /\ prog' = prog /\ bases' = bases
      /\ ptr' = ptr /\ at' = 1 /\ phase' = "CHECK_BASE" /\ at \notin DOMAIN prog
  BY DEF StartBasePass, PassOver, NoReport, CycleInv
<1>2. /\ \A i \in DOMAIN prog : bases[prog[i].name] = prog[i].base
      /\ \A n \in Name : symbols[n] # 0 => prog[symbols[n]].name = n /\ symbols[n] \in DOMAIN prog
      /\ \A n \in Name : symbols[n] = 0 => bases[n] = NoBase
  <2>1. ~symbolFailed
    BY <1>1 DEF ForestInv, TypeOK
  <2>2. \A i \in DOMAIN prog : i < at
    BY <1>1, ProgramShape DEF ForestInv, TypeOK
  <2>. QED BY <2>1, <2>2 DEF ForestInv, RecordedInv, TypeOK
<1>3. \A c \in Name : bases[c] = Stated[c]
  <2>. SUFFICES ASSUME NEW c \in Name PROVE bases[c] = Stated[c]
    OBVIOUS
  <2>1. CASE \E i \in DOMAIN prog : prog[i].name = c
    BY <1>2, <2>1, StatedType DEF ForestInv
  <2>2. CASE ~\E i \in DOMAIN prog : prog[i].name = c
    BY <1>2, <2>2, StatedType DEF ForestInv
  <2>. QED BY <2>1, <2>2
<1>4. Stated' = Stated
  BY <1>1 DEF Stated
<1>5. BlameInv'
  BY <1>1, <1>3, <1>4 DEF BlameInv, Blamed
<1>6. VisitedInv'
  <2>1. \A i \in DOMAIN prog : i \in Nat \ {0}
    BY DefShape DEF ForestInv, TypeOK
  <2>. QED BY <1>1, <2>1 DEF VisitedInv
<1>7. WayInv'
  BY <1>1 DEF WayInv, Walking, Visiting, ForestInv, TypeOK
<1>. QED BY <1>5, <1>6, <1>7

(* What is stated of the class at hand, which has not been blamed yet.     *)
LEMMA AtHand ==
  ASSUME TypeOK, DistinctNames(prog), BlameInv, Visiting("CHECK_BASE")
  PROVE  /\ prog[at].name \in Name
         /\ bases[prog[at].name] = prog[at].base
         /\ Stated[prog[at].name] = prog[at].base
<1>1. at \in DOMAIN prog /\ at \in Nat /\ prog[at].name \in Name /\ phase = "CHECK_BASE"
  BY DefShape DEF Visiting, TypeOK
<1>2. \A d \in DOMAIN prog : Blamed(d) => prog[d].name # prog[at].name
  BY <1>1 DEF BlameInv, DistinctNames
<1>. QED BY <1>1, <1>2, StatedType DEF BlameInv

(* A step that cuts nothing off.                                           *)
LEMMA BlameStill ==
  ASSUME BlameInv, prog' = prog, bases' = bases, \A d \in DOMAIN prog : Blamed(d)' <=> Blamed(d),
         at \in Nat, DOMAIN prog \subseteq Nat,
         at' \in Nat, phase' = "CHECK_BASE" => phase = "CHECK_BASE" /\ at <= at'
  PROVE  BlameInv'
<1>1. Stated' = Stated
  BY DEF Stated
<1>2. ASSUME NEW d \in DOMAIN prog, Blamed(d)
      PROVE  /\ bases[prog[d].name] = NoBase /\ OnCycle(Stated, prog[d].name)
             /\ phase' = "CHECK_BASE" => d < at'
  BY <1>2 DEF BlameInv
<1>. QED BY <1>1, <1>2 DEF BlameInv

LEMMA VisitedStill ==
  ASSUME TypeOK, VisitedInv, prog' = prog, bases' = bases,
         phase' # "CHECK_BASE" \/ at' = at \/ (at' = at + 1 /\ Grounded(prog[at].name)),
         phase # "CHECK_BASE" \/ (phase' # "CHECK_BASE" => at \notin DOMAIN prog)
  PROVE  VisitedInv'
<1>1. PICK n \in Nat : DOMAIN prog = 1..n
  BY ProgramShape DEF TypeOK
<1>2. at \in Nat /\ (at \notin DOMAIN prog => \A i \in DOMAIN prog : i < at)
  BY <1>1 DEF TypeOK
<1>3. \A c : Grounded(c)' <=> Grounded(c)
  BY DEF Grounded
<1>4. ASSUME NEW i \in DOMAIN prog, phase' = "CHECK_BASE" => i < at'
      PROVE  Grounded(prog[i].name)
  <2>1. CASE phase = "CHECK_BASE" => i < at
    BY <2>1 DEF VisitedInv
  <2>2. CASE phase = "CHECK_BASE" /\ ~(i < at)
    <3>1. i = at /\ at' = at + 1 /\ Grounded(prog[at].name)
      BY <1>1, <1>2, <1>4, <2>2
    <3>. QED BY <3>1
  <2>. QED BY <2>1, <2>2
<1>. QED BY <1>3, <1>4 DEF VisitedInv

(* The class at hand is cut off.                                           *)
LEMMA CutBlame ==
  ASSUME ForestInv, DistinctNames(prog), BlameInv, VisitedInv, WayInv, CutCycle
  PROVE  BlameInv' /\ VisitedInv'
<1>1. /\ Visiting("CHECK_BASE") /\ at \in DOMAIN prog /\ phase = "CHECK_BASE" /\ Walking
      /\ ptr = prog[at].name /\ bases' = [bases EXCEPT ![ptr] = NoBase]
      /\ errors' = errors \cup {[kind |-> "CYCLIC_INHERITANCE", def |-> at]}
      /\ at' = at + 1 /\ prog' = prog /\ phase' = phase
  BY DEF CutCycle, Walking, Visiting, Report, SetBase
<1>2. /\ at \in Nat /\ bases \in BaseMap /\ DOMAIN prog \subseteq Nat
      /\ \A i \in DOMAIN prog : prog[i].name \in Name
  BY DefShape DEF ForestInv, TypeOK
<1>3. PICK c \in Name : c = prog[at].name
  BY <1>1, <1>2
<1>4. OnCycle(bases, c)
  BY <1>1, <1>3 DEF WayInv, OnCycle
<1>5. Stated \in BaseMap /\ \A x \in Name : bases[x] \in {Stated[x], NoBase}
  BY StatedType DEF BlameInv, ForestInv
<1>6. OnCycle(Stated, c)
  BY <1>2, <1>4, <1>5, FewerBases DEF OnCycle
<1>7. PICK S : /\ S = Ancestors(bases, c) /\ S \in SUBSET Name /\ c \in S
               /\ Closed(bases, S)
  BY <1>2, <1>4, CycleClosed
<1>8. Closed(Stated, S)
  BY <1>5, <1>7, NoBaseAssumption DEF Closed
<1>9. ASSUME NEW d \in DOMAIN prog, Blamed(d), prog[d].name \in Ancestors(Stated, c)
      PROVE  FALSE
  <2>1. prog[d].name \in S
    BY <1>5, <1>7, <1>8, <1>9, ClosedHasAncestors
  <2>2. bases[prog[d].name] = NoBase
    BY <1>9 DEF BlameInv
  <2>. QED BY <1>7, <2>1, <2>2, NoBaseAssumption DEF Closed
<1>10. Stated' = Stated
  BY <1>1 DEF Stated
<1>11. \A d : Blamed(d)' <=> Blamed(d) \/ d = at
  BY <1>1 DEF Blamed
<1>12. \A x \in Name : bases'[x] = IF x = c THEN NoBase ELSE bases[x]
  BY <1>1, <1>2, <1>3 DEF BaseMap
<1>13. BlameInv'
  <2>1. \A x \in Name : \/ bases'[x] = Stated[x]
                        \/ bases'[x] = NoBase /\ \E d \in DOMAIN prog : Blamed(d)' /\ prog[d].name = x
    BY <1>1, <1>3, <1>11, <1>12 DEF BlameInv
  <2>2. ASSUME NEW d \in DOMAIN prog, Blamed(d)'
        PROVE  /\ bases'[prog[d].name] = NoBase /\ OnCycle(Stated, prog[d].name)
               /\ d < at'
    <3>1. CASE d = at
      BY <1>1, <1>2, <1>3, <1>6, <1>12, <3>1
    <3>2. CASE Blamed(d)
      <4>1. bases[prog[d].name] = NoBase /\ OnCycle(Stated, prog[d].name) /\ d < at
        BY <1>1, <3>2 DEF BlameInv
      <4>. QED BY <1>1, <1>2, <1>12, <4>1
    <3>. QED BY <1>11, <2>2, <3>1, <3>2
  <2>3. ASSUME NEW d \in DOMAIN prog, NEW e \in DOMAIN prog, Blamed(d)', Blamed(e)',
               SameCycle(Stated, prog[d].name, prog[e].name)
        PROVE  d = e
    <3>1. CASE Blamed(d) /\ Blamed(e)
      BY <2>3, <3>1 DEF BlameInv
    <3>2. CASE Blamed(d) /\ e = at
      BY <1>3, <1>9, <2>3, <3>2 DEF SameCycle
    <3>3. CASE d = at /\ Blamed(e)
      BY <1>3, <1>9, <2>3, <3>3 DEF SameCycle
    <3>. QED BY <1>11, <2>3, <3>1, <3>2, <3>3
  <2>. QED BY <1>1, <1>10, <2>1, <2>2, <2>3 DEF BlameInv
<1>14. VisitedInv'
  <2>1. ASSUME NEW T \in SUBSET Name, \A x \in T : bases'[x] \in T
        PROVE  c \notin T /\ Closed(bases, T)
    <3>1. c \notin T
      BY <1>12, <2>1, NoBaseAssumption
    <3>. QED BY <1>12, <2>1, <3>1 DEF Closed
  <2>2. ASSUME NEW i \in DOMAIN prog, i < at' PROVE Grounded(prog[i].name)'
    <3>1. CASE i = at
      BY <1>1, <1>3, <2>1, <3>1 DEF Grounded, Closed
    <3>2. CASE i < at
      <4>1. Grounded(prog[i].name)
        BY <1>1, <3>2 DEF VisitedInv
      <4>. QED BY <1>1, <2>1, <4>1 DEF Grounded, Closed
    <3>. QED BY <1>1, <1>2, <2>2, <3>1, <3>2
  <2>. QED BY <1>1, <2>2 DEF VisitedInv
<1>. QED BY <1>13, <1>14

(* The other ways to leave a definition ground it.                         *)
LEMMA LeavesGrounded ==
  ASSUME ForestInv, DistinctNames(prog), BlameInv, WayInv, SkipRoot \/ BaseNotFound \/ EndWalk
  PROVE  Grounded(prog[at].name)
<1>1. /\ Visiting("CHECK_BASE") /\ prog[at].name \in Name /\ bases[prog[at].name] = prog[at].base
  BY AtHand DEF SkipRoot, BaseNotFound, EndWalk, CheckingBase, Walking, Visiting, ForestInv
<1>2. /\ bases \in BaseMap /\ \A n \in Name : symbols[n] = 0 => bases[n] = NoBase
  BY DEF ForestInv, TypeOK, RecordedInv
<1>. SUFFICES ASSUME NEW S \in SUBSET Name, Closed(bases, S), prog[at].name \in S PROVE FALSE
  BY DEF Grounded
<1>3. CASE SkipRoot
  BY <1>1, <1>3, NoBaseAssumption DEF SkipRoot, Closed
<1>4. CASE BaseNotFound
  <2>1. prog[at].base \in S /\ symbols[prog[at].base] = 0
    BY <1>1, <1>4 DEF BaseNotFound, Closed, Declared
  <2>. QED BY <1>2, <2>1, NoBaseAssumption DEF Closed
<1>5. CASE EndWalk
  <2>1. ptr \in S
    BY <1>2, <1>5, ClosedHasAncestors DEF WayInv, EndWalk
  <2>2. bases[ptr] \in S /\ symbols[bases[ptr]] = 0
    BY <1>5, <2>1 DEF EndWalk, Closed, Declared, GetBase
  <2>. QED BY <1>2, <2>2, NoBaseAssumption DEF Closed
<1>. QED BY <1>3, <1>4, <1>5

LEMMA WayNext ==
  ASSUME ForestInv, DistinctNames(prog), BlameInv, WayInv, [Next]_vars, phase # "CHECK_CLASS"
  PROVE  WayInv'
<1>. SUFFICES ASSUME Walking' PROVE WayInv'
  BY DEF WayInv
<1>0. bases \in BaseMap
  BY DEF ForestInv, TypeOK
<1>1. CASE StartWalk
  <2>1. /\ Visiting("CHECK_BASE") /\ prog[at].base \in Name /\ ptr' = prog[at].base
        /\ UNCHANGED <<prog, at, bases>>
    BY <1>1 DEF StartWalk, CheckingBase, Declared
  <2>2. prog[at].name \in Name /\ bases[prog[at].name] = prog[at].base
    BY <2>1, AtHand DEF ForestInv
  <2>3. prog[at].base \in Ancestors(bases, prog[at].name)
    BY <1>0, <2>1, <2>2, AncestorStep
  <2>. QED BY <2>1, <2>3 DEF WayInv
<1>2. CASE WalkUp
  <2>1. /\ Visiting("CHECK_BASE") /\ ptr \in Ancestors(bases, prog[at].name) /\ ptr' = bases[ptr]
        /\ bases[ptr] \in Name /\ UNCHANGED <<prog, at, bases>>
    BY <1>2 DEF WalkUp, Walking, WayInv, Declared, GetBase
  <2>2. prog[at].name \in Name /\ ptr \in Name
    BY <2>1, AtHand DEF ForestInv, Ancestors
  <2>3. bases[ptr] \in Ancestors(bases, ptr)
    BY <1>0, <2>1, <2>2, AncestorStep
  <2>4. bases[ptr] \in Ancestors(bases, prog[at].name)
    BY <1>0, <2>1, <2>2, <2>3, AncestorOfAncestor
  <2>. QED BY <2>1, <2>4 DEF WayInv
<1>3. CASE SkipRoot \/ BaseNotFound \/ CutCycle \/ EndWalk \/ FinishBasePass
  BY <1>3 DEF SkipRoot, BaseNotFound, CutCycle, EndWalk, FinishBasePass, CheckingBase, Walking,
              Visiting, PassOver, ForestInv, TypeOK
<1>4. CASE UNCHANGED vars
  BY <1>4 DEF vars, WayInv, Walking, Visiting
<1>. QED BY <1>1, <1>2, <1>3, <1>4 DEF Next, AddClassConflict, AddClass, StartBasePass, Visiting, PassOver

LEMMA CycleNext == ForestInv /\ CycleInv /\ [Next]_vars => CycleInv'
<1>. SUFFICES ASSUME ForestInv, CycleInv, [Next]_vars PROVE CycleInv'
  OBVIOUS
<1>0. prog' = prog
  BY DEF Next, vars, AddClassConflict, AddClass, StartBasePass, SkipRoot, BaseNotFound,
         StartWalk, CutCycle, WalkUp, EndWalk, FinishBasePass
<1>. SUFFICES ASSUME DistinctNames(prog)
              PROVE  IF phase' = "CHECK_CLASS" THEN errors' = {}
                     ELSE BlameInv' /\ VisitedInv' /\ WayInv'
  BY <1>0 DEF CycleInv, DistinctNames
<1>1. /\ at \in Nat /\ DOMAIN prog \subseteq Nat /\ ptr \in Name \cup {NoBase}
  BY DefShape DEF ForestInv, TypeOK
<1>2. CASE phase = "CHECK_CLASS"
  <2>1. CASE StartBasePass
    BY <2>1, StartBlame DEF StartBasePass
  <2>2. CASE AddClass \/ UNCHANGED vars
    BY <1>2, <2>2 DEF AddClass, vars, NoReport, CycleInv
  <2>. QED BY <1>2, <2>1, <2>2, NoConflict DEF Next, SkipRoot, BaseNotFound, StartWalk, CutCycle,
           WalkUp, EndWalk, FinishBasePass, CheckingBase, Walking, Visiting, PassOver
<1>3. CASE phase # "CHECK_CLASS"
  <2>1. BlameInv /\ VisitedInv /\ WayInv
    BY <1>3 DEF CycleInv
  <2>2. WayInv' /\ phase' # "CHECK_CLASS"
    BY <1>3, <2>1, WayNext DEF Next, vars, AddClassConflict, AddClass, StartBasePass, SkipRoot,
       BaseNotFound, StartWalk, CutCycle, WalkUp, EndWalk, FinishBasePass, CheckingBase, Walking,
       Visiting, PassOver
  <2>3. CASE CutCycle
    BY <2>1, <2>2, <2>3, CutBlame
  <2>4. CASE SkipRoot \/ BaseNotFound \/ EndWalk
    <3>1. bases' = bases /\ phase' = phase /\ at' = at + 1 /\ Visiting("CHECK_BASE")
      BY <2>4 DEF SkipRoot, BaseNotFound, EndWalk, CheckingBase, Walking
    <3>2. \A d \in DOMAIN prog : Blamed(d)' <=> Blamed(d)
      BY <2>4 DEF SkipRoot, BaseNotFound, EndWalk, NoReport, Report, Blamed
    <3>3. Grounded(prog[at].name)
      BY <2>1, <2>4, LeavesGrounded
    <3>4. BlameInv'
      BY <1>0, <1>1, <2>1, <3>1, <3>2, BlameStill
    <3>5. VisitedInv'
      BY <1>0, <2>1, <3>1, <3>3, VisitedStill DEF ForestInv, Visiting
    <3>. QED BY <2>2, <3>4, <3>5
  <2>5. CASE StartWalk \/ WalkUp \/ UNCHANGED vars
    <3>1. bases' = bases /\ phase' = phase /\ at' = at /\ errors' = errors
      BY <2>5 DEF StartWalk, WalkUp, vars, NoReport
    <3>2. BlameInv'
      BY <1>0, <1>1, <2>1, <3>1, BlameStill DEF Blamed
    <3>3. VisitedInv'
      BY <1>0, <2>1, <3>1, VisitedStill DEF ForestInv
    <3>. QED BY <2>2, <3>2, <3>3
  <2>6. CASE FinishBasePass
    <3>1. /\ bases' = bases /\ errors' = errors /\ phase' # "CHECK_BASE" /\ at \notin DOMAIN prog
          /\ at' \in Nat
      BY <2>6 DEF FinishBasePass, PassOver, NoReport
    <3>2. BlameInv'
      BY <1>0, <1>1, <2>1, <3>1, BlameStill DEF Blamed
    <3>3. VisitedInv'
      BY <1>0, <2>1, <3>1, VisitedStill DEF ForestInv
    <3>. QED BY <2>2, <3>2, <3>3
  <2>. QED BY <1>3, <2>3, <2>4, <2>5, <2>6 DEF Next, AddClassConflict, AddClass, StartBasePass,
           Visiting, PassOver
<1>. QED BY <1>2, <1>3

LEMMA CycleInductive == Spec => []CycleInv
BY CycleInit, CycleNext, ForestInductive, PTL DEF Spec

LEMMA CycleImplies ==
  ASSUME ForestInv, CycleInv
  PROVE  EachCycleReportedOnce
<1>. SUFFICES ASSUME Finished, DistinctNames(prog)
              PROVE  /\ \A d \in DOMAIN prog : Blamed(d) => OnCycle(Stated, prog[d].name)
                     /\ \A c \in Name : OnCycle(Stated, c) =>
                          \E d \in DOMAIN prog :
                            /\ Blamed(d) /\ SameCycle(Stated, prog[d].name, c)
                            /\ \A e \in DOMAIN prog :
                                 Blamed(e) /\ SameCycle(Stated, prog[e].name, c) => e = d
  BY DEF EachCycleReportedOnce, Blamed, Stated
<1>1. BlameInv /\ VisitedInv /\ phase # "CHECK_BASE"
  BY DEF Finished, CycleInv
<1>2. \A d \in DOMAIN prog : prog[d].name \in Name
  BY DefShape DEF ForestInv, TypeOK
<1>3. /\ Stated \in BaseMap
      /\ \A c \in Name : Stated[c] # NoBase => \E i \in DOMAIN prog : prog[i].name = c
  BY StatedType DEF ForestInv
<1>4. ASSUME NEW c \in Name, OnCycle(Stated, c)
      PROVE  \E d \in DOMAIN prog :
               /\ Blamed(d) /\ SameCycle(Stated, prog[d].name, c)
               /\ \A e \in DOMAIN prog :
                    Blamed(e) /\ SameCycle(Stated, prog[e].name, c) => e = d
  <2>1. PICK S \in SUBSET Name : S = Ancestors(Stated, c) /\ c \in S /\ Closed(Stated, S)
    BY <1>3, <1>4, CycleClosed
  <2>2. PICK i \in DOMAIN prog : prog[i].name = c
    BY <1>3, <2>1, NoBaseAssumption DEF Closed
  <2>3. Grounded(c)
    BY <1>1, <2>2 DEF VisitedInv
  <2>4. PICK x \in S : bases[x] # Stated[x]
    BY <2>1, <2>3 DEF Grounded, Closed
  <2>5. PICK d \in DOMAIN prog : Blamed(d) /\ prog[d].name = x
    BY <1>1, <2>4 DEF BlameInv
  <2>6. SameCycle(Stated, x, c)
    BY <1>3, <1>4, <2>1, CycleBack DEF SameCycle
  <2>7. ASSUME NEW e \in DOMAIN prog, Blamed(e), SameCycle(Stated, prog[e].name, c)
        PROVE  e = d
    <3>1. prog[e].name \in Ancestors(Stated, x) /\ x \in Ancestors(Stated, prog[e].name)
      BY <1>2, <1>3, <2>5, <2>6, <2>7, AncestorOfAncestor DEF SameCycle
    <3>. QED BY <1>1, <2>5, <2>7, <3>1 DEF BlameInv, SameCycle
  <2>. QED BY <2>5, <2>6, <2>7
<1>. QED BY <1>1, <1>4 DEF BlameInv

(* Whatever the program: with distinct names, each cycle is reported at    *)
(* exactly one of its classes and no other class is (checkBase).           *)
THEOREM CyclesReportedOnce == Spec => []EachCycleReportedOnce
<1>1. ForestInv /\ CycleInv => EachCycleReportedOnce
  BY CycleImplies
<1>. QED BY <1>1, ForestInductive, CycleInductive, PTL

(* Whatever the program: checkBase changes the inheritance only at a class *)
(* that is on a cycle of what is left of it, and only that class's.        *)
THEOREM CutsOnlyCycles == Spec => OnlyCyclesAreCut
<1>. DEFINE Cuts == phase = "CHECK_BASE" /\ DistinctNames(prog) /\ bases' # bases =>
                      /\ OnCycle(bases, prog[at].name)
                      /\ bases' = [bases EXCEPT ![prog[at].name] = NoBase]
<1>1. ForestInv /\ CycleInv /\ [Next]_vars => [Cuts]_vars
  <2>. SUFFICES ASSUME CycleInv, [Next]_vars, phase = "CHECK_BASE", DistinctNames(prog), bases' # bases
                PROVE  /\ OnCycle(bases, prog[at].name)
                       /\ bases' = [bases EXCEPT ![prog[at].name] = NoBase]
    OBVIOUS
  <2>1. CutCycle
    BY DEF Next, vars, AddClassConflict, AddClass, StartBasePass, SkipRoot, BaseNotFound,
           StartWalk, WalkUp, EndWalk, FinishBasePass, Visiting, PassOver
  <2>2. ptr = prog[at].name /\ Walking /\ bases' = [bases EXCEPT ![ptr] = NoBase]
    BY <2>1 DEF CutCycle, SetBase
  <2>. QED BY <2>2 DEF CycleInv, WayInv, OnCycle
<1>. HIDE DEF Cuts
<1>2. Spec => [][Cuts]_vars
  BY <1>1, ForestInductive, CycleInductive, PTL DEF Spec
<1>. QED BY <1>2 DEF OnlyCyclesAreCut, Cuts
=============================================================================
