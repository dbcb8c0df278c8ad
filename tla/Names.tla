------------------------------- MODULE Names --------------------------------
(***************************************************************************)
(* The names in one method body.  SymbolChecker declares parameters and    *)
(* locals in the scope tree; TypeChecker and then CodeGenVisitor walk the  *)
(* same body again and look names up in the finished tree, in which the    *)
(* locals of the whole body are: a use only sees a local that stands       *)
(* before it (lookupBefore).  CodeGenVisitor gives a local a value when it *)
(* leaves the definition, after its initialiser.                           *)
(*                                                                         *)
(* The body is a sequence of events, chosen one by one by the first walk.  *)
(* An event's index is its position.  Scopes are known by the position at  *)
(* which they open, the method's formal scope by 0; symbols by the         *)
(* position of their definition.  The names that an event uses stand to    *)
(* the right of the one it declares.                                       *)
(***************************************************************************)
EXTENDS Integers, Sequences, FiniteSetsExt

CONSTANTS
  Ids,       \* identifiers
  MaxBody    \* bound on the parameters, blocks, definitions and uses

ASSUME NamesAssumption == MaxBody \in Nat

VARIABLES
  outer,     \* what an identifier is in the class and global scopes
  static,    \* the method is static
  body,      \* the events so far
  paths,     \* history: the current scope before each event, and now
  pass,      \* the walk, or how the compiler ended
  at,        \* the event that the second and third walks are at
  cur,       \* the current scope, with those around it
  symbols,   \* per scope, the declaration of each identifier, 0 if none
  failed,    \* the events with an error reported
  refs,      \* history: what TypeChecker took the identifiers used for
  values     \* the symbols with a value (ASTAttrManager::symLLVMVals)

vars == <<outer, static, body, paths, pass, at, cur, symbols, failed, refs, values>>

(* None: nothing at all, or a method, which is no variable.                *)
Kinds == {"none", "class", "field"}
Position == 1..MaxBody
Scope == {0} \cup Position

Event == [op : {"param", "open", "close", "var", "use"},
          name : SUBSET Ids, void : BOOLEAN, uses : SUBSET Ids]
E(op, name, void, uses) == [op |-> op, name |-> name, void |-> void, uses |-> uses]

Bottom(path) == path[Len(path)]
Exit(path) == SubSeq(path, 1, Len(path) - 1)

-----------------------------------------------------------------------------
(* Scope::lookup and lookupBefore within the method, from the current      *)
(* scope outwards; 0 goes on in the class and global scopes.               *)
Nearest(x, seen) == IF seen = {} THEN 0 ELSE symbols[cur[Max(seen)]][x]

Lookup(x) == Nearest(x, {i \in DOMAIN cur : symbols[cur[i]][x] # 0})

(* Mutant: lookup instead of lookupBefore.                                 *)
SeenAnywhere(i, x, pos) == symbols[cur[i]][x] # 0

(* A local only counts for what comes after it, parameters always do.      *)
SeenBefore(i, x, pos) ==
  /\ symbols[cur[i]][x] # 0
  /\ i > 1 => symbols[cur[i]][x] < pos

LookupBefore(x, pos) == Nearest(x, {i \in DOMAIN cur : SeenBefore(i, x, pos)})

(* What event "at" uses stands after what it declares, and before the next.*)
Meaning(x) == LookupBefore(x, at + 1)

Init ==
  /\ outer \in [Ids -> Kinds]
  /\ static \in BOOLEAN
  /\ body = <<>> /\ paths = <<<<0>>>>
  /\ pass = "declare"
  /\ at = 0
  /\ cur = <<0>>
  /\ symbols = [s \in Scope |-> [x \in Ids |-> 0]]
  /\ failed = {}
  /\ refs = <<>>
  /\ values = {}

-----------------------------------------------------------------------------
(* SymbolChecker.  Every block that is open has to find room to close.     *)
here == Len(body) + 1

Read(e, path) ==
  /\ pass = "declare"
  /\ Len(body) + Len(path) <= MaxBody
  /\ body' = Append(body, e)
  /\ cur' = path
  /\ paths' = Append(paths, path)
  /\ UNCHANGED <<outer, static, refs, values>>

Enter(x) == symbols' = [symbols EXCEPT ![Bottom(cur)][x] = here]
Report(bad) == failed' = IF bad THEN failed \cup {here} ELSE failed

(* getMethodType refuses a void parameter, FormalScope declares it.        *)
Parameter(x, void) ==
  /\ Read(E("param", {x}, void, {}), cur)
  /\ Len(cur) = 1
  /\ Report(void \/ symbols[0][x] # 0)
  /\ IF symbols[0][x] # 0 THEN UNCHANGED symbols ELSE Enter(x)
  /\ UNCHANGED <<pass, at>>

(* A block, or a for statement, which has a scope around its block.        *)
OpenBlock ==
  /\ Read(E("open", {}, FALSE, {}), Append(cur, here))
  /\ UNCHANGED <<pass, at, symbols, failed>>

(* Mutant: lookupThis, as in FormalScope.                                  *)
ConflictsHere(x) == symbols[Bottom(cur)][x] # 0 \/ outer[x] = "class"

(* LocalScope::declare: only members of classes may be hidden.             *)
Conflicts(x) == Lookup(x) # 0 \/ outer[x] = "class"

(* An initialiser that uses other names is like a use before the variable. *)
LocalVar(x, void, init) ==
  /\ Read(E("var", {x}, void, init), cur)
  /\ Len(cur) > 1
  /\ Report(Conflicts(x) \/ void)
  /\ IF Conflicts(x) \/ void THEN UNCHANGED symbols ELSE Enter(x)
  /\ UNCHANGED <<pass, at>>

UseOf(x) ==
  /\ Read(E("use", {}, FALSE, {x}), cur)
  /\ Len(cur) > 1
  /\ UNCHANGED <<pass, at, symbols, failed>>

(* The end of the method's block ends the walk; the next one enters the    *)
(* method at that block.                                                   *)
CloseBlock ==
  /\ Len(cur) > 1
  /\ Read(E("close", {}, FALSE, {}), Exit(cur))
  /\ IF Len(cur) > 2 THEN UNCHANGED <<pass, at>>
     ELSE /\ pass' = IF failed = {} THEN "check" ELSE "rejected"
          /\ at' = Bottom(cur)
  /\ UNCHANGED <<symbols, failed>>

-----------------------------------------------------------------------------
(* The second and third walk: enterScope and exitScope find the tree.      *)
Visit(walk, op) ==
  /\ pass = walk /\ at <= Len(body) /\ body[at].op = op
  /\ at' = at + 1
  /\ UNCHANGED <<outer, static, body, paths, symbols>>

(* Mutant: blocks are left but not entered.                                *)
FollowOutwards(walk) ==
  \/ Visit(walk, "open") /\ UNCHANGED cur
  \/ Visit(walk, "close") /\ cur' = Exit(cur)

Follow(walk) ==
  \/ Visit(walk, "open") /\ cur' = Append(cur, at)
  \/ Visit(walk, "close") /\ cur' = Exit(cur)

CheckBlock ==
  /\ Follow("check")
  /\ UNCHANGED <<pass, failed, refs, values>>

(* TypeChecker::checkVar where no class name is allowed.                   *)
IsVariable(x) == Meaning(x) # 0 \/ (outer[x] = "field" /\ ~static)

CheckUses ==
  /\ \E op \in {"var", "use"} : Visit("check", op)
  /\ failed' = IF \A x \in body[at].uses : IsVariable(x) THEN failed ELSE failed \cup {at}
  /\ refs' = Append(refs, [x \in body[at].uses |-> Meaning(x)])
  /\ UNCHANGED <<pass, cur, values>>

FormalParams == {symbols[0][x] : x \in Ids} \ {0}

(* CodeGenVisitor::visitMethodDef stores the parameters first.             *)
EndCheck ==
  /\ pass = "check" /\ at > Len(body)
  /\ IF failed = {}
     THEN /\ pass' = "generate"
          /\ at' = paths[Len(body)][2]
          /\ values' = FormalParams
     ELSE pass' = "rejected" /\ UNCHANGED <<at, values>>
  /\ UNCHANGED <<outer, static, body, paths, cur, symbols, failed, refs>>

-----------------------------------------------------------------------------
GenerateBlock ==
  /\ Follow("generate")
  /\ UNCHANGED <<pass, failed, refs, values>>

(* getVarValue has an address to load from: that of a field of this, or    *)
(* the value that the symbol has got.                                      *)
HasAddress(x) ==
  IF Meaning(x) = 0 THEN outer[x] = "field" /\ ~static ELSE Meaning(x) \in values

Loads == \A x \in body[at].uses : HasAddress(x)

GenerateUse ==
  /\ Visit("generate", "use") /\ Loads
  /\ UNCHANGED <<pass, cur, failed, refs, values>>

(* Mutant: the symbol has its value before the initialiser is evaluated.   *)
GenerateVarFirst ==
  /\ Visit("generate", "var")
  /\ values' = values \cup {Lookup(x) : x \in body[at].name}
  /\ UNCHANGED <<pass, cur, failed, refs>>

(* The initialiser is evaluated first, then the symbol, looked up without  *)
(* a position, gets its value.                                             *)
GenerateVar ==
  /\ Visit("generate", "var") /\ Loads
  /\ values' = values \cup {Lookup(x) : x \in body[at].name}
  /\ UNCHANGED <<pass, cur, failed, refs>>

(* CreateLoad of a null pointer.                                           *)
LoadNull ==
  /\ pass = "generate" /\ at <= Len(body) /\ ~Loads
  /\ pass' = "crashed"
  /\ UNCHANGED <<outer, static, body, paths, at, cur, symbols, failed, refs, values>>

EndGenerate ==
  /\ pass = "generate" /\ at > Len(body)
  /\ pass' = "done"
  /\ UNCHANGED <<outer, static, body, paths, at, cur, symbols, failed, refs, values>>

Next ==
  \/ \E x \in Ids, void \in BOOLEAN : Parameter(x, void)
  \/ OpenBlock
  \/ \E x \in Ids, void \in BOOLEAN : LocalVar(x, void, {})
  \/ \E x \in Ids : LocalVar(x, FALSE, {x})
  \/ \E x \in Ids : UseOf(x)
  \/ CloseBlock
  \/ CheckBlock
  \/ CheckUses
  \/ EndCheck
  \/ GenerateBlock
  \/ GenerateUse
  \/ GenerateVar
  \/ LoadNull
  \/ EndGenerate

Spec == Init /\ [][Next]_vars

-----------------------------------------------------------------------------
(* Type correctness: the scopes, symbols and walks of the passes have their*)
(* shapes, and the walks stay within the body.                             *)
TypeOK ==
  /\ outer \in [Ids -> Kinds] /\ static \in BOOLEAN
  /\ body \in Seq(Event) /\ Len(body) <= MaxBody
  /\ paths \in Seq(Seq(Scope)) /\ Len(paths) = Len(body) + 1
  /\ pass \in {"declare", "check", "generate", "done", "rejected", "crashed"}
  /\ at \in 0..(Len(body) + 1)
  /\ cur \in Seq(Scope) /\ Len(cur) > 0
  /\ symbols \in [Scope -> [Ids -> Scope]]
  /\ failed \subseteq Position
  /\ Len(refs) <= Len(body)
  /\ values \subseteq Position

(* Event p is in a block that is still open where event q is.              *)
Encloses(p, q) ==
  p < q /\ \A r \in p..q : Len(paths[r]) >= Len(paths[p])

Declares(p, x) == body[p].op \in {"param", "var"} /\ x \in body[p].name

Entered == (UNION {{symbols[s][x] : x \in Ids} : s \in Scope}) \ {0}

(* Said of the text alone, which declarations FormalScope and LocalScope   *)
(* enter: those that repeat no name entered in a block still open; a local *)
(* is not void and may hide members of classes, but no class.              *)
DeclaresExactly ==
  \A p \in DOMAIN body, x \in Ids : Declares(p, x) =>
    (p \in Entered <=>
       /\ ~\E q \in Entered : Declares(q, x) /\ Encloses(q, p)
       /\ body[p].op = "var" => ~body[p].void /\ outer[x] # "class")

(* Looking names up by position in the tree of the whole body, as          *)
(* TypeChecker does, means what block structure means when the body is read*)
(* once: the locals that TypeChecker can see at its place are the          *)
(* environment.  And no name is declared twice among open blocks.          *)
SeenByNow(i, x) == IF SeenBefore(i, x, at) THEN symbols[cur[i]][x] ELSE 0

env == IF pass = "check"
       THEN [i \in DOMAIN cur |-> [x \in Ids |-> SeenByNow(i, x)]]
       ELSE <<symbols[0]>>

Abstract == INSTANCE Blocks WITH Names <- Ids, Places <- Position

ImplementsBlocks == Abstract!Spec

OwnInitialiser(p) == body[p].op = "var" /\ body[p].name = body[p].uses

(* Generation loads from a null pointer exactly when a local is used in its*)
(* own initialiser, which TypeChecker lets pass as its position is before. *)
NullLoadExactly ==
  /\ pass = "crashed" => OwnInitialiser(at)
  /\ pass = "done" => \A p \in DOMAIN body : ~OwnInitialiser(p)
=============================================================================
