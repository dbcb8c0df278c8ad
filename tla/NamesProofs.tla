---------------------------- MODULE NamesProofs -----------------------------
(***************************************************************************)
(* For bodies of any length: looking names up by position in the finished  *)
(* tree is block structure; the only names loaded without an address are   *)
(* locals in their own initialisers; a declaration is entered exactly when *)
(* no name of an open block is repeated.                                   *)
(***************************************************************************)
EXTENDS Names, WellFoundedInduction, TLAPS

(* A nonempty set of indexes has a largest one.                            *)
LEMMA MaxIndex ==
  ASSUME NEW n \in Nat, NEW S, S \subseteq 1..n, S # {}
  PROVE  Max(S) \in S /\ \A i \in S : i <= Max(S)
<1>. DEFINE T == {m \in Nat : \E i \in S : m = n - i}
            R == OpToRel(<, Nat)
<1>1. \A i \in S : i \in 1..n /\ n - i \in T
  OBVIOUS
<1>2. T \subseteq Nat /\ T # {}
  BY <1>1
<1>3. PICK m \in T : \A y \in T : ~ (<<y, m>> \in R)
  <2>. HIDE DEF T, R
  <2>1. IsWellFoundedOn(R, Nat)
    BY NatLessThanWellFounded DEF R
  <2>. QED BY <1>2, <2>1, WFMin
<1>4. \A y \in T : ~(y < m)
  BY <1>3 DEF OpToRel
<1>5. PICK i \in S : m = n - i
  OBVIOUS
<1>6. \A j \in S : i >= j
  <2>. SUFFICES ASSUME NEW j \in S PROVE i >= j
    OBVIOUS
  <2>1. n - j \in T /\ i \in 1..n /\ j \in 1..n
    BY <1>1
  <2>2. ~(n - j < n - i)
    BY <1>4, <1>5, <2>1
  <2>. QED BY <2>1, <2>2
<1>. HIDE DEF T, R
<1>7. Max(S) \in S /\ \A j \in S : Max(S) >= j
  BY <1>6 DEF Max
<1>8. \A j \in S : j \in 1..n
  BY <1>1
<1>9. Max(S) \in 1..n
  BY <1>7, <1>8
<1>. QED BY <1>7, <1>8, <1>9

-----------------------------------------------------------------------------
(* The path at event n.                                                    *)
IsPath(path, n) ==
  /\ path \in Seq(Scope) /\ Len(path) > 0 /\ path[1] = 0
  /\ \A i \in 2..Len(path) : path[i] \in 1..(n - 1)
  /\ \A i, j \in 1..Len(path) : path[i] = path[j] => i = j

(* How an event moves in the scope tree.                                   *)
Moves(e, p, path, next) ==
  /\ e.op = "open" => next = Append(path, p)
  /\ e.op = "close" => Len(path) > 1 /\ next = Exit(path)
  /\ e.op \in {"param", "var", "use"} => next = path
  /\ e.op = "param" => Len(path) = 1
  /\ e.op = "var" => Len(path) > 1
  /\ e.op \in {"param", "var"} => \E x \in Ids : e.name = {x}

TextTypes ==
  /\ body \in Seq(Event) /\ Len(body) <= MaxBody
  /\ paths \in Seq(Seq(Scope)) /\ Len(paths) = Len(body) + 1

Types ==
  /\ TextTypes
  /\ pass \in {"declare", "check", "generate", "done", "rejected", "crashed"}
  /\ at \in Nat
  /\ cur \in Seq(Scope) /\ Len(cur) > 0
  /\ symbols \in [Scope -> [Ids -> Scope]]

PathsInv ==
  /\ \A p \in 1..(Len(body) + 1) : IsPath(paths[p], p)
  /\ \A p \in 1..Len(body) : Moves(body[p], p, paths[p], paths[p + 1])
  /\ \A p \in 1..(Len(body) + 1) : Len(paths[p]) > 1 => paths[paths[p][2]] = <<0>>

(* A symbol is where its event was.                                        *)
IsSymbol(p, s, x) ==
  /\ p \in 1..Len(body)
  /\ body[p].op \in {"param", "var"} /\ body[p].name = {x}
  /\ s = Bottom(paths[p])

SymbolsInv ==
  \A s \in Scope, x \in Ids : symbols[s][x] # 0 => IsSymbol(symbols[s][x], s, x)

(* When nothing was refused, a local is declared, and nothing before it    *)
(* around it has its name.                                                 *)
Alone(p, x) ==
  /\ symbols[Bottom(paths[p])][x] = p
  /\ symbols[0][x] = 0
  /\ \A i \in 2..Len(paths[p]) : symbols[paths[p][i]][x] = 0 \/ symbols[paths[p][i]][x] >= p

LocalsInv ==
  (failed = {} \/ pass \in {"check", "generate", "done", "crashed"}) =>
    \A p \in 1..Len(body), x \in Ids :
      body[p].op = "var" /\ body[p].name = {x} => Alone(p, x)

WalkInv ==
  /\ pass = "declare" => /\ cur = paths[Len(body) + 1]
                         /\ refs = <<>>
                         /\ Len(cur) = 1 => \A p \in 1..Len(body) : body[p].op = "param"
  /\ pass # "declare" => /\ paths[Len(body) + 1] = <<0>> /\ at \in 1..(Len(body) + 1)
                         /\ Len(body) \in 1..Len(body) /\ Len(paths[Len(body)]) > 1
  /\ pass \in {"check", "generate"} => cur = paths[at]

NamesInv == Types /\ PathsInv /\ SymbolsInv /\ LocalsInv /\ WalkInv

-----------------------------------------------------------------------------
LEMMA InitInv == Init => NamesInv
<1>. SUFFICES ASSUME Init PROVE NamesInv
  OBVIOUS
<1>0. MaxBody \in Nat
  BY NamesAssumption
<1>1. Types
  BY <1>0 DEF Init, Types, TextTypes, Scope, Position
<1>2. PathsInv
  <2>1. paths = <<<<0>>>> /\ Len(body) = 0 /\ <<0>> \in Seq(Scope)
    BY DEF Init, Scope
  <2>2. IsPath(<<0>>, 1)
    BY <2>1 DEF IsPath
  <2>3. \A p \in 1..(Len(body) + 1) : p = 1
    BY <2>1
  <2>. QED BY <2>1, <2>2, <2>3 DEF PathsInv
<1>3. SymbolsInv /\ LocalsInv /\ WalkInv
  BY <1>0 DEF Init, SymbolsInv, LocalsInv, WalkInv, Scope, Position
<1>. QED BY <1>1, <1>2, <1>3 DEF NamesInv

(* The new event's path follows from the old one's; the older ones stay.   *)
Reads(e, path) ==
  /\ Read(e, path)
  /\ Moves(e, here, cur, path) /\ IsPath(path, here + 1)
  /\ Len(path) > 1 => \/ path[2] = here /\ cur = <<0>>
                      \/ Len(cur) > 1 /\ path[2] = cur[2]

Kept(e, path) ==
  /\ TextTypes' /\ PathsInv'
  /\ \A p \in Nat : \A s, x : IsSymbol(p, s, x) => IsSymbol(p, s, x)'
  /\ Len(body') = Len(body) + 1 /\ body'[here] = e /\ paths'[here] = cur
  /\ \A p \in 1..Len(body) : body'[p] = body[p]
  /\ \A p \in 1..(Len(body) + 1) : paths'[p] = paths[p]
  /\ paths'[here + 1] = path /\ cur' = path
  /\ cur = paths[Len(body) + 1] /\ here \in Position /\ here = Len(body) + 1
  /\ Len(body) \in Nat

LEMMA ReadKeeps ==
  ASSUME NamesInv, NEW e \in Event, NEW path \in Seq(Scope), Reads(e, path)
  PROVE  Kept(e, path)
<1>0. MaxBody \in Nat
  BY NamesAssumption
<1>1. /\ body \in Seq(Event) /\ paths \in Seq(Seq(Scope)) /\ Len(paths) = Len(body) + 1
      /\ cur = paths[Len(body) + 1] /\ Len(path) > 0 /\ pass = "declare"
  BY DEF NamesInv, Types, TextTypes, WalkInv, Reads, Read, IsPath
<1>2. /\ body' = Append(body, e) /\ paths' = Append(paths, path) /\ cur' = path
      /\ Len(body) + Len(path) <= MaxBody
  BY DEF Reads, Read
<1>3. /\ Len(body') = Len(body) + 1 /\ body'[here] = e /\ paths'[here] = cur
      /\ \A p \in 1..Len(body) : body'[p] = body[p]
      /\ \A p \in 1..(Len(body) + 1) : paths'[p] = paths[p]
      /\ paths'[here + 1] = path /\ Len(paths') = Len(body') + 1
      /\ body' \in Seq(Event) /\ paths' \in Seq(Seq(Scope)) /\ here = Len(body) + 1
  BY <1>1, <1>2 DEF here
<1>4. here \in Position /\ Len(body') <= MaxBody
  BY <1>0, <1>1, <1>2, <1>3 DEF Position
<1>5. \A p \in 1..(Len(body') + 1) : IsPath(paths'[p], p)
  <2>. SUFFICES ASSUME NEW p \in 1..(Len(body') + 1) PROVE IsPath(paths'[p], p)
    OBVIOUS
  <2>1. CASE p \in 1..(Len(body) + 1)
    BY <1>3, <2>1 DEF NamesInv, PathsInv
  <2>2. CASE p = here + 1
    BY <1>3, <2>2 DEF Reads
  <2>. QED BY <1>1, <1>3, <2>1, <2>2
<1>6. \A p \in 1..Len(body') : Moves(body'[p], p, paths'[p], paths'[p + 1])
  <2>. SUFFICES ASSUME NEW p \in 1..Len(body')
                PROVE  Moves(body'[p], p, paths'[p], paths'[p + 1])
    OBVIOUS
  <2>1. CASE p \in 1..Len(body)
    <3>1. p \in 1..(Len(body) + 1) /\ p + 1 \in 1..(Len(body) + 1)
      BY <1>1, <2>1
    <3>. QED BY <1>3, <2>1, <3>1 DEF NamesInv, PathsInv
  <2>2. CASE p = here
    BY <1>3, <2>2 DEF Reads
  <2>. QED BY <1>1, <1>3, <2>1, <2>2
<1>7. \A p \in 1..(Len(body') + 1) : Len(paths'[p]) > 1 => paths'[paths'[p][2]] = <<0>>
  <2>1. SUFFICES ASSUME NEW p \in 1..(Len(body') + 1), Len(paths'[p]) > 1
                 PROVE  paths'[paths'[p][2]] = <<0>>
    OBVIOUS
  <2>2. CASE p \in 1..(Len(body) + 1)
    <3>1. Len(paths[p]) > 1 /\ IsPath(paths[p], p) /\ paths[paths[p][2]] = <<0>>
      BY <1>3, <2>1, <2>2 DEF NamesInv, PathsInv
    <3>2. paths[p][2] \in 1..(Len(body) + 1)
      BY <1>1, <2>2, <3>1 DEF IsPath
    <3>. QED BY <1>3, <2>2, <3>1, <3>2
  <2>3. CASE p = here + 1
    <3>1. \/ path[2] = here /\ cur = <<0>>
          \/ Len(cur) > 1 /\ path[2] = cur[2]
      BY <1>3, <2>1, <2>3 DEF Reads
    <3>2. CASE path[2] = here /\ cur = <<0>>
      BY <1>3, <2>3, <3>2
    <3>3. CASE Len(cur) > 1 /\ path[2] = cur[2]
      <4>0. here \in 1..(Len(body) + 1) /\ cur = paths[here] /\ Len(cur) \in Nat
        BY <1>1, <1>3
      <4>1. IsPath(cur, here) /\ paths[cur[2]] = <<0>>
        BY <3>3, <4>0 DEF NamesInv, PathsInv
      <4>2. 2 \in 2..Len(cur)
        BY <3>3, <4>0
      <4>3. cur[2] \in 1..(here - 1)
        BY <4>1, <4>2 DEF IsPath
      <4>4. Len(body) \in Nat
        BY <1>1
      <4>5. cur[2] \in 1..(Len(body) + 1)
        BY <4>0, <4>3, <4>4
      <4>. QED BY <1>3, <2>3, <3>3, <4>1, <4>5
    <3>. QED BY <3>1, <3>2, <3>3
  <2>. QED BY <1>1, <1>3, <2>2, <2>3
<1>8. PathsInv'
  BY <1>5, <1>6, <1>7 DEF PathsInv
<1>9. TextTypes'
  BY <1>1, <1>2, <1>3, <1>4 DEF TextTypes
<1>10. SUFFICES ASSUME NEW p \in Nat, NEW s, NEW x, IsSymbol(p, s, x)
               PROVE  IsSymbol(p, s, x)'
  BY <1>1, <1>2, <1>3, <1>4, <1>8, <1>9 DEF Kept
<1>11. p \in 1..Len(body) /\ p \in 1..(Len(body) + 1) /\ p \in 1..Len(body')
  BY <1>1, <1>3, <1>10 DEF IsSymbol
<1>12. body'[p] = body[p] /\ paths'[p] = paths[p]
  BY <1>3, <1>11
<1>. QED BY <1>10, <1>11, <1>12 DEF IsSymbol

(* Reading an event that declares nothing.                                 *)
LEMMA ReadNoSymbol ==
  ASSUME NamesInv, NEW e \in Event, NEW path \in Seq(Scope), Reads(e, path),
         e.op # "var", symbols' = symbols, failed' = {} => failed = {},
         pass' \in {"check", "generate", "done", "crashed"} => failed = {}
  PROVE  SymbolsInv' /\ LocalsInv'
<1>1. Kept(e, path)
  BY ReadKeeps
<1>2. SymbolsInv /\ LocalsInv /\ symbols \in [Scope -> [Ids -> Scope]]
  BY DEF NamesInv, Types
<1>3. Scope \subseteq Nat
  BY NamesAssumption DEF Scope, Position
<1>4. SymbolsInv'
  <2>. SUFFICES ASSUME NEW s \in Scope, NEW x \in Ids, symbols[s][x] # 0
                PROVE  IsSymbol(symbols[s][x], s, x)'
    BY DEF SymbolsInv
  <2>1. PICK p \in Nat : p = symbols[s][x]
    BY <1>2, <1>3
  <2>2. IsSymbol(p, s, x)'
    BY <1>1, <1>2, <2>1 DEF SymbolsInv, Kept
  <2>3. p = symbols'[s][x]
    BY <2>1
  <2>. QED BY <2>2, <2>3 DEF IsSymbol
<1>5. LocalsInv'
  <2>. SUFFICES ASSUME failed' = {} \/ pass' \in {"check", "generate", "done", "crashed"},
                       NEW p \in 1..Len(body'), NEW x \in Ids,
                       body'[p].op = "var", body'[p].name = {x}
                PROVE  Alone(p, x)'
    BY DEF LocalsInv
  <2>1. p \in 1..Len(body) /\ body[p] = body'[p] /\ paths[p] = paths'[p]
    BY <1>1 DEF Kept
  <2>2. Alone(p, x)
    BY <1>2, <2>1 DEF LocalsInv
  <2>. QED BY <2>1, <2>2 DEF Alone, Bottom
<1>. QED BY <1>4, <1>5

(* How paths change.                                                       *)
LEMMA PathPush ==
  ASSUME NEW path \in Seq(Scope), NEW n \in Nat, n > 0, n \in Scope, IsPath(path, n)
  PROVE  IsPath(Append(path, n), n + 1)
<1>1. PICK l \in Nat : l = Len(path) /\ l > 0
  BY DEF IsPath
<1>2. PICK q \in Seq(Scope) : q = Append(path, n)
  <2>1. Append(path, n) \in Seq(Scope)
    OBVIOUS
  <2>. QED BY <2>1
<1>3. Len(q) = l + 1 /\ q[l + 1] = n /\ \A i \in 1..l : q[i] = path[i]
  BY <1>1, <1>2
<1>4. /\ path[1] = 0 /\ \A i \in 2..l : path[i] \in 1..(n - 1)
      /\ \A i, j \in 1..l : path[i] = path[j] => i = j
  BY <1>1 DEF IsPath
<1>5. q[1] = 0 /\ \A i \in 2..(l + 1) : q[i] \in 1..n
  BY <1>1, <1>3, <1>4
<1>6. \A i \in 1..l : path[i] # n
  BY <1>4
<1>7. ASSUME NEW i \in 1..(l + 1), NEW j \in 1..(l + 1), q[i] = q[j] PROVE i = j
  <2>1. CASE i \in 1..l /\ j \in 1..l
    BY <1>3, <1>4, <1>7, <2>1
  <2>2. CASE i = l + 1 \/ j = l + 1
    BY <1>3, <1>6, <1>7, <2>2
  <2>. QED BY <2>1, <2>2
<1>. QED BY <1>1, <1>2, <1>3, <1>5, <1>7 DEF IsPath

LEMMA PathPop ==
  ASSUME NEW path \in Seq(Scope), NEW n \in Nat, n > 0, Len(path) > 1, IsPath(path, n)
  PROVE  IsPath(Exit(path), n + 1)
<1>1. PICK l \in Nat : l = Len(path) /\ l > 1
  OBVIOUS
<1>2. PICK q \in Seq(Scope) : q = Exit(path)
  <2>1. Exit(path) \in Seq(Scope)
    BY DEF Exit
  <2>. QED BY <2>1
<1>3. Len(q) = l - 1 /\ \A i \in 1..(l - 1) : q[i] = path[i]
  BY <1>1, <1>2 DEF Exit
<1>4. /\ path[1] = 0 /\ \A i \in 2..l : path[i] \in 1..(n - 1)
      /\ \A i, j \in 1..l : path[i] = path[j] => i = j
  BY <1>1 DEF IsPath
<1>. QED BY <1>1, <1>2, <1>3, <1>4 DEF IsPath

LEMMA LongPath ==
  ASSUME NEW path \in Seq(Scope), Len(path) > 1
  PROVE  Len(path) # 1 /\ (Len(path) = 2 \/ Len(path) > 2)
<1>1. PICK n \in Nat : n = Len(path)
  OBVIOUS
<1>2. n # 1 /\ (n = 2 \/ n > 2)
  BY SMTT(30), <1>1
<1>. QED BY <1>1, <1>2

LEMMA ParameterInv ==
  ASSUME NamesInv, NEW x \in Ids, NEW void \in BOOLEAN, Parameter(x, void)
  PROVE  NamesInv'
<1>. DEFINE e == E("param", {x}, void, {})
<1>1. e \in Event /\ e.op = "param" /\ e.name = {x}
  BY DEF E, Event
<1>2. cur \in Seq(Scope) /\ Len(cur) = 1 /\ Read(e, cur) /\ pass = "declare"
  BY DEF NamesInv, Types, Parameter, Read
<1>3. Len(body) \in Nat /\ here = Len(body) + 1 /\ cur = paths[here]
  BY <1>2 DEF NamesInv, Types, TextTypes, WalkInv, here
<1>4. IsPath(cur, here)
  BY <1>3 DEF NamesInv, PathsInv
<1>. HIDE DEF e
<1>5. Reads(e, cur)
  BY <1>1, <1>2, <1>3, <1>4 DEF Reads, Moves, IsPath
<1>6. Kept(e, cur)
  BY <1>1, <1>2, <1>5, ReadKeeps
<1>7. cur[1] = 0 /\ Bottom(cur) = 0 /\ 0 \in Scope /\ here \in Scope
  BY <1>2, <1>4, <1>6 DEF IsPath, Bottom, Scope, Kept
<1>8. /\ symbols \in [Scope -> [Ids -> Scope]] /\ SymbolsInv
      /\ \A p \in 1..Len(body) : body[p].op = "param"
  BY <1>2 DEF NamesInv, Types, WalkInv
<1>9. symbols' = symbols \/ symbols' = [symbols EXCEPT ![0][x] = here]
  BY <1>7 DEF Parameter, Enter
<1>10. symbols' \in [Scope -> [Ids -> Scope]]
  <2>1. CASE symbols' = symbols
    BY <1>8, <2>1
  <2>2. CASE symbols' = [symbols EXCEPT ![0][x] = here]
    <3>. PICK h \in Scope : h = here
      BY <1>7
    <3>. QED BY <1>7, <1>8, <2>2
  <2>. QED BY <1>9, <2>1, <2>2
<1>11. Types'
  BY <1>2, <1>6, <1>10 DEF Types, Kept, Parameter, NamesInv
<1>12. SymbolsInv'
  <2>. SUFFICES ASSUME NEW s \in Scope, NEW y \in Ids, symbols'[s][y] # 0
                PROVE  IsSymbol(symbols[s][y], s, y)'
    BY DEF SymbolsInv
  <2>1. CASE symbols'[s][y] = symbols[s][y]
    <3>1. PICK p \in Nat : p = symbols[s][y]
      BY <1>8, NamesAssumption DEF Scope, Position
    <3>2. IsSymbol(p, s, y)'
      BY <1>6, <1>8, <2>1, <3>1 DEF SymbolsInv, Kept
    <3>. QED BY <2>1, <3>1, <3>2 DEF IsSymbol
  <2>2. CASE symbols'[s][y] # symbols[s][y]
    <3>1. s = 0 /\ y = x /\ symbols'[s][y] = here
      BY <1>7, <1>8, <1>9, <2>2
    <3>. QED BY <1>1, <1>3, <1>6, <1>7, <3>1 DEF IsSymbol, Kept
  <2>. QED BY <2>1, <2>2
<1>13. \A p \in 1..Len(body') : body'[p].op = "param"
  BY <1>1, <1>3, <1>6, <1>8 DEF Kept
<1>14. LocalsInv' /\ WalkInv'
  BY <1>2, <1>3, <1>6, <1>13 DEF LocalsInv, WalkInv, Kept, Parameter, Read, NamesInv
<1>. QED BY <1>6, <1>11, <1>12, <1>14 DEF NamesInv, Kept

LEMMA OpenInv == ASSUME NamesInv, OpenBlock PROVE NamesInv'
<1>. DEFINE e == E("open", {}, FALSE, {})
            path == Append(cur, here)
<1>1. e \in Event /\ e.op = "open"
  BY DEF E, Event
<1>2. cur \in Seq(Scope) /\ Len(cur) > 0 /\ Read(e, path) /\ pass = "declare"
  BY DEF NamesInv, Types, OpenBlock, Read
<1>3. Len(body) \in Nat /\ here = Len(body) + 1 /\ cur = paths[here]
  BY <1>2 DEF NamesInv, Types, TextTypes, WalkInv, here
<1>4. IsPath(cur, here)
  BY <1>3 DEF NamesInv, PathsInv
<1>5. here \in Scope
  BY <1>2, <1>3, NamesAssumption DEF Read, Scope, Position
<1>6. /\ path \in Seq(Scope) /\ Len(path) = Len(cur) + 1 /\ path[Len(path)] = here
      /\ \A i \in 1..Len(cur) : path[i] = cur[i]
  BY <1>2, <1>5
<1>. HIDE DEF e
<1>7. IsPath(path, here + 1)
  BY <1>2, <1>3, <1>4, <1>5, PathPush
<1>8. Len(cur) = 1 => path[2] = here /\ cur = <<0>>
  <2>. HIDE DEF path
  <2>. QED BY <1>2, <1>4, <1>6 DEF IsPath
<1>9. Len(cur) > 1 => path[2] = cur[2]
  BY <1>2, <1>6
<1>10. Moves(e, here, cur, path)
  BY <1>1 DEF Moves
<1>. HIDE DEF path
<1>11. Reads(e, path)
  <2>0. cur \in Seq(Scope) /\ Len(cur) > 0
    BY <1>2
  <2>1. Len(cur) = 1 \/ Len(cur) > 1
    BY <2>0
  <2>. QED BY <1>2, <1>7, <1>8, <1>9, <1>10, <2>1 DEF Reads
<1>12. Kept(e, path)
  BY <1>1, <1>6, <1>11, ReadKeeps
<1>13. SymbolsInv' /\ LocalsInv'
  BY <1>1, <1>2, <1>6, <1>11, ReadNoSymbol DEF OpenBlock
<1>14. Types'
  BY <1>2, <1>6, <1>12 DEF Types, Kept, OpenBlock, NamesInv
<1>15. WalkInv'
  <2>1. Len(path) # 1
    <3>1. cur \in Seq(Scope) /\ Len(cur) > 0
      BY <1>2
    <3>. QED BY <1>6, <3>1
  <2>2. pass' = "declare" /\ refs' = <<>>
    BY <1>2 DEF WalkInv, OpenBlock, Read, NamesInv
  <2>3. cur' = path /\ path = paths'[Len(body') + 1]
    BY <1>3, <1>12 DEF Kept
  <2>. QED BY <2>1, <2>2, <2>3 DEF WalkInv
<1>. QED BY <1>12, <1>13, <1>14, <1>15 DEF NamesInv, Kept

(* The facts about the current path while the text is read.                *)
LEMMA AtText ==
  ASSUME NamesInv, pass = "declare"
  PROVE  /\ cur \in Seq(Scope) /\ Len(cur) \in Nat /\ Len(cur) > 0
         /\ Len(body) \in Nat /\ here = Len(body) + 1 /\ cur = paths[here]
         /\ IsPath(cur, here) /\ refs = <<>>
<1>1. cur \in Seq(Scope) /\ Len(cur) > 0 /\ refs = <<>>
  BY DEF NamesInv, Types, WalkInv
<1>2. Len(body) \in Nat /\ here = Len(body) + 1 /\ cur = paths[here]
  BY DEF NamesInv, Types, TextTypes, WalkInv, here
<1>3. IsPath(cur, here)
  BY <1>2 DEF NamesInv, PathsInv
<1>. QED BY <1>1, <1>2, <1>3

LEMMA ReadInPlace ==
  ASSUME NamesInv, NEW e \in Event, Read(e, cur), Moves(e, here, cur, cur)
  PROVE  Reads(e, cur) /\ Kept(e, cur)
<1>1. /\ cur \in Seq(Scope) /\ Len(cur) \in Nat /\ Len(cur) > 0
      /\ Len(body) \in Nat /\ here = Len(body) + 1 /\ IsPath(cur, here)
  BY AtText DEF Read
<1>2. IsPath(cur, here + 1)
  BY <1>1 DEF IsPath
<1>3. Reads(e, cur)
  BY <1>2 DEF Reads
<1>. QED BY <1>1, <1>3, ReadKeeps

LEMMA UseOfInv == ASSUME NamesInv, NEW x \in Ids, UseOf(x) PROVE NamesInv'
<1>. DEFINE e == E("use", {}, FALSE, {x})
<1>1. e \in Event /\ e.op = "use"
  BY DEF E, Event
<1>2. Read(e, cur) /\ pass = "declare" /\ Len(cur) > 1
  BY DEF UseOf, Read
<1>3. Moves(e, here, cur, cur)
  BY <1>1 DEF Moves
<1>. HIDE DEF e
<1>4. Reads(e, cur) /\ Kept(e, cur)
  BY <1>1, <1>2, <1>3, ReadInPlace
<1>5. cur \in Seq(Scope) /\ here = Len(body) + 1 /\ refs = <<>>
  BY <1>2, AtText
<1>6. SymbolsInv' /\ LocalsInv'
  BY <1>1, <1>2, <1>4, <1>5, ReadNoSymbol DEF UseOf
<1>7. Types'
  BY <1>2, <1>4 DEF Types, Kept, UseOf, NamesInv
<1>8. WalkInv'
  <2>1. cur' = cur /\ cur' = paths'[here + 1] /\ pass' = pass /\ refs' = refs
    BY <1>2, <1>4 DEF Kept, UseOf, Read
  <2>2. cur' = paths'[Len(body') + 1]
    BY <1>4, <2>1 DEF Kept
  <2>3. pass' = "declare" /\ refs' = <<>> /\ Len(cur') # 1
    <3>0. Len(cur) > 1 /\ cur \in Seq(Scope)
      BY <1>2, <1>5
    <3>1. Len(cur) # 1
      BY <3>0, LongPath
    <3>. QED BY <1>2, <1>5, <2>1, <3>1
  <2>. QED BY <2>2, <2>3 DEF WalkInv
<1>. QED BY <1>4, <1>6, <1>7, <1>8 DEF NamesInv, Kept

LEMMA CloseInv == ASSUME NamesInv, CloseBlock PROVE NamesInv'
<1>. DEFINE e == E("close", {}, FALSE, {})
            path == Exit(cur)
<1>1. e \in Event /\ e.op = "close"
  BY DEF E, Event
<1>2. Read(e, path) /\ pass = "declare" /\ Len(cur) > 1
  BY DEF CloseBlock, Read
<1>3. /\ cur \in Seq(Scope) /\ Len(cur) \in Nat
      /\ Len(body) \in Nat /\ here = Len(body) + 1 /\ cur = paths[here]
      /\ IsPath(cur, here) /\ refs = <<>>
  BY <1>2, AtText
<1>4. /\ path \in Seq(Scope) /\ Len(path) = Len(cur) - 1
      /\ \A i \in 1..(Len(cur) - 1) : path[i] = cur[i]
  BY <1>2, <1>3 DEF Exit
<1>. HIDE DEF e
<1>5. Moves(e, here, cur, path)
  BY <1>1, <1>2 DEF Moves
<1>6. IsPath(path, here + 1)
  BY <1>2, <1>3, PathPop
<1>. HIDE DEF path
<1>7. Len(path) > 1 => path[2] = cur[2]
  BY <1>2, <1>3, <1>4
<1>8. Reads(e, path)
  BY <1>2, <1>5, <1>6, <1>7 DEF Reads
<1>9. Kept(e, path)
  BY <1>1, <1>4, <1>8, ReadKeeps
<1>10. pass' \in {"declare", "check", "rejected"} /\ (pass' = "check" => failed = {})
  BY <1>2 DEF CloseBlock
<1>11. SymbolsInv' /\ LocalsInv'
  BY <1>1, <1>4, <1>8, <1>10, ReadNoSymbol DEF CloseBlock
<1>12. symbols' = symbols /\ cur' = path /\ path = paths'[Len(body') + 1] /\ refs' = refs
  BY <1>3, <1>9 DEF CloseBlock, Kept, Read
<1>13. CASE Len(cur) > 2
  <2>1. pass' = "declare" /\ at' = at
    BY <1>2, <1>13 DEF CloseBlock
  <2>2. Types'
    BY <1>2, <1>4, <1>9, <1>12, <1>13, <2>1 DEF Types, NamesInv, Kept
  <2>3. Len(path) # 1
    BY <1>3, <1>4, <1>13
  <2>4. WalkInv'
    BY <1>3, <1>12, <2>1, <2>3 DEF WalkInv
  <2>. QED BY <1>9, <1>11, <2>2, <2>4 DEF NamesInv, Kept
<1>14. CASE Len(cur) = 2
  <2>1. pass' \in {"check", "rejected"} /\ at' = cur[2] /\ path = <<0>>
    BY <1>2, <1>3, <1>4, <1>10, <1>14 DEF CloseBlock, IsPath, Bottom
  <2>2. cur[2] \in 1..(here - 1) /\ paths[cur[2]] = <<0>>
    <3>1. 2 \in 2..Len(cur) /\ here \in 1..(Len(body) + 1)
      BY <1>3, <1>14
    <3>. QED BY <1>2, <1>3, <3>1 DEF NamesInv, PathsInv, IsPath
  <2>3. at' \in 1..(Len(body') + 1) /\ at' \in Nat /\ paths'[at'] = <<0>>
    BY <1>3, <1>9, <2>1, <2>2 DEF Kept
  <2>4. Types'
    BY <1>2, <1>4, <1>9, <1>12, <1>14, <2>1, <2>3 DEF Types, NamesInv, Kept
  <2>4a. Len(body') \in 1..Len(body') /\ Len(paths'[Len(body')]) > 1
    BY <1>2, <1>3, <1>9 DEF Kept
  <2>5. WalkInv'
    BY <1>12, <2>1, <2>3, <2>4a DEF WalkInv
  <2>6. PathsInv'
    BY <1>9 DEF Kept
  <2>. QED BY <1>11, <2>4, <2>5, <2>6 DEF NamesInv
<1>15. Len(cur) = 2 \/ Len(cur) > 2
  <2>1. Len(cur) > 1 /\ cur \in Seq(Scope)
    BY <1>2, <1>3
  <2>. QED BY <2>1, LongPath
<1>. QED BY <1>13, <1>14, <1>15

(* Lookup finds nothing only when there is nothing.                        *)
LEMMA LookupNothing ==
  ASSUME NamesInv, NEW x \in Ids, Lookup(x) = 0
  PROVE  \A i \in 1..Len(cur) : symbols[cur[i]][x] = 0
<1>. DEFINE S == {i \in DOMAIN cur : symbols[cur[i]][x] # 0}
<1>1. cur \in Seq(Scope) /\ Len(cur) \in Nat /\ DOMAIN cur = 1..Len(cur)
  BY DEF NamesInv, Types
<1>2. S # {} => Max(S) \in S
  <2>1. S \subseteq 1..Len(cur)
    BY <1>1
  <2>. HIDE DEF S
  <2>. QED BY <1>1, <2>1, MaxIndex
<1>3. Lookup(x) = IF S = {} THEN 0 ELSE symbols[cur[Max(S)]][x]
  BY DEF Lookup, Nearest
<1>4. S = {}
  BY <1>2, <1>3
<1>. QED BY <1>1, <1>4

LEMMA LocalVarInv ==
  ASSUME NamesInv, NEW x \in Ids, NEW void \in BOOLEAN, NEW init \in SUBSET Ids,
         LocalVar(x, void, init)
  PROVE  NamesInv'
<1>. DEFINE e == E("var", {x}, void, init)
<1>1. e \in Event /\ e.op = "var" /\ e.name = {x}
  BY DEF E, Event
<1>2. Read(e, cur) /\ pass = "declare" /\ Len(cur) > 1
  BY DEF LocalVar, Read
<1>3. Moves(e, here, cur, cur)
  BY <1>1, <1>2 DEF Moves
<1>. HIDE DEF e
<1>4. Reads(e, cur) /\ Kept(e, cur)
  BY <1>1, <1>2, <1>3, ReadInPlace
<1>5. /\ cur \in Seq(Scope) /\ here = Len(body) + 1 /\ refs = <<>> /\ Len(body) \in Nat
      /\ Len(cur) \in Nat /\ IsPath(cur, here) /\ cur = paths[here]
  BY <1>2, AtText
<1>6. pass' = "declare" /\ refs' = <<>> /\ at' = at /\ cur' = cur
  BY <1>2, <1>4, <1>5 DEF LocalVar, Read, Kept
<1>7. PICK b \in Scope : b = Bottom(cur) /\ b # 0
  <2>1. Len(cur) \in 2..Len(cur) /\ cur[Len(cur)] \in Scope
    BY <1>2, <1>5
  <2>. QED BY <1>5, <2>1 DEF IsPath, Bottom
<1>8. PICK h \in Scope : h = here /\ h # 0
  BY <1>4, NamesAssumption DEF Kept, Scope, Position
<1>9. symbols \in [Scope -> [Ids -> Scope]] /\ SymbolsInv /\ Scope \subseteq Nat
  BY NamesAssumption DEF NamesInv, Types, Scope, Position
<1>10. \/ symbols' = symbols /\ failed' # {}
       \/ /\ symbols' = [symbols EXCEPT ![b][x] = h] /\ failed' = failed
          /\ Lookup(x) = 0
  BY <1>7, <1>8 DEF LocalVar, Enter, Report, Conflicts
<1>11. symbols' \in [Scope -> [Ids -> Scope]] /\ symbols'[0] = symbols[0]
  BY <1>7, <1>9, <1>10, NamesAssumption DEF Scope, Position
<1>12. Types'
  BY <1>4, <1>6, <1>11 DEF Types, Kept, NamesInv
<1>13. WalkInv'
  <2>1. cur' = paths'[Len(body') + 1]
    BY <1>4, <1>6 DEF Kept
  <2>2. Len(cur) > 1
    BY <1>2
  <2>3. Len(cur) # 1
    BY <2>2
  <2>. QED BY <1>6, <2>1, <2>3 DEF WalkInv
<1>14. SymbolsInv'
  <2>. SUFFICES ASSUME NEW s \in Scope, NEW y \in Ids, symbols'[s][y] # 0
                PROVE  IsSymbol(symbols[s][y], s, y)'
    BY DEF SymbolsInv
  <2>1. CASE symbols'[s][y] = symbols[s][y]
    <3>1. PICK p \in Nat : p = symbols[s][y]
      BY <1>9
    <3>2. IsSymbol(p, s, y)'
      BY <1>4, <1>9, <2>1, <3>1 DEF SymbolsInv, Kept
    <3>. QED BY <2>1, <3>1, <3>2 DEF IsSymbol
  <2>2. CASE symbols'[s][y] # symbols[s][y]
    <3>1. s = b /\ y = x /\ symbols'[s][y] = here
      BY <1>8, <1>9, <1>10, <2>2
    <3>. QED BY <1>1, <1>4, <1>5, <1>7, <3>1 DEF IsSymbol, Kept
  <2>. QED BY <2>1, <2>2
<1>15. LocalsInv'
  <2>. SUFFICES ASSUME failed' = {}, NEW p \in 1..Len(body'), NEW y \in Ids,
                       body'[p].op = "var", body'[p].name = {y}
                PROVE  Alone(p, y)'
    BY <1>6 DEF LocalsInv
  <2>1. /\ symbols' = [symbols EXCEPT ![b][x] = h] /\ failed = {}
        /\ \A i \in 1..Len(cur) : symbols[cur[i]][x] = 0
    BY <1>10, LookupNothing
  <2>2. \A s \in Scope, z \in Ids : symbols'[s][z] = IF s = b /\ z = x THEN h ELSE symbols[s][z]
    BY <1>7, <1>8, <1>9, <2>1
  <2>3. CASE p = here
    <3>1. y = x /\ paths'[p] = cur
      BY <1>1, <1>4, <2>3 DEF Kept
    <3>2. symbols'[b][x] = here /\ symbols'[0][x] = 0
      BY <1>2, <1>5, <1>7, <1>8, <1>11, <2>1, <2>2 DEF IsPath
    <3>3. \A i \in 2..Len(cur) : symbols'[cur[i]][x] = 0 \/ symbols'[cur[i]][x] >= here
      BY <1>4, <1>5, <1>8, <2>1, <2>2
    <3>. QED BY <1>7, <2>3, <3>1, <3>2, <3>3 DEF Alone, Bottom
  <2>4. CASE p # here
    <3>1. p \in 1..Len(body) /\ body[p] = body'[p] /\ paths[p] = paths'[p]
      BY <1>4, <1>5, <2>4 DEF Kept
    <3>2. Alone(p, y)
      BY <2>1, <3>1 DEF LocalsInv, NamesInv
    <3>3. /\ IsPath(paths[p], p) /\ paths[p] \in Seq(Scope)
      <4>1. p \in 1..(Len(body) + 1)
        BY <1>5, <3>1
      <4>2. IsPath(paths[p], p)
        BY <4>1 DEF NamesInv, PathsInv
      <4>. QED BY <4>2 DEF IsPath
    <3>4. Bottom(paths[p]) \in Scope
      BY <3>3 DEF Bottom, IsPath
    <3>5. symbols'[0][y] = 0
      BY <1>11, <3>2 DEF Alone
    <3>6. symbols'[Bottom(paths[p])][y] = p
      <4>1. ~(Bottom(paths[p]) = b /\ y = x)
        <5>1. Len(cur) \in 1..Len(cur)
          BY <1>5, <1>2
        <5>2. symbols[b][x] = 0
          BY <1>7, <2>1, <5>1 DEF Bottom
        <5>3. symbols[Bottom(paths[p])][y] # 0
          BY <1>5, <3>1, <3>2 DEF Alone
        <5>. QED BY <5>2, <5>3
      <4>. QED BY <2>2, <3>2, <3>4, <4>1 DEF Alone
    <3>7. ASSUME NEW i \in 2..Len(paths[p])
          PROVE  symbols'[paths[p][i]][y] = 0 \/ symbols'[paths[p][i]][y] >= p
      <4>1. paths[p][i] \in Scope
        BY <3>3, <3>7
      <4>2. h >= p
        BY <1>5, <1>8, <3>1
      <4>. QED BY <2>2, <3>2, <4>1, <4>2 DEF Alone
    <3>. QED BY <3>1, <3>5, <3>6, <3>7 DEF Alone, Bottom
  <2>. QED BY <2>3, <2>4
<1>. QED BY <1>4, <1>12, <1>13, <1>14, <1>15 DEF NamesInv, Kept

(* The walks change neither the text nor the tree.                         *)
LEMMA WalkKeeps ==
  ASSUME NamesInv, UNCHANGED <<body, paths, symbols>>,
         pass # "declare", pass' # "declare",
         pass \in {"check", "generate"}, pass' \in {"check", "generate", "done", "rejected", "crashed"},
         at' \in 1..(Len(body) + 1), cur' \in Seq(Scope), Len(cur') > 0,
         pass' \in {"check", "generate"} => cur' = paths[at']
  PROVE  NamesInv'
<1>1. Types'
  BY DEF NamesInv, Types, TextTypes
<1>2. PathsInv'
  BY DEF NamesInv, PathsInv
<1>3. SymbolsInv'
  BY DEF NamesInv, SymbolsInv, IsSymbol
<1>4. LocalsInv'
  BY DEF NamesInv, LocalsInv, Alone
<1>5. WalkInv'
  BY DEF NamesInv, WalkInv
<1>. QED BY <1>1, <1>2, <1>3, <1>4, <1>5 DEF NamesInv

(* A walk that is at an event, and the next one's path.                    *)
LEMMA AtEvent ==
  ASSUME NamesInv, pass \in {"check", "generate"}, at <= Len(body)
  PROVE  /\ at \in 1..Len(body) /\ at + 1 \in 1..(Len(body) + 1) /\ Len(body) \in Nat
         /\ cur = paths[at] /\ cur \in Seq(Scope) /\ Len(cur) \in Nat
         /\ IsPath(cur, at) /\ IsPath(paths[at + 1], at + 1)
         /\ Moves(body[at], at, cur, paths[at + 1]) /\ body[at] \in Event
<1>1. at \in 1..Len(body) /\ at + 1 \in 1..(Len(body) + 1) /\ at \in 1..(Len(body) + 1)
  BY DEF NamesInv, Types, TextTypes, WalkInv
<1>2. cur = paths[at] /\ cur \in Seq(Scope) /\ Len(cur) \in Nat /\ Len(body) \in Nat
  BY DEF NamesInv, Types, TextTypes, WalkInv
<1>3. IsPath(paths[at], at) /\ IsPath(paths[at + 1], at + 1)
  BY <1>1 DEF NamesInv, PathsInv
<1>4. Moves(body[at], at, cur, paths[at + 1])
  BY <1>1, <1>2 DEF NamesInv, PathsInv
<1>5. body[at] \in Event
  BY <1>1 DEF NamesInv, Types, TextTypes
<1>. QED BY <1>1, <1>2, <1>3, <1>4, <1>5

LEMMA FollowInv ==
  ASSUME NamesInv, NEW walk \in {"check", "generate"}, Follow(walk), pass' = pass
  PROVE  NamesInv'
<1>1. pass = walk /\ at <= Len(body) /\ at' = at + 1 /\ UNCHANGED <<body, paths, symbols>>
  BY DEF Follow, Visit
<1>2. \/ body[at].op = "open" /\ cur' = Append(cur, at)
      \/ body[at].op = "close" /\ cur' = Exit(cur)
  BY DEF Follow, Visit
<1>3. cur' = paths[at + 1] /\ IsPath(paths[at + 1], at + 1) /\ at + 1 \in 1..(Len(body) + 1)
  BY <1>1, <1>2, AtEvent DEF Moves
<1>4. cur' \in Seq(Scope) /\ Len(cur') > 0
  BY <1>3 DEF IsPath
<1>. QED BY <1>1, <1>3, <1>4, WalkKeeps

LEMMA VisitInv ==
  ASSUME NamesInv, NEW walk \in {"check", "generate"}, NEW op \in {"var", "use"},
         Visit(walk, op), pass' = pass, cur' = cur
  PROVE  NamesInv'
<1>1. /\ pass = walk /\ at <= Len(body) /\ body[at].op = op
      /\ at' = at + 1 /\ UNCHANGED <<body, paths, symbols>>
  BY DEF Visit
<1>2. paths[at + 1] = cur /\ IsPath(cur, at) /\ at + 1 \in 1..(Len(body) + 1)
  BY <1>1, AtEvent DEF Moves
<1>3. cur' \in Seq(Scope) /\ Len(cur') > 0
  BY <1>2 DEF IsPath
<1>. QED BY <1>1, <1>2, <1>3, WalkKeeps

(* At the end of a walk the scope is the method's own.                     *)
LEMMA AtEnd ==
  ASSUME NamesInv, pass = "check", at > Len(body)
  PROVE  cur = <<0>>
<1>1. PICK n \in Nat : n = Len(body)
  BY DEF NamesInv, Types, TextTypes
<1>2. at \in 1..(n + 1) /\ at > n /\ cur = paths[at] /\ paths[n + 1] = <<0>>
  BY <1>1 DEF NamesInv, WalkInv
<1>. QED BY <1>2


LEMMA EndCheckInv == ASSUME NamesInv, EndCheck PROVE NamesInv'
<1>1. pass = "check" /\ at > Len(body) /\ cur = <<0>> /\ cur' = cur
  BY AtEnd DEF EndCheck
<1>2. PICK n \in Nat : n = Len(body)
  BY DEF NamesInv, Types, TextTypes
<1>3. n \in 1..n /\ Len(paths[n]) > 1 /\ paths[n + 1] = <<0>>
  BY <1>1, <1>2 DEF NamesInv, WalkInv
<1>4. IsPath(paths[n], n) /\ paths[paths[n][2]] = <<0>>
  <2>1. n \in 1..(n + 1)
    BY <1>3
  <2>. QED BY <1>2, <1>3, <2>1 DEF NamesInv, PathsInv
<1>5. paths[n][2] \in 1..(n - 1)
  BY <1>3, <1>4 DEF IsPath
<1>6. CASE failed = {}
  <2>1. pass' = "generate" /\ at' = paths[n][2] /\ UNCHANGED <<body, paths, symbols>>
    BY <1>2, <1>6 DEF EndCheck
  <2>2. at' \in 1..(n + 1) /\ cur' = paths[at'] /\ cur' \in Seq(Scope) /\ Len(cur') > 0
    BY <1>1, <1>2, <1>4, <1>5, <2>1 DEF Scope
  <2>. QED BY <1>1, <1>2, <2>1, <2>2, WalkKeeps
<1>7. CASE failed # {}
  <2>1. pass' = "rejected" /\ at' = at /\ UNCHANGED <<body, paths, symbols>>
    BY <1>7 DEF EndCheck
  <2>2. at \in 1..(Len(body) + 1) /\ cur \in Seq(Scope) /\ Len(cur) > 0
    BY <1>1 DEF NamesInv, Types, WalkInv
  <2>. QED BY <1>1, <2>1, <2>2, WalkKeeps
<1>. QED BY <1>6, <1>7

LEMMA NextInv == ASSUME NamesInv, [Next]_vars PROVE NamesInv'
<1>1. ASSUME NEW x \in Ids, NEW void \in BOOLEAN, Parameter(x, void) PROVE NamesInv'
  BY <1>1, ParameterInv
<1>2. CASE OpenBlock
  BY <1>2, OpenInv
<1>3. ASSUME NEW x \in Ids, NEW void \in BOOLEAN, LocalVar(x, void, {}) PROVE NamesInv'
  BY <1>3, LocalVarInv
<1>4. ASSUME NEW x \in Ids, LocalVar(x, FALSE, {x}) PROVE NamesInv'
  BY <1>4, LocalVarInv
<1>5. ASSUME NEW x \in Ids, UseOf(x) PROVE NamesInv'
  BY <1>5, UseOfInv
<1>6. CASE CloseBlock
  BY <1>6, CloseInv
<1>7. CASE CheckBlock
  BY <1>7, FollowInv DEF CheckBlock
<1>8. CASE CheckUses
  BY <1>8, VisitInv DEF CheckUses
<1>9. CASE EndCheck
  BY <1>9, EndCheckInv
<1>10. CASE GenerateBlock
  BY <1>10, FollowInv DEF GenerateBlock
<1>11. CASE GenerateUse \/ GenerateVar
  BY <1>11, VisitInv DEF GenerateUse, GenerateVar
<1>12. CASE LoadNull \/ EndGenerate
  <2>1. /\ UNCHANGED <<body, paths, symbols, at, cur>> /\ pass = "generate"
        /\ pass' \in {"crashed", "done"}
    BY <1>12 DEF LoadNull, EndGenerate
  <2>2. at \in 1..(Len(body) + 1) /\ cur \in Seq(Scope) /\ Len(cur) > 0
    BY <2>1 DEF NamesInv, Types, WalkInv
  <2>. QED BY <2>1, <2>2, WalkKeeps
<1>13. CASE UNCHANGED vars
  BY ZenonT(60), <1>13 DEF vars, NamesInv, Types, TextTypes, PathsInv, SymbolsInv, IsSymbol, LocalsInv, Alone, WalkInv
<1>. QED
  BY <1>1, <1>2, <1>3, <1>4, <1>5, <1>6, <1>7, <1>8, <1>9, <1>10, <1>11, <1>12, <1>13 DEF Next

-----------------------------------------------------------------------------
(* What the walk that is at its n-th event can see.                        *)
EnvAt(n) ==
  [i \in DOMAIN cur |-> [x \in Ids |-> IF SeenBefore(i, x, n) THEN symbols[cur[i]][x] ELSE 0]]

LEMMA MeaningAgrees ==
  ASSUME NamesInv, NEW n \in Nat, NEW x \in Ids
  PROVE  LookupBefore(x, n) = Abstract!Meaning(EnvAt(n), x)
<1>. DEFINE S == {i \in DOMAIN cur : SeenBefore(i, x, n)}
<1>1. cur \in Seq(Scope) /\ Len(cur) \in Nat /\ DOMAIN cur = 1..Len(cur)
  BY DEF NamesInv, Types
<1>2. DOMAIN EnvAt(n) = DOMAIN cur
  BY DEF EnvAt
<1>3. \A i \in DOMAIN cur :
        EnvAt(n)[i][x] = IF SeenBefore(i, x, n) THEN symbols[cur[i]][x] ELSE 0
  BY DEF EnvAt
<1>4. \A i \in DOMAIN cur : SeenBefore(i, x, n) => symbols[cur[i]][x] # 0
  BY DEF SeenBefore
<1>5. Abstract!Holders(EnvAt(n), x) = S
  BY <1>2, <1>3, <1>4 DEF Abstract!Holders
<1>6. S # {} => Max(S) \in S
  <2>1. S \subseteq 1..Len(cur)
    BY <1>1
  <2>. HIDE DEF S
  <2>. QED BY <1>1, <2>1, MaxIndex
<1>7. S # {} => EnvAt(n)[Max(S)][x] = symbols[cur[Max(S)]][x]
  BY <1>3, <1>6
<1>8. LookupBefore(x, n) = IF S = {} THEN 0 ELSE symbols[cur[Max(S)]][x]
  BY DEF LookupBefore, Nearest
<1>9. Abstract!Meaning(EnvAt(n), x) = IF S = {} THEN 0 ELSE EnvAt(n)[Max(S)][x]
  <2>. HIDE DEF S
  <2>1. Abstract!Max(S) = Max(S)
    BY DEF Abstract!Max, Max
  <2>. QED BY <1>5, <2>1 DEF Abstract!Meaning
<1>. QED BY <1>7, <1>8, <1>9

(* The environment grows by what event "at" declares.                      *)
LEMMA SeenNext ==
  ASSUME NamesInv, pass = "check", at <= Len(body),
         NEW i \in DOMAIN cur, NEW x \in Ids
  PROVE  LET old == IF SeenBefore(i, x, at) THEN symbols[cur[i]][x] ELSE 0
             new == IF SeenBefore(i, x, at + 1) THEN symbols[cur[i]][x] ELSE 0
         IN  /\ symbols[cur[i]][x] # at \/ i = 1 => new = old
             /\ i > 1 /\ symbols[cur[i]][x] = at => old = 0 /\ new = at
<1>1. at \in 1..Len(body) /\ cur \in Seq(Scope)
  BY AtEvent
<1>2. symbols[cur[i]][x] \in Nat /\ at \in Nat /\ i \in Nat /\ at # 0
  BY <1>1, NamesAssumption DEF NamesInv, Types, Scope, Position
<1>. QED BY <1>2 DEF SeenBefore

(* A symbol of event "at" in a scope on the path is a local of the         *)
(* innermost scope.                                                        *)
LEMMA SymbolHere ==
  ASSUME NamesInv, pass = "check", at <= Len(body),
         NEW i \in DOMAIN cur, i > 1, NEW x \in Ids, symbols[cur[i]][x] = at
  PROVE  body[at].op = "var" /\ body[at].name = {x} /\ cur[i] = Bottom(cur)
<1>1. /\ at \in 1..Len(body) /\ cur \in Seq(Scope) /\ cur = paths[at] /\ IsPath(cur, at)
      /\ Moves(body[at], at, cur, paths[at + 1]) /\ Len(cur) \in Nat
  BY AtEvent
<1>2. cur[i] \in Scope /\ at # 0 /\ i \in 1..Len(cur)
  BY <1>1
<1>3. IsSymbol(at, cur[i], x)
  BY <1>2 DEF NamesInv, SymbolsInv
<1>4. Len(cur) # 1
  BY <1>2
<1>. QED BY <1>1, <1>3, <1>4 DEF IsSymbol, Moves

LEMMA SeenTypes ==
  ASSUME NamesInv, NEW i \in DOMAIN cur, NEW x \in Ids
  PROVE  SeenByNow(i, x) \in Nat
<1>1. cur[i] \in Scope
  BY DEF NamesInv, Types
<1>2. symbols[cur[i]][x] \in Nat
  BY <1>1, NamesAssumption DEF NamesInv, Types, Scope, Position
<1>. QED BY <1>2 DEF SeenByNow

(* Sequences by their elements.                                            *)
LEMMA AppendIs ==
  ASSUME NEW T, NEW n \in Nat, NEW f \in [1..n -> T], NEW v \in T,
         NEW g \in [1..(n + 1) -> T], \A i \in 1..n : g[i] = f[i], g[n + 1] = v
  PROVE  g = Append(f, v)
<1>1. f \in Seq(T) /\ Len(f) = n /\ g \in Seq(T) /\ Len(g) = n + 1
  OBVIOUS
<1>. QED BY <1>1

LEMMA ExitIs ==
  ASSUME NEW T, NEW n \in Nat, n > 0, NEW f \in [1..n -> T],
         NEW g \in [1..(n - 1) -> T], \A i \in 1..(n - 1) : g[i] = f[i]
  PROVE  g = SubSeq(f, 1, Len(f) - 1) /\ Len(f) = n
<1>1. f \in Seq(T) /\ Len(f) = n /\ g \in Seq(T) /\ Len(g) = n - 1
  OBVIOUS
<1>. QED BY <1>1

LEMMA RefineOpen ==
  ASSUME NamesInv, CheckBlock, body[at].op = "open"
  PROVE  Abstract!Enter
<1>1. /\ pass = "check" /\ pass' = "check" /\ at <= Len(body) /\ at' = at + 1
      /\ cur' = Append(cur, at) /\ symbols' = symbols /\ refs' = refs
  BY DEF CheckBlock, Follow, Visit
<1>2. /\ at \in 1..Len(body) /\ cur \in Seq(Scope) /\ Len(cur) \in Nat /\ Len(body) \in Nat
      /\ at + 1 \in 1..(Len(body) + 1)
  BY <1>1, AtEvent
<1>3. at \in Scope /\ symbols \in [Scope -> [Ids -> Scope]] /\ Scope \subseteq Nat
  BY <1>2, NamesAssumption DEF NamesInv, Types, TextTypes, Scope, Position
<1>3a. PICK n \in Nat : n = Len(cur)
  BY <1>2
<1>4. /\ DOMAIN cur = 1..n /\ DOMAIN cur' = 1..(n + 1)
      /\ \A i \in 1..n : cur'[i] = cur[i]
      /\ cur'[n + 1] = at
  BY <1>1, <1>2, <1>3, <1>3a
<1>5. ASSUME NEW i \in 1..n, NEW x \in Ids
      PROVE  SeenByNow(i, x)' = SeenByNow(i, x)
  <2>1. symbols[cur[i]][x] # at \/ i = 1
    BY <1>1, <1>4, SymbolHere
  <2>2. (IF SeenBefore(i, x, at + 1) THEN symbols[cur[i]][x] ELSE 0)
          = (IF SeenBefore(i, x, at) THEN symbols[cur[i]][x] ELSE 0)
    BY <1>1, <1>4, <2>1, SeenNext
  <2>3. SeenBefore(i, x, at)' <=> SeenBefore(i, x, at + 1)
    BY <1>1, <1>4 DEF SeenBefore
  <2>. QED BY <1>1, <1>4, <2>2, <2>3 DEF SeenByNow
<1>6. ASSUME NEW x \in Ids PROVE SeenByNow(n + 1, x)' = 0
  <2>1. PICK q \in Nat : q = symbols[at][x]
    BY <1>3
  <2>2. q # 0 => q > at
    <3>1. SUFFICES ASSUME q # 0, ~(q > at) PROVE FALSE
      OBVIOUS
    <3>2. IsSymbol(q, at, x)
      BY <1>3, <2>1, <3>1 DEF NamesInv, SymbolsInv
    <3>3. q \in 1..Len(body) /\ q \in 1..(Len(body) + 1) /\ at = Bottom(paths[q])
      BY <1>2, <3>2 DEF IsSymbol
    <3>4. IsPath(paths[q], q)
      BY <3>3 DEF NamesInv, PathsInv
    <3>5. at = 0 \/ at \in 1..(q - 1)
      BY <3>3, <3>4 DEF IsPath, Bottom
    <3>. QED BY <1>2, <2>1, <3>1, <3>5
  <2>3. ~SeenBefore(n + 1, x, at)'
    <3>1. symbols'[cur'[n + 1]][x] = q /\ at' = at + 1
      BY <1>1, <1>4, <2>1
    <3>2. n + 1 > 1 /\ (q = 0 \/ ~(q < at + 1))
      <4>1. n # 0
        BY <1>1, <1>2, <1>3a, AtEvent DEF IsPath
      <4>. QED BY <1>2, <1>3a, <2>1, <2>2, <4>1
    <3>. QED BY <3>1, <3>2 DEF SeenBefore
  <2>. QED BY <2>3 DEF SeenByNow
<1>7. env = [i \in 1..n |-> [x \in Ids |-> SeenByNow(i, x)]]
  BY <1>1, <1>4 DEF env
<1>8. env' = [i \in 1..(n + 1) |-> [x \in Ids |-> SeenByNow(i, x)']]
  BY <1>1, <1>4 DEF env
<1>9. env' = Append(env, [x \in Ids |-> 0])
  <2>0. \A i \in 1..n, x \in Ids : SeenByNow(i, x) \in Nat
    BY <1>4, SeenTypes
  <2>01. \A i \in 1..(n + 1), x \in Ids : SeenByNow(i, x)' \in Nat
    <3>. SUFFICES ASSUME NEW i \in 1..(n + 1), NEW x \in Ids
                  PROVE  SeenByNow(i, x)' \in Nat
      OBVIOUS
    <3>1. i \in 1..n \/ i = n + 1
      BY <1>3a
    <3>. QED BY <1>5, <1>6, <2>0, <3>1
  <2>1. env \in [1..n -> [Ids -> Nat]] /\ env' \in [1..(n + 1) -> [Ids -> Nat]]
    BY <1>7, <1>8, <2>0, <2>01
  <2>2. \A i \in 1..n : env'[i] = env[i]
    BY <1>2, <1>3a, <1>5, <1>7, <1>8
  <2>3. env'[n + 1] = [x \in Ids |-> 0]
    BY <1>2, <1>3a, <1>6, <1>8
  <2>. QED BY <1>3a, <2>1, <2>2, <2>3, AppendIs
<1>. QED BY <1>1, <1>9 DEF Abstract!Enter, Abstract!None

LEMMA RefineClose ==
  ASSUME NamesInv, CheckBlock, body[at].op = "close"
  PROVE  Abstract!Leave
<1>1. /\ pass = "check" /\ pass' = "check" /\ at <= Len(body) /\ at' = at + 1
      /\ cur' = Exit(cur) /\ symbols' = symbols /\ refs' = refs
  BY DEF CheckBlock, Follow, Visit
<1>2. /\ at \in 1..Len(body) /\ cur \in Seq(Scope) /\ Len(cur) \in Nat /\ Len(body) \in Nat
      /\ Moves(body[at], at, cur, paths[at + 1])
  BY <1>1, AtEvent
<1>3. Len(cur) > 1
  BY <1>2 DEF Moves
<1>4. /\ DOMAIN cur = 1..Len(cur) /\ DOMAIN cur' = 1..(Len(cur) - 1)
      /\ \A i \in 1..(Len(cur) - 1) : cur'[i] = cur[i]
  BY <1>1, <1>2, <1>3 DEF Exit
<1>5. ASSUME NEW i \in 1..(Len(cur) - 1), NEW x \in Ids
      PROVE  SeenByNow(i, x)' = SeenByNow(i, x)
  <2>1. i \in DOMAIN cur
    BY <1>2, <1>4
  <2>2. symbols[cur[i]][x] # at \/ i = 1
    BY <1>1, <2>1, SymbolHere
  <2>3. (IF SeenBefore(i, x, at + 1) THEN symbols[cur[i]][x] ELSE 0)
          = (IF SeenBefore(i, x, at) THEN symbols[cur[i]][x] ELSE 0)
    BY <1>1, <2>1, <2>2, SeenNext
  <2>4. SeenBefore(i, x, at)' <=> SeenBefore(i, x, at + 1)
    BY <1>1, <1>4 DEF SeenBefore
  <2>. QED BY <1>1, <1>4, <2>3, <2>4 DEF SeenByNow
<1>6. env = [i \in 1..Len(cur) |-> [x \in Ids |-> SeenByNow(i, x)]]
  BY <1>1, <1>4 DEF env
<1>7. env' = [i \in 1..(Len(cur) - 1) |-> [x \in Ids |-> SeenByNow(i, x)']]
  BY <1>1, <1>4 DEF env
<1>8. env' = SubSeq(env, 1, Len(env) - 1) /\ Len(env) = Len(cur)
  <2>1. \A i \in 1..Len(cur), x \in Ids : SeenByNow(i, x) \in Nat
    BY <1>4, SeenTypes
  <2>2. \A i \in 1..(Len(cur) - 1), x \in Ids : SeenByNow(i, x)' \in Nat
    BY <1>2, <1>5, <2>1
  <2>3. env \in [1..Len(cur) -> [Ids -> Nat]] /\ env' \in [1..(Len(cur) - 1) -> [Ids -> Nat]]
    BY <1>6, <1>7, <2>1, <2>2
  <2>4. \A i \in 1..(Len(cur) - 1) : env'[i] = env[i]
    BY <1>2, <1>5, <1>6, <1>7
  <2>5. Len(cur) > 0
    BY <1>2, <1>3
  <2>. QED BY <1>2, <2>3, <2>4, <2>5, ExitIs
<1>. QED BY <1>1, <1>3, <1>8 DEF Abstract!Leave

(* One event that uses names, and may declare one first.                   *)
LEMMA UsesAgree ==
  ASSUME NamesInv, CheckUses
  PROVE  /\ env = EnvAt(at) /\ env' = EnvAt(at + 1)
         /\ body[at].uses \subseteq Ids /\ Abstract!Uses(env', body[at].uses)
<1>1. /\ pass = "check" /\ pass' = "check" /\ at <= Len(body) /\ at' = at + 1
      /\ cur' = cur /\ symbols' = symbols
      /\ refs' = Append(refs, [x \in body[at].uses |-> Meaning(x)])
  BY DEF CheckUses, Visit
<1>2. at \in Nat /\ body[at] \in Event
  BY <1>1, AtEvent
<1>3. body[at].uses \subseteq Ids
  BY <1>2 DEF Event
<1>4. env = EnvAt(at)
  BY <1>1 DEF env, EnvAt, SeenByNow
<1>5. env' = EnvAt(at + 1)
  BY <1>1 DEF env, EnvAt, SeenByNow, SeenBefore
<1>6. \A x \in Ids : Meaning(x) = Abstract!Meaning(env', x)
  BY <1>2, <1>5, MeaningAgrees DEF Meaning
<1>7. [x \in body[at].uses |-> Meaning(x)] = [x \in body[at].uses |-> Abstract!Meaning(env', x)]
  BY <1>3, <1>6
<1>. QED BY <1>1, <1>3, <1>4, <1>5, <1>7 DEF Abstract!Uses

LEMMA RefineUse ==
  ASSUME NamesInv, CheckUses, body[at].op = "use"
  PROVE  Abstract!Use(body[at].uses) /\ body[at].uses \in SUBSET Ids
<1>1. pass = "check" /\ at <= Len(body)
  BY DEF CheckUses, Visit
<1>2. env' = env
  <2>1. ASSUME NEW i \in DOMAIN cur, NEW x \in Ids
        PROVE  (IF SeenBefore(i, x, at + 1) THEN symbols[cur[i]][x] ELSE 0)
                  = (IF SeenBefore(i, x, at) THEN symbols[cur[i]][x] ELSE 0)
    <3>1. cur \in Seq(Scope)
      BY <1>1, AtEvent
    <3>2. symbols[cur[i]][x] # at \/ i = 1
      BY <1>1, <3>1, SymbolHere
    <3>. QED BY <1>1, <3>2, SeenNext
  <2>. QED BY <2>1, UsesAgree DEF EnvAt
<1>3. Abstract!Uses(env, body[at].uses)
  <2>1. Abstract!Uses(env', body[at].uses)
    BY UsesAgree
  <2>. QED BY <1>2, <2>1
<1>. QED BY <1>2, <1>3, UsesAgree DEF Abstract!Use

LEMMA RefineVar ==
  ASSUME NamesInv, CheckUses, body[at].op = "var"
  PROVE  \E x \in Ids, p \in Position, xs \in SUBSET Ids : Abstract!Declare(x, p, xs)
<1>1. pass = "check" /\ at <= Len(body)
  BY DEF CheckUses, Visit
<1>2. /\ at \in 1..Len(body) /\ cur \in Seq(Scope) /\ cur = paths[at] /\ IsPath(cur, at)
      /\ Moves(body[at], at, cur, paths[at + 1])
  BY <1>1, AtEvent
<1>3. PICK n \in Nat : n = Len(cur)
  BY <1>2
<1>4. n > 1 /\ DOMAIN cur = 1..n
  BY <1>2, <1>3 DEF Moves
<1>5. PICK x \in Ids : body[at].name = {x}
  BY <1>2 DEF Moves
<1>6. Alone(at, x)
  BY <1>1, <1>2, <1>5 DEF NamesInv, LocalsInv
<1>7. env = EnvAt(at) /\ env' = EnvAt(at + 1)
  BY UsesAgree
<1>8. at \in Position /\ at \in Nat /\ at # 0
  BY <1>2, NamesAssumption DEF NamesInv, Types, TextTypes, Position
<1>9. symbols[cur[n]][x] = at /\ symbols[cur[1]][x] = 0
  BY <1>2, <1>3, <1>6 DEF Alone, Bottom, IsPath
<1>10. Abstract!Holders(env, x) = {}
  <2>. SUFFICES ASSUME NEW i \in 1..n PROVE env[i][x] = 0
    BY <1>4, <1>7 DEF Abstract!Holders, EnvAt
  <2>1. CASE i = 1
    BY <1>4, <1>7, <1>9, <2>1 DEF EnvAt
  <2>2. CASE i # 1
    <3>1. i \in 2..n
      BY <2>2
    <3>2. symbols[cur[i]][x] = 0 \/ symbols[cur[i]][x] >= at
      BY <1>2, <1>3, <1>6, <3>1 DEF Alone
    <3>3. cur[i] \in Scope
      BY <1>2, <1>4
    <3>4. symbols[cur[i]][x] \in Nat
      <4>1. symbols \in [Scope -> [Ids -> Scope]]
        BY DEF NamesInv, Types
      <4>2. symbols[cur[i]][x] \in Scope
        BY <3>3, <4>1
      <4>. QED BY <4>2, NamesAssumption DEF Scope, Position
    <3>5. ~SeenBefore(i, x, at)
      BY <1>8, <3>1, <3>2, <3>4 DEF SeenBefore
    <3>. QED BY <1>4, <1>7, <3>5 DEF EnvAt
  <2>. QED BY <2>1, <2>2
<1>11. ASSUME NEW i \in 1..n, NEW y \in Ids
       PROVE  env'[i][y] = IF i = n /\ y = x THEN at ELSE env[i][y]
  <2>1. CASE i = n /\ y = x
    BY <1>1, <1>4, <1>7, <1>9, <2>1, SeenNext DEF EnvAt
  <2>2. CASE ~(i = n /\ y = x)
    <3>1. symbols[cur[i]][y] # at \/ i = 1
      <4>1. SUFFICES ASSUME symbols[cur[i]][y] = at, i # 1 PROVE FALSE
        OBVIOUS
      <4>2. body[at].name = {y} /\ cur[i] = Bottom(cur)
        BY <1>1, <1>4, <4>1, SymbolHere
      <4>3. y = x /\ cur[i] = cur[n]
        BY <1>3, <1>5, <4>2 DEF Bottom
      <4>4. i = n
        BY <1>2, <1>3, <1>4, <4>3 DEF IsPath
      <4>. QED BY <2>2, <4>3, <4>4
    <3>. QED BY <1>1, <1>4, <1>7, <2>2, <3>1, SeenNext DEF EnvAt
  <2>. QED BY <2>1, <2>2
<1>12. /\ env = [i \in 1..n |-> [y \in Ids |-> env[i][y]]]
       /\ env' = [i \in 1..n |-> [y \in Ids |-> env'[i][y]]]
  BY <1>4, <1>7 DEF EnvAt
<1>13. env' = [env EXCEPT ![n][x] = at]
  BY <1>4, <1>11, <1>12
<1>14. Len(env) = n
  BY <1>12
<1>15. Abstract!Declare(x, at, body[at].uses) /\ body[at].uses \in SUBSET Ids
  BY <1>10, <1>13, <1>14, UsesAgree DEF Abstract!Declare
<1>. QED BY <1>8, <1>15

-----------------------------------------------------------------------------
(* While the text is read, the environment is that of the parameters.      *)
LEMMA RefineParameter ==
  ASSUME NamesInv, NEW x \in Ids, NEW void \in BOOLEAN, Parameter(x, void)
  PROVE  [Abstract!Next]_<<env, refs>>
<1>1. /\ pass = "declare" /\ pass' = "declare" /\ refs' = refs /\ refs = <<>>
      /\ env = <<symbols[0]>> /\ env' = <<symbols'[0]>>
  <2>1. pass = "declare" /\ pass' = "declare" /\ refs' = refs
    BY DEF Parameter, Read
  <2>. QED BY <2>1, AtText DEF env
<1>2. Len(cur) = 1 /\ IsPath(cur, here) /\ Len(body) \in Nat /\ here = Len(body) + 1
  BY <1>1, AtText DEF Parameter
<1>3. Bottom(cur) = 0 /\ here \in Position
  <2>1. Len(body) + Len(cur) <= MaxBody
    BY DEF Parameter, Read
  <2>. QED BY <1>2, <2>1, NamesAssumption DEF IsPath, Bottom, Position
<1>4. CASE symbols[0][x] # 0
  BY <1>1, <1>4 DEF Parameter
<1>5. CASE symbols[0][x] = 0
  <2>1. symbols' = [symbols EXCEPT ![0][x] = here]
    BY <1>3, <1>5 DEF Parameter, Enter
  <2>2. PICK f : f = symbols[0]
    OBVIOUS
  <2>3. PICK h \in Position : h = here
    BY <1>3
  <2>4. symbols \in [Scope -> [Ids -> Scope]] /\ 0 \in Scope
    BY DEF NamesInv, Types, Scope
  <2>5. symbols'[0] = [f EXCEPT ![x] = h]
    BY <2>1, <2>2, <2>3, <2>4
  <2>6. env = <<f>> /\ env' = <<[f EXCEPT ![x] = h]>> /\ f[x] = 0
    BY <1>1, <1>5, <2>2, <2>5
  <2>7. Len(env) = 1 /\ env[1][x] = 0 /\ env' = [env EXCEPT ![1][x] = h]
    <3>1. PICK g : g = [f EXCEPT ![x] = h]
      OBVIOUS
    <3>2. PICK e : e = <<f>>
      OBVIOUS
    <3>3. e[1] = f /\ Len(e) = 1 /\ [e EXCEPT ![1] = g] = <<g>>
      BY <3>2
    <3>4. [e EXCEPT ![1][x] = h] = [e EXCEPT ![1] = [e[1] EXCEPT ![x] = h]]
      OBVIOUS
    <3>. QED BY <2>6, <3>1, <3>2, <3>3, <3>4
  <2>8. Abstract!Parameter(x, h)
    BY <1>1, <2>7 DEF Abstract!Parameter
  <2>. QED BY <2>8 DEF Abstract!Next
<1>. QED BY <1>4, <1>5

(* The rest of the text changes no parameter, and neither does generation. *)
LEMMA RefineText ==
  ASSUME NamesInv,
         \/ OpenBlock \/ CloseBlock
         \/ \E x \in Ids : UseOf(x)
         \/ \E x \in Ids, void \in BOOLEAN, init \in SUBSET Ids : LocalVar(x, void, init)
  PROVE  UNCHANGED <<env, refs>>
<1>1. pass = "declare" /\ refs' = refs /\ env = <<symbols[0]>>
  BY DEF OpenBlock, CloseBlock, UseOf, LocalVar, Read, env
<1>2. /\ cur \in Seq(Scope) /\ Len(cur) \in Nat /\ Len(cur) > 0 /\ IsPath(cur, here)
      /\ symbols \in [Scope -> [Ids -> Scope]] /\ 0 \in Scope
  BY <1>1, AtText DEF NamesInv, Types, Scope
<1>3. CASE OpenBlock \/ \E x \in Ids : UseOf(x)
  BY <1>1, <1>3 DEF OpenBlock, UseOf, Read, env
<1>4. CASE CloseBlock
  <2>1. symbols' = symbols /\ cur' = Exit(cur) /\ Len(cur) > 1
        /\ (Len(cur) > 2 => pass' = pass)
    BY <1>4 DEF CloseBlock, Read
  <2>2. CASE Len(cur) > 2
    BY <1>1, <2>1, <2>2 DEF env
  <2>3. CASE Len(cur) = 2
    <3>1. cur' = <<0>>
      <4>1. PICK q \in Seq(Scope) : q = cur'
        <5>1. Exit(cur) \in Seq(Scope)
          BY <1>2 DEF Exit
        <5>. QED BY <2>1, <5>1
      <4>2. Len(q) = 1 /\ q[1] = cur[1]
        <5>1. Len(cur) - 1 = 1
          BY <2>3
        <5>2. q = SubSeq(cur, 1, 1) /\ cur \in Seq(Scope) /\ Len(cur) = 2
          BY <1>2, <2>1, <2>3, <4>1, <5>1 DEF Exit
        <5>. QED BY <5>2
      <4>3. cur[1] = 0
        BY <1>2 DEF IsPath
      <4>. QED BY <4>1, <4>2, <4>3
    <3>2. \A x \in Ids : SeenByNow(1, x)' = symbols[0][x]
      BY <2>1, <3>1 DEF SeenByNow, SeenBefore
    <3>3. symbols[0] = [x \in Ids |-> symbols[0][x]]
      BY <1>2
    <3>4. [i \in DOMAIN cur' |-> [x \in Ids |-> SeenByNow(i, x)']] = <<symbols[0]>>
      <4>1. DOMAIN cur' = {1}
        BY <3>1
      <4>2. [i \in DOMAIN cur' |-> [x \in Ids |-> SeenByNow(i, x)']]
              = [i \in {1} |-> symbols[0]]
        BY <3>2, <3>3, <4>1
      <4>. QED BY <4>2
    <3>. QED BY <1>1, <2>1, <3>4 DEF env
  <2>. QED BY <2>1, <2>2, <2>3, <1>2, LongPath
<1>5. ASSUME NEW x \in Ids, NEW void \in BOOLEAN, NEW init \in SUBSET Ids, LocalVar(x, void, init)
      PROVE  UNCHANGED <<env, refs>>
  <2>1. Bottom(cur) \in 1..(here - 1)
    <3>1. Len(cur) \in 2..Len(cur)
      BY <1>2, <1>5 DEF LocalVar
    <3>. QED BY <1>2, <3>1 DEF IsPath, Bottom
  <2>2. symbols' = symbols \/ symbols' = [symbols EXCEPT ![Bottom(cur)][x] = here]
    BY <1>5 DEF LocalVar, Enter
  <2>3. symbols'[0] = symbols[0]
    BY <1>2, <2>1, <2>2
  <2>. QED BY <1>1, <1>5, <2>3 DEF LocalVar, env
<1>. QED BY <1>3, <1>4, <1>5

LEMMA RefineEnd ==
  ASSUME NamesInv, EndCheck
  PROVE  UNCHANGED <<env, refs>>
<1>1. pass = "check" /\ pass' # "check" /\ refs' = refs /\ symbols' = symbols /\ cur = <<0>>
  BY AtEnd DEF EndCheck
<1>2. symbols \in [Scope -> [Ids -> Scope]] /\ 0 \in Scope
  BY DEF NamesInv, Types, Scope
<1>3. \A x \in Ids : SeenByNow(1, x) = symbols[0][x]
  BY <1>1 DEF SeenByNow, SeenBefore
<1>4. [i \in DOMAIN cur |-> [x \in Ids |-> SeenByNow(i, x)]] = [i \in {1} |-> symbols[0]]
  <2>1. DOMAIN cur = {1} /\ symbols[0] = [x \in Ids |-> symbols[0][x]]
    BY <1>1, <1>2
  <2>. QED BY <1>3, <2>1
<1>5. env = <<symbols[0]>>
  BY <1>1, <1>4 DEF env
<1>. QED BY <1>1, <1>5 DEF env

LEMMA StepRefines ==
  ASSUME NamesInv, [Next]_vars
  PROVE  [Abstract!Next]_<<env, refs>>
<1>1. ASSUME NEW x \in Ids, NEW void \in BOOLEAN, Parameter(x, void)
      PROVE  [Abstract!Next]_<<env, refs>>
  BY <1>1, RefineParameter
<1>2. CASE OpenBlock \/ CloseBlock \/ \E x \in Ids : UseOf(x)
  BY <1>2, RefineText
<1>3. ASSUME NEW x \in Ids, NEW void \in BOOLEAN, NEW init \in SUBSET Ids,
             LocalVar(x, void, init)
      PROVE  [Abstract!Next]_<<env, refs>>
  BY <1>3, RefineText
<1>4. CASE CheckBlock
  <2>1. body[at].op \in {"open", "close"}
    BY <1>4 DEF CheckBlock, Follow, Visit
  <2>. QED BY <1>4, <2>1, RefineOpen, RefineClose DEF Abstract!Next
<1>5. CASE CheckUses
  <2>1. body[at].op \in {"var", "use"}
    BY <1>5 DEF CheckUses, Visit
  <2>2. CASE body[at].op = "use"
    BY <1>5, <2>2, RefineUse DEF Abstract!Next
  <2>3. CASE body[at].op = "var"
    BY <1>5, <2>3, RefineVar DEF Abstract!Next
  <2>. QED BY <2>1, <2>2, <2>3
<1>6. CASE EndCheck
  BY <1>6, RefineEnd
<1>7. CASE GenerateBlock \/ GenerateUse \/ GenerateVar
  <2>1. pass = "generate" /\ UNCHANGED <<pass, symbols, refs>>
    BY <1>7 DEF GenerateBlock, GenerateUse, GenerateVar, Follow, Visit
  <2>. QED BY <2>1 DEF env
<1>8. CASE LoadNull \/ EndGenerate
  <2>1. pass = "generate" /\ pass' # "check" /\ UNCHANGED <<symbols, refs>>
    BY <1>8 DEF LoadNull, EndGenerate
  <2>. QED BY <2>1 DEF env
<1>9. CASE UNCHANGED vars
  BY <1>9 DEF vars, env, SeenByNow, SeenBefore
<1>10. \A x \in Ids : {} \in SUBSET Ids /\ {x} \in SUBSET Ids /\ FALSE \in BOOLEAN
  OBVIOUS
<1>. QED
  BY <1>1, <1>2, <1>3, <1>4, <1>5, <1>6, <1>7, <1>8, <1>9, <1>10 DEF Next

(* Whatever the body and its length: what TypeChecker sees by position in  *)
(* the finished scope tree is the environment of block structure, every use*)
(* means what it means there, and no name is declared twice among open     *)
(* blocks (Scope.cpp, LocalScope.cpp, TypeChecker::checkVar).              *)
THEOREM LookupIsBlockStructure == Spec => ImplementsBlocks
<1>1. Init => Abstract!Init
  <2>. SUFFICES ASSUME Init PROVE Abstract!Init
    OBVIOUS
  <2>1. 0 \in Scope /\ symbols[0] = [x \in Ids |-> 0] /\ env = <<symbols[0]>> /\ refs = <<>>
    BY DEF Init, env, Scope
  <2>. QED BY <2>1 DEF Abstract!Init, Abstract!None
<1>2. NamesInv /\ [Next]_vars => NamesInv' /\ [Abstract!Next]_<<env, refs>>
  BY NextInv, StepRefines
<1>. QED BY <1>1, <1>2, InitInv, PTL DEF Spec, ImplementsBlocks, Abstract!Spec

-----------------------------------------------------------------------------
(* Loading: what TypeChecker let pass has an address when it is generated, *)
(* unless it is the local being defined.                                   *)
Known(q, x) ==
  \E i \in DOMAIN paths[q] :
    /\ symbols[paths[q][i]][x] # 0
    /\ i > 1 => symbols[paths[q][i]][x] < q + 1

Usable(q, x) == Known(q, x) \/ (outer[x] = "field" /\ ~static)

Checked(n) == \A q \in 1..n : \A x \in body[q].uses : Usable(q, x)

(* Only definitions and uses use names, a definition its own or none.      *)
UsesInv ==
  \A p \in 1..Len(body) :
    /\ body[p].op \notin {"var", "use"} => body[p].uses = {}
    /\ body[p].op = "var" => body[p].uses = {} \/ body[p].uses = body[p].name

(* The parameters come first.                                              *)
FirstInv ==
  \A p \in 1..(Len(body) + 1) : Len(paths[p]) > 1 =>
    \A q \in 1..(paths[p][2] - 1) : q <= Len(body) /\ body[q].op = "param"

CheckedInv ==
  /\ pass = "check" /\ failed = {} => Checked(at - 1)
  /\ pass = "generate" => Checked(Len(body))

ValuesInv ==
  /\ \A v \in values : v \in 1..Len(body) /\ (body[v].op = "param" \/ v < at)
  /\ FormalParams \subseteq values
  /\ \A q \in 1..(at - 1) : body[q].op = "var" => q \in values /\ ~OwnInitialiser(q)

TextInv == UsesInv /\ FirstInv
LoadInv == TextInv /\ CheckedInv /\ (pass = "generate" => ValuesInv) /\ NullLoadExactly

-----------------------------------------------------------------------------
LEMMA MeaningFrom ==
  ASSUME NamesInv, pass \in {"check", "generate"}, at <= Len(body), NEW x \in Ids
  PROVE  /\ Meaning(x) # 0 <=> Known(at, x)
         /\ Meaning(x) # 0 => \E i \in DOMAIN cur :
              Meaning(x) = symbols[cur[i]][x] /\ (i > 1 => Meaning(x) < at + 1)
<1>. DEFINE S == {i \in DOMAIN cur : SeenBefore(i, x, at + 1)}
<1>1. cur = paths[at] /\ Len(cur) \in Nat /\ DOMAIN cur = 1..Len(cur)
  BY AtEvent
<1>2. S # {} => Max(S) \in S
  <2>1. S \subseteq 1..Len(cur)
    BY <1>1
  <2>. HIDE DEF S
  <2>. QED BY <1>1, <2>1, MaxIndex
<1>3. Meaning(x) = IF S = {} THEN 0 ELSE symbols[cur[Max(S)]][x]
  BY DEF Meaning, LookupBefore, Nearest
<1>4. Known(at, x) <=> S # {}
  BY <1>1 DEF Known, SeenBefore
<1>5. S # {} => /\ Max(S) \in DOMAIN cur /\ symbols[cur[Max(S)]][x] # 0
                /\ Max(S) > 1 => symbols[cur[Max(S)]][x] < at + 1
  BY <1>2 DEF SeenBefore
<1>. HIDE DEF S
<1>. QED BY <1>3, <1>4, <1>5

(* A local is found at once where it is defined.                           *)
LEMMA OwnMeaning ==
  ASSUME NamesInv, pass = "generate", at <= Len(body), NEW x \in Ids,
         body[at].op = "var", body[at].name = {x}
  PROVE  Meaning(x) = at /\ Lookup(x) = at
<1>1. /\ at \in 1..Len(body) /\ cur = paths[at] /\ Len(cur) \in Nat /\ DOMAIN cur = 1..Len(cur)
      /\ Len(cur) > 1
  BY AtEvent DEF Moves
<1>2. symbols[cur[Len(cur)]][x] = at
  BY <1>1 DEF NamesInv, LocalsInv, Alone, Bottom
<1>. DEFINE S == {i \in DOMAIN cur : SeenBefore(i, x, at + 1)}
            T == {i \in DOMAIN cur : symbols[cur[i]][x] # 0}
<1>3. Len(cur) \in S /\ Len(cur) \in T /\ S \subseteq 1..Len(cur) /\ T \subseteq 1..Len(cur)
  BY <1>1, <1>2 DEF SeenBefore
<1>4. Meaning(x) = (IF S = {} THEN 0 ELSE symbols[cur[Max(S)]][x])
      /\ Lookup(x) = (IF T = {} THEN 0 ELSE symbols[cur[Max(T)]][x])
  BY DEF Meaning, LookupBefore, Lookup, Nearest
<1>. HIDE DEF S, T
<1>5. ASSUME NEW R, Len(cur) \in R, R \subseteq 1..Len(cur) PROVE Max(R) = Len(cur)
  <2>1. PICK m : m = Max(R)
    OBVIOUS
  <2>2. m \in R /\ Len(cur) <= m
    BY <1>1, <1>5, <2>1, MaxIndex
  <2>3. m \in 1..Len(cur)
    BY <1>5, <2>2
  <2>. QED BY <1>1, <2>1, <2>2, <2>3
<1>6. Max(S) = Len(cur) /\ Max(T) = Len(cur) /\ S # {} /\ T # {}
  BY <1>3, <1>5
<1>. QED BY <1>2, <1>4, <1>6

(* A symbol is that of a parameter in the method's own scope only.         *)
LEMMA SymbolIs ==
  ASSUME NamesInv, NEW x \in Ids, NEW s \in Scope, symbols[s][x] # 0
  PROVE  /\ symbols[s][x] \in 1..Len(body)
         /\ body[symbols[s][x]].op = (IF s = 0 THEN "param" ELSE "var")
         /\ body[symbols[s][x]].name = {x}
<1>1. PICK p : p = symbols[s][x]
  OBVIOUS
<1>2. /\ p \in 1..Len(body) /\ Len(body) \in Nat
      /\ body[p].op \in {"param", "var"} /\ body[p].name = {x} /\ s = Bottom(paths[p])
  BY <1>1 DEF NamesInv, SymbolsInv, IsSymbol, Types, TextTypes
<1>3. IsPath(paths[p], p) /\ Moves(body[p], p, paths[p], paths[p + 1])
  BY <1>2 DEF NamesInv, PathsInv
<1>4. PICK n \in Nat : n = Len(paths[p])
  BY <1>3 DEF IsPath
<1>5. /\ s = paths[p][n] /\ n > 0 /\ paths[p][1] = 0
      /\ \A i \in 2..n : paths[p][i] \in 1..(p - 1)
  BY <1>2, <1>3, <1>4 DEF IsPath, Bottom
<1>6. (body[p].op = "param" => n = 1) /\ (body[p].op = "var" => n > 1)
  BY <1>3, <1>4 DEF Moves
<1>7. CASE n = 1
  <2>1. s = 0
    BY <1>5, <1>7
  <2>2. ~(n > 1)
    BY <1>7
  <2>3. body[p].op = "param"
    BY <1>2, <1>6, <2>2
  <2>. QED BY <1>1, <1>2, <2>1, <2>3
<1>8. CASE n # 1
  <2>1. n \in 2..n
    BY <1>5, <1>8
  <2>2. s # 0
    BY <1>5, <2>1
  <2>. QED BY <1>1, <1>2, <1>6, <1>8, <2>2
<1>. QED BY <1>7, <1>8

(* What has a meaning has an address, if it is not defined here.           *)
LEMMA AddressIs ==
  ASSUME NamesInv, pass = "generate", at <= Len(body), ValuesInv, UsesInv, Checked(Len(body)),
         NEW x \in body[at].uses, ~HasAddress(x)
  PROVE  OwnInitialiser(at)
<1>1. at \in 1..Len(body) /\ body[at] \in Event /\ x \in Ids /\ cur = paths[at] /\ cur \in Seq(Scope)
  BY AtEvent DEF Event
<1>2. Usable(at, x)
  BY <1>1 DEF Checked
<1>3. Meaning(x) # 0 /\ Meaning(x) \notin values
  BY <1>1, <1>2, MeaningFrom DEF Usable, HasAddress
<1>4. PICK i \in DOMAIN cur : Meaning(x) = symbols[cur[i]][x] /\ (i > 1 => Meaning(x) < at + 1)
  BY <1>1, <1>3, MeaningFrom
<1>5. cur[i] \in Scope
  BY <1>1
<1>6. PICK m \in 1..Len(body) : /\ m = Meaning(x) /\ body[m].name = {x}
                                /\ body[m].op = IF cur[i] = 0 THEN "param" ELSE "var"
  BY SMTT(30), <1>1, <1>3, <1>4, <1>5, SymbolIs
<1>7. cur[i] # 0
  <2>1. cur[i] = 0 => Meaning(x) \in FormalParams
    BY <1>1, <1>3, <1>4 DEF FormalParams
  <2>. QED BY <1>3, <2>1 DEF ValuesInv
<1>8. i > 1
  <2>1. cur[1] = 0 /\ DOMAIN cur = 1..Len(cur)
    BY <1>1, AtEvent DEF IsPath
  <2>. QED BY <1>7, <2>1
<1>9. m = at
  <2>1. m < at + 1 /\ m \notin values /\ body[m].op = "var"
    BY <1>3, <1>4, <1>6, <1>7, <1>8
  <2>2. ~(m \in 1..(at - 1))
    BY <2>1 DEF ValuesInv
  <2>. QED BY <1>1, <2>1, <2>2
<1>. QED BY <1>1, <1>6, <1>7, <1>9 DEF UsesInv, OwnInitialiser

-----------------------------------------------------------------------------
LEMMA TextStep ==
  ASSUME NamesInv, TextInv, NEW e \in Event, NEW path \in Seq(Scope), Read(e, path),
         Len(path) > 1 => \/ Len(cur) = 1 /\ path[2] = here
                          \/ Len(cur) > 1 /\ path[2] = cur[2],
         e.op \notin {"var", "use"} => e.uses = {},
         e.op = "var" => e.uses = {} \/ e.uses = e.name
  PROVE  TextInv'
<1>1. /\ body' = Append(body, e) /\ paths' = Append(paths, path) /\ pass = "declare"
      /\ body \in Seq(Event) /\ paths \in Seq(Seq(Scope)) /\ Len(paths) = Len(body) + 1
  BY DEF NamesInv, Types, TextTypes, Read
<1>2. PICK n \in Nat : n = Len(body)
  BY <1>1
<1>3. /\ Len(body') = n + 1 /\ body'[n + 1] = e /\ \A q \in 1..n : body'[q] = body[q]
      /\ paths'[n + 2] = path /\ \A p \in 1..(n + 1) : paths'[p] = paths[p]
  BY <1>1, <1>2
<1>4. UsesInv'
  <2>. SUFFICES ASSUME NEW p \in 1..(n + 1)
                PROVE  /\ body'[p].op \notin {"var", "use"} => body'[p].uses = {}
                       /\ body'[p].op = "var" => body'[p].uses = {} \/ body'[p].uses = body'[p].name
    BY <1>3 DEF UsesInv
  <2>1. p \in 1..n \/ p = n + 1
    OBVIOUS
  <2>. QED BY <1>2, <1>3, <2>1 DEF TextInv, UsesInv
<1>5. FirstInv'
  <2>. SUFFICES ASSUME NEW p \in 1..(n + 2), Len(paths'[p]) > 1, NEW q \in 1..(paths'[p][2] - 1)
                PROVE  q <= n + 1 /\ body'[q].op = "param"
    BY <1>3 DEF FirstInv
  <2>1. \A k \in 1..(n + 1) : Len(paths[k]) > 1 =>
          \A j \in 1..(paths[k][2] - 1) : j <= n /\ body[j].op = "param"
    BY <1>2 DEF TextInv, FirstInv
  <2>2. CASE p \in 1..(n + 1)
    <3>1. q <= n /\ body[q].op = "param"
      BY <1>3, <2>1, <2>2
    <3>. QED BY <1>3, <3>1
  <2>3. CASE p = n + 2
    <3>1. cur = paths[n + 1] /\ here = n + 1 /\ paths'[p] = path
      BY <1>2, <1>3, <2>3, AtText DEF Read
    <3>2. CASE Len(cur) = 1 /\ path[2] = here
      <4>1. q \in 1..n /\ body[q].op = "param"
        BY <1>1, <1>2, <3>1, <3>2 DEF NamesInv, WalkInv
      <4>. QED BY <1>3, <4>1
    <3>3. CASE Len(cur) > 1 /\ path[2] = cur[2]
      <4>1. q <= n /\ body[q].op = "param"
        BY SMTT(30), <2>1, <3>1, <3>3
      <4>. QED BY <1>3, <4>1
    <3>. QED BY <3>1, <3>2, <3>3
  <2>4. p \in 1..(n + 1) \/ p = n + 2
    OBVIOUS
  <2>. QED BY <2>2, <2>3, <2>4
<1>. QED BY <1>4, <1>5 DEF TextInv

LEMMA TextOpen == ASSUME NamesInv, TextInv, OpenBlock PROVE TextInv'
<1>. DEFINE e == E("open", {}, FALSE, {})
            path == Append(cur, here)
<1>1. e \in Event /\ e.op = "open" /\ e.uses = {}
  BY DEF E, Event
<1>2. Read(e, path) /\ pass = "declare" /\ cur \in Seq(Scope) /\ Len(cur) > 0
  BY DEF OpenBlock, Read, NamesInv, Types
<1>3. here \in Scope
  BY <1>2, AtText, NamesAssumption DEF Read, Scope, Position
<1>4. path \in Seq(Scope) /\ path[Len(cur) + 1] = here /\ \A i \in 1..Len(cur) : path[i] = cur[i]
  BY <1>2, <1>3
<1>5. (Len(cur) = 1 /\ path[2] = here) \/ (Len(cur) > 1 /\ path[2] = cur[2])
  <2>1. PICK n \in Nat : n = Len(cur) /\ n > 0
    BY <1>2
  <2>2. n = 1 \/ n > 1
    BY <2>1
  <2>3. n > 1 => 2 \in 1..n
    BY <2>1
  <2>. HIDE DEF path
  <2>. QED BY <1>4, <2>1, <2>2, <2>3
<1>. HIDE DEF e, path
<1>. QED BY <1>1, <1>2, <1>4, <1>5, TextStep

LEMMA TextClose == ASSUME NamesInv, TextInv, CloseBlock PROVE TextInv'
<1>. DEFINE e == E("close", {}, FALSE, {})
            path == Exit(cur)
<1>1. e \in Event /\ e.op = "close" /\ e.uses = {}
  BY DEF E, Event
<1>2. Read(e, path) /\ pass = "declare" /\ cur \in Seq(Scope) /\ Len(cur) > 1
  BY DEF CloseBlock, Read, NamesInv, Types
<1>3. /\ path \in Seq(Scope) /\ Len(path) = Len(cur) - 1
      /\ \A i \in 1..(Len(cur) - 1) : path[i] = cur[i]
  BY <1>2 DEF Exit
<1>. HIDE DEF e, path
<1>4. Len(path) > 1 => path[2] = cur[2]
  BY <1>2, <1>3
<1>. QED BY <1>1, <1>2, <1>3, <1>4, TextStep

LEMMA TextInPlace ==
  ASSUME NamesInv, TextInv, NEW e \in Event, Read(e, cur),
         e.op \notin {"var", "use"} => e.uses = {},
         e.op = "var" => e.uses = {} \/ e.uses = e.name
  PROVE  TextInv'
<1>1. cur \in Seq(Scope)
  BY DEF NamesInv, Types
<1>. QED BY <1>1, TextStep

(* While the text is read, nothing is checked or generated yet.            *)
LEMMA TextLoad ==
  ASSUME TextInv', pass' \notin {"check", "generate", "crashed", "done"}
  PROVE  LoadInv'
BY DEF LoadInv, CheckedInv, NullLoadExactly

LEMMA TextInit == Init => LoadInv
<1>. SUFFICES ASSUME Init PROVE LoadInv
  OBVIOUS
<1>1. Len(body) = 0 /\ paths = <<<<0>>>>
  BY DEF Init
<1>2. UsesInv /\ FirstInv
  <2>1. \A p \in 1..(Len(body) + 1) : p = 1
    BY <1>1
  <2>. QED BY <1>1, <2>1 DEF UsesInv, FirstInv
<1>. QED BY <1>2 DEF TextInv, LoadInv, CheckedInv, NullLoadExactly, Init

LEMMA LoadText ==
  ASSUME NamesInv, LoadInv, NEW x \in Ids, NEW void \in BOOLEAN, NEW init \in {{}, {x}},
         Parameter(x, void) \/ LocalVar(x, void, init) \/ UseOf(x)
  PROVE  LoadInv'
<1>1. pass' = "declare"
  BY DEF Parameter, LocalVar, UseOf, Read
<1>2. /\ Parameter(x, void) => Read(E("param", {x}, void, {}), cur)
      /\ LocalVar(x, void, init) => Read(E("var", {x}, void, init), cur)
      /\ UseOf(x) => Read(E("use", {}, FALSE, {x}), cur)
  BY DEF Parameter, LocalVar, UseOf
<1>3. \A op \in {"param", "var", "use"} :
        \A name \in {{}, {x}} : \A v \in BOOLEAN : \A uses \in {{}, {x}} :
          /\ E(op, name, v, uses) \in Event
          /\ E(op, name, v, uses).op = op /\ E(op, name, v, uses).name = name
          /\ E(op, name, v, uses).uses = uses
  BY DEF E, Event
<1>4. PICK e \in Event : /\ Read(e, cur)
                         /\ e.op \notin {"var", "use"} => e.uses = {}
                         /\ e.op = "var" => e.uses = {} \/ e.uses = e.name
  <2>1. CASE Parameter(x, void)
    BY <1>2, <1>3, <2>1
  <2>2. CASE LocalVar(x, void, init)
    <3>. DEFINE d == E("var", {x}, void, init)
    <3>1. init = {} \/ init = {x}
      OBVIOUS
    <3>2. init \in SUBSET Ids
      BY <3>1
    <3>3. d \in Event /\ d.op = "var" /\ d.name = {x} /\ d.uses = init
      BY <3>2 DEF E, Event
    <3>4. Read(d, cur)
      BY <1>2, <2>2
    <3>. HIDE DEF d
    <3>. QED BY <3>1, <3>3, <3>4
  <2>3. CASE UseOf(x)
    BY <1>2, <1>3, <2>3
  <2>. QED BY <2>1, <2>2, <2>3
<1>5. TextInv'
  BY <1>4, TextInPlace DEF LoadInv
<1>. QED BY <1>1, <1>5, TextLoad

LEMMA LoadOpen == ASSUME NamesInv, LoadInv, OpenBlock PROVE LoadInv'
<1>1. pass' = "declare"
  BY DEF OpenBlock, Read
<1>. QED BY <1>1, TextOpen, TextLoad DEF LoadInv

(* Before the method's block there are only parameters.                    *)
LEMMA LoadClose == ASSUME NamesInv, LoadInv, CloseBlock PROVE LoadInv'
<1>1. TextInv'
  BY TextClose DEF LoadInv
<1>2. CASE pass' # "check"
  <2>1. pass' \in {"declare", "rejected"}
    BY <1>2 DEF CloseBlock, Read
  <2>. QED BY <1>1, <2>1, TextLoad
<1>3. CASE pass' = "check"
  <2>1. /\ cur \in Seq(Scope) /\ Len(cur) \in Nat /\ Len(cur) > 1 /\ ~(Len(cur) > 2)
        /\ pass = "declare" /\ at' = Bottom(cur) /\ body' = Append(body, E("close", {}, FALSE, {}))
    BY <1>3 DEF CloseBlock, Read, NamesInv, Types
  <2>2. Len(cur) = 2 /\ at' = cur[2]
    <3>1. Len(cur) = 2
      BY <2>1, LongPath
    <3>. QED BY <2>1, <3>1 DEF Bottom
  <2>3. cur = paths[Len(body) + 1] /\ Len(body) \in Nat /\ body \in Seq(Event)
    BY <2>1, AtText DEF NamesInv, Types, TextTypes
  <2>4. \A q \in 1..(cur[2] - 1) : q <= Len(body) /\ body[q].op = "param"
    BY <2>2, <2>3 DEF LoadInv, TextInv, FirstInv
  <2>5. \A q \in 1..(cur[2] - 1) : body'[q] = body[q] /\ body[q].uses = {}
    <3>. SUFFICES ASSUME NEW q \in 1..(cur[2] - 1) PROVE body'[q] = body[q] /\ body[q].uses = {}
      OBVIOUS
    <3>1. q \in 1..Len(body) /\ body[q].op = "param"
      BY <2>3, <2>4
    <3>2. E("close", {}, FALSE, {}) \in Event
      BY DEF E, Event
    <3>3. body[q].uses = {}
      BY <3>1 DEF LoadInv, TextInv, UsesInv
    <3>. QED BY <2>1, <2>3, <3>1, <3>2, <3>3
  <2>6. Checked(at - 1)'
    BY <2>2, <2>5 DEF Checked
  <2>. QED BY <1>1, <1>3, <2>6 DEF LoadInv, CheckedInv, NullLoadExactly
<1>. QED BY <1>2, <1>3

-----------------------------------------------------------------------------
(* The walks.                                                              *)
LEMMA WalkText ==
  ASSUME LoadInv, UNCHANGED <<outer, static, body, paths, symbols>>
  PROVE  TextInv' /\ \A n : Checked(n)' = Checked(n)
BY DEF LoadInv, TextInv, UsesInv, FirstInv, Checked, Usable, Known

LEMMA LoadCheckBlock == ASSUME NamesInv, LoadInv, CheckBlock PROVE LoadInv'
<1>1. /\ pass = "check" /\ pass' = "check" /\ failed' = failed /\ at' = at + 1 /\ at <= Len(body)
      /\ body[at].op \in {"open", "close"}
      /\ UNCHANGED <<outer, static, body, paths, symbols>>
  BY DEF CheckBlock, Follow, Visit
<1>2. at \in 1..Len(body) /\ Len(body) \in Nat
  BY <1>1, AtEvent
<1>3. body[at].uses = {}
  BY <1>1, <1>2 DEF LoadInv, TextInv, UsesInv
<1>4. failed = {} => Checked(at' - 1)
  <2>. SUFFICES ASSUME Checked(at - 1) PROVE Checked(at)
    BY <1>1, <1>2 DEF LoadInv, CheckedInv
  <2>1. \A q \in 1..at : q = at \/ q \in 1..(at - 1)
    BY <1>2
  <2>. QED BY <1>3, <2>1 DEF Checked
<1>5. failed' = {} => Checked(at - 1)'
  BY <1>1, <1>4 DEF Checked, Usable, Known
<1>. QED BY <1>1, <1>5, WalkText DEF LoadInv, CheckedInv, NullLoadExactly

LEMMA LoadCheckUses == ASSUME NamesInv, LoadInv, CheckUses PROVE LoadInv'
<1>1. /\ pass = "check" /\ pass' = "check" /\ at' = at + 1 /\ at <= Len(body)
      /\ failed' = IF \A x \in body[at].uses : IsVariable(x) THEN failed ELSE failed \cup {at}
      /\ UNCHANGED <<outer, static, body, paths, symbols>>
  BY DEF CheckUses, Visit
<1>2. at \in 1..Len(body) /\ Len(body) \in Nat /\ body[at].uses \subseteq Ids
  BY <1>1, AtEvent DEF Event
<1>3. failed' = {} => Checked(at' - 1)
  <2>. SUFFICES ASSUME failed' = {} PROVE Checked(at)
    BY <1>1, <1>2
  <2>1. failed = {} /\ \A x \in body[at].uses : IsVariable(x)
    BY <1>1
  <2>2. \A x \in body[at].uses : Usable(at, x)
    BY <1>1, <1>2, <2>1, MeaningFrom DEF IsVariable, Usable
  <2>3. Checked(at - 1)
    BY <1>1, <2>1 DEF LoadInv, CheckedInv
  <2>4. \A q \in 1..at : q = at \/ q \in 1..(at - 1)
    BY <1>2
  <2>. QED BY <2>2, <2>3, <2>4 DEF Checked
<1>4. failed' = {} => Checked(at - 1)'
  BY <1>1, <1>3 DEF Checked, Usable, Known
<1>. QED BY <1>1, <1>4, WalkText DEF LoadInv, CheckedInv, NullLoadExactly

LEMMA LoadEndCheck == ASSUME NamesInv, LoadInv, EndCheck PROVE LoadInv'
<1>1. /\ pass = "check" /\ at > Len(body)
      /\ UNCHANGED <<outer, static, body, paths, symbols>>
  BY DEF EndCheck
<1>2. TextInv'
  BY <1>1, WalkText
<1>3. CASE failed # {}
  <2>1. pass' = "rejected"
    BY <1>3 DEF EndCheck
  <2>. QED BY <1>2, <2>1, TextLoad
<1>4. CASE failed = {}
  <2>1. pass' = "generate" /\ at' = paths[Len(body)][2] /\ values' = FormalParams
    BY <1>4 DEF EndCheck
  <2>2. PICK n \in Nat : n = Len(body)
    BY DEF NamesInv, Types, TextTypes
  <2>3. at = n + 1 /\ n \in 1..n /\ Len(paths[n]) > 1
    BY <1>1, <2>2 DEF NamesInv, WalkInv
  <2>4. Checked(n)
    BY <1>1, <1>4, <2>3 DEF LoadInv, CheckedInv
  <2>5. Checked(Len(body))'
    BY <1>1, <2>2, <2>4 DEF Checked, Usable, Known
  <2>6. \A q \in 1..(at' - 1) : body[q].op = "param"
    <3>1. n \in 1..(n + 1)
      BY <2>3
    <3>. QED BY <2>1, <2>2, <2>3, <3>1 DEF LoadInv, TextInv, FirstInv
  <2>7. \A v \in FormalParams : v \in 1..n /\ body[v].op = "param"
    <3>1. 0 \in Scope
      BY DEF Scope
    <3>. QED BY <2>2, <3>1, SymbolIs DEF FormalParams
  <2>8. ValuesInv'
    <3>1. FormalParams' = FormalParams
      BY <1>1 DEF FormalParams
    <3>. QED BY <1>1, <2>1, <2>2, <2>6, <2>7, <3>1 DEF ValuesInv
  <2>. QED BY <1>2, <2>1, <2>5, <2>8 DEF LoadInv, CheckedInv, NullLoadExactly
<1>. QED BY <1>3, <1>4

(* Generation has come one event further.                                  *)
LEMMA LoadGenerate ==
  ASSUME NamesInv, LoadInv, pass = "generate", pass' = "generate", at <= Len(body), at' = at + 1,
         UNCHANGED <<outer, static, body, paths, symbols>>,
         \/ body[at].op # "var" /\ values' = values
         \/ body[at].op = "var" /\ values' = values \cup {at} /\ ~OwnInitialiser(at)
  PROVE  LoadInv'
<1>1. at \in 1..Len(body) /\ Len(body) \in Nat
  BY AtEvent
<1>2. Checked(Len(body))' /\ TextInv'
  <2>1. Checked(Len(body))
    BY DEF LoadInv, CheckedInv
  <2>2. Checked(Len(body))'
    BY <2>1 DEF Checked, Usable, Known
  <2>. QED BY <2>2, WalkText
<1>3. ValuesInv
  BY DEF LoadInv
<1>4. \A v \in values' : v \in 1..Len(body) /\ (body[v].op = "param" \/ v < at + 1)
  <2>. SUFFICES ASSUME NEW v \in values'
                PROVE  v \in 1..Len(body) /\ (body[v].op = "param" \/ v < at + 1)
    OBVIOUS
  <2>1. v \in values \/ v = at
    OBVIOUS
  <2>. QED BY <1>1, <1>3, <2>1 DEF ValuesInv
<1>5. FormalParams' = FormalParams /\ FormalParams \subseteq values'
  BY <1>3 DEF FormalParams, ValuesInv
<1>6. \A q \in 1..at : body[q].op = "var" => q \in values' /\ ~OwnInitialiser(q)
  <2>1. \A q \in 1..at : q = at \/ q \in 1..(at - 1)
    BY <1>1
  <2>. QED BY <1>3, <2>1 DEF ValuesInv
<1>7. ValuesInv'
  <2>1. \A q : OwnInitialiser(q)' = OwnInitialiser(q)
    BY DEF OwnInitialiser
  <2>2. at' - 1 = at
    BY <1>1
  <2>. QED BY <1>4, <1>5, <1>6, <2>1, <2>2 DEF ValuesInv
<1>. QED BY <1>2, <1>7 DEF LoadInv, CheckedInv, NullLoadExactly

LEMMA LoadGenerateVar == ASSUME NamesInv, LoadInv, GenerateVar PROVE LoadInv'
<1>1. /\ pass = "generate" /\ pass' = "generate" /\ at <= Len(body) /\ at' = at + 1
      /\ body[at].op = "var" /\ values' = values \cup {Lookup(x) : x \in body[at].name}
      /\ Loads /\ UNCHANGED <<outer, static, body, paths, symbols>>
  BY DEF GenerateVar, Visit
<1>2. PICK x \in Ids : body[at].name = {x}
  BY <1>1, AtEvent DEF Moves
<1>3. Meaning(x) = at /\ Lookup(x) = at
  BY <1>1, <1>2, OwnMeaning
<1>4. values' = values \cup {at}
  BY <1>1, <1>2, <1>3
<1>5. ~OwnInitialiser(at)
  <2>. SUFFICES ASSUME OwnInitialiser(at) PROVE FALSE
    OBVIOUS
  <2>1. HasAddress(x) /\ at \in 1..Len(body)
    BY <1>1, <1>2, AtEvent DEF OwnInitialiser, Loads
  <2>2. at \in values
    BY <1>3, <2>1 DEF HasAddress
  <2>. QED BY <1>1, <2>1, <2>2 DEF LoadInv, ValuesInv
<1>. QED BY <1>1, <1>4, <1>5, LoadGenerate

LEMMA LoadEnd == ASSUME NamesInv, LoadInv, LoadNull \/ EndGenerate PROVE LoadInv'
<1>1. /\ pass = "generate" /\ at' = at /\ UNCHANGED <<outer, static, body, paths, symbols>>
      /\ ValuesInv /\ UsesInv /\ Checked(Len(body))
  BY DEF LoadNull, EndGenerate, LoadInv, TextInv, CheckedInv
<1>2. TextInv'
  BY <1>1, WalkText
<1>3. CASE LoadNull
  <2>1. pass' = "crashed" /\ at <= Len(body) /\ ~Loads
    BY <1>3 DEF LoadNull
  <2>2. OwnInitialiser(at)
    BY <1>1, <2>1, AddressIs DEF Loads
  <2>3. OwnInitialiser(at)'
    BY <1>1, <2>2 DEF OwnInitialiser
  <2>. QED BY <1>2, <2>1, <2>3 DEF LoadInv, CheckedInv, NullLoadExactly
<1>4. CASE EndGenerate
  <2>1. pass' = "done" /\ at > Len(body) /\ Len(body) \in Nat /\ body \in Seq(Event) /\ at \in Nat
    BY <1>4 DEF EndGenerate, NamesInv, Types, TextTypes
  <2>2. \A p \in DOMAIN body : p \in 1..(at - 1)
    BY <2>1
  <2>3. \A p \in DOMAIN body : ~OwnInitialiser(p)
    BY <1>1, <2>2 DEF ValuesInv, OwnInitialiser
  <2>4. (\A p \in DOMAIN body : ~OwnInitialiser(p))'
    BY <1>1, <2>3 DEF OwnInitialiser
  <2>. QED BY <1>2, <2>1, <2>4 DEF LoadInv, CheckedInv, NullLoadExactly
<1>. QED BY <1>3, <1>4

LEMMA LoadStep == NamesInv /\ LoadInv /\ [Next]_vars => LoadInv'
<1>. SUFFICES ASSUME NamesInv, LoadInv, [Next]_vars PROVE LoadInv'
  OBVIOUS
<1>1. ASSUME NEW x \in Ids, NEW void \in BOOLEAN,
             Parameter(x, void) \/ LocalVar(x, void, {}) \/ LocalVar(x, void, {x}) \/ UseOf(x)
      PROVE  LoadInv'
  BY <1>1, LoadText
<1>2. CASE OpenBlock \/ CloseBlock
  BY <1>2, LoadOpen, LoadClose
<1>3. CASE CheckBlock \/ CheckUses \/ EndCheck
  BY <1>3, LoadCheckBlock, LoadCheckUses, LoadEndCheck
<1>4. CASE GenerateBlock \/ GenerateUse
  <2>1. /\ pass = "generate" /\ pass' = "generate" /\ at <= Len(body) /\ at' = at + 1
        /\ body[at].op # "var" /\ values' = values
        /\ UNCHANGED <<outer, static, body, paths, symbols>>
    BY <1>4 DEF GenerateBlock, GenerateUse, Follow, Visit
  <2>. QED BY <2>1, LoadGenerate
<1>5. CASE GenerateVar
  BY <1>5, LoadGenerateVar
<1>6. CASE LoadNull \/ EndGenerate
  BY <1>6, LoadEnd
<1>7. CASE UNCHANGED vars
  BY <1>7 DEF vars, LoadInv, TextInv, UsesInv, FirstInv, CheckedInv, Checked, Usable, Known,
              ValuesInv, FormalParams, OwnInitialiser, NullLoadExactly
<1>. QED BY <1>1, <1>2, <1>3, <1>4, <1>5, <1>6, <1>7 DEF Next

(* Whatever the body: what TypeChecker lets pass has an address to load    *)
(* from when CodeGenVisitor comes to it, except the local that is being    *)
(* defined, and a body in which some local is used by its own initialiser  *)
(* is never generated (CodeGenVisitor::visitVarDef, getVarValue).          *)
THEOREM OnlyOwnInitialisersCrash == Spec => []NullLoadExactly
<1>1. NamesInv /\ LoadInv /\ [Next]_vars => NamesInv' /\ LoadInv'
  BY NextInv, LoadStep
<1>2. LoadInv => NullLoadExactly
  BY DEF LoadInv
<1>. QED BY <1>1, <1>2, InitInv, TextInit, PTL DEF Spec

-----------------------------------------------------------------------------
(* Types.                                                                  *)
Meanings == UNION {[S -> Nat] : S \in SUBSET Ids}

RangeInv ==
  /\ outer \in [Ids -> Kinds] /\ static \in BOOLEAN
  /\ pass = "declare" => at = 0
  /\ failed \subseteq Position /\ values \subseteq Position
  /\ refs \in Seq(Meanings) /\ Len(refs) <= Len(body)
  /\ pass = "check" => Len(refs) < at

LEMMA MeaningType ==
  ASSUME NamesInv, pass \in {"check", "generate"}, at <= Len(body), NEW x \in Ids
  PROVE  Meaning(x) \in Nat
<1>1. cur \in Seq(Scope) /\ symbols \in [Scope -> [Ids -> Scope]] /\ Scope \subseteq Nat
  BY NamesAssumption DEF NamesInv, Types, Scope, Position
<1>2. CASE Meaning(x) # 0
  <2>1. PICK i \in DOMAIN cur : Meaning(x) = symbols[cur[i]][x]
    BY <1>2, MeaningFrom
  <2>2. cur[i] \in Scope
    BY <1>1
  <2>. QED BY <1>1, <2>1, <2>2
<1>. QED BY <1>2

LEMMA RangeText ==
  ASSUME NamesInv, NamesInv', RangeInv, NEW e, NEW path, Read(e, path),
         failed' = failed \/ failed' = failed \cup {here},
         pass' = "declare" => at' = at
  PROVE  RangeInv'
<1>1. /\ UNCHANGED <<outer, static, refs, values>> /\ pass = "declare" /\ refs = <<>>
      /\ body' = Append(body, e) /\ here = Len(body) + 1
  BY AtText DEF Read
<1>2. PICK n \in Nat : n = Len(body)
  BY DEF NamesInv, Types, TextTypes
<1>3. Len(body') \in Nat /\ Len(body') <= MaxBody /\ Len(body') = n + 1
  <2>1. body \in Seq(Event) /\ body' \in Seq(Event) /\ Len(body') <= MaxBody
    BY DEF NamesInv, Types, TextTypes
  <2>2. Len(body') = n + 1
    <3>1. body' = Append(body, e) /\ body \in Seq(Event \cup {e})
      BY <1>1, <2>1
    <3>. QED BY <1>2, <3>1
  <2>. QED BY <2>1, <2>2
<1>4. here \in Position
  BY <1>1, <1>2, <1>3, NamesAssumption DEF Position
<1>5. Len(refs') = 0 /\ refs' \in Seq(Meanings)
  BY <1>1
<1>6. pass' = "check" => at' > 0
  BY DEF NamesInv, WalkInv
<1>7. outer \in [Ids -> Kinds] /\ static \in BOOLEAN /\ values \subseteq Position
  BY DEF RangeInv
<1>8. (pass' = "declare" => at' = 0) /\ failed' \subseteq Position
  BY <1>1, <1>4 DEF RangeInv
<1>. QED BY <1>1, <1>3, <1>5, <1>6, <1>7, <1>8 DEF RangeInv

LEMMA RangeStep == NamesInv /\ RangeInv /\ [Next]_vars => RangeInv'
<1>. SUFFICES ASSUME NamesInv, RangeInv, [Next]_vars PROVE RangeInv'
  OBVIOUS
<1>0. NamesInv'
  BY NextInv
<1>1. ASSUME NEW x \in Ids, NEW void \in BOOLEAN, NEW init,
             Parameter(x, void) \/ LocalVar(x, void, init) \/ UseOf(x)
      PROVE  RangeInv'
  <2>1. PICK e : Read(e, cur)
    BY <1>1 DEF Parameter, LocalVar, UseOf
  <2>2. (failed' = failed \/ failed' = failed \cup {here}) /\ at' = at
    BY <1>1 DEF Parameter, LocalVar, UseOf, Report
  <2>. QED BY <1>0, <2>1, <2>2, RangeText
<1>2. CASE OpenBlock \/ CloseBlock
  <2>1. PICK e, path : Read(e, path)
    BY <1>2 DEF OpenBlock, CloseBlock
  <2>2. failed' = failed /\ (pass' = "declare" => at' = at)
    BY <1>2 DEF OpenBlock, CloseBlock
  <2>. QED BY <1>0, <2>1, <2>2, RangeText
<1>3. CASE CheckBlock
  <2>1. /\ pass = "check" /\ pass' = "check" /\ at <= Len(body) /\ at' = at + 1
        /\ UNCHANGED <<outer, static, body, failed, refs, values>>
    BY <1>3 DEF CheckBlock, Follow, Visit
  <2>2. at \in Nat /\ Len(refs) \in Nat
    BY DEF NamesInv, Types, RangeInv
  <2>. QED BY <2>1, <2>2 DEF RangeInv
<1>4. CASE CheckUses
  <2>1. /\ pass = "check" /\ pass' = "check" /\ at <= Len(body) /\ at' = at + 1
        /\ failed' = failed \/ failed' = failed \cup {at}
        /\ UNCHANGED <<outer, static, body, values>>
        /\ refs' = Append(refs, [x \in body[at].uses |-> Meaning(x)])
    BY <1>4 DEF CheckUses, Visit
  <2>2. /\ at \in 1..Len(body) /\ Len(body) \in Nat /\ Len(body) <= MaxBody
        /\ body[at].uses \in SUBSET Ids
    BY <2>1, AtEvent DEF Event, NamesInv, Types, TextTypes
  <2>3. [x \in body[at].uses |-> Meaning(x)] \in Meanings
    <3>1. \A x \in body[at].uses : Meaning(x) \in Nat
      BY <2>1, <2>2, MeaningType
    <3>. QED BY <2>2, <3>1 DEF Meanings
  <2>4. at \in Position
    BY <2>2, NamesAssumption DEF Position
  <2>5. refs' \in Seq(Meanings) /\ Len(refs') = Len(refs) + 1 /\ Len(refs) < at /\ Len(refs) \in Nat
    BY <2>1, <2>3 DEF RangeInv
  <2>6. Len(refs') <= Len(body') /\ Len(refs') < at'
    BY <2>1, <2>2, <2>5
  <2>7. failed' \subseteq Position
    BY <2>1, <2>4 DEF RangeInv
  <2>. QED BY <2>1, <2>5, <2>6, <2>7 DEF RangeInv
<1>5. CASE EndCheck
  <2>1. /\ pass' \in {"generate", "rejected"} /\ (values' = FormalParams \/ values' = values)
        /\ UNCHANGED <<outer, static, body, failed, refs>>
    BY <1>5 DEF EndCheck
  <2>2. FormalParams \subseteq Position
    <3>1. \A x \in Ids : symbols[0][x] \in Scope
      BY DEF NamesInv, Types, Scope
    <3>. QED BY <3>1 DEF FormalParams, Scope
  <2>. QED BY <2>1, <2>2 DEF RangeInv
<1>6. CASE GenerateBlock \/ GenerateUse \/ LoadNull \/ EndGenerate
  <2>1. /\ pass' \in {"generate", "crashed", "done"}
        /\ UNCHANGED <<outer, static, body, failed, refs, values>>
    BY <1>6 DEF GenerateBlock, GenerateUse, LoadNull, EndGenerate, Follow, Visit
  <2>. QED BY <2>1 DEF RangeInv
<1>7. CASE GenerateVar
  <2>1. /\ pass = "generate" /\ pass' = "generate" /\ at <= Len(body) /\ body[at].op = "var"
        /\ values' = values \cup {Lookup(x) : x \in body[at].name}
        /\ UNCHANGED <<outer, static, body, failed, refs>>
    BY <1>7 DEF GenerateVar, Visit
  <2>2. PICK x \in Ids : body[at].name = {x}
    BY <2>1, AtEvent DEF Moves
  <2>3. Lookup(x) = at /\ at \in 1..Len(body) /\ Len(body) <= MaxBody /\ Len(body) \in Nat
    BY <2>1, <2>2, OwnMeaning, AtEvent DEF NamesInv, Types, TextTypes
  <2>4. at \in Position
    BY <2>3, NamesAssumption DEF Position
  <2>. QED BY <2>1, <2>2, <2>3, <2>4 DEF RangeInv
<1>8. CASE UNCHANGED vars
  BY <1>8 DEF vars, RangeInv
<1>. QED BY <1>1, <1>2, <1>3, <1>4, <1>5, <1>6, <1>7, <1>8 DEF Next

(* For bodies of any length the state has its types, and the walks stay    *)
(* within the body.                                                        *)
THEOREM NamesTypeCorrect == Spec => []TypeOK
<1>1. Init => RangeInv
  BY NamesAssumption DEF Init, RangeInv
<1>2. NamesInv /\ RangeInv /\ [Next]_vars => NamesInv' /\ RangeInv'
  BY NextInv, RangeStep
<1>3. NamesInv /\ RangeInv => TypeOK
  <2>. SUFFICES ASSUME NamesInv, RangeInv PROVE TypeOK
    OBVIOUS
  <2>1. at \in 0..(Len(body) + 1)
    <3>1. Len(body) \in Nat
      BY DEF NamesInv, Types, TextTypes
    <3>. QED BY <3>1 DEF NamesInv, WalkInv, RangeInv
  <2>. QED BY <2>1 DEF NamesInv, Types, TextTypes, RangeInv, TypeOK
<1>. QED BY <1>1, <1>2, <1>3, InitInv, PTL DEF Spec

-----------------------------------------------------------------------------
(* Declarations.  A scope on a path was opened one level further out, and  *)
(* a block encloses what stands where its scope is on the path.            *)
DepthInv ==
  \A p \in 1..(Len(body) + 1) : \A i \in 2..Len(paths[p]) :
    paths[p][i] \in 1..Len(body) /\ Len(paths[paths[p][i]]) = i - 1

Under(q, p) == \E i \in 1..Len(paths[p]) : paths[p][i] = Bottom(paths[q])

EnclosesInv ==
  \A p \in 1..(Len(body) + 1) : \A q \in 1..(p - 1) : Encloses(q, p) <=> Under(q, p)

ExactInv == DepthInv /\ EnclosesInv /\ DeclaresExactly

(* Reading an event leaves what stands before it.                          *)
LEMMA ReadFacts ==
  ASSUME NamesInv, NEW e, NEW path, Read(e, path)
  PROVE  /\ pass = "declare" /\ Len(body) \in Nat /\ here = Len(body) + 1 /\ cur = paths[here]
         /\ Len(body') = here /\ body'[here] = e /\ paths'[here + 1] = path
         /\ \A q \in 1..Len(body) : body'[q] = body[q]
         /\ \A p \in 1..here : paths'[p] = paths[p]
         /\ cur \in Seq(Scope) /\ Len(cur) \in Nat /\ Len(cur) > 0
<1>1. /\ body' = Append(body, e) /\ paths' = Append(paths, path) /\ pass = "declare"
      /\ body \in Seq(Event \cup {e}) /\ paths \in Seq(Seq(Scope) \cup {path})
      /\ Len(paths) = Len(body) + 1
  BY DEF NamesInv, Types, TextTypes, Read
<1>2. Len(body) \in Nat /\ here = Len(body) + 1
  BY <1>1 DEF here
<1>3. /\ Len(body') = Len(body) + 1 /\ body'[Len(body) + 1] = e
      /\ \A q \in 1..Len(body) : body'[q] = body[q]
      /\ paths'[Len(paths) + 1] = path /\ \A p \in 1..Len(paths) : paths'[p] = paths[p]
  <2>1. PICK E1 : E1 = Event \cup {e}
    OBVIOUS
  <2>2. PICK P1 : P1 = Seq(Scope) \cup {path}
    OBVIOUS
  <2>3. body \in Seq(E1) /\ paths \in Seq(P1) /\ e \in E1 /\ path \in P1
    BY <1>1, <2>1, <2>2
  <2>. QED BY <1>1, <2>3
<1>. QED BY <1>1, <1>2, <1>3, AtText

(* The ways in which the path goes on.                                     *)
Goes(path) ==
  \/ path = cur
  \/ path = Append(cur, here)
  \/ path = Exit(cur) /\ Len(cur) > 1

LEMMA GoesWhere ==
  ASSUME NamesInv, NEW e, NEW path, Read(e, path), Goes(path)
  PROVE  /\ Len(path) \in Nat
         /\ \/ Len(path) = Len(cur)
            \/ Len(path) = Len(cur) + 1 /\ path[Len(path)] = here
            \/ Len(path) = Len(cur) - 1
         /\ \A i \in 1..Len(cur) : i <= Len(path) => path[i] = cur[i]
<1>1. cur \in Seq(Scope) /\ Len(cur) > 0 /\ here \in Nat
  BY ReadFacts
<1>2. CASE path = cur
  BY <1>1, <1>2
<1>3. CASE path = Append(cur, here)
  <2>1. PICK S : S = Scope \cup {here}
    OBVIOUS
  <2>2. cur \in Seq(S) /\ here \in S
    BY <1>1, <2>1
  <2>3. /\ Len(path) = Len(cur) + 1 /\ path[Len(cur) + 1] = here /\ Len(cur) \in Nat
        /\ \A i \in 1..Len(cur) : path[i] = cur[i]
    BY <1>3, <2>2
  <2>. QED BY <2>3
<1>4. CASE path = Exit(cur) /\ Len(cur) > 1
  <2>1. /\ Len(path) = Len(cur) - 1 /\ Len(cur) \in Nat
        /\ \A i \in 1..(Len(cur) - 1) : path[i] = cur[i]
    BY <1>1, <1>4 DEF Exit
  <2>2. \A i \in 1..Len(cur) : i <= Len(path) => i \in 1..(Len(cur) - 1)
    BY <2>1
  <2>. QED BY <1>4, <2>1, <2>2
<1>. QED BY <1>2, <1>3, <1>4 DEF Goes

LEMMA PathFacts ==
  ASSUME NamesInv, NEW p \in 1..(Len(body) + 1)
  PROVE  /\ Len(paths[p]) \in Nat /\ Len(paths[p]) > 0 /\ paths[p][1] = 0
         /\ \A i \in 2..Len(paths[p]) : paths[p][i] \in 1..(p - 1)
         /\ \A i, j \in 1..Len(paths[p]) : paths[p][i] = paths[p][j] => i = j
BY DEF NamesInv, PathsInv, IsPath

LEMMA AtLeastTwo ==
  ASSUME NEW k \in Nat, k > 0, k # 1
  PROVE  k \in 2..k
OBVIOUS

(* A scope is found at its own depth.                                      *)
LEMMA SameIndex ==
  ASSUME NamesInv, DepthInv, NEW p \in 1..(Len(body) + 1), NEW q \in 1..(Len(body) + 1),
         NEW i \in 1..Len(paths[p]), paths[p][i] = Bottom(paths[q])
  PROVE  i = Len(paths[q])
<1>1. PICK m \in Nat, n \in Nat : m = Len(paths[p]) /\ n = Len(paths[q]) /\ m > 0 /\ n > 0
  BY PathFacts
<1>2. /\ paths[p][1] = 0 /\ \A k \in 2..m : paths[p][k] \in 1..(p - 1)
      /\ paths[q][1] = 0 /\ \A k \in 2..n : paths[q][k] \in 1..(q - 1)
      /\ paths[p][i] = paths[q][n]
  BY <1>1, PathFacts DEF Bottom
<1>3. /\ \A k \in 2..m : Len(paths[paths[p][k]]) = k - 1
      /\ \A k \in 2..n : Len(paths[paths[q][k]]) = k - 1
  BY <1>1 DEF DepthInv
<1>4. CASE i = 1
  <2>1. ~(n \in 2..n)
    BY <1>2, <1>4
  <2>2. n = 1
    BY <1>1, <2>1, AtLeastTwo
  <2>. QED BY <1>1, <1>4, <2>2
<1>5. CASE i # 1
  <2>1. i \in 2..m /\ paths[p][i] # 0
    BY <1>1, <1>2, <1>5
  <2>2. n # 1
    BY <1>2, <2>1
  <2>3. n \in 2..n
    BY <1>1, <2>2, AtLeastTwo
  <2>4. i - 1 = n - 1
    BY <1>2, <1>3, <2>1, <2>3
  <2>. QED BY <1>1, <2>1, <2>4
<1>. QED BY <1>4, <1>5

LEMMA DepthStep ==
  ASSUME NamesInv, DepthInv, NEW e, NEW path, Read(e, path), Goes(path)
  PROVE  DepthInv'
<1>1. PICK n \in Nat : n = Len(body) /\ here = n + 1
  BY ReadFacts
<1>2. /\ Len(body') = n + 1 /\ paths'[n + 2] = path /\ \A p \in 1..(n + 1) : paths'[p] = paths[p]
      /\ cur = paths[n + 1]
  BY <1>1, ReadFacts
<1>3. \A p \in 1..(n + 1) : \A i \in 2..Len(paths[p]) :
        paths[p][i] \in 1..n /\ Len(paths[paths[p][i]]) = i - 1
  BY <1>1 DEF DepthInv
<1>. SUFFICES ASSUME NEW p \in 1..(n + 2), NEW i \in 2..Len(paths'[p])
              PROVE  paths'[p][i] \in 1..(n + 1) /\ Len(paths'[paths'[p][i]]) = i - 1
  BY <1>2 DEF DepthInv
<1>4. CASE p \in 1..(n + 1)
  <2>1. paths[p][i] \in 1..n /\ Len(paths[paths[p][i]]) = i - 1 /\ paths'[p] = paths[p]
    BY <1>2, <1>3, <1>4
  <2>2. paths[p][i] \in 1..(n + 1)
    BY <2>1
  <2>. QED BY <1>2, <2>1, <2>2
<1>5. CASE p = n + 2
  <2>1. PICK m \in Nat : m = Len(cur)
    BY ReadFacts
  <2>2. i \in 2..Len(path) /\ paths'[p] = path
    BY <1>2, <1>5
  <2>3. CASE i <= m
    <3>1. path[i] = cur[i] /\ i \in 2..m
      BY <2>1, <2>2, <2>3, GoesWhere
    <3>2. cur[i] \in 1..n /\ Len(paths[cur[i]]) = i - 1
      <4>1. n + 1 \in 1..(n + 1) /\ i \in 2..Len(paths[n + 1])
        BY <1>2, <2>1, <3>1
      <4>. QED BY <1>2, <1>3, <4>1
    <3>3. cur[i] \in 1..(n + 1)
      BY <3>2
    <3>. QED BY <1>2, <2>2, <3>1, <3>2, <3>3
  <2>4. CASE i > m
    <3>1. i = m + 1 /\ path[i] = here
      BY <2>1, <2>2, <2>4, GoesWhere
    <3>2. here \in 1..(n + 1) /\ Len(paths'[here]) = m
      BY <1>1, <1>2, <2>1
    <3>. QED BY <1>1, <2>1, <2>2, <3>1, <3>2
  <2>. QED BY <2>1, <2>2, <2>3, <2>4
<1>6. p \in 1..(n + 1) \/ p = n + 2
  OBVIOUS
<1>. QED BY <1>4, <1>5, <1>6

LEMMA EnclosesStep ==
  ASSUME NamesInv, DepthInv, EnclosesInv, NEW e, NEW path, Read(e, path), Goes(path)
  PROVE  EnclosesInv'
<1>1. PICK n \in Nat : n = Len(body) /\ here = n + 1
  BY ReadFacts
<1>2. /\ Len(body') = n + 1 /\ paths'[n + 2] = path /\ \A p \in 1..(n + 1) : paths'[p] = paths[p]
      /\ cur = paths[n + 1]
  BY <1>1, ReadFacts
<1>3. PICK m \in Nat : m = Len(cur) /\ m > 0
  BY ReadFacts
<1>. SUFFICES ASSUME NEW p \in 1..(n + 2), NEW q \in 1..(p - 1)
              PROVE  Encloses(q, p)' <=> Under(q, p)'
  BY <1>2 DEF EnclosesInv
<1>4. CASE p \in 1..(n + 1)
  <2>1. Encloses(q, p) <=> Under(q, p)
    BY <1>1, <1>4 DEF EnclosesInv
  <2>2. \A r \in q..p : paths'[r] = paths[r]
    <3>1. \A r \in q..p : r \in 1..(n + 1)
      BY <1>4
    <3>. QED BY <1>2, <3>1
  <2>3. q \in q..p /\ p \in q..p
    OBVIOUS
  <2>. QED BY <2>1, <2>2, <2>3 DEF Encloses, Under, Bottom
<1>5. CASE p = n + 2
  <2>1. q \in 1..(n + 1) /\ paths'[q] = paths[q]
    BY <1>2, <1>5
  <2>2. PICK L \in Nat : L = Len(paths[q]) /\ L > 0
    <3>1. q \in 1..(Len(body) + 1)
      BY <1>1, <2>1
    <3>. QED BY <3>1, PathFacts
  <2>3. Bottom(paths[q]) = paths[q][L]
    BY <2>2 DEF Bottom
  <2>4. Under(q, p)' <=> \E i \in 1..Len(path) : path[i] = paths[q][L]
    BY <1>2, <1>5, <2>1, <2>2 DEF Under, Bottom
  <2>5. Encloses(q, p)' <=> L <= Len(path) /\ \A r \in q..(n + 1) : Len(paths[r]) >= L
    <3>1. \A r : r \in q..(n + 2) <=> r \in q..(n + 1) \/ r = n + 2
      BY <2>1
    <3>2. \A r \in q..(n + 1) : r \in 1..(n + 1) /\ paths'[r] = paths[r]
      BY <1>2, <2>1
    <3>3. q < n + 2 /\ Len(path) \in Nat
      BY <2>1, GoesWhere
    <3>. QED BY <1>2, <1>5, <2>1, <2>2, <3>1, <3>2, <3>3 DEF Encloses
  <2>6. (\A r \in q..(n + 1) : Len(paths[r]) >= L) <=> \E i \in 1..m : cur[i] = paths[q][L]
    <3>1. CASE q = n + 1
      <4>1. \A r \in q..(n + 1) : r = q
        BY <3>1
      <4>2. L \in 1..m /\ cur[L] = paths[q][L]
        BY <1>2, <1>3, <2>2, <3>1
      <4>. QED BY SMTT(30), <2>2, <4>1, <4>2
    <3>2. CASE q # n + 1
      <4>1. n + 1 \in 1..(Len(body) + 1) /\ q \in 1..(n + 1 - 1)
        BY <1>1, <2>1, <3>2
      <4>2. Encloses(q, n + 1) <=> Under(q, n + 1)
        BY <4>1 DEF EnclosesInv
      <4>3. Encloses(q, n + 1) <=> \A r \in q..(n + 1) : Len(paths[r]) >= L
        BY <2>2, <4>1 DEF Encloses
      <4>4. Under(q, n + 1) <=> \E i \in 1..m : cur[i] = paths[q][L]
        BY <1>2, <1>3, <2>2 DEF Under, Bottom
      <4>. QED BY <4>2, <4>3, <4>4
    <3>. QED BY <3>1, <3>2
  <2>7. \A i \in 1..m : cur[i] = paths[q][L] => i = L
    <3>1. q \in 1..(Len(body) + 1) /\ n + 1 \in 1..(Len(body) + 1)
      BY <1>1, <2>1
    <3>. QED BY <1>2, <1>3, <2>2, <2>3, <3>1, SameIndex
  <2>8. paths[q][L] # here
    <3>1. q \in 1..(Len(body) + 1) /\ L \in 1..L
      BY <1>1, <2>1, <2>2
    <3>2. CASE L = 1
      BY <1>1, <2>2, <3>1, <3>2, PathFacts
    <3>3. CASE L # 1
      <4>1. L \in 2..L
        BY <2>2, <3>3, AtLeastTwo
      <4>2. paths[q][L] \in 1..(q - 1)
        BY <2>2, <3>1, <4>1, PathFacts
      <4>. QED BY <1>1, <2>1, <4>2
    <3>. QED BY <3>2, <3>3
  <2>9. PICK k \in Nat : /\ k = Len(path)
                         /\ k = m \/ (k = m + 1 /\ path[k] = here) \/ k = m - 1
                         /\ \A i \in 1..m : i <= k => path[i] = cur[i]
    BY <1>3, GoesWhere
  <2>10. (\E i \in 1..k : path[i] = paths[q][L])
           <=> L <= k /\ \E i \in 1..m : cur[i] = paths[q][L]
    <3>1. ASSUME NEW i \in 1..k, path[i] = paths[q][L]
          PROVE  L <= k /\ \E j \in 1..m : cur[j] = paths[q][L]
      <4>1. i \in 1..m
        BY <2>8, <2>9, <3>1
      <4>2. cur[i] = paths[q][L]
        BY <2>9, <3>1, <4>1
      <4>. QED BY <2>7, <4>1, <4>2
    <3>2. ASSUME NEW i \in 1..m, cur[i] = paths[q][L], L <= k
          PROVE  \E j \in 1..k : path[j] = paths[q][L]
      <4>1. i = L /\ i \in 1..k
        BY <2>7, <3>2
      <4>. QED BY <2>9, <3>2, <4>1
    <3>. QED BY <3>1, <3>2
  <2>. QED BY <2>4, <2>5, <2>6, <2>9, <2>10
<1>6. p \in 1..(n + 1) \/ p = n + 2
  OBVIOUS
<1>. QED BY <1>4, <1>5, <1>6

LEMMA TableMembers ==
  ASSUME NEW f, NEW q
  PROVE  q \in (UNION {{f[s][x] : x \in Ids} : s \in Scope}) \ {0}
           <=> q # 0 /\ \E s \in Scope, x \in Ids : f[s][x] = q
<1>. DEFINE Row(s) == {f[s][x] : x \in Ids}
<1>1. \A s : q \in Row(s) <=> \E x \in Ids : f[s][x] = q
  OBVIOUS
<1>. HIDE DEF Row
<1>2. q \in UNION {Row(s) : s \in Scope} <=> \E s \in Scope : q \in Row(s)
  OBVIOUS
<1>3. q \in (UNION {Row(s) : s \in Scope}) \ {0}
        <=> q # 0 /\ \E s \in Scope, x \in Ids : f[s][x] = q
  BY <1>1, <1>2
<1>. QED BY <1>3 DEF Row

LEMMA EnteredIs ==
  ASSUME NEW q
  PROVE  q \in Entered <=> q # 0 /\ \E s \in Scope, x \in Ids : symbols[s][x] = q
BY TableMembers DEF Entered

LEMMA Enters ==
  ASSUME NamesInv, NEW b \in Scope, NEW x \in Ids, NEW h \in Scope, h # 0, symbols[b][x] = 0,
         symbols' = [symbols EXCEPT ![b][x] = h]
  PROVE  Entered' = Entered \cup {h}
<1>1. \A s \in Scope, y \in Ids : symbols'[s][y] = IF s = b /\ y = x THEN h ELSE symbols[s][y]
  BY DEF NamesInv, Types
<1>2. \A q : q \in Entered' <=> q # 0 /\ \E s \in Scope, y \in Ids : symbols'[s][y] = q
  BY TableMembers DEF Entered
<1>3. \A q : q \in Entered' <=> q \in Entered \/ q = h
  BY <1>1, <1>2, EnteredIs
<1>. QED BY <1>3

(* A symbol of x in a scope on the path is a declaration of x in a block   *)
(* that is open.                                                           *)
LEMMA ConflictIs ==
  ASSUME NamesInv, EnclosesInv, pass = "declare", NEW x \in Ids
  PROVE  (\E i \in 1..Len(cur) : symbols[cur[i]][x] # 0)
           <=> \E q \in Entered : Declares(q, x) /\ Encloses(q, here)
<1>1. PICK n \in Nat : n = Len(body) /\ here = n + 1 /\ cur = paths[here]
  BY AtText
<1>2. \A q \in 1..n : Encloses(q, here) <=> Under(q, here)
  <2>1. here \in 1..(Len(body) + 1) /\ here - 1 = n
    BY <1>1
  <2>. QED BY <2>1 DEF EnclosesInv
<1>3. ASSUME NEW i \in 1..Len(cur), symbols[cur[i]][x] # 0
      PROVE  \E q \in Entered : Declares(q, x) /\ Encloses(q, here)
  <2>1. cur[i] \in Scope
    BY <1>3 DEF NamesInv, Types
  <2>2. PICK q : q = symbols[cur[i]][x]
    OBVIOUS
  <2>3. IsSymbol(q, cur[i], x)
    BY <1>3, <2>1, <2>2 DEF NamesInv, SymbolsInv
  <2>4. Declares(q, x) /\ q \in 1..n /\ Under(q, here)
    BY <1>1, <2>3 DEF IsSymbol, Declares, Under
  <2>5. q \in Entered
    BY <1>3, <2>1, <2>2, EnteredIs
  <2>. QED BY <1>2, <2>4, <2>5
<1>4. ASSUME NEW q \in Entered, Declares(q, x), Encloses(q, here)
      PROVE  \E i \in 1..Len(cur) : symbols[cur[i]][x] # 0
  <2>1. PICK s \in Scope, y \in Ids : symbols[s][y] = q /\ q # 0
    BY EnteredIs
  <2>2. IsSymbol(q, s, y)
    BY <2>1 DEF NamesInv, SymbolsInv
  <2>3. x = y /\ s = Bottom(paths[q]) /\ q \in 1..n
    BY <1>1, <1>4, <2>2 DEF IsSymbol, Declares
  <2>4. Under(q, here)
    BY <1>2, <1>4, <2>3
  <2>. QED BY <1>1, <2>1, <2>3, <2>4 DEF Under
<1>. QED BY <1>3, <1>4

(* One more event, that enters its name exactly when it may.               *)
LEMMA ExactText ==
  ASSUME NamesInv, ExactInv, NEW e, NEW path, Read(e, path), Goes(path), NEW enters \in BOOLEAN,
         Entered' = Entered \cup (IF enters THEN {here} ELSE {}),
         \A x \in Ids : e.op \in {"param", "var"} /\ x \in e.name =>
           (enters <=> /\ ~\E q \in Entered : Declares(q, x) /\ Encloses(q, here)
                       /\ e.op = "var" => ~e.void /\ outer[x] # "class")
  PROVE  ExactInv'
<1>1. PICK n \in Nat : n = Len(body) /\ here = n + 1
  BY ReadFacts
<1>2. /\ Len(body') = n + 1 /\ body'[n + 1] = e /\ \A q \in 1..n : body'[q] = body[q]
      /\ \A p \in 1..(n + 1) : paths'[p] = paths[p]
      /\ outer' = outer
  BY <1>1, ReadFacts DEF Read
<1>3. DepthInv' /\ EnclosesInv'
  BY DepthStep, EnclosesStep DEF ExactInv
<1>4. \A q \in Entered : q \in 1..n
  <2>. SUFFICES ASSUME NEW q \in Entered PROVE q \in 1..n
    OBVIOUS
  <2>1. PICK s \in Scope, y \in Ids : symbols[s][y] = q /\ q # 0
    BY EnteredIs
  <2>. QED BY <1>1, <2>1 DEF NamesInv, SymbolsInv, IsSymbol
<1>5. \A q \in 1..n, x \in Ids : Declares(q, x)' <=> Declares(q, x)
  BY <1>2 DEF Declares
<1>6. \A p \in 1..(n + 1), q \in 1..n : Encloses(q, p)' <=> Encloses(q, p)
  <2>. SUFFICES ASSUME NEW p \in 1..(n + 1), NEW q \in 1..n PROVE Encloses(q, p)' <=> Encloses(q, p)
    OBVIOUS
  <2>1. \A r \in q..p : paths'[r] = paths[r]
    <3>1. \A r \in q..p : r \in 1..(n + 1)
      OBVIOUS
    <3>. QED BY <1>2, <3>1
  <2>2. q \in 1..(n + 1)
    OBVIOUS
  <2>. QED BY <1>2, <2>1, <2>2 DEF Encloses
<1>7. \A p \in 1..(n + 1) : ~Encloses(n + 1, p)'
  BY DEF Encloses
<1>. SUFFICES ASSUME NEW p \in 1..(n + 1), NEW x \in Ids, Declares(p, x)'
              PROVE  p \in Entered' <=>
                       /\ ~\E q \in Entered' : Declares(q, x)' /\ Encloses(q, p)'
                       /\ body'[p].op = "var" => ~body'[p].void /\ outer[x] # "class"
  <2>1. DOMAIN body' = 1..(n + 1)
    <3>1. body' = Append(body, e) /\ body \in Seq(Event \cup {e})
      BY DEF Read, NamesInv, Types, TextTypes
    <3>2. PICK E1 : E1 = Event \cup {e}
      OBVIOUS
    <3>3. body' \in Seq(E1)
      BY <3>1, <3>2
    <3>. QED BY <1>2, <3>3
  <2>. QED BY <1>2, <1>3, <2>1 DEF ExactInv, DeclaresExactly
<1>8. (\E q \in Entered' : Declares(q, x)' /\ Encloses(q, p)')
        <=> \E q \in Entered : Declares(q, x) /\ Encloses(q, p)
  BY <1>1, <1>4, <1>5, <1>6, <1>7
<1>9. CASE p \in 1..n
  <2>1. p \in Entered' <=> p \in Entered
    BY <1>1, <1>9
  <2>2. Declares(p, x) /\ p \in DOMAIN body /\ body'[p] = body[p]
    <3>1. body \in Seq(Event)
      BY DEF NamesInv, Types, TextTypes
    <3>. QED BY <1>1, <1>2, <1>5, <1>9, <3>1
  <2>. QED BY <1>8, <2>1, <2>2 DEF ExactInv, DeclaresExactly
<1>10. CASE p = n + 1
  <2>1. e.op \in {"param", "var"} /\ x \in e.name /\ body'[p] = e
    BY <1>2, <1>10 DEF Declares
  <2>2. p \in Entered' <=> enters
    BY <1>1, <1>4, <1>10
  <2>. QED BY <1>1, <1>8, <1>10, <2>1, <2>2
<1>11. p \in 1..n \/ p = n + 1
  OBVIOUS
<1>. QED BY <1>9, <1>10, <1>11

LEMMA ExactParameter ==
  ASSUME NamesInv, ExactInv, NEW x \in Ids, NEW void \in BOOLEAN, Parameter(x, void)
  PROVE  ExactInv'
<1>. DEFINE e == E("param", {x}, void, {})
            enters == symbols[0][x] = 0
<1>1. e.op = "param" /\ e.name = {x}
  BY DEF E
<1>2. Read(e, cur) /\ Len(cur) = 1 /\ pass = "declare" /\ Goes(cur)
  BY DEF Parameter, Read, Goes
<1>. HIDE DEF e
<1>3. PICK h \in Scope : h = here /\ h # 0
  BY <1>2, AtText, NamesAssumption DEF Read, Scope, Position
<1>4. cur[1] = 0 /\ 0 \in Scope
  BY <1>2, AtText DEF IsPath, Scope
<1>5. Entered' = Entered \cup (IF enters THEN {here} ELSE {})
  <2>1. CASE enters
    <3>1. symbols' = [symbols EXCEPT ![0][x] = h]
      BY <1>2, <1>3, <1>4, <2>1 DEF Parameter, Enter, Bottom
    <3>. QED BY <1>3, <1>4, <2>1, <3>1, Enters
  <2>2. CASE ~enters
    BY <2>2 DEF Parameter, Entered
  <2>. QED BY <2>1, <2>2
<1>6. enters <=> ~\E q \in Entered : Declares(q, x) /\ Encloses(q, here)
  <2>1. (\E i \in 1..Len(cur) : symbols[cur[i]][x] # 0) <=> symbols[0][x] # 0
    BY <1>2, <1>4
  <2>. QED BY <1>2, <2>1, ConflictIs DEF ExactInv
<1>. HIDE DEF enters
<1>7. enters \in BOOLEAN
  BY DEF enters
<1>. QED BY <1>1, <1>2, <1>5, <1>6, <1>7, ExactText

LEMMA ExactLocal ==
  ASSUME NamesInv, ExactInv, NEW x \in Ids, NEW void \in BOOLEAN, NEW init, LocalVar(x, void, init)
  PROVE  ExactInv'
<1>. DEFINE e == E("var", {x}, void, init)
            enters == ~(Conflicts(x) \/ void)
<1>1. e.op = "var" /\ e.name = {x} /\ e.void = void
  BY DEF E
<1>2. Read(e, cur) /\ Len(cur) > 1 /\ pass = "declare" /\ Goes(cur)
  BY DEF LocalVar, Read, Goes
<1>. HIDE DEF e
<1>3. PICK h \in Scope : h = here /\ h # 0
  BY <1>2, AtText, NamesAssumption DEF Read, Scope, Position
<1>4. /\ cur \in Seq(Scope) /\ Len(cur) \in 1..Len(cur) /\ Bottom(cur) \in Scope
      /\ Len(cur) \in Nat /\ DOMAIN cur = 1..Len(cur)
  BY <1>2, AtText DEF Bottom
<1>5. Lookup(x) = 0 <=> \A i \in 1..Len(cur) : symbols[cur[i]][x] = 0
  <2>. DEFINE T == {i \in DOMAIN cur : symbols[cur[i]][x] # 0}
  <2>1. Lookup(x) = (IF T = {} THEN 0 ELSE symbols[cur[Max(T)]][x])
    BY DEF Lookup, Nearest
  <2>2. T = {} <=> \A i \in 1..Len(cur) : symbols[cur[i]][x] = 0
    BY <1>4
  <2>. HIDE DEF T
  <2>. QED BY <2>1, <2>2, LookupNothing
<1>6. enters => symbols[Bottom(cur)][x] = 0
  BY <1>4, <1>5 DEF Conflicts, Bottom
<1>7. Entered' = Entered \cup (IF enters THEN {here} ELSE {})
  <2>1. CASE enters
    <3>1. symbols' = [symbols EXCEPT ![Bottom(cur)][x] = h]
      BY <1>3, <2>1 DEF LocalVar, Enter
    <3>. QED BY <1>3, <1>4, <1>6, <2>1, <3>1, Enters
  <2>2. CASE ~enters
    <3>1. symbols' = symbols
      BY <2>2 DEF LocalVar
    <3>. QED BY <2>2, <3>1 DEF Entered
  <2>. QED BY <2>1, <2>2
<1>8. enters <=> /\ ~\E q \in Entered : Declares(q, x) /\ Encloses(q, here)
                 /\ ~void /\ outer[x] # "class"
  BY <1>2, <1>5, ConflictIs DEF ExactInv, Conflicts
<1>9. enters \in BOOLEAN
  BY DEF enters
<1>. HIDE DEF enters
<1>. QED BY <1>1, <1>2, <1>7, <1>8, <1>9, ExactText

LEMMA ExactStep == NamesInv /\ ExactInv /\ [Next]_vars => ExactInv'
<1>. SUFFICES ASSUME NamesInv, ExactInv, [Next]_vars PROVE ExactInv'
  OBVIOUS
<1>1. ASSUME NEW x \in Ids, NEW void \in BOOLEAN, Parameter(x, void) PROVE ExactInv'
  BY <1>1, ExactParameter
<1>2. ASSUME NEW x \in Ids, NEW void \in BOOLEAN, NEW init, LocalVar(x, void, init) PROVE ExactInv'
  BY <1>2, ExactLocal
<1>3. CASE OpenBlock \/ CloseBlock \/ \E x \in Ids : UseOf(x)
  <2>1. \A op \in {"open", "close", "use"} : \A uses : E(op, {}, FALSE, uses).op \notin {"param", "var"}
    BY DEF E
  <2>2. PICK e, path : Read(e, path) /\ Goes(path) /\ e.op \notin {"param", "var"} /\ symbols' = symbols
    BY <1>3, <2>1 DEF OpenBlock, CloseBlock, UseOf, Goes
  <2>3. Entered' = Entered \cup (IF FALSE THEN {here} ELSE {})
    BY <2>2 DEF Entered
  <2>. QED BY <2>2, <2>3, ExactText
<1>4. CASE UNCHANGED <<outer, body, paths, symbols>>
  <2>1. DepthInv' /\ EnclosesInv'
    BY <1>4 DEF ExactInv, DepthInv, EnclosesInv, Encloses, Under, Bottom
  <2>2. DeclaresExactly'
    <3>1. Entered' = Entered
      BY <1>4 DEF Entered
    <3>2. \A p, x : Declares(p, x)' <=> Declares(p, x)
      BY <1>4 DEF Declares
    <3>3. \A p, q : Encloses(q, p)' <=> Encloses(q, p)
      BY <1>4 DEF Encloses
    <3>. QED BY <1>4, <3>1, <3>2, <3>3 DEF ExactInv, DeclaresExactly
  <2>. QED BY <2>1, <2>2 DEF ExactInv
<1>5. CASE CheckBlock \/ CheckUses \/ EndCheck \/ GenerateBlock \/ GenerateUse \/ GenerateVar
            \/ LoadNull \/ EndGenerate \/ UNCHANGED vars
  BY <1>4, <1>5 DEF CheckBlock, CheckUses, EndCheck, GenerateBlock, GenerateUse, GenerateVar,
                    LoadNull, EndGenerate, Follow, Visit, vars
<1>. QED BY <1>1, <1>2, <1>3, <1>5 DEF Next

(* For bodies of any length and any nesting of blocks, a declaration is    *)
(* entered exactly when block structure allows it (FormalScope::declare,   *)
(* LocalScope::declare).                                                   *)
THEOREM DeclarationsFollowBlocks == Spec => []DeclaresExactly
<1>1. Init => ExactInv
  <2>. SUFFICES ASSUME Init PROVE ExactInv
    OBVIOUS
  <2>1. body = <<>> /\ Len(body) = 0 /\ paths = <<<<0>>>>
    BY DEF Init
  <2>2. \A p \in 1..(Len(body) + 1) : p = 1
    BY <2>1
  <2>. QED BY <2>1, <2>2 DEF ExactInv, DepthInv, EnclosesInv, DeclaresExactly
<1>2. NamesInv /\ ExactInv /\ [Next]_vars => NamesInv' /\ ExactInv'
  BY NextInv, ExactStep
<1>3. ExactInv => DeclaresExactly
  BY DEF ExactInv
<1>. QED BY <1>1, <1>2, <1>3, InitInv, PTL DEF Spec
=============================================================================
