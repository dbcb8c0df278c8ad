-------------------------- MODULE HierarchyProofs --------------------------
(* What the set-based notions of Hierarchy have to do with one step up the  *)
(* chain of bases, for every map and every set of names.                    *)
EXTENDS Hierarchy, WellFoundedInduction, TLAPS

(* The ancestors of a class are its base and the ancestors of its base.    *)
LEMMA AncestorStep ==
  ASSUME NEW b \in BaseMap, NEW c \in Name, NEW a \in Name
  PROVE  a \in Ancestors(b, c) <=>
           b[c] \in Name /\ (a = b[c] \/ a \in Ancestors(b, b[c]))
<1>1. ASSUME a \in Ancestors(b, c) PROVE b[c] \in Name
  <2>. SUFFICES ASSUME b[c] \notin Name PROVE FALSE
    OBVIOUS
  <2>1. a \in {}
    BY <1>1 DEF Ancestors, UpwardClosed
  <2>. QED BY <2>1
<1>2. ASSUME b[c] \in Name, a \in Ancestors(b, c), a # b[c] PROVE a \in Ancestors(b, b[c])
  <2>. SUFFICES ASSUME NEW T \in SUBSET Name,
                       b[b[c]] \in Name => b[b[c]] \in T, UpwardClosed(b, T)
                PROVE  a \in T
    BY DEF Ancestors
  <2>1. UpwardClosed(b, T \cup {b[c]}) /\ T \cup {b[c]} \in SUBSET Name
    BY <1>2 DEF UpwardClosed
  <2>2. a \in T \cup {b[c]}
    BY <1>2, <2>1 DEF Ancestors
  <2>. QED BY <1>2, <2>2
<1>3. ASSUME b[c] \in Name, a = b[c] PROVE a \in Ancestors(b, c)
  BY <1>3 DEF Ancestors
<1>4. ASSUME b[c] \in Name, a \in Ancestors(b, b[c]) PROVE a \in Ancestors(b, c)
  BY <1>4 DEF Ancestors, UpwardClosed
<1>. QED BY <1>1, <1>2, <1>3, <1>4

(* A proper subclass of a is a subclass of a through its base.             *)
LEMMA SubclassStep ==
  ASSUME NEW b \in BaseMap, NEW c \in Name, NEW a \in Name, c # a
  PROVE  IsSubclass(b, c, a) <=> b[c] \in Name /\ IsSubclass(b, b[c], a)
  BY AncestorStep DEF IsSubclass

LEMMA SubclassOfBase ==
  ASSUME NEW b \in BaseMap, NEW c \in Name, NEW a \in Name,
         b[c] \in Name, IsSubclass(b, b[c], a)
  PROVE  IsSubclass(b, c, a)
  BY AncestorStep DEF IsSubclass

(* An ancestor of an ancestor is one, and in a forest never the class.     *)
LEMMA AncestorOfAncestor ==
  ASSUME NEW b \in BaseMap, NEW c \in Name, NEW d \in Ancestors(b, c), NEW a \in Ancestors(b, d)
  PROVE  a \in Ancestors(b, c)
<1>1. d \in Name /\ a \in Name
  BY DEF Ancestors
<1>2. SUFFICES ASSUME NEW T \in SUBSET Name, b[c] \in Name => b[c] \in T, UpwardClosed(b, T)
               PROVE  a \in T
  BY <1>1 DEF Ancestors
<1>3. d \in T
  BY <1>2 DEF Ancestors
<1>4. b[d] \in Name => b[d] \in T
  BY <1>2, <1>3 DEF UpwardClosed
<1>. QED BY <1>2, <1>4 DEF Ancestors

LEMMA SubclassTransitive ==
  ASSUME NEW b \in BaseMap, NEW c \in Name, NEW d \in Name, NEW a \in Name,
         IsSubclass(b, c, d), IsSubclass(b, d, a)
  PROVE  IsSubclass(b, c, a)
  BY AncestorOfAncestor DEF IsSubclass

(* The ancestors of a class are a chain.                                   *)
LEMMA AncestorsInLine ==
  ASSUME NEW b \in BaseMap, NEW c \in Name, NEW d \in Name, NEW e \in Name,
         IsSubclass(b, c, d), IsSubclass(b, c, e)
  PROVE  IsSubclass(b, d, e) \/ IsSubclass(b, e, d)
<1>. DEFINE T == {a \in Name : IsSubclass(b, d, a) \/ IsSubclass(b, a, d)}
<1>1. ASSUME NEW a \in T, b[a] \in Name PROVE b[a] \in T
  <2>1. CASE a = d
    BY <1>1, <2>1, AncestorStep DEF IsSubclass
  <2>2. CASE a # d /\ IsSubclass(b, d, a)
    <3>1. b[a] \in Ancestors(b, a)
      BY <1>1, AncestorStep
    <3>. QED BY <1>1, <2>2, <3>1, SubclassTransitive DEF IsSubclass
  <2>3. CASE a # d /\ IsSubclass(b, a, d)
    BY <1>1, <2>3, SubclassStep
  <2>. QED BY <2>1, <2>2, <2>3
<1>2. c \in T /\ T \in SUBSET Name
  OBVIOUS
<1>. HIDE DEF T
<1>3. UpwardClosed(b, T) /\ (b[c] \in Name => b[c] \in T)
  BY <1>1, <1>2 DEF UpwardClosed
<1>4. e \in T
  BY <1>2, <1>3 DEF IsSubclass, Ancestors
<1>. QED BY <1>4 DEF T

LEMMA NotOwnAncestor ==
  ASSUME NEW b \in BaseMap, Acyclic(b), NEW c \in Name
  PROVE  c \notin Ancestors(b, c)
<1>. SUFFICES ASSUME c \in Ancestors(b, c) PROVE FALSE
  OBVIOUS
<1>. DEFINE S == {x \in Name : x \in Ancestors(b, c) /\ c \in Ancestors(b, x)}
<1>1. ASSUME NEW x \in S PROVE b[x] \in S
  <2>1. b[x] \in Name /\ (c = b[x] \/ c \in Ancestors(b, b[x]))
    BY AncestorStep
  <2>2. b[x] \in Ancestors(b, x)
    BY <2>1, AncestorStep
  <2>3. b[x] \in Ancestors(b, c)
    BY <2>2, AncestorOfAncestor
  <2>. QED BY <2>1, <2>3
<1>2. c \in S /\ S \in SUBSET Name
  OBVIOUS
<1>. QED BY <1>1, <1>2 DEF Acyclic, Closed

(* Among the classes of D that c is or extends, there is a nearest one:    *)
(* otherwise none of them could ever be met on the way up.                 *)
LEMMA NearestExists ==
  ASSUME NEW b \in BaseMap, NEW c \in Name, NEW D \in SUBSET Name,
         NEW e \in D, IsSubclass(b, c, e)
  PROVE  \E d \in D : /\ IsSubclass(b, c, d)
                      /\ \A a \in D : IsSubclass(b, c, a) => IsSubclass(b, d, a)
<1>. DEFINE Nearer(d) == \A a \in D : IsSubclass(b, c, a) => IsSubclass(b, d, a)
            T == {x \in Name : IsSubclass(b, c, x) /\ Nearer(x)}
<1>. SUFFICES ASSUME \A d \in D : ~(IsSubclass(b, c, d) /\ Nearer(d)) PROVE FALSE
  OBVIOUS
<1>1. c \in T
  BY DEF IsSubclass
<1>2. ASSUME NEW x \in T, b[x] \in Name PROVE b[x] \in T
  <2>1. x \notin D
    OBVIOUS
  <2>2. b[x] \in Ancestors(b, x)
    BY <1>2, AncestorStep
  <2>3. IsSubclass(b, c, b[x])
    BY <1>2, <2>2, SubclassTransitive DEF IsSubclass
  <2>4. ASSUME NEW a \in D, IsSubclass(b, c, a) PROVE IsSubclass(b, b[x], a)
    BY <1>2, <2>1, <2>4, SubclassStep
  <2>. QED BY <1>2, <2>3, <2>4
<1>3. UpwardClosed(b, T) /\ T \in SUBSET Name
  BY <1>2 DEF UpwardClosed
<1>4. e = c \/ e \in Ancestors(b, c)
  BY DEF IsSubclass
<1>5. e \in T
  <2>1. b[c] \in Name => b[c] \in T
    BY <1>1, <1>2
  <2>. QED BY <1>1, <1>3, <1>4, <2>1 DEF Ancestors
<1>. QED BY <1>5

(* An inherited definition stays the most derived one if the class does    *)
(* not define the method itself; its own definition always is.             *)
LEMMA InheritDefinition ==
  ASSUME NEW b \in BaseMap, NEW D, NEW c \in Name, NEW m, NEW d \in Name,
         b[c] \in Name, m \notin D[c], MostDerived(b, D, b[c], m, d)
  PROVE  MostDerived(b, D, c, m, d)
<1>1. IsSubclass(b, c, d) /\ m \in D[d]
  BY SubclassOfBase DEF MostDerived
<1>2. ASSUME NEW a \in Name, IsSubclass(b, c, a), m \in D[a] PROVE IsSubclass(b, d, a)
  BY <1>2, SubclassStep DEF MostDerived
<1>. QED BY <1>1, <1>2 DEF MostDerived

LEMMA OwnDefinition ==
  ASSUME NEW b \in BaseMap, NEW D, NEW c \in Name, NEW m \in D[c]
  PROVE  MostDerived(b, D, c, m, c)
  BY DEF MostDerived, IsSubclass

(* There is at most one most derived definition.                           *)
LEMMA MostDerivedUnique ==
  ASSUME NEW b \in BaseMap, Acyclic(b), NEW D, NEW c \in Name, NEW m,
         NEW d \in Name, NEW e \in Name,
         MostDerived(b, D, c, m, d), MostDerived(b, D, c, m, e)
  PROVE  d = e
<1>1. IsSubclass(b, d, e) /\ IsSubclass(b, e, d)
  BY DEF MostDerived
<1>2. ASSUME d # e PROVE d \in Ancestors(b, d)
  BY <1>1, <1>2, AncestorOfAncestor DEF IsSubclass
<1>. QED BY <1>2, NotOwnAncestor

(* What a class understands is what it defines and what its base does.     *)
LEMMA UnderstoodStep ==
  ASSUME NEW b \in BaseMap, NEW D, NEW c \in Name
  PROVE  Understood(b, D, c) =
           D[c] \cup IF b[c] \in Name THEN Understood(b, D, b[c]) ELSE {}
<1>1. ASSUME NEW m \in Understood(b, D, c)
      PROVE  m \in D[c] \/ (b[c] \in Name /\ m \in Understood(b, D, b[c]))
  <2>1. PICK a \in Name : IsSubclass(b, c, a) /\ m \in D[a]
    BY <1>1 DEF Understood
  <2>2. a # c => b[c] \in Name /\ IsSubclass(b, b[c], a)
    BY <2>1, SubclassStep
  <2>. QED BY <2>1, <2>2 DEF Understood
<1>2. ASSUME NEW m \in D[c] PROVE m \in Understood(b, D, c)
  BY <1>2 DEF Understood, IsSubclass
<1>3. ASSUME b[c] \in Name, NEW m \in Understood(b, D, b[c]) PROVE m \in Understood(b, D, c)
  BY <1>3, SubclassOfBase DEF Understood
<1>. QED BY <1>1, <1>2, <1>3

-----------------------------------------------------------------------------
(* Induction, and functions defined by recursion.                          *)

(* What holds of 0 and goes on to the next number holds up to n.           *)
LEMMA UpTo ==
  ASSUME NEW n \in Nat, NEW S, 0 \in S, \A i \in 0..(n - 1) : i \in S => i + 1 \in S
  PROVE  \A i \in 0..n : i \in S
<1>. DEFINE T == {i \in 0..n : i \notin S}
            R == OpToRel(<, Nat)
<1>. SUFFICES ASSUME T # {} PROVE FALSE
  OBVIOUS
<1>1. T \subseteq Nat
  OBVIOUS
<1>2. PICK m \in T : \A y \in T : ~ (<<y, m>> \in R)
  <2>. HIDE DEF T, R
  <2>1. IsWellFoundedOn(R, Nat)
    BY NatLessThanWellFounded DEF R
  <2>. QED BY <1>1, <2>1, WFMin
<1>3. \A y \in T : ~(y < m)
  <2>. HIDE DEF T
  <2>. QED BY <1>1, <1>2 DEF OpToRel
<1>4. m \in 1..n /\ m - 1 \in 0..(n - 1)
  OBVIOUS
<1>5. m - 1 \notin T
  BY <1>3, <1>4
<1>. QED BY <1>4, <1>5

(* A row of functions, applied one after the other.                        *)
Applied(X, a, F, f, k) ==
  f \in [0..k -> X] /\ f[0] = a /\ \A i \in 1..k : f[i] = F[i][f[i - 1]]

LEMMA Iterated ==
  ASSUME NEW n \in Nat, NEW X, NEW a \in X, NEW F \in [1..n -> [X -> X]]
  PROVE  \E f : Applied(X, a, F, f, n)
<1>. DEFINE S == {k \in 0..n : \E f : Applied(X, a, F, f, k)}
<1>1. 0 \in S
  <2>1. Applied(X, a, F, [i \in 0..0 |-> a], 0)
    BY DEF Applied
  <2>. QED BY <2>1
<1>2. ASSUME NEW k \in 0..(n - 1), k \in S PROVE k + 1 \in S
  <2>1. PICK f : Applied(X, a, F, f, k)
    BY <1>2
  <2>. DEFINE g == [i \in 0..(k + 1) |-> IF i <= k THEN f[i] ELSE F[i][f[k]]]
  <2>2. \A i \in 0..k : f[i] \in X /\ g[i] = f[i]
    BY <2>1 DEF Applied
  <2>3. k + 1 \in 1..n /\ k \in 0..k /\ g[k + 1] = F[k + 1][f[k]]
    OBVIOUS
  <2>4. g[k + 1] \in X
    <3>1. f[k] \in X /\ F[k + 1] \in [X -> X]
      BY <2>2, <2>3
    <3>. QED BY <2>3, <3>1
  <2>5. g \in [0..(k + 1) -> X]
    BY <2>2, <2>4
  <2>6. g[0] = a
    BY <2>1, <2>2 DEF Applied
  <2>. HIDE DEF g
  <2>7. \A i \in 1..(k + 1) : g[i] = F[i][g[i - 1]]
    BY <2>1, <2>2, <2>3 DEF Applied
  <2>. QED BY <2>3, <2>5, <2>6, <2>7 DEF Applied
<1>3. n \in S
  <2>1. \A i \in 0..n : i \in S
    <3>. HIDE DEF S
    <3>. QED BY <1>1, <1>2, UpTo
  <2>. QED BY <2>1
<1>. QED BY <1>3
=============================================================================
