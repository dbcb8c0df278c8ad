------------------------------- MODULE Blocks -------------------------------
(***************************************************************************)
(* What names in a method mean, abstractly: block structure, read once    *)
(* from the left.  The environment is a stack of blocks, the parameters at *)
(* the bottom; a use means the declaration in the innermost block that has *)
(* one so far, or something outside the method (0).  A name is declared    *)
(* once among the blocks that are open.                                    *)
(***************************************************************************)
EXTENDS Integers, Sequences, FiniteSetsExt

CONSTANTS
  Names,
  Places    \* what tells declarations apart

VARIABLES
  env,    \* for each open block, the declaration of each name, 0 if none
  refs    \* the meanings of the names used, one function per event

None == [x \in Names |-> 0]

Holders(e, x) == {i \in DOMAIN e : e[i][x] # 0}
Meaning(e, x) ==
  IF Holders(e, x) = {} THEN 0 ELSE e[Max(Holders(e, x))][x]

Uses(e, xs) == refs' = Append(refs, [x \in xs |-> Meaning(e, x)])

Init ==
  /\ env = <<None>>
  /\ refs = <<>>

Parameter(x, p) ==
  /\ Len(env) = 1 /\ refs = <<>> /\ env[1][x] = 0
  /\ env' = [env EXCEPT ![1][x] = p]
  /\ UNCHANGED refs

Enter ==
  /\ env' = Append(env, None)
  /\ UNCHANGED refs

Leave ==
  /\ Len(env) > 1
  /\ env' = SubSeq(env, 1, Len(env) - 1)
  /\ UNCHANGED refs

(* The names used are those of the initialiser.                            *)
Declare(x, p, xs) ==
  /\ Holders(env, x) = {}
  /\ env' = [env EXCEPT ![Len(env)][x] = p]
  /\ Uses(env', xs)

Use(xs) ==
  /\ Uses(env, xs)
  /\ UNCHANGED env

Next ==
  \/ \E x \in Names, p \in Places : Parameter(x, p)
  \/ Enter
  \/ Leave
  \/ \E x \in Names, p \in Places, xs \in SUBSET Names : Declare(x, p, xs)
  \/ \E xs \in SUBSET Names : Use(xs)

Spec == Init /\ [][Next]_<<env, refs>>
=============================================================================
