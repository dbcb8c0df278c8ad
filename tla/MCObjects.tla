----------------------------- MODULE MCObjects -----------------------------
(* Small instances of Objects.  There are members only for one order of    *)
(* the classes, with every forest in which bases stand first: the names of *)
(* the classes do not matter beyond.  Nor do those of fields and the two   *)
(* types, so the first field of a program is "i32 x".  At the bound, the   *)
(* classes are a chain, the one in the middle has all the members and, but *)
(* for those of the class below it, all the objects; and there is no       *)
(* instanceof or cast.                                                     *)
EXTENDS Objects

CONSTANT x

FirstOrder == CHOOSE r \in SourceOrders : TRUE

FirstFieldIsX ==
  \A k \in DOMAIN order :
    (\A j \in 1..(k - 1) : Contents(order[j]) = <<>>) /\ Contents(order[k]) # <<>> =>
      Contents(order[k])[1] = [kind |-> "i32", name |-> x]

Small ==
  \A c \in Name : members[c] # <<>> =>
    /\ order = FirstOrder /\ BaseFirst(base, order)
    /\ FirstFieldIsX
    /\ Size = MaxSize =>
         /\ above[c] # {} /\ \E d \in Name : base[d] = c
         /\ walk = <<>>
         /\ \A i \in DOMAIN objs : IsA(vptr(i), c)
=============================================================================
