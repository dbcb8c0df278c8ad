----------------------------- MODULE ObjectStore -----------------------------
(***************************************************************************)
(* What objects promise, without memory: an object has the class it was    *)
(* created with and one value per field of that class, zero at first.      *)
(* Reading gives what was last written to the same field of the same       *)
(* object; instanceof and casts ask the hierarchy about the object's class;*)
(* a call through the object runs the most derived method.  "seen" is what *)
(* the program can tell from the last operation.                           *)
(***************************************************************************)
EXTENDS Hierarchy, Sequences

CONSTANTS Field, Method, Value

VARIABLES
  above,     \* for each class, those it derives from, directly or not
  attrs,     \* the fields that each class declares
  defs,      \* the methods that each class declares
  running,   \* the program has been linked and started
  objs,      \* the objects, by order of creation
  seen       \* the last operation and its result

program == <<above, attrs, defs>>
vars == <<above, attrs, defs, running, objs, seen>>

IsA(c, a) == c = a \/ a \in above[c]

Init ==
  /\ \E b \in BaseMap : Acyclic(b) /\ above = [c \in Name |-> Ancestors(b, c)]
  /\ attrs = [c \in Name |-> {}]
  /\ defs = [c \in Name |-> {}]
  /\ running = FALSE
  /\ objs = <<>>
  /\ seen = <<>>

Start ==
  /\ ~running /\ running'
  /\ attrs' \in [Name -> SUBSET Field]
  /\ defs' \in [Name -> SUBSET Method]
  /\ UNCHANGED <<above, objs, seen>>

MostDerivedDef(c, m, d) ==
  /\ IsA(c, d) /\ m \in defs[d]
  /\ \A a \in Name : IsA(c, a) /\ m \in defs[a] => IsA(d, a)

Attributes(c) == UNION {attrs[a] : a \in {x \in Name : IsA(c, x)}}

Operate(result) ==
  /\ seen' = result
  /\ running
  /\ UNCHANGED <<program, running>>

New(c) ==
  /\ Operate(<<"new", Len(objs) + 1>>)
  /\ objs' = Append(objs, [cls |-> c, value |-> [x \in Attributes(c) |-> 0]])

Write(i, x, v) ==
  /\ Operate(<<"write", i, x>>)
  /\ x \in Attributes(objs[i].cls)
  /\ objs' = [objs EXCEPT ![i].value[x] = v]

Read(i, x) ==
  /\ x \in Attributes(objs[i].cls)
  /\ Operate(<<"read", i, x, objs[i].value[x]>>)
  /\ UNCHANGED objs

InstanceOf(i, c, op) ==
  /\ Operate(<<op, i, c, IsA(objs[i].cls, c)>>)
  /\ UNCHANGED objs

Call(i, m, d) ==
  /\ Operate(<<"call", i, m, d>>)
  /\ MostDerivedDef(objs[i].cls, m, d)
  /\ UNCHANGED objs

CallStatic(c, m, d) ==
  /\ Operate(<<"static", c, m, d>>)
  /\ MostDerivedDef(c, m, d)
  /\ UNCHANGED objs

Proceed == Operate(<<>>) /\ UNCHANGED objs

Next ==
  \/ Start
  \/ Proceed
  \/ \E c \in Name : New(c)
  \/ \E i \in DOMAIN objs, x \in Field :
       Read(i, x) \/ \E v \in Value : Write(i, x, v)
  \/ \E i \in DOMAIN objs, c \in Name, op \in {"instanceof", "cast"} : InstanceOf(i, c, op)
  \/ \E m \in Method, d \in Name :
       (\E i \in DOMAIN objs : Call(i, m, d)) \/ (\E c \in Name : CallStatic(c, m, d))

Spec == Init /\ [][Next]_vars
=============================================================================
