----------------------------- MODULE TypedEval ------------------------------
(***************************************************************************)
(* The runs of a script that the type checker has accepted.  A step runs   *)
(* one more node, whose parameters are nodes run before; subgraphs are run *)
(* in line, their boundaries being nodes of their own (Call).  live holds  *)
(* the typed values that later nodes still use.                            *)
(***************************************************************************)
EXTENDS NodeEval

CONSTANTS Idents,         \* the identifiers of the script
          DeclaredTypes,  \* the types it names: of lists, parameters, subgraphs
          Inputs,         \* the serialized values callers pass
          MaxLive,        \* bound on the values still in use
          MaxList,        \* bound on the length of lists
          MaxMap          \* bound on the size of maps

VARIABLES ground, \* the values of the nodes without parameters
          live,  \* set of [ty, val]
          puts,  \* the rows the last node wrote
          end    \* "ok", or why the last query has ended

vars == <<ground, live, puts, end>>

Typed(ty, val) == [ty |-> ty, val |-> val]

\* LoadConst.  The type of a constant is taken from its value.
Consts ==
  {Typed(FromValue(v), v) :
     v \in AnyBool \cup {Primitive("int"), Primitive("string")}
           \cup UNION {from_const(FreshSet(VmTable(name), {})) : name \in DOMAIN Schema.types}}
  \cup {Typed(ty, Null) : ty \in DeclaredTypes}

\* LoadParam of an exported graph: the root, and what a caller passes.
Params ==
  {Typed(FromSchema, Map([e \in DOMAIN Schema.exports |-> Resident(FromSchema.map[e])]))} \cup
  UNION {{Typed(ty, v) : v \in UNION {decode(s, ty) : s \in Inputs}} : ty \in DeclaredTypes}

\* CreateMap and CreateList.
Created == {Typed(VmMap([k \in {} |-> k]), Map([k \in {} |-> k]))} \cup
           {Typed(VmList(ty), List(ty, <<>>)) : ty \in DeclaredTypes}

\* The nodes without parameters, which can be run again at any time, and the
\* exports of the root.
Ground == Consts \cup Params \cup Created
          \cup {Typed(FromSchema.map[e], Resident(FromSchema.map[e])) : e \in DOMAIN Schema.exports}

Init == ground = Ground /\ live = {} /\ puts = {} /\ end = "ok"

Op(op) == [op |-> op]
Keyed(op, keys) == {[op |-> op, key |-> k] : k \in keys}
TypedOp(op) == {[op |-> op, ty |-> ty] : ty \in DeclaredTypes}

BuildNodes == {Op("BuildSet")} \cup Keyed("BuildTable", DOMAIN Schema.types)
AccessNodes == {Op(x) : x \in {"DeleteFromSet", "GetSetElement", "FilterSet"}}
               \cup Keyed("DeleteFromMap", Idents) \cup Keyed("GetField", Idents)
InsertNodes == {Op("InsertIntoSet")} \cup Keyed("InsertIntoMap", Idents) \cup Keyed("InsertIntoTable", Idents)
LogicNodes == {Op(x) : x \in LogicOps}
ArithmeticNodes == {Op("Add"), Op("Sub")}
ListNodes == {Op(x) : x \in {"PrependToList", "PopFromList", "ListHead"}}
CallNodes == TypedOp("Call") \cup {Op("Throw")}
ReduceNodes == {[op |-> "Reduce", ty |-> ty, range |-> r] : ty \in DeclaredTypes, r \in BOOLEAN}

Unary == {"BuildSet", "BuildTable", "FilterSet", "DeleteFromMap", "GetField", "Not", "IsPresent",
          "IsNull", "Nop", "PopFromList", "ListHead", "Call", "Throw"}

\* Maps hold no maps and no lists.
Nested(x) == \E kind \in {"map", "list", "elements", "nodes"} : Is(x, kind)
Flat(f) == Cardinality(DOMAIN f) <= MaxMap /\ \A k \in DOMAIN f : ~Nested(f[k])
Bounded(ty, v) ==
  /\ Is(ty, "map") => Flat(ty.map)
  /\ Is(v, "elements") => Flat(v.elements)
  /\ Is(v, "nodes") => Len(v.nodes) <= MaxList

\* The new value takes the place of one no longer used, if need be.
Keep(x) == \/ /\ Cardinality(live \cup {x}) <= MaxLive
              /\ live' = live \cup {x}
           \/ \E y \in live : live' = (live \ {y}) \cup {x}

\* A node is run if the checker accepts it.  After an error nothing of the run
\* is left.
Run(n, xs) ==
  LET t == [i \in DOMAIN xs |-> xs[i].ty]
      a == [i \in DOMAIN xs |-> xs[i].val]
  IN /\ end = "ok"
     /\ live # {} => \E i \in DOMAIN xs : xs[i] \in live
     /\ \E ret \in NodeType(n, t) : \E o \in run_node(n, a, t, ret) :
          /\ o.ret # <<>> => Bounded(ret[1], o.ret[1])
          /\ puts' = o.puts
          /\ UNCHANGED ground
          /\ end' = IF o.end = "error" THEN "ok" ELSE o.end
          /\ IF o.end # "ok" THEN live' = {}
             ELSE IF o.ret = <<>> THEN UNCHANGED live
             ELSE Keep(Typed(ret[1], o.ret[1]))

Operands == live \cup ground
RunAny(nodes) == \E n \in nodes, x \in Operands :
                   IF n.op \in Unary THEN Run(n, <<x>>) ELSE \E y \in Operands : Run(n, <<x, y>>)

Build == RunAny(BuildNodes)
Access == RunAny(AccessNodes)
Insert == RunAny(InsertNodes)
Logic == RunAny(LogicNodes)
Arithmetic == RunAny(ArithmeticNodes)
Lists == RunAny(ListNodes)
Call == RunAny(CallNodes)

KeyTypes(ty) == {FieldTypeOf(ty.set.table, f) : f \in set_primary_key(ty)}

\* Parameters that the checker refuses whatever the others are, are left out.
Reduce ==
  \E n \in ReduceNodes :
    \E init \in {x \in Operands : is_covariant_from(x.ty, n.ty)},
       coll \in {x \in Operands : Is(x.ty, "list") \/ Is(x.ty, "set")},
       last \in {x \in Operands : is_covariant_from(n.ty, x.ty)} :
      IF n.range THEN \E key \in {x \in Operands : {x.ty} = KeyTypes(coll.ty)} : Run(n, <<init, coll, last, key>>)
      ELSE Run(n, <<init, coll, last>>)

\* A panic ends the request; the server goes on.
NextQuery == end # "ok" /\ end' = "ok" /\ UNCHANGED <<ground, live, puts>>

Next == Build \/ Access \/ Insert \/ Logic \/ Arithmetic \/ Lists \/ Call \/ Reduce \/ NextQuery

Spec == Init /\ [][Next]_vars

-----------------------------------------------------------------------------
\* What the checker says of a node is true of its value, and what is stored in
\* a field is of the field's type.
TypeSound == /\ \A x \in live : HasType(x.val, x.ty)
             /\ \A r \in puts : Schema.types[r[1]][r[2]].ty = Prim(get_type(r[3]))

\* The places where the checker does not see what run_node relies on: that a
\* subgraph has an output does not say that the output node fires.  No other
\* unreachable!(), unwrap(), expect() or panic!() of run_node is reached.
KnownGaps == {"no primary key", "null member", "null primary key", "wide map",
              "narrow initial value", "double read as int64",
              "call without output", "reduce without output"}
PanicsExplained == end \in {"ok"} \cup KnownGaps

\* On both routes of the server a result that can be serialized is read back
\* as it was, as far as its type tells; but for the doubles that are sent as
\* text, which decode takes for the text of their bits.
ResultsReadBack ==
  \A x \in live, config \in Configs :
    LET seen == Seen(x.val, x.ty)
    IN Serializable(x.val) =>
         (decode(encode(x.val, config), x.ty) = {seen} <=> config.double \/ ~HoldsDouble(seen))
=============================================================================
