----------------------------- MODULE NodeTypes ------------------------------
(***************************************************************************)
(* The rules of the type checker, node by node (typeck_graph of            *)
(* rdb-analyzer/src/data/treewalker/typeck.rs).  t holds the types of the  *)
(* parameters.  A rule gives the set of outcomes: none when the node is    *)
(* refused, <<>> for an effect, <<ty>> for a node of type ty.              *)
(***************************************************************************)
EXTENDS VmValues

Accept(rule, ty) == IF rule THEN {<<ty>>} ELSE {}
AcceptEffect(rule) == IF rule THEN {<<>>} ELSE {}

IsTable(ty) == Is(ty, "table")
SetOfTables(ty) == Is(ty, "set") /\ IsTable(ty.set)

\* A map becomes a table if each of its fields is one of the table's.
BuildType(n, t) ==
  CASE n.op = "BuildSet" -> Accept(Is(t[1], "list") /\ IsTable(t[1].list), VmSet(t[1].list))
    [] n.op = "BuildTable" ->
         Accept(/\ Is(t[1], "map")
                /\ \A f \in DOMAIN t[1].map : /\ f \in DOMAIN Schema.types[n.key]
                                              /\ is_covariant_from(FieldTypeOf(n.key, f), t[1].map[f]),
                VmTable(n.key))

\* A key, and a set with such a primary key.  Of a set whose members have none
\* set_primary_key(..).unwrap() panics; it counts as refused here.
KeyOfSet(key, ty) ==
  /\ SetOfTables(ty)
  /\ \E f \in set_primary_key(ty) : is_covariant_from(FieldTypeOf(ty.set.table, f), key)

AccessType(n, t) ==
  CASE n.op = "DeleteFromSet" -> AcceptEffect(KeyOfSet(t[1], t[2]))
    [] n.op = "DeleteFromMap" ->
         Accept(Is(t[1], "map"), VmMap([k \in DOMAIN t[1].map \ {n.key} |-> t[1].map[k]]))
    [] n.op = "GetField" /\ Is(t[1], "map") -> Accept(n.key \in DOMAIN t[1].map, t[1].map[n.key])
    [] n.op = "GetField" -> Accept(IsTable(t[1]) /\ n.key \in DOMAIN Schema.types[t[1].table],
                                   FieldTypeOf(t[1].table, n.key))
    [] n.op = "GetSetElement" -> Accept(KeyOfSet(t[1], t[2]), t[2].set)
    [] n.op = "FilterSet" -> Accept(Is(t[1], "set"), t[1].set)

InsertType(n, t) ==
  CASE n.op = "InsertIntoMap" -> Accept(Is(t[2], "map"), VmMap((n.key :> t[1]) @@ t[2].map))
    [] n.op = "InsertIntoSet" -> AcceptEffect(Is(t[2], "set") /\ is_covariant_from(t[2].set, t[1]))
    [] n.op = "InsertIntoTable" ->
         AcceptEffect(/\ IsTable(t[2])
                      /\ n.key \in DOMAIN Schema.types[t[2].table]
                      /\ ~Schema.types[t[2].table][n.key].primary
                      /\ is_covariant_from(FieldTypeOf(t[2].table, n.key), t[1]))

LogicOps == {"Eq", "Ne", "And", "Or", "Not", "Select", "IsPresent", "IsNull", "Nop"}

LogicType(n, t) ==
  CASE n.op \in {"Eq", "Ne"} -> Accept(is_covariant_from(t[1], t[2]), VmBool)
    [] n.op \in {"And", "Or"} -> Accept(t[1] = VmBool /\ t[2] = VmBool, VmBool)
    [] n.op = "Not" -> Accept(t[1] = VmBool, VmBool)
    [] n.op = "Select" -> Accept(t[1] = t[2], t[1])
    [] n.op = "IsPresent" -> Accept(Is(t[1], "set") \/ IsTable(t[1]), VmBool)
    [] n.op = "IsNull" -> Accept(TRUE, VmBool)
    [] n.op = "Nop" -> Accept(TRUE, t[1])

\* Passing a value to a subgraph or returning it: it is taken for the type the
\* subgraph declares.  (Arguments of recursive calls are not checked.)
CallType(n, t) == Accept(is_covariant_from(n.ty, t[1]), n.ty)

ArithmeticType(n, t) ==
  Accept(/\ t[1] = t[2] /\ Is(t[1], "prim")
         /\ t[1].prim \in {"int64", "double"} \cup (IF n.op = "Add" THEN {"string"} ELSE {}), t[1])

\* Mutant of ListType: anything can be put into a list.
ListTypeAny(n, t) ==
  CASE n.op = "PrependToList" -> Accept(Is(t[2], "list"), t[2])
    [] n.op = "PopFromList" -> Accept(Is(t[1], "list"), t[1])
    [] n.op = "ListHead" -> Accept(Is(t[1], "list"), t[1].list)

ListType(n, t) ==
  CASE n.op = "PrependToList" -> Accept(Is(t[2], "list") /\ is_covariant_from(t[2].list, t[1]), t[2])
    [] n.op = "PopFromList" -> Accept(Is(t[1], "list"), t[1])
    [] n.op = "ListHead" -> Accept(Is(t[1], "list"), t[1].list)

\* t: the initial value, the collection, what the subgraph returns last, which
\* fits its declared type n.ty, and a bound if the node has a range.
ReduceType(n, t) ==
  Accept(/\ Is(t[2], "list") \/ Is(t[2], "set")
         /\ is_covariant_from(n.ty, t[3])
         /\ n.range => \E f \in set_primary_key(t[2]) : t[4] = FieldTypeOf(t[2].set.table, f)
         /\ is_covariant_from(t[1], n.ty), n.ty)

ThrowType(n, t) == AcceptEffect(t[1] = VmPrim("string"))

NodeType(n, t) ==
  CASE n.op \in {"BuildSet", "BuildTable"} -> BuildType(n, t)
    [] n.op \in {"DeleteFromSet", "DeleteFromMap", "GetField", "GetSetElement", "FilterSet"} -> AccessType(n, t)
    [] n.op \in {"InsertIntoMap", "InsertIntoSet", "InsertIntoTable"} -> InsertType(n, t)
    [] n.op \in LogicOps -> LogicType(n, t)
    [] n.op \in {"Add", "Sub"} -> ArithmeticType(n, t)
    [] n.op \in {"PrependToList", "PopFromList", "ListHead"} -> ListType(n, t)
    [] n.op = "Call" -> CallType(n, t)
    [] n.op = "Reduce" -> ReduceType(n, t)
    [] n.op = "Throw" -> ThrowType(n, t)
=============================================================================
