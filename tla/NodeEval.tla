------------------------------ MODULE NodeEval ------------------------------
(***************************************************************************)
(* What a node does with the values of its parameters (run_node of         *)
(* rdb-analyzer/src/data/treewalker/exec.rs).  A node has one or more      *)
(* possible outcomes [ret, puts, end]: its value if it has one, the        *)
(* primitive fields it writes as <<table, field, value>>, and how it ends: *)
(* "ok", with an error, or with the reason of a panic or of a value that   *)
(* has not the type of the node.                                           *)
(***************************************************************************)
EXTENDS NodeTypes

Outcome(ret, puts, end) == [ret |-> ret, puts |-> puts, end |-> end]
Return(v) == {Outcome(<<v>>, {}, "ok")}
Effect(puts) == {Outcome(<<>>, puts, "ok")}
Error == {Outcome(<<>>, {}, "error")}
Panic(why) == {Outcome(<<>>, {}, why)}

\* The node gives a value its type does not allow: the run is not followed
\* further, and its end says where the type was lost.
Mistyped(why) == {Outcome(<<>>, {}, why)}

\* An arm that the code holds to be unreachable, or an unwrap that fails.
Expect(ok, outcomes) == IF ok THEN outcomes ELSE Panic("unreachable")

AnyBool == {Bool(b) : b \in BOOLEAN}
IsNull(v) == Is(v, "null")

\* What a row read back is: a number that fits an i64 is taken for one, also
\* the bits of a double without sign (untagged PrimitiveValue).
ReadBack(p) == IF p = "positive" THEN "int" ELSE p

\* A row, if there is one, holds a value of its field's type: see TypeSound.
read_table_element(v, f) ==
  IF Is(v, "fields") THEN IF f \in DOMAIN v.fields THEN {v.fields[f]} ELSE {}
  ELSE LET ty == FieldTypeOf(v.resident.table, f)
       IN IF ~Is(ty, "prim") THEN {Resident(ty)}
          ELSE {Null} \cup {Primitive(ReadBack(p)) : p \in PrimsOf(ty.prim)}

\* The values below a value that is inserted.
RECURSIVE Below(_)
Below(v) ==
  {v} \cup (IF Is(v, "fields") THEN UNION {Below(v.fields[f]) : f \in DOMAIN v.fields} ELSE {})
      \cup (IF Is(v, "members") THEN UNION {Below(m) : m \in v.members} ELSE {})

RowsOf(v) ==
  {<<v.ty, f, v.fields[f].primitive>> : f \in {g \in DOMAIN v.fields : Is(v.fields[g], "primitive")}}

\* walk_and_insert of the value, given the rows that its own place gets.
walk_and_insert(v, own) ==
  IF \E x \in Below(v) : Is(x, "truth") \/ Is(x, "elements") \/ Is(x, "nodes") THEN Panic("unreachable")
  ELSE IF \E x \in Below(v) : Is(x, "resident") THEN Error
  ELSE Effect(own \cup UNION {RowsOf(x) : x \in {y \in Below(v) : Is(y, "fields")}})

\* The key of a member of a fresh set must be there.
KeyError(m, key) == IF ~Is(m, "fields") THEN "null member"
                    ELSE IF IsNull(m.fields[key]) THEN "null primary key"
                    ELSE IF ~Is(m.fields[key], "primitive") THEN "unreachable" ELSE ""

BuildSet(list) ==
  LET keys == set_primary_key(VmSet(list.member_ty))
      nodes == {list.nodes[i] : i \in DOMAIN list.nodes}
  IN IF keys = {} THEN Panic("no primary key")
     ELSE LET key == CHOOSE k \in keys : TRUE
              bad == {m \in nodes : ~Is(m, "resident") /\ KeyError(m, key) # ""}
          IN IF bad # {} THEN UNION {Panic(KeyError(m, key)) : m \in bad}
             ELSE IF \E m \in nodes : Is(m, "resident") THEN Error
             ELSE Return(FreshSet(list.member_ty, nodes))

\* A field of the map that its type does not tell gets into the table
\* unchecked.
BuildTable(name, map, ty) ==
  LET fields == DOMAIN Schema.types[name]
      table == FreshTable(name, [f \in fields |->
                 IF f \in DOMAIN map THEN map[f] ELSE Null])
  IN IF \A f \in fields : HasType(table.fields[f], FieldTypeOf(name, f)) THEN Return(table)
     ELSE IF \E f \in fields \cap DOMAIN map : f \notin DOMAIN ty.map THEN Mistyped("wide map")
     ELSE Return(table)

RunBuild(n, a, t) ==
  CASE n.op = "BuildSet" -> Expect(Is(a[1], "nodes"), BuildSet(a[1]))
    [] n.op = "BuildTable" -> Expect(Is(a[1], "elements"), BuildTable(n.key, a[1].elements, t[1]))

GetField(n, v) ==
  IF Is(v, "elements") THEN Expect(n.key \in DOMAIN v.elements, Return(v.elements[n.key]))
  ELSE LET read == read_table_element(v, n.key)
       IN Expect(read # {}, UNION {
            IF Is(x, "primitive") /\ Is(v, "resident") /\ ~HasType(x, FieldTypeOf(v.resident.table, n.key))
            THEN Mistyped("double read as int64") ELSE Return(x) : x \in read})

RunAccess(n, a) ==
  CASE n.op = "DeleteFromMap" ->
         IF IsNull(a[1]) THEN Return(a[1])
         ELSE Expect(Is(a[1], "elements"),
                     Return(Map([k \in DOMAIN a[1].elements \ {n.key} |-> a[1].elements[k]])))
    [] n.op = "GetField" -> Expect(Is(a[1], "elements") \/ Is(FromValue(a[1]), "table"), GetField(n, a[1]))
    [] n.op = "FilterSet" -> Error
    [] OTHER -> Expect(Is(a[1], "primitive") /\ Is(FromValue(a[2]), "set"),
                       IF Is(a[2], "members") THEN Error
                       ELSE IF n.op = "GetSetElement" THEN Return(Resident(a[2].resident.set)) ELSE Effect({}))

InsertIntoSet(v, set) ==
  LET keys == UNION {read_table_element(v, k) : k \in set_primary_key(FromValue(set))}
  IN Expect(keys # {}, UNION {IF IsNull(k) THEN Panic("null primary key")
                              ELSE Expect(Is(k, "primitive"),
                                          IF Is(set, "members") THEN Error ELSE walk_and_insert(v, {}))
                              : k \in keys})

RunInsert(n, a) ==
  CASE n.op = "InsertIntoMap" ->
         IF IsNull(a[2]) THEN Return(a[2])
         ELSE Expect(Is(a[2], "elements"), Return(Map((n.key :> a[1]) @@ a[2].elements)))
    [] n.op = "InsertIntoSet" ->
         Expect(Is(FromValue(a[1]), "table") /\ Is(FromValue(a[2]), "set"), InsertIntoSet(a[1], a[2]))
    [] n.op = "InsertIntoTable" ->
         Expect(Is(FromValue(a[2]), "table"),
                IF Is(a[2], "fields") THEN Error
                ELSE walk_and_insert(a[1], IF Is(a[1], "primitive")
                                           THEN {<<a[2].resident.table, n.key, a[1].primitive>>} ELSE {}))

RunLogic(n, a) ==
  CASE n.op \in {"Eq", "Ne"} -> UNION {Return(b) : b \in AnyBool}
    [] n.op = "And" -> Expect(Is(a[1], "truth") /\ Is(a[2], "truth"), Return(Bool(a[1].truth /\ a[2].truth)))
    [] n.op = "Or" -> Expect(Is(a[1], "truth") /\ Is(a[2], "truth"), Return(Bool(a[1].truth \/ a[2].truth)))
    [] n.op = "Not" -> Expect(Is(a[1], "truth"), Return(Bool(~a[1].truth)))
    [] n.op = "Select" -> Return(a[1]) \cup Return(a[2])
    [] n.op = "IsPresent" -> IF Is(a[1], "fields") \/ Is(a[1], "members") THEN Return(Bool(TRUE))
                             ELSE Expect(Is(a[1], "resident"), UNION {Return(b) : b \in AnyBool})
    [] n.op = "IsNull" -> Return(Bool(IsNull(a[1])))
    [] n.op = "Nop" -> Return(a[1])

RunArithmetic(a) ==
  Expect(/\ Is(a[1], "primitive") /\ Is(a[2], "primitive")
         /\ get_type(a[1].primitive) = get_type(a[2].primitive),
         UNION {Return(Primitive(p)) : p \in PrimsOf(get_type(a[1].primitive))})

RunList(n, a) ==
  CASE n.op = "PrependToList" ->
         Expect(Is(a[2], "nodes"), Return(List(a[2].member_ty, <<a[1]>> \o a[2].nodes)))
    [] n.op = "PopFromList" ->
         Expect(Is(a[1], "nodes"), IF a[1].nodes = <<>> THEN Return(Null)
                                   ELSE Return(List(a[1].member_ty, Tail(a[1].nodes))))
    [] n.op = "ListHead" ->
         Expect(Is(a[1], "nodes"), IF a[1].nodes = <<>> THEN Return(Null) ELSE Return(a[1].nodes[1]))

\* The value of a subgraph, if its output node has fired.  If not, the node
\* that takes the value as a parameter panics; if there is none, nobody does.
RunCall(a) == Return(a[1]) \cup Effect({}) \cup Panic("call without output")

\* Without a member, or when the subgraph returns null for the first, the
\* result is the initial value.  Its type may tell less than n.ty.  The
\* subgraph is expected to have an output for each member.
RunReduce(n, a) ==
  LET init == IF HasType(a[1], n.ty) THEN Return(a[1]) ELSE Mistyped("narrow initial value")
      last == IF IsNull(a[3]) THEN {} ELSE Return(a[3])
      members == init \cup last \cup Panic("reduce without output")
  IN IF IsNull(a[2]) THEN Return(Null)
     ELSE IF Is(a[2], "members") THEN Error
     ELSE IF Is(a[2], "nodes") THEN IF a[2].nodes = <<>> THEN init ELSE members
     ELSE Expect(/\ Is(a[2], "resident")
                 /\ n.range => IsNull(a[4]) \/ Is(a[4], "primitive"), members)

\* bytecode.rs.  Select is not run by run_node but by the scheduler.
is_optional_chained(n) ==
  n.op \notin {"IsNull", "Nop", "InsertIntoMap", "DeleteFromMap", "Reduce", "Throw", "Select"}

\* ret is the node's type, t the types of the parameters.
run_node(n, a, t, ret) ==
  IF is_optional_chained(n) /\ \E i \in DOMAIN a : IsNull(a[i])
  THEN IF ret = <<>> THEN Effect({}) ELSE Return(Null)
  ELSE CASE n.op \in {"BuildSet", "BuildTable"} -> RunBuild(n, a, t)
         [] n.op \in {"InsertIntoMap", "InsertIntoSet", "InsertIntoTable"} -> RunInsert(n, a)
         [] n.op \in LogicOps -> RunLogic(n, a)
         [] n.op \in {"Add", "Sub"} -> RunArithmetic(a)
         [] n.op \in {"PrependToList", "PopFromList", "ListHead"} -> RunList(n, a)
         [] n.op = "Call" -> RunCall(a)
         [] n.op = "Reduce" -> RunReduce(n, a)
         [] n.op = "Throw" -> Error
         [] OTHER -> RunAccess(n, a)
=============================================================================
