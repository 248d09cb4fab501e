--------------------------- MODULE StoragePlanner ---------------------------
(***************************************************************************)
(* rdb-analyzer/src/storage_plan/planner.rs: the storage plan of a         *)
(* compiled schema gives every field that can be reached from an export a  *)
(* storage key.  A plan is generated from an older plan, whose keys the    *)
(* fields keep as long as they keep their type.                            *)
(*                                                                         *)
(* A plan maps the exports to storage nodes.  An optional value is a       *)
(* sequence of at most one element.                                        *)
(***************************************************************************)
EXTENDS SchemaCompiler

DefaultSchema == [types |-> <<>>, exports |-> <<>>]
DefaultPlan == <<>>

\* StorageNode: a leaf, a table, a reference to an enclosing table, a set.
Node(key, flattened, ref, set, children) ==
  [key |-> key, flattened |-> flattened, subspace_reference |-> ref,
   set |-> set, children |-> children]

\* collect_special_types: every type met on the way down from a field, and
\* whether it was on the way already.
RECURSIVE Visits(_, _, _)
Visits(schema, ty, state) ==
  {<<ty, ty.t \in state>>} \cup
    IF ty.kind = "prim" \/ ty.t \in state THEN {}
    ELSE UNION {Visits(schema, schema.types[ty.t][f].ty, state \cup {ty.t}) :
                  f \in DOMAIN schema.types[ty.t]}

AllVisits(schema) ==
  UNION {Visits(schema, schema.exports[e], {}) : e \in DOMAIN schema.exports}

recursive_types(schema) == {v[1].t : v \in {w \in AllVisits(schema) : w[2]}}
set_member_types(schema) ==
  {v[1].t : v \in {w \in AllVisits(schema) : w[1].kind = "set"}}

\* SetMemberTypeWithoutPrimaryKey.  MissingType is out of reach: the schema
\* has been compiled.
Refused(schema) ==
  \E t \in set_member_types(schema) :
    \A f \in DOMAIN schema.types[t] : ~schema.types[t][f].primary

\* Mutant of rand_storage_key: the key depends on the field's name only.
rand_storage_key_by_name(gen, path) == <<"key", gen, <<path[Len(path)]>>>>

\* rand_storage_key: a key that was not used before.  A run of the planner
\* draws one key for a place of the plan at most, so the number of the run and
\* the place name it.  That a key drawn at random from 48 bits in the same
\* millisecond is new is taken for granted, as the code does.
rand_storage_key(gen, path) == <<"key", gen, path>>

\* Mutant of validate_type: any old field will do.
validate_type_never(point, ty) == point

validate_type(point, ty) == SelectSeq(point, LAMBDA p : p.ty = ty)

\* Mutant of reduce_set: the old member is not looked at.
reduce_set_never(point) == <<>>

\* A set that has become something else never gets here: validate_type.
reduce_set(point) ==
  IF point # <<>> /\ point[1].ty.kind = "set" /\ point[1].node.set # <<>>
  THEN <<[ty |-> Table(point[1].ty.t), node |-> point[1].node.set[1]]>>
  ELSE <<>>

altnames(name, field) == <<name>> \o field.rename_from

\* Mutant of resolve_subfield: the old names are tried before the new one.
resolve_subfield_renamed_first(old_schema, point, names) ==
  LET found == SelectSeq(Tail(names) \o <<names[1]>>,
                         LAMBDA n : point # <<>> /\ n \in DOMAIN point[1].node.children)
  IN IF found = <<>> THEN <<>>
     ELSE <<[ty |-> old_schema.types[point[1].ty.t][found[1]].ty,
             node |-> point[1].node.children[found[1]]]>>

\* Mutant of resolve_subfield: rename_from is ignored.
resolve_subfield_same_name(old_schema, point, names) ==
  IF point = <<>> \/ names[1] \notin DOMAIN point[1].node.children THEN <<>>
  ELSE <<[ty |-> old_schema.types[point[1].ty.t][names[1]].ty,
          node |-> point[1].node.children[names[1]]]>>

\* The first of the names that the old node has a child for.
resolve_subfield(old_schema, point, names) ==
  LET found == SelectSeq(names, LAMBDA n : point # <<>> /\ n \in DOMAIN point[1].node.children)
  IN IF \/ found = <<>>
        \/ point[1].ty.kind # "table"
        \/ point[1].ty.t \notin DOMAIN old_schema.types
        \/ found[1] \notin DOMAIN old_schema.types[point[1].ty.t]
     THEN <<>>
     ELSE <<[ty |-> old_schema.types[point[1].ty.t][found[1]].ty,
             node |-> point[1].node.children[found[1]]]>>

\* Mutant of push: the table is known by the key of the export it is under.
push_export(st, name, key, stack, path) ==
  IF name \in st.recursive
  THEN (name :> rand_storage_key(st.gen, <<path[1]>>)) @@ stack ELSE stack

\* A table that may be met again below is put on the stack with its key.
push(st, name, key, stack, path) ==
  IF name \in st.recursive THEN (name :> key) @@ stack ELSE stack

\* generate_field.  st is PlanState, without the stack: [gen, schema,
\* old_schema, recursive]; stack is fields_in_stack, point the old tree point.
RECURSIVE generate_field(_, _, _, _, _)
generate_field(st, ty, point, stack, path) ==
  LET key == IF point = <<>> THEN rand_storage_key(st.gen, path) ELSE point[1].node.key
      fields == st.schema.types[ty.t]
      below == push(st, ty.t, key, stack, path)
      member == generate_field(st, Table(ty.t), validate_type(reduce_set(point), Table(ty.t)),
                               stack, Append(path, "member"))
      child(f) == generate_field(st, fields[f].ty,
                    validate_type(resolve_subfield(st.old_schema, point, altnames(f, fields[f])),
                                  fields[f].ty),
                    below, Append(path, f))
  IN CASE ty.kind = "prim" -> Node(key, FALSE, <<>>, <<>>, <<>>)
       [] ty.kind = "set" -> Node(key, FALSE, <<>>, <<member>>, <<>>)
       [] ty.kind = "table" /\ ty.t \in DOMAIN stack ->
            Node(key, FALSE, <<stack[ty.t]>>, <<>>, <<>>)
       [] OTHER -> Node(key, TRUE, <<>>, <<>>, [f \in DOMAIN fields |-> child(f)])

generate_plan_for_schema(gen, old_plan, old_schema, schema) ==
  LET st == [gen |-> gen, schema |-> schema, old_schema |-> old_schema,
             recursive |-> recursive_types(schema)]
      old_point(e) == IF e \in DOMAIN old_schema.exports /\ e \in DOMAIN old_plan
                      THEN <<[ty |-> old_schema.exports[e], node |-> old_plan[e]]>>
                      ELSE <<>>
  IN [e \in DOMAIN schema.exports |->
        generate_field(st, schema.exports[e],
                       validate_type(old_point(e), schema.exports[e]), <<>>, <<e>>)]

\* The nodes of a plan: where they are, and the type of their field.
RECURSIVE NodesBelow(_, _, _, _)
NodesBelow(schema, node, ty, path) ==
  {[at |-> path, node |-> node, ty |-> ty]} \cup
    IF node.set # <<>>
    THEN NodesBelow(schema, node.set[1], Table(ty.t), Append(path, "member"))
    ELSE UNION {NodesBelow(schema, node.children[f], schema.types[ty.t][f].ty, Append(path, f)) :
                  f \in DOMAIN node.children}

PlanNodes(schema, plan) ==
  UNION {NodesBelow(schema, plan[e], schema.exports[e], <<e>>) : e \in DOMAIN plan}
=============================================================================
