----------------------------- MODULE PathWalker -----------------------------
(***************************************************************************)
(* rdb-analyzer/src/data/pathwalker.rs: a walker follows a path of fields  *)
(* and set members down a storage plan and knows the key-value key of the  *)
(* place it has reached.  A walker is the sequence of its links, the       *)
(* export first; NoWalker stands for every error.                          *)
(***************************************************************************)
EXTENDS StoragePlanner, KeyEncoding

CONSTANTS MAX_DEPTH,    \* of a walker
          PrimaryKeys,  \* primary keys of set members, by name
          KeyValue      \* their values

ASSUME WalkerAssumption == MAX_DEPTH \in Nat \ {0} /\ DOMAIN KeyValue = PrimaryKeys

NoWalker == <<>>
Link(node, key, flat) == [node |-> node, key |-> key, should_flatten |-> flat]
LastLink(walker) == walker[Len(walker)]

from_export(plan, e) == <<Link(plan[e], <<plan[e].key>>, plan[e].flattened)>>

\* generate_key: the keys of the links that are not flattened, and of the last.
generate_key(walker) ==
  LET K[n \in 0 .. Len(walker)] ==
        IF n = 0 THEN <<>>
        ELSE IF walker[n].should_flatten /\ n < Len(walker) THEN K[n - 1]
        ELSE K[n - 1] \o walker[n].key
  IN K[Len(walker)]

\* Mutant of enter_field: a reference is flattened like what it refers to.
enter_field_flattened(walker, f) ==
  LET node == LastLink(walker).node
      child == node.children[f]
      up == {i \in DOMAIN walker : walker[i].node.key = child.subspace_reference[1]}
  IN IF \/ f \notin DOMAIN node.children \/ Len(walker) >= MAX_DEPTH
        \/ child.subspace_reference # <<>> /\ up = {}
     THEN NoWalker
     ELSE IF child.subspace_reference = <<>>
     THEN Append(walker, Link(child, <<child.key>>, child.flattened))
     ELSE LET to == walker[CHOOSE i \in up : \A j \in up : j <= i]
          IN Append(walker, Link(to.node, <<child.key>>, to.node.flattened))

\* enter_field.  A reference leads to the nearest enclosing node with that key,
\* under the key of the reference.
enter_field(walker, f) ==
  LET node == LastLink(walker).node
      child == node.children[f]
      up == {i \in DOMAIN walker : walker[i].node.key = child.subspace_reference[1]}
  IN IF \/ node.set # <<>>                                  \* EnterFieldOnSet
        \/ f \notin DOMAIN node.children                    \* FieldNotFound
        \/ child.subspace_reference # <<>> /\ up = {}       \* ReferenceNodeNotFound
        \/ Len(walker) >= MAX_DEPTH                         \* PathTooDeep
     THEN NoWalker
     ELSE IF child.subspace_reference = <<>>
     THEN Append(walker, Link(child, <<child.key>>, child.flattened))
     ELSE Append(walker, Link(walker[CHOOSE i \in up : \A j \in up : j <= i].node,
                              <<child.key>>, FALSE))

\* 0x00 - data
DataComponent(raw) == Byte(0) \o raw \o Byte(0)

\* Mutant of enter_set_raw: the link with the primary key is flattened.
enter_set_raw_flattened(walker, raw) ==
  LET set == LastLink(walker).node.set
  IN IF set = <<>> \/ Len(walker) + 1 >= MAX_DEPTH THEN NoWalker
     ELSE walker \o <<Link(set[1], DataComponent(raw), TRUE),
                      Link(set[1], <<set[1].key>>, TRUE)>>

\* The link of the primary key, then that of the member's table.
enter_set_raw(walker, raw) ==
  LET set == LastLink(walker).node.set
  IN IF \/ set = <<>>                      \* NotSet
        \/ Len(walker) + 1 >= MAX_DEPTH    \* PathTooDeep, at either link
     THEN NoWalker
     ELSE walker \o <<Link(set[1], DataComponent(raw), FALSE),
                      Link(set[1], <<set[1].key>>, TRUE)>>

Raw(pk) == serialize_for_key_component(KeyValue[pk])
enter_set(walker, pk) == enter_set_raw(walker, Raw(pk))

set_data_prefix(walker) == generate_key(walker) \o Byte(0)
set_fast_scan_prefix(walker) == generate_key(walker) \o Byte(1)
fast_scan_key(walker, pk) == set_fast_scan_prefix(walker) \o Raw(pk)

\* The ranges of keys that are deleted: those below a prefix, and a single key.
Under(prefix) == <<prefix, Successor(prefix)>>
Only(key) == <<key, key \o Byte(0)>>

delete_entry_from_set(walker, pk) ==
  {Only(fast_scan_key(walker, pk)), Under(set_data_prefix(walker) \o Raw(pk) \o Byte(0))}

\* Mutant of delete_set: the set is not cleared.
delete_set_never(walker) == {}

delete_set(walker) == {Under(set_fast_scan_prefix(walker)), Under(set_data_prefix(walker))}

InRanges(key, ranges) == \E r \in ranges : InRange(key, r[1], r[2])

-----------------------------------------------------------------------------
(* Paths, as a schema has them: an export, then fields and primary keys.   *)

Steps(schema, ty) == CASE ty.kind = "prim" -> {}
                       [] ty.kind = "set" ->
                            {k \in PrimaryKeys : \E f \in DOMAIN schema.types[ty.t] :
                               LET field == schema.types[ty.t][f]
                               IN field.primary /\ field.ty = Prim(KeyValue[k].ty)}
                       [] OTHER -> DOMAIN schema.types[ty.t]

StepType(schema, ty, step) ==
  IF ty.kind = "set" THEN Table(ty.t) ELSE schema.types[ty.t][step].ty

\* The paths of n steps, with the type of the place they lead to.
RECURSIVE PathsOf(_, _)
PathsOf(schema, n) ==
  IF n = 1 THEN {<< <<e>>, schema.exports[e] >> : e \in DOMAIN schema.exports}
  ELSE UNION {{<<Append(p[1], step), StepType(schema, p[2], step)>> :
                 step \in Steps(schema, p[2])} : p \in PathsOf(schema, n - 1)}

\* How GetField and GetSetElement follow a path from the root map.
RECURSIVE Walk(_, _)
Walk(plan, path) ==
  IF Len(path) = 1 THEN from_export(plan, path[1])
  ELSE LET up == Walk(plan, SubSeq(path, 1, Len(path) - 1))
           step == path[Len(path)]
       IN IF up = NoWalker THEN NoWalker
          ELSE IF step \in PrimaryKeys THEN enter_set(up, step)
          ELSE enter_field(up, step)
=============================================================================
