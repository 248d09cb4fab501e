------------------------------ MODULE Document ------------------------------
(***************************************************************************)
(* What a query may rely on: the data is one document, a tree of tables,   *)
(* sets and primitive values, and the effect nodes of a query change it at *)
(* the place they name.  doc maps the places of the document to what is    *)
(* there: a primitive value, or Marker for a table or a set.               *)
(***************************************************************************)
EXTENDS TreeValues

VARIABLE doc

\* The places a value takes when it is put at a path.
RECURSIVE Places(_, _)
Places(path, value) ==
  CASE value.kind = "null" -> {}
    [] value.kind = "prim" -> {<<path, value.v>>}
    [] value.kind = "table" -> {<<path, Marker>>} \cup
         UNION {Places(Append(path, f), value.fields[f]) : f \in DOMAIN value.fields}
    [] value.kind = "set" -> {<<path, Marker>>} \cup
         UNION {Places(Append(path, k), value.members[k]) : k \in DOMAIN value.members}

\* Only what an export is part of has a place in the document.
Exists(path) == Len(path) = 1 \/ path \in DOMAIN doc

Replace(path, value) ==
  LET kept == {<<p, doc[p]>> : p \in {q \in DOMAIN doc : ~IsPrefixOf(path, q)}}
      all == kept \cup Places(path, value)
  IN [p \in {x[1] : x \in all} |-> (CHOOSE x \in all : x[1] = p)[2]]

Init == doc = <<>>

InsertIntoSet(set, name, value) ==
  doc' = IF Exists(set) THEN Replace(Append(set, PrimaryKeyOf(name, value)), value) ELSE doc

InsertIntoTable(table, field, value) ==
  doc' = IF Exists(table) THEN Replace(Append(table, field), value) ELSE doc

DeleteFromSet(set, pk) == doc' = Replace(Append(set, pk), Null)
=============================================================================
