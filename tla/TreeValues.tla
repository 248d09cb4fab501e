----------------------------- MODULE TreeValues -----------------------------
(* The places of the documents of a schema and the values a query may put  *)
(* there (VmValue of kind Fresh).                                          *)
EXTENDS PathWalker

CONSTANTS Schema,   \* the schema of the deployment; without recursion
          Numbers,  \* primitive values of the fields that are not primary keys
          Marker,   \* what is stored for a table or a set
          MaxPath   \* bound on the length of paths

\* BuildTable puts Null for the fields it is not given.
Null == [kind |-> "null"]
PrimValue(v) == [kind |-> "prim", v |-> v]
TableValue(fields) == [kind |-> "table", fields |-> fields]
SetValue(members) == [kind |-> "set", members |-> members]

\* The values of a field, which is the primary key or may be Null.  A set has
\* at most one member.
RECURSIVE Values(_)
Values(ty) ==
  LET fields == Schema.types[ty.t]
      of(f) == IF fields[f].primary THEN {PrimValue(k) : k \in Steps(Schema, SetOf(ty.t))}
               ELSE Values(fields[f].ty) \cup {Null}
      tables == {TableValue(g) : g \in {h \in [DOMAIN fields -> UNION {of(f) : f \in DOMAIN fields}] :
                                          \A f \in DOMAIN fields : h[f] \in of(f)}}
      pk == CHOOSE f \in DOMAIN fields : fields[f].primary
  IN CASE ty.kind = "prim" -> {PrimValue(n) : n \in Numbers}
       [] ty.kind = "table" -> tables
       [] OTHER -> {SetValue(<<>>)} \cup {SetValue(v.fields[pk].v :> v) : v \in tables}

TypedPaths == UNION {PathsOf(Schema, n) : n \in 1 .. MaxPath}
Paths == {p[1] : p \in TypedPaths}
SetPaths == {p \in TypedPaths : p[2].kind = "set" /\ Len(p[1]) < MaxPath}
TablePaths == {p \in TypedPaths : p[2].kind = "table" /\ Len(p[1]) < MaxPath}

PrimaryKeyField(name) == CHOOSE f \in DOMAIN Schema.types[name] : Schema.types[name][f].primary
PrimaryKeyOf(name, value) == value.fields[PrimaryKeyField(name)].v

ValuesOf == [ty \in {p[2] : p \in TypedPaths} |-> Values(ty)]
=============================================================================
