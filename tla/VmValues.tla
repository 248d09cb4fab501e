------------------------------ MODULE VmValues ------------------------------
(***************************************************************************)
(* The types and the values of the query language                          *)
(* (rdb-analyzer/src/data/treewalker/vm_value.rs) and their serialized     *)
(* form (serialize.rs).  A type or a value is a record that has a field    *)
(* named for its kind.  A primitive value stands for all of its type, but  *)
(* for doubles, of which the sign is kept.                                 *)
(***************************************************************************)
EXTENDS SchemaCompiler

CONSTANTS Schema,  \* the compiled schema
          Configs  \* the VmValueEncodeConfigs of the server's routes

Is(x, kind) == kind \in DOMAIN x

\* VmType
VmPrim(p) == [prim |-> p]
VmBool == [bool |-> "bool"]
VmTable(name) == [table |-> name]
VmSet(ty) == [set |-> ty]
VmList(ty) == [list |-> ty]
VmMap(f) == [map |-> f]

FromFieldType(ft) == CASE ft.kind = "prim" -> VmPrim(ft.t[1])
                       [] ft.kind = "table" -> VmTable(ft.t)
                       [] OTHER -> VmSet(VmTable(ft.t))
FromSchema == VmMap([e \in DOMAIN Schema.exports |-> FromFieldType(Schema.exports[e])])
FieldTypeOf(name, f) == FromFieldType(Schema.types[name][f].ty)

\* Mutant of is_covariant_from: the fields of maps are not compared.
is_covariant_from_any(dst, src) == dst = src \/ (Is(dst, "map") /\ Is(src, "map"))

RECURSIVE is_covariant_from(_, _)
is_covariant_from(dst, src) ==
  \/ dst = src
  \/ /\ Is(dst, "map") /\ Is(src, "map")
     /\ \A k \in DOMAIN dst.map : k \in DOMAIN src.map /\ is_covariant_from(dst.map[k], src.map[k])

\* The name of the primary key of a set's members, if they have one.
set_primary_key(ty) ==
  IF Is(ty, "set") /\ Is(ty.set, "table")
  THEN {f \in DOMAIN Schema.types[ty.set.table] : Schema.types[ty.set.table][f].primary} ELSE {}

\* PrimitiveValue::get_type
get_type(p) == CASE p = "int" -> "int64" [] p \in {"positive", "negative"} -> "double" [] OTHER -> p
PrimsOf(type) == {p \in {"int", "positive", "negative", "string", "bytes"} : get_type(p) = type}

\* VmValue.  A table or set that is resident is a place in the store.  The type
\* a null carries is not kept: no node reads it.
Primitive(p) == [primitive |-> p]
Bool(b) == [truth |-> b]
Null == [null |-> "null"]
Map(f) == [elements |-> f]
List(member, nodes) == [nodes |-> nodes, member_ty |-> member]
FreshTable(name, f) == [fields |-> f, ty |-> name]
FreshSet(member, ms) == [members |-> ms, member_ty |-> member]
Resident(ty) == [resident |-> ty]

\* VmType::from(&VmValue).  A list gives the type of its members; the type
\* of a null is known where it is made.
RECURSIVE FromValue(_)
FromValue(v) ==
  CASE Is(v, "primitive") -> VmPrim(get_type(v.primitive))
    [] Is(v, "truth") -> VmBool
    [] Is(v, "elements") -> VmMap([k \in DOMAIN v.elements |-> FromValue(v.elements[k])])
    [] Is(v, "fields") -> VmTable(v.ty)
    [] Is(v, "members") -> VmSet(v.member_ty)
    [] Is(v, "resident") -> v.resident
    [] OTHER -> v.member_ty

\* The constants the assembler makes (literal_to_vmconst), as from_const loads
\* them: an empty set needs members with a primary key.
from_const(c) == IF Is(c, "members") /\ set_primary_key(FromValue(c)) = {} THEN {} ELSE {c}

-----------------------------------------------------------------------------
\* SerializedVmValue: what the server sends and receives.
Wire(form, p) == [wire |-> form, p |-> p]
WireNull == [wire |-> "null"]
WireBool(b) == [wire |-> "bool", b |-> b]
WireMap(f) == [wire |-> "M", m |-> f]
WireList(s) == [wire |-> "L", l |-> s]

\* Mutant of EncodePrimitive: numbers are sent as text.
EncodePrimitiveText(p, config) == Wire(IF p = "bytes" THEN "bytes" ELSE "string", p)

\* Without its flag a primitive is sent as a string.
EncodePrimitive(p, config) ==
  LET type == get_type(p) IN Wire(IF type = "string" \/ ~config[type] THEN "string" ELSE type, p)

RECURSIVE Serializable(_), encode(_, _)
Serializable(v) ==
  CASE Is(v, "elements") -> \A k \in DOMAIN v.elements : Serializable(v.elements[k])
    [] Is(v, "nodes") -> \A i \in DOMAIN v.nodes : Serializable(v.nodes[i])
    [] OTHER -> Is(v, "null") \/ Is(v, "truth") \/ Is(v, "primitive")

encode(v, config) ==
  CASE Is(v, "elements") -> WireMap([k \in DOMAIN v.elements |-> encode(v.elements[k], config)])
    [] Is(v, "nodes") -> WireList([i \in DOMAIN v.nodes |-> encode(v.nodes[i], config)])
    [] Is(v, "null") -> WireNull
    [] Is(v, "truth") -> WireBool(v.truth)
    [] OTHER -> EncodePrimitive(v.primitive, config)

\* A string is parsed, a double as the text of its bits, a number without sign.
DecodePrimitive(s, type) ==
  CASE s.wire = type -> {Primitive(s.p)}
    [] s.wire = "string" /\ type = "double" /\ s.p = "negative" -> {}
    [] s.wire = "string" \/ (s.wire = "int64" /\ type = "double") -> {Primitive(p) : p \in PrimsOf(type)}
    [] s.wire = "bytes" /\ type = "string" -> {Primitive("string")}
    [] s.wire = "double" /\ type = "int64" -> {Primitive("int")}
    [] OTHER -> {}

\* decode: the values a serialized value may become, none if it is refused.
\* Of a map the fields of the type are taken; the ones it lacks are null.
RECURSIVE decode(_, _)
decode(s, ty) ==
  CASE s.wire = "null" -> {Null}
    [] s.wire = "bool" -> IF ty = VmBool THEN {Bool(s.b)} ELSE {}
    [] s.wire = "M" -> IF ~Is(ty, "map") THEN {}
         ELSE LET of(k) == IF k \in DOMAIN s.m THEN decode(s.m[k], ty.map[k]) ELSE {Null}
              IN {Map(f) : f \in {g \in [DOMAIN ty.map -> UNION {of(k) : k \in DOMAIN ty.map}] :
                                    \A k \in DOMAIN ty.map : g[k] \in of(k)}}
    [] s.wire = "L" -> IF ~Is(ty, "list") THEN {}
         ELSE {List(ty.list, ns) :
                 ns \in {g \in [DOMAIN s.l -> UNION {decode(s.l[i], ty.list) : i \in DOMAIN s.l}] :
                           \A i \in DOMAIN s.l : g[i] \in decode(s.l[i], ty.list)}}
    [] OTHER -> IF Is(ty, "prim") THEN DecodePrimitive(s, ty.prim) ELSE {}

-----------------------------------------------------------------------------
\* The value is one that code checked for the type may be given.  A null has
\* every type; a map may have more fields than its type tells.
RECURSIVE HasType(_, _)
HasType(v, ty) ==
  CASE Is(v, "null") -> TRUE
    [] Is(v, "elements") -> /\ Is(ty, "map")
                            /\ \A k \in DOMAIN ty.map :
                                 k \in DOMAIN v.elements /\ HasType(v.elements[k], ty.map[k])
    [] Is(v, "nodes") -> /\ ty = VmList(v.member_ty)
                         /\ \A i \in DOMAIN v.nodes : HasType(v.nodes[i], v.member_ty)
    [] Is(v, "fields") -> /\ ty = VmTable(v.ty)
                          /\ DOMAIN v.fields = DOMAIN Schema.types[v.ty]
                          /\ \A f \in DOMAIN v.fields : HasType(v.fields[f], FieldTypeOf(v.ty, f))
    [] Is(v, "members") -> /\ ty = VmSet(v.member_ty)
                           /\ \A m \in v.members : /\ HasType(m, v.member_ty)
                                                   /\ \A k \in set_primary_key(ty) :
                                                        Is(m.fields[k], "primitive")
    [] OTHER -> ty = FromValue(v)

\* What of a value its type tells.
RECURSIVE Seen(_, _)
Seen(v, ty) ==
  CASE Is(v, "null") -> Null
    [] Is(v, "elements") -> Map([k \in DOMAIN ty.map |-> Seen(v.elements[k], ty.map[k])])
    [] Is(v, "nodes") -> List(ty.list, [i \in DOMAIN v.nodes |-> Seen(v.nodes[i], ty.list)])
    [] OTHER -> v

RECURSIVE HoldsDouble(_)
HoldsDouble(v) ==
  CASE Is(v, "elements") -> \E k \in DOMAIN v.elements : HoldsDouble(v.elements[k])
    [] Is(v, "nodes") -> \E i \in DOMAIN v.nodes : HoldsDouble(v.nodes[i])
    [] OTHER -> Is(v, "primitive") /\ get_type(v.primitive) = "double"
=============================================================================
