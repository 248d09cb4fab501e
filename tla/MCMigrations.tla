---------------------------- MODULE MCMigrations ----------------------------
(* Schemas over two or three types that add, remove, retype and rename    *)
(* fields, that nest, recurse directly and through one another, hold sets *)
(* and use a generic type; and some the compiler refuses.                 *)
EXTENDS Migrations

E(id) == [id |-> id, args |-> <<>>]
Of(id, e) == [id |-> id, args |-> <<e>>]
SetE(id) == Of("set", E(id))
F(name, value) == [name |-> name, value |-> value, annotations |-> <<>>]
Ann(name, arg) == <<[name |-> name, arg |-> arg]>>
Renamed(name, value, old) == [F(name, value) EXCEPT !.annotations = Ann("rename_from", old)]
Id(ty) == [F("id", E(ty)) EXCEPT !.annotations = Ann("primary", "")]
X == F("x", E("int64"))
Z == F("z", E("int64"))

\* Keys that differ in a zero byte at the end, and strings one of which is a
\* prefix of the other.
MCKeyValue == [nothing |-> [ty |-> "bytes", v |-> <<>>], nul |-> [ty |-> "bytes", v |-> <<0>>],
               a |-> [ty |-> "string", v |-> <<97>>], ab |-> [ty |-> "string", v |-> <<97, 98>>]]
MCPrimaryKeys == DOMAIN MCKeyValue

Type(name, generics, fields) == [name |-> name, generics |-> generics, fields |-> fields]
Export(name, value) == [name |-> name, value |-> value]
\* T has an id and the fields t, U the fields u; Box holds one thing, and Tag
\* does not use its parameter.
MCSchema(t, u, exports) ==
  [types |-> <<Type("T", <<>>, <<Id("bytes")>> \o t), Type("U", <<>>, u),
               Type("Box", <<"A">>, <<F("a", E("A"))>>),
               Type("Tag", <<"A">>, <<Z>>)>>,
   exports |-> exports]

\* The fields of T besides id.
TFields == {<<X>>,
            <<F("x", E("string"))>>,
            <<Renamed("y", E("int64"), "x")>>,
            <<X, Renamed("y", E("int64"), "x")>>,
            <<X, F("t", E("T"))>>,
            <<F("u", E("U"))>>,
            <<X, F("s", SetE("U"))>>,
            <<F("u", Of("Box", E("U"))), F("x", Of("Box", E("int64")))>>,
            <<F("u", Of("Tag", E("U")))>>}

\* A table with a set of tables of its own type.
TreeOfSets == {MCSchema(<<F("s", SetE("T"))>>, <<>>, <<Export("r", SetE("T"))>>)}

RefusedSchemas == {MCSchema(<<X, X>>, <<>>, <<Export("r", E("T"))>>),
                   MCSchema(<<F("s", SetE("int64"))>>, <<>>, <<Export("r", E("T"))>>),
                   MCSchema(<<F("u", E("Box"))>>, <<>>, <<Export("r", E("T"))>>),
                   MCSchema(<<X>>, <<>>, <<Export("r", SetE("U"))>>)}

MCSchemas == {MCSchema(t, <<Id("string"), Z>>, <<Export("r", SetE("T"))>>) : t \in TFields}
        \cup {MCSchema(<<Renamed("v", E("U"), "u")>>, <<F("w", E("T"))>>, <<Export("r", E("T"))>>),
              MCSchema(<<F("u", E("U"))>>, <<F("w", E("T")), Z>>,
                       <<Export("r", E("T")), Export("q", E("U"))>>),
              MCSchema(<<X, F("s", SetE("U"))>>, <<Id("string"), F("w", E("T"))>>,
                       <<Export("r", E("T"))>>)}
        \cup TreeOfSets \cup RefusedSchemas
=============================================================================
