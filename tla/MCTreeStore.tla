---------------------------- MODULE MCTreeStore -----------------------------
(* A set of tables keyed by numbers, each with a nested table and a nested *)
(* set keyed by strings, one of which is a prefix of the other.            *)
EXTENDS TreeStore

F(ty) == [ty |-> ty, rename_from |-> <<>>, primary |-> FALSE]
Id(ty) == [id |-> [ty |-> Prim(ty), rename_from |-> <<>>, primary |-> TRUE]]
T == Repr("T", <<>>)
U == Repr("U", <<>>)
M == Repr("M", <<>>)

MCSchema ==
  [types |-> (T :> (Id("int64") @@ [u |-> F(Table(U)), s |-> F(SetOf(M))]))
             @@ (U :> [z |-> F(Prim("int64"))])
             @@ (M :> Id("string")),
   exports |-> [r |-> SetOf(T)]]

MCKeyValue == [minus |-> [ty |-> "int64", v |-> -1], zero |-> [ty |-> "int64", v |-> 0],
               a |-> [ty |-> "string", v |-> <<97>>], ab |-> [ty |-> "string", v |-> <<97, 98>>]]
MCPrimaryKeys == DOMAIN MCKeyValue

\* Values of each type around the places where their bytes change most.
Samples ==
  [int64 |-> {-TOP_BIT, -TOP_BIT + 1, -256, -255, -1, 0, 1, 255, 256, TOP_BIT - 1},
   double |-> {0, 1, 255, 256, TOP_BIT - 1, TOP_BIT, TOP_BIT + 1, 2 * TOP_BIT - 256, 2 * TOP_BIT - 1},
   bytes |-> {<<>>, <<0>>, <<0, 0>>, <<0, 1>>, <<1>>, <<1, 0>>, <<255>>},
   string |-> {<<>>, <<97>>, <<97, 97>>, <<97, 98>>, <<98>>}]

\* serialize_for_key_component keeps the order of the values of a type.
ASSUME EncodingKeepsOrder ==
  \A ty \in DOMAIN Samples : \A v, w \in Samples[ty] :
    LET p == [ty |-> ty, v |-> v]
        q == [ty |-> ty, v |-> w]
    IN Below(p, q) <=> Less(serialize_for_key_component(p), serialize_for_key_component(q))
=============================================================================
