---------------------------- MODULE MCTypedEval -----------------------------
(* A set of tables with a nested set, and a table with a double and        *)
(* without a primary key.                                                  *)
EXTENDS TypedEval

F(ty) == [ty |-> ty, rename_from |-> <<>>, primary |-> FALSE]
Id == [ty |-> Prim("string"), rename_from |-> <<>>, primary |-> TRUE]
T == Repr("T", <<>>)
M == Repr("M", <<>>)
K == Repr("K", <<>>)

MCSchema ==
  [types |-> (T :> [id |-> Id, d |-> F(SetOf(M))]) @@ (M :> [id |-> Id]) @@ (K :> [d |-> F(Prim("double"))]),
   exports |-> [id |-> SetOf(T), d |-> Table(K)]]

\* invoke_query_msgpack sends numbers and bytes as such, invoke_query as text.
MCConfigs == {[int64 |-> b, double |-> b, bytes |-> b] : b \in BOOLEAN}
MCTypes == {VmPrim("string"), VmPrim("double"), VmTable(M), VmTable(K),
            VmList(VmTable(M)), VmMap([id |-> VmPrim("string")])}
MCInputs == {WireNull, Wire("string", "string"), Wire("double", "positive"), Wire("double", "negative"),
             WireList(<<WireNull>>), WireMap([id |-> Wire("string", "string")])}
=============================================================================
