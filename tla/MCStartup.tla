----------------------------- MODULE MCStartup ------------------------------
(* Two servers of one build and one of another, which drops a field,       *)
(* renames one and keeps a set of tables that refer to their own kind.     *)
EXTENDS StartupPlans

F(ty) == [ty |-> ty, rename_from |-> <<>>, primary |-> FALSE]
Id == [ty |-> Prim("string"), rename_from |-> <<>>, primary |-> TRUE]
N == Repr("N", <<>>)

V1 == [text |-> "v1",
       types |-> N :> [id |-> Id, a |-> F(Prim("string")), b |-> F(Prim("string")), up |-> F(Table(N))],
       exports |-> [ns |-> SetOf(N)]]
V2 == [text |-> "v2",
       types |-> N :> [id |-> Id, c |-> [F(Prim("string")) EXCEPT !.rename_from = <<"b">>],
                       up |-> F(Table(N))],
       exports |-> [ns |-> SetOf(N)]]

MCServers == {"s1", "s2", "s3"}
MCBuild == [s1 |-> V1, s2 |-> V1, s3 |-> V2]
=============================================================================
