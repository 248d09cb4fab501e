---------------------------- MODULE MCScriptExec ----------------------------
(* Scripts with an if and an if or a ?? inside it, on parameters that may  *)
(* be null; and the graphs of MCGraphExec.                                 *)
EXTENDS ScriptExec, MCGraphExec

P(x, b) == [x |-> x, b |-> b]
C == Name("c")
D == Name("d")
V == Name("v")
Flag(x) == {P(x, b) : b \in {"true", "false", "null"}}
Bool(x) == {P(x, b) : b \in {"true", "false"}}
Data(x) == {P(x, b) : b \in {"nil", "value"}}
Effect(e) == Do(Op("effect", <<e, C>>))

\* if c { .. } else { .. }, and what the branches leave.
Then == {<<Let("x", Const("true"))>>,
         <<If(D, <<Let("x", Const("true"))>>, <<>>)>>,
         <<If(D, <<Effect(D)>>, << <<Let("x", Const("false"))>> >>)>>,
         <<Throw(D)>>}
Else == {<<Let("y", Op("not", <<D>>))>>,
         <<If(D, <<Let("y", Const("false"))>>, <<>>), Effect(D)>>}
Uses == {<<Return(Op("select", <<Name("x"), Name("y")>>))>>,
         <<Return(Op("and", <<D, Name("y")>>))>>}
Branching ==
  {[params |-> <<c, d>>, stmts |-> <<If(C, then, << else >>)>> \o use] :
     c \in Flag("c"), d \in Bool("d"), then \in Then, else \in Else, use \in Uses}

\* v ?? .., by itself, inside an if and inside another ??.
Defaults == {<<Return(OrElse(V, Const("value")))>>,
             <<If(C, <<Let("x", OrElse(V, Const("value"))), Do(Op("effect", <<Name("x"), V>>))>>, <<>>)>>,
             <<Return(OrElse(OrElse(V, Const("nil")), Const("value")))>>}
Defaulting ==
  {[params |-> <<c, v>>, stmts |-> s] : c \in Flag("c"), v \in Data("v"), s \in Defaults}

MCScripts == Branching \cup Defaulting

\* v ?? w: the default is a name.
DefaultNames ==
  {[params |-> <<v, w>>, stmts |-> <<Return(OrElse(V, Name("w")))>>] :
     v \in Data("v"), w \in Data("w")}
=============================================================================
