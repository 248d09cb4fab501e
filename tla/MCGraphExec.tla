---------------------------- MODULE MCGraphExec ----------------------------
(* All graphs the type checker accepts, up to a number of nodes.           *)
(* Parameters of nodes other than selects are unordered.                   *)
EXTENDS GraphTypes, SequencesExt

InEdges(n) == {<<>>} \cup {<<a>> : a \in 1 .. n - 1}
              \cup {<<a, b>> : a, b \in 1 .. n - 1}
Ascending(e) == Len(e) < 2 \/ e[1] < e[2]

PlainNodes(n, kinds) ==
  {x \in [kind : kinds, in : {e \in InEdges(n) : Ascending(e)}, pre : 0 .. n - 1] :
     x.kind = "isnull" => Len(x.in) = 1}
SelectNodes(n) ==
  [kind : {"select"}, in : {e \in InEdges(n) : Len(e) = 2 /\ e[1] # e[2]},
   pre : 0 .. n - 1]
NodesAt(n, kinds) == PlainNodes(n, kinds) \cup SelectNodes(n)

Extend(grs, n, kinds) ==
  {gr \in {Append(p, x) : p \in grs, x \in NodesAt(n, kinds)} :
     WellTyped(gr) /\ ~DoublyConnected(gr)}
GraphsOf3(kinds) == Extend(Extend(Extend({<<>>}, 1, kinds), 2, kinds), 3, kinds)

\* Of the graphs with four nodes, those that end with an effect or a select.
Graphs4 == Extend(GraphsOf3({"true", "false", "effect"}), 4, {"effect"})
Graphs3 == GraphsOf3({"true", "false", "null", "value", "isnull", "novalue", "nobool",
                      "effect", "throw"})
MCGraphs == Graphs3 \cup Graphs4

\* if c { effect(a, a) }: one node connected to two parameters of another.
Twice == {<<[kind |-> "value", in |-> <<>>, pre |-> 0],
            [kind |-> "effect", in |-> <<1, 1>>, pre |-> 0]>>}
=============================================================================
