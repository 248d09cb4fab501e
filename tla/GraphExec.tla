----------------------------- MODULE GraphExec -----------------------------
(***************************************************************************)
(* The data flow scheduler of the TreeWalker VM: recursively_run_graph and *)
(* generate_fire_rules of rdb-analyzer/src/data/treewalker/exec.rs.  A     *)
(* graph is a sequence of nodes; a node fires when its precondition holds  *)
(* and its parameters (one of them, for a select) have arrived.  Fired     *)
(* nodes are futures that complete in any order.                           *)
(*                                                                         *)
(* What a node computes is abstracted to what the scheduler can see of it: *)
(* whether it is true, false, null, other data or no value at all (an      *)
(* effect), and a term recording where the value came from.  A call of a   *)
(* subgraph is data or a boolean like any other, unless the output node of *)
(* the subgraph does not fire, being in a branch that is not taken: then   *)
(* the call has a type but no value ("novalue", "nobool").                 *)
(***************************************************************************)
EXTENDS Integers, Sequences, FiniteSets

CONSTANT Graphs  \* the graphs of a run

\* A graph: its nodes, each with its parameters and the node that is its
\* precondition, 0 if it has none.
Kinds == {"true", "false", "null", "nil", "value", "isnull", "not", "and", "nop",
          "select", "novalue", "nobool", "effect", "throw"}
GraphNodes == [kind : Kinds, in : Seq(Nat \ {0}), pre : Nat]

ASSUME GraphsAssumption == Graphs \subseteq Seq(GraphNodes)

VARIABLES g,        \* the graph
          output,   \* its output node, 0 if it has none
          deps,     \* deps_satisfied: per node, the parameters that arrived
          taken,    \* per node: deps_satisfied was replaced by the empty list
          pre_ok,   \* precondition_satisfied
          futures,  \* the running nodes
          fired,    \* history: how often each node was started
          val,      \* history: the result of each node that completed
          ret,      \* the value of the output node
          status,   \* "running", "ok", "error" or "panic"
          meaning   \* history: what the values of the nodes should be

vars == <<g, output, deps, taken, pre_ok, futures, fired, val, ret, status, meaning>>

Nodes == DOMAIN g
IsSelect(gr, t) == gr[t].kind = "select"

\* Values: their kind and their origin.
Value(b, node, args) ==
  [b |-> b, term |-> [node |-> node, args |-> [p \in DOMAIN args |-> args[p].term]]]
Missing == [b |-> "missing", term |-> [node |-> 0, args |-> <<>>]]
None(node) == Value("none", node, <<>>)

\* The fire rule items from s to t: one per parameter and one for the
\* precondition.
Params(gr, s, t) == {p \in DOMAIN gr[t].in : gr[t].in[p] = s}
Items(gr, s, t) == Cardinality(Params(gr, s, t)) + (IF gr[t].pre = s THEN 1 ELSE 0)
Targets(gr, s) == {t \in DOMAIN gr : Items(gr, s, t) > 0}

(***************************************************************************)
(* run_node.  A node started with fewer parameters than it has indexes out *)
(* of bounds.  A throw is an error.  IsNull and Nop look at their          *)
(* parameter; a null parameter makes every other node null, or skips its   *)
(* effect.  Apart from Not and And, a node is what its kind says.          *)
(***************************************************************************)
Panics(gr, n, args) == ~IsSelect(gr, n) /\ Len(args) < Len(gr[n].in)
Errs(gr, n) == gr[n].kind = "throw"
Truth(x) == IF x THEN "true" ELSE "false"
Computed(kind, bs) == CASE kind = "not" -> Truth(bs[1] = "false")
                        [] kind = "and" -> Truth(bs[1] = "true" /\ bs[2] = "true")
                        [] kind = "nil" -> "null"  \* a null that is no boolean
                        [] OTHER -> kind
Result(gr, n, args) ==
  IF IsSelect(gr, n) THEN args[1]
  ELSE IF gr[n].kind = "effect" THEN None(n)
  ELSE IF gr[n].kind = "isnull"
       THEN Value(Truth(args[1].b = "null"), n, args)
  ELSE IF gr[n].kind = "nop" THEN Value(args[1].b, n, args)
  ELSE IF \E p \in DOMAIN args : args[p].b = "null" THEN Value("null", n, <<>>)
  ELSE IF gr[n].kind \in {"novalue", "nobool"} THEN None(n)
  ELSE Value(Computed(gr[n].kind, [p \in DOMAIN args |-> args[p].b]), n, args)

(***************************************************************************)
(* What a graph means, without a scheduler: the value of every node, from  *)
(* the first to the last.  "never" is the value of a node that must not    *)
(* fire, be it for want of a parameter.                                    *)
(***************************************************************************)
Never == [b |-> "never", term |-> [node |-> 0, args |-> <<>>]]

\* The value of node n, m having those of the nodes before it.
Meant(gr, n, m) ==
  LET args == [p \in DOMAIN gr[n].in |-> m[gr[n].in[p]]]
      present == {p \in DOMAIN args : args[p].b \notin {"never", "throw", "none"}}
      gate == gr[n].pre = 0 \/ m[gr[n].pre].b \in {"true", "none"}
      enough == IF IsSelect(gr, n) THEN present # {} ELSE present = DOMAIN args
      first == CHOOSE p \in present : \A q \in present : p <= q
  IN IF ~gate \/ ~enough THEN Never
     ELSE IF Errs(gr, n) THEN Value("throw", n, args)
     ELSE Result(gr, n, IF IsSelect(gr, n) THEN <<args[first]>> ELSE args)

Meanings(gr) ==
  LET M[n \in 0 .. Len(gr)] ==
        IF n = 0 THEN <<>> ELSE LET m == M[n - 1] IN Append(m, Meant(gr, n, m))
  IN M

Meaning(gr) == Meanings(gr)[Len(gr)]

-----------------------------------------------------------------------------
Future(n, copy, args) == [node |-> n, copy |-> copy, args |-> args]

\* The initial batch: no parameters and no precondition.
Initial(gr) == {n \in DOMAIN gr : gr[n].in = <<>> /\ gr[n].pre = 0}

Start(gr, out) ==
  /\ g = gr
  /\ output = out
  /\ deps = [n \in DOMAIN gr |-> [p \in DOMAIN gr[n].in |-> Missing]]
  /\ taken = [n \in DOMAIN gr |-> FALSE]
  /\ pre_ok = [n \in DOMAIN gr |-> gr[n].pre = 0]
  /\ futures = {Future(n, 1, <<>>) : n \in Initial(gr)}
  /\ fired = [n \in DOMAIN gr |-> IF n \in Initial(gr) THEN 1 ELSE 0]
  /\ val = [n \in DOMAIN gr |-> Missing]
  /\ ret = Missing
  /\ status = "running"
  /\ meaning = Meaning(gr)

\* A graph of no script: its output is its last node, if that has a value.
Init == \E gr \in Graphs :
          Start(gr, IF gr[Len(gr)].kind \in {"effect", "throw"} THEN 0 ELSE Len(gr))

\* The first loop over the fire rules of s, whose result is v.
Delivered(s, v) ==
  [t \in Nodes |-> [p \in DOMAIN deps[t] |->
     IF p \in Params(g, s, t) THEN v ELSE deps[t][p]]]

\* Mutant of PreAfter: an effect does not satisfy a precondition.
PreAfterEffectFails(s, v) ==
  [t \in Nodes |-> IF g[t].pre = s THEN v.b = "true" ELSE pre_ok[t]]

PreAfter(s, v) ==
  [t \in Nodes |-> IF g[t].pre = s THEN v.b \in {"true", "none"} ELSE pre_ok[t]]

\* Storing a parameter of a node whose list was taken is out of bounds, and what
\* has no value cannot be stored; a precondition is a boolean, null or none.
DeliveryPanics(s, v) ==
  \E t \in Targets(g, s) :
    \/ Params(g, s, t) # {} /\ (taken[t] \/ v.b = "none")
    \/ g[t].pre = s /\ v.b = "value"

\* Mutant of Suffices: a select waits for both of its candidates.
SufficesAll(t, d) == taken[t] \/ \A p \in DOMAIN d[t] : d[t][p] # Missing

\* The second loop: the parameters of t suffice.  A taken list has no missing
\* element, so for a node that is no select it always suffices.
Suffices(t, d) ==
  IF IsSelect(g, t) THEN ~taken[t] /\ \E p \in DOMAIN d[t] : d[t][p] # Missing
                    ELSE taken[t] \/ \A p \in DOMAIN d[t] : d[t][p] # Missing

\* Mutant of Fires: the precondition is not looked at.
FiresAnyway(s, t, d, ok) == t \in Targets(g, s) /\ Suffices(t, d)

Fires(s, t, d, ok) == t \in Targets(g, s) /\ ok[t] /\ Suffices(t, d)

\* The select returns an error when it is visited again after it was taken.
SelectErrs(s, d, ok) ==
  \E t \in Targets(g, s) :
    /\ IsSelect(g, t) /\ ok[t]
    /\ taken[t] \/ (Suffices(t, d) /\ Items(g, s, t) > 1)

FirstOf(ds) == ds[CHOOSE p \in DOMAIN ds : /\ ds[p] # Missing
                                           /\ \A q \in 1 .. p - 1 : ds[q] = Missing]

\* One future per visit; the first takes the parameters, a later one of the
\* same node finds none.
Started(s, t, d) ==
  {Future(t, fired[t] + i,
          IF IsSelect(g, t) THEN <<FirstOf(d[t])>>
          ELSE IF i = 1 /\ ~taken[t] THEN d[t] ELSE <<>>) : i \in 1 .. Items(g, s, t)}

Stop(how) == /\ status' = how
             /\ UNCHANGED <<g, output, deps, taken, pre_ok, futures, fired, val, ret, meaning>>

\* Mutant of Remaining: the completed future is polled again.
RemainingAll(f) == futures

Remaining(f) == futures \ {f}

\* select_all returns any of the futures; both loops run before the next one.
Complete(f) ==
  /\ status = "running"
  /\ f \in futures
  /\ LET s == f.node
         v == Result(g, s, f.args)
         d == Delivered(s, v)
         ok == PreAfter(s, v)
         F == {t \in Nodes : Fires(s, t, d, ok)}
     IN  IF Panics(g, s, f.args) THEN Stop("panic")
         ELSE IF Errs(g, s) THEN Stop("error")
         ELSE IF DeliveryPanics(s, v) THEN Stop("panic")
         ELSE IF SelectErrs(s, d, ok) THEN Stop("error")
         ELSE /\ deps' = d
              /\ pre_ok' = ok
              /\ taken' = [t \in Nodes |-> taken[t] \/ t \in F]
              /\ fired' = [t \in Nodes |-> IF t \in F THEN fired[t] + Items(g, s, t)
                                                      ELSE fired[t]]
              /\ futures' = Remaining(f) \cup UNION {Started(s, t, d) : t \in F}
              /\ val' = [val EXCEPT ![s] = v]
              /\ ret' = IF s # output THEN ret ELSE IF v.b = "none" THEN Missing ELSE v
              /\ UNCHANGED <<g, output, status, meaning>>

Finish == /\ status = "running" /\ futures = {}
          /\ status' = "ok"
          /\ UNCHANGED <<g, output, deps, taken, pre_ok, futures, fired, val, ret, meaning>>

Ended == status # "running" /\ UNCHANGED vars

Next == (\E f \in futures : Complete(f)) \/ Finish \/ Ended

Spec == Init /\ [][Next]_vars

\* select_all polls every future: a query is not left alone while it can move.
FairSpec == Spec /\ WF_vars(\/ \E f \in futures : Complete(f)
                            \/ Finish)

-----------------------------------------------------------------------------
\* Both candidates of some select fire, and so does the select.
Ambiguous ==
  \E n \in Nodes :
    /\ IsSelect(g, n)
    /\ meaning[n] # Never
    /\ \A p \in DOMAIN g[n].in : meaning[g[n].in[p]].b \notin {"never", "throw", "none"}

Throws == \E n \in Nodes : meaning[n].b = "throw"

\* A node that has no value is a parameter of another: "is a parameter dependency
\* of some other nodes but does not produce a value".
Starves ==
  \E n \in Nodes : meaning[n].b = "none" /\ \E t \in Nodes : Params(g, n, t) # {}

\* A node is connected to another one twice: through two parameters, or
\* through a parameter and the precondition.
DoublyConnected(gr) == \E s, t \in DOMAIN gr : Items(gr, s, t) > 1

-----------------------------------------------------------------------------
\* "Fire only once!": however the futures interleave, no node is started twice.
FiresOnce == \A n \in Nodes : fired[n] <= 1

\* A node is started only if the meaning of the graph lets it fire: the branch
\* not taken has no effect, not even in a query that is aborted later.
OnlyMeantNodesFire ==
  ~Ambiguous => \A n \in Nodes : fired[n] > 0 => meaning[n] # Never

\* Whatever the schedule, a query without an ambiguous select computes the
\* values the graph means, runs every node it means, fails only for a throw, and
\* panics only for a call that gives no value where one is needed.
Confluent ==
  ~Ambiguous =>
    /\ \A n \in Nodes : val[n] # Missing => val[n] = meaning[n]
    /\ status = "ok" => \A n \in Nodes : meaning[n] # Never => val[n] # Missing
    /\ status = "panic" => Starves
    /\ status = "error" => Throws

\* The output of a query that succeeds is the value of its output node, none if
\* that does not fire or is a call without a value; a query in which a throw
\* fires, or a call lacks the value that another node needs, does not succeed.
OutputMeant ==
  status = "ok" /\ ~Ambiguous =>
    /\ ~Throws /\ ~Starves
    /\ ret = IF output = 0 \/ meaning[output].b \in {"never", "none"} THEN Missing
             ELSE meaning[output]

\* Every query comes to an end.
Terminates == <>(status # "running")
=============================================================================
