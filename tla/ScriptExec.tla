----------------------------- MODULE ScriptExec -----------------------------
(***************************************************************************)
(* Scripts, from their text to their result: a script is assembled, type   *)
(* checked and run by the scheduler.  What it should compute is said here  *)
(* without nodes, statement by statement.                                  *)
(***************************************************************************)
EXTENDS GraphTypes, Assembler

CONSTANT Scripts  \* [params, stmts]

VARIABLE script  \* the script that is run, or NoScript for a graph of Graphs

NoScript == [params |-> <<>>, stmts |-> <<>>]

(***************************************************************************)
(* The meaning of a script.  Its statements are gone through in order,     *)
(* those of a branch not taken too, but there live is FALSE and nothing    *)
(* gets a value.  A name refers to its value anywhere; a return says what  *)
(* the output is and ends nothing.  The state is [env, out, done, clash]:  *)
(* done has an entry per effect and throw, whether it happened; clash says *)
(* that a select was given two values.                                     *)
(***************************************************************************)
Undefined == "undefined"

RECURSIVE Evaluate(_, _, _), EvaluateAll(_, _, _)
EvaluateAll(s, live, es) ==
  IF es = <<>> THEN [s |-> s, vs |-> <<>>]
  ELSE LET h == Evaluate(s, live, es[1])
           t == EvaluateAll(h.s, live, Tail(es))
       IN [s |-> t.s, vs |-> <<h.v>> \o t.vs]

Evaluate(s, live, e) ==
  LET o == EvaluateAll(s, live, e.args)
      l == Evaluate(s, live, e.args[1])
      r == Evaluate(l.s, live /\ l.v = "null", e.args[2])
      defined == {p \in DOMAIN o.vs : o.vs[p] # Undefined}
      ready == live /\ defined = DOMAIN o.vs
      If_(c, v) == IF c THEN v ELSE Undefined
  IN CASE e.op = "name" -> [s |-> s, v |-> s.env[e.x]]
       [] e.op = "orelse" -> [s |-> r.s, v |-> If_(live, IF l.v = "null" THEN r.v ELSE l.v)]
       [] e.op = "select" ->
            [s |-> [o.s EXCEPT !.clash = @ \/ (live /\ Len(o.vs) = Cardinality(defined))],
             v |-> If_(live, IF 1 \in defined THEN o.vs[1] ELSE o.vs[2])]
       [] e.op = "effect" -> [s |-> [o.s EXCEPT !.done = Append(@, ready)], v |-> Undefined]
       [] e.op = "isnull" -> [s |-> o.s, v |-> If_(ready, Truth(o.vs[1] = "null"))]
       [] OTHER -> [s |-> o.s,
                    v |-> If_(ready, IF \E p \in defined : o.vs[p] = "null" THEN "null"
                                     ELSE Computed(e.op, o.vs))]

RECURSIVE Execute(_, _, _)
Execute(s, live, stmts) ==
  IF stmts = <<>> THEN s
  ELSE
  LET st == stmts[1]
      x == Evaluate(s, live, st.e)
      then == Execute(x.s, live /\ x.v = "true", st.then)
      after ==
        CASE st.k = "node" -> IF st.x = "" \/ st.e.op = "name" THEN x.s
                              ELSE [x.s EXCEPT !.env = (st.x :> x.v) @@ @]
          [] st.k = "return" -> [x.s EXCEPT !.out = x.v]
          [] st.k = "throw" -> [x.s EXCEPT !.done = Append(@, live /\ x.v # Undefined)]
          [] st.k = "if" -> IF st.else = <<>> THEN then
                            ELSE Execute(then, live /\ x.v = "false", st.else[1])
  IN Execute(after, live, Tail(stmts))

ScriptMeaning(sc) ==
  LET params == {sc.params[i] : i \in DOMAIN sc.params}
      env == [x \in {p.x : p \in params} |->
                Computed((CHOOSE p \in params : p.x = x).b, <<>>)]
  IN Execute([env |-> env, out |-> Undefined, done |-> <<>>, clash |-> FALSE], TRUE, sc.stmts)

-----------------------------------------------------------------------------
\* The script is assembled and type checked; one that connects two nodes twice
\* is left out, see FiresOnce.
Assembled(sc) ==
  LET ctx == compile_twscript(sc)
  IN /\ ctx.err = ""
     /\ WellTyped(ctx.nodes)
     /\ ctx.output # 0 => TypeOf(ctx.nodes, ctx.output) # "none"  \* ExpectingTypedNode
     /\ ~DoublyConnected(ctx.nodes)

ScriptInit ==
  \/ Init /\ script = NoScript
  \/ \E sc \in Scripts :
       /\ Assembled(sc)
       /\ script = sc
       /\ Start(compile_twscript(sc).nodes, compile_twscript(sc).output)

ScriptNext == Next /\ UNCHANGED script

ScriptSpec == ScriptInit /\ [][ScriptNext]_<<vars, script>>
FairScriptSpec == ScriptSpec /\ WF_vars(\/ \E f \in futures : Complete(f)
                                        \/ Finish)

-----------------------------------------------------------------------------
\* The effects and throws of the script, in the order the assembler has them.
Happenings == SelectSeq([n \in Nodes |-> n], LAMBDA n : g[n].kind \in {"effect", "throw"})

\* A script does what its text says, whatever the order in which its nodes
\* complete: a query that succeeds returns the value of its return statement,
\* has run the effects of the branches that were taken and no others, and has
\* not thrown; one that fails has a throw that is reached; and none panics,
\* unless the script itself gives a select two values.  The scripts call no
\* subgraphs; see Confluent for calls.
ScriptMeant ==
  script # NoScript =>
    LET m == ScriptMeaning(script)
        thrown == \E i \in DOMAIN m.done : m.done[i] /\ g[Happenings[i]].kind = "throw"
    IN ~m.clash =>
         /\ status # "panic"
         /\ status = "error" => thrown
         /\ status = "ok" =>
              /\ ~thrown
              /\ IF m.out = Undefined THEN ret = Missing ELSE ret.b = m.out
              /\ \A i \in DOMAIN m.done : m.done[i] <=> fired[Happenings[i]] > 0
=============================================================================
