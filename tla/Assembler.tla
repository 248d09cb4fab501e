----------------------------- MODULE Assembler ------------------------------
(***************************************************************************)
(* The assembler of TreeWalker scripts, asm/codegen.rs: the statements of  *)
(* a graph become nodes, an if becomes the precondition of the nodes in    *)
(* its branches.                                                           *)
(*                                                                         *)
(* An expression is a name or an operation on expressions; all operations  *)
(* that translate to a node of their own differ only in the node's kind,   *)
(* for which the scheduler's kinds are used.  A statement is [k, name, e,  *)
(* then, else]; a body is a sequence of statements.                        *)
(***************************************************************************)
EXTENDS Integers, Sequences, TLC

Name(x) == [op |-> "name", x |-> x, args |-> <<>>]
Op(kind, args) == [op |-> kind, x |-> "", args |-> args]
Const(b) == Op(b, <<>>)
OrElse(l, r) == Op("orelse", <<l, r>>)

Stmt(k, x, e, then, else) == [k |-> k, x |-> x, e |-> e, then |-> then, else |-> else]
Let(x, e) == Stmt("node", x, e, <<>>, <<>>)
Do(e) == Let("", e)
Return(e) == Stmt("return", "", e, <<>>, <<>>)
Throw(e) == Stmt("throw", "", e, <<>>, <<>>)
If(e, then, else) == Stmt("if", "", e, then, else)  \* else: at most one body

(***************************************************************************)
(* GraphContext: the nodes so far, the node of each name, the stack of     *)
(* conditions, the output and the first error.                             *)
(***************************************************************************)
Empty == [nodes |-> <<>>, names |-> <<>>, stack |-> <<>>, output |-> 0, err |-> ""]
Fail(ctx, why) == [ctx EXCEPT !.err = why]
Node(kind, in, pre) == [kind |-> kind, in |-> in, pre |-> pre]
Precondition(ctx) == IF ctx.stack = <<>> THEN 0 ELSE ctx.stack[Len(ctx.stack)]
Enter(ctx, cond) == [ctx EXCEPT !.stack = Append(@, cond)]
Leave(ctx) == [ctx EXCEPT !.stack = SubSeq(@, 1, Len(@) - 1)]

\* A result of the functions below: the context and the node.
At(ctx, n) == [ctx |-> ctx, n |-> n]

push_node(ctx, node, x) ==
  LET n == Len(ctx.nodes) + 1
      pushed == [ctx EXCEPT !.nodes = Append(@, node)]
  IN At(IF ctx.err # "" THEN ctx
        ELSE IF x = "" THEN pushed
        ELSE IF x \in DOMAIN ctx.names THEN Fail(pushed, "DuplicateNodeName")
        ELSE [pushed EXCEPT !.names = (x :> n) @@ @], n)

lookup_node(ctx, x) == IF x \in DOMAIN ctx.names THEN At(ctx, ctx.names[x])
                                                 ELSE At(Fail(ctx, "NodeNotFound"), 0)

\* Mutant of generate_condition: the conditions around it are forgotten.
generate_condition_inner(ctx, cond) == At(ctx, cond)

\* The condition, together with the conditions around it.
generate_condition(ctx, cond) ==
  IF ctx.stack = <<>> THEN At(ctx, cond)
  ELSE push_node(ctx, Node("and", <<cond, Precondition(ctx)>>, 0), "")

\* The effects InsertIntoSet, InsertIntoTable and DeleteFromSet translate the
\* set or table first and take it as their second parameter.
Edges(kind, ns) == IF kind = "effect" /\ Len(ns) = 2 THEN <<ns[2], ns[1]>> ELSE ns

\* From here on nodes go under the condition.
Under(cond) == Enter(cond.ctx, cond.n)

RECURSIVE generate_expr(_, _, _), Operands(_, _)
Operands(ctx, es) ==
  IF es = <<>> \/ ctx.err # "" THEN [ctx |-> ctx, ns |-> [i \in DOMAIN es |-> 0]]
  ELSE LET h == generate_expr(ctx, "", es[1])
           t == Operands(h.ctx, Tail(es))
       IN [ctx |-> t.ctx, ns |-> <<h.n>> \o t.ns]

\* l ?? r: two nodes ask whether l is null, and whether it is not.  A select
\* joins the default and a copy of l.
Negated(t) == push_node(t.ctx, Node("not", <<t.n>>, 0), "")
NullTest(l) == Negated(push_node(l.ctx, Node("isnull", <<l.n>>, 0), ""))
OnNull(not, r) == generate_expr(Under(generate_condition(not.ctx, not.n - 1)), "", r)
CopyUnder(cond, n) == push_node(cond.ctx, Node("nop", <<n>>, cond.n), "")
Joined(on_null, on_notnull, pre, x) ==
  push_node(on_notnull.ctx, Node("select", <<on_null.n, on_notnull.n>>, pre), x)

\* x is the name given to the node.  An expression that is a name stands for
\* the node it names, whatever the conditions around it, and names nothing.
generate_expr(ctx, x, e) ==
  CASE ctx.err # "" -> At(ctx, 0)
    [] e.op = "name" -> lookup_node(ctx, e.x)
    [] e.op = "orelse" ->
         LET l == generate_expr(ctx, "", e.args[1])
             not == NullTest(l)
             on_null == OnNull(not, e.args[2])
             on_notnull == CopyUnder(generate_condition(Leave(on_null.ctx), not.n), l.n)
         IN Joined(on_null, on_notnull, Precondition(ctx), x)
    [] OTHER ->
         LET o == Operands(ctx, e.args)
         IN push_node(o.ctx, Node(e.op, Edges(e.op, o.ns), Precondition(ctx)), x)

RECURSIVE Body(_, _)
\* The statements of a branch, under the condition c.n.
Branch(c, stmts) == Leave(Body(Under(generate_condition(c.ctx, c.n)), stmts))

\* A statement, when its expression has become v.
Finished(v, s) ==
  CASE s.k = "node" -> v.ctx
    [] s.k = "return" -> IF v.ctx.output # 0 THEN Fail(v.ctx, "DuplicateReturn")
                         ELSE [v.ctx EXCEPT !.output = v.n]
    [] s.k = "throw" -> push_node(v.ctx, Node("throw", <<v.n>>, Precondition(v.ctx)), "").ctx
    [] s.k = "if" ->
         LET then == Branch(v, s.then)
         IN IF s.else = <<>> THEN then ELSE Branch(Negated(At(then, v.n)), s.else[1])

generate_stmt(ctx, s) == Finished(generate_expr(ctx, s.x, s.e), s)

Body(ctx, stmts) ==
  IF stmts = <<>> \/ ctx.err # "" THEN ctx ELSE Body(generate_stmt(ctx, stmts[1]), Tail(stmts))

\* compile_twscript, for one graph.  params gives the parameters with the kind
\* of the value they have; their names are distinct (DuplicateParam).
RECURSIVE LoadParams(_, _)
LoadParams(ctx, params) ==
  IF params = <<>> \/ ctx.err # "" THEN ctx
  ELSE LoadParams(push_node(ctx, Node(params[1].b, <<>>, 0), params[1].x).ctx, Tail(params))

compile_twscript(script) == Body(LoadParams(Empty, script.params), script.stmts)
=============================================================================
