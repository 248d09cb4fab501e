-------------------------- MODULE GraphExecProofs --------------------------
(***************************************************************************)
(* The data flow scheduler computes what a graph means, proved for every   *)
(* well typed graph in which no node is connected to another one twice,    *)
(* whatever its size and however its nodes interleave.                     *)
(*                                                                         *)
(* All the scheduler keeps is a function of the values that have been      *)
(* computed: Ready says which nodes they let fire, and a node is fired,    *)
(* once, exactly when it is ready (SchedulerInv).  The values agree with   *)
(* the meaning of the graph as long as no select is ambiguous (MeantInv).  *)
(***************************************************************************)
EXTENDS GraphExecLemmas

\* No node of a graph is connected to another one twice, through two parameters
\* or a parameter and the precondition.
Simple == \A gr \in Graphs : ~DoublyConnected(gr)

GraphInv ==
  /\ Sound(g)
  /\ output \in 0 .. Len(g)
  /\ meaning = Meaning(g)
  /\ val = [n \in Nodes |-> val[n]]

\* The values are those of ready nodes, and have the types of their nodes.
ValuesInv ==
  /\ \A n \in Nodes : val[n] # Missing => Ready(g, val, n) /\ ~Errs(g, n)
  /\ Typed(g, val)

\* The state of the scheduler follows from the values.
SchedulerInv ==
  /\ deps = [t \in Nodes |-> Received(g, val, t)]
  /\ pre_ok = [t \in Nodes |-> PreHolds(g, val, t)]
  /\ taken = [t \in Nodes |-> Ready(g, val, t) /\ t \notin Initial(g)]
  /\ fired = [t \in Nodes |-> IF Ready(g, val, t) THEN 1 ELSE 0]
  /\ futures = {Future(t, 1, ArgsOf(g, val, t)) : t \in Running(g, val)}
  /\ ret = IF output = 0 \/ val[output].b = "none" THEN Missing ELSE val[output]

\* The values are the meant ones; a query fails only for a throw, and panics only
\* for a value that is lacking.
MeantInv ==
  /\ status \in {"running", "ok", "error", "panic"}
  /\ status = "ok" => futures = {}
  /\ ~Ambiguous =>
       /\ \A n \in Nodes : val[n] # Missing => val[n] = meaning[n]
       /\ status = "panic" => Starves
       /\ status = "error" => Throws

Inv == GraphInv /\ ValuesInv /\ SchedulerInv /\ MeantInv

-----------------------------------------------------------------------------
\* The assignments of Complete, d, ok and F being what the two loops compute.
Moves(s, v, d, ok, F, f) ==
  /\ status = "running"
  /\ deps' = d
  /\ pre_ok' = ok
  /\ taken' = [t \in Nodes |-> taken[t] \/ t \in F]
  /\ fired' = [t \in Nodes |-> IF t \in F THEN fired[t] + Items(g, s, t) ELSE fired[t]]
  /\ futures' = Remaining(f) \cup UNION {Started(s, t, d) : t \in F}
  /\ val' = [val EXCEPT ![s] = v]
  /\ ret' = IF s # output THEN ret ELSE IF v.b = "none" THEN Missing ELSE v
  /\ UNCHANGED <<g, output, status, meaning>>

\* What can come of a node s that completes: run_node finds its parameters,
\* its error is a throw that is meant, its value is the meant one, and it can
\* be delivered unless it is lacking.
LEMMA Outcome ==
  ASSUME Inv, NEW s \in Running(g, val), NEW v, v = Result(g, s, ArgsOf(g, val, s))
  PROVE  /\ ~Panics(g, s, ArgsOf(g, val, s))
         /\ ~Errs(g, s) => Fits(TypeOf(g, s), v.b)
         /\ Errs(g, s) /\ ~Ambiguous => Throws
         /\ ~Errs(g, s) /\ ~Ambiguous =>
              v = meaning[s] /\ (DeliveryPanics(s, v) => Starves)
<1>1. /\ Sound(g) /\ meaning = Meaning(g) /\ Typed(g, val)
      /\ s \in Nodes /\ Ready(g, val, s) /\ val[s] = Missing
  BY DEF Inv, GraphInv, ValuesInv, Running, Nodes
<1>2. g \in Seq(GraphNodes) /\ WellTyped(g) /\ ~DoublyConnected(g)
  BY <1>1 DEF Sound
<1>3. ~Ambiguous => ~Clash(g, meaning) /\ Agree(g, val, meaning)
  <2>1. ASSUME Clash(g, meaning) PROVE Ambiguous
    BY <2>1 DEF Clash, Ambiguous, Present, Nodes
  <2>2. ~Ambiguous => Agree(g, val, meaning)
    BY DEF Inv, MeantInv, Agree, Nodes
  <2> QED BY <2>1, <2>2
<1>4. ~Panics(g, s, ArgsOf(g, val, s))
  <2> SUFFICES ASSUME ~IsSelect(g, s) PROVE ~(Len(ArgsOf(g, val, s)) < Len(g[s].in))
    BY DEF Panics
  <2>1. PICK k \in Nat : k = Len(g[s].in) /\ DOMAIN g[s].in = 1 .. k
    BY <1>1, <1>2, Edges DEF Nodes
  <2>2. PICK a : a = ArgsOf(g, val, s)
    OBVIOUS
  <2>3. a = [p \in 1 .. k |-> val[g[s].in[p]]]
    BY <2>1, <2>2 DEF ArgsOf, Received
  <2>4. Len(a) = k
    BY <2>3
  <2> QED BY <2>1, <2>2, <2>4
<1>5. ~Errs(g, s) => Fits(TypeOf(g, s), v.b)
  BY <1>1, ResultFits DEF Nodes
<1>6. ASSUME Errs(g, s), ~Ambiguous PROVE Throws
  <2>1. meaning[s].b = "throw"
    BY <1>1, <1>3, <1>6, ReadyIsMeant DEF Nodes
  <2> QED BY <1>1, <2>1 DEF Throws
<1>7. ASSUME ~Errs(g, s), ~Ambiguous PROVE v = meaning[s]
  BY <1>1, <1>3, <1>7, ReadyIsMeant DEF Nodes
<1>8. ASSUME ~Errs(g, s), ~Ambiguous, ~Starves PROVE ~DeliveryPanics(s, v)
  <2> SUFFICES ASSUME NEW t \in Nodes, t \in Targets(g, s)
               PROVE  /\ Params(g, s, t) # {} => ~taken[t] /\ v.b # "none"
                      /\ g[t].pre = s => v.b # "value"
    BY DEF DeliveryPanics, Targets, Nodes
  <2>1. ASSUME g[t].pre = s PROVE v.b # "value"
    <3>1. TypeOf(g, s) # "value"
      <4>1. s # 0
        BY <1>1, <1>2, LenProperties DEF Nodes
      <4>2. PreconditionTyped(g, t)
        BY <1>2 DEF WellTyped, Nodes
      <4> QED BY <2>1, <4>1, <4>2 DEF PreconditionTyped
    <3> QED BY <1>5, <1>8, <3>1 DEF Fits
  <2>2. ASSUME NEW p \in Params(g, s, t) PROVE ~taken[t] /\ v.b # "none"
    <3>1. p \in DOMAIN g[t].in /\ g[t].in[p] = s
      BY DEF Params
    <3>2. v.b # "none"
      BY <1>1, <1>7, <1>8 DEF Starves
    <3>3. v.b \in Results \ {"none"}
      BY <1>5, <1>8, <3>2 DEF Fits, Results
    <3>4. ASSUME taken[t] PROVE FALSE
      <4>1. Ready(g, val, t)
        BY <3>4, Zenon DEF Inv, SchedulerInv
      <4>2. IsSelect(g, t) /\ DOMAIN g[t].in = {1, 2}
        <5>1. IsSelect(g, t)
          BY <1>1, <3>1, <4>1 DEF Ready, Enough
        <5> QED BY <1>2, <5>1, Edges DEF IsSelect, Nodes
      <4>3. p \in Present(g, meaning, t)
        BY <1>7, <1>8, <3>1, <3>3 DEF Present, Results
      <4>4. PICK q \in DOMAIN g[t].in : val[g[t].in[q]] # Missing
        BY <4>1, <4>2 DEF Ready, Enough
      <4>5. q \in Present(g, meaning, t)
        BY <1>1, <1>3, <1>8, <4>4, ArrivedIsMeant DEF Nodes
      <4>6. q # p
        BY <1>1, <3>1, <4>4
      <4>7. Present(g, meaning, t) = DOMAIN g[t].in
        <5>1. Present(g, meaning, t) \subseteq DOMAIN g[t].in
          BY Zenon DEF Present
        <5>2. p \in {1, 2} /\ q \in {1, 2}
          BY <3>1, <4>2, <4>4, Zenon
        <5>3. {p, q} = {1, 2}
          BY <4>6, <5>2
        <5> QED BY <4>2, <4>3, <4>5, <5>1, <5>3, Zenon
      <4>8. ~Clash(g, meaning) /\ Agree(g, val, meaning) /\ t \in DOMAIN g
        BY <1>3, <1>8 DEF Nodes
      <4>9. IsSelect(g, t) => Present(g, meaning, t) # DOMAIN g[t].in
        BY <1>1, <4>1, <4>8, ReadyIsMeant
      <4> QED BY <4>2, <4>7, <4>9
    <3> QED BY <3>3, <3>4
  <2> QED BY <2>1, <2>2
<1> QED
  BY <1>4, <1>5, <1>6, <1>7, <1>8

\* The two loops over the fire rules of s, whose result is v: what they leave
\* follows from the values with v added, and they visit no node that was ready
\* before.
LEMMA Loops ==
  ASSUME Inv, NEW s \in Running(g, val), NEW v, v.b \in Results,
         ~DeliveryPanics(s, v), NEW w, Adds(g, val, s, v, w)
  PROVE  /\ Delivered(s, v) = [t \in Nodes |-> Received(g, w, t)]
         /\ PreAfter(s, v) = [t \in Nodes |-> PreHolds(g, w, t)]
         /\ \A t \in Targets(g, s) : ~Ready(g, val, t)
         /\ \A t \in Nodes : Fires(s, t, Delivered(s, v), PreAfter(s, v))
                               <=> t \in Targets(g, s) /\ Ready(g, w, t)
         /\ ~SelectErrs(s, Delivered(s, v), PreAfter(s, v))
<1>1. /\ Sound(g) /\ s \in Nodes /\ Ready(g, val, s) /\ val[s] = Missing
  BY DEF Inv, GraphInv, Running, Nodes
<1>2. g \in Seq(GraphNodes) /\ WellTyped(g) /\ ~DoublyConnected(g)
  BY <1>1 DEF Sound
<1>3. /\ deps = [t \in Nodes |-> Received(g, val, t)]
      /\ pre_ok = [t \in Nodes |-> PreHolds(g, val, t)]
      /\ taken = [t \in Nodes |-> Ready(g, val, t) /\ t \notin Initial(g)]
  BY DEF Inv, SchedulerInv
<1>4. Delivered(s, v) = [t \in Nodes |-> Received(g, w, t)]
  <2> SUFFICES ASSUME NEW t \in Nodes
               PROVE  [p \in DOMAIN deps[t] |-> IF p \in Params(g, s, t) THEN v ELSE deps[t][p]]
                        = Received(g, w, t)
    BY DEF Delivered
  <2>1. deps[t] = Received(g, val, t) /\ DOMAIN Received(g, val, t) = DOMAIN g[t].in
    BY <1>3 DEF Received
  <2>2. \A p \in DOMAIN g[t].in : w[g[t].in[p]] = IF p \in Params(g, s, t) THEN v
                                                   ELSE val[g[t].in[p]]
    BY <1>1, Completion DEF Nodes
  <2> QED BY <2>1, <2>2 DEF Received
<1>5. PreAfter(s, v) = [t \in Nodes |-> PreHolds(g, w, t)]
  <2> SUFFICES ASSUME NEW t \in Nodes
               PROVE  (IF g[t].pre = s THEN v.b \in {"true", "none"} ELSE pre_ok[t])
                        = PreHolds(g, w, t)
    BY DEF PreAfter
  <2>1. pre_ok[t] = PreHolds(g, val, t)
    BY <1>3
  <2>2. PreHolds(g, w, t) = IF g[t].pre = s THEN v.b \in {"true", "none"}
                            ELSE PreHolds(g, val, t)
    BY <1>1, Completion DEF Nodes
  <2> QED BY <2>1, <2>2
<1>6. ASSUME NEW t \in Targets(g, s) PROVE ~Ready(g, val, t)
  <2> SUFFICES ASSUME Ready(g, val, t) PROVE FALSE
    OBVIOUS
  <2>1. t \in Nodes
    BY DEF Targets, Nodes
  <2>2. g[t].pre # s /\ (Params(g, s, t) # {} => IsSelect(g, t))
    BY <1>1, <2>1, Completion DEF Nodes
  <2>3. Params(g, s, t) # {}
    BY <1>1, <1>2, <1>6, <2>1, <2>2, TargetsOnce DEF Nodes
  <2>4. t \notin Initial(g)
    <3>1. DOMAIN g[t].in = {1, 2}
      BY <1>2, <2>1, <2>2, <2>3, Edges DEF Nodes, IsSelect
    <3>2. 1 \notin DOMAIN <<>>
      OBVIOUS
    <3>3. g[t].in # <<>>
      BY <3>1, <3>2
    <3> QED BY <3>3 DEF Initial
  <2>5. taken[t]
    BY <1>3, <2>1, <2>4, Zenon
  <2> QED
    BY <1>6, <2>3, <2>5 DEF DeliveryPanics
<1>7. ASSUME NEW t \in Targets(g, s) PROVE t \in Nodes /\ ~taken[t]
  <2>1. t \in Nodes
    BY DEF Targets, Nodes
  <2> QED BY <1>3, <1>6, <2>1, Zenon
<1>8. PICK d : d = Delivered(s, v)
  OBVIOUS
<1>9. PICK ok : ok = PreAfter(s, v)
  OBVIOUS
<1>10. ASSUME NEW t \in Nodes
       PROVE  Fires(s, t, d, ok) <=> t \in Targets(g, s) /\ Ready(g, w, t)
  <2> SUFFICES ASSUME t \in Targets(g, s)
               PROVE  ok[t] /\ Suffices(t, d) <=> Ready(g, w, t)
    BY DEF Fires
  <2>1. ok[t] = PreHolds(g, w, t)
    BY <1>5, <1>9
  <2>2. /\ DOMAIN d[t] = DOMAIN g[t].in
        /\ \A p \in DOMAIN g[t].in : d[t][p] = w[g[t].in[p]]
    BY <1>4, <1>8 DEF Received
  <2>3. Suffices(t, d) <=> Enough(g, w, t)
    BY <1>7, <2>2 DEF Suffices, Enough
  <2> QED BY <2>1, <2>3 DEF Ready
<1>11. ~SelectErrs(s, d, ok)
  <2>1. \A t \in Targets(g, s) : ~taken[t] /\ ~(Items(g, s, t) > 1)
    BY <1>1, <1>2, <1>7 DEF DoublyConnected, Nodes
  <2> QED BY <2>1 DEF SelectErrs
<1> QED
  BY <1>4, <1>5, <1>6, <1>8, <1>9, <1>10, <1>11

\* The initial batch has the nodes that are ready without any value.
LEMMA InvInit ==
  ASSUME Simple, Init
  PROVE  Inv
<1>1. PICK gr \in Graphs :
        Start(gr, IF gr[Len(gr)].kind \in {"effect", "throw"} THEN 0 ELSE Len(gr))
  BY DEF Init
<1>2. PICK out : out = IF gr[Len(gr)].kind \in {"effect", "throw"} THEN 0 ELSE Len(gr)
  OBVIOUS
<1>3. Start(gr, out)
  BY <1>1, <1>2
<1>4. gr \in Seq(GraphNodes) /\ WellTyped(gr) /\ ~DoublyConnected(gr)
  BY GraphsAssumption, GraphsTyped DEF Simple
<1>5. PICK u : u = [n \in DOMAIN gr |-> Missing]
  BY Zenon
<1>6. /\ \A n \in DOMAIN gr : u[n] = Missing
      /\ u = [n \in DOMAIN gr |-> u[n]]
  BY <1>5
<1>7. ASSUME NEW t \in DOMAIN gr
      PROVE  /\ PreHolds(gr, u, t) = (gr[t].pre = 0)
             /\ Received(gr, u, t) = [p \in DOMAIN gr[t].in |-> Missing]
             /\ Ready(gr, u, t) <=> t \in Initial(gr)
             /\ t \in Initial(gr) => ArgsOf(gr, u, t) = <<>>
  <2>1. /\ \A p \in DOMAIN gr[t].in : gr[t].in[p] \in DOMAIN gr
        /\ gr[t].pre # 0 => gr[t].pre \in DOMAIN gr
        /\ IsSelect(gr, t) => DOMAIN gr[t].in = {1, 2}
    BY <1>4, Edges DEF IsSelect
  <2>2. PreHolds(gr, u, t) = (gr[t].pre = 0)
    BY <1>6, <2>1 DEF PreHolds, Missing
  <2>3. Received(gr, u, t) = [p \in DOMAIN gr[t].in |-> Missing]
    BY <1>6, <2>1 DEF Received
  <2>4. gr[t].in = <<>> <=> DOMAIN gr[t].in = {}
    <3>1. gr[t].in \in Seq(Nat \ {0})
      <4>1. gr[t] \in GraphNodes
        BY <1>4, ElementOfSeq, LenProperties
      <4> QED BY <4>1 DEF GraphNodes
    <3>2. DOMAIN gr[t].in = 1 .. Len(gr[t].in) /\ Len(gr[t].in) \in Nat
      BY <3>1, LenProperties
    <3>3. gr[t].in = <<>> <=> Len(gr[t].in) = 0
      BY <3>1, EmptySeq
    <3>4. \A k \in Nat : 1 .. k = {} <=> k = 0
      OBVIOUS
    <3> QED BY <3>2, <3>3, <3>4, Zenon
  <2>5. Enough(gr, u, t) <=> ~IsSelect(gr, t) /\ DOMAIN gr[t].in = {}
    BY <1>6, <2>1 DEF Enough
  <2>6. Ready(gr, u, t) <=> t \in Initial(gr)
    <3>1. IsSelect(gr, t) => DOMAIN gr[t].in # {}
      BY <2>1
    <3> QED BY <2>2, <2>4, <2>5, <3>1, Zenon DEF Ready, Initial
  <2>7. ASSUME t \in Initial(gr) PROVE ArgsOf(gr, u, t) = <<>>
    <3>1. DOMAIN gr[t].in = {} /\ ~IsSelect(gr, t)
      BY <2>1, <2>4, <2>7 DEF Initial
    <3>2. Received(gr, u, t) = [p \in {} |-> Missing]
      BY <2>3, <3>1
    <3>3. [p \in {} |-> Missing] = <<>>
      OBVIOUS
    <3> QED BY <3>1, <3>2, <3>3 DEF ArgsOf
  <2> QED BY <2>2, <2>3, <2>6, <2>7
<1>8. g = gr /\ output = out /\ val = u /\ meaning = Meaning(gr) /\ status = "running"
  BY <1>3, <1>5 DEF Start
<1>9. out \in 0 .. Len(gr)
  BY <1>2, <1>4, LenProperties
<1>10. GraphInv
  BY <1>4, <1>6, <1>8, <1>9 DEF GraphInv, Sound, Nodes
<1>11. ValuesInv
  <2>1. Missing.b # "none"
    BY DEF Missing
  <2>2. \A t \in DOMAIN gr : \A p \in DOMAIN gr[t].in : u[gr[t].in[p]] = Missing
    BY <1>4, <1>6, Edges
  <2>3. Typed(gr, u)
    BY <1>6, <2>1, <2>2, Zenon DEF Typed
  <2> QED BY <1>6, <1>8, <2>3, Zenon DEF ValuesInv, Nodes
<1>12. MeantInv
  BY <1>6, <1>8 DEF MeantInv, Nodes
<1>13. SchedulerInv
  <2>1. deps = [t \in Nodes |-> Received(g, val, t)]
    BY <1>3, <1>7, <1>8 DEF Start, Nodes
  <2>2. pre_ok = [t \in Nodes |-> PreHolds(g, val, t)]
    BY <1>3, <1>7, <1>8 DEF Start, Nodes
  <2>3. taken = [t \in Nodes |-> Ready(g, val, t) /\ t \notin Initial(g)]
    BY <1>3, <1>7, <1>8, Zenon DEF Start, Nodes
  <2>4. fired = [t \in Nodes |-> IF Ready(g, val, t) THEN 1 ELSE 0]
    BY <1>3, <1>7, <1>8 DEF Start, Nodes
  <2>5. futures = {Future(t, 1, ArgsOf(g, val, t)) : t \in Running(g, val)}
    <3>1. Running(g, val) = Initial(gr)
      BY <1>6, <1>7, <1>8, Zenon DEF Running, Initial
    <3>2. futures = {Future(t, 1, <<>>) : t \in Initial(gr)}
      BY <1>3 DEF Start
    <3>3. \A t \in Initial(gr) : ArgsOf(g, val, t) = <<>>
      BY <1>7, <1>8 DEF Initial
    <3> QED BY <3>1, <3>2, <3>3
  <2>6. ret = IF output = 0 \/ val[output].b = "none" THEN Missing ELSE val[output]
    <3>1. ret = Missing
      BY <1>3 DEF Start
    <3>2. output # 0 => output \in DOMAIN gr
      BY <1>4, <1>8, <1>9, LenProperties
    <3> QED BY <1>6, <1>8, <3>1, <3>2
  <2> QED
    BY <2>1, <2>2, <2>3, <2>4, <2>5, <2>6 DEF SchedulerInv
<1> QED
  BY <1>10, <1>11, <1>12, <1>13 DEF Inv

\* A query that ends keeps the state of the scheduler.
LEMMA StopKeeps ==
  ASSUME Inv, UNCHANGED <<g, output, deps, taken, pre_ok, futures, fired, val, ret, meaning>>
  PROVE  /\ GraphInv' /\ ValuesInv' /\ SchedulerInv'
         /\ Ambiguous' = Ambiguous /\ Throws' = Throws /\ Starves' = Starves
<1>1. GraphInv'
  BY DEF Inv, GraphInv, Nodes
<1>2. ValuesInv'
  BY DEF Inv, ValuesInv, Nodes
<1>3. SchedulerInv'
  BY DEF Inv, SchedulerInv, Nodes
<1>4. Ambiguous' = Ambiguous /\ Throws' = Throws /\ Starves' = Starves
  BY DEF Ambiguous, Throws, Starves, Nodes
<1> QED
  BY <1>1, <1>2, <1>3, <1>4

\* A value a node computed is there.
LEMMA ResultIsThere == ASSUME NEW v, v.b \in Results PROVE v # Missing
  BY DEF Results, Missing

\* A node that completes and can be delivered: its value is added, and the
\* nodes that have become ready are started, each of them for the first time.
LEMMA Delivery ==
  ASSUME Inv, NEW s \in Running(g, val), NEW v, Fits(TypeOf(g, s), v.b), ~Errs(g, s),
         ~DeliveryPanics(s, v), ~Ambiguous => v = meaning[s],
         NEW d, d = Delivered(s, v), NEW ok, ok = PreAfter(s, v),
         NEW F, F = {t \in Nodes : Fires(s, t, d, ok)},
         NEW f, f = Future(s, 1, ArgsOf(g, val, s)), Moves(s, v, d, ok, F, f)
  PROVE  Inv'
<1>1. /\ Sound(g) /\ Typed(g, val)
      /\ s \in Nodes /\ Ready(g, val, s) /\ val[s] = Missing
  BY DEF Inv, GraphInv, ValuesInv, Running, Nodes
<1>2. g \in Seq(GraphNodes) /\ WellTyped(g) /\ ~DoublyConnected(g)
  BY <1>1 DEF Sound
<1>3. v.b \in Results
  BY DEF Fits, Results
<1>4. PICK w : w = [val EXCEPT ![s] = v]
  BY Zenon
<1>5. val' = w /\ w = [n \in Nodes |-> w[n]] /\ \A n \in Nodes : w[n] = IF n = s THEN v ELSE val[n]
  <2>1. val = [n \in Nodes |-> val[n]]
    BY DEF Inv, GraphInv
  <2> QED BY <1>4, <2>1 DEF Moves
<1>6. Adds(g, val, s, v, w)
  BY <1>5 DEF Adds, Nodes
<1>7. /\ d = [t \in Nodes |-> Received(g, w, t)]
      /\ ok = [t \in Nodes |-> PreHolds(g, w, t)]
      /\ \A t \in Targets(g, s) : ~Ready(g, val, t)
      /\ F = {t \in Nodes : t \in Targets(g, s) /\ Ready(g, w, t)}
  BY <1>3, <1>6, Loops
<1>8. v # Missing
  BY <1>3, ResultIsThere, Zenon
<1>u. \A t \in Targets(g, s) : ~Ready(g, val, t)
  BY <1>7, Zenon
<1>f. \A t \in Nodes : t \in F <=> t \in Targets(g, s) /\ Ready(g, w, t)
  BY <1>7, Zenon
<1>9. ASSUME NEW t \in Nodes, Ready(g, val, t)
      PROVE  /\ t \notin Targets(g, s) /\ t \notin F
             /\ Ready(g, w, t) /\ ArgsOf(g, w, t) = ArgsOf(g, val, t)
  <2>1. t \notin Targets(g, s)
    BY <1>u, <1>9, Zenon
  <2>2. (Ready(g, w, t) <=> Ready(g, val, t)) /\ ArgsOf(g, w, t) = ArgsOf(g, val, t)
    <3>1. s \in DOMAIN g /\ t \in DOMAIN g
      BY <1>1, Zenon DEF Nodes
    <3>2. NotReached(g, val, s, v, w, t)
      BY <1>1, <1>6, <2>1, <3>1, Zenon DEF NotReached
    <3> QED BY <3>2, NonTargetRests
  <2> QED BY <1>f, <1>9, <2>1, <2>2, Zenon
<1>10. ASSUME NEW t \in Nodes, ~Ready(g, val, t)
       PROVE  Ready(g, w, t) <=> t \in F
  <2>1. t \notin Targets(g, s) => ~Ready(g, w, t)
    <3>1. s \in DOMAIN g /\ t \in DOMAIN g
      BY <1>1, Zenon DEF Nodes
    <3>2. t \notin Targets(g, s) => NotReached(g, val, s, v, w, t)
      BY <1>1, <1>6, <3>1, Zenon DEF NotReached
    <3> QED BY <1>10, <3>2, NonTargetRests
  <2> QED BY <1>f, <2>1, Zenon
<1>11. g' = g /\ Nodes' = Nodes /\ UNCHANGED <<output, status, meaning>> /\ status = "running"
  BY DEF Nodes, Moves
<1>12. GraphInv'
  BY <1>5, <1>11 DEF Inv, GraphInv
<1>13. ValuesInv'
  <2>1. ASSUME NEW n \in Nodes, w[n] # Missing PROVE Ready(g, w, n) /\ ~Errs(g, n)
    <3>1. Ready(g, val, n) /\ ~Errs(g, n)
      BY <1>1, <1>5, <2>1 DEF Inv, ValuesInv
    <3> QED BY <1>9, <3>1
  <2>2. Typed(g, w)
    <3>1. \A n \in DOMAIN g : w[n] # Missing => Fits(TypeOf(g, n), w[n].b)
      BY <1>1, <1>5 DEF Typed, Nodes
    <3>2. ASSUME NEW t \in DOMAIN g, NEW p \in DOMAIN g[t].in PROVE w[g[t].in[p]].b # "none"
      <4>1. g[t].in[p] \in Nodes
        BY <1>2, Edges DEF Nodes
      <4>2. CASE g[t].in[p] = s
        <5>1. p \in Params(g, s, t)
          BY <4>2 DEF Params
        <5>2. t \in Targets(g, s)
          BY <1>1, <1>2, <5>1, TargetsOnce DEF Nodes
        <5>3. v.b # "none"
          BY <5>1, <5>2 DEF DeliveryPanics
        <5> QED BY <1>5, <4>1, <4>2, <5>3
      <4>3. CASE g[t].in[p] # s
        BY <1>1, <1>5, <4>1, <4>3 DEF Typed
      <4> QED BY <4>2, <4>3
    <3> QED BY <3>1, <3>2 DEF Typed
  <2> QED
    BY <1>5, <1>11, <2>1, <2>2 DEF ValuesInv
<1>14. MeantInv'
  <2>1. Ambiguous' = Ambiguous /\ Throws' = Throws /\ Starves' = Starves
    BY <1>11 DEF Ambiguous, Throws, Starves, Nodes
  <2>2. ~Ambiguous => \A n \in Nodes : w[n] # Missing => w[n] = meaning[n]
    BY <1>5 DEF Inv, MeantInv
  <2> QED
    BY <1>5, <1>11, <2>1, <2>2 DEF MeantInv
<1>15. SchedulerInv'
  <2>1. deps' = [t \in Nodes |-> Received(g, w, t)]
    BY <1>7, Zenon DEF Moves
  <2>2. pre_ok' = [t \in Nodes |-> PreHolds(g, w, t)]
    BY <1>7 DEF Moves
  <2>3. taken' = [t \in Nodes |-> Ready(g, w, t) /\ t \notin Initial(g)]
    <3> SUFFICES ASSUME NEW t \in Nodes
                 PROVE  (taken[t] \/ t \in F) = (Ready(g, w, t) /\ t \notin Initial(g))
      BY DEF Moves
    <3>1. taken[t] = (Ready(g, val, t) /\ t \notin Initial(g))
      BY DEF Inv, SchedulerInv
    <3>2. CASE Ready(g, val, t)
      BY <1>9, <3>1, <3>2, Zenon
    <3>3. CASE ~Ready(g, val, t)
      <4>1. t \notin Initial(g)
        <5> SUFFICES ASSUME t \in Initial(g) PROVE FALSE
          OBVIOUS
        <5>1. g[t].pre = 0 /\ g[t].in = <<>>
          BY DEF Initial
        <5>2. DOMAIN g[t].in = {}
          BY <5>1
        <5>3. ~IsSelect(g, t)
          <6>1. g[t].kind = "select" => DOMAIN g[t].in = {1, 2}
            BY <1>2, Edges DEF Nodes
          <6> QED BY <5>2, <6>1 DEF IsSelect
        <5> QED BY <3>3, <5>1, <5>2, <5>3 DEF Ready, PreHolds, Enough
      <4> QED BY <1>10, <3>1, <3>3, <4>1, Zenon
    <3> QED BY <3>2, <3>3
  <2>4. fired' = [t \in Nodes |-> IF Ready(g, w, t) THEN 1 ELSE 0]
    <3> SUFFICES ASSUME NEW t \in Nodes
                 PROVE  (IF t \in F THEN fired[t] + Items(g, s, t) ELSE fired[t])
                          = IF Ready(g, w, t) THEN 1 ELSE 0
      BY DEF Moves
    <3>1. fired[t] = IF Ready(g, val, t) THEN 1 ELSE 0
      BY DEF Inv, SchedulerInv
    <3>2. CASE Ready(g, val, t)
      BY <1>9, <3>1, <3>2
    <3>3. CASE ~Ready(g, val, t)
      <4>1. t \in F => Items(g, s, t) = 1
        BY <1>1, <1>2, <1>7, TargetsOnce, Zenon DEF Nodes
      <4> QED BY <1>10, <3>1, <3>3, <4>1
    <3> QED BY <3>2, <3>3
  <2>5. futures' = {Future(t, 1, ArgsOf(g, w, t)) : t \in Running(g, w)}
    <3>1. ASSUME NEW t \in F PROVE Started(s, t, d) = {Future(t, 1, ArgsOf(g, w, t))}
      <4>1. t \in Nodes /\ t \in Targets(g, s) /\ ~Ready(g, val, t)
        BY <1>7
      <4>2. Items(g, s, t) = 1 /\ 1 .. 1 = {1}
        <5>1. Items(g, s, t) = 1
          BY <1>1, <1>2, <4>1, TargetsOnce, Zenon DEF Nodes
        <5>2. 1 .. 1 = {1}
          OBVIOUS
        <5> QED BY <5>1, <5>2, Zenon
      <4>3. fired[t] = 0 /\ ~taken[t]
        BY <4>1, Zenon DEF Inv, SchedulerInv
      <4>4. d[t] = Received(g, w, t)
        BY <1>7, <4>1
      <4>5. Started(s, t, d) =
              {Future(t, 0 + i, IF IsSelect(g, t) THEN <<FirstOf(d[t])>>
                                ELSE IF i = 1 /\ ~taken[t] THEN d[t] ELSE <<>>) : i \in {1}}
        BY <4>2, <4>3 DEF Started
      <4>6. ArgsOf(g, w, t) = IF IsSelect(g, t) THEN <<FirstOf(d[t])>> ELSE d[t]
        BY <4>4 DEF ArgsOf
      <4>7. 0 + 1 = 1
        OBVIOUS
      <4> QED BY <4>3, <4>5, <4>6, <4>7
    <3>2. UNION {Started(s, t, d) : t \in F} = {Future(t, 1, ArgsOf(g, w, t)) : t \in F}
      BY <3>1
    <3>3. Remaining(f) = {Future(t, 1, ArgsOf(g, w, t)) : t \in Running(g, val) \ {s}}
      <4>1. futures = {Future(t, 1, ArgsOf(g, val, t)) : t \in Running(g, val)}
        BY DEF Inv, SchedulerInv
      <4>2. \A t \in Running(g, val) : ArgsOf(g, w, t) = ArgsOf(g, val, t)
        BY <1>9 DEF Running, Nodes
      <4>3. futures = {Future(t, 1, ArgsOf(g, w, t)) : t \in Running(g, val)}
        BY <4>1, <4>2
      <4>4. f = Future(s, 1, ArgsOf(g, w, s))
        BY <4>2
      <4>5. \A t : Future(t, 1, ArgsOf(g, w, t)).node = t
        BY DEF Future
      <4> QED BY <4>3, <4>4, <4>5 DEF Remaining
    <3>4. Running(g, w) = (Running(g, val) \ {s}) \cup F
      <4>1. ASSUME NEW t \in Nodes
            PROVE  Ready(g, w, t) /\ w[t] = Missing
                     <=> (Ready(g, val, t) /\ val[t] = Missing /\ t # s) \/ t \in F
        <5>1. w[t] = Missing <=> t # s /\ val[t] = Missing
          BY <1>5, <1>8
        <5>2. CASE Ready(g, val, t)
          BY <1>9, <5>1, <5>2
        <5>3. CASE ~Ready(g, val, t)
          <6>1. t # s /\ val[t] = Missing
            BY <1>1, <5>3 DEF Inv, ValuesInv
          <6> QED BY <1>10, <5>1, <5>3, <6>1
        <5> QED BY <5>2, <5>3
      <4>2. F \subseteq Nodes
        BY <1>7
      <4> QED BY <4>1, <4>2 DEF Running, Nodes
    <3> QED BY <3>2, <3>3, <3>4, Zenon DEF Moves
  <2>6. ret' = IF output = 0 \/ w[output].b = "none" THEN Missing ELSE w[output]
    <3>1. ret = IF output = 0 \/ val[output].b = "none" THEN Missing ELSE val[output]
      BY DEF Inv, SchedulerInv
    <3>2. s # 0 /\ (output # 0 => output \in Nodes)
      BY <1>1, <1>2, LenProperties DEF Inv, GraphInv, Nodes
    <3> QED BY <1>5, <3>1, <3>2 DEF Moves
  <2>7. output' = output
    BY <1>11
  <2>8. val' = w /\ g' = g /\ Nodes' = Nodes
    BY <1>5, <1>11
  <2>9. deps' = [t \in Nodes' |-> Received(g', val', t)]
    BY <2>1, <2>8
  <2>10. pre_ok' = [t \in Nodes' |-> PreHolds(g', val', t)]
    BY <2>2, <2>8
  <2>11. taken' = [t \in Nodes' |-> Ready(g', val', t) /\ t \notin Initial(g')]
    BY <2>3, <2>8
  <2>12. fired' = [t \in Nodes' |-> IF Ready(g', val', t) THEN 1 ELSE 0]
    BY <2>4, <2>8
  <2>13. futures' = {Future(t, 1, ArgsOf(g', val', t)) : t \in Running(g', val')}
    BY <2>5, <2>8
  <2>14. ret' = IF output' = 0 \/ val'[output'].b = "none" THEN Missing ELSE val'[output']
    BY <2>6, <2>7, <2>8
  <2> QED
    BY <2>9, <2>10, <2>11, <2>12, <2>13, <2>14 DEF SchedulerInv
<1> QED
  BY <1>12, <1>13, <1>14, <1>15 DEF Inv

\* Every step of the scheduler preserves the invariant.
LEMMA InvNext ==
  ASSUME Inv, [Next]_vars
  PROVE  Inv'
<1>1. ASSUME NEW f \in futures, Complete(f) PROVE Inv'
  <2>1. PICK s \in Running(g, val) : f = Future(s, 1, ArgsOf(g, val, s))
    BY DEF Inv, SchedulerInv
  <2>2. f.node = s /\ f.args = ArgsOf(g, val, s)
    BY <2>1 DEF Future
  <2>3. PICK v : v = Result(g, s, ArgsOf(g, val, s))
    OBVIOUS
  <2>4. /\ ~Panics(g, s, f.args)
        /\ ~Errs(g, s) => Fits(TypeOf(g, s), v.b)
        /\ Errs(g, s) /\ ~Ambiguous => Throws
        /\ ~Errs(g, s) /\ ~Ambiguous =>
             v = meaning[s] /\ (DeliveryPanics(s, v) => Starves)
    BY <2>2, <2>3, Outcome
  <2>5. PICK d : d = Delivered(s, v)
    OBVIOUS
  <2>6. PICK ok : ok = PreAfter(s, v)
    OBVIOUS
  <2>7. PICK F : F = {t \in Nodes : Fires(s, t, d, ok)}
    BY Zenon
  <2>8. ~Errs(g, s) /\ ~DeliveryPanics(s, v) => ~SelectErrs(s, d, ok)
    <3> SUFFICES ASSUME ~Errs(g, s), ~DeliveryPanics(s, v) PROVE ~SelectErrs(s, d, ok)
      OBVIOUS
    <3>1. v.b \in Results
      BY <2>4 DEF Fits, Results
    <3>2. PICK w : w = [n \in DOMAIN g |-> IF n = s THEN v ELSE val[n]]
      BY Zenon
    <3>3. Adds(g, val, s, v, w)
      BY <3>2 DEF Adds
    <3> QED BY <2>5, <2>6, <3>1, <3>3, Loops
  <2>9. CASE Errs(g, s) \/ DeliveryPanics(s, v)
    <3>1. /\ status' = IF Errs(g, s) THEN "error" ELSE "panic"
          /\ UNCHANGED <<g, output, deps, taken, pre_ok, futures, fired, val, ret, meaning>>
      BY <1>1, <2>2, <2>3, <2>4, <2>9 DEF Complete, Stop
    <3>2. /\ GraphInv' /\ ValuesInv' /\ SchedulerInv'
          /\ Ambiguous' = Ambiguous /\ Throws' = Throws /\ Starves' = Starves
      BY <3>1, StopKeeps
    <3>3. MeantInv'
      <4>1. ~Ambiguous => \A n \in Nodes : val[n] # Missing => val[n] = meaning[n]
        BY DEF Inv, MeantInv
      <4>2. status' \in {"error", "panic"}
        BY <3>1
      <4>3. ~Ambiguous => IF status' = "error" THEN Throws ELSE Starves
        BY <2>4, <2>9, <3>1
      <4> QED BY <3>1, <3>2, <4>1, <4>2, <4>3 DEF MeantInv, Nodes
    <3> QED BY <3>2, <3>3 DEF Inv
  <2>10. CASE ~Errs(g, s) /\ ~DeliveryPanics(s, v)
    <3>1. Moves(s, v, d, ok, F, f)
      <4> DEFINE s0 == f.node
                 v0 == Result(g, s0, f.args)
                 d0 == Delivered(s0, v0)
                 ok0 == PreAfter(s0, v0)
                 F0 == {t \in Nodes : Fires(s0, t, d0, ok0)}
      <4>1. s0 = s /\ v0 = v
        BY <2>2, <2>3
      <4>2. d0 = d /\ ok0 = ok
        <5> HIDE DEF s0, v0
        <5> QED BY <2>5, <2>6, <4>1
      <4>3. F0 = F
        <5> HIDE DEF s0, d0, ok0
        <5> QED BY <2>7, <4>1, <4>2
      <4>4. /\ ~Panics(g, s0, f.args) /\ ~Errs(g, s0) /\ ~DeliveryPanics(s0, v0)
            /\ ~SelectErrs(s0, d0, ok0)
        <5> HIDE DEF s0, v0, d0, ok0
        <5> QED BY <2>4, <2>8, <2>10, <4>1, <4>2
      <4>5. Moves(s0, v0, d0, ok0, F0, f)
        BY <1>1, <4>4, Zenon DEF Complete, Moves
      <4> HIDE DEF s0, v0, d0, ok0, F0
      <4> QED BY <4>1, <4>2, <4>3, <4>5
    <3>2. Fits(TypeOf(g, s), v.b) /\ (~Ambiguous => v = meaning[s])
      BY <2>4, <2>10
    <3> QED BY <2>1, <2>5, <2>6, <2>7, <2>10, <3>1, <3>2, Delivery
  <2> QED BY <2>9, <2>10
<1>2. ASSUME Finish PROVE Inv'
  <2>1. /\ GraphInv' /\ ValuesInv' /\ SchedulerInv'
        /\ Ambiguous' = Ambiguous /\ Throws' = Throws /\ Starves' = Starves
    BY <1>2, StopKeeps DEF Finish
  <2>2. MeantInv'
    BY <1>2, <2>1 DEF Finish, Inv, MeantInv, Nodes
  <2> QED BY <2>1, <2>2 DEF Inv
<1>3. ASSUME UNCHANGED vars PROVE Inv'
  <2>1. /\ GraphInv' /\ ValuesInv' /\ SchedulerInv'
        /\ Ambiguous' = Ambiguous /\ Throws' = Throws /\ Starves' = Starves
    BY <1>3, StopKeeps DEF vars
  <2>2. MeantInv'
    BY <1>3, <2>1 DEF vars, Inv, MeantInv, Nodes
  <2> QED BY <2>1, <2>2 DEF Inv
<1> QED
  BY <1>1, <1>2, <1>3 DEF Next, Ended

\* What the invariant says of the properties.
LEMMA InvImplies ==
  ASSUME Inv
  PROVE  FiresOnce /\ OnlyMeantNodesFire /\ Confluent /\ OutputMeant
<1>1. Sound(g) /\ Typed(g, val) /\ meaning = Meaning(g)
  BY DEF Inv, GraphInv, ValuesInv
<1>2. \A n \in Nodes : fired[n] = IF Ready(g, val, n) THEN 1 ELSE 0
  BY DEF Inv, SchedulerInv
<1>3. ASSUME ~Ambiguous PROVE Agree(g, val, meaning) /\ ~Clash(g, meaning)
  <2>1. ASSUME Clash(g, meaning) PROVE Ambiguous
    BY <2>1 DEF Clash, Ambiguous, Present, Nodes
  <2>2. Agree(g, val, meaning)
    BY <1>3 DEF Inv, MeantInv, Agree, Nodes
  <2> QED BY <1>3, <2>1, <2>2
<1>4. ASSUME ~Ambiguous, NEW n \in Nodes, Ready(g, val, n) PROVE meaning[n] # Never
  <2>1. n \in DOMAIN g
    BY Zenon DEF Nodes
  <2>2. Agree(g, val, meaning) /\ ~Clash(g, meaning)
    BY <1>3, <1>4, Zenon
  <2> QED BY <1>1, <1>4, <2>1, <2>2, ReadyFires, Zenon
<1>5. ASSUME ~Ambiguous, status = "ok", NEW n \in Nodes, meaning[n] # Never
      PROVE  val[n] # Missing
  <2>1. Running(g, val) = {}
    BY <1>5 DEF Inv, SchedulerInv, MeantInv
  <2> QED BY <1>1, <1>3, <1>5, <2>1, AllMeantRun DEF Nodes
<1>6. FiresOnce
  <2> SUFFICES ASSUME NEW n \in Nodes PROVE fired[n] <= 1
    BY DEF FiresOnce
  <2> QED BY <1>2
<1>7. OnlyMeantNodesFire
  <2> SUFFICES ASSUME ~Ambiguous, NEW n \in Nodes, fired[n] > 0 PROVE meaning[n] # Never
    BY DEF OnlyMeantNodesFire
  <2>1. Ready(g, val, n)
    BY <1>2
  <2> QED BY <1>4, <2>1
<1>8. Confluent
  BY <1>5 DEF Confluent, Inv, MeantInv
<1>9. OutputMeant
  <2> SUFFICES ASSUME status = "ok", ~Ambiguous
               PROVE  /\ ~Throws /\ ~Starves
                      /\ ret = IF output = 0 \/ meaning[output].b \in {"never", "none"}
                               THEN Missing ELSE meaning[output]
    BY DEF OutputMeant
  <2>1. ASSUME NEW n \in Nodes PROVE val[n] = IF meaning[n] = Never THEN Missing ELSE meaning[n]
    <3>1. val[n] # Missing => val[n] = meaning[n] /\ Ready(g, val, n)
      BY DEF Inv, MeantInv, ValuesInv
    <3> QED BY <1>4, <1>5, <3>1
  <2>2. ~Throws
    <3> SUFFICES ASSUME NEW n \in Nodes, meaning[n].b = "throw" PROVE FALSE
      BY DEF Throws
    <3>1. meaning[n] # Never
      BY DEF Never
    <3>2. val[n] # Missing /\ val[n] = meaning[n]
      BY <1>5, <2>1, <3>1
    <3>3. Fits(TypeOf(g, n), val[n].b)
      BY <1>1, <3>2 DEF Typed, Nodes
    <3> QED BY <3>2, <3>3 DEF Fits, Results
  <2>5. ~Starves
    <3> SUFFICES ASSUME NEW n \in Nodes, meaning[n].b = "none",
                        NEW t \in Nodes, NEW p \in Params(g, n, t)
                 PROVE  FALSE
      BY DEF Starves
    <3>1. meaning[n] # Never
      BY DEF Never
    <3>2. val[n] = meaning[n]
      BY <2>1, <3>1
    <3>3. p \in DOMAIN g[t].in /\ g[t].in[p] = n
      BY DEF Params
    <3> QED BY <1>1, <3>2, <3>3 DEF Typed, Nodes
  <2>3. ret = IF output = 0 \/ val[output].b = "none" THEN Missing ELSE val[output]
    BY DEF Inv, SchedulerInv
  <2>4. output # 0 => output \in Nodes
    BY LenProperties DEF Inv, GraphInv, Sound, Nodes
  <2>6. ASSUME NEW n \in Nodes
        PROVE  (IF val[n].b = "none" THEN Missing ELSE val[n]) =
                 IF meaning[n].b \in {"never", "none"} THEN Missing ELSE meaning[n]
    <3>1. CASE meaning[n] = Never
      <4>1. val[n] = Missing /\ Missing.b = "missing" /\ Never.b = "never"
        BY <2>1, <3>1 DEF Never, Missing
      <4> QED BY <3>1, <4>1
    <3>2. CASE meaning[n] # Never
      <4>1. val[n] = meaning[n] /\ val[n] # Missing
        BY <1>5, <2>1, <3>2
      <4>2. val[n].b # "never"
        BY <1>1, <4>1 DEF Typed, Fits, Results, Nodes
      <4> QED BY <4>1, <4>2
    <3> QED BY <3>1, <3>2
  <2> QED BY <2>2, <2>3, <2>4, <2>5, <2>6
<1> QED
  BY <1>6, <1>7, <1>8, <1>9

-----------------------------------------------------------------------------
\* The state of recursively_run_graph is always the one that follows from the
\* values computed so far.
THEOREM Invariance ==
  ASSUME Simple
  PROVE  Spec => []Inv
<1>1. Init => Inv
  BY InvInit
<1>2. Inv /\ [Next]_vars => Inv'
  BY InvNext
<1> QED
  BY <1>1, <1>2, PTL DEF Spec

\* "Fire only once!": in a graph of any size in which no node is connected to
\* another one twice, the scheduler starts no node a second time.
THEOREM NodesFireOnce ==
  ASSUME Simple
  PROVE  Spec => []FiresOnce
<1>1. Inv => FiresOnce
  BY InvImplies
<1>2. Spec => []Inv
  BY Invariance
<1> QED
  BY <1>1, <1>2, PTL

\* The branch that is not taken has no effect: only nodes that the meaning of
\* the graph lets fire are started, in a query that is aborted too.
THEOREM OnlyMeantFire ==
  ASSUME Simple
  PROVE  Spec => []OnlyMeantNodesFire
<1>1. Inv => OnlyMeantNodesFire
  BY InvImplies
<1>2. Spec => []Inv
  BY Invariance
<1> QED
  BY <1>1, <1>2, PTL

\* Whatever the order in which select_all returns the futures, the values are
\* those the graph means, no node is left out, nothing indexes out of bounds,
\* only a throw aborts the query, and only a call whose subgraph gave no value,
\* where another node needs it, makes the scheduler panic.
THEOREM ScheduleIsConfluent ==
  ASSUME Simple
  PROVE  Spec => []Confluent
<1>1. Inv => Confluent
  BY InvImplies
<1>2. Spec => []Inv
  BY Invariance
<1> QED
  BY <1>1, <1>2, PTL

\* The output of a query that succeeds is the value its output node means, none
\* if that node does not fire or has no value; a query that throws or lacks a
\* value does not succeed.
THEOREM OutputIsMeant ==
  ASSUME Simple
  PROVE  Spec => []OutputMeant
<1>1. Inv => OutputMeant
  BY InvImplies
<1>2. Spec => []Inv
  BY Invariance
<1> QED
  BY <1>1, <1>2, PTL
=============================================================================
