-------------------------- MODULE GraphExecLemmas --------------------------
(***************************************************************************)
(* What the graph of a query, the values of some of its nodes and its      *)
(* meaning have to do with each other: the lemmas about the operators of   *)
(* GraphExec and GraphTypes that the proofs of the scheduler rest on.      *)
(* None of them speaks of the scheduler's variables.                       *)
(***************************************************************************)
EXTENDS GraphTypes, SequenceTheorems, FiniteSetTheorems, Induction, TLAPS

\* What the results of run_node look like to the scheduler.
Results == {"true", "false", "null", "value", "none"}

\* A result of a node fits its type; a call may lack the value it should have.
Fits(ty, b) == IF ty = "none" THEN b = "none"
               ELSE IF ty = "value" THEN b \in Results
               ELSE b \in {"true", "false", "null", "none"}

-----------------------------------------------------------------------------
(* A node t of a graph gr, the values v having been computed so far.       *)
PreHolds(gr, v, t) == gr[t].pre = 0 \/ v[gr[t].pre].b \in {"true", "none"}

Received(gr, v, t) == [p \in DOMAIN gr[t].in |-> v[gr[t].in[p]]]

Enough(gr, v, t) ==
  IF IsSelect(gr, t) THEN \E p \in DOMAIN gr[t].in : v[gr[t].in[p]] # Missing
                     ELSE \A p \in DOMAIN gr[t].in : v[gr[t].in[p]] # Missing

Ready(gr, v, t) == PreHolds(gr, v, t) /\ Enough(gr, v, t)

ArgsOf(gr, v, t) ==
  IF IsSelect(gr, t) THEN <<FirstOf(Received(gr, v, t))>> ELSE Received(gr, v, t)

Running(gr, v) == {t \in DOMAIN gr : Ready(gr, v, t) /\ v[t] = Missing}

-----------------------------------------------------------------------------
\* The graphs the proofs are about: the type checker accepts them, and no node is
\* connected to another one twice.
Sound(gr) == gr \in Seq(GraphNodes) /\ WellTyped(gr) /\ ~DoublyConnected(gr)

\* The values fit the types of their nodes, and what is a parameter has one.
Typed(gr, v) ==
  /\ \A n \in DOMAIN gr : v[n] # Missing => Fits(TypeOf(gr, n), v[n].b)
  /\ \A t \in DOMAIN gr : \A p \in DOMAIN gr[t].in : v[gr[t].in[p]].b # "none"

\* The values w are the values u and x, the value of s.
Adds(gr, u, s, x, w) == \A n \in DOMAIN gr : w[n] = IF n = s THEN x ELSE u[n]

(* The values v against the meaning m of the graph: where they agree, the   *)
(* candidates of a node that are there, and an ambiguous select.            *)
Agree(gr, v, m) == \A n \in DOMAIN gr : v[n] # Missing => v[n] = m[n]

Present(gr, m, t) == {p \in DOMAIN gr[t].in : m[gr[t].in[p]].b \notin {"never", "throw", "none"}}

Clash(gr, m) ==
  \E n \in DOMAIN gr :
    IsSelect(gr, n) /\ m[n] # Never /\ Present(gr, m, n) = DOMAIN gr[n].in

-----------------------------------------------------------------------------
\* What typeck_graph lets the other proofs rely on: the parameters and the
\* precondition of a node are earlier nodes, and their number is right.
LEMMA Edges ==
  ASSUME NEW gr \in Seq(GraphNodes), WellTyped(gr), NEW t \in DOMAIN gr
  PROVE  /\ t \in Nat /\ gr[t].kind \in Kinds
         /\ Len(gr[t].in) \in Nat /\ DOMAIN gr[t].in = 1 .. Len(gr[t].in)
         /\ \A p \in DOMAIN gr[t].in : gr[t].in[p] \in DOMAIN gr /\ gr[t].in[p] < t
         /\ gr[t].pre \in Nat
         /\ gr[t].pre # 0 => gr[t].pre \in DOMAIN gr /\ gr[t].pre < t
         /\ gr[t].kind \in {"not", "isnull", "nop"} => DOMAIN gr[t].in = {1}
         /\ gr[t].kind \in {"and", "select"} => DOMAIN gr[t].in = {1, 2}
<1>1. DOMAIN gr = 1 .. Len(gr) /\ Len(gr) \in Nat
  BY LenProperties
<1>2. gr[t] \in GraphNodes
  BY ElementOfSeq, <1>1
<1>3. gr[t].kind \in Kinds /\ gr[t].in \in Seq(Nat \ {0}) /\ gr[t].pre \in Nat
  BY <1>2 DEF GraphNodes
<1>4. DOMAIN gr[t].in = 1 .. Len(gr[t].in) /\ Len(gr[t].in) \in Nat
  BY <1>3, LenProperties
<1>5. \A p \in DOMAIN gr[t].in : gr[t].in[p] \in Nat \ {0}
  BY <1>3, <1>4, ElementOfSeq
<1>6. InEdgesCounted(gr, t) /\ InEdgesTyped(gr, t) /\ PreconditionTyped(gr, t)
  BY DEF WellTyped
<1>7. \A p \in DOMAIN gr[t].in : gr[t].in[p] < t
  BY <1>6 DEF InEdgesTyped
<1>8. gr[t].pre # 0 => gr[t].pre < t
  BY <1>6 DEF PreconditionTyped
<1>9. /\ gr[t].kind \in {"not", "isnull", "nop"} => DOMAIN gr[t].in = {1}
      /\ gr[t].kind \in {"and", "select"} => DOMAIN gr[t].in = {1, 2}
  <2>1. 1 .. 1 = {1} /\ 1 .. 2 = {1, 2}
    OBVIOUS
  <2>2. /\ gr[t].kind \in {"not", "isnull", "nop"} => Len(gr[t].in) = 1
        /\ gr[t].kind \in {"and", "select"} => Len(gr[t].in) = 2
    BY <1>6 DEF InEdgesCounted
  <2> QED BY <1>4, <2>1, <2>2, Zenon
<1> QED
  BY <1>1, <1>3, <1>4, <1>5, <1>7, <1>8, <1>9

\* The vector of types that typeck_graph fills in order is well defined: the
\* type of a select or a nop is that of its first parameter.
LEMMA TypesUnfold ==
  ASSUME NEW gr \in Seq(GraphNodes), WellTyped(gr), NEW t \in DOMAIN gr
  PROVE  TypeOf(gr, t) =
           CASE gr[t].kind \in {"select", "nop"} -> TypeOf(gr, gr[t].in[1])
             [] gr[t].kind \in {"effect", "throw"} -> "none"
             [] gr[t].kind \in {"value", "nil", "novalue"} -> "value"
             [] OTHER -> "bool"
<1> DEFINE Ty(f, n) == CASE gr[n].kind \in {"select", "nop"} -> f[gr[n].in[1]]
                         [] gr[n].kind \in {"effect", "throw"} -> "none"
                         [] gr[n].kind \in {"value", "nil", "novalue"} -> "value"
                         [] OTHER -> "bool"
           Eq(k, f) == f = [n \in 1 .. k |-> Ty(f, n)]
<1>1. DOMAIN gr = 1 .. Len(gr) /\ Len(gr) \in Nat
  BY LenProperties
<1>2. ASSUME \E f : Eq(Len(gr), f) PROVE Eq(Len(gr), Types(gr))
  BY <1>2, Zenon DEF Types
<1>3. ASSUME NEW f, NEW h, NEW n \in DOMAIN gr, \A i \in 1 .. n - 1 : f[i] = h[i]
      PROVE  Ty(f, n) = Ty(h, n)
  <2>1. CASE gr[n].kind \in {"select", "nop"}
    <3>1. gr[n].in[1] \in 1 .. n - 1
      BY <1>1, <2>1, Edges
    <3>2. f[gr[n].in[1]] = h[gr[n].in[1]]
      BY <3>1, <1>3
    <3> QED BY <2>1, <3>2
  <2>2. CASE gr[n].kind \notin {"select", "nop"}
    BY <2>2
  <2> QED BY <2>1, <2>2
<1> DEFINE G == {k \in Nat : k <= Len(gr) => \E f : Eq(k, f)}
<1>4. 0 \in G
  <2>1. Eq(0, [n \in 1 .. 0 |-> 0])
    OBVIOUS
  <2> QED BY <2>1, Zenon
<1>5. ASSUME NEW k \in Nat, k \in G PROVE k + 1 \in G
  <2> SUFFICES ASSUME k + 1 <= Len(gr) PROVE \E f : Eq(k + 1, f)
    OBVIOUS
  <2>1. PICK f : Eq(k, f)
    <3> HIDE DEF Eq
    <3> QED BY <1>1, <1>5
  <2> DEFINE h == [n \in 1 .. k + 1 |-> Ty(f, n)]
  <2> HIDE DEF Ty
  <2>2. \A i \in 1 .. k : h[i] = f[i]
    BY <2>1
  <2>3. ASSUME NEW n \in 1 .. k + 1 PROVE Ty(f, n) = Ty(h, n)
    <3>1. n \in DOMAIN gr
      BY <1>1
    <3>2. \A i \in 1 .. n - 1 : f[i] = h[i]
      <4> HIDE DEF h
      <4> QED BY <2>2
    <3> HIDE DEF h
    <3> QED BY <3>1, <3>2, <1>3
  <2>4. Eq(k + 1, h)
    BY <2>3
  <2> QED
    BY <2>4, Zenon
<1>6. Nat \subseteq G
  <2> HIDE DEF G
  <2> QED BY <1>4, <1>5, NaturalsClosed
<1>7. Eq(Len(gr), Types(gr))
  <2> HIDE DEF Eq
  <2> QED BY <1>1, <1>2, <1>6
<1> QED
  BY <1>1, <1>7, Zenon DEF TypeOf

\* The meaning of a graph gives every node the value that follows from those
\* of the nodes before it.
LEMMA MeaningUnfolds ==
  ASSUME NEW gr \in Seq(GraphNodes), WellTyped(gr), NEW t \in DOMAIN gr
  PROVE  Meaning(gr)[t] = Meant(gr, t, Meaning(gr))
<1> DEFINE Row(f, n) == IF n = 0 THEN <<>>
                        ELSE LET m == f[n - 1] IN Append(m, Meant(gr, n, m))
           Eq(k, f) == f = [n \in 0 .. k |-> Row(f, n)]
           M == Meanings(gr)
           S == {Meant(gr, n, M[n - 1]) : n \in 1 .. Len(gr)}
<1>1. DOMAIN gr = 1 .. Len(gr) /\ Len(gr) \in Nat
  BY LenProperties
<1>2. ASSUME \E f : Eq(Len(gr), f) PROVE Eq(Len(gr), M)
  BY <1>2, Zenon DEF Meanings
<1>3. \E f : Eq(0, f)
  <2>1. Eq(0, [n \in 0 .. 0 |-> <<>>])
    OBVIOUS
  <2> QED BY <2>1, Zenon
<1>4. ASSUME NEW k \in Nat, \E f : Eq(k, f) PROVE \E f : Eq(k + 1, f)
  <2>1. PICK f : Eq(k, f)
    <3> HIDE DEF Eq
    <3> QED BY <1>4
  <2> DEFINE h == [n \in 0 .. k + 1 |-> Row(f, n)]
  <2>2. \A i \in 0 .. k : h[i] = f[i]
    <3> HIDE DEF Row
    <3>1. \A i \in 0 .. k : i \in 0 .. k + 1
      BY <1>4
    <3>2. \A i \in 0 .. k : f[i] = Row(f, i)
      BY <2>1, Zenon
    <3> QED BY <3>1, <3>2, Zenon
  <2>3. ASSUME NEW n \in 0 .. k + 1 PROVE Row(f, n) = Row(h, n)
    <3>1. CASE n = 0
      BY <3>1
    <3>2. CASE n # 0
      <4>1. n - 1 \in 0 .. k
        BY <3>2
      <4>2. h[n - 1] = f[n - 1]
        BY <4>1, <2>2, Zenon
      <4> HIDE DEF h
      <4> QED BY <4>2
    <3> QED BY <3>1, <3>2
  <2>4. Eq(k + 1, h)
    <3> HIDE DEF Row
    <3> QED BY <2>3
  <2> QED BY <2>4, Zenon
<1>5. Eq(Len(gr), M)
  <2> DEFINE G == {k \in Nat : \E f : Eq(k, f)}
  <2> HIDE DEF Eq
  <2>1. Nat \subseteq G
    <3>1. 0 \in G
      BY <1>3
    <3>2. ASSUME NEW k \in Nat, k \in G PROVE k + 1 \in G
      BY <1>4, <3>2
    <3> HIDE DEF G
    <3> QED BY <3>1, <3>2, NaturalsClosed
  <2> QED BY <1>1, <1>2, <2>1
<1>6. /\ M[0] = <<>>
      /\ \A n \in 1 .. Len(gr) : M[n] = Append(M[n - 1], Meant(gr, n, M[n - 1]))
  <2> HIDE DEF M, S
  <2>1. \A n \in 0 .. Len(gr) : M[n] = Row(M, n)
    <3> HIDE DEF Row
    <3> QED BY <1>5
  <2>2. M[0] = Row(M, 0)
    <3> HIDE DEF Row
    <3> QED BY <1>1, <2>1
  <2>3. ASSUME NEW n \in 1 .. Len(gr)
        PROVE  M[n] = Append(M[n - 1], Meant(gr, n, M[n - 1]))
    <3>1. M[n] = Row(M, n) /\ n # 0
      <4> HIDE DEF Row
      <4> QED BY <1>1, <2>1
    <3> QED BY <3>1
  <2> QED BY <2>2, <2>3
<1> HIDE DEF M, Row, Eq
<1>7. ASSUME NEW n \in 0 .. Len(gr)
      PROVE  /\ M[n] \in Seq(S) /\ Len(M[n]) = n
             /\ \A i \in 1 .. n : M[n][i] = Meant(gr, i, M[i - 1])
  <2> DEFINE Good(k) == /\ M[k] \in Seq(S) /\ Len(M[k]) = k
                        /\ \A i \in 1 .. k : M[k][i] = Meant(gr, i, M[i - 1])
             G == {k \in Nat : k <= Len(gr) => Good(k)}
  <2>1. 0 \in G
    <3> HIDE DEF S
    <3>1. M[0] \in Seq(S) /\ Len(M[0]) = 0
      BY <1>6
    <3>2. \A i \in 1 .. 0 : M[0][i] = Meant(gr, i, M[i - 1])
      OBVIOUS
    <3>3. Good(0)
      BY <3>1, <3>2
    <3> HIDE DEF Good
    <3> QED BY <3>3
  <2>2. ASSUME NEW k \in Nat, k \in G PROVE k + 1 \in G
    <3> SUFFICES ASSUME k + 1 <= Len(gr) PROVE Good(k + 1)
      OBVIOUS
    <3>1. Good(k)
      BY <1>1, <2>2
    <3>a. k + 1 \in 1 .. Len(gr) /\ (k + 1) - 1 = k
      BY <1>1
    <3>2. M[k + 1] = Append(M[k], Meant(gr, k + 1, M[k]))
      <4>1. M[k + 1] = Append(M[(k + 1) - 1], Meant(gr, k + 1, M[(k + 1) - 1]))
        BY <1>6, <3>a, Zenon
      <4> QED BY <3>a, <4>1, Zenon
    <3>3. Meant(gr, k + 1, M[k]) \in S
      BY <3>a, Zenon
    <3> HIDE DEF S
    <3>4. M[k + 1] \in Seq(S) /\ Len(M[k + 1]) = k + 1
      BY <3>1, <3>2, <3>3, AppendProperties
    <3>5. \A i \in 1 .. k : M[k + 1][i] = M[k][i]
      BY <3>1, <3>2, <3>3, AppendProperties
    <3>6. M[k + 1][k + 1] = Meant(gr, k + 1, M[(k + 1) - 1])
      BY <3>1, <3>2, <3>3, AppendProperties
    <3>7. \A i \in 1 .. k + 1 : M[k + 1][i] = Meant(gr, i, M[i - 1])
      <4> SUFFICES ASSUME NEW i \in 1 .. k + 1
                   PROVE  M[k + 1][i] = Meant(gr, i, M[i - 1])
        OBVIOUS
      <4>1. CASE i = k + 1
        BY <4>1, <3>6
      <4>2. CASE i # k + 1
        <5>1. i \in 1 .. k
          BY <4>2
        <5> QED BY <3>1, <3>5, <5>1
      <4> QED BY <4>1, <4>2
    <3> QED BY <3>4, <3>7
  <2>3. Nat \subseteq G
    <3> HIDE DEF G
    <3> QED BY <2>1, <2>2, NaturalsClosed, Zenon
  <2> QED
    <3> HIDE DEF Good
    <3>1. Good(n)
      BY <1>1, <2>3
    <3> QED BY <3>1 DEF Good
<1> HIDE DEF S
<1>8. \A i \in 1 .. t - 1 : M[t - 1][i] = M[Len(gr)][i]
  <2> SUFFICES ASSUME NEW i \in 1 .. t - 1 PROVE M[t - 1][i] = M[Len(gr)][i]
    OBVIOUS
  <2>1. /\ t - 1 \in 0 .. Len(gr) /\ Len(gr) \in 0 .. Len(gr)
        /\ i \in 1 .. Len(gr)
    BY <1>1
  <2>2. M[t - 1][i] = Meant(gr, i, M[i - 1])
    BY <2>1, <1>7
  <2>3. M[Len(gr)][i] = Meant(gr, i, M[i - 1])
    BY <2>1, <1>7, Zenon
  <2> QED BY <2>2, <2>3
<1>9. Meant(gr, t, M[t - 1]) = Meant(gr, t, M[Len(gr)])
  <2>1. \A p \in DOMAIN gr[t].in : M[t - 1][gr[t].in[p]] = M[Len(gr)][gr[t].in[p]]
    <3> SUFFICES ASSUME NEW p \in DOMAIN gr[t].in
                 PROVE  M[t - 1][gr[t].in[p]] = M[Len(gr)][gr[t].in[p]]
      OBVIOUS
    <3>1. gr[t].in[p] \in 1 .. t - 1
      BY <1>1, Edges
    <3> QED BY <3>1, <1>8
  <2>2. gr[t].pre # 0 => M[t - 1][gr[t].pre] = M[Len(gr)][gr[t].pre]
    <3> SUFFICES ASSUME gr[t].pre # 0 PROVE M[t - 1][gr[t].pre] = M[Len(gr)][gr[t].pre]
      OBVIOUS
    <3>1. gr[t].pre \in 1 .. t - 1
      BY <1>1, Edges
    <3> QED BY <3>1, <1>8
  <2> DEFINE Args(m) == [p \in DOMAIN gr[t].in |-> m[gr[t].in[p]]]
             Gate(m) == gr[t].pre = 0 \/ m[gr[t].pre].b \in {"true", "none"}
             Of(args, gate) ==
               LET present == {p \in DOMAIN args : args[p].b \notin {"never", "throw", "none"}}
                   enough == IF IsSelect(gr, t) THEN present # {} ELSE present = DOMAIN args
                   first == CHOOSE p \in present : \A q \in present : p <= q
               IN IF ~gate \/ ~enough THEN Never
                  ELSE IF Errs(gr, t) THEN Value("throw", t, args)
                  ELSE Result(gr, t, IF IsSelect(gr, t) THEN <<args[first]>> ELSE args)
  <2>3. Args(M[t - 1]) = Args(M[Len(gr)])
    BY <2>1
  <2>4. Gate(M[t - 1]) = Gate(M[Len(gr)])
    BY <2>2
  <2>5. /\ Meant(gr, t, M[t - 1]) = Of(Args(M[t - 1]), Gate(M[t - 1]))
        /\ Meant(gr, t, M[Len(gr)]) = Of(Args(M[Len(gr)]), Gate(M[Len(gr)]))
    BY Zenon DEF Meant
  <2> HIDE DEF Args, Gate, Of
  <2> QED BY <2>3, <2>4, <2>5
<1>10. M[Len(gr)][t] = Meant(gr, t, M[t - 1])
  <2>1. Len(gr) \in 0 .. Len(gr) /\ t \in 1 .. Len(gr)
    BY <1>1
  <2> QED BY <1>7, <2>1, Zenon
<1> QED
  BY <1>9, <1>10 DEF Meaning, M

\* The fire rules lead from a node to the nodes that have it as a parameter or
\* as their precondition, and in a simple graph visit each of them once.
LEMMA TargetsOnce ==
  ASSUME NEW gr \in Seq(GraphNodes), WellTyped(gr), ~DoublyConnected(gr),
         NEW s \in DOMAIN gr, NEW t \in DOMAIN gr
  PROVE  /\ t \in Targets(gr, s) <=> (Params(gr, s, t) # {} \/ gr[t].pre = s)
         /\ t \in Targets(gr, s) => Items(gr, s, t) = 1
<1>1. IsFiniteSet(Params(gr, s, t))
  <2>1. IsFiniteSet(DOMAIN gr[t].in)
    <3>1. PICK n \in Nat : DOMAIN gr[t].in = 1 .. n
      BY Edges
    <3> QED BY <3>1, FS_Interval
  <2> QED
    BY <2>1, FS_Subset DEF Params
<1>2. PICK c : c = Cardinality(Params(gr, s, t))
  OBVIOUS
<1>3. c \in Nat /\ (c = 0 <=> Params(gr, s, t) = {})
  BY <1>1, <1>2, FS_CardinalityType, FS_EmptySet
<1>4. Items(gr, s, t) = c + (IF gr[t].pre = s THEN 1 ELSE 0)
  BY <1>2 DEF Items
<1>5. ~(Items(gr, s, t) > 1)
  BY DEF DoublyConnected
<1> QED
  BY <1>3, <1>4, <1>5 DEF Targets

\* A select that is started takes the first of its candidates that arrived.
LEMMA FirstFound ==
  ASSUME NEW d, DOMAIN d = {1, 2}, \E p \in DOMAIN d : d[p] # Missing
  PROVE  \E p \in DOMAIN d : d[p] # Missing /\ FirstOf(d) = d[p]
<1> DEFINE First(p) == d[p] # Missing /\ \A q \in 1 .. p - 1 : d[q] = Missing
<1>1. \E p \in DOMAIN d : First(p)
  <2>1. CASE d[1] # Missing
    <3>1. 1 .. 1 - 1 = {}
      OBVIOUS
    <3>2. First(1)
      BY <2>1, <3>1
    <3> QED BY <3>2
  <2>2. CASE d[1] = Missing
    <3>1. 1 .. 2 - 1 = {1}
      OBVIOUS
    <3>2. First(2)
      BY <2>2, <3>1
    <3> QED BY <3>2
  <2> QED BY <2>1, <2>2
<1>2. FirstOf(d) = d[CHOOSE p \in DOMAIN d : First(p)]
  BY DEF FirstOf
<1>3. PICK p \in DOMAIN d : p = CHOOSE q \in DOMAIN d : First(q)
  <2> HIDE DEF First
  <2> QED BY <1>1
<1>4. First(p)
  <2> HIDE DEF First
  <2> QED BY <1>1, <1>3
<1> QED
  BY <1>2, <1>3, <1>4

\* run_node returns a value of the type the type checker gave the node, when
\* its parameters have theirs.
LEMMA ResultFits ==
  ASSUME NEW gr, Sound(gr), NEW v, Typed(gr, v), NEW t \in DOMAIN gr,
         Ready(gr, v, t), ~Errs(gr, t)
  PROVE  Fits(TypeOf(gr, t), Result(gr, t, ArgsOf(gr, v, t)).b)
<1> DEFINE in == gr[t].in
           kind == gr[t].kind
<1>0. PICK args : args = ArgsOf(gr, v, t)
  OBVIOUS
<1> SUFFICES Fits(TypeOf(gr, t), Result(gr, t, args).b)
  BY <1>0
<1>1. gr \in Seq(GraphNodes) /\ WellTyped(gr)
  BY DEF Sound
<1>2. kind \in Kinds \ {"throw"} /\ \A p \in DOMAIN in : in[p] \in DOMAIN gr
  BY <1>1, Edges DEF Errs
<1>3. ASSUME NEW p \in DOMAIN in, v[in[p]] # Missing
      PROVE  Fits(TypeOf(gr, in[p]), v[in[p]].b)
  BY <1>2, <1>3 DEF Typed
<1>4. CASE kind = "select"
  <2>1. DOMAIN in = {1, 2} /\ IsSelect(gr, t)
    BY <1>1, <1>4, Edges DEF IsSelect
  <2>2. \E p \in DOMAIN in : v[in[p]] # Missing
    BY <2>1 DEF Ready, Enough
  <2>3. PICK d : d = Received(gr, v, t)
    OBVIOUS
  <2>4. DOMAIN d = {1, 2} /\ \A p \in DOMAIN d : d[p] = v[in[p]]
    BY <2>1, <2>3 DEF Received
  <2>5. PICK p \in DOMAIN d : d[p] # Missing /\ FirstOf(d) = d[p]
    BY <2>1, <2>2, <2>4, FirstFound
  <2>6. args = <<d[p]>>
    BY <1>0, <2>1, <2>3, <2>5 DEF ArgsOf
  <2>7. Result(gr, t, args) = v[in[p]] /\ v[in[p]] # Missing
    BY <2>1, <2>4, <2>5, <2>6 DEF Result
  <2>8. TypeOf(gr, in[1]) = TypeOf(gr, in[2])
    BY <1>1, <2>1 DEF WellTyped, CandidatesTyped
  <2>9. TypeOf(gr, t) = TypeOf(gr, in[1])
    BY <1>1, <1>4, TypesUnfold
  <2>10. TypeOf(gr, in[p]) = TypeOf(gr, t)
    BY <2>1, <2>4, <2>8, <2>9
  <2>11. Fits(TypeOf(gr, in[p]), v[in[p]].b)
    BY <1>3, <2>1, <2>4, <2>7
  <2> QED BY <2>7, <2>10, <2>11
<1>5. CASE kind # "select"
  <2>1. ~IsSelect(gr, t)
    BY <1>5 DEF IsSelect
  <2>2. \A p \in DOMAIN in : v[in[p]] # Missing
    BY <2>1 DEF Ready, Enough
  <2>3. DOMAIN args = DOMAIN in /\ \A p \in DOMAIN in : args[p] = v[in[p]]
    BY <1>0, <2>1 DEF ArgsOf, Received
  <2>4. CASE kind = "effect"
    <3>1. TypeOf(gr, t) = "none"
      BY <1>1, <2>4, TypesUnfold
    <3>2. Result(gr, t, args).b = "none"
      BY <2>1, <2>4 DEF Result, None, Value
    <3> QED BY <3>1, <3>2 DEF Fits
  <2>5. CASE kind = "isnull"
    <3>1. TypeOf(gr, t) = "bool"
      BY <1>1, <2>5, TypesUnfold
    <3>2. Result(gr, t, args).b \in {"true", "false"}
      BY <2>1, <2>5 DEF Result, Value, Truth
    <3> QED BY <3>1, <3>2 DEF Fits
  <2>6. CASE kind = "nop"
    <3>1. TypeOf(gr, t) = TypeOf(gr, in[1]) /\ 1 \in DOMAIN in
      BY <1>1, <2>6, TypesUnfold, Edges
    <3>2. Result(gr, t, args).b = args[1].b
      BY <2>1, <2>6 DEF Result, Value
    <3>3. args[1] = v[in[1]] /\ Fits(TypeOf(gr, in[1]), v[in[1]].b)
      BY <1>3, <2>2, <2>3, <3>1
    <3> QED BY <3>1, <3>2, <3>3
  <2>7. CASE kind \notin {"effect", "isnull", "nop"}
    <3> DEFINE bs == [p \in DOMAIN args |-> args[p].b]
    <3>1. TypeOf(gr, t) = IF kind \in {"value", "nil", "novalue"} THEN "value" ELSE "bool"
      BY <1>1, <1>2, <1>5, <2>7, TypesUnfold DEF Kinds
    <3>2. \/ Result(gr, t, args).b = "null"
          \/ kind \in {"novalue", "nobool"} /\ Result(gr, t, args).b = "none"
          \/ kind \notin {"novalue", "nobool"} /\ Result(gr, t, args).b = Computed(kind, bs)
      BY <2>1, <2>7 DEF Result, None, Value
    <3> HIDE DEF bs
    <3>3. CASE kind \in {"value", "nil"}
      <4>1. Computed(kind, bs) \in {"null", "value"}
        BY <3>3 DEF Computed
      <4> QED BY <3>1, <3>2, <3>3, <4>1 DEF Fits, Results
    <3>5. CASE kind \in {"novalue", "nobool"}
      BY <3>1, <3>2, <3>5 DEF Fits, Results
    <3>4. CASE kind \notin {"value", "nil", "novalue", "nobool"}
      <4>1. kind \in {"true", "false", "null", "not", "and"}
        BY <1>2, <1>5, <2>7, <3>4 DEF Kinds
      <4>2. Computed(kind, bs) \in {"true", "false", "null"}
        BY <4>1 DEF Computed, Truth
      <4> QED BY <3>1, <3>2, <3>4, <4>2 DEF Fits
    <3> QED BY <3>3, <3>4, <3>5
  <2> QED BY <2>4, <2>5, <2>6, <2>7
<1> QED
  BY <1>4, <1>5

\* A node the value is not delivered to is as ready as before.
NotReached(gr, u, s, x, w, t) ==
  /\ Sound(gr) /\ s \in DOMAIN gr /\ t \in DOMAIN gr
  /\ Adds(gr, u, s, x, w) /\ t \notin Targets(gr, s)

LEMMA NonTargetRests ==
  ASSUME NEW gr, NEW s, NEW t, NEW x, NEW u, NEW w, NotReached(gr, u, s, x, w, t)
  PROVE  (Ready(gr, w, t) <=> Ready(gr, u, t)) /\ ArgsOf(gr, w, t) = ArgsOf(gr, u, t)
<1> USE DEF NotReached
<1>1. gr \in Seq(GraphNodes) /\ WellTyped(gr) /\ ~DoublyConnected(gr)
  BY DEF Sound
<1>2. /\ \A p \in DOMAIN gr[t].in : gr[t].in[p] \in DOMAIN gr
      /\ gr[t].pre # 0 => gr[t].pre \in DOMAIN gr
  BY <1>1, Edges
<1>3. Params(gr, s, t) = {} /\ gr[t].pre # s
  BY <1>1, TargetsOnce, Zenon
<1>4. \A p \in DOMAIN gr[t].in : w[gr[t].in[p]] = u[gr[t].in[p]]
  BY <1>2, <1>3 DEF Params, Adds
<1>5. Received(gr, w, t) = Received(gr, u, t)
  BY <1>4 DEF Received
<1>6. Enough(gr, w, t) <=> Enough(gr, u, t)
  BY <1>4, Zenon DEF Enough
<1>7. PreHolds(gr, w, t) <=> PreHolds(gr, u, t)
  BY <1>2, <1>3 DEF PreHolds, Adds
<1> QED
  BY <1>5, <1>6, <1>7, Zenon DEF Ready, ArgsOf

\* A node that completes changes nothing for the nodes it does not lead to; it
\* does not lead to a node that is ready without it, other than a select.
LEMMA Completion ==
  ASSUME NEW gr, Sound(gr), NEW s \in DOMAIN gr, NEW t \in DOMAIN gr, NEW x,
         NEW u, u[s] = Missing, NEW w, Adds(gr, u, s, x, w)
  PROVE  /\ Ready(gr, u, t) => gr[t].pre # s
         /\ Ready(gr, u, t) /\ Params(gr, s, t) # {} => IsSelect(gr, t)
         /\ t \notin Targets(gr, s) => /\ Ready(gr, w, t) <=> Ready(gr, u, t)
                                       /\ ArgsOf(gr, w, t) = ArgsOf(gr, u, t)
         /\ PreHolds(gr, w, t) = IF gr[t].pre = s THEN x.b \in {"true", "none"}
                                 ELSE PreHolds(gr, u, t)
         /\ \A p \in DOMAIN gr[t].in : w[gr[t].in[p]] = IF p \in Params(gr, s, t) THEN x
                                                        ELSE u[gr[t].in[p]]
<1>1. gr \in Seq(GraphNodes) /\ WellTyped(gr) /\ ~DoublyConnected(gr)
  BY DEF Sound
<1>2. /\ s # 0 /\ \A p \in DOMAIN gr[t].in : gr[t].in[p] \in DOMAIN gr
      /\ gr[t].pre # 0 => gr[t].pre \in DOMAIN gr
  <2>1. s # 0
    BY <1>1, LenProperties
  <2> QED BY <1>1, <2>1, Edges
<1>4. Ready(gr, u, t) => gr[t].pre # s
  BY <1>2 DEF Ready, PreHolds, Missing
<1>5. Ready(gr, u, t) /\ Params(gr, s, t) # {} => IsSelect(gr, t)
  BY DEF Ready, Enough, Params
<1>6. PreHolds(gr, w, t) = IF gr[t].pre = s THEN x.b \in {"true", "none"}
                           ELSE PreHolds(gr, u, t)
  BY <1>2 DEF PreHolds, Adds
<1>7. \A p \in DOMAIN gr[t].in : w[gr[t].in[p]] = IF p \in Params(gr, s, t) THEN x
                                                  ELSE u[gr[t].in[p]]
  BY <1>2 DEF Params, Adds
<1>8. ASSUME t \notin Targets(gr, s)
      PROVE  /\ Ready(gr, w, t) <=> Ready(gr, u, t)
             /\ ArgsOf(gr, w, t) = ArgsOf(gr, u, t)
  <2>1. NotReached(gr, u, s, x, w, t)
    BY <1>8, Zenon DEF NotReached
  <2> QED BY <2>1, NonTargetRests
<1> QED
  BY <1>4, <1>5, <1>6, <1>7, <1>8

\* The clauses of Meant, one at a time.
LEMMA MeantClauses ==
  ASSUME NEW gr, NEW t, NEW m
  PROVE  LET gate == gr[t].pre = 0 \/ m[gr[t].pre].b \in {"true", "none"}
             present == Present(gr, m, t)
             first == CHOOSE p \in present : \A q \in present : p <= q
         IN /\ Meant(gr, t, m) # Never =>
                 gate /\ IF IsSelect(gr, t) THEN present # {} ELSE present = DOMAIN gr[t].in
            /\ gate /\ ~IsSelect(gr, t) /\ present = DOMAIN gr[t].in =>
                 Meant(gr, t, m) = IF Errs(gr, t) THEN Value("throw", t, Received(gr, m, t))
                                   ELSE Result(gr, t, Received(gr, m, t))
            /\ gate /\ IsSelect(gr, t) /\ present # {} =>
                 Meant(gr, t, m) = m[gr[t].in[first]] \/ first \notin present
<1> DEFINE args == Received(gr, m, t)
           gate == gr[t].pre = 0 \/ m[gr[t].pre].b \in {"true", "none"}
           present == Present(gr, m, t)
           first == CHOOSE p \in present : \A q \in present : p <= q
<1>1. /\ DOMAIN args = DOMAIN gr[t].in
      /\ \A p \in DOMAIN gr[t].in : args[p] = m[gr[t].in[p]]
  BY DEF Received
<1>2. {p \in DOMAIN args : args[p].b \notin {"never", "throw", "none"}} = present
  BY <1>1 DEF Present
<1>3. Meant(gr, t, m) =
        LET enough == IF IsSelect(gr, t) THEN present # {} ELSE present = DOMAIN args
        IN IF ~gate \/ ~enough THEN Never
           ELSE IF Errs(gr, t) THEN Value("throw", t, args)
           ELSE Result(gr, t, IF IsSelect(gr, t) THEN <<args[first]>> ELSE args)
  <2> DEFINE Of(a, pr) ==
               LET enough == IF IsSelect(gr, t) THEN pr # {} ELSE pr = DOMAIN a
                   one == CHOOSE p \in pr : \A q \in pr : p <= q
               IN IF ~gate \/ ~enough THEN Never
                  ELSE IF Errs(gr, t) THEN Value("throw", t, a)
                  ELSE Result(gr, t, IF IsSelect(gr, t) THEN <<a[one]>> ELSE a)
             a0 == [p \in DOMAIN gr[t].in |-> m[gr[t].in[p]]]
             p0 == {p \in DOMAIN a0 : a0[p].b \notin {"never", "throw", "none"}}
  <2>1. args = a0
    BY DEF Received
  <2>2. p0 = present
    BY <1>2, <2>1
  <2>3. Meant(gr, t, m) = Of(a0, p0)
    BY Zenon DEF Meant
  <2>4. Meant(gr, t, m) = Of(args, present)
    <3> HIDE DEF Of, a0, p0, args, present
    <3> QED BY <2>1, <2>2, <2>3
  <2> QED BY <2>4, Zenon
<1>4. IsSelect(gr, t) => ~Errs(gr, t) /\ Result(gr, t, <<args[first]>>) = args[first]
  <2> HIDE DEF args, first
  <2> QED BY DEF IsSelect, Errs, Result
<1>5. first \in present => args[first] = m[gr[t].in[first]]
  <2> HIDE DEF args, first
  <2> QED BY <1>1 DEF Present
<1> HIDE DEF args, first, present, gate
<1>6. Meant(gr, t, m) # Never =>
        gate /\ IF IsSelect(gr, t) THEN present # {} ELSE present = DOMAIN gr[t].in
  BY <1>1, <1>3
<1>7. gate /\ ~IsSelect(gr, t) /\ present = DOMAIN gr[t].in =>
        Meant(gr, t, m) = IF Errs(gr, t) THEN Value("throw", t, args)
                          ELSE Result(gr, t, args)
  BY <1>1, <1>3
<1>8. gate /\ IsSelect(gr, t) /\ present # {} =>
        Meant(gr, t, m) = m[gr[t].in[first]] \/ first \notin present
  BY <1>3, <1>4, <1>5
<1> QED
  BY <1>6, <1>7, <1>8 DEF args, first, present, gate

\* As long as the values are the meant ones, so are those of a parameter or a
\* precondition that arrived.
LEMMA ArrivedIsMeant ==
  ASSUME NEW gr, Sound(gr), NEW v, Typed(gr, v), NEW m, Agree(gr, v, m),
         NEW t \in DOMAIN gr
  PROVE  /\ \A p \in DOMAIN gr[t].in :
              v[gr[t].in[p]] # Missing =>
                m[gr[t].in[p]] = v[gr[t].in[p]] /\ p \in Present(gr, m, t)
         /\ PreHolds(gr, v, t) => gr[t].pre = 0 \/ m[gr[t].pre].b \in {"true", "none"}
<1>1. /\ \A p \in DOMAIN gr[t].in : gr[t].in[p] \in DOMAIN gr
      /\ gr[t].pre # 0 => gr[t].pre \in DOMAIN gr
  BY Edges DEF Sound
<1>2. ASSUME NEW n \in DOMAIN gr, v[n] # Missing
      PROVE  m[n] = v[n] /\ m[n].b \notin {"never", "throw"}
  <2>1. Fits(TypeOf(gr, n), v[n].b) /\ m[n] = v[n]
    BY <1>2 DEF Typed, Agree
  <2> QED BY <2>1 DEF Fits, Results
<1>3. PreHolds(gr, v, t) /\ gr[t].pre # 0 => v[gr[t].pre] # Missing
  BY DEF PreHolds, Missing
<1>4. ASSUME NEW p \in DOMAIN gr[t].in, v[gr[t].in[p]] # Missing
      PROVE  m[gr[t].in[p]] = v[gr[t].in[p]] /\ p \in Present(gr, m, t)
  <2>1. v[gr[t].in[p]].b # "none"
    BY DEF Typed
  <2> QED BY <1>1, <1>2, <1>4, <2>1 DEF Present
<1>5. ASSUME PreHolds(gr, v, t), gr[t].pre # 0 PROVE m[gr[t].pre].b \in {"true", "none"}
  BY <1>1, <1>2, <1>3, <1>5 DEF PreHolds
<1> QED
  BY <1>4, <1>5

\* A select is meant to give its first candidate.
FirstIn(P) == CHOOSE p \in P : \A q \in P : p <= q

LEMMA MeantSelect ==
  ASSUME NEW gr, NEW t, NEW m
  PROVE  /\ gr[t].pre = 0 \/ m[gr[t].pre].b \in {"true", "none"}
         /\ IsSelect(gr, t) /\ FirstIn(Present(gr, m, t)) \in Present(gr, m, t)
         => Meant(gr, t, m) = m[gr[t].in[FirstIn(Present(gr, m, t))]]
  BY MeantClauses DEF FirstIn

\* Of one or two inputs one is the first.
LEMMA LeastOfPair ==
  ASSUME NEW P, P # {}, P \subseteq {1, 2}
  PROVE  FirstIn(P) \in P
<1> SUFFICES \E p \in P : \A q \in P : p <= q
  BY Zenon DEF FirstIn
<1>1. CASE 1 \in P
  <2>1. \A q \in P : 1 <= q
    OBVIOUS
  <2> QED BY <1>1, <2>1, Zenon
<1>2. CASE P = {2}
  BY <1>2
<1> QED BY <1>1, <1>2, Zenon

\* The meaning of a node that is never run is not that of one that errs, nor a
\* value of any type; a select passes its candidate on.
LEMMA NeverIsNever ==
  /\ Never.b = "never"
  /\ \A ty : ~Fits(ty, "never")
<1>1. Never.b = "never"
  BY DEF Never
<1>2. \A ty : ~Fits(ty, "never")
  BY DEF Fits, Results
<1> QED BY <1>1, <1>2, Zenon
LEMMA SelectResult ==
  ASSUME NEW gr, NEW t, IsSelect(gr, t), NEW a PROVE Result(gr, t, <<a>>) = a
<1>1. <<a>>[1] = a
  OBVIOUS
<1> QED BY <1>1, Zenon DEF Result
LEMMA ThrowIsThrown == ASSUME NEW t, NEW a PROVE Value("throw", t, a).b = "throw"
  BY DEF Value

\* A node that is ready is meant to fire, and run_node gives it the value it
\* means; of the candidates of a select only one is ever present.
LEMMA ReadyIsMeant ==
  ASSUME NEW gr, Sound(gr), NEW v, Typed(gr, v), NEW m, m = Meaning(gr),
         Agree(gr, v, m), ~Clash(gr, m), NEW t \in DOMAIN gr, Ready(gr, v, t)
  PROVE  /\ m[t] # Never
         /\ Errs(gr, t) => m[t].b = "throw"
         /\ ~Errs(gr, t) => m[t] = Result(gr, t, ArgsOf(gr, v, t))
         /\ IsSelect(gr, t) => Present(gr, m, t) # DOMAIN gr[t].in
<1>1. gr \in Seq(GraphNodes) /\ WellTyped(gr)
  BY DEF Sound
<1>2. m[t] = Meant(gr, t, m)
  BY <1>1, MeaningUnfolds
<1>3. gr[t].pre = 0 \/ m[gr[t].pre].b \in {"true", "none"}
  BY ArrivedIsMeant DEF Ready
<1>4. CASE ~IsSelect(gr, t)
  <2>1. \A p \in DOMAIN gr[t].in : v[gr[t].in[p]] # Missing
    BY <1>4 DEF Ready, Enough
  <2>2. \A p \in DOMAIN gr[t].in :
          m[gr[t].in[p]] = v[gr[t].in[p]] /\ p \in Present(gr, m, t)
    BY <2>1, ArrivedIsMeant
  <2>3. Received(gr, m, t) = ArgsOf(gr, v, t)
    BY <1>4, <2>2 DEF Received, ArgsOf
  <2>4. Present(gr, m, t) = DOMAIN gr[t].in
    BY <2>2 DEF Present
  <2>5. m[t] = IF Errs(gr, t) THEN Value("throw", t, ArgsOf(gr, v, t))
               ELSE Result(gr, t, ArgsOf(gr, v, t))
    BY <1>2, <1>3, <1>4, <2>3, <2>4, MeantClauses
  <2>6. CASE Errs(gr, t)
    <3>1. m[t].b = "throw"
      BY <2>5, <2>6, ThrowIsThrown, Zenon
    <3>2. m[t] # Never
      BY <3>1, NeverIsNever, Zenon
    <3> QED BY <1>4, <2>6, <3>1, <3>2, Zenon
  <2>7. CASE ~Errs(gr, t)
    <3>1. Fits(TypeOf(gr, t), m[t].b)
      BY <2>5, <2>7, ResultFits
    <3>2. m[t] # Never
      BY <3>1, NeverIsNever, Zenon
    <3> QED BY <1>4, <2>5, <2>7, <3>2, Zenon
  <2> QED BY <2>6, <2>7
<1>5. CASE IsSelect(gr, t)
  <2>1. DOMAIN gr[t].in = {1, 2} /\ ~Errs(gr, t)
    BY <1>1, <1>5, Edges DEF IsSelect, Errs
  <2>2. \E p \in DOMAIN gr[t].in : v[gr[t].in[p]] # Missing
    BY <1>5 DEF Ready, Enough
  <2>3. PICK present : present = Present(gr, m, t)
    OBVIOUS
  <2>4. present # {} /\ present \subseteq {1, 2}
    <3>1. PICK p \in DOMAIN gr[t].in : v[gr[t].in[p]] # Missing
      BY <2>2
    <3>2. p \in Present(gr, m, t)
      BY <3>1, ArrivedIsMeant, Zenon
    <3>3. Present(gr, m, t) \subseteq DOMAIN gr[t].in
      BY Zenon DEF Present
    <3> QED BY <2>1, <2>3, <3>2, <3>3, Zenon
  <2>5. PICK first : first = FirstIn(present)
    OBVIOUS
  <2>6. first \in present
    BY <2>4, <2>5, LeastOfPair, Zenon
  <2>7. m[t] = m[gr[t].in[first]]
    BY <1>2, <1>3, <1>5, <2>3, <2>5, <2>6, MeantSelect, Zenon
  <2>8. m[t].b # "never"
    BY <2>3, <2>6, <2>7 DEF Present
  <2>9. m[t] # Never /\ present # DOMAIN gr[t].in
    <3>1. m[t] # Never
      BY <2>8, NeverIsNever, Zenon
    <3> QED BY <1>5, <2>3, <3>1, Zenon DEF Clash
  <2>10. PICK d : d = Received(gr, v, t)
    OBVIOUS
  <2>11. DOMAIN d = {1, 2} /\ \A p \in DOMAIN d : d[p] = v[gr[t].in[p]]
    BY <2>1, <2>10 DEF Received
  <2>12. PICK p \in DOMAIN d : d[p] # Missing /\ FirstOf(d) = d[p]
    BY <2>1, <2>2, <2>11, FirstFound
  <2>13. p \in present /\ m[gr[t].in[p]] = d[p]
    <3>1. p \in DOMAIN gr[t].in /\ v[gr[t].in[p]] # Missing /\ d[p] = v[gr[t].in[p]]
      BY <2>1, <2>11, <2>12, Zenon
    <3> QED BY <2>3, <3>1, ArrivedIsMeant
  <2>14. p = first
    BY <2>1, <2>4, <2>6, <2>9, <2>13, Zenon
  <2>15. ArgsOf(gr, v, t) = <<d[p]>>
    BY <1>5, <2>10, <2>12, Zenon DEF ArgsOf
  <2>16. Result(gr, t, ArgsOf(gr, v, t)) = d[p]
    BY <1>5, <2>15, SelectResult
  <2> QED
    BY <1>5, <2>1, <2>3, <2>7, <2>9, <2>13, <2>14, <2>16, Zenon
<1> QED
  BY <1>4, <1>5

\* In particular it is meant to fire.
LEMMA ReadyFires ==
  ASSUME NEW gr, Sound(gr), NEW v, Typed(gr, v), NEW m, m = Meaning(gr),
         Agree(gr, v, m), ~Clash(gr, m), NEW t \in DOMAIN gr, Ready(gr, v, t)
  PROVE  m[t] # Never
  BY ReadyIsMeant

\* When nothing is left to run, every node that is meant to fire has run: the
\* scheduler does not forget a node.
LEMMA AllMeantRun ==
  ASSUME NEW gr, Sound(gr), NEW v, Typed(gr, v), NEW m, m = Meaning(gr),
         Agree(gr, v, m), Running(gr, v) = {}, NEW n \in DOMAIN gr, m[n] # Never
  PROVE  v[n] # Missing
<1> DEFINE T == {k \in DOMAIN gr : m[k] # Never /\ v[k] = Missing}
<1>1. gr \in Seq(GraphNodes) /\ WellTyped(gr)
  BY DEF Sound
<1>2. SUFFICES ASSUME T # {} PROVE FALSE
  OBVIOUS
<1>3. T \subseteq Nat
  BY <1>1, LenProperties
<1>4. PICK t \in T : \A k \in T : t <= k
  BY <1>2, <1>3, LeastNatural, Zenon
<1>5. t \in DOMAIN gr /\ m[t] # Never /\ v[t] = Missing
  OBVIOUS
<1>6. ASSUME NEW k \in DOMAIN gr, k < t, m[k] # Never
      PROVE  v[k] = m[k] /\ v[k] # Missing
  <2>1. k \notin T
    BY <1>3, <1>4, <1>6
  <2>2. v[k] # Missing
    BY <1>6, <2>1
  <2> QED BY <2>2 DEF Agree
<1> HIDE DEF T
<1>7. /\ gr[t].pre = 0 \/ m[gr[t].pre].b \in {"true", "none"}
      /\ IF IsSelect(gr, t) THEN Present(gr, m, t) # {}
                            ELSE Present(gr, m, t) = DOMAIN gr[t].in
  <2>1. Meant(gr, t, m) # Never
    BY <1>1, <1>5, MeaningUnfolds
  <2> QED BY <2>1, MeantClauses
<1>8. PreHolds(gr, v, t)
  <2> SUFFICES ASSUME gr[t].pre # 0 PROVE v[gr[t].pre].b \in {"true", "none"}
    BY DEF PreHolds
  <2>1. gr[t].pre \in DOMAIN gr /\ gr[t].pre < t
    BY <1>1, <1>5, Edges
  <2>2. m[gr[t].pre] # Never
    BY <1>7 DEF Never
  <2> QED BY <1>6, <1>7, <2>1, <2>2
<1>9. \A p \in Present(gr, m, t) : p \in DOMAIN gr[t].in /\ v[gr[t].in[p]] # Missing
  <2> SUFFICES ASSUME NEW p \in Present(gr, m, t)
               PROVE  p \in DOMAIN gr[t].in /\ v[gr[t].in[p]] # Missing
    OBVIOUS
  <2>1. p \in DOMAIN gr[t].in /\ m[gr[t].in[p]] # Never
    <3>1. p \in DOMAIN gr[t].in /\ m[gr[t].in[p]].b # "never"
      BY Zenon DEF Present
    <3> QED BY <3>1, NeverIsNever, Zenon
  <2>2. gr[t].in[p] \in DOMAIN gr /\ gr[t].in[p] < t
    BY <1>1, <1>5, <2>1, Edges
  <2> QED BY <1>6, <2>1, <2>2
<1>10. Ready(gr, v, t)
  BY <1>7, <1>8, <1>9 DEF Ready, Enough
<1> QED
  BY <1>5, <1>10 DEF Running
=============================================================================
