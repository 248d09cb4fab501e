----------------------------- MODULE Induction ------------------------------
(***************************************************************************)
(* Induction over the natural numbers in a first-order form: a non-empty   *)
(* set of naturals has a least element.  A proof by induction takes the    *)
(* set of counterexamples and derives a contradiction from its least one.  *)
(***************************************************************************)
EXTENDS Naturals, WellFoundedInduction, TLAPS

\* A non-empty set of natural numbers has a least element; what the recursive
\* functions of the models compute, the replay of a log for instance, is proved
\* from it.
LEMMA LeastNatural ==
  ASSUME NEW T, T \subseteq Nat, T # {}
  PROVE  \E x \in T : \A y \in T : x <= y
<1> DEFINE R == OpToRel(<, Nat)
<1>1. IsWellFoundedOn(R, Nat)
  BY NatLessThanWellFounded, Zenon
<1>2. \A a, b \in Nat : a < b => <<a, b>> \in R
  BY DEF OpToRel
<1> HIDE DEF R
<1>3. PICK x \in T : \A y \in T : ~(<<y, x>> \in R)
  BY <1>1, WFMin, Zenon
<1>4. \A y \in T : ~(y < x)
  BY <1>2, <1>3, Zenon
<1> QED
  BY <1>3, <1>4

\* A set that holds 0 and with each number the next holds every natural number.
LEMMA NaturalsClosed ==
  ASSUME NEW G, 0 \in G, \A n \in Nat : n \in G => n + 1 \in G
  PROVE  Nat \subseteq G
<1> DEFINE T == Nat \ G
<1>1. SUFFICES ASSUME T # {} PROVE FALSE
  OBVIOUS
<1>2. PICK x \in T : \A y \in T : x <= y
  BY <1>1, LeastNatural, Zenon
<1>3. x - 1 \in Nat /\ x - 1 \in G
  BY <1>2
<1>4. x - 1 + 1 \in G
  BY <1>3
<1> QED
  BY <1>4

\* f is defined by recursion over 0 .. n: it starts with a, and h makes each
\* value from the one before.
DefinedFrom(f, n, S, a, h) ==
  /\ f \in [0 .. n -> S]
  /\ f[0] = a
  /\ \A k \in 1 .. n : f[k] = h[<<k, f[k - 1]>>]

\* A function that is defined by recursion over 0 .. n is there.
LEMMA RecursionExists ==
  ASSUME NEW n \in Nat, NEW S, NEW a \in S, NEW h \in [(1 .. n) \X S -> S]
  PROVE  \E f : DefinedFrom(f, n, S, a, h)
<1> DEFINE F(m) == {f \in [0 .. m -> S] : f[0] = a /\ \A k \in 1 .. m : f[k] = h[<<k, f[k - 1]>>]}
           G == {m \in Nat : m <= n => F(m) # {}}
<1>1. 0 \in G
  <2>1. [k \in 0 .. 0 |-> a] \in F(0)
    OBVIOUS
  <2> QED
    BY <2>1
<1>2. ASSUME NEW m \in Nat, m \in G PROVE m + 1 \in G
  <2>1. SUFFICES ASSUME m + 1 <= n PROVE F(m + 1) # {}
    OBVIOUS
  <2>2. PICK f \in F(m) : TRUE
    BY <1>2, <2>1
  <2>3. f \in [0 .. m -> S] /\ f[0] = a /\ \A k \in 1 .. m : f[k] = h[<<k, f[k - 1]>>]
    BY <2>2
  <2> DEFINE b == h[<<m + 1, f[m]>>]
             g == [k \in 0 .. m + 1 |-> IF k = m + 1 THEN b ELSE f[k]]
  <2>4. <<m + 1, f[m]>> \in (1 .. n) \X S
    BY <2>1, <2>3
  <2>5. b \in S
    BY <2>4
  <2> HIDE DEF b
  <2>6. g \in [0 .. m + 1 -> S] /\ g[0] = a
    BY <2>3, <2>5
  <2>7. ASSUME NEW k \in 1 .. m + 1 PROVE g[k] = h[<<k, g[k - 1]>>]
    <3>1. CASE k = m + 1
      <4>1. g[k - 1] = f[m] /\ g[k] = b
        BY <3>1
      <4> QED
        BY <3>1, <4>1 DEF b
    <3>2. CASE k \in 1 .. m
      <4>1. g[k - 1] = f[k - 1] /\ g[k] = f[k]
        BY <3>2
      <4> QED
        BY <2>3, <3>2, <4>1
    <3> QED
      BY <3>1, <3>2
  <2>8. g \in F(m + 1)
    BY <2>6, <2>7
  <2> QED
    BY <2>8
<1> HIDE DEF G
<1>3. n \in G
  BY <1>1, <1>2, NaturalsClosed, Zenon
<1> QED
  BY <1>3 DEF G, DefinedFrom
=============================================================================
