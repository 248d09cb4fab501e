------------------------- MODULE KeyEncodingProofs --------------------------
(***************************************************************************)
(* "Flip the top bit for order preservation" (value.rs): the key component *)
(* of a primary key keeps the order of the values of every primitive type, *)
(* for integers and doubles of any number of bytes, and tells any two      *)
(* values apart.                                                           *)
(***************************************************************************)
EXTENDS KeyEncoding, Induction

\* s is before t: they agree up to a place where s ends or has the lesser byte.
Before(s, t) ==
  \E k \in 0 .. Len(s) :
    /\ k < Len(t)
    /\ \A j \in 1 .. k : s[j] = t[j]
    /\ k = Len(s) \/ s[k + 1] < t[k + 1]

Octets == 0 .. 255

-----------------------------------------------------------------------------
\* Bytes are compared as numbers.
LEMMA OctetOrder ==
  ASSUME NEW a \in Octets, NEW b \in Octets
  PROVE  (a < b => a # b /\ ~(b < a)) /\ (a # b => a < b \/ b < a)
BY DEF Octets

\* Sequences of one length with the same elements are the same.
LEMMA SameSequence ==
  ASSUME NEW S, NEW s \in Seq(S), NEW t \in Seq(S), Len(s) = Len(t),
         \A j \in 1 .. Len(s) : s[j] = t[j]
  PROVE  s = t
<1>1. /\ s = [j \in 1 .. Len(s) |-> s[j]]
      /\ t = [j \in 1 .. Len(t) |-> t[j]]
  OBVIOUS
<1> QED
  BY <1>1

\* a, b and c are joined alike from the left and from the right.
Joins(S, a, b, c) ==
  (a \o b) \o c = a \o (b \o c) /\ a \o b \in Seq(S) /\ b \o c \in Seq(S)

\* Concatenation is associative.
LEMMA Joined ==
  ASSUME NEW S, NEW a \in Seq(S), NEW b \in Seq(S), NEW c \in Seq(S)
  PROVE  Joins(S, a, b, c)
BY DEF Joins

\* c is b after a, place by place.
IsJoin(S, a, b, c) ==
  /\ c \in Seq(S) /\ c = a \o b /\ Len(c) = Len(a) + Len(b)
  /\ \A i \in 1 .. Len(a) : c[i] = a[i]
  /\ \A i \in 1 .. Len(b) : c[Len(a) + i] = b[i]

\* Concatenation is.
LEMMA JoinPlaces ==
  ASSUME NEW S, NEW a \in Seq(S), NEW b \in Seq(S)
  PROVE  IsJoin(S, a, b, a \o b)
<1>1. Len(a) \in Nat /\ Len(b) \in Nat /\ Len(a \o b) = Len(a) + Len(b) /\ a \o b \in Seq(S)
  OBVIOUS
<1>2. \A i \in 1 .. Len(a) : (a \o b)[i] = a[i]
  BY <1>1
<1>3. \A i \in 1 .. Len(b) : (a \o b)[Len(a) + i] = b[i]
  BY <1>1
<1> QED
  BY <1>1, <1>2, <1>3 DEF IsJoin

\* Bytes after bytes are bytes.
LEMMA Concatenated ==
  ASSUME NEW a \in Seq(Octets), NEW b \in Seq(Octets)
  PROVE  a \o b \in Seq(Octets)
OBVIOUS

\* One byte is a sequence of bytes.
LEMMA OneByte ==
  ASSUME NEW c \in Octets
  PROVE  <<c>> \in Seq(Octets)
OBVIOUS

\* A sequence that another agrees with to its end is a prefix of it.
LEMMA AgreeIsPrefix ==
  ASSUME NEW S, NEW a \in Seq(S), NEW b \in Seq(S), Len(a) <= Len(b),
         \A i \in 1 .. Len(a) : b[i] = a[i]
  PROVE  IsPrefixOf(a, b)
<1>1. PICK n \in Nat : n = Len(a)
  OBVIOUS
<1>2. PICK c : c = SubSeq(b, 1, n)
  BY Zenon
<1>3. c \in Seq(S) /\ Len(c) = n /\ \A i \in 1 .. n : c[i] = b[i]
  BY <1>1, <1>2
<1>4. c = a
  BY <1>1, <1>3, SameSequence
<1> QED
  BY <1>1, <1>2, <1>4 DEF IsPrefixOf

\* s and t agree up to place m and not beyond it.
AgreeTo(s, t, m) ==
  /\ m \in Nat /\ m <= Len(s) /\ m <= Len(t)
  /\ \A j \in 1 .. m : s[j] = t[j]
  /\ m < Len(s) /\ m < Len(t) => s[m + 1] # t[m + 1]

\* Two sequences agree up to some place, where they differ or one of them ends.
LEMMA FirstDifference ==
  ASSUME NEW S, NEW s \in Seq(S), NEW t \in Seq(S)
  PROVE  \E m \in Nat : AgreeTo(s, t, m)
<1>1. Len(s) \in Nat /\ Len(t) \in Nat
  OBVIOUS
<1> DEFINE T == {i \in Nat : i + 1 > Len(s) \/ i + 1 > Len(t) \/ s[i + 1] # t[i + 1]}
<1>2. T # {} /\ T \subseteq Nat
  <2>1. Len(s) \in T
    BY <1>1
  <2> QED
    BY <2>1
<1>3. PICK x \in T : \A y \in T : x <= y
  BY <1>2, LeastNatural, Zenon
<1>4. ASSUME NEW j \in 1 .. x PROVE j <= Len(s) /\ j <= Len(t) /\ s[j] = t[j]
  <2>1. j - 1 \in Nat /\ (j - 1) + 1 = j /\ ~(x <= j - 1)
    BY <1>2, <1>3
  <2>2. j - 1 \notin T
    BY <1>3, <2>1
  <2> QED
    BY <1>1, <2>1, <2>2
<1>5. x \in Nat
  OBVIOUS
<1>6. x <= Len(s) /\ x <= Len(t)
  <2>1. CASE x = 0
    BY <1>1, <2>1
  <2>2. CASE x # 0
    <3>1. x \in 1 .. x
      BY <1>5, <2>2
    <3> QED
      BY <1>4, <3>1
  <2> QED
    BY <2>1, <2>2
<1>7. x < Len(s) /\ x < Len(t) => s[x + 1] # t[x + 1]
  BY <1>1, <1>3
<1>8. AgreeTo(s, t, x)
  BY <1>4, <1>5, <1>6, <1>7 DEF AgreeTo
<1> QED
  BY <1>5, <1>8

\* The store compares two keys by the first symbol that differs, or else by
\* their lengths.
LEMMA LessAt ==
  ASSUME NEW S, NEW s \in Seq(S), NEW t \in Seq(S), NEW m, AgreeTo(s, t, m)
  PROVE  Less(s, t) <=> /\ m < Len(t)
                        /\ \/ m = Len(s)
                           \/ /\ s[m + 1][1] = "byte" /\ t[m + 1][1] = "byte"
                              /\ s[m + 1][2] < t[m + 1][2]
<1> DEFINE differ == {i \in DOMAIN s \cap DOMAIN t : s[i] # t[i]}
           least == CHOOSE x \in differ : \A y \in differ : x <= y
<1>1. Len(s) \in Nat /\ Len(t) \in Nat /\ DOMAIN s = 1 .. Len(s) /\ DOMAIN t = 1 .. Len(t)
  OBVIOUS
<1>n. Len(s) \in Nat /\ Len(t) \in Nat
  BY <1>1
<1>2. /\ m \in Nat /\ m <= Len(s) /\ m <= Len(t)
      /\ \A j \in 1 .. m : s[j] = t[j]
      /\ m < Len(s) /\ m < Len(t) => s[m + 1] # t[m + 1]
  BY DEF AgreeTo
<1>m. m \in Nat /\ m <= Len(s) /\ m <= Len(t)
  BY <1>2
<1>3. Less(s, t) <=>
        IF differ = {} THEN Len(s) < Len(t)
        ELSE s[least][1] = "byte" /\ t[least][1] = "byte" /\ s[least][2] < t[least][2]
  BY DEF Less
<1>d. \A i : i \in differ <=> i \in 1 .. Len(s) /\ i \in 1 .. Len(t) /\ s[i] # t[i]
  BY <1>1
<1> HIDE DEF differ
<1>4. CASE m = Len(s) \/ m = Len(t)
  <2>1. ASSUME NEW i \in differ PROVE FALSE
    <3>1. i \in 1 .. Len(s) /\ i \in 1 .. Len(t) /\ s[i] # t[i]
      BY <1>d, Zenon
    <3>2. i \in 1 .. m
      BY <1>1, <1>2, <1>4, <3>1, Zenon
    <3> QED
      BY <1>2, <3>1, <3>2
  <2>2. differ = {}
    BY <2>1
  <2>3. Less(s, t) <=> Len(s) < Len(t)
    BY <1>3, <2>2
  <2>4. Len(s) < Len(t) <=> m < Len(t) /\ m = Len(s)
    BY <1>n, <1>m, <1>4
  <2>5. m < Len(t) => m = Len(s)
    BY <1>n, <1>m, <1>4
  <2> QED
    BY <2>3, <2>4, <2>5
<1>5. CASE m < Len(s) /\ m < Len(t)
  <2>1. m + 1 \in differ
    <3>1. m + 1 \in 1 .. Len(s) /\ m + 1 \in 1 .. Len(t)
      BY <1>n, <1>m, <1>5
    <3>2. s[m + 1] # t[m + 1]
      BY <1>2, <1>5
    <3> QED
      BY <1>d, <3>1, <3>2
  <2>2. ASSUME NEW i \in differ PROVE m + 1 <= i
    <3>1. i \in 1 .. Len(s) /\ s[i] # t[i]
      BY <1>d, Zenon
    <3>2. i \notin 1 .. m
      BY <1>2, <3>1
    <3> QED
      BY <1>m, <1>n, <3>1, <3>2
  <2>3. differ \subseteq Nat
    BY <1>d
  <2>4. least \in differ /\ \A y \in differ : least <= y
    BY <2>1, <2>2
  <2> HIDE DEF least
  <2>5. least = m + 1
    BY <1>2, <2>1, <2>2, <2>3, <2>4
  <2>6. differ # {} /\ m # Len(s)
    BY <1>2, <1>5, <2>1
  <2> QED
    BY <1>3, <1>5, <2>5, <2>6
<1> QED
  BY <1>n, <1>m, <1>4, <1>5

\* Two sequences of bytes are the same or one is before the other.
LEMMA BeforeTotal ==
  ASSUME NEW s \in Seq(Octets), NEW t \in Seq(Octets)
  PROVE  s = t \/ Before(s, t) \/ Before(t, s)
<1>1. Len(s) \in Nat /\ Len(t) \in Nat
  OBVIOUS
<1>2. PICK k \in Nat : AgreeTo(s, t, k)
  BY FirstDifference
<1>3. /\ k \in 0 .. Len(s) /\ k \in 0 .. Len(t)
      /\ \A j \in 1 .. k : s[j] = t[j]
      /\ k < Len(s) /\ k < Len(t) => s[k + 1] # t[k + 1]
  BY <1>1, <1>2 DEF AgreeTo
<1>4. CASE k = Len(s) /\ k = Len(t)
  BY <1>3, <1>4, SameSequence, Zenon
<1>5. CASE k = Len(s) /\ k < Len(t)
  BY <1>3, <1>5 DEF Before
<1>6. CASE k = Len(t) /\ k < Len(s)
  BY <1>3, <1>6 DEF Before
<1>7. CASE k < Len(s) /\ k < Len(t)
  <2>1. k + 1 \in 1 .. Len(s) /\ k + 1 \in 1 .. Len(t)
    BY <1>1, <1>7
  <2>2. s[k + 1] \in Octets /\ t[k + 1] \in Octets /\ s[k + 1] # t[k + 1]
    BY <1>3, <1>7, <2>1
  <2>3. s[k + 1] < t[k + 1] \/ t[k + 1] < s[k + 1]
    BY <2>2, OctetOrder
  <2> QED
    BY <1>3, <1>7, <2>3 DEF Before
<1> QED
  BY <1>1, <1>3, <1>4, <1>5, <1>6, <1>7

\* No two sequences are each before the other.
LEMMA BeforeOneWay ==
  ASSUME NEW s \in Seq(Octets), NEW t \in Seq(Octets), Before(s, t)
  PROVE  ~Before(t, s) /\ s # t
<1>1. Len(s) \in Nat /\ Len(t) \in Nat
  OBVIOUS
<1>2. PICK k \in 0 .. Len(s) : /\ k < Len(t)
                               /\ \A j \in 1 .. k : s[j] = t[j]
                               /\ k = Len(s) \/ s[k + 1] < t[k + 1]
  BY DEF Before
<1>3. k + 1 \in 1 .. Len(t) /\ t[k + 1] \in Octets
  BY <1>1, <1>2
<1>4. k = Len(s) \/ (k < Len(s) /\ s[k + 1] \in Octets /\ s[k + 1] < t[k + 1])
  BY <1>1, <1>2
<1>5. s # t
  BY <1>1, <1>2, <1>3, <1>4, OctetOrder
<1>6. ASSUME NEW m \in 0 .. Len(t), m < Len(s), \A j \in 1 .. m : t[j] = s[j],
             m = Len(t) \/ t[m + 1] < s[m + 1]
      PROVE  FALSE
  <2>1. CASE m < k
    <3>1. m + 1 \in 1 .. k /\ m # Len(t) /\ s[m + 1] = t[m + 1] /\ m + 1 \in 1 .. Len(t)
      BY <1>1, <1>2, <1>6, <2>1
    <3>2. t[m + 1] \in Octets
      BY <3>1
    <3> QED
      BY <1>6, <3>1, <3>2, OctetOrder
  <2>2. CASE m = k
    BY <1>1, <1>2, <1>3, <1>4, <1>6, <2>2, OctetOrder
  <2>3. CASE m > k
    <3>1. k + 1 \in 1 .. m /\ k # Len(s)
      BY <1>1, <1>2, <1>6, <2>3
    <3>2. t[k + 1] = s[k + 1]
      BY <1>6, <3>1
    <3> QED
      BY <1>3, <1>4, <3>1, <3>2, OctetOrder
  <2> QED
    BY <1>1, <1>2, <1>6, <2>1, <2>2, <2>3
<1> QED
  BY <1>5, <1>6 DEF Before

\* Keys that are made of bytes are in the order of those.
LEMMA LessIsBefore ==
  ASSUME NEW s \in Seq(Octets), NEW t \in Seq(Octets)
  PROVE  Less(Bytes(s), Bytes(t)) <=> Before(s, t)
<1> DEFINE S == {<<"byte", c, <<>>>> : c \in Octets}
<1>1. Len(s) \in Nat /\ Len(t) \in Nat /\ DOMAIN s = 1 .. Len(s) /\ DOMAIN t = 1 .. Len(t)
  OBVIOUS
<1>2. Bytes(s) \in Seq(S) /\ Bytes(t) \in Seq(S) /\ Len(Bytes(s)) = Len(s) /\ Len(Bytes(t)) = Len(t)
  BY <1>1 DEF Bytes
<1>3. /\ \A i \in 1 .. Len(s) : Bytes(s)[i] = <<"byte", s[i], <<>>>>
      /\ \A i \in 1 .. Len(t) : Bytes(t)[i] = <<"byte", t[i], <<>>>>
  BY <1>1 DEF Bytes
<1> HIDE DEF S
<1>4. PICK m \in Nat : AgreeTo(s, t, m)
  BY FirstDifference
<1>5. /\ m <= Len(s) /\ m <= Len(t) /\ m \in 0 .. Len(s) /\ m \in 0 .. Len(t)
      /\ \A j \in 1 .. m : s[j] = t[j]
      /\ m < Len(s) /\ m < Len(t) => s[m + 1] # t[m + 1]
  BY <1>1, <1>4 DEF AgreeTo
<1>n. Len(s) \in Nat /\ Len(t) \in Nat
  BY <1>1
<1>m. m \in Nat /\ m <= Len(s) /\ m <= Len(t)
  BY <1>5
<1>6. AgreeTo(Bytes(s), Bytes(t), m)
  <2>1. ASSUME NEW j \in 1 .. m PROVE Bytes(s)[j] = Bytes(t)[j]
    <3>1. j \in 1 .. Len(s) /\ j \in 1 .. Len(t)
      BY <1>n, <1>m
    <3>2. s[j] = t[j]
      BY <1>5
    <3> QED
      BY <1>3, <3>1, <3>2, Zenon
  <2>2. m < Len(s) /\ m < Len(t) => Bytes(s)[m + 1] # Bytes(t)[m + 1]
    BY <1>1, <1>3, <1>5
  <2> QED
    BY <1>2, <1>5, <2>1, <2>2 DEF AgreeTo
<1>7. Less(Bytes(s), Bytes(t)) <=>
        /\ m < Len(t)
        /\ \/ m = Len(s)
           \/ /\ Bytes(s)[m + 1][1] = "byte" /\ Bytes(t)[m + 1][1] = "byte"
              /\ Bytes(s)[m + 1][2] < Bytes(t)[m + 1][2]
  BY <1>2, <1>6, LessAt, Zenon
<1>8. CASE m = Len(s) \/ m = Len(t)
  <2>1. m < Len(t) => m = Len(s)
    BY <1>n, <1>m, <1>8
  <2>2. Less(Bytes(s), Bytes(t)) <=> m < Len(t)
    BY <1>7, <2>1
  <2>3. m < Len(t) => Before(s, t)
    BY <1>5, <2>1 DEF Before
  <2>4. ASSUME ~(m < Len(t)) PROVE ~Before(s, t)
    <3>1. m = Len(t)
      BY <1>n, <1>m, <2>4
    <3>2. CASE m < Len(s)
      <4>1. Before(t, s)
        BY <1>5, <3>1, <3>2 DEF Before
      <4> QED
        BY <4>1, BeforeOneWay
    <3>3. CASE m = Len(s)
      <4>1. s = t
        BY <1>5, <3>1, <3>3, SameSequence, Zenon
      <4> QED
        BY <4>1, BeforeOneWay
    <3> QED
      BY <1>n, <1>m, <3>2, <3>3
  <2> QED
    BY <2>2, <2>3, <2>4
<1>9. CASE m < Len(s) /\ m < Len(t)
  <2>1. m + 1 \in 1 .. Len(s) /\ m + 1 \in 1 .. Len(t) /\ m # Len(s)
    BY <1>n, <1>m, <1>9
  <2>2. s[m + 1] \in Octets /\ t[m + 1] \in Octets /\ s[m + 1] # t[m + 1]
    BY <1>5, <1>9, <2>1
  <2>3. Less(Bytes(s), Bytes(t)) <=> s[m + 1] < t[m + 1]
    BY <1>3, <1>7, <1>9, <2>1
  <2>4. s[m + 1] < t[m + 1] => Before(s, t)
    BY <1>5, <1>9 DEF Before
  <2>5. t[m + 1] < s[m + 1] => Before(t, s)
    BY <1>5, <1>9 DEF Before
  <2>6. /\ s[m + 1] < t[m + 1] \/ t[m + 1] < s[m + 1]
        /\ t[m + 1] < s[m + 1] => ~(s[m + 1] < t[m + 1])
    BY <2>2, OctetOrder
  <2> QED
    BY <2>3, <2>4, <2>5, <2>6, BeforeOneWay
<1> QED
  BY <1>n, <1>m, <1>8, <1>9

-----------------------------------------------------------------------------
\* The powers of 256, as Words multiplies them up.
PowersUpTo(W) ==
  /\ W \in [0 .. Size -> Nat \ {0}]
  /\ W[0] = 1
  /\ \A k \in 1 .. Size : W[k] = 256 * W[k - 1]

\* Words is the last of the powers.
LEMMA WordsIsPower == \E W : PowersUpTo(W) /\ W[Size] = Words
<1> DEFINE P == Nat \ {0}
           h == [x \in (1 .. Size) \X P |-> 256 * x[2]]
           D(W) == W = [k \in 0 .. Size |-> IF k = 0 THEN 1 ELSE 256 * W[k - 1]]
<1>1. Size \in Nat /\ 1 \in P /\ h \in [(1 .. Size) \X P -> P]
  BY SizeAssumption
<1>2. \A k \in 1 .. Size, x \in P : h[<<k, x>>] = 256 * x
  OBVIOUS
<1> HIDE DEF h, P
<1>3. PICK f : DefinedFrom(f, Size, P, 1, h)
  BY <1>1, RecursionExists, Zenon
<1>4. ASSUME NEW k \in 1 .. Size PROVE f[k] = 256 * f[k - 1]
  <2>1. k - 1 \in 0 .. Size
    BY <1>1
  <2>2. f[k - 1] \in P /\ f[k] = h[<<k, f[k - 1]>>]
    BY <1>3, <2>1, Zenon DEF DefinedFrom
  <2> QED
    BY <1>2, <2>2
<1>5. ASSUME NEW k \in 0 .. Size PROVE f[k] = IF k = 0 THEN 1 ELSE 256 * f[k - 1]
  <2>1. CASE k = 0
    BY <1>3, <2>1, Zenon DEF DefinedFrom
  <2>2. CASE k \in 1 .. Size
    BY <1>4, <2>2
  <2> QED
    BY <1>1, <2>1, <2>2
<1>6. D(f)
  BY <1>3, <1>5, Zenon DEF DefinedFrom
<1> DEFINE w == CHOOSE W : D(W)
<1> HIDE DEF D
<1>7. D(w)
  BY <1>6, Zenon
<1> USE DEF D
<1>8. Words = w[Size]
  BY DEF Words
<1> HIDE DEF w
<1>9. w[0] = 1 /\ \A k \in 1 .. Size : w[k] = 256 * w[k - 1]
  <2>1. \A k \in 0 .. Size : w[k] = IF k = 0 THEN 1 ELSE 256 * w[k - 1]
    BY <1>7, Zenon
  <2>2. 0 \in 0 .. Size /\ \A k \in 1 .. Size : k \in 0 .. Size /\ k # 0
    BY <1>1
  <2> QED
    BY <2>1, <2>2
<1>10. w \in [0 .. Size -> P]
  <2> DEFINE G == {k \in Nat : k <= Size => w[k] \in P}
  <2>1. 0 \in G
    BY <1>1, <1>9
  <2>2. ASSUME NEW k \in Nat, k \in G PROVE k + 1 \in G
    <3>1. SUFFICES ASSUME k + 1 <= Size PROVE w[k + 1] \in P
      OBVIOUS
    <3>2. w[k] \in P /\ w[k + 1] = 256 * w[k]
      BY <1>1, <1>9, <2>2, <3>1
    <3> QED
      BY <3>2 DEF P
  <2> HIDE DEF G
  <2>3. Nat \subseteq G
    BY <2>1, <2>2, NaturalsClosed, Zenon
  <2>4. \A k \in 0 .. Size : w[k] \in P
    BY <1>1, <2>3 DEF G
  <2> QED
    BY <1>7, <2>4
<1>11. PowersUpTo(w)
  BY <1>9, <1>10 DEF PowersUpTo, P
<1> QED
  BY <1>8, <1>11, Zenon

\* There is an even number of words, and the top bit is half of it.
LEMMA TopBitIsHalf == TOP_BIT \in Nat \ {0} /\ Words \in Nat /\ Words = 2 * TOP_BIT
<1>1. PICK W : PowersUpTo(W) /\ W[Size] = Words
  BY WordsIsPower
<1>2. Size \in 1 .. Size /\ Size - 1 \in 0 .. Size
  BY SizeAssumption
<1>3. PICK n \in Nat \ {0} : Words = 256 * n
  BY <1>1, <1>2 DEF PowersUpTo
<1> QED
  BY <1>3 DEF TOP_BIT

\* x shifted right by k bytes, for every k.
Shifts(x, S) ==
  /\ S \in [0 .. Size -> Nat]
  /\ S[0] = x
  /\ \A k \in 1 .. Size : S[k] = S[k - 1] \div 256

\* The bytes that write_u64 writes are the last bytes of the shifts.
LEMMA BytesOfShifts ==
  ASSUME NEW x \in Nat
  PROVE  \E S : Shifts(x, S) /\ BigEndian(x) = [i \in 1 .. Size |-> S[Size - i] % 256]
<1> DEFINE h == [y \in (1 .. Size) \X Nat |-> y[2] \div 256]
           D(S) == S = [k \in 0 .. Size |-> IF k = 0 THEN x ELSE S[k - 1] \div 256]
<1>1. Size \in Nat /\ h \in [(1 .. Size) \X Nat -> Nat]
  BY SizeAssumption
<1>2. \A k \in 1 .. Size, y \in Nat : h[<<k, y>>] = y \div 256
  OBVIOUS
<1> HIDE DEF h
<1>3. PICK f : DefinedFrom(f, Size, Nat, x, h)
  BY <1>1, RecursionExists, Zenon
<1>4. ASSUME NEW k \in 1 .. Size PROVE f[k] = f[k - 1] \div 256
  <2>1. k - 1 \in 0 .. Size
    BY <1>1
  <2>2. f[k - 1] \in Nat /\ f[k] = h[<<k, f[k - 1]>>]
    BY <1>3, <2>1, Zenon DEF DefinedFrom
  <2> QED
    BY <1>2, <2>2
<1>5. ASSUME NEW k \in 0 .. Size PROVE f[k] = IF k = 0 THEN x ELSE f[k - 1] \div 256
  <2>1. CASE k = 0
    BY <1>3, <2>1, Zenon DEF DefinedFrom
  <2>2. CASE k \in 1 .. Size
    BY <1>4, <2>2
  <2> QED
    BY <1>1, <2>1, <2>2
<1>6. D(f)
  BY <1>3, <1>5, Zenon DEF DefinedFrom
<1> DEFINE s == CHOOSE S : D(S)
<1> HIDE DEF D
<1>7. D(s)
  BY <1>6, Zenon
<1> USE DEF D
<1>8. BigEndian(x) = [i \in 1 .. Size |-> s[Size - i] % 256]
  BY DEF BigEndian
<1> HIDE DEF s
<1>9. s[0] = x /\ \A k \in 1 .. Size : s[k] = s[k - 1] \div 256
  <2>1. \A k \in 0 .. Size : s[k] = IF k = 0 THEN x ELSE s[k - 1] \div 256
    BY <1>7, Zenon
  <2>2. 0 \in 0 .. Size /\ \A k \in 1 .. Size : k \in 0 .. Size /\ k # 0
    BY <1>1
  <2> QED
    BY <2>1, <2>2
<1>10. s \in [0 .. Size -> Nat]
  <2> DEFINE G == {k \in Nat : k <= Size => s[k] \in Nat}
  <2>1. 0 \in G
    BY <1>1, <1>9
  <2>2. ASSUME NEW k \in Nat, k \in G PROVE k + 1 \in G
    <3>1. SUFFICES ASSUME k + 1 <= Size PROVE s[k + 1] \in Nat
      OBVIOUS
    <3>2. s[k] \in Nat /\ s[k + 1] = s[k] \div 256
      BY <1>1, <1>9, <2>2, <3>1
    <3> QED
      BY <3>2
  <2> HIDE DEF G
  <2>3. Nat \subseteq G
    BY <2>1, <2>2, NaturalsClosed, Zenon
  <2>4. \A k \in 0 .. Size : s[k] \in Nat
    BY <1>1, <2>3 DEF G
  <2> QED
    BY <1>7, <2>4
<1>11. Shifts(x, s)
  BY <1>9, <1>10 DEF Shifts
<1> QED
  BY <1>8, <1>11, Zenon

\* A word shifted by all its bytes is gone.
LEMMA ShiftedOut ==
  ASSUME NEW x \in Nat, x < Words, NEW S, Shifts(x, S)
  PROVE  S[Size] = 0
<1>1. PICK W : PowersUpTo(W) /\ W[Size] = Words
  BY WordsIsPower
<1>2. Size \in Nat
  BY SizeAssumption
<1> DEFINE G == {k \in Nat : k <= Size => S[k] < W[Size - k]}
<1>3. 0 \in G
  <2>1. S[0] = x /\ Size - 0 = Size
    BY <1>2 DEF Shifts
  <2> QED
    BY <1>1, <2>1
<1>4. ASSUME NEW k \in Nat, k \in G PROVE k + 1 \in G
  <2>1. SUFFICES ASSUME k + 1 <= Size PROVE S[k + 1] < W[Size - (k + 1)]
    OBVIOUS
  <2>2. k + 1 \in 1 .. Size /\ k \in 0 .. Size /\ Size - k \in 1 .. Size /\ Size - (k + 1) \in 0 .. Size
    BY <1>2, <2>1
  <2>3. S[k] \in Nat /\ S[k + 1] = S[k] \div 256
    <3>1. (k + 1) - 1 = k
      OBVIOUS
    <3>2. /\ \A i \in 0 .. Size : S[i] \in Nat
          /\ \A i \in 1 .. Size : S[i] = S[i - 1] \div 256
      BY DEF Shifts
    <3> QED
      BY <2>2, <3>1, <3>2
  <2>4. W[Size - (k + 1)] \in Nat /\ W[Size - k] = 256 * W[Size - (k + 1)]
    <3>1. (Size - k) - 1 = Size - (k + 1)
      BY <1>2
    <3> QED
      BY <1>1, <2>2, <3>1 DEF PowersUpTo
  <2>5. S[k] < W[Size - k]
    BY <1>4, <2>2
  <2>6. \A a, p \in Nat : a < 256 * p => a \div 256 < p
    OBVIOUS
  <2> QED
    BY <2>3, <2>4, <2>5, <2>6
<1> HIDE DEF G
<1>5. Nat \subseteq G
  BY <1>3, <1>4, NaturalsClosed, Zenon
<1>6. S[Size] < W[Size - Size] /\ Size - Size = 0
  BY <1>2, <1>5 DEF G
<1>7. S[Size] \in Nat /\ W[0] = 1
  BY <1>1, <1>2 DEF Shifts, PowersUpTo
<1> QED
  BY <1>6, <1>7

\* Of two words the lesser is shifted to what is no more.
LEMMA ShiftsMonotone ==
  ASSUME NEW x \in Nat, NEW y \in Nat, x <= y, NEW S, Shifts(x, S), NEW T, Shifts(y, T),
         NEW k \in 0 .. Size
  PROVE  S[k] <= T[k]
<1>1. Size \in Nat
  BY SizeAssumption
<1> DEFINE G == {j \in Nat : j <= Size => S[j] <= T[j]}
<1>2. 0 \in G
  BY <1>1 DEF Shifts
<1>3. ASSUME NEW j \in Nat, j \in G PROVE j + 1 \in G
  <2>1. SUFFICES ASSUME j + 1 <= Size PROVE S[j + 1] <= T[j + 1]
    OBVIOUS
  <2>2. j + 1 \in 1 .. Size /\ j \in 0 .. Size /\ (j + 1) - 1 = j
    BY <1>1, <2>1
  <2>3. S[j] \in Nat /\ S[j + 1] = S[j] \div 256 /\ T[j] \in Nat /\ T[j + 1] = T[j] \div 256
    BY <2>2 DEF Shifts
  <2>4. S[j] <= T[j]
    BY <1>3, <2>2
  <2>5. \A a, b \in Nat : a <= b => a \div 256 <= b \div 256
    OBVIOUS
  <2> QED
    BY <2>3, <2>4, <2>5
<1> HIDE DEF G
<1>4. Nat \subseteq G
  BY <1>2, <1>3, NaturalsClosed, Zenon
<1> QED
  BY <1>1, <1>4 DEF G

\* Words that are the same after l shifts are the same after more.
LEMMA ShiftsMeet ==
  ASSUME NEW x \in Nat, NEW y \in Nat, NEW S, Shifts(x, S), NEW T, Shifts(y, T),
         NEW l \in 0 .. Size, S[l] = T[l], NEW k \in l .. Size
  PROVE  S[k] = T[k]
<1>1. Size \in Nat
  BY SizeAssumption
<1> DEFINE G == {j \in Nat : l + j <= Size => S[l + j] = T[l + j]}
<1>2. 0 \in G
  <2>1. l + 0 = l
    BY <1>1
  <2> QED
    BY <2>1
<1>3. ASSUME NEW j \in Nat, j \in G PROVE j + 1 \in G
  <2>1. SUFFICES ASSUME l + (j + 1) <= Size PROVE S[l + (j + 1)] = T[l + (j + 1)]
    OBVIOUS
  <2>2. l + (j + 1) \in 1 .. Size /\ l + j <= Size /\ (l + (j + 1)) - 1 = l + j
    BY <1>1, <2>1
  <2>3. S[l + (j + 1)] = S[l + j] \div 256 /\ T[l + (j + 1)] = T[l + j] \div 256
    BY <2>2 DEF Shifts
  <2> QED
    BY <1>3, <2>2, <2>3
<1> HIDE DEF G
<1>4. Nat \subseteq G
  BY <1>2, <1>3, NaturalsClosed, Zenon
<1>5. k - l \in Nat /\ l + (k - l) = k
  BY <1>1
<1>6. k - l \in G
  BY <1>4, <1>5
<1> QED
  BY <1>1, <1>5, <1>6 DEF G

\* write_u64 writes as many bytes as a word has.
LEMMA WordIsBytes ==
  ASSUME NEW x \in Nat
  PROVE  BigEndian(x) \in Seq(Octets) /\ Len(BigEndian(x)) = Size
<1>1. Size \in Nat
  BY SizeAssumption
<1>2. PICK S : Shifts(x, S) /\ BigEndian(x) = [i \in 1 .. Size |-> S[Size - i] % 256]
  BY BytesOfShifts
<1>3. \A i \in 1 .. Size : Size - i \in 0 .. Size
  BY <1>1
<1>4. \A k \in 0 .. Size : S[k] \in Nat
  BY <1>2 DEF Shifts
<1>5. \A n \in Nat : n % 256 \in Octets
  BY DEF Octets
<1>6. \A i \in 1 .. Size : S[Size - i] % 256 \in Octets
  BY <1>3, <1>4, <1>5
<1> QED
  BY <1>1, <1>2, <1>6

\* write_u64 keeps the order of words.
LEMMA BigEndianOrder ==
  ASSUME NEW x \in Nat, NEW y \in Nat, x < y, y < Words
  PROVE  Before(BigEndian(x), BigEndian(y))
<1>1. Size \in Nat /\ Size >= 1 /\ Words \in Nat
  BY SizeAssumption, TopBitIsHalf
<1>2. PICK S : Shifts(x, S) /\ BigEndian(x) = [i \in 1 .. Size |-> S[Size - i] % 256]
  BY BytesOfShifts
<1>3. PICK T : Shifts(y, T) /\ BigEndian(y) = [i \in 1 .. Size |-> T[Size - i] % 256]
  BY BytesOfShifts
<1>4. \A i \in 1 .. Size : Size - i \in 0 .. Size
  BY <1>1
<1>5. \A k \in 0 .. Size : S[k] \in Nat /\ T[k] \in Nat
  BY <1>2, <1>3 DEF Shifts
<1>8. /\ BigEndian(x) \in Seq(Octets) /\ Len(BigEndian(x)) = Size
      /\ BigEndian(y) \in Seq(Octets) /\ Len(BigEndian(y)) = Size
  BY WordIsBytes
\* The least number of shifts after which the words are the same.
<1> DEFINE A == {k \in 0 .. Size : S[k] = T[k]}
<1>9. Size \in A
  BY <1>1, <1>2, <1>3, ShiftedOut
<1>10. A \subseteq Nat /\ A # {}
  BY <1>1, <1>9
<1>11. PICK l \in A : \A k \in A : l <= k
  BY <1>10, LeastNatural, Zenon
<1>12. l \in 1 .. Size
  BY <1>1, <1>2, <1>3, <1>11 DEF Shifts
<1>13. l - 1 \in 0 .. Size /\ l - 1 \notin A
  BY <1>1, <1>11, <1>12
<1>14. S[l - 1] <= T[l - 1]
  BY <1>1, <1>2, <1>3, <1>13, ShiftsMonotone
<1>15. S[l] = S[l - 1] \div 256 /\ T[l] = T[l - 1] \div 256 /\ S[l] = T[l]
  BY <1>2, <1>3, <1>11, <1>12 DEF Shifts
<1>16. \A a, b \in Nat : a <= b /\ a # b /\ a \div 256 = b \div 256 => a % 256 < b % 256
  OBVIOUS
<1>17. S[l - 1] % 256 < T[l - 1] % 256
  BY <1>5, <1>13, <1>14, <1>15, <1>16
<1>18. \A k \in l .. Size : S[k] = T[k]
  BY <1>2, <1>3, <1>11, ShiftsMeet
<1>19. PICK m \in Nat : m = Size - l
  BY <1>1, <1>12
<1>20. m \in 0 .. Size /\ m < Size /\ m + 1 \in 1 .. Size /\ Size - (m + 1) = l - 1
  BY <1>1, <1>12, <1>19
<1>21. ASSUME NEW j \in 1 .. m PROVE BigEndian(x)[j] = BigEndian(y)[j]
  <2>1. j \in 1 .. Size /\ Size - j \in l .. Size
    BY <1>1, <1>12, <1>19
  <2> QED
    BY <1>2, <1>3, <1>18, <2>1
<1>22. BigEndian(x)[m + 1] < BigEndian(y)[m + 1]
  BY <1>2, <1>3, <1>17, <1>20
<1> QED
  BY <1>8, <1>20, <1>21, <1>22 DEF Before

-----------------------------------------------------------------------------
\* What comes before the same bytes does not matter.
LEMMA BeforeAfterPrefix ==
  ASSUME NEW u \in Seq(Octets), NEW a \in Seq(Octets), NEW b \in Seq(Octets), Before(a, b)
  PROVE  Before(u \o a, u \o b)
<1>1. Len(u) \in Nat /\ Len(a) \in Nat /\ Len(b) \in Nat
  OBVIOUS
<1>2. PICK k \in 0 .. Len(a) : /\ k < Len(b)
                               /\ \A j \in 1 .. k : a[j] = b[j]
                               /\ k = Len(a) \/ a[k + 1] < b[k + 1]
  BY DEF Before
<1>3. PICK m \in Nat : m = Len(u) + k
  BY <1>1
<1>4. Len(u \o a) = Len(u) + Len(a) /\ Len(u \o b) = Len(u) + Len(b)
  OBVIOUS
<1>5. m \in 0 .. Len(u \o a) /\ m < Len(u \o b)
  BY <1>1, <1>2, <1>3, <1>4
<1>6. ASSUME NEW j \in 1 .. m PROVE (u \o a)[j] = (u \o b)[j]
  <2>1. CASE j <= Len(u)
    BY <1>1, <2>1
  <2>2. CASE j > Len(u)
    <3>1. j - Len(u) \in 1 .. k /\ j - Len(u) \in 1 .. Len(a) /\ j - Len(u) \in 1 .. Len(b)
      BY <1>1, <1>2, <1>3, <2>2
    <3>2. (u \o a)[j] = a[j - Len(u)] /\ (u \o b)[j] = b[j - Len(u)]
      BY <1>1, <2>2, <3>1
    <3> QED
      BY <1>2, <3>1, <3>2
  <2>3. j <= Len(u) \/ j > Len(u)
    BY <1>1
  <2> QED
    BY <2>1, <2>2, <2>3, Zenon
<1>7. m = Len(u \o a) \/ (u \o a)[m + 1] < (u \o b)[m + 1]
  <2>1. CASE k = Len(a)
    BY <1>3, <1>4, <2>1
  <2>2. CASE k < Len(a) /\ a[k + 1] < b[k + 1]
    <3>1. (u \o a)[m + 1] = a[k + 1] /\ (u \o b)[m + 1] = b[k + 1]
      BY <1>1, <1>2, <1>3, <2>2
    <3> QED
      BY <2>2, <3>1
  <2>3. k = Len(a) \/ k < Len(a)
    BY <1>1
  <2> QED
    BY <1>2, <2>1, <2>2, <2>3, Zenon
<1> QED
  BY <1>5, <1>6, <1>7, Zenon DEF Before

\* The lesser first byte decides.
LEMMA FirstByteDecides ==
  ASSUME NEW a \in Seq(Octets), NEW b \in Seq(Octets), Len(a) >= 1, Len(b) >= 1, a[1] < b[1]
  PROVE  Before(a, b)
<1>1. 0 \in 0 .. Len(a) /\ 0 < Len(b) /\ 0 + 1 = 1 /\ 1 .. 0 = {}
  OBVIOUS
<1> QED
  BY <1>1 DEF Before

\* How a byte is written in a key component.
Escape(c) == IF c = 0 THEN <<0, 255>> ELSE <<c>>

\* The escaped bytes of s, up to each of its places.
Escapes(s, E) ==
  /\ E \in [0 .. Len(s) -> Seq(Octets)]
  /\ E[0] = <<>>
  /\ \A n \in 1 .. Len(s) : E[n] = E[n - 1] \o Escape(s[n])

\* An escaped byte is one byte or two, and begins with the byte.
LEMMA EscapeBegins ==
  ASSUME NEW c \in Octets
  PROVE  /\ Escape(c) \in Seq(Octets) /\ Len(Escape(c)) >= 1 /\ Escape(c)[1] = c
         /\ c = 0 => Escape(c) = <<0, 255>>
<1>1. CASE c = 0
  <2>1. Escape(c) = <<0, 255>> /\ 0 \in Octets /\ 255 \in Octets
    BY <1>1 DEF Escape, Octets
  <2>2. <<0, 255>> \in Seq(Octets)
    BY <2>1
  <2>3. Len(<<0, 255>>) >= 1 /\ <<0, 255>>[1] = 0
    OBVIOUS
  <2> QED
    BY <1>1, <2>1, <2>2, <2>3, Zenon
<1>2. CASE c # 0
  <2>1. Escape(c) = <<c>>
    BY <1>2 DEF Escape
  <2> QED
    BY <1>2, <2>1
<1> QED
  BY <1>1, <1>2

\* Escaped writes all of them.
LEMMA EscapedIsLast ==
  ASSUME NEW s \in Seq(Octets)
  PROVE  \E E : Escapes(s, E) /\ Escaped(s) = E[Len(s)]
<1> DEFINE N == Len(s)
           Q == Seq(Octets)
           h == [x \in (1 .. N) \X Q |-> x[2] \o Escape(s[x[1]])]
           D(E) == E = [n \in 0 .. N |-> IF n = 0 THEN <<>> ELSE E[n - 1] \o Escape(s[n])]
<1>1. N \in Nat /\ <<>> \in Q
  OBVIOUS
<1>2. \A n \in 1 .. N : s[n] \in Octets /\ Escape(s[n]) \in Q
  BY EscapeBegins
<1>3. \A n \in 1 .. N, e \in Q : e \o Escape(s[n]) \in Q
  BY <1>2
<1> HIDE DEF Q
<1>4. h \in [(1 .. N) \X Q -> Q]
  BY <1>3
<1>5. \A n \in 1 .. N, e \in Q : h[<<n, e>>] = e \o Escape(s[n])
  BY Zenon
<1> HIDE DEF h, N
<1>6. PICK f : DefinedFrom(f, N, Q, <<>>, h)
  BY <1>1, <1>4, RecursionExists, Zenon
<1>7. ASSUME NEW n \in 1 .. N PROVE f[n] = f[n - 1] \o Escape(s[n])
  <2>1. n - 1 \in 0 .. N
    BY <1>1
  <2>2. f[n - 1] \in Q /\ f[n] = h[<<n, f[n - 1]>>]
    BY <1>6, <2>1 DEF DefinedFrom
  <2> QED
    BY <1>5, <2>2, Zenon
<1>8. ASSUME NEW n \in 0 .. N PROVE f[n] = IF n = 0 THEN <<>> ELSE f[n - 1] \o Escape(s[n])
  <2>1. CASE n = 0
    BY <1>6, <2>1 DEF DefinedFrom
  <2>2. CASE n \in 1 .. N
    <3>1. n # 0
      BY <1>1, <2>2
    <3>2. f[n] = f[n - 1] \o Escape(s[n])
      BY <1>7, <2>2, Zenon
    <3> QED
      BY <3>1, <3>2, Zenon
  <2> QED
    BY <1>1, <2>1, <2>2
<1>9. D(f)
  BY <1>6, <1>8, Zenon DEF DefinedFrom
<1> DEFINE w == CHOOSE E : D(E)
<1> HIDE DEF D
<1>10. D(w)
  BY <1>9, Zenon
<1> USE DEF D
<1>11. Escaped(s) = w[N]
  BY DEF Escaped, Escape, N
<1> HIDE DEF w
<1>12. w[0] = <<>> /\ \A n \in 1 .. N : w[n] = w[n - 1] \o Escape(s[n])
  <2>1. \A n \in 0 .. N : w[n] = IF n = 0 THEN <<>> ELSE w[n - 1] \o Escape(s[n])
    BY <1>10, Zenon
  <2>2. 0 \in 0 .. N /\ \A n \in 1 .. N : n \in 0 .. N /\ n # 0
    BY <1>1
  <2> QED
    BY <2>1, <2>2, Zenon
<1>13. w \in [0 .. N -> Q]
  <2> DEFINE G == {n \in Nat : n <= N => w[n] \in Q}
  <2>1. 0 \in G
    BY <1>1, <1>12
  <2>2. ASSUME NEW n \in Nat, n \in G PROVE n + 1 \in G
    <3>1. SUFFICES ASSUME n + 1 <= N PROVE w[n + 1] \in Q
      OBVIOUS
    <3>2. n + 1 \in 1 .. N /\ (n + 1) - 1 = n /\ w[n] \in Q
      BY <1>1, <2>2, <3>1
    <3>3. w[n + 1] = w[n] \o Escape(s[n + 1])
      BY <1>12, <3>2, Zenon
    <3> QED
      BY <1>3, <3>2, <3>3
  <2> HIDE DEF G
  <2>3. Nat \subseteq G
    BY <2>1, <2>2, NaturalsClosed, Zenon
  <2>4. \A n \in 0 .. N : w[n] \in Q
    BY <1>1, <2>3 DEF G
  <2> QED
    BY <1>10, <2>4
<1>14. Escapes(s, w)
  BY <1>12, <1>13, Zenon DEF Escapes, Q, N
<1> QED
  BY <1>11, <1>14, Zenon DEF N

\* Bytes that agree up to k are escaped to what agrees.
LEMMA EscapesAgree ==
  ASSUME NEW s \in Seq(Octets), NEW t \in Seq(Octets), NEW E, Escapes(s, E), NEW F, Escapes(t, F),
         NEW k \in Nat, k <= Len(s), k <= Len(t), \A j \in 1 .. k : s[j] = t[j]
  PROVE  E[k] = F[k]
<1> DEFINE G == {j \in Nat : j <= k => E[j] = F[j]}
<1>1. 0 \in G
  BY DEF Escapes
<1>2. ASSUME NEW j \in Nat, j \in G PROVE j + 1 \in G
  <2>1. SUFFICES ASSUME j + 1 <= k PROVE E[j + 1] = F[j + 1]
    OBVIOUS
  <2>2. /\ j + 1 \in 1 .. Len(s) /\ j + 1 \in 1 .. Len(t) /\ j + 1 \in 1 .. k
        /\ (j + 1) - 1 = j /\ j <= k
    BY <2>1
  <2>3. E[j + 1] = E[j] \o Escape(s[j + 1]) /\ F[j + 1] = F[j] \o Escape(t[j + 1])
    BY <2>2, Zenon DEF Escapes
  <2>4. E[j] = F[j] /\ s[j + 1] = t[j + 1]
    BY <1>2, <2>2
  <2> QED
    BY <2>3, <2>4
<1> HIDE DEF G
<1>3. Nat \subseteq G
  BY <1>1, <1>2, NaturalsClosed, Zenon
<1> QED
  BY <1>3 DEF G

\* What is escaped first is written first.
LEMMA EscapesExtend ==
  ASSUME NEW s \in Seq(Octets), NEW E, Escapes(s, E), NEW k \in 0 .. Len(s)
  PROVE  \E r \in Seq(Octets) : E[Len(s)] = E[k] \o r
<1>1. Len(s) \in Nat /\ k \in Nat /\ E[k] \in Seq(Octets)
  BY DEF Escapes
<1> DEFINE G == {j \in Nat : k + j <= Len(s) => \E r \in Seq(Octets) : E[k + j] = E[k] \o r}
<1>2. 0 \in G
  <2>1. k + 0 = k /\ <<>> \in Seq(Octets) /\ E[k] = E[k] \o <<>>
    BY <1>1
  <2> QED
    BY <2>1, Zenon
<1>3. ASSUME NEW j \in Nat, j \in G PROVE j + 1 \in G
  <2>1. SUFFICES ASSUME k + (j + 1) <= Len(s)
                 PROVE  \E r \in Seq(Octets) : E[k + (j + 1)] = E[k] \o r
    OBVIOUS
  <2>2. k + (j + 1) \in 1 .. Len(s) /\ (k + (j + 1)) - 1 = k + j /\ k + j <= Len(s)
    BY <1>1, <2>1
  <2>3. PICK r \in Seq(Octets) : E[k + j] = E[k] \o r
    BY <1>3, <2>2
  <2>4. PICK c \in Octets : c = s[k + (j + 1)]
    BY <2>2
  <2>5. PICK d \in Seq(Octets) : d = Escape(c)
    BY EscapeBegins
  <2>0. E[k + (j + 1)] = E[k + j] \o d
    BY <2>2, <2>4, <2>5, Zenon DEF Escapes
  <2>6. (E[k] \o r) \o d = E[k] \o (r \o d) /\ r \o d \in Seq(Octets)
    <3>1. Joins(Octets, E[k], r, d)
      BY <1>1, Joined, Zenon
    <3> QED
      BY <3>1, Zenon DEF Joins
  <2>7. E[k + (j + 1)] = E[k] \o (r \o d)
    BY <2>0, <2>3, <2>6
  <2> QED
    BY <2>6, <2>7, Zenon
<1> HIDE DEF G
<1>4. Nat \subseteq G
  BY <1>2, <1>3, NaturalsClosed, Zenon
<1>5. Len(s) - k \in Nat /\ k + (Len(s) - k) = Len(s)
  BY <1>1
<1>6. Len(s) - k \in G
  BY <1>4, <1>5
<1> QED
  BY <1>1, <1>5, <1>6 DEF G

\* From place k + 1 on, the key component goes on with the escaped byte there.
LEMMA EscapedGoesOn ==
  ASSUME NEW s \in Seq(Octets), NEW E, Escapes(s, E), Escaped(s) = E[Len(s)],
         NEW k \in Nat, k < Len(s)
  PROVE  \E r \in Seq(Octets) :
           /\ Escaped(s) \o <<0>> = E[k] \o (Escape(s[k + 1]) \o r)
           /\ Len(r) >= 1
<1>1. k + 1 \in 0 .. Len(s) /\ k + 1 \in 1 .. Len(s) /\ (k + 1) - 1 = k /\ k \in 0 .. Len(s)
  OBVIOUS
<1>2. PICK q \in Seq(Octets) : E[Len(s)] = E[k + 1] \o q
  BY <1>1, EscapesExtend, Zenon
<1>3. PICK c \in Octets : c = s[k + 1]
  BY <1>1
<1>4. PICK a \in Seq(Octets) : a = E[k]
  BY <1>1, Zenon DEF Escapes
<1>5. PICK b \in Seq(Octets) : b = Escape(c)
  BY EscapeBegins
<1>6. E[k + 1] = a \o b
  BY <1>1, <1>3, <1>4, <1>5, Zenon DEF Escapes
<1>7. <<0>> \in Seq(Octets)
  <2>1. 0 \in Octets
    BY DEF Octets
  <2> QED
    BY <2>1
<1>0. PICK z \in Seq(Octets) : z = <<0>> /\ Len(z) = 1
  <2>1. Len(<<0>>) = 1
    OBVIOUS
  <2> QED
    BY <1>7, <2>1, Zenon
<1>8. PICK r \in Seq(Octets) : r = q \o z /\ Len(r) >= 1
  <2>1. q \o z \in Seq(Octets) /\ Len(q \o z) = Len(q) + Len(z)
    OBVIOUS
  <2>2. Len(q \o z) >= 1
    BY <1>0, <2>1
  <2> QED
    BY <2>1, <2>2, Zenon
<1>9. ((a \o b) \o q) \o z = (a \o b) \o r
  <2>1. a \o b \in Seq(Octets)
    <3>1. Joins(Octets, a, b, r)
      BY Joined, Zenon
    <3> QED
      BY <3>1, Zenon DEF Joins
  <2>2. Joins(Octets, a \o b, q, z)
    BY <2>1, Joined, Zenon
  <2> QED
    BY <1>8, <2>2, Zenon DEF Joins
<1>10. (a \o b) \o r = a \o (b \o r)
  <2>1. Joins(Octets, a, b, r)
    BY Joined, Zenon
  <2> QED
    BY <2>1, Zenon DEF Joins
<1>11. Escaped(s) \o <<0>> = E[k] \o (Escape(s[k + 1]) \o r)
  BY <1>0, <1>2, <1>3, <1>4, <1>5, <1>6, <1>9, <1>10, Zenon
<1> QED
  BY <1>8, <1>11, Zenon

\* The tails of two terminated encodings differ in the first byte, or a is the
\* terminator and b goes on with an escaped zero.
Decided(a, b) ==
  /\ Len(a) >= 1 /\ Len(b) >= 1
  /\ a[1] < b[1] \/ (a = <<0>> /\ b[1] = 0 /\ Len(b) >= 2 /\ b[2] = 255)

\* Where bytes are before others, their encodings have a common part and tails
\* that decide.
LEMMA EscapedSplit ==
  ASSUME NEW s \in Seq(Octets), NEW t \in Seq(Octets), Before(s, t)
  PROVE  \E u, a, b \in Seq(Octets) :
           /\ Escaped(s) \o <<0>> = u \o a /\ Escaped(t) \o <<0>> = u \o b
           /\ Decided(a, b)
<1>1. PICK E : Escapes(s, E) /\ Escaped(s) = E[Len(s)]
  BY EscapedIsLast
<1>2. PICK F : Escapes(t, F) /\ Escaped(t) = F[Len(t)]
  BY EscapedIsLast
<1>3. PICK k \in 0 .. Len(s) : /\ k < Len(t)
                               /\ \A j \in 1 .. k : s[j] = t[j]
                               /\ k = Len(s) \/ s[k + 1] < t[k + 1]
  BY DEF Before
<1>4. k \in Nat /\ k <= Len(s) /\ k <= Len(t) /\ k \in 0 .. Len(s) /\ k + 1 \in 1 .. Len(t)
  BY <1>3
<1>5. E[k] = F[k]
  BY <1>1, <1>2, <1>3, <1>4, EscapesAgree
<1>6. PICK u \in Seq(Octets) : u = E[k]
  BY <1>1, <1>4 DEF Escapes
<1>7. PICK r \in Seq(Octets) : /\ Escaped(t) \o <<0>> = F[k] \o (Escape(t[k + 1]) \o r)
                               /\ Len(r) >= 1
  BY <1>2, <1>3, <1>4, EscapedGoesOn, Zenon
<1>8. PICK c \in Octets : c = t[k + 1]
  BY <1>4
<1>9. PICK d \in Seq(Octets) : d = Escape(c) /\ Len(d) >= 1 /\ d[1] = c /\ (c = 0 => d = <<0, 255>>)
  BY EscapeBegins
<1>10. PICK b \in Seq(Octets) : b = d \o r
  BY Joined, Zenon DEF Joins
<1>11. Len(b) >= 1 /\ b[1] = c /\ (c = 0 => Len(b) >= 2 /\ b[2] = 255)
  <2>1. Len(d) \in Nat /\ Len(r) \in Nat
    OBVIOUS
  <2>2. Len(b) = Len(d) + Len(r) /\ \A i \in 1 .. Len(d) : b[i] = d[i]
    <3>1. IsJoin(Octets, d, r, d \o r)
      BY JoinPlaces, Zenon
    <3> QED
      BY <1>10, <3>1 DEF IsJoin
  <2>3. c = 0 => Len(d) = 2 /\ d[2] = 255
    BY <1>9
  <2>a. Len(b) = Len(d) + Len(r) /\ Len(d) >= 1 /\ Len(r) >= 1
    BY <1>7, <1>9, <2>2, Zenon
  <2>4. Len(b) >= Len(d) + 1 /\ 1 \in 1 .. Len(d) /\ (Len(d) = 2 => 2 \in 1 .. Len(d))
    <3>1. \A l, m, n \in Nat : l = m + n /\ m >= 1 /\ n >= 1 =>
            l >= m + 1 /\ 1 \in 1 .. m /\ (m = 2 => 2 \in 1 .. m)
      OBVIOUS
    <3>2. Len(b) \in Nat
      OBVIOUS
    <3> QED
      BY <2>1, <2>a, <3>1, <3>2, Zenon
  <2>5. b[1] = d[1] /\ (Len(d) = 2 => b[2] = d[2])
    BY <2>2, <2>4, Zenon
  <2>6. Len(b) >= 1 /\ (Len(d) = 2 => Len(b) >= 2)
    BY <2>1, <2>4
  <2> QED
    BY <1>9, <2>3, <2>5, <2>6
<1>12. Escaped(t) \o <<0>> = u \o b
  BY <1>5, <1>6, <1>7, <1>8, <1>9, <1>10, Zenon
<1>13. PICK z \in Seq(Octets) : z = <<0>> /\ Len(z) = 1 /\ z[1] = 0
  <2>1. 0 \in Octets
    BY DEF Octets
  <2>2. <<0>> \in Seq(Octets) /\ Len(<<0>>) = 1 /\ <<0>>[1] = 0
    BY <2>1
  <2> QED
    BY <2>2, Zenon
<1>14. CASE k = Len(s)
  <2>1. Escaped(s) \o <<0>> = u \o z
    BY <1>1, <1>6, <1>13, <1>14
  <2>2. Decided(z, b)
    <3>1. CASE c = 0
      BY <1>11, <1>13, <3>1 DEF Decided
    <3>2. CASE c # 0
      <4>1. 0 < c
        BY <3>2 DEF Octets
      <4> QED
        BY <1>11, <1>13, <4>1 DEF Decided
    <3> QED
      BY <3>1, <3>2
  <2> QED
    BY <1>12, <2>1, <2>2, Zenon
<1>15. CASE k # Len(s)
  <2>1. k < Len(s) /\ k + 1 \in 1 .. Len(s) /\ s[k + 1] < t[k + 1]
    BY <1>3, <1>15
  <2>2. PICK q \in Seq(Octets) : /\ Escaped(s) \o <<0>> = E[k] \o (Escape(s[k + 1]) \o q)
                                 /\ Len(q) >= 1
    BY <1>1, <1>4, <2>1, EscapedGoesOn, Zenon
  <2>3. PICK e \in Octets : e = s[k + 1]
    BY <2>1
  <2>4. PICK f \in Seq(Octets) : f = Escape(e) /\ Len(f) >= 1 /\ f[1] = e
    BY EscapeBegins
  <2>5. PICK a \in Seq(Octets) : a = f \o q
    BY Joined, Zenon DEF Joins
  <2>6. Len(a) >= 1 /\ a[1] = e
    <3>1. Len(f) \in Nat /\ Len(q) \in Nat
      OBVIOUS
    <3>2. Len(a) = Len(f) + Len(q) /\ \A i \in 1 .. Len(f) : a[i] = f[i]
      <4>1. IsJoin(Octets, f, q, f \o q)
        BY JoinPlaces, Zenon
      <4> QED
        BY <2>5, <4>1 DEF IsJoin
    <3>3. 1 \in 1 .. Len(f) /\ Len(a) >= 1
      BY <2>2, <2>4, <3>1, <3>2
    <3> QED
      BY <2>4, <3>2, <3>3
  <2>7. Escaped(s) \o <<0>> = u \o a
    BY <1>6, <2>2, <2>3, <2>4, <2>5, Zenon
  <2>8. Decided(a, b)
    BY <1>8, <1>11, <2>1, <2>3, <2>6 DEF Decided
  <2> QED
    BY <1>12, <2>7, <2>8, Zenon
<1> QED
  BY <1>14, <1>15, Zenon

\* The escaped bytes with the zero after them keep the order of the bytes, also
\* when one is a prefix of the other or they hold zeros themselves.
LEMMA EscapedOrder ==
  ASSUME NEW s \in Seq(Octets), NEW t \in Seq(Octets), Before(s, t)
  PROVE  Before(Escaped(s) \o <<0>>, Escaped(t) \o <<0>>)
<1>1. PICK u, a, b \in Seq(Octets) :
        /\ Escaped(s) \o <<0>> = u \o a /\ Escaped(t) \o <<0>> = u \o b
        /\ Decided(a, b)
  BY EscapedSplit, Zenon
<1>2. Before(a, b)
  <2>1. CASE a[1] < b[1]
    BY <1>1, <2>1, FirstByteDecides DEF Decided
  <2>2. CASE a = <<0>> /\ b[1] = 0 /\ Len(b) >= 2
    <3>1. Len(a) = 1 /\ a[1] = 0
      BY <2>2
    <3>2. 1 \in 0 .. Len(a) /\ 1 < Len(b) /\ \A j \in 1 .. 1 : a[j] = b[j]
      BY <2>2, <3>1
    <3> QED
      BY <3>1, <3>2 DEF Before
  <2> QED
    BY <1>1, <2>1, <2>2 DEF Decided
<1> QED
  BY <1>1, <1>2, BeforeAfterPrefix, Zenon

-----------------------------------------------------------------------------
\* The values of the primitive types, with strings as their bytes and doubles
\* as their bits.
IsValue(p) ==
  \/ p.ty \in {"bytes", "string"} /\ p.v \in Seq(Octets)
  \/ p.ty = "int64" /\ p.v \in -TOP_BIT .. TOP_BIT - 1
  \/ p.ty = "double" /\ p.v \in 0 .. Words - 1

\* The word written for a number, and the bytes after the first of a component.
WordOf(p) ==
  IF p.ty = "double" /\ p.v >= TOP_BIT THEN Words - 1 - p.v ELSE Flipped(p.v)

Body(p) ==
  CASE p.ty = "bytes" -> Escaped(p.v) \o <<0>>
    [] p.ty = "string" -> p.v
    [] OTHER -> BigEndian(WordOf(p))

\* The first byte of a component tells the type.
Tag(p) ==
  CASE p.ty = "bytes" -> 1 [] p.ty = "string" -> 2 [] p.ty = "int64" -> 3 [] p.ty = "double" -> 4

\* The words written for numbers are words, in the order of the numbers.
LEMMA WordsInOrder ==
  ASSUME NEW p, NEW q, IsValue(p), IsValue(q), p.ty = q.ty, p.ty \in {"int64", "double"}
  PROVE  /\ WordOf(p) \in Nat /\ WordOf(p) < Words /\ p.v \in Int
         /\ Below(p, q) => WordOf(p) < WordOf(q)
         /\ ~Below(p, q) /\ ~Below(q, p) => p.v = q.v
<1>1. TOP_BIT \in Nat \ {0} /\ Words \in Nat /\ Words = 2 * TOP_BIT
  BY TopBitIsHalf
<1>2. PICK T \in Nat \ {0} : T = TOP_BIT /\ Words = 2 * T
  BY <1>1
<1>3. PICK a, b : a = p.v /\ b = q.v
  OBVIOUS
<1>4. \A n \in 0 .. Words - 1 : n % Words = n
  BY <1>1
<1>5. CASE p.ty = "int64"
  <2>1. a \in -T .. T - 1 /\ b \in -T .. T - 1
    BY <1>2, <1>3, <1>5 DEF IsValue
  <2>2. WordOf(p) = (a + T) % Words /\ WordOf(q) = (b + T) % Words
    BY <1>2, <1>3, <1>5 DEF WordOf, Flipped
  <2>3. a + T \in 0 .. Words - 1 /\ b + T \in 0 .. Words - 1
    BY <1>2, <2>1
  <2>4. WordOf(p) = a + T /\ WordOf(q) = b + T
    BY <1>4, <2>2, <2>3
  <2>5. (Below(p, q) <=> a < b) /\ (Below(q, p) <=> b < a)
    BY <1>3, <1>5 DEF Below
  <2> QED
    BY <1>1, <1>2, <1>3, <2>1, <2>3, <2>4, <2>5
<1>6. CASE p.ty = "double"
  <2> DEFINE w(n) == IF n >= T THEN Words - 1 - n ELSE n + T
             size(n) == IF n >= T THEN T - 1 - n ELSE n
  <2>1. a \in 0 .. Words - 1 /\ b \in 0 .. Words - 1
    BY <1>2, <1>3, <1>6 DEF IsValue
  <2>2. ASSUME NEW n \in 0 .. Words - 1, n < T PROVE (n + T) % Words = n + T
    <3>1. n + T \in 0 .. Words - 1
      BY <1>2, <2>2
    <3> QED
      BY <1>4, <3>1
  <2>3. WordOf(p) = w(a)
    <3>1. WordOf(p) = IF a >= T THEN Words - 1 - a ELSE (a + T) % Words
      BY <1>2, <1>3, <1>6 DEF WordOf, Flipped
    <3> QED
      BY <1>2, <2>1, <2>2, <3>1
  <2>4. WordOf(q) = w(b)
    <3>1. WordOf(q) = IF b >= T THEN Words - 1 - b ELSE (b + T) % Words
      BY <1>2, <1>3, <1>6 DEF WordOf, Flipped
    <3> QED
      BY <1>2, <2>1, <2>2, <3>1
  <2>5. (Below(p, q) <=> size(a) < size(b)) /\ (Below(q, p) <=> size(b) < size(a))
    BY <1>2, <1>3, <1>6 DEF Below
  <2>6. w(a) \in Nat /\ w(a) < Words /\ (size(a) < size(b) => w(a) < w(b))
    BY <1>2, <2>1
  <2>7. ~(size(a) < size(b)) /\ ~(size(b) < size(a)) => a = b
    BY <1>2, <2>1
  <2>8. a \in Int
    BY <1>2, <2>1
  <2> HIDE DEF w, size
  <2> QED
    BY <1>3, <2>3, <2>4, <2>5, <2>6, <2>7, <2>8
<1> QED
  BY <1>5, <1>6

\* A component is the byte of its type and its body.
LEMMA ComponentIs ==
  ASSUME NEW p, IsValue(p)
  PROVE  /\ Body(p) \in Seq(Octets) /\ <<Tag(p)>> \in Seq(Octets)
         /\ serialize_for_key_component(p) = Bytes(<<Tag(p)>> \o Body(p))
<1>1. Tag(p) \in Octets
  <2>1. p.ty \in {"bytes", "string", "int64", "double"}
    BY DEF IsValue
  <2>2. Tag(p) \in {1, 2, 3, 4}
    BY <2>1 DEF Tag
  <2>3. \A n \in {1, 2, 3, 4} : n \in Octets
    BY DEF Octets
  <2> QED
    BY <2>2, <2>3
<1>2. PICK u \in Seq(Octets) : u = <<Tag(p)>>
  <2>1. <<Tag(p)>> \in Seq(Octets)
    BY <1>1, OneByte, Zenon
  <2> QED
    BY <2>1, Zenon
<1>3. CASE p.ty = "bytes"
  <2>1. p.v \in Seq(Octets)
    BY <1>3 DEF IsValue
  <2>2. PICK e \in Seq(Octets) : e = Escaped(p.v)
    <3>1. PICK E : Escapes(p.v, E) /\ Escaped(p.v) = E[Len(p.v)]
      BY <2>1, EscapedIsLast
    <3>2. Len(p.v) \in 0 .. Len(p.v)
      BY <2>1
    <3> QED
      BY <3>1, <3>2 DEF Escapes
  <2>3. PICK z \in Seq(Octets) : z = <<0>>
    <3>1. 0 \in Octets
      BY DEF Octets
    <3>2. <<0>> \in Seq(Octets)
      BY <3>1, OneByte, Zenon
    <3> QED
      BY <3>2, Zenon
  <2>4. Body(p) = e \o z
    BY <1>3, <2>2, <2>3, Zenon DEF Body
  <2>5. serialize_for_key_component(p) = Bytes((u \o e) \o z)
    <3>1. u = <<1>>
      BY <1>2, <1>3 DEF Tag
    <3> QED
      BY <1>3, <2>2, <2>3, <3>1 DEF serialize_for_key_component
  <2>6. Joins(Octets, u, e, z)
    BY Joined, Zenon
  <2> QED
    BY <1>2, <2>4, <2>5, <2>6, Zenon DEF Joins
<1>4. CASE p.ty = "string"
  <2>1. p.v \in Seq(Octets) /\ Body(p) = p.v /\ Tag(p) = 2
    BY <1>4 DEF IsValue, Body, Tag
  <2>2. serialize_for_key_component(p) = Bytes(<<2>> \o p.v)
    BY <1>4 DEF serialize_for_key_component
  <2> QED
    BY <1>2, <2>1, <2>2
<1>5. CASE p.ty \in {"int64", "double"}
  <2>1. WordOf(p) \in Nat /\ WordOf(p) < Words
    BY <1>5, WordsInOrder
  <2>2. Body(p) = BigEndian(WordOf(p))
    BY <1>5 DEF Body
  <2>3. Body(p) \in Seq(Octets)
    BY <2>1, <2>2, WordIsBytes
  <2>4. serialize_for_key_component(p) = Bytes(<<Tag(p)>> \o BigEndian(WordOf(p)))
    <3>1. CASE p.ty = "int64"
      BY <3>1 DEF serialize_for_key_component, WordOf, Tag
    <3>2. CASE p.ty = "double"
      BY <3>2 DEF serialize_for_key_component, WordOf, Tag
    <3> QED
      BY <1>5, <3>1, <3>2
  <2> QED
    BY <1>2, <2>2, <2>3, <2>4
<1> QED
  BY <1>3, <1>4, <1>5 DEF IsValue

\* The bodies of two values of a type keep their order, and values that are not
\* ordered are the same.
LEMMA BodiesInOrder ==
  ASSUME NEW p, NEW q, IsValue(p), IsValue(q), p.ty = q.ty
  PROVE  /\ Below(p, q) => Before(Body(p), Body(q))
         /\ ~Below(p, q) /\ ~Below(q, p) => p.v = q.v
<1>1. CASE p.ty \in {"int64", "double"}
  <2>1. /\ WordOf(p) \in Nat /\ WordOf(q) \in Nat /\ WordOf(q) < Words
        /\ Below(p, q) => WordOf(p) < WordOf(q)
        /\ ~Below(p, q) /\ ~Below(q, p) => p.v = q.v
    BY <1>1, WordsInOrder
  <2>2. Body(p) = BigEndian(WordOf(p)) /\ Body(q) = BigEndian(WordOf(q))
    BY <1>1 DEF Body
  <2> QED
    BY <2>1, <2>2, BigEndianOrder
<1>2. CASE p.ty \in {"bytes", "string"}
  <2>1. PICK s \in Seq(Octets), t \in Seq(Octets) : s = p.v /\ t = q.v
    BY <1>2 DEF IsValue
  <2>2. (Below(p, q) <=> Before(s, t)) /\ (Below(q, p) <=> Before(t, s))
    <3>1. (Below(p, q) <=> Less(Bytes(s), Bytes(t))) /\ (Below(q, p) <=> Less(Bytes(t), Bytes(s)))
      BY <1>2, <2>1, Zenon DEF Below
    <3> QED
      BY <3>1, LessIsBefore
  <2>3. s = t \/ Before(s, t) \/ Before(t, s)
    BY BeforeTotal
  <2>4. Before(s, t) => Before(Body(p), Body(q))
    <3>1. CASE p.ty = "string"
      BY <2>1, <3>1 DEF Body
    <3>2. CASE p.ty = "bytes"
      <4>1. Body(p) = Escaped(s) \o <<0>> /\ Body(q) = Escaped(t) \o <<0>>
        BY <2>1, <3>2, Zenon DEF Body
      <4> QED
        BY <4>1, EscapedOrder
    <3> QED
      BY <1>2, <3>1, <3>2
  <2> QED
    BY <2>1, <2>2, <2>3, <2>4
<1> QED
  BY <1>1, <1>2 DEF IsValue

\* The order of two values is the order of their components, byte by byte.
LEMMA ComponentsInOrder ==
  ASSUME NEW p, NEW q, IsValue(p), IsValue(q), p.ty = q.ty
  PROVE  Before(<<Tag(p)>> \o Body(p), <<Tag(q)>> \o Body(q)) <=> Below(p, q)
<1>1. Tag(p) = Tag(q)
  BY DEF Tag
<1>2. PICK u \in Seq(Octets) : u = <<Tag(p)>>
  BY ComponentIs, Zenon
<1>3. PICK a \in Seq(Octets), b \in Seq(Octets) : a = Body(p) /\ b = Body(q)
  BY ComponentIs, Zenon
<1>4. PICK c \in Seq(Octets), d \in Seq(Octets) : c = u \o a /\ d = u \o b
  <2>1. u \o a \in Seq(Octets) /\ u \o b \in Seq(Octets)
    BY Concatenated, Zenon
  <2> QED
    BY <2>1, Zenon
<1>5. (Before(a, b) => Before(c, d)) /\ (Before(b, a) => Before(d, c))
  BY <1>4, BeforeAfterPrefix
<1>6. (Below(p, q) => Before(a, b)) /\ (Below(q, p) => Before(b, a))
  BY <1>3, BodiesInOrder
<1>7. ASSUME ~Below(p, q), ~Below(q, p) PROVE c = d
  <2>1. p.v = q.v
    BY <1>7, BodiesInOrder
  <2>2. a = b
    BY <1>3, <2>1 DEF Body, WordOf
  <2> QED
    BY <1>4, <2>2
<1>8. Before(c, d) => ~Before(d, c) /\ c # d
  BY BeforeOneWay
<1>9. Before(c, d) <=> Below(p, q)
  BY <1>5, <1>6, <1>7, <1>8
<1> QED
  BY <1>1, <1>2, <1>3, <1>4, <1>9

\* serialize_for_key_component keeps the order of the values of each primitive
\* type: the store's byte order of two components is the order of the values.
THEOREM KeysKeepOrder ==
  ASSUME NEW p, NEW q, IsValue(p), IsValue(q), p.ty = q.ty
  PROVE  Less(serialize_for_key_component(p), serialize_for_key_component(q)) <=> Below(p, q)
<1>1. PICK c \in Seq(Octets), d \in Seq(Octets) :
        c = <<Tag(p)>> \o Body(p) /\ d = <<Tag(q)>> \o Body(q)
  <2>1. /\ <<Tag(p)>> \in Seq(Octets) /\ Body(p) \in Seq(Octets)
        /\ <<Tag(q)>> \in Seq(Octets) /\ Body(q) \in Seq(Octets)
    BY ComponentIs, Zenon
  <2>2. <<Tag(p)>> \o Body(p) \in Seq(Octets) /\ <<Tag(q)>> \o Body(q) \in Seq(Octets)
    BY <2>1, Concatenated, Zenon
  <2> QED
    BY <2>2, Zenon
<1>2. serialize_for_key_component(p) = Bytes(c) /\ serialize_for_key_component(q) = Bytes(d)
  BY <1>1, ComponentIs
<1>3. Before(c, d) <=> Below(p, q)
  BY <1>1, ComponentsInOrder
<1> QED
  BY <1>2, <1>3, LessIsBefore

\* serialize_for_key_component tells any two primitive values apart, of one type
\* or of two: no two members of a set share a key.
THEOREM KeysTellApart ==
  ASSUME NEW p, NEW q, IsValue(p), IsValue(q),
         serialize_for_key_component(p) = serialize_for_key_component(q)
  PROVE  p.ty = q.ty /\ p.v = q.v
<1>1. PICK c \in Seq(Octets), d \in Seq(Octets) :
        c = <<Tag(p)>> \o Body(p) /\ d = <<Tag(q)>> \o Body(q)
  <2>1. /\ <<Tag(p)>> \in Seq(Octets) /\ Body(p) \in Seq(Octets)
        /\ <<Tag(q)>> \in Seq(Octets) /\ Body(q) \in Seq(Octets)
    BY ComponentIs, Zenon
  <2>2. <<Tag(p)>> \o Body(p) \in Seq(Octets) /\ <<Tag(q)>> \o Body(q) \in Seq(Octets)
    BY <2>1, Concatenated, Zenon
  <2> QED
    BY <2>2, Zenon
<1>2. Bytes(c) = Bytes(d)
  BY <1>1, ComponentIs
<1>3. c = d
  <2>1. /\ DOMAIN Bytes(c) = DOMAIN c /\ DOMAIN Bytes(d) = DOMAIN d
        /\ \A i \in DOMAIN c : Bytes(c)[i][2] = c[i]
        /\ \A i \in DOMAIN d : Bytes(d)[i][2] = d[i]
    BY DEF Bytes
  <2>2. DOMAIN c = 1 .. Len(c) /\ DOMAIN d = 1 .. Len(d)
    OBVIOUS
  <2>3. DOMAIN c = DOMAIN d /\ \A i \in 1 .. Len(c) : c[i] = d[i]
    BY <1>2, <2>1, <2>2, Zenon
  <2>4. Len(c) = Len(d)
    <3>1. Len(Bytes(c)) = Len(c) /\ Len(Bytes(d)) = Len(d)
      BY <2>2 DEF Bytes
    <3> QED
      BY <1>2, <3>1
  <2> QED
    BY <2>3, <2>4, SameSequence
<1>4. Tag(p) = Tag(q)
  <2>1. c[1] = Tag(p) /\ d[1] = Tag(q)
    BY <1>1, ComponentIs
  <2> QED
    BY <1>3, <2>1
<1>5. p.ty = q.ty
  <2>1. p.ty \in {"bytes", "string", "int64", "double"} /\ q.ty \in {"bytes", "string", "int64", "double"}
    BY DEF IsValue
  <2> QED
    BY <1>4, <2>1 DEF Tag
<1>6. ~Below(p, q) /\ ~Below(q, p)
  <2>1. Before(c, d) <=> Below(p, q)
    BY <1>1, <1>5, ComponentsInOrder
  <2>2. Before(d, c) <=> Below(q, p)
    BY <1>1, <1>5, ComponentsInOrder
  <2> QED
    BY <1>3, <2>1, <2>2, BeforeOneWay
<1> QED
  BY <1>5, <1>6, BodiesInOrder

-----------------------------------------------------------------------------
\* The symbols of keys: bytes, and storage keys, which are no bytes.
Symbols(K) == {<<"byte", c, <<>>>> : c \in Octets} \cup K

\* The range that delete_set and delete_entry_from_set delete, from a prefix up
\* to the prefix with its last byte raised by one, holds the keys that begin
\* with the prefix and no others.
THEOREM PrefixRange ==
  ASSUME NEW K, \A x \in K : x[1] # "byte",
         NEW key \in Seq(Symbols(K)), NEW prefix \in Seq(Symbols(K)), prefix # <<>>,
         NEW last \in 0 .. 254, prefix[Len(prefix)] = <<"byte", last, <<>>>>
  PROVE  InRange(key, prefix, Successor(prefix)) <=> IsPrefixOf(prefix, key)
<1> DEFINE S == Symbols(K)
           end == Successor(prefix)
           n == Len(prefix)
<1>1. n \in Nat /\ n >= 1 /\ Len(key) \in Nat /\ n \in 1 .. n
  OBVIOUS
<1>2. ASSUME NEW x \in S, NEW y \in S, x[1] = "byte", y[1] = "byte", x # y
      PROVE  x[2] \in Octets /\ y[2] \in Octets /\ x[2] # y[2]
  <2>1. x \notin K /\ y \notin K
    BY <1>2
  <2>2. PICK c \in Octets, d \in Octets : x = <<"byte", c, <<>>>> /\ y = <<"byte", d, <<>>>>
    BY <1>2, <2>1 DEF Symbols
  <2> QED
    BY <1>2, <2>2
<1>3. prefix[n][1] = "byte" /\ prefix[n][2] = last
  OBVIOUS
<1>4. PICK raised \in S : raised = <<"byte", last + 1, <<>>>> /\ raised[1] = "byte" /\ raised[2] = last + 1
  <2>1. last + 1 \in Octets
    BY DEF Octets
  <2>2. <<"byte", last + 1, <<>>>> \in S
    BY <2>1 DEF Symbols
  <2>3. <<"byte", last + 1, <<>>>>[1] = "byte" /\ <<"byte", last + 1, <<>>>>[2] = last + 1
    OBVIOUS
  <2> QED
    BY <2>2, <2>3, Zenon
<1>5. end = [prefix EXCEPT ![n] = raised]
  <2>1. Byte(last + 1)[1] = raised
    BY <1>4 DEF Byte, Bytes
  <2> QED
    BY <1>3, <2>1, Zenon DEF Successor
<1> HIDE DEF S, end
<1>6. key \in Seq(S) /\ prefix \in Seq(S)
  BY DEF S
<1>7. end \in Seq(S) /\ Len(end) = n /\ end[n] = raised /\ \A j \in 1 .. n - 1 : end[j] = prefix[j]
  BY <1>1, <1>5, <1>6
<1>8. PICK m \in Nat : AgreeTo(key, prefix, m)
  BY <1>6, FirstDifference
<1>9. InRange(key, prefix, end) <=> Less(key, end) /\ ~Less(key, prefix)
  BY DEF InRange
<1>10. /\ m <= Len(key) /\ m <= n
       /\ \A j \in 1 .. m : key[j] = prefix[j]
       /\ m < Len(key) /\ m < n => key[m + 1] # prefix[m + 1]
  BY <1>8 DEF AgreeTo
\* The key begins with the prefix.
<1>11. CASE m = n
  <2>1. IsPrefixOf(prefix, key)
    <3>1. n <= Len(key) /\ \A j \in 1 .. n : key[j] = prefix[j]
      BY <1>10, <1>11
    <3> QED
      BY <1>6, <3>1, AgreeIsPrefix
  <2>2. ~Less(key, prefix)
    <3>1. Less(key, prefix) => m < n
      BY <1>6, <1>8, LessAt
    <3> QED
      BY <1>1, <1>11, <3>1
  <2>3. Less(key, end)
    <3>0. n <= Len(key)
      BY <1>10, <1>11
    <3>1. PICK l \in Nat : l = n - 1 /\ l + 1 = n /\ l < n /\ l < Len(key)
      <4>1. n - 1 \in Nat /\ (n - 1) + 1 = n /\ n - 1 < n /\ n - 1 < Len(key)
        BY <1>1, <3>0
      <4> QED
        BY <4>1, Zenon
    <3>2. key[l + 1] = prefix[n] /\ end[l + 1] = raised
      BY <1>1, <1>7, <1>10, <1>11, <3>1
    <3>3. /\ key[l + 1][1] = "byte" /\ end[l + 1][1] = "byte"
          /\ key[l + 1][2] = last /\ end[l + 1][2] = last + 1
      BY <1>3, <1>4, <3>2
    <3>4. key[l + 1][2] < end[l + 1][2] /\ key[l + 1] # end[l + 1]
      <4>1. last < last + 1 /\ last # last + 1
        OBVIOUS
      <4> QED
        BY <3>3, <4>1
    <3>5. \A j \in 1 .. l : key[j] = end[j]
      BY <1>1, <1>7, <1>10, <1>11, <3>1
    <3>6. AgreeTo(key, end, l)
      BY <1>1, <1>7, <3>1, <3>4, <3>5 DEF AgreeTo
    <3> QED
      BY <1>6, <1>7, <3>1, <3>3, <3>4, <3>6, LessAt
  <2> QED
    BY <1>9, <2>1, <2>2, <2>3 DEF end
\* It does not: it is before the prefix, or not before the end of the range.
<1>12. CASE m < n
  <2>1. ~IsPrefixOf(prefix, key)
    <3>1. SUFFICES ASSUME n <= Len(key), SubSeq(key, 1, n) = prefix PROVE FALSE
      BY DEF IsPrefixOf
    <3>2. m + 1 \in 1 .. n /\ m < Len(key)
      BY <1>1, <1>12, <3>1
    <3>3. SubSeq(key, 1, n)[m + 1] = key[m + 1]
      BY <1>1, <1>6, <3>1, <3>2
    <3> QED
      BY <1>10, <1>12, <3>1, <3>2, <3>3
  <2>2. CASE m = Len(key)
    <3>1. Less(key, prefix)
      BY <1>6, <1>8, <1>12, <2>2, LessAt
    <3> QED
      BY <1>9, <2>1, <3>1 DEF end
  <2>3. CASE m < Len(key)
    <3>1. m + 1 \in 1 .. n /\ m + 1 \in 1 .. Len(key) /\ m # Len(key)
      BY <1>1, <1>12, <2>3
    <3>2. PICK x \in S, y \in S, z \in S : x = key[m + 1] /\ y = prefix[m + 1] /\ z = end[m + 1]
      BY <1>6, <1>7, <3>1
    <3>3. x # y
      BY <1>10, <1>12, <2>3, <3>2
    <3>4. Less(key, prefix) <=> x[1] = "byte" /\ y[1] = "byte" /\ x[2] < y[2]
      BY <1>6, <1>8, <1>12, <3>1, <3>2, LessAt
    <3>5. \A j \in 1 .. m : key[j] = end[j]
      BY <1>1, <1>7, <1>10, <1>12
    <3>6. AgreeTo(key, end, m) <=> x # z
      BY <1>1, <1>7, <1>10, <1>12, <2>3, <3>2, <3>5 DEF AgreeTo
    <3>7. x # z => (Less(key, end) <=> x[1] = "byte" /\ z[1] = "byte" /\ x[2] < z[2])
      BY <1>6, <1>7, <1>12, <3>1, <3>2, <3>6, LessAt
    <3>8. CASE m + 1 # n
      <4>1. z = y
        BY <1>1, <1>7, <3>1, <3>2, <3>8
      <4> QED
        BY <1>9, <2>1, <3>3, <3>4, <3>7, <4>1 DEF end
    <3>9. CASE m + 1 = n
      <4>1. y[1] = "byte" /\ y[2] = last /\ z = raised
        BY <1>3, <1>7, <3>2, <3>9
      <4>2. CASE x = z
        <5>1. PICK l \in Nat : AgreeTo(key, end, l)
          BY <1>6, <1>7, FirstDifference
        <5>2. l = n
          <6>1. ASSUME NEW j \in 1 .. n PROVE key[j] = end[j]
            <7>1. j \in 1 .. m \/ j = m + 1
              BY <1>1, <3>9
            <7> QED
              BY <3>2, <3>5, <4>2, <7>1, Zenon
          <6>2. l <= n /\ l <= Len(key) /\ (l < Len(key) /\ l < n => key[l + 1] # end[l + 1])
            BY <1>7, <5>1 DEF AgreeTo
          <6>3. n <= Len(key)
            BY <3>1, <3>9
          <6> QED
            BY <1>1, <6>1, <6>2, <6>3
        <5>3. ~Less(key, end)
          <6>1. Less(key, end) => l < n
            BY <1>6, <1>7, <5>1, LessAt
          <6> QED
            BY <1>1, <5>2, <6>1
        <5> QED
          BY <1>9, <2>1, <5>3 DEF end
      <4>3. CASE x # z
        <5>1. SUFFICES ASSUME x[1] = "byte", x[2] < last + 1, ~(x[2] < last) PROVE FALSE
          BY <1>4, <1>9, <2>1, <3>4, <3>7, <4>1, <4>3 DEF end
        <5>2. x[2] \in Octets /\ x[2] # last
          BY <1>2, <3>3, <4>1, <5>1
        <5>3. \A c \in Octets : c < last + 1 /\ ~(c < last) => c = last
          BY DEF Octets
        <5> QED
          BY <5>1, <5>2, <5>3
      <4> QED
        BY <4>2, <4>3
    <3> QED
      BY <3>8, <3>9
  <2> QED
    BY <1>1, <1>10, <2>2, <2>3
<1> QED
  BY <1>1, <1>10, <1>11, <1>12

\* Two sequences of bytes differ at a place that both have.
Differ(a, b) == \E i \in 1 .. Len(a) : i <= Len(b) /\ a[i] # b[i]

\* They still do after the same bytes, and with others after them.
LEMMA DifferStays ==
  ASSUME NEW u \in Seq(Octets), NEW a \in Seq(Octets), NEW b \in Seq(Octets),
         NEW c \in Seq(Octets), NEW d \in Seq(Octets), Differ(a, b)
  PROVE  Differ(u \o (a \o c), u \o (b \o d))
<1>1. PICK i \in 1 .. Len(a) : i <= Len(b) /\ a[i] # b[i]
  BY DEF Differ
<1>2. Len(u) \in Nat /\ Len(a) \in Nat /\ Len(b) \in Nat /\ Len(c) \in Nat /\ Len(d) \in Nat
  OBVIOUS
<1>3. PICK e \in Seq(Octets) : e = a \o c /\ Len(e) = Len(a) + Len(c) /\ e[i] = a[i]
  <2>1. a \o c \in Seq(Octets) /\ Len(a \o c) = Len(a) + Len(c) /\ (a \o c)[i] = a[i]
    BY <1>1, <1>2
  <2> QED
    BY <2>1, Zenon
<1>4. PICK f \in Seq(Octets) : f = b \o d /\ Len(f) = Len(b) + Len(d) /\ f[i] = b[i]
  <2>1. b \o d \in Seq(Octets) /\ Len(b \o d) = Len(b) + Len(d) /\ (b \o d)[i] = b[i]
    BY <1>1, <1>2
  <2> QED
    BY <2>1, Zenon
<1>5. i \in 1 .. Len(e) /\ i \in 1 .. Len(f)
  BY <1>1, <1>2, <1>3, <1>4
<1>6. PICK k \in Nat : k = Len(u) + i
  BY <1>2
<1>7. PICK g : g = u \o e /\ Len(g) = Len(u) + Len(e) /\ g[k] = e[i]
  <2>1. IsJoin(Octets, u, e, u \o e)
    BY JoinPlaces, Zenon
  <2> QED
    BY <1>5, <1>6, <2>1, Zenon DEF IsJoin
<1>8. PICK h : h = u \o f /\ Len(h) = Len(u) + Len(f) /\ h[k] = f[i]
  <2>1. IsJoin(Octets, u, f, u \o f)
    BY JoinPlaces, Zenon
  <2> QED
    BY <1>5, <1>6, <2>1, Zenon DEF IsJoin
<1>9. k \in 1 .. Len(g) /\ k <= Len(h)
  <2>1. Len(e) \in Nat /\ Len(f) \in Nat
    OBVIOUS
  <2> QED
    BY <1>2, <1>5, <1>6, <1>7, <1>8, <2>1
<1>10. g[k] # h[k]
  BY <1>1, <1>3, <1>4, <1>7, <1>8
<1>11. Differ(g, h)
  BY <1>9, <1>10 DEF Differ
<1> QED
  BY <1>3, <1>4, <1>7, <1>8, <1>11

\* What differs from a sequence is no prefix of it.
LEMMA DifferIsNoPrefix ==
  ASSUME NEW S, NEW a \in Seq(S), NEW b \in Seq(S), NEW i \in 1 .. Len(a), i <= Len(b), a[i] # b[i]
  PROVE  ~IsPrefixOf(a, b)
<1>1. SUFFICES ASSUME Len(a) <= Len(b), SubSeq(b, 1, Len(a)) = a PROVE FALSE
  BY DEF IsPrefixOf
<1>2. SubSeq(b, 1, Len(a))[i] = b[i]
  BY <1>1
<1> QED
  BY <1>1, <1>2

\* A string that the character NUL is not in, as a member's key needs it.
Terminated(p) == p.ty = "string" => \A i \in DOMAIN p.v : p.v[i] # 0

\* Different values of a type have bodies that differ before the zero that
\* enter_set_raw puts after them, or in that zero.
LEMMA BodiesDiffer ==
  ASSUME NEW p, NEW q, IsValue(p), IsValue(q), p.ty = q.ty, p.v # q.v, Terminated(p), Terminated(q),
         Below(p, q)
  PROVE  Differ(Body(p) \o <<0>>, Body(q) \o <<0>>)
<1>1. PICK x \in Seq(Octets), y \in Seq(Octets) : x = Body(p) /\ y = Body(q)
  BY ComponentIs, Zenon
<1>2. PICK z \in Seq(Octets) : z = <<0>> /\ Len(z) = 1 /\ z[1] = 0
  <2>1. 0 \in Octets
    BY DEF Octets
  <2>2. <<0>> \in Seq(Octets) /\ Len(<<0>>) = 1 /\ <<0>>[1] = 0
    BY <2>1
  <2> QED
    BY <2>2, Zenon
<1>3. Len(x) \in Nat /\ Len(y) \in Nat
  OBVIOUS
<1>4. PICK k \in 0 .. Len(x) : /\ k < Len(y)
                               /\ \A j \in 1 .. k : x[j] = y[j]
                               /\ k = Len(x) \/ x[k + 1] < y[k + 1]
  BY <1>1, BodiesInOrder DEF Before
<1>5. k \in Nat /\ k + 1 \in 1 .. Len(y) /\ k <= Len(x)
  BY <1>3, <1>4
<1>6. Len(x \o z) = Len(x) + 1 /\ Len(y \o z) = Len(y) + 1 /\ (y \o z)[k + 1] = y[k + 1]
  BY <1>2, <1>3, <1>5
<1>7. k + 1 \in 1 .. Len(x \o z) /\ k + 1 <= Len(y \o z)
  BY <1>3, <1>5, <1>6
<1>8. CASE k < Len(x)
  <2>1. k + 1 \in 1 .. Len(x) /\ x[k + 1] < y[k + 1]
    BY <1>3, <1>4, <1>5, <1>8
  <2>2. x[k + 1] \in Octets /\ y[k + 1] \in Octets
    BY <1>5, <2>1
  <2>3. x[k + 1] # y[k + 1]
    BY <2>1, <2>2, OctetOrder
  <2>4. (x \o z)[k + 1] = x[k + 1]
    BY <1>3, <2>1
  <2> QED
    BY <1>1, <1>2, <1>6, <1>7, <2>3, <2>4 DEF Differ
<1>9. CASE k = Len(x) /\ p.ty = "string"
  <2>1. y[k + 1] # 0
    BY <1>1, <1>5, <1>9 DEF Body, Terminated, IsValue
  <2>2. (x \o z)[k + 1] = 0
    BY <1>2, <1>3, <1>9
  <2> QED
    BY <1>1, <1>2, <1>6, <1>7, <2>1, <2>2 DEF Differ
<1>10. CASE k = Len(x) /\ p.ty \in {"int64", "double"}
  <2>1. WordOf(p) \in Nat /\ WordOf(q) \in Nat
    BY <1>10, WordsInOrder
  <2>2. x = BigEndian(WordOf(p)) /\ y = BigEndian(WordOf(q))
    BY <1>1, <1>10 DEF Body
  <2>3. Len(x) = Size /\ Len(y) = Size
    BY <2>1, <2>2, WordIsBytes
  <2> QED
    BY <1>3, <1>4, <1>10, <2>3
<1>11. CASE p.ty = "bytes"
  <2>1. PICK s \in Seq(Octets), t \in Seq(Octets) : s = p.v /\ t = q.v
    BY <1>11 DEF IsValue
  <2>2. Before(s, t)
    <3>1. Below(p, q) <=> Less(Bytes(s), Bytes(t))
      BY <1>11, <2>1 DEF Below
    <3> QED
      BY <3>1, LessIsBefore
  <2>3. x = Escaped(s) \o <<0>> /\ y = Escaped(t) \o <<0>>
    BY <1>1, <1>11, <2>1, Zenon DEF Body
  <2>4. PICK u, a, b \in Seq(Octets) : x = u \o a /\ y = u \o b /\ Decided(a, b)
    <3>1. \E u, a, b \in Seq(Octets) :
            /\ Escaped(s) \o <<0>> = u \o a /\ Escaped(t) \o <<0>> = u \o b
            /\ Decided(a, b)
      BY <2>2, EscapedSplit, Zenon
    <3> QED
      BY <2>3, <3>1, Zenon
  <2>5. Len(a) >= 1 /\ Len(b) >= 1 /\ Len(a) \in Nat /\ Len(b) \in Nat
    BY <2>4 DEF Decided
  <2>6. CASE a[1] < b[1]
    <3>1. a[1] \in Octets /\ b[1] \in Octets
      BY <2>5
    <3>2. a[1] # b[1]
      BY <2>6, <3>1, OctetOrder
    <3>3. Differ(a, b)
      BY <2>5, <3>2 DEF Differ
    <3>4. Differ(u \o (a \o z), u \o (b \o z))
      BY <3>3, DifferStays, Zenon
    <3>5. Joins(Octets, u, a, z) /\ Joins(Octets, u, b, z)
      BY Joined, Zenon
    <3> QED
      BY <1>1, <1>2, <2>4, <3>4, <3>5, Zenon DEF Joins
  <2>7. CASE a = <<0>> /\ b[1] = 0 /\ Len(b) >= 2 /\ b[2] = 255
    <3>1. PICK c \in Seq(Octets) : c = a \o z /\ Len(c) = 2 /\ c[2] = 0
      <4>1. Len(a) = 1
        BY <2>7
      <4>2. a \o z \in Seq(Octets)
        BY Concatenated, Zenon
      <4>3. Len(a \o z) = Len(a) + Len(z) /\ (Len(a) = 1 /\ Len(z) = 1 => (a \o z)[2] = z[1])
        OBVIOUS
      <4>4. Len(a \o z) = 2 /\ (a \o z)[2] = 0
        BY <1>2, <4>1, <4>3
      <4> QED
        BY <4>2, <4>4, Zenon
    <3>2. PICK e \in Seq(Octets) : e = <<>>
      <4>1. <<>> \in Seq(Octets)
        OBVIOUS
      <4> QED
        BY <4>1, Zenon
    <3>3. Differ(c, b)
      BY <2>5, <2>7, <3>1 DEF Differ
    <3>4. Differ(u \o (c \o e), u \o (b \o z))
      BY <3>3, DifferStays, Zenon
    <3>5. c \o e = c
      BY <3>2
    <3>6. Joins(Octets, u, a, z) /\ Joins(Octets, u, b, z)
      BY Joined, Zenon
    <3> QED
      BY <1>1, <1>2, <2>4, <3>1, <3>4, <3>5, <3>6, Zenon DEF Joins
  <2> QED
    BY <2>4, <2>6, <2>7 DEF Decided
<1> QED
  BY <1>3, <1>5, <1>8, <1>9, <1>10, <1>11 DEF IsValue

\* Neither of two different members' components, each with the zero after it,
\* begins with the other.
LEMMA MembersDiffer ==
  ASSUME NEW p, NEW q, IsValue(p), IsValue(q), p.ty = q.ty, p.v # q.v, Terminated(p), Terminated(q)
  PROVE  Differ(<<Tag(p)>> \o (Body(p) \o <<0>>), <<Tag(q)>> \o (Body(q) \o <<0>>))
<1>1. Differ(Body(p) \o <<0>>, Body(q) \o <<0>>)
  <2>1. Below(p, q) \/ Below(q, p)
    BY BodiesInOrder
  <2>2. CASE Below(p, q)
    BY <2>2, BodiesDiffer
  <2>3. CASE Below(q, p)
    <3>1. Differ(Body(q) \o <<0>>, Body(p) \o <<0>>)
      BY <2>3, BodiesDiffer
    <3>2. PICK a, b : a = Body(q) \o <<0>> /\ b = Body(p) \o <<0>>
      BY Zenon
    <3>3. Differ(a, b) /\ Len(a) \in Nat /\ Len(b) \in Nat
      <4>1. Body(p) \in Seq(Octets) /\ Body(q) \in Seq(Octets)
        BY ComponentIs, Zenon
      <4>2. <<0>> \in Seq(Octets)
        <5>1. 0 \in Octets
          BY DEF Octets
        <5> QED
          BY <5>1, OneByte, Zenon
      <4>3. a \in Seq(Octets) /\ b \in Seq(Octets)
        BY <3>2, <4>1, <4>2, Concatenated
      <4> QED
        BY <3>1, <3>2, <4>3
    <3>4. Differ(b, a)
      BY <3>3 DEF Differ
    <3> QED
      BY <3>2, <3>4
  <2> QED
    BY <2>1, <2>2, <2>3
<1>2. PICK u \in Seq(Octets) : u = <<Tag(p)>> /\ u = <<Tag(q)>>
  <2>1. Tag(p) = Tag(q)
    BY DEF Tag
  <2> QED
    BY <2>1, ComponentIs, Zenon
<1>3. PICK a \in Seq(Octets), b \in Seq(Octets) : a = Body(p) \o <<0>> /\ b = Body(q) \o <<0>>
  <2>1. Body(p) \in Seq(Octets) /\ Body(q) \in Seq(Octets)
    BY ComponentIs, Zenon
  <2>2. <<0>> \in Seq(Octets)
    <3>1. 0 \in Octets
      BY DEF Octets
    <3> QED
      BY <3>1, OneByte, Zenon
  <2>3. Body(p) \o <<0>> \in Seq(Octets) /\ Body(q) \o <<0>> \in Seq(Octets)
    BY <2>1, <2>2, Concatenated, Zenon
  <2> QED
    BY <2>3, Zenon
<1>4. PICK e \in Seq(Octets) : e = <<>>
  <2>1. <<>> \in Seq(Octets)
    OBVIOUS
  <2> QED
    BY <2>1, Zenon
<1>5. Differ(a, b)
  BY <1>1, <1>3
<1>6. Differ(u \o (a \o e), u \o (b \o e))
  BY <1>5, DifferStays, Zenon
<1>7. a \o e = a /\ b \o e = b
  BY <1>4
<1> QED
  BY <1>2, <1>3, <1>6, <1>7, Zenon

\* The symbols of bytes are symbols of keys, and are joined as the bytes are.
LEMMA BytesOfJoin ==
  ASSUME NEW K, NEW a \in Seq(Octets), NEW b \in Seq(Octets)
  PROVE  /\ Bytes(a) \in Seq(Symbols(K)) /\ Len(Bytes(a)) = Len(a)
         /\ \A i \in 1 .. Len(a) : Bytes(a)[i] = <<"byte", a[i], <<>>>>
         /\ Bytes(a \o b) = Bytes(a) \o Bytes(b)
<1> DEFINE S == Symbols(K)
<1>1. \A c \in Octets : <<"byte", c, <<>>>> \in S
  BY DEF Symbols
<1> HIDE DEF S
<1>2. ASSUME NEW c \in Seq(Octets)
      PROVE  /\ Bytes(c) \in Seq(S) /\ Len(Bytes(c)) = Len(c)
             /\ \A i \in 1 .. Len(c) : Bytes(c)[i] = <<"byte", c[i], <<>>>>
  BY <1>1 DEF Bytes
<1>3. PICK d \in Seq(Octets) : d = a \o b
  <2>1. a \o b \in Seq(Octets)
    BY Concatenated, Zenon
  <2> QED
    BY <2>1, Zenon
<1>4. Len(a) \in Nat /\ Len(b) \in Nat /\ Len(d) = Len(a) + Len(b)
  BY <1>3
<1>5. /\ \A i \in 1 .. Len(a) : d[i] = a[i]
      /\ \A i \in 1 .. Len(b) : d[Len(a) + i] = b[i]
  BY <1>3, <1>4
<1>6. PICK x \in Seq(S), y \in Seq(S) :
        /\ x = Bytes(a) /\ Len(x) = Len(a) /\ \A i \in 1 .. Len(a) : x[i] = <<"byte", a[i], <<>>>>
        /\ y = Bytes(b) /\ Len(y) = Len(b) /\ \A i \in 1 .. Len(b) : y[i] = <<"byte", b[i], <<>>>>
  BY <1>2
<1>7. PICK w \in Seq(S) :
        w = Bytes(d) /\ Len(w) = Len(d) /\ \A i \in 1 .. Len(d) : w[i] = <<"byte", d[i], <<>>>>
  BY <1>2
<1>8. x \o y \in Seq(S) /\ Len(x \o y) = Len(d)
  BY <1>4, <1>6
<1>9. ASSUME NEW i \in 1 .. Len(d) PROVE (x \o y)[i] = w[i]
  <2>1. CASE i <= Len(a)
    <3>1. i \in 1 .. Len(a)
      BY <1>4, <2>1
    <3>2. (x \o y)[i] = x[i]
      BY <1>4, <1>6, <3>1
    <3> QED
      BY <1>5, <1>6, <1>7, <3>1, <3>2, Zenon
  <2>2. CASE i > Len(a)
    <3>1. PICK j \in 1 .. Len(b) : i = Len(a) + j
      <4>1. i - Len(a) \in 1 .. Len(b) /\ i = Len(a) + (i - Len(a))
        BY <1>4, <2>2
      <4> QED
        BY <4>1, Zenon
    <3>2. (x \o y)[i] = y[j]
      BY <1>4, <1>6, <3>1
    <3> QED
      BY <1>5, <1>6, <1>7, <3>1, <3>2, Zenon
  <2>3. i <= Len(a) \/ i > Len(a)
    BY <1>4
  <2> QED
    BY <2>1, <2>2, <2>3, Zenon
<1>10. x \o y = w
  BY <1>7, <1>8, <1>9, SameSequence, Zenon
<1> QED
  BY <1>2, <1>3, <1>6, <1>7, <1>10 DEF S

\* The bytes of a member's keys after the prefix of its set.
MemberBytes(p) == <<Tag(p)>> \o (Body(p) \o <<0>>)

\* They are a component with the zero that enter_set_raw puts after it.
LEMMA MemberBytesAre ==
  ASSUME NEW K, NEW p, IsValue(p), NEW set \in Seq(Symbols(K))
  PROVE  /\ MemberBytes(p) \in Seq(Octets) /\ Len(MemberBytes(p)) >= 1
         /\ MemberBytes(p)[Len(MemberBytes(p))] = 0
         /\ set \o serialize_for_key_component(p) \o Byte(0) = set \o Bytes(MemberBytes(p))
<1>1. PICK u \in Seq(Octets), a \in Seq(Octets) : u = <<Tag(p)>> /\ a = Body(p)
  BY ComponentIs, Zenon
<1>2. PICK z \in Seq(Octets) : z = <<0>> /\ Len(z) = 1 /\ z[1] = 0
  <2>1. 0 \in Octets
    BY DEF Octets
  <2>2. <<0>> \in Seq(Octets) /\ Len(<<0>>) = 1 /\ <<0>>[1] = 0
    BY <2>1
  <2> QED
    BY <2>2, Zenon
<1>3. Joins(Octets, u, a, z)
  BY Joined, Zenon
<1>4. PICK c \in Seq(Octets) : c = u \o a
  <2>1. u \o a \in Seq(Octets)
    BY <1>3, Zenon DEF Joins
  <2> QED
    BY <2>1, Zenon
<1>5. MemberBytes(p) = c \o z
  BY <1>1, <1>2, <1>3, <1>4 DEF MemberBytes, Joins
<1>6. /\ c \o z \in Seq(Octets) /\ Len(c \o z) = Len(c) + Len(z) /\ Len(c) \in Nat
      /\ Len(z) = 1 => (c \o z)[Len(c) + 1] = z[1]
  OBVIOUS
<1>7. serialize_for_key_component(p) = Bytes(c) /\ Byte(0) = Bytes(z)
  BY <1>1, <1>2, <1>4, ComponentIs DEF Byte
<1>8. /\ Bytes(c) \in Seq(Symbols(K)) /\ Bytes(z) \in Seq(Symbols(K))
      /\ Bytes(c \o z) = Bytes(c) \o Bytes(z)
  BY BytesOfJoin, Zenon
<1>9. Joins(Symbols(K), set, Bytes(c), Bytes(z))
  BY <1>8, Joined, Zenon
<1>10. set \o serialize_for_key_component(p) \o Byte(0) = set \o Bytes(MemberBytes(p))
  BY <1>5, <1>7, <1>8, <1>9, Zenon DEF Joins
<1>11. PICK w \in Seq(Octets), n \in Nat :
         w = c \o z /\ n = Len(c) /\ Len(w) = n + 1 /\ w[n + 1] = 0
  <2>1. Len(c \o z) = Len(c) + 1 /\ (c \o z)[Len(c) + 1] = 0
    BY <1>2, <1>6
  <2> QED
    BY <1>6, <2>1, Zenon
<1>12. Len(w) >= 1 /\ w[Len(w)] = 0
  BY <1>11
<1> QED
  BY <1>5, <1>10, <1>11, <1>12, Zenon

\* DeleteFromSet deletes what is below one member and nothing below another: the
\* range of member p of a set, whose data prefix is set, holds a key of member q
\* exactly if they are one, for primary keys of every type and strings in which
\* there is no NUL.
THEOREM MemberRange ==
  ASSUME NEW K, \A x \in K : x[1] # "byte",
         NEW set \in Seq(Symbols(K)), NEW rest \in Seq(Symbols(K)),
         NEW p, NEW q, IsValue(p), IsValue(q), p.ty = q.ty, Terminated(p), Terminated(q)
  PROVE  LET start == set \o serialize_for_key_component(p) \o Byte(0)
             key == set \o serialize_for_key_component(q) \o Byte(0) \o rest
         IN InRange(key, start, Successor(start)) <=> p.v = q.v
<1> DEFINE S == Symbols(K)
<1>1. PICK a \in Seq(Octets), b \in Seq(Octets) :
        /\ a = MemberBytes(p) /\ b = MemberBytes(q) /\ Len(a) >= 1 /\ a[Len(a)] = 0
        /\ set \o serialize_for_key_component(p) \o Byte(0) = set \o Bytes(a)
        /\ set \o serialize_for_key_component(q) \o Byte(0) = set \o Bytes(b)
  BY MemberBytesAre, Zenon
<1>2. PICK x \in Seq(S), y \in Seq(S) :
        /\ x = Bytes(a) /\ Len(x) = Len(a) /\ \A i \in 1 .. Len(a) : x[i] = <<"byte", a[i], <<>>>>
        /\ y = Bytes(b) /\ Len(y) = Len(b) /\ \A i \in 1 .. Len(b) : y[i] = <<"byte", b[i], <<>>>>
  BY BytesOfJoin
<1> HIDE DEF S
<1>3. set \in Seq(S) /\ rest \in Seq(S)
  BY DEF S
<1>4. Len(set) \in Nat /\ Len(x) \in Nat /\ Len(y) \in Nat /\ Len(rest) \in Nat
  BY <1>3
<1>5. PICK start \in Seq(S) : /\ start = set \o x /\ Len(start) = Len(set) + Len(x)
                              /\ \A i \in 1 .. Len(x) : start[Len(set) + i] = x[i]
  <2>1. IsJoin(S, set, x, set \o x)
    BY <1>3, JoinPlaces, Zenon
  <2> QED
    BY <2>1, Zenon DEF IsJoin
<1>6. PICK member \in Seq(S) : /\ member = set \o y /\ Len(member) = Len(set) + Len(y)
                               /\ \A i \in 1 .. Len(y) : member[Len(set) + i] = y[i]
  <2>1. IsJoin(S, set, y, set \o y)
    BY <1>3, JoinPlaces, Zenon
  <2> QED
    BY <2>1, Zenon DEF IsJoin
<1>7. PICK key \in Seq(S) : /\ key = member \o rest /\ Len(key) = Len(member) + Len(rest)
                            /\ \A i \in 1 .. Len(member) : key[i] = member[i]
  <2>1. IsJoin(S, member, rest, member \o rest)
    BY <1>3, JoinPlaces, Zenon
  <2> QED
    BY <2>1, Zenon DEF IsJoin
<1>8. Len(start) \in 1 .. Len(start) /\ start[Len(start)] = <<"byte", 0, <<>>>> /\ start # <<>>
  <2>1. Len(x) \in 1 .. Len(x) /\ x[Len(x)] = <<"byte", 0, <<>>>>
    <3>1. Len(x) = Len(a) /\ Len(a) \in 1 .. Len(a)
      BY <1>1, <1>2, <1>4
    <3>2. x[Len(a)] = <<"byte", a[Len(a)], <<>>>>
      BY <1>2, <3>1
    <3> QED
      BY <1>1, <3>1, <3>2, Zenon
  <2>2. start[Len(start)] = <<"byte", 0, <<>>>> /\ Len(start) >= 1
    BY <1>4, <1>5, <2>1
  <2> QED
    BY <2>2
<1>9. InRange(key, start, Successor(start)) <=> IsPrefixOf(start, key)
  <2>1. 0 \in 0 .. 254 /\ key \in Seq(Symbols(K)) /\ start \in Seq(Symbols(K))
    BY DEF S
  <2> QED
    BY <1>8, <2>1, PrefixRange, Zenon
<1>10. ASSUME p.v = q.v PROVE IsPrefixOf(start, key)
  <2>1. a = b
    BY <1>1, <1>10, Zenon DEF MemberBytes, Tag, Body, WordOf
  <2>2. x = y
    BY <1>2, <2>1, Zenon
  <2>3. start = member
    BY <1>5, <1>6, <2>2, Zenon
  <2>4. Len(member) \in Nat /\ Len(member) <= Len(key)
    BY <1>4, <1>7
  <2>5. Len(start) <= Len(key) /\ \A i \in 1 .. Len(start) : key[i] = start[i]
    BY <1>7, <2>3, <2>4, Zenon
  <2> QED
    BY <2>5, AgreeIsPrefix
<1>11. ASSUME p.v # q.v PROVE ~IsPrefixOf(start, key)
  <2>1. Differ(a, b)
    BY <1>1, <1>11, MembersDiffer DEF MemberBytes
  <2>2. PICK i \in 1 .. Len(a) : i <= Len(b) /\ a[i] # b[i]
    BY <2>1 DEF Differ
  <2>3. i \in 1 .. Len(x) /\ i \in 1 .. Len(y) /\ x[i] # y[i]
    BY <1>2, <1>4, <2>2
  <2>4. PICK n \in Nat : n = Len(set) + i
    BY <1>4, <2>3
  <2>5. n \in 1 .. Len(start) /\ n \in 1 .. Len(member) /\ n <= Len(key)
    BY <1>4, <1>5, <1>6, <1>7, <2>3, <2>4
  <2>6. start[n] # key[n]
    BY <1>5, <1>6, <1>7, <2>3, <2>4, <2>5
  <2> QED
    BY <2>5, <2>6, DifferIsNoPrefix
<1>12. InRange(key, start, Successor(start)) <=> p.v = q.v
  BY <1>9, <1>10, <1>11
<1>13. /\ start = set \o serialize_for_key_component(p) \o Byte(0)
       /\ key = set \o serialize_for_key_component(q) \o Byte(0) \o rest
  BY <1>1, <1>2, <1>5, <1>6, <1>7, Zenon
<1> QED
  BY <1>12, <1>13, Zenon
=============================================================================
