----------------------------- MODULE KeyEncoding ----------------------------
(***************************************************************************)
(* Keys as sequences of bytes, and how a primary key becomes part of one:  *)
(* serialize_for_key_component of rdb-analyzer/src/data/value.rs.  A       *)
(* storage key, which the planner has drawn at random, is one opaque       *)
(* symbol among the bytes.  A primitive value is [ty, v]; v is a sequence  *)
(* of bytes, an integer, or the bits of a double.                          *)
(***************************************************************************)
EXTENDS Integers, Sequences

CONSTANT Size  \* the bytes of an integer or a double, 8 in the code

ASSUME SizeAssumption == Size \in Nat \ {0}

\* The number of values of that size.
Words ==
  LET W[k \in 0 .. Size] == IF k = 0 THEN 1 ELSE 256 * W[k - 1]
  IN W[Size]
TOP_BIT == Words \div 2

Bytes(s) == [i \in DOMAIN s |-> <<"byte", s[i], <<>>>>]  \* shaped like a storage key
Byte(b) == Bytes(<<b>>)

\* BigEndian::write_u64
BigEndian(x) ==
  LET S[k \in 0 .. Size] == IF k = 0 THEN x ELSE S[k - 1] \div 256
  IN [i \in 1 .. Size |-> S[Size - i] % 256]

\* A zero byte is escaped, so that the zero at the end sorts before what follows.
Escaped(s) ==
  LET E[n \in 0 .. Len(s)] ==
        IF n = 0 THEN <<>> ELSE E[n - 1] \o (IF s[n] = 0 THEN <<0, 255>> ELSE <<s[n]>>)
  IN E[Len(s)]

\* x as u64, with the top bit flipped.
Flipped(x) == (x + TOP_BIT) % Words

serialize_for_key_component(p) ==
  Bytes(CASE p.ty = "bytes" -> <<1>> \o Escaped(p.v) \o <<0>>
          [] p.ty = "string" -> <<2>> \o p.v
          [] p.ty = "int64" -> <<3>> \o BigEndian(Flipped(p.v))
          [] p.ty = "double" -> <<4>> \o BigEndian(IF p.v >= TOP_BIT THEN Words - 1 - p.v
                                                    ELSE Flipped(p.v)))

-----------------------------------------------------------------------------
IsPrefixOf(s, t) == Len(s) <= Len(t) /\ SubSeq(t, 1, Len(s)) = s

\* The order of the store.  Storage keys are in no particular order.
Less(s, t) ==
  LET differ == {i \in DOMAIN s \cap DOMAIN t : s[i] # t[i]}
      i == CHOOSE x \in differ : \A y \in differ : x <= y
  IN IF differ = {} THEN Len(s) < Len(t)
     ELSE s[i][1] = "byte" /\ t[i][1] = "byte" /\ s[i][2] < t[i][2]

InRange(key, start, end) == Less(key, end) /\ ~Less(key, start)

\* *end.last_mut() += 1
Successor(key) == [key EXCEPT ![Len(key)] = Byte(key[Len(key)][2] + 1)[1]]

\* The order of primitive values of one type, for the properties: bytes and
\* strings from left to right, numbers by size, minus zero before zero.
Below(p, q) ==
  CASE p.ty \in {"bytes", "string"} -> Less(Bytes(p.v), Bytes(q.v))
    [] p.ty = "int64" -> p.v < q.v
    [] p.ty = "double" ->
         LET size(b) == IF b >= TOP_BIT THEN TOP_BIT - 1 - b ELSE b IN size(p.v) < size(q.v)
=============================================================================
