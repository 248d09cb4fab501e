----------------------------- MODULE TreeStore ------------------------------
(***************************************************************************)
(* How the effect nodes of a query (run_node of exec.rs) keep the document *)
(* in the key-value store, a row per place under the key of its path, and  *)
(* a key-only row per member of a set.  A transaction is one step: that    *)
(* its rows change together is the business of the key-value store.        *)
(***************************************************************************)
EXTENDS TreeValues, SequencesExt

VARIABLES kv,  \* the rows: a function on keys
          doc  \* the document that the same effects make

D == INSTANCE Document

Plan == generate_plan_for_schema(1, DefaultPlan, DefaultSchema, Schema)

WalkerOf == [path \in Paths |-> Walk(Plan, path)]
RowOf == [path \in Paths |-> generate_key(WalkerOf[path])]
Present(path) == RowOf[path] \in DOMAIN kv  \* IsPresent

\* What a query sees that goes down from an export and asks at every table and
\* set on its way whether it is present.
Visible == [path \in {p \in Paths : Len(p) > 1 /\ \A n \in 2 .. Len(p) : Present(SubSeq(p, 1, n))}
              |-> kv[RowOf[path]]]

\* The rows that walk_and_insert puts for a value.
RECURSIVE Puts(_, _)
Puts(walker, value) ==
  CASE value.kind = "null" -> {}
    [] value.kind = "prim" -> {<<generate_key(walker), value.v>>}
    [] value.kind = "table" -> {<<generate_key(walker), Marker>>} \cup
         UNION {Puts(enter_field(walker, f), value.fields[f]) : f \in DOMAIN value.fields}
    [] value.kind = "set" -> {<<generate_key(walker), Marker>>} \cup
         UNION {{<<fast_scan_key(walker, k), Marker>>}
                  \cup Puts(enter_set(walker, k), value.members[k]) : k \in DOMAIN value.members}

\* What it deletes first: a set is cleared, Null deletes its own row only.
RECURSIVE Deletes(_, _)
Deletes(walker, value) ==
  CASE value.kind = "null" -> {Only(generate_key(walker))}
    [] value.kind = "prim" -> {}
    [] value.kind = "table" ->
         UNION {Deletes(enter_field(walker, f), value.fields[f]) : f \in DOMAIN value.fields}
    [] value.kind = "set" -> delete_set(walker)

\* The store after rows were deleted and others put.
Written(ranges, puts) ==
  LET kept == {k \in DOMAIN kv : ~InRanges(k, ranges)} \ {p[1] : p \in puts}
      all == {<<k, kv[k]>> : k \in kept} \cup puts
  IN [k \in {x[1] : x \in all} |-> (CHOOSE x \in all : x[1] = k)[2]]

Init == kv = <<>> /\ D!Init

InsertIntoSet(set, name, value) ==
  LET walker == WalkerOf[set]
      pk == PrimaryKeyOf(name, value)
      member == enter_set(walker, pk)
  IN /\ kv' = Written(Deletes(member, value),
                      {<<fast_scan_key(walker, pk), Marker>>} \cup Puts(member, value))
     /\ D!InsertIntoSet(set, name, value)

\* A Null value does not get here: the node is skipped.
InsertIntoTable(table, field, value) ==
  LET walker == enter_field(WalkerOf[table], field)
  IN /\ kv' = Written(Deletes(walker, value), Puts(walker, value))
     /\ D!InsertIntoTable(table, field, value)

\* Mutant of DeleteFromSet: the key-only row stays.
DeleteFromSetNotScan(set, pk) ==
  /\ kv' = Written(delete_entry_from_set(WalkerOf[set], pk) \ {Only(fast_scan_key(WalkerOf[set], pk))}, {})
  /\ D!DeleteFromSet(set, pk)

DeleteFromSet(set, pk) ==
  /\ kv' = Written(delete_entry_from_set(WalkerOf[set], pk), {})
  /\ D!DeleteFromSet(set, pk)

-----------------------------------------------------------------------------
\* FdbIterator: the store returns at most n keys at a time; the next request is
\* for the keys after the last one, first_greater_than.
RECURSIVE Scanned(_, _, _)
Scanned(start, end, n) ==
  LET keys == SetToSortSeq({k \in DOMAIN kv : InRange(k, start, end)}, Less)
      values == SubSeq(keys, 1, IF Len(keys) < n THEN Len(keys) ELSE n)
  IN IF values = <<>> THEN <<>>
     ELSE values \o Scanned(values[Len(values)] \o Byte(0), end, n)

\* The range of keys Reduce scans; a bound may be Null.
NoBound == "none"
RangeStart(walker, lo) ==
  IF lo = NoBound THEN set_fast_scan_prefix(walker) ELSE fast_scan_key(walker, lo)

RangeEnd(walker, hi) ==
  IF hi = NoBound THEN Successor(set_fast_scan_prefix(walker)) ELSE fast_scan_key(walker, hi)

\* The members that Reduce passes to its subgraph one after the other.  A member
\* is found by what follows the prefix in its key.
Visited(set, lo, hi, n) ==
  LET walker == WalkerOf[set]
      keys == Scanned(RangeStart(walker, lo), RangeEnd(walker, hi), n)
      raw(key) == SubSeq(key, Len(RowOf[set]) + 2, Len(key))
  IN [i \in DOMAIN keys |->
        CHOOSE pk \in PrimaryKeys : enter_set_raw(walker, raw(keys[i])) = enter_set(walker, pk)]

\* Mutant of CanInsert: the type checker lets the primary key pass.
CanInsertAny(name, field) == TRUE

\* The type checker: CannotInsertPrimaryKey.
CanInsert(name, field) == ~Schema.types[name][field].primary

Next ==
  \/ \E s \in SetPaths : \E v \in ValuesOf[Table(s[2].t)] : InsertIntoSet(s[1], s[2].t, v)
  \/ \E t \in TablePaths : \E f \in DOMAIN Schema.types[t[2].t] :
       /\ CanInsert(t[2].t, f)
       /\ \E v \in ValuesOf[Schema.types[t[2].t][f].ty] : InsertIntoTable(t[1], f, v)
  \/ \E s \in SetPaths : \E pk \in Steps(Schema, s[2]) : DeleteFromSet(s[1], pk)

Spec == Init /\ [][Next]_<<kv, doc>>

-----------------------------------------------------------------------------
\* Reduce visits the members of a set that GetSetElement finds, each one once
\* and in the order of their primary keys, from the start of its range up to but
\* not including the end; also in a set below a table that is not there, and
\* however many keys the store returns at a time.
ReduceVisitsTheRange ==
  \A s \in SetPaths, n \in 1 .. 2 :
    \A lo, hi \in Steps(Schema, s[2]) \cup {NoBound} :
      LET visited == Visited(s[1], lo, hi, n)
      IN /\ \A i \in DOMAIN visited : i > 1 => Below(KeyValue[visited[i - 1]], KeyValue[visited[i]])
         /\ {visited[i] : i \in DOMAIN visited} =
              {pk \in Steps(Schema, s[2]) :
                 /\ Present(Append(s[1], pk))
                 /\ lo # NoBound => ~Below(KeyValue[pk], KeyValue[lo])
                 /\ hi # NoBound => Below(KeyValue[pk], KeyValue[hi])}

\* A member is stored under its own primary key, which no later insertion into
\* the member or into what is above it takes away.
MembersKnowTheirKey ==
  \A s \in SetPaths : \A pk \in Steps(Schema, s[2]) :
    Present(Append(s[1], pk)) =>
      LET id == Append(Append(s[1], pk), PrimaryKeyField(s[2].t))
      IN Present(id) /\ kv[RowOf[id]] = pk

\* The rows are the document, to queries that ask whether the tables and sets
\* on their way are present: what was inserted is read back, what was replaced
\* or deleted is gone, and nothing else has changed.
RowsAreTheDocument == Visible = doc
=============================================================================
