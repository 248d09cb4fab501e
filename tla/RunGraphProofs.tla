--------------------------- MODULE RunGraphProofs ---------------------------
(***************************************************************************)
(* Theorems about the retry loop of a query on the SQLite backend, for     *)
(* every number of calls, attempts, connections, keys and values.          *)
(***************************************************************************)
EXTENDS RunGraph, FiniteSetTheorems, SequenceTheorems, Induction

Ops == [keys : SUBSET Keys, val : Stored]
Work == [do : {"read", "commit"}, keys : SUBSET Keys]
Snaps == [at : Nat \cup {-1}, rows : [Keys -> Stored]]

\* The values the variables range over.
TypeOK ==
  /\ db \in [Keys -> Stored]
  /\ wal \in Nat
  /\ free \in Nat
  /\ worker \in [Txns -> {"none", "spawned", "running", "ended"}]
  /\ queue \in [Txns -> Seq(Work)]
  /\ snap \in [Txns -> Snaps]
  /\ object \in [Txns -> {"none", "open", "committing", "gone"}]
  /\ log \in [Txns -> Seq(Ops)]
  /\ got \in [Txns -> [Keys -> Stored \cup {Unread}]]
  /\ outcome \in [Txns -> {"none", "ok", "conflict", "unknown"}]
  /\ applied \subseteq Txns
  /\ attempt \in [Calls -> 1 .. Attempts]
  /\ pc \in [Calls -> {"begin", "run", "commit", "sleep", "done"}]
  /\ result \in [Calls -> {"none", "ok", "unserializable", "error", "conflict", "unknown", "timeout"}]

\* A transaction no iteration has begun.
Fresh(t) == /\ object[t] = "none" /\ worker[t] = "none" /\ queue[t] = <<>>
            /\ outcome[t] = "none" /\ t \notin applied

\* A transaction whose commit was refused; nothing of it is queued any more.
Refused(t) == /\ object[t] = "gone" /\ queue[t] = <<>>
              /\ outcome[t] = "conflict" /\ t \notin applied

\* A transaction no commit was asked of.
Uncommitted(t) == /\ outcome[t] = "none" /\ t \notin applied
                  /\ \A i \in DOMAIN queue[t] : queue[t][i].do = "read"

\* A transaction whose commit is queued, or answered and then out of the queue.
Deciding(t) == \/ /\ outcome[t] = "none" /\ t \notin applied
                  /\ queue[t] = <<CommitWork>>
               \/ /\ outcome[t] # "none" /\ queue[t] = <<>>
                  /\ outcome[t] = "ok" /\ log[t] # <<>> => t \in applied
                  /\ outcome[t] = "conflict" => t \notin applied

\* How the loop of a call left its last transaction.
Left(c, t) ==
  /\ result[c] # "none"
  /\ result[c] \in {"ok", "unserializable"} =>
       /\ object[t] = "gone" /\ queue[t] = <<>>
       /\ log[t] # <<>> => t \in applied
  /\ result[c] = "error" => Fresh(t) \/ (object[t] = "gone" /\ Uncommitted(t))
  /\ result[c] = "conflict" => Refused(t)
  /\ result[c] = "unknown" => object[t] = "gone" /\ queue[t] = <<>>
  /\ result[c] = "timeout" => object[t] = "gone"

\* Where a call is tells what has become of the transaction of its iteration;
\* those of earlier iterations were refused, those of later ones are fresh.
CallInv(c) ==
  /\ \A i \in 1 .. Attempts : /\ i > attempt[c] => Fresh(<<c, i>>)
                              /\ i < attempt[c] => Refused(<<c, i>>)
  /\ pc[c] # "done" => result[c] = "none"
  /\ pc[c] = "begin" => Fresh(Txn(c))
  /\ pc[c] = "run" => object[Txn(c)] = "open" /\ Uncommitted(Txn(c))
  /\ pc[c] = "commit" => object[Txn(c)] = "committing" /\ Deciding(Txn(c))
  /\ pc[c] = "sleep" => Refused(Txn(c))
  /\ pc[c] = "done" => Left(c, Txn(c))

LoopInv == \A c \in Calls : CallInv(c)

Busy == {t \in Txns : worker[t] \in {"spawned", "running"}}

\* The pool and the workers hold all connections between them.
PoolInv == IsFiniteSet(Busy) /\ ConnectionsAccounted

\* A snapshot is as old as the count it was taken at says, one of the current
\* count is the database, and what a transaction has read comes from it.
SnapInv(t) ==
  /\ snap[t] # NoSnap => snap[t].at \in 0 .. wal
  /\ snap[t] # NoSnap /\ snap[t].at = wal => snap[t].rows = db
  /\ \A k \in Keys : got[t][k] # Unread =>
       snap[t] # NoSnap /\ got[t][k] = snap[t].rows[k]

ReadInv == \A t \in Txns : SnapInv(t)

Inv == TypeOK /\ LoopInv /\ PoolInv /\ ReadInv

-----------------------------------------------------------------------------
\* The rows after a prefix of the log of a commit are those after the shorter
\* prefix with one statement executed.
LEMMA RowsAfterUnfolds ==
  ASSUME NEW rows, NEW ops \in Seq(Ops)
  PROVE  RowsAfter(rows, ops) =
           [i \in 0 .. Len(ops) |->
              IF i = 0 THEN rows
              ELSE [k \in Keys |-> IF k \in ops[i].keys THEN ops[i].val
                                   ELSE RowsAfter(rows, ops)[i - 1][k]]]
<1> DEFINE Row(f, i) == IF i = 0 THEN rows
                        ELSE [k \in Keys |-> IF k \in ops[i].keys THEN ops[i].val
                                             ELSE f[i - 1][k]]
           Eq(n, f) == f = [i \in 0 .. n |-> Row(f, i)]
<1>1. ASSUME \E f : Eq(Len(ops), f) PROVE Eq(Len(ops), RowsAfter(rows, ops))
  BY <1>1, Zenon DEF RowsAfter
<1>2. \E f : Eq(0, f)
  <2>1. Eq(0, [i \in 0 .. 0 |-> rows])
    OBVIOUS
  <2> QED
    BY <2>1, Zenon
<1>3. ASSUME NEW n \in Nat, \E f : Eq(n, f) PROVE \E f : Eq(n + 1, f)
  <2>1. PICK f : Eq(n, f)
    BY <1>3
  <2> DEFINE g == [i \in 0 .. n + 1 |-> Row(f, i)]
  <2>2. \A i \in 0 .. n : g[i] = f[i]
    <3> HIDE DEF Row
    <3> QED BY <2>1
  <2>3. ASSUME NEW i \in 0 .. n + 1 PROVE Row(g, i) = Row(f, i)
    <3>1. CASE i = 0
      BY <3>1
    <3>2. CASE i # 0
      <4>1. i - 1 \in 0 .. n
        BY <3>2
      <4>2. g[i - 1] = f[i - 1]
        BY <4>1, <2>2, Zenon
      <4> HIDE DEF g
      <4> QED BY <4>2
    <3> QED BY <3>1, <3>2, Zenon
  <2>4. Eq(n + 1, g)
    <3> HIDE DEF Row
    <3> QED BY <2>3
  <2> QED
    BY <2>4, Zenon
<1> DEFINE G == {n \in Nat : \E f : Eq(n, f)}
<1> HIDE DEF Eq
<1>4. Nat \subseteq G
  <2>1. 0 \in G
    BY <1>2
  <2>2. \A n \in Nat : n \in G => n + 1 \in G
    BY <1>3
  <2> HIDE DEF G
  <2> QED BY <2>1, <2>2, NaturalsClosed
<1>5. Eq(Len(ops), RowsAfter(rows, ops))
  BY <1>1, <1>4
<1> QED
  BY <1>5, Zenon DEF Eq

\* A log every statement of which leaves the rows alone replays to the same
\* rows: the count of changes may stay, and snapshots of it remain current.
LEMMA UntouchedRows ==
  ASSUME NEW rows \in [Keys -> Stored], NEW ops \in Seq(Ops), ~Touches(rows, ops)
  PROVE  Replay(rows, ops) = rows
<1> DEFINE R == RowsAfter(rows, ops)
           G == {n \in Nat : n <= Len(ops) => R[n] = rows}
<1>1. 0 \in G
  BY RowsAfterUnfolds
<1>2. ASSUME NEW n \in G PROVE n + 1 \in G
  <2> SUFFICES ASSUME n + 1 <= Len(ops) PROVE R[n + 1] = rows
    OBVIOUS
  <2>1. R[n + 1] = [k \in Keys |-> IF k \in ops[n + 1].keys THEN ops[n + 1].val
                                   ELSE R[n][k]]
    BY RowsAfterUnfolds
  <2>2. R[n] = rows
    OBVIOUS
  <2>3. n + 1 \in DOMAIN ops /\ (n + 1) - 1 = n
    OBVIOUS
  <2>4. ops[n + 1].val = NoValue /\ \A k \in ops[n + 1].keys : rows[k] = NoValue
    BY <2>2, <2>3 DEF Touches
  <2> QED
    BY <2>1, <2>2, <2>4
<1>3. Nat \subseteq G
  BY <1>1, <1>2, NaturalsClosed, Zenon
<1> QED
  BY <1>3 DEF Replay

\* Replaying a log leaves a total map of rows.
LEMMA ReplayType ==
  ASSUME NEW rows \in [Keys -> Stored], NEW ops \in Seq(Ops)
  PROVE  Replay(rows, ops) \in [Keys -> Stored]
<1> DEFINE R == RowsAfter(rows, ops)
           G == {n \in Nat : n <= Len(ops) => R[n] \in [Keys -> Stored]}
<1>1. 0 \in G
  BY RowsAfterUnfolds
<1>2. ASSUME NEW n \in G PROVE n + 1 \in G
  <2> SUFFICES ASSUME n + 1 <= Len(ops) PROVE R[n + 1] \in [Keys -> Stored]
    OBVIOUS
  <2>1. R[n + 1] = [k \in Keys |-> IF k \in ops[n + 1].keys THEN ops[n + 1].val
                                   ELSE R[n][k]]
    BY RowsAfterUnfolds
  <2>2. R[n] \in [Keys -> Stored]
    OBVIOUS
  <2>3. ops[n + 1] \in Ops
    BY ElementOfSeq
  <2> QED
    BY <2>1, <2>2, <2>3 DEF Ops
<1>3. Nat \subseteq G
  BY <1>1, <1>2, NaturalsClosed, Zenon
<1> QED
  BY <1>3 DEF Replay

-----------------------------------------------------------------------------
\* The transaction of the current iteration of a call is a transaction.
LEMMA TxnOfCall ==
  ASSUME TypeOK, NEW c \in Calls
  PROVE  Txn(c) \in Txns
BY CallsAssumption DEF TypeOK, Txn

\* The empty database with its unused transactions is well typed.
LEMMA TypeInit == Init => TypeOK
<1> SUFFICES ASSUME Init PROVE TypeOK
  OBVIOUS
<1>1. NoSnap \in Snaps /\ [k \in Keys |-> NoValue] \in [Keys -> Stored]
  BY DEF NoSnap, Snaps, Stored
<1> QED
  BY <1>1, SqliteAssumption, CallsAssumption DEF Init, SqlInit, TypeOK, Stored

\* What a worker does keeps the state of the backend well typed.
LEMMA TypeWorker ==
  ASSUME TypeOK, NEW t \in Txns, Worker(t)
  PROVE  TypeOK'
<1> USE DEF TypeOK
<1>a. attempt' = attempt /\ pc' = pc /\ result' = result
  BY DEF Worker, runvars
<1>1. CASE WorkerStarts(t)
  BY <1>1, <1>a DEF WorkerStarts
<1>2. CASE WorkerFails(t)
  BY <1>2, <1>a DEF WorkerFails
<1>3. CASE WorkerReads(t)
  <2>1. Latest \in Snaps /\ snap[t] \in Snaps
    BY DEF Latest, Snaps
  <2>2. snap' \in [Txns -> Snaps] /\ snap'[t].rows \in [Keys -> Stored]
    BY <1>3, <2>1 DEF WorkerReads, Snaps
  <2>3. got' \in [Txns -> [Keys -> Stored \cup {Unread}]]
    BY <1>3, <2>2 DEF WorkerReads
  <2>4. queue' \in [Txns -> Seq(Work)]
    BY <1>3 DEF WorkerReads
  <2> QED
    BY <1>3, <1>a, <2>2, <2>3, <2>4 DEF WorkerReads
<1>4. ASSUME CanCommit(t), queue' = [queue EXCEPT ![t] = Tail(@)]
      PROVE queue' \in [Txns -> Seq(Work)]
  BY <1>4 DEF CanCommit
<1>5. ASSUME Install(t)
      PROVE db' \in [Keys -> Stored] /\ wal' \in Nat /\ applied' \subseteq Txns
  <2>1. db' \in [Keys -> Stored]
    BY <1>5, ReplayType, Zenon DEF Install
  <2>2. wal' \in Nat /\ applied' \subseteq Txns
    BY <1>5 DEF Install
  <2> QED
    BY <2>1, <2>2
<1>6. ASSUME NEW a \in {"ok", "conflict", "unknown"}, Answer(t, a)
      PROVE outcome' \in [Txns -> {"none", "ok", "conflict", "unknown"}]
  BY <1>6 DEF Answer
<1>7. CASE WorkerCommits(t)
  BY <1>7, <1>a, <1>4, <1>5, <1>6 DEF WorkerCommits
<1>8. CASE WorkerConflicts(t)
  BY <1>8, <1>a, <1>4, <1>6 DEF WorkerConflicts
<1>9. CASE WorkerErrs(t)
  BY <1>9, <1>a, <1>4, <1>5, <1>6 DEF WorkerErrs
<1>10. CASE WorkerEnds(t)
  <2>1. NoSnap \in Snaps
    BY DEF NoSnap, Snaps, Stored
  <2> QED
    BY <1>10, <1>a, <2>1 DEF WorkerEnds
<1> QED
  BY <1>1, <1>2, <1>3, <1>7, <1>8, <1>9, <1>10 DEF Worker, WorkerStep

\* Every step of the loop of a call keeps the state well typed.
LEMMA TypeCall ==
  ASSUME TypeOK, NEW c \in Calls,
         \/ Progress(c) \/ Runs(c) \/ Commits(c)
         \/ BeginFails(c) \/ RunFails(c) \/ Timeout(c)
  PROVE  TypeOK'
<1> USE DEF TypeOK
<1>t. Txn(c) \in Txns
  BY TxnOfCall
<1>1. CASE Begins(c)
  BY <1>1, <1>t DEF Begins, BeginTransaction, Goto
<1>2. CASE BeginFails(c)
  BY <1>2 DEF BeginFails, Return, sqlvars
<1>3. CASE Runs(c)
  <2>1. ASSUME NEW ks \in SUBSET Keys, Send(Txn(c), ks)
        PROVE queue' \in [Txns -> Seq(Work)]
    <3>1. ReadWork(ks) \in Work
      BY DEF ReadWork, Work
    <3> QED
      BY <2>1, <3>1, <1>t DEF Send
  <2>2. ASSUME NEW op \in Ops, Write(Txn(c), op)
        PROVE log' \in [Txns -> Seq(Ops)]
    BY <2>2, <1>t DEF Write
  <2>3. ASSUME NEW ks \in SUBSET Keys, Send(Txn(c), ks), UNCHANGED runvars PROVE TypeOK'
    BY <2>3, <2>1, Zenon DEF Send, runvars
  <2>4. ASSUME NEW op \in Ops, Write(Txn(c), op), UNCHANGED runvars PROVE TypeOK'
    BY <2>4, <2>2, Zenon DEF Write, runvars
  <2>5. \A lo, hi : KeyRange(lo, hi) \in SUBSET Keys
    BY DEF KeyRange
  <2>6. \A k \in Keys, v \in Values : PutOp(k, v) \in Ops
    BY DEF PutOp, Ops, Stored
  <2>7. \A ks \in SUBSET Keys : DeleteOp(ks) \in Ops
    BY DEF DeleteOp, Ops, Stored
  <2> QED
    BY <1>3, <2>3, <2>4, <2>5, <2>6, <2>7, Zenon
    DEF Runs, Get, ScanKeys, Put, Delete, DeleteRange
<1>4. CASE RunFails(c)
  BY <1>4, <1>t DEF RunFails, Abandon, Return
<1>5. CASE Commits(c)
  <2>1. CommitWork \in Work
    BY DEF CommitWork, Work
  <2>2. Append(queue[Txn(c)], CommitWork) \in Seq(Work)
    BY <1>t, <2>1
  <2>3. queue' \in [Txns -> Seq(Work)]
    BY <1>5, <1>t, <2>2, Zenon DEF Commits, Commit
  <2> QED
    BY <1>5, <1>t, <2>3, Zenon DEF Commits, Commit, Goto
<1>6. CASE CommitOk(c) \/ CommitConflict(c) \/ CommitUnknown(c)
  BY <1>6, <1>t, ZenonT(40)
  DEF CommitOk, CommitConflict, CommitUnknown, CommitReturns, Goto, Return
<1>7. CASE Wakes(c)
  <2>1. attempt[c] < Attempts => attempt[c] + 1 \in 1 .. Attempts
    BY CallsAssumption
  <2>2. attempt' \in [Calls -> 1 .. Attempts]
    BY <1>7, <2>1, Zenon DEF Wakes, Return
  <2> QED
    BY <1>7, <2>2, Zenon DEF Wakes, Return, sqlvars
<1>8. CASE Timeout(c)
  BY <1>8, <1>t, Zenon DEF Timeout, Abandon, Return, sqlvars
<1> QED
  BY <1>1, <1>2, <1>3, <1>4, <1>5, <1>6, <1>7, <1>8 DEF Progress

\* Every step keeps the state well typed.
LEMMA TypeStep == TypeOK /\ [Next]_vars => TypeOK'
<1> SUFFICES ASSUME TypeOK, [Next]_vars PROVE TypeOK'
  OBVIOUS
<1>1. CASE Wipes
  BY <1>1 DEF Wipes, runvars, TypeOK, Stored
<1>2. CASE UNCHANGED vars
  BY <1>2 DEF vars, sqlvars, runvars, TypeOK
<1> QED
  BY <1>1, <1>2, TypeCall, TypeWorker DEF Next, Terminated

-----------------------------------------------------------------------------
\* A step that leaves a transaction as it is.
Same(t) == /\ object'[t] = object[t] /\ worker'[t] = worker[t]
           /\ queue'[t] = queue[t] /\ outcome'[t] = outcome[t]
           /\ log'[t] = log[t] /\ (t \in applied' <=> t \in applied)

\* A transaction that rests stays as fresh or refused as it was.
LEMMA SameStays ==
  ASSUME NEW t, Same(t)
  PROVE  (Fresh(t) => Fresh(t)') /\ (Refused(t) => Refused(t)')
  BY Zenon DEF Same, Fresh, Refused

\* The empty queue has no entries, a queue of reads stays one when a read is
\* sent, and no read is a commit.
LEMMA EmptyQueue == DOMAIN <<>> = {}
  OBVIOUS
LEMMA QueueOfReads ==
  ASSUME NEW q \in Seq(Work), \A i \in DOMAIN q : q[i].do = "read", NEW w, w.do = "read"
  PROVE  \A i \in DOMAIN Append(q, w) : Append(q, w)[i].do = "read"
  OBVIOUS
LEMMA ReadIsNoCommit == ASSUME NEW w, w.do = "read" PROVE w # CommitWork
  BY DEF CommitWork

\* What is known of a call stays true while it and its transactions rest.
LEMMA CallRests ==
  ASSUME TypeOK, NEW c \in Calls, CallInv(c),
         attempt'[c] = attempt[c], pc'[c] = pc[c], result'[c] = result[c],
         \A i \in 1 .. Attempts : Same(<<c, i>>)
  PROVE  CallInv(c)'
<1>1. Txn(c)' = Txn(c)
  BY DEF Txn
<1>2. attempt[c] \in 1 .. Attempts /\ Txn(c) = <<c, attempt[c]>>
  BY DEF TypeOK, Txn
<1>3. Same(Txn(c))
  BY <1>2
<1>4. \A i \in 1 .. Attempts : /\ Fresh(<<c, i>>) => Fresh(<<c, i>>)'
                               /\ Refused(<<c, i>>) => Refused(<<c, i>>)'
  BY DEF Same, Fresh, Refused
<1>5. /\ Fresh(Txn(c)) => Fresh(Txn(c))'
      /\ Refused(Txn(c)) => Refused(Txn(c))'
  BY <1>1, <1>3 DEF Same, Fresh, Refused
<1>6. /\ Uncommitted(Txn(c)) => Uncommitted(Txn(c))'
      /\ Deciding(Txn(c)) => Deciding(Txn(c))'
  BY <1>1, <1>3 DEF Same, Uncommitted, Deciding
<1>7. object'[Txn(c)'] = object[Txn(c)]
  BY <1>1, <1>3, Zenon DEF Same
<1>8. Left(c, Txn(c)) => Left(c, Txn(c))'
  BY <1>1, <1>3, <1>5, <1>6, Zenon DEF Same, Left
<1> QED
  BY <1>4, <1>5, <1>6, <1>7, <1>8 DEF CallInv

\* A step that moves no loop but that of c.
Apart(c) == \A d \in Calls \ {c} :
               attempt'[d] = attempt[d] /\ pc'[d] = pc[d] /\ result'[d] = result[d]

\* A step of one call touches no transaction of another.
LEMMA OthersRest ==
  ASSUME TypeOK, LoopInv, NEW c \in Calls, NEW t \in {c} \X (1 .. Attempts),
         Apart(c), \A u \in Txns \ {t} : Same(u)
  PROVE  \A d \in Calls \ {c} : CallInv(d)'
<1> SUFFICES ASSUME NEW d \in Calls \ {c} PROVE CallInv(d)'
  OBVIOUS
<1>1. \A i \in 1 .. Attempts : <<d, i>> \in Txns \ {t}
  BY CallsAssumption
<1>2. attempt'[d] = attempt[d] /\ pc'[d] = pc[d] /\ result'[d] = result[d]
  BY Zenon DEF Apart
<1> QED
  BY <1>1, <1>2, CallRests, Zenon DEF LoopInv

\* A worker touches no other transaction.
LEMMA WorkerTouchesOne ==
  ASSUME TypeOK, NEW t \in Txns, Worker(t)
  PROVE  \A u \in Txns \ {t} : Same(u)
<1>z. PICK O, W, Q, U, L : /\ object \in [Txns -> O] /\ worker \in [Txns -> W]
                           /\ queue \in [Txns -> Q] /\ outcome \in [Txns -> U]
                           /\ log \in [Txns -> L]
  BY Zenon DEF TypeOK
<1> USE <1>z DEF Same
<1>1. CASE WorkerStarts(t)
  BY <1>1 DEF WorkerStarts
<1>2. CASE WorkerFails(t)
  BY <1>2 DEF WorkerFails
<1>3. CASE WorkerReads(t)
  BY <1>3 DEF WorkerReads
<1>4. CASE WorkerCommits(t)
  BY <1>4 DEF WorkerCommits, Install, Answer
<1>5. CASE WorkerConflicts(t)
  BY <1>5 DEF WorkerConflicts, Answer
<1>6. CASE WorkerErrs(t)
  BY <1>6 DEF WorkerErrs, Install, Answer
<1>7. CASE WorkerEnds(t)
  BY <1>7 DEF WorkerEnds
<1> QED
  BY <1>1, <1>2, <1>3, <1>4, <1>5, <1>6, <1>7, Zenon DEF Worker, WorkerStep

\* No worker has been spawned for a fresh transaction.
LEMMA FreshHasNoWorker ==
  ASSUME NEW t \in Txns, Worker(t)
  PROVE  ~Fresh(t)
BY Zenon DEF Fresh, Worker, WorkerStep, WorkerStarts, WorkerFails, WorkerReads,
       WorkerCommits, WorkerConflicts, WorkerErrs, WorkerEnds, CanCommit

\* A worker whose transaction has nothing queued and no one waiting can only
\* start, fail or end; neither the answer nor the database changes.
LEMMA WorkerOfGone ==
  ASSUME TypeOK, NEW t \in Txns, Worker(t), object[t] = "gone", queue[t] = <<>>
  PROVE  /\ object'[t] = "gone" /\ queue'[t] = <<>> /\ outcome'[t] = outcome[t]
         /\ log'[t] = log[t] /\ applied' = applied
<1> USE DEF TypeOK
<1>1. CASE WorkerStarts(t)
  BY <1>1 DEF WorkerStarts
<1>2. CASE WorkerFails(t)
  BY <1>2 DEF WorkerFails
<1>3. CASE WorkerEnds(t)
  BY <1>3 DEF WorkerEnds
<1> QED
  BY <1>1, <1>2, <1>3, Zenon
  DEF Worker, WorkerStep, WorkerReads, WorkerCommits, WorkerConflicts, WorkerErrs, CanCommit

\* A worker that only has reads to do cannot apply or answer a commit.
LEMMA WorkerOfUncommitted ==
  ASSUME TypeOK, NEW t \in Txns, Worker(t), Uncommitted(t), object[t] # "committing"
  PROVE  Uncommitted(t)' /\ object'[t] = object[t]
<1> USE DEF TypeOK, Uncommitted
<1>1. CASE WorkerStarts(t)
  BY <1>1 DEF WorkerStarts
<1>2. CASE WorkerFails(t)
  BY <1>2 DEF WorkerFails
<1>3. CASE WorkerReads(t)
  <2>1. queue'[t] = Tail(queue[t]) /\ queue[t] \in Seq(Work) /\ queue[t] # <<>>
    BY <1>3 DEF WorkerReads
  <2>2. \A i \in DOMAIN queue'[t] : queue'[t][i].do = "read"
    BY <2>1
  <2> QED
    BY <1>3, <2>2 DEF WorkerReads
<1>4. CASE WorkerEnds(t)
  BY <1>4 DEF WorkerEnds
<1>5. ~CanCommit(t)
  <2> SUFFICES ASSUME CanCommit(t) PROVE FALSE
    OBVIOUS
  <2>1. queue[t] \in Seq(Work) /\ queue[t] # <<>> /\ Head(queue[t]).do = "commit"
    BY DEF CanCommit
  <2>2. 1 \in DOMAIN queue[t] /\ Head(queue[t]) = queue[t][1]
    BY <2>1
  <2> QED
    BY <2>1, <2>2
<1> QED
  BY <1>1, <1>2, <1>3, <1>4, <1>5, Zenon
  DEF Worker, WorkerStep, WorkerCommits, WorkerConflicts, WorkerErrs

\* A worker answers the one commit it is asked for, and says "ok" only when the
\* log reached the database and "conflict" only when it did not.
LEMMA WorkerOfDeciding ==
  ASSUME TypeOK, NEW t \in Txns, Worker(t), Deciding(t), object[t] = "committing"
  PROVE  Deciding(t)' /\ object'[t] = "committing"
<1> USE DEF TypeOK, Deciding
<1>1. CASE WorkerStarts(t)
  BY <1>1 DEF WorkerStarts
<1>2. CASE WorkerFails(t)
  BY <1>2 DEF WorkerFails
<1>3. ~WorkerReads(t)
  <2> HIDE DEF TypeOK
  <2>1. WorkerReads(t) => queue[t] # <<>> /\ Head(queue[t]).do = "read"
    BY Zenon DEF WorkerReads
  <2>2. queue[t] # <<>> => queue[t] = <<CommitWork>>
    BY Zenon
  <2>3. Head(<<CommitWork>>).do = "commit"
    BY DEF CommitWork
  <2> QED
    BY <2>1, <2>2, <2>3, Zenon
<1>4. ~WorkerEnds(t)
  BY DEF WorkerEnds
<1>5. ASSUME CanCommit(t)
      PROVE outcome[t] = "none" /\ t \notin applied /\ Tail(queue[t]) = <<>>
  <2>1. outcome[t] = "none" /\ t \notin applied /\ queue[t] = <<CommitWork>>
    BY <1>5 DEF CanCommit
  <2>2. Tail(<<CommitWork>>) = <<>>
    OBVIOUS
  <2> QED
    BY <2>1, <2>2
<1>6. CASE WorkerCommits(t)
  <2>1. outcome'[t] = "ok" /\ queue'[t] = <<>> /\ log'[t] = log[t] /\ object'[t] = object[t]
    BY <1>5, <1>6 DEF WorkerCommits, Answer
  <2>2. log[t] # <<>> => t \in applied'
    BY <1>6 DEF WorkerCommits, Install
  <2> QED
    BY <2>1, <2>2
<1>7. CASE WorkerConflicts(t)
  BY <1>5, <1>7 DEF WorkerConflicts, Answer
<1>8. CASE WorkerErrs(t)
  <2>1. outcome'[t] = "unknown" /\ queue'[t] = <<>> /\ object'[t] = object[t]
    BY <1>5, <1>8 DEF WorkerErrs, Answer
  <2> QED
    BY <2>1
<1> QED
  BY <1>1, <1>2, <1>3, <1>4, <1>6, <1>7, <1>8, Zenon DEF Worker, WorkerStep

\* What a worker does, in whatever order with the caller, keeps what is known
\* of every call; an iteration whose caller timed out may still be applied.
LEMMA LoopWorker ==
  ASSUME TypeOK, LoopInv, NEW t \in Txns, Worker(t)
  PROVE  LoopInv'
<1>1. PICK c \in Calls, i \in 1 .. Attempts : t = <<c, i>>
  BY CallsAssumption
<1>2. attempt' = attempt /\ pc' = pc /\ result' = result
  BY DEF Worker, runvars
<1>3. \A d \in Calls \ {c} : CallInv(d)'
  <2>1. \A u \in Txns \ {t} : Same(u)
    BY WorkerTouchesOne
  <2>2. \A d \in Calls \ {c} : \A j \in 1 .. Attempts : <<d, j>> \in Txns \ {t}
    BY <1>1, CallsAssumption
  <2> QED
    BY <1>2, <2>1, <2>2, CallRests DEF LoopInv
<1>4. CallInv(c)
  BY DEF LoopInv
<1>5. ~Fresh(t)
  BY FreshHasNoWorker
<1>6. attempt[c] \in 1 .. Attempts /\ i <= attempt[c]
  BY <1>1, <1>4, <1>5 DEF CallInv, TypeOK
<1>7. \A j \in 1 .. Attempts \ {i} : Same(<<c, j>>)
  BY <1>1, WorkerTouchesOne, CallsAssumption
<1>8. \A j \in 1 .. Attempts :
        /\ j > attempt'[c] => Fresh(<<c, j>>)'
        /\ j < attempt'[c] /\ j # i => Refused(<<c, j>>)'
  <2> SUFFICES ASSUME NEW j \in 1 .. Attempts
               PROVE  /\ j > attempt[c] => Fresh(<<c, j>>)'
                      /\ j < attempt[c] /\ j # i => Refused(<<c, j>>)'
    BY <1>2, Zenon
  <2>1. j > attempt[c] => j # i
    BY <1>6
  <2>2. j # i => (Fresh(<<c, j>>) => Fresh(<<c, j>>)') /\ (Refused(<<c, j>>) => Refused(<<c, j>>)')
    BY <1>7, SameStays, Zenon
  <2>3. (j > attempt[c] => Fresh(<<c, j>>)) /\ (j < attempt[c] => Refused(<<c, j>>))
    BY <1>4, Zenon DEF CallInv
  <2> QED
    BY <2>1, <2>2, <2>3, Zenon
<1>9. Refused(t) => Refused(t)'
  BY WorkerOfGone DEF Refused
<1>10. CASE i < attempt[c]
  <2>1. Refused(<<c, i>>)'
    BY <1>1, <1>4, <1>9, <1>10, Zenon DEF CallInv
  <2>2. Txn(c)' = Txn(c) /\ Same(Txn(c))
    BY <1>2, <1>6, <1>7, <1>10 DEF Txn
  <2>3. /\ Fresh(Txn(c)) => Fresh(Txn(c))'
        /\ Refused(Txn(c)) => Refused(Txn(c))'
        /\ Uncommitted(Txn(c)) => Uncommitted(Txn(c))'
        /\ Deciding(Txn(c)) => Deciding(Txn(c))'
        /\ object'[Txn(c)'] = object[Txn(c)]
    BY <2>2, Zenon DEF Same, Fresh, Refused, Uncommitted, Deciding
  <2>4. Left(c, Txn(c)) => Left(c, Txn(c))'
    BY <1>2, <2>2, <2>3, Zenon DEF Same, Left
  <2>5. CallInv(c)'
    BY <1>2, <1>4, <1>8, <2>1, <2>3, <2>4, Zenon DEF CallInv
  <2> QED
    BY <1>3, <2>5 DEF LoopInv
<1>11. CASE i = attempt[c]
  <2>1. Txn(c) = t /\ Txn(c)' = t
    BY <1>1, <1>2, <1>11 DEF Txn
  <2>2. pc[c] # "begin"
    BY <1>4, <1>5, <2>1, Zenon DEF CallInv
  <2>3. pc[c] = "run" => object'[t] = "open" /\ Uncommitted(t)'
    BY <1>4, <2>1, WorkerOfUncommitted DEF CallInv
  <2>4. pc[c] = "commit" => object'[t] = "committing" /\ Deciding(t)'
    BY <1>4, <2>1, WorkerOfDeciding, Zenon DEF CallInv
  <2>5. pc[c] = "sleep" => Refused(t)'
    BY <1>4, <1>9, <2>1, Zenon DEF CallInv
  <2>6. ASSUME pc[c] = "done" PROVE Left(c, t)'
    <3>1. Left(c, t)
      BY <1>4, <2>1, <2>6 DEF CallInv
    <3>2. CASE result[c] \in {"ok", "unserializable"}
      <4>1. object[t] = "gone" /\ queue[t] = <<>> /\ (log[t] # <<>> => t \in applied)
        BY <3>1, <3>2, Zenon DEF Left
      <4>2. object'[t] = "gone" /\ queue'[t] = <<>> /\ log'[t] = log[t] /\ applied' = applied
        BY <4>1, WorkerOfGone
      <4> QED
        BY <1>2, <3>2, <4>1, <4>2 DEF Left
    <3>3. CASE result[c] = "error"
      <4>1. object[t] = "gone" /\ Uncommitted(t)
        BY <1>5, <3>1, <3>3 DEF Left
      <4>2. object'[t] = "gone" /\ Uncommitted(t)'
        BY <4>1, WorkerOfUncommitted
      <4> QED
        BY <1>2, <3>3, <4>2 DEF Left
    <3>4. CASE result[c] = "conflict"
      BY <1>2, <1>9, <3>1, <3>4, Zenon DEF Left
    <3>5. CASE result[c] = "unknown"
      <4>1. object[t] = "gone" /\ queue[t] = <<>>
        BY <3>1, <3>5 DEF Left
      <4>2. object'[t] = "gone" /\ queue'[t] = <<>>
        BY <4>1, WorkerOfGone
      <4> QED
        BY <1>2, <3>5, <4>2, Zenon DEF Left
    <3>6. CASE result[c] = "timeout"
      <4>1. object[t] = "gone" /\ object' = object
        BY <3>1, <3>6, Zenon DEF Left, Worker, WorkerStep, WorkerStarts, WorkerFails, WorkerReads,
             WorkerCommits, WorkerConflicts, WorkerErrs, WorkerEnds
      <4> QED
        BY <1>2, <3>6, <4>1 DEF Left
    <3>7. result[c] \in {"ok", "unserializable", "error", "conflict", "unknown", "timeout"}
      BY <3>1 DEF Left, TypeOK
    <3> QED
      BY <3>2, <3>3, <3>4, <3>5, <3>6, <3>7
  <2>7. CallInv(c)'
    <3>1. \A j \in 1 .. Attempts : j < attempt'[c] => j # i
      BY <1>2, <1>11
    <3> QED
      BY <1>2, <1>4, <1>8, <2>1, <2>2, <2>3, <2>4, <2>5, <2>6, <3>1, Zenon DEF CallInv
  <2> QED
    BY <1>3, <2>7 DEF LoopInv
<1> QED
  BY <1>6, <1>10, <1>11

\* The transactions of the other iterations rest while one moves.
LEMMA IterationMoves ==
  ASSUME TypeOK, NEW c \in Calls, CallInv(c), attempt'[c] = attempt[c],
         \A u \in Txns \ {Txn(c)} : Same(u)
  PROVE  /\ Txn(c)' = Txn(c)
         /\ \A i \in 1 .. Attempts : /\ i > attempt'[c] => Fresh(<<c, i>>)'
                                     /\ i < attempt'[c] => Refused(<<c, i>>)'
<1>1. \A i \in 1 .. Attempts : i # attempt[c] => Same(<<c, i>>)
  BY CallsAssumption DEF Txn
<1>2. attempt[c] \in 1 .. Attempts
  BY DEF TypeOK
<1>3. Txn(c)' = Txn(c)
  BY Zenon DEF Txn
<1>4. ASSUME NEW i \in 1 .. Attempts
      PROVE  /\ i > attempt'[c] => Fresh(<<c, i>>)'
             /\ i < attempt'[c] => Refused(<<c, i>>)'
  <2>1. i > attempt[c] \/ i < attempt[c] => i # attempt[c]
    BY <1>2, CallsAssumption
  <2>2. i # attempt[c] => (Fresh(<<c, i>>) => Fresh(<<c, i>>)') /\ (Refused(<<c, i>>) => Refused(<<c, i>>)')
    BY <1>1, SameStays, Zenon
  <2>3. (i > attempt[c] => Fresh(<<c, i>>)) /\ (i < attempt[c] => Refused(<<c, i>>))
    BY Zenon DEF CallInv
  <2> QED
    BY <2>1, <2>2, <2>3, Zenon
<1> QED
  BY <1>3, <1>4, Zenon

\* Every step of the loop of a call keeps what is known of the calls.
LEMMA LoopCall ==
  ASSUME TypeOK, LoopInv, NEW c \in Calls,
         \/ Progress(c) \/ Runs(c) \/ Commits(c)
         \/ BeginFails(c) \/ RunFails(c) \/ Timeout(c)
  PROVE  LoopInv'
<1>t. PICK t \in Txns : t = Txn(c) /\ t \in {c} \X (1 .. Attempts)
  <2>1. attempt[c] \in 1 .. Attempts
    BY DEF TypeOK
  <2>2. Txn(c) \in {c} \X (1 .. Attempts)
    BY <2>1 DEF Txn
  <2> QED
    BY <2>2, TxnOfCall
<1>i. CallInv(c)
  BY DEF LoopInv
<1>q. ASSUME CallInv(c)', \A u \in Txns \ {t} : Same(u), Apart(c) PROVE LoopInv'
  BY <1>q, <1>t, OthersRest, Zenon DEF LoopInv
<1>y. PICK A, P, R : attempt \in [Calls -> A] /\ pc \in [Calls -> P] /\ result \in [Calls -> R]
  BY Zenon DEF TypeOK
<1>z. PICK O, W, Q, U, L : /\ object \in [Txns -> O] /\ worker \in [Txns -> W]
                           /\ queue \in [Txns -> Q] /\ outcome \in [Txns -> U]
                           /\ log \in [Txns -> L]
  BY Zenon DEF TypeOK
<1>1. CASE Begins(c)
  <2>1. /\ attempt' = attempt /\ result' = result /\ pc' = [pc EXCEPT ![c] = "run"]
        /\ \A u \in Txns \ {t} : Same(u)
    BY <1>1, <1>t, <1>z DEF Begins, BeginTransaction, Goto, Same
  <2>2. Fresh(t) /\ result[c] = "none"
    BY <1>t, <1>1, <1>i, Zenon DEF Begins, CallInv
  <2>3. object'[t] = "open" /\ Uncommitted(t)'
    <3>1. object'[t] = "open"
      BY <1>1, <1>t, <1>z DEF Begins, BeginTransaction
    <3>2. UNCHANGED <<queue, outcome, applied>>
      BY <1>1, Zenon DEF Begins, BeginTransaction
    <3> QED
      BY <2>2, <3>1, <3>2, EmptyQueue, Zenon DEF Fresh, Uncommitted
  <2>4. CallInv(c)'
    BY <1>t, <1>i, <2>1, <2>2, <2>3, IterationMoves, Zenon DEF CallInv, TypeOK
  <2>a. Apart(c)
    BY <1>y, <2>1 DEF Apart
  <2> QED
    BY <1>q, <2>1, <2>4, <2>a, Zenon
<1>2. CASE BeginFails(c)
  <2>1. /\ attempt' = attempt /\ pc' = [pc EXCEPT ![c] = "done"]
        /\ result' = [result EXCEPT ![c] = "error"]
        /\ \A u \in Txns : Same(u)
    BY <1>t, <1>2, Zenon DEF BeginFails, Return, sqlvars, Same
  <2>2. Fresh(t)
    BY <1>t, <1>2, <1>i, Zenon DEF BeginFails, CallInv
  <2>3. Left(c, t)'
    BY <1>t, <2>1, <2>2, Zenon DEF Left, Fresh, Same, TypeOK
  <2>4. CallInv(c)'
    BY <1>t, <1>i, <2>1, <2>3, IterationMoves, Zenon DEF CallInv, TypeOK
  <2>a. Apart(c)
    BY <1>y, <2>1 DEF Apart
  <2> QED
    BY <1>q, <2>1, <2>4, <2>a, Zenon
<1>3. CASE Runs(c)
  <2>1. /\ attempt' = attempt /\ pc' = pc /\ result' = result
    BY <1>t, <1>3 DEF Runs, runvars
  <2>2. object[t] = "open" /\ Uncommitted(t) /\ pc[c] = "run" /\ result[c] = "none"
    BY <1>t, <1>3, <1>i, Zenon DEF Runs, CallInv
  <2>3. ASSUME NEW ks, Send(t, ks)
        PROVE (\A u \in Txns \ {t} : Same(u)) /\ object'[t] = "open" /\ Uncommitted(t)'
    <3>1. \A u \in Txns \ {t} : Same(u)
      BY <2>3, <1>t, <1>z, Zenon DEF Send, Same
    <3>2. queue[t] \in Seq(Work) /\ queue'[t] = Append(queue[t], ReadWork(ks))
      BY <2>3, <1>t DEF Send, TypeOK
    <3>w. ReadWork(ks).do = "read"
      BY DEF ReadWork
    <3>3. \A i \in DOMAIN queue'[t] : queue'[t][i].do = "read"
      BY <2>2, <3>2, <3>w, QueueOfReads DEF Uncommitted
    <3> QED
      BY <2>2, <2>3, <3>1, <3>3, Zenon DEF Send, Uncommitted
  <2>4. ASSUME NEW op, Write(t, op)
        PROVE (\A u \in Txns \ {t} : Same(u)) /\ object'[t] = "open" /\ Uncommitted(t)'
    BY <2>2, <2>4, <1>t, Zenon DEF Write, Same, Uncommitted, TypeOK
  <2>5. (\A u \in Txns \ {t} : Same(u)) /\ object'[t] = "open" /\ Uncommitted(t)'
    BY <1>t, <1>3, <2>3, <2>4, Zenon DEF Runs, Get, ScanKeys, Put, Delete, DeleteRange
  <2>6. CallInv(c)'
    BY <1>t, <1>i, <2>1, <2>2, <2>5, IterationMoves, Zenon DEF CallInv
  <2>a. Apart(c)
    BY <1>y, <2>1 DEF Apart
  <2> QED
    BY <1>q, <2>1, <2>5, <2>6, <2>a, Zenon
<1>4. CASE Commits(c)
  <2>1. /\ attempt' = attempt /\ result' = result /\ pc' = [pc EXCEPT ![c] = "commit"]
        /\ \A u \in Txns \ {t} : Same(u)
    BY <1>4, <1>t, <1>z, Zenon DEF Commits, Commit, Goto, Same
  <2>2. Uncommitted(t) /\ queue[t] = <<>> /\ result[c] = "none"
    BY <1>t, <1>4, <1>i, Zenon DEF Commits, CallInv
  <2>3. Append(<<>>, CommitWork) = <<CommitWork>>
    OBVIOUS
  <2>4. object'[t] = "committing" /\ Deciding(t)'
    BY <1>4, <1>t, <1>z, <2>2, <2>3, Zenon DEF Commits, Commit, Uncommitted, Deciding
  <2>5. CallInv(c)'
    BY <1>t, <1>i, <2>1, <2>2, <2>4, IterationMoves, Zenon DEF CallInv, TypeOK
  <2>a. Apart(c)
    BY <1>y, <2>1 DEF Apart
  <2> QED
    BY <1>q, <2>1, <2>5, <2>a, Zenon
<1>5. ASSUME NEW r \in {"ok", "unserializable", "unknown"}, pc[c] = "commit",
             outcome[t] = IF r = "unknown" THEN "unknown" ELSE "ok",
             CommitReturns(t), Return(c, r)
      PROVE LoopInv'
  <2>1. /\ attempt' = attempt /\ pc' = [pc EXCEPT ![c] = "done"]
        /\ result' = [result EXCEPT ![c] = r]
        /\ \A u \in Txns \ {t} : Same(u)
    BY <1>5, <1>t, Zenon DEF CommitReturns, Return, Same, TypeOK
  <2>2. Deciding(t)
    BY <1>t, <1>5, <1>i, Zenon DEF CallInv
  <2>3. Left(c, t)'
    BY <1>5, <1>t, <2>1, <2>2, Zenon DEF Left, Deciding, CommitReturns, TypeOK
  <2>4. CallInv(c)'
    BY <1>t, <1>i, <2>1, <2>3, IterationMoves, Zenon DEF CallInv, TypeOK
  <2>a. Apart(c)
    BY <1>y, <2>1 DEF Apart
  <2> QED
    BY <1>q, <2>1, <2>4, <2>a, Zenon
<1>6. CASE CommitConflict(c)
  <2>1. /\ attempt' = attempt /\ result' = result /\ pc' = [pc EXCEPT ![c] = "sleep"]
        /\ \A u \in Txns \ {t} : Same(u)
    BY <1>6, <1>t, <1>z DEF CommitConflict, CommitReturns, Goto, Same
  <2>2. Deciding(t) /\ outcome[t] = "conflict" /\ result[c] = "none"
    BY <1>t, <1>6, <1>i, Zenon DEF CommitConflict, CallInv
  <2>3. Refused(t)'
    BY <1>6, <1>t, <1>z, <2>2 DEF CommitConflict, CommitReturns, Deciding, Refused
  <2>4. CallInv(c)'
    BY <1>t, <1>i, <2>1, <2>2, <2>3, IterationMoves, Zenon DEF CallInv, TypeOK
  <2>a. Apart(c)
    BY <1>y, <2>1 DEF Apart
  <2> QED
    BY <1>q, <2>1, <2>4, <2>a, Zenon
<1>7. ASSUME NEW r \in {"error", "timeout"}, Abandon(t), Return(c, r),
             r = "error" => pc[c] = "run", pc[c] \in {"run", "commit"}
      PROVE LoopInv'
  <2>1. /\ attempt' = attempt /\ pc' = [pc EXCEPT ![c] = "done"]
        /\ result' = [result EXCEPT ![c] = r]
        /\ \A u \in Txns \ {t} : Same(u)
    BY <1>7, <1>t, Zenon DEF Abandon, Return, Same, TypeOK
  <2>2. r = "error" => Uncommitted(t)
    BY <1>t, <1>7, <1>i, Zenon DEF CallInv
  <2>3. Left(c, t)'
    BY <1>7, <1>t, <2>1, <2>2, Zenon DEF Left, Uncommitted, Abandon, TypeOK
  <2>4. CallInv(c)'
    BY <1>t, <1>i, <2>1, <2>3, IterationMoves, Zenon DEF CallInv, TypeOK
  <2>a. Apart(c)
    BY <1>y, <2>1 DEF Apart
  <2> QED
    BY <1>q, <2>1, <2>4, <2>a, Zenon
<1>8. ASSUME NEW r \in {"conflict", "timeout"}, Return(c, r), pc[c] = "sleep",
             UNCHANGED sqlvars
      PROVE LoopInv'
  <2>1. /\ attempt' = attempt /\ pc' = [pc EXCEPT ![c] = "done"]
        /\ result' = [result EXCEPT ![c] = r]
        /\ \A u \in Txns : Same(u)
    BY <1>t, <1>8, Zenon DEF Return, sqlvars, Same
  <2>2. Refused(t)
    BY <1>t, <1>8, <1>i, Zenon DEF CallInv
  <2>3. Left(c, t)'
    BY <1>8, <1>t, <1>y, <2>1, <2>2, Zenon DEF Left, Refused, sqlvars
  <2>4. CallInv(c)'
    BY <1>t, <1>i, <2>1, <2>3, IterationMoves, Zenon DEF CallInv, TypeOK
  <2>a. Apart(c)
    BY <1>y, <2>1 DEF Apart
  <2> QED
    BY <1>q, <2>1, <2>4, <2>a, Zenon
<1>9. ASSUME pc[c] = "sleep", attempt[c] < Attempts, UNCHANGED <<sqlvars, result>>,
             attempt' = [attempt EXCEPT ![c] = @ + 1], pc' = [pc EXCEPT ![c] = "begin"]
      PROVE LoopInv'
  <2>1. /\ attempt'[c] = attempt[c] + 1 /\ attempt[c] \in 1 .. Attempts
        /\ attempt[c] + 1 \in 1 .. Attempts /\ Attempts \in Nat
    BY <1>t, <1>9, CallsAssumption DEF TypeOK
  <2>2. \A u \in Txns : Same(u) /\ (Fresh(u) => Fresh(u)') /\ (Refused(u) => Refused(u)')
    BY <1>9, SameStays, Zenon DEF sqlvars, Same
  <2>3. \A i \in 1 .. Attempts : <<c, i>> \in Txns
    BY CallsAssumption
  <2>4. Refused(<<c, attempt[c]>>)
    BY <1>t, <1>9, <1>i, Zenon DEF CallInv, Txn
  <2>5. \A i \in 1 .. Attempts : /\ i > attempt[c] => Fresh(<<c, i>>)
                                 /\ i < attempt[c] => Refused(<<c, i>>)
    BY <1>t, <1>i, Zenon DEF CallInv
  <2>6. \A i \in 1 .. Attempts : /\ i > attempt'[c] => Fresh(<<c, i>>)'
                                 /\ i < attempt'[c] => Refused(<<c, i>>)'
    <3> SUFFICES ASSUME NEW i \in 1 .. Attempts
                 PROVE /\ i > attempt'[c] => Fresh(<<c, i>>)'
                       /\ i < attempt'[c] => Refused(<<c, i>>)'
      OBVIOUS
    <3>1. i > attempt'[c] => Fresh(<<c, i>>)
      BY <2>1, <2>5
    <3>2. i < attempt'[c] => Refused(<<c, i>>)
      BY <2>1, <2>4, <2>5
    <3> QED
      BY <3>1, <3>2, <2>2, <2>3, Zenon
  <2>7. Fresh(Txn(c))'
    <3>1. PICK n \in 1 .. Attempts : n = attempt[c] + 1
      BY <2>1
    <3>2. n > attempt[c]
      BY <2>1, <3>1
    <3>3. Fresh(<<c, n>>)'
      BY <2>2, <2>3, <2>5, <3>2, Zenon
    <3> QED
      BY <2>1, <3>1, <3>3, Zenon DEF Txn
  <2>8. pc'[c] = "begin" /\ result'[c] = "none"
    BY <1>t, <1>9, <1>i, <1>y, Zenon DEF CallInv
  <2>9. CallInv(c)'
    BY <2>6, <2>7, <2>8, Zenon DEF CallInv
  <2>a. Apart(c)
    BY <1>y, <1>9 DEF Apart
  <2> QED
    BY <1>q, <2>2, <2>9, <2>a, Zenon
<1>10. CASE CommitOk(c) \/ CommitUnknown(c)
  BY <1>t, <1>10, <1>5, Zenon DEF CommitOk, CommitUnknown
<1>11. CASE RunFails(c)
  BY <1>t, <1>11, <1>7 DEF RunFails
<1>12. CASE Timeout(c)
  BY <1>t, <1>12, <1>7, <1>8 DEF Timeout
<1>13. CASE Wakes(c)
  BY <1>t, <1>13, <1>8, <1>9 DEF Wakes
<1> QED
  BY <1>t, <1>1, <1>2, <1>3, <1>4, <1>6, <1>10, <1>11, <1>12, <1>13 DEF Progress

\* What is known of the calls holds in every reachable state.
LEMMA LoopStep == TypeOK /\ LoopInv /\ [Next]_vars => LoopInv'
<1> SUFFICES ASSUME TypeOK, LoopInv, [Next]_vars PROVE LoopInv'
  OBVIOUS
<1>1. ASSUME UNCHANGED <<worker, queue, object, log, outcome, applied, runvars>>
      PROVE LoopInv'
  <2>1. \A u \in Txns : Same(u)
    BY <1>1 DEF Same
  <2>2. \A c \in Calls, i \in 1 .. Attempts : <<c, i>> \in Txns
    BY CallsAssumption
  <2> QED
    BY <1>1, <2>1, <2>2, CallRests, Zenon DEF LoopInv, runvars
<1>2. CASE Wipes
  BY <1>1, <1>2 DEF Wipes
<1>3. CASE UNCHANGED vars
  BY <1>1, <1>3 DEF vars, sqlvars
<1> QED
  BY <1>2, <1>3, LoopCall, LoopWorker DEF Next, Terminated

-----------------------------------------------------------------------------
\* A worker that gets or returns a connection changes the two counts together.
LEMMA BusyMoves ==
  ASSUME TypeOK, PoolInv, NEW t \in Txns, NEW w,
         worker' = [worker EXCEPT ![t] = w]
  PROVE  /\ t \in Busy /\ w \in {"spawned", "running"} /\ free' = free => PoolInv'
         /\ t \in Busy /\ w \notin {"spawned", "running"} /\ free' = free + 1 => PoolInv'
         /\ t \notin Busy /\ w \in {"spawned", "running"} /\ free' = free - 1 => PoolInv'
<1>1. IsFiniteSet(Busy) /\ Cardinality(Busy) \in Nat /\ free + Cardinality(Busy) = PoolSize
  BY FS_CardinalityType DEF PoolInv, ConnectionsAccounted, Busy
<1>2. ASSUME t \in Busy, w \in {"spawned", "running"}, free' = free PROVE PoolInv'
  <2>1. Busy' = Busy
    BY <1>2 DEF Busy, TypeOK
  <2> QED
    BY <1>1, <1>2, <2>1 DEF PoolInv, ConnectionsAccounted, Busy
<1>3. ASSUME t \in Busy, w \notin {"spawned", "running"}, free' = free + 1 PROVE PoolInv'
  <2>1. Busy' = Busy \ {t}
    BY <1>3 DEF Busy, TypeOK
  <2>2. IsFiniteSet(Busy') /\ Cardinality(Busy') = Cardinality(Busy) - 1
    BY <1>1, <1>3, <2>1, FS_RemoveElement
  <2>3. free' + Cardinality(Busy') = PoolSize
    BY <1>1, <1>3, <2>2 DEF TypeOK
  <2> QED
    BY <2>2, <2>3 DEF PoolInv, ConnectionsAccounted, Busy
<1>4. ASSUME t \notin Busy, w \in {"spawned", "running"}, free' = free - 1 PROVE PoolInv'
  <2>1. Busy' = Busy \cup {t}
    BY <1>4 DEF Busy, TypeOK
  <2>2. IsFiniteSet(Busy') /\ Cardinality(Busy') = Cardinality(Busy) + 1
    BY <1>1, <1>4, <2>1, FS_AddElement
  <2>3. free' + Cardinality(Busy') = PoolSize
    BY <1>1, <1>4, <2>2 DEF TypeOK
  <2> QED
    BY <2>2, <2>3 DEF PoolInv, ConnectionsAccounted, Busy
<1> QED
  BY <1>2, <1>3, <1>4

\* The connections stay accounted for: begin_transaction takes one, the end or
\* the failure of the worker returns it, nothing else moves one.
LEMMA PoolStep == TypeOK /\ LoopInv /\ PoolInv /\ [Next]_vars => PoolInv'
<1> SUFFICES ASSUME TypeOK, LoopInv, PoolInv, [Next]_vars PROVE PoolInv'
  OBVIOUS
<1>1. ASSUME worker' = worker, free' = free PROVE PoolInv'
  BY <1>1 DEF PoolInv, ConnectionsAccounted, Busy
<1>2. ASSUME NEW c \in Calls, Begins(c) PROVE PoolInv'
  <2>1. Txn(c) \in Txns /\ Txn(c) \notin Busy
    BY <1>2, TxnOfCall, Zenon DEF Begins, LoopInv, CallInv, Fresh, Busy
  <2>2. worker' = [worker EXCEPT ![Txn(c)] = "spawned"] /\ free' = free - 1
    BY <1>2 DEF Begins, BeginTransaction
  <2> QED
    BY <2>1, <2>2, BusyMoves, Zenon
<1>3. ASSUME NEW c \in Calls,
             \/ Runs(c) \/ Commits(c) \/ BeginFails(c) \/ RunFails(c) \/ Timeout(c)
             \/ CommitOk(c) \/ CommitConflict(c) \/ CommitUnknown(c) \/ Wakes(c)
      PROVE worker' = worker /\ free' = free
  BY <1>3, Zenon DEF Runs, Get, ScanKeys, Put, Delete, DeleteRange, Send, Write, Commits, Commit,
     BeginFails, RunFails, Timeout, Abandon, CommitOk, CommitConflict, CommitUnknown,
     CommitReturns, Wakes, sqlvars
<1>4. ASSUME NEW t \in Txns, Worker(t) PROVE PoolInv'
  <2>1. CASE WorkerStarts(t)
    BY <2>1, BusyMoves, Zenon DEF WorkerStarts, Busy
  <2>2. CASE WorkerFails(t)
    <3>1. t \in Busy
      BY <2>2 DEF WorkerFails, Busy
    <3>2. worker' = [worker EXCEPT ![t] = "ended"] /\ free' = free + 1
      BY <2>2 DEF WorkerFails
    <3>3. "ended" \notin {"spawned", "running"}
      OBVIOUS
    <3> QED
      BY <3>1, <3>2, <3>3, BusyMoves, Zenon
  <2>3. CASE WorkerEnds(t)
    <3>1. t \in Busy
      BY <2>3 DEF WorkerEnds, Busy
    <3>2. worker' = [worker EXCEPT ![t] = "ended"] /\ free' = free + 1
      BY <2>3 DEF WorkerEnds
    <3>3. "ended" \notin {"spawned", "running"}
      OBVIOUS
    <3> QED
      BY <3>1, <3>2, <3>3, BusyMoves, Zenon
  <2>4. CASE WorkerReads(t) \/ WorkerCommits(t) \/ WorkerConflicts(t) \/ WorkerErrs(t)
    BY <1>1, <2>4, Zenon DEF WorkerReads, WorkerCommits, WorkerConflicts, WorkerErrs
  <2> QED
    BY <1>4, <2>1, <2>2, <2>3, <2>4 DEF Worker, WorkerStep
<1>5. CASE Wipes
  BY <1>1, <1>5 DEF Wipes
<1>6. CASE UNCHANGED vars
  BY <1>1, <1>6 DEF vars, sqlvars
<1> QED
  BY <1>1, <1>2, <1>3, <1>4, <1>5, <1>6 DEF Next, Terminated, Progress

-----------------------------------------------------------------------------
\* Installing a log either counts as a change, so that every older snapshot is
\* out of date, or leaves the rows as they were.
LEMMA InstallKeepsSnapshots ==
  ASSUME TypeOK, NEW t \in Txns, Install(t)
  PROVE  wal' = wal + 1 \/ (wal' = wal /\ db' = db)
<1>1. log[t] \in Seq(Ops)
  BY DEF TypeOK
<1>2. ~Touches(db, log[t]) => Replay(db, log[t]) = db
  BY <1>1, UntouchedRows, Zenon DEF TypeOK
<1> QED
  BY <1>2 DEF Install

\* What is known of a snapshot survives the commits of others: they count as a
\* change, or leave the rows as they were.
LEMMA SnapRests ==
  ASSUME NEW t, SnapInv(t), wal \in Nat, snap'[t] = snap[t], got'[t] = got[t],
         wal' = wal + 1 \/ (wal' = wal /\ db' = db)
  PROVE  SnapInv(t)'
<1>1. NoSnap' = NoSnap
  BY Zenon DEF NoSnap
<1>2. CASE wal' = wal + 1
  <2>1. ASSUME NEW n, n \in 0 .. wal PROVE n \in 0 .. wal' /\ n # wal'
    BY <1>2, <2>1
  <2> QED
    BY <1>1, <2>1, Zenon DEF SnapInv
<1>3. CASE wal' = wal /\ db' = db
  BY <1>1, <1>3, Zenon DEF SnapInv
<1> QED
  BY <1>2, <1>3

\* A read is answered from the snapshot of its transaction, which the first one
\* takes from the database.
LEMMA SnapReads ==
  ASSUME TypeOK, NEW t \in Txns, SnapInv(t), WorkerReads(t)
  PROVE  SnapInv(t)'
<1>t. wal \in Nat /\ snap \in [Txns -> Snaps] /\ got \in [Txns -> [Keys -> Stored \cup {Unread}]]
  BY Zenon DEF TypeOK
<1>1. /\ wal' = wal /\ db' = db /\ NoSnap' = NoSnap
      /\ snap' = [snap EXCEPT ![t] = IF @ = NoSnap THEN Latest ELSE @]
      /\ got' = [got EXCEPT ![t] =
           IF object[t] = "open"
           THEN [k \in Keys |-> IF k \in Head(queue[t]).keys THEN snap'[t].rows[k]
                                                             ELSE got[t][k]]
           ELSE @]
  BY Zenon DEF WorkerReads, NoSnap
<1>2. Latest # NoSnap /\ Latest.at = wal /\ Latest.rows = db
  <2>1. Latest.at = wal /\ Latest.rows = db /\ NoSnap.at = -1
    BY DEF Latest, NoSnap
  <2>2. wal # -1
    BY <1>t
  <2> QED
    BY <2>1, <2>2, Zenon
<1>3. snap'[t] = IF snap[t] = NoSnap THEN Latest ELSE snap[t]
  BY <1>t, <1>1, Zenon
<1>4. snap'[t] # NoSnap
  BY <1>2, <1>3, Zenon
<1>5. snap'[t].at \in 0 .. wal
  <2>1. wal \in 0 .. wal
    BY <1>t
  <2> QED
    BY <1>2, <1>3, <2>1, Zenon DEF SnapInv
<1>6. snap'[t].at = wal => snap'[t].rows = db
  BY <1>2, <1>3, Zenon DEF SnapInv
<1>7. ASSUME NEW k \in Keys, got'[t][k] # Unread PROVE got'[t][k] = snap'[t].rows[k]
  <2>1. got[t][k] # Unread => snap'[t] = snap[t] /\ got[t][k] = snap[t].rows[k]
    BY <1>3, Zenon DEF SnapInv
  <2>2. got'[t] = IF object[t] = "open"
                  THEN [j \in Keys |-> IF j \in Head(queue[t]).keys THEN snap'[t].rows[j]
                                                                    ELSE got[t][j]]
                  ELSE got[t]
    BY <1>t, <1>1, Zenon
  <2>3. got'[t][k] = snap'[t].rows[k] \/ got'[t][k] = got[t][k]
    BY <2>2, Zenon
  <2> QED
    BY <1>7, <2>1, <2>3, Zenon
<1> QED
  BY <1>1, <1>4, <1>5, <1>6, <1>7, Zenon DEF SnapInv

\* Snapshots and answered reads stay what they were taken from, whichever
\* transactions commit in between.
LEMMA ReadStep == TypeOK /\ ReadInv /\ [Next]_vars => ReadInv'
<1> SUFFICES ASSUME TypeOK, ReadInv, [Next]_vars PROVE ReadInv'
  OBVIOUS
<1>t. wal \in Nat /\ snap \in [Txns -> Snaps] /\ got \in [Txns -> [Keys -> Stored \cup {Unread}]]
  BY Zenon DEF TypeOK
<1>1. ASSUME snap' = snap, got' = got, wal' = wal + 1 \/ (wal' = wal /\ db' = db)
      PROVE ReadInv'
  BY <1>1, <1>t, SnapRests, Zenon DEF ReadInv
<1>2. ASSUME NEW c \in Calls,
             \/ Progress(c) \/ Runs(c) \/ Commits(c)
             \/ BeginFails(c) \/ RunFails(c) \/ Timeout(c)
      PROVE snap' = snap /\ got' = got /\ wal' = wal /\ db' = db
  BY <1>2, Zenon DEF Progress, Begins, BeginTransaction, Runs, Get, ScanKeys, Put, Delete,
     DeleteRange, Send, Write, Commits, Commit, BeginFails, RunFails, Timeout, Abandon,
     CommitOk, CommitConflict, CommitUnknown, CommitReturns, Wakes, sqlvars
<1>3. ASSUME NEW t \in Txns, WorkerReads(t) PROVE ReadInv'
  <2>1. wal' = wal /\ db' = db
    BY <1>3, Zenon DEF WorkerReads
  <2>2. ASSUME NEW u \in Txns \ {t} PROVE snap'[u] = snap[u] /\ got'[u] = got[u]
    BY <1>t, <1>3 DEF WorkerReads
  <2>3. ASSUME NEW u \in Txns PROVE SnapInv(u)'
    BY <1>t, <1>3, <2>1, <2>2, SnapReads, SnapRests, Zenon DEF ReadInv
  <2> QED
    BY <2>3, Zenon DEF ReadInv
<1>4. ASSUME NEW t \in Txns, WorkerEnds(t) PROVE ReadInv'
  <2>1. wal' = wal /\ db' = db /\ NoSnap' = NoSnap
    BY <1>4, Zenon DEF WorkerEnds, NoSnap
  <2>2. ASSUME NEW u \in Txns \ {t} PROVE snap'[u] = snap[u] /\ got'[u] = got[u]
    BY <1>t, <1>4, Zenon DEF WorkerEnds
  <2>3. snap'[t] = NoSnap /\ got'[t] = [k \in Keys |-> Unread]
    BY <1>t, <1>4 DEF WorkerEnds
  <2>s. SnapInv(t)'
    BY <2>1, <2>3, Zenon DEF SnapInv
  <2>4. ASSUME NEW u \in Txns PROVE SnapInv(u)'
    BY <1>t, <2>1, <2>2, <2>s, SnapRests, Zenon DEF ReadInv
  <2> QED
    BY <2>4, Zenon DEF ReadInv
<1>5. ASSUME NEW t \in Txns,
             \/ WorkerStarts(t) \/ WorkerFails(t) \/ WorkerCommits(t)
             \/ WorkerConflicts(t) \/ WorkerErrs(t)
      PROVE snap' = snap /\ got' = got /\ (wal' = wal + 1 \/ (wal' = wal /\ db' = db))
  BY <1>5, InstallKeepsSnapshots, Zenon
  DEF WorkerStarts, WorkerFails, WorkerCommits, WorkerConflicts, WorkerErrs
<1>6. ASSUME NEW t \in Txns, Worker(t) PROVE ReadInv'
  BY <1>1, <1>3, <1>4, <1>5, <1>6 DEF Worker, WorkerStep
<1>7. CASE Wipes
  BY <1>1, <1>7 DEF Wipes
<1>8. CASE UNCHANGED vars
  BY <1>1, <1>8 DEF vars, sqlvars
<1> QED
  BY <1>1, <1>2, <1>6, <1>7, <1>8 DEF Next, Terminated

-----------------------------------------------------------------------------
\* The invariant holds before the first call.
LEMMA InvInit == Init => Inv
<1> SUFFICES ASSUME Init PROVE Inv
  OBVIOUS
<1>1. TypeOK
  BY TypeInit
<1>2. LoopInv
  <2>1. \A t \in Txns : Fresh(t)
    BY DEF Init, SqlInit, Fresh
  <2>2. \A c \in Calls, i \in 1 .. Attempts : <<c, i>> \in Txns
    BY CallsAssumption
  <2>3. \A c \in Calls : attempt[c] = 1 /\ pc[c] = "begin" /\ result[c] = "none"
    BY DEF Init
  <2>4. \A c \in Calls : Fresh(Txn(c))
    BY <1>1, <2>1, TxnOfCall
  <2>5. \A i \in 1 .. Attempts : ~(i < 1)
    BY CallsAssumption
  <2>6. ASSUME NEW c \in Calls PROVE CallInv(c)
    BY <2>1, <2>2, <2>3, <2>4, <2>5, Zenon DEF CallInv
  <2> QED
    BY <2>6, Zenon DEF LoopInv
<1>3. PoolInv
  <2>1. Busy = {}
    BY DEF Init, SqlInit, Busy
  <2>2. IsFiniteSet(Busy) /\ Cardinality(Busy) = 0
    BY <2>1, FS_EmptySet
  <2> QED
    BY <2>2, SqliteAssumption DEF PoolInv, ConnectionsAccounted, Busy, Init, SqlInit
<1>4. ReadInv
  BY DEF Init, SqlInit, ReadInv, SnapInv
<1> QED
  BY <1>1, <1>2, <1>3, <1>4 DEF Inv

\* The state of the backend and of the calls is well typed, the calls are where
\* their transactions say, the pool is accounted for and the snapshots are what
\* they were taken from, in every reachable state.
THEOREM Invariance == Spec => []Inv
<1>1. Inv /\ [Next]_vars => Inv'
  BY TypeStep, LoopStep, PoolStep, ReadStep DEF Inv
<1> QED
  BY <1>1, InvInit, PTL DEF Spec

\* The transactions of the other iterations of a call have nothing applied and
\* nothing queued, and a call that has returned left its last one as Left says.
LEMMA OtherIterations ==
  ASSUME Inv, NEW c \in Calls
  PROVE  /\ result[c] # "none" => Left(c, Txn(c))
         /\ \A i \in 1 .. Attempts : i # attempt[c] =>
              <<c, i>> \notin applied /\ queue[<<c, i>>] = <<>>
<1>1. CallInv(c)
  BY Zenon DEF Inv, LoopInv
<1>2. result[c] # "none" => Left(c, Txn(c))
  BY <1>1, Zenon DEF CallInv
<1>3. ASSUME NEW i \in 1 .. Attempts, i # attempt[c]
      PROVE  <<c, i>> \notin applied /\ queue[<<c, i>>] = <<>>
  <2>1. attempt[c] \in Int /\ i \in Int
    BY CallsAssumption DEF Inv, TypeOK
  <2>2. i > attempt[c] \/ i < attempt[c]
    BY <1>3, <2>1
  <2>3. Fresh(<<c, i>>) \/ Refused(<<c, i>>)
    BY <1>1, <2>2, Zenon DEF CallInv
  <2> QED
    BY <2>3, Zenon DEF Fresh, Refused
<1> QED
  BY <1>2, <1>3, Zenon

\* The retry loop applies the writes of a call at most once: an iteration is
\* repeated only after a conflict, which leaves nothing applied or queued.
THEOREM AppliedOnce == Spec => []AppliedAtMostOnce
<1>1. Inv => AppliedAtMostOnce
  <2> SUFFICES ASSUME Inv, NEW c \in Calls
               PROVE Cardinality(applied \cap TxnsOf(c)) <= 1
    BY DEF AppliedAtMostOnce
  <2>1. \A i \in 1 .. Attempts : i # attempt[c] => <<c, i>> \notin applied
    BY OtherIterations, Zenon
  <2>2. applied \cap TxnsOf(c) \in SUBSET {Txn(c)}
    BY <2>1 DEF TxnsOf, Txn
  <2>3. IsFiniteSet({Txn(c)}) /\ Cardinality({Txn(c)}) = 1
    BY FS_Singleton, Zenon
  <2> QED
    BY <2>2, <2>3, FS_Subset
<1> QED
  BY <1>1, Invariance, PTL

\* Ok means the writes are in the database, and so does the error of a result
\* that cannot be serialized; an error of the graph, or giving up after the last
\* conflict, means that they are not.
THEOREM ResultIsTrue == Spec => []ResultTellsApplied
<1>1. Inv => ResultTellsApplied
  <2> SUFFICES ASSUME Inv, NEW c \in Calls
               PROVE /\ result[c] \in {"ok", "unserializable"} /\ log[Txn(c)] # <<>>
                          => Txn(c) \in applied
                     /\ result[c] \in {"error", "conflict"} => applied \cap TxnsOf(c) = {}
    BY DEF ResultTellsApplied
  <2>1. result[c] # "none" => Left(c, Txn(c))
    BY OtherIterations, Zenon
  <2>2. result[c] \in {"ok", "unserializable"} /\ log[Txn(c)] # <<>> => Txn(c) \in applied
    BY <2>1 DEF Left
  <2>3. ASSUME result[c] \in {"error", "conflict"} PROVE applied \cap TxnsOf(c) = {}
    <3>1. Txn(c) \notin applied
      BY <2>1, <2>3, Zenon DEF Left, Fresh, Uncommitted, Refused
    <3>2. \A i \in 1 .. Attempts : i # attempt[c] => <<c, i>> \notin applied
      BY OtherIterations, Zenon
    <3> QED
      BY <3>1, <3>2 DEF TxnsOf, Txn
  <2> QED
    BY <2>2, <2>3
<1> QED
  BY <1>1, Invariance, PTL

\* Once a call was told how it ended, no worker holds a commit of it that could
\* still change the database; only a timeout leaves one queued.
THEOREM NothingCommitsLate == Spec => []NoLateCommit
<1>1. Inv => NoLateCommit
  <2> SUFFICES ASSUME Inv, NEW c \in Calls,
                      result[c] \notin {"none", "timeout"},
                      NEW n \in 1 .. Attempts, NEW i \in DOMAIN queue[<<c, n>>]
               PROVE queue[<<c, n>>][i] # CommitWork
    BY DEF NoLateCommit, TxnsOf
  <2>1. Left(c, Txn(c))
    BY OtherIterations, Zenon
  <2>2. n = attempt[c] => <<c, n>> = Txn(c)
    BY Zenon DEF Txn
  <2>4. CASE n # attempt[c]
    <3>1. queue[<<c, n>>] = <<>>
      BY <2>4, OtherIterations, Zenon
    <3> QED
      BY <3>1, EmptyQueue, Zenon
  <2>5. CASE n = attempt[c]
    <3>r. result[c] \in {"ok", "unserializable", "error", "conflict", "unknown"}
      BY DEF Inv, TypeOK
    <3>1. queue[<<c, n>>] = <<>> \/ Uncommitted(<<c, n>>)
      BY <2>1, <2>2, <2>5, <3>r, Zenon DEF Left, Fresh, Refused
    <3>2. CASE Uncommitted(<<c, n>>)
      BY <3>2, ReadIsNoCommit, Zenon DEF Uncommitted
    <3> QED
      BY <3>1, <3>2, EmptyQueue, Zenon
  <2> QED
    BY <2>4, <2>5, Zenon
<1> QED
  BY <1>1, Invariance, PTL

\* Every connection of the pool is idle or owned by one worker.
THEOREM PoolAccounted == Spec => []ConnectionsAccounted
<1>1. Inv => ConnectionsAccounted
  BY DEF Inv, PoolInv
<1> QED
  BY <1>1, Invariance, PTL

\* What a transaction has read is still in the database when its log gets there:
\* transactions that write are serializable in the order of their commits.
THEOREM ReadsAreCurrent == Spec => ReadsCurrentAtCommit
<1> DEFINE A == \A t \in applied' \ applied : \A k \in Keys :
                  got[t][k] # Unread => got[t][k] = db[k]
<1>1. Inv /\ [Next]_vars => [A]_vars
  <2> SUFFICES ASSUME Inv, Next PROVE A
    OBVIOUS
  <2>1. ASSUME NEW t \in Txns, Install(t), ~Stale(t) PROVE A
    <3> SUFFICES ASSUME NEW u \in applied' \ applied, NEW k \in Keys, got[u][k] # Unread
                 PROVE got[u][k] = db[k]
      OBVIOUS
    <3>1. u = t /\ log[t] # <<>>
      BY <2>1 DEF Install
    <3>2. snap[t] # NoSnap /\ got[t][k] = snap[t].rows[k]
      BY <3>1, Zenon DEF Inv, ReadInv, SnapInv
    <3>3. snap[t].at = wal
      BY <2>1, <3>1, <3>2 DEF Stale
    <3> QED
      BY <3>1, <3>2, <3>3, Zenon DEF Inv, ReadInv, SnapInv
  <2>2. ASSUME applied' = applied PROVE A
    BY <2>2
  <2> HIDE DEF A
  <2>3. ASSUME NEW t \in Txns, Worker(t) PROVE A
    BY <2>1, <2>2, <2>3, Zenon DEF Worker, WorkerStep, WorkerStarts, WorkerFails, WorkerReads,
       WorkerCommits, WorkerConflicts, WorkerErrs, WorkerEnds
  <2>4. ASSUME NEW c \in Calls,
               \/ Progress(c) \/ Runs(c) \/ Commits(c)
               \/ BeginFails(c) \/ RunFails(c) \/ Timeout(c)
        PROVE applied' = applied
    BY <2>4, Zenon DEF Progress, Begins, BeginTransaction, Runs, Get, ScanKeys, Put, Delete,
       DeleteRange, Send, Write, Commits, Commit, BeginFails, RunFails, Timeout, Abandon,
       CommitOk, CommitConflict, CommitUnknown, CommitReturns, Wakes, sqlvars
  <2>5. Wipes \/ Terminated => applied' = applied
    BY DEF Wipes, Terminated, vars, sqlvars
  <2> QED
    BY <2>2, <2>3, <2>4, <2>5 DEF Next
<1> QED
  BY <1>1, Invariance, PTL DEF Spec, ReadsCurrentAtCommit
=============================================================================
