------------------------------ MODULE SqliteKv ------------------------------
(***************************************************************************)
(* The SQLite backend, rdb-server/src/kv_backend/sqlite.rs.  A transaction *)
(* is an object on the caller's side (SqliteKvTxn: a log of writes and the *)
(* sending end of a channel) and a worker task (txn_worker: a pooled       *)
(* connection, an SQLite transaction and the receiving end).  All workers  *)
(* run on one thread and each closure of the channel runs to its end       *)
(* without yielding.  The caller may give up at any await; the worker then *)
(* finishes what is queued before it notices.                              *)
(***************************************************************************)
EXTENDS Integers, Sequences

CONSTANTS Keys,      \* keys of one table; their order is the integers'
          Bounds,    \* the integers that may delimit a range of keys
          Values,    \* payloads
          NoValue,   \* no row for this key
          Unread,    \* a key no read has been answered for
          Txns,      \* transaction objects, each begun at most once
          PoolSize,  \* connections of the r2d2 pool
          MaxLog,    \* bound on the writes of one transaction
          MaxReads   \* bound on the reads of a transaction in flight

ASSUME SqliteAssumption == /\ Keys \subseteq Int /\ Bounds \subseteq Int
                           /\ PoolSize \in Nat \ {0}
                           /\ MaxLog \in Nat /\ MaxReads \in Nat

VARIABLES db,       \* the committed rows
          wal,      \* how many commits have changed the database
          free,     \* idle connections of the pool
          worker,   \* per transaction: state of its txn_worker task
          queue,    \* per transaction: the work its channel holds
          snap,     \* per transaction: the SQLite read snapshot, once taken
          object,   \* per transaction: what the caller does with the object
          log,      \* per transaction: SqliteKvTxn.log
          got,      \* per transaction: the rows its reads were answered with
          outcome,  \* per transaction: the answer of its commit, if any
          applied   \* history: the transactions whose log reached the database

sqlvars == <<db, wal, free, worker, queue, snap, object, log, got, outcome, applied>>

Stored == Values \cup {NoValue}
NoSnap == [at |-> -1, rows |-> [k \in Keys |-> NoValue]]
Latest == [at |-> wal, rows |-> db]

PutOp(k, v) == [keys |-> {k}, val |-> v]
DeleteOp(ks) == [keys |-> ks, val |-> NoValue]
KeyRange(lo, hi) == {k \in Keys : lo <= k /\ k < hi}

ReadWork(ks) == [do |-> "read", keys |-> ks]
CommitWork == [do |-> "commit", keys |-> {}]

\* The rows after each prefix of a log, whose statements are executed in order.
RowsAfter(rows, ops) ==
  LET R[i \in 0 .. Len(ops)] ==
        IF i = 0 THEN rows
        ELSE [k \in Keys |-> IF k \in ops[i].keys THEN ops[i].val ELSE R[i - 1][k]]
  IN R

Replay(rows, ops) == RowsAfter(rows, ops)[Len(ops)]

\* Does any statement touch a row?  One that does not leaves no WAL frame.
Touches(rows, ops) ==
  \E i \in DOMAIN ops :
    \/ ops[i].val # NoValue
    \/ \E k \in ops[i].keys : RowsAfter(rows, ops)[i - 1][k] # NoValue

-----------------------------------------------------------------------------
SqlInit == /\ db = [k \in Keys |-> NoValue]
           /\ wal = 0
           /\ free = PoolSize
           /\ worker = [t \in Txns |-> "none"]
           /\ queue = [t \in Txns |-> <<>>]
           /\ snap = [t \in Txns |-> NoSnap]
           /\ object = [t \in Txns |-> "none"]
           /\ log = [t \in Txns |-> <<>>]
           /\ got = [t \in Txns |-> [k \in Keys |-> Unread]]
           /\ outcome = [t \in Txns |-> "none"]
           /\ applied = {}

(***************************************************************************)
(* The caller's side.                                                      *)
(***************************************************************************)

\* Blocks while the pool is empty; then the worker task is handed over.
BeginTransaction(t) ==
  /\ object[t] = "none"
  /\ free > 0
  /\ free' = free - 1
  /\ worker' = [worker EXCEPT ![t] = "spawned"]
  /\ object' = [object EXCEPT ![t] = "open"]
  /\ UNCHANGED <<db, wal, queue, snap, log, got, outcome, applied>>

\* run: queue the closure and wait on the oneshot.  Several reads of one
\* transaction may be in flight, one per running node of the graph.  (A read
\* that would only repeat answered ones is left out.)
Send(t, ks) ==
  /\ object[t] = "open"
  /\ worker[t] # "ended"
  /\ Len(queue[t]) < MaxReads
  /\ \E k \in ks : got[t][k] = Unread
  /\ queue' = [queue EXCEPT ![t] = Append(@, ReadWork(ks))]
  /\ UNCHANGED <<db, wal, free, worker, snap, object, log, got, outcome, applied>>

Get(t, k) == Send(t, {k})

\* A scan collects the keys of the range at once; the iterator pops them off.
ScanKeys(t, lo, hi) == Send(t, KeyRange(lo, hi))

\* put, delete and delete_range only append to the log.
Write(t, op) ==
  /\ object[t] = "open"
  /\ Len(log[t]) < MaxLog
  /\ log' = [log EXCEPT ![t] = Append(@, op)]
  /\ UNCHANGED <<db, wal, free, worker, queue, snap, object, got, outcome, applied>>

Put(t, k, v) == Write(t, PutOp(k, v))
Delete(t, k) == Write(t, DeleteOp({k}))
DeleteRange(t, lo, hi) == Write(t, DeleteOp(KeyRange(lo, hi)))

\* commit consumes the object and queues the replay of the log.  If the
\* worker has gone the send fails, which is not an SQLite error.
Commit(t) ==
  /\ object[t] = "open"
  /\ object' = [object EXCEPT ![t] = "committing"]
  /\ IF worker[t] = "ended"
     THEN outcome' = [outcome EXCEPT ![t] = "unknown"] /\ UNCHANGED queue
     ELSE queue' = [queue EXCEPT ![t] = Append(@, CommitWork)] /\ UNCHANGED outcome
  /\ UNCHANGED <<db, wal, free, worker, snap, log, got, applied>>

\* The answer of commit arrives and the object is gone.
CommitReturns(t) ==
  /\ object[t] = "committing"
  /\ outcome[t] # "none"
  /\ object' = [object EXCEPT ![t] = "gone"]
  /\ UNCHANGED <<db, wal, free, worker, queue, snap, log, got, outcome, applied>>

\* The caller drops the object, or the future that owns it, at an await.
Abandon(t) ==
  /\ object[t] \in {"open", "committing"}
  /\ object' = [object EXCEPT ![t] = "gone"]
  /\ UNCHANGED <<db, wal, free, worker, queue, snap, log, got, outcome, applied>>

(***************************************************************************)
(* The worker thread.                                                      *)
(***************************************************************************)

WorkerStarts(t) ==
  /\ worker[t] = "spawned"
  /\ worker' = [worker EXCEPT ![t] = "running"]
  /\ UNCHANGED <<db, wal, free, queue, snap, object, log, got, outcome, applied>>

\* conn.transaction() fails: the task returns, the closures queued so far are
\* dropped, and whoever waits for one of them sees the channel closed.
WorkerFails(t) ==
  /\ worker[t] = "spawned"
  /\ worker' = [worker EXCEPT ![t] = "ended"]
  /\ free' = free + 1
  /\ queue' = [queue EXCEPT ![t] = <<>>]
  /\ outcome' = [outcome EXCEPT ![t] =
       IF object[t] = "committing" THEN "unknown" ELSE @]
  /\ UNCHANGED <<db, wal, snap, object, log, got, applied>>

\* A deferred transaction takes its snapshot at its first statement.
WorkerReads(t) ==
  /\ worker[t] = "running"
  /\ queue[t] # <<>> /\ Head(queue[t]).do = "read"
  /\ queue' = [queue EXCEPT ![t] = Tail(@)]
  /\ snap' = [snap EXCEPT ![t] = IF @ = NoSnap THEN Latest ELSE @]
  /\ got' = [got EXCEPT ![t] =
       IF object[t] = "open"
       THEN [k \in Keys |-> IF k \in Head(queue[t]).keys THEN snap'[t].rows[k]
                                                         ELSE got[t][k]]
       ELSE @]
  /\ UNCHANGED <<db, wal, free, worker, object, log, outcome, applied>>

CanCommit(t) == /\ worker[t] = "running"
                /\ queue[t] # <<>> /\ Head(queue[t]).do = "commit"

\* The oneshot has a receiver only while the caller still waits.
Answer(t, a) == outcome' = [outcome EXCEPT ![t] =
                              IF object[t] = "committing" THEN a ELSE @]

\* Mutant of Stale: the snapshot is not compared with the database.
StaleNever(t) == FALSE

\* SQLite refuses to write from a snapshot that is not the latest state; it
\* says "database is locked".  Nothing read yet means no snapshot yet.
Stale(t) == log[t] # <<>> /\ snap[t] # NoSnap /\ snap[t].at # wal

\* The log becomes the database's.
Install(t) ==
  /\ db' = Replay(db, log[t])
  /\ wal' = IF Touches(db, log[t]) THEN wal + 1 ELSE wal
  /\ applied' = IF log[t] = <<>> THEN applied ELSE applied \cup {t}

WorkerCommits(t) ==
  /\ CanCommit(t)
  /\ ~Stale(t)
  /\ Install(t)
  /\ Answer(t, "ok")
  /\ queue' = [queue EXCEPT ![t] = Tail(@)]
  /\ UNCHANGED <<free, worker, snap, object, log, got>>

WorkerConflicts(t) ==
  /\ CanCommit(t)
  /\ Stale(t)
  /\ Answer(t, "conflict")
  /\ queue' = [queue EXCEPT ![t] = Tail(@)]
  /\ UNCHANGED <<db, wal, free, worker, snap, object, log, got, applied>>

\* Mutant of WorkerErrs: every error is taken for a conflict.
WorkerErrsConflict(t) ==
  /\ CanCommit(t)
  /\ ~Stale(t) /\ log[t] # <<>>
  /\ Install(t) \/ UNCHANGED <<db, wal, applied>>
  /\ Answer(t, "conflict")
  /\ queue' = [queue EXCEPT ![t] = Tail(@)]
  /\ UNCHANGED <<free, worker, snap, object, log, got>>

\* Any other error, an I/O error for instance: the transaction is rolled back
\* unless the error came after the commit record was written.
WorkerErrs(t) ==
  /\ CanCommit(t)
  /\ ~Stale(t) /\ log[t] # <<>>
  /\ Install(t) \/ UNCHANGED <<db, wal, applied>>
  /\ Answer(t, "unknown")
  /\ queue' = [queue EXCEPT ![t] = Tail(@)]
  /\ UNCHANGED <<free, worker, snap, object, log, got>>

\* Mutant of WorkerEnds: the connection is not handed back.
WorkerEndsLeaking(t) ==
  /\ worker[t] = "running"
  /\ queue[t] = <<>> /\ object[t] = "gone"
  /\ worker' = [worker EXCEPT ![t] = "ended"]
  /\ UNCHANGED <<free, db, wal, queue, snap, object, log, got, outcome, applied>>

\* The channel is empty and closed: the connection returns to the pool, an
\* SQLite transaction that was not committed is rolled back.  (The answers to
\* the gets of an ended transaction are forgotten with it.)
WorkerEnds(t) ==
  /\ worker[t] = "running"
  /\ queue[t] = <<>> /\ object[t] = "gone"
  /\ worker' = [worker EXCEPT ![t] = "ended"]
  /\ free' = free + 1
  /\ snap' = [snap EXCEPT ![t] = NoSnap]
  /\ got' = [got EXCEPT ![t] = [k \in Keys |-> Unread]]
  /\ UNCHANGED <<db, wal, queue, object, log, outcome, applied>>

WorkerStep(t) ==
  \/ WorkerStarts(t)
  \/ WorkerFails(t)
  \/ WorkerReads(t)
  \/ WorkerCommits(t)
  \/ WorkerConflicts(t)
  \/ WorkerErrs(t)
  \/ WorkerEnds(t)
=============================================================================
