------------------------------ MODULE RunGraph ------------------------------
(***************************************************************************)
(* A query from the server's entry point to its answer: the timeout of     *)
(* run_exported_graph (rdb-server/src/exec.rs) around the retry loop of    *)
(* Executor::run_graph (rdb-analyzer/src/data/treewalker/exec.rs), on top  *)
(* of the SQLite backend.  What the graph itself does is left open: any    *)
(* reads and any writes, and it may fail.                                   *)
(***************************************************************************)
EXTENDS SqliteKv, FiniteSets

CONSTANTS Calls,    \* concurrent calls of run_exported_graph
          Attempts  \* iterations of the retry loop (10 in the code)

\* Each iteration of the loop of each call begins a transaction of its own.
ASSUME CallsAssumption == /\ Attempts \in Nat \ {0}
                          /\ Txns = Calls \X (1 .. Attempts)

VARIABLES attempt,  \* per call: the iteration of the loop, from 1
          pc,       \* per call: where run_graph is
          result    \* per call: what run_exported_graph returned

runvars == <<attempt, pc, result>>
vars == <<sqlvars, runvars>>

Txn(c) == <<c, attempt[c]>>
TxnsOf(c) == {c} \X (1 .. Attempts)

Init == /\ SqlInit
        /\ attempt = [c \in Calls |-> 1]
        /\ pc = [c \in Calls |-> "begin"]
        /\ result = [c \in Calls |-> "none"]

Goto(c, where) == pc' = [pc EXCEPT ![c] = where] /\ UNCHANGED <<attempt, result>>

Return(c, r) == /\ pc' = [pc EXCEPT ![c] = "done"]
                /\ result' = [result EXCEPT ![c] = r]
                /\ UNCHANGED attempt

\* begin_transaction blocks the thread while the pool is empty: the timeout of
\* the call cannot fire here.
Begins(c) == /\ pc[c] = "begin"
             /\ BeginTransaction(Txn(c))
             /\ Goto(c, "run")

\* No such graph, or parameters it does not take, which is found out before the
\* loop is entered; or the pool gives up waiting for a connection.
BeginFails(c) == /\ pc[c] = "begin"
                 /\ attempt[c] = 1 \/ free = 0
                 /\ Return(c, "error")
                 /\ UNCHANGED sqlvars

\* recursively_run_graph: nodes read and write in some order.
Runs(c) == /\ pc[c] = "run"
           /\ \/ \E k \in Keys : Get(Txn(c), k)
              \/ \E lo, hi \in Bounds : ScanKeys(Txn(c), lo, hi)
              \/ \E k \in Keys, v \in Values : Put(Txn(c), k, v)
              \/ \E k \in Keys : Delete(Txn(c), k)
              \/ \E lo, hi \in Bounds : DeleteRange(Txn(c), lo, hi)
           /\ UNCHANGED runvars

\* A node returns an error or panics: no commit, the transaction is dropped.
RunFails(c) == /\ pc[c] = "run"
               /\ Abandon(Txn(c))
               /\ Return(c, "error")

\* All nodes are done, so no read is outstanding.
Commits(c) == /\ pc[c] = "run"
              /\ queue[Txn(c)] = <<>>
              /\ Commit(Txn(c))
              /\ Goto(c, "commit")

\* run_graph returns the output, which is then encoded.  A table or a set cannot
\* be: the call returns an error, although its transaction is committed.
CommitOk(c) == /\ pc[c] = "commit"
               /\ outcome[Txn(c)] = "ok"
               /\ CommitReturns(Txn(c))
               /\ Return(c, "ok") \/ Return(c, "unserializable")

\* Conflict: sleep, and go round the loop unless this was the last iteration.
CommitConflict(c) == /\ pc[c] = "commit"
                     /\ outcome[Txn(c)] = "conflict"
                     /\ CommitReturns(Txn(c))
                     /\ Goto(c, "sleep")

\* Mutant of CommitUnknown: an unknown outcome is retried like a conflict.
CommitUnknownRetried(c) == /\ pc[c] = "commit"
                           /\ outcome[Txn(c)] = "unknown"
                           /\ CommitReturns(Txn(c))
                           /\ Goto(c, "sleep")

\* Any other error of commit is returned, never retried.
CommitUnknown(c) == /\ pc[c] = "commit"
                    /\ outcome[Txn(c)] = "unknown"
                    /\ CommitReturns(Txn(c))
                    /\ Return(c, "unknown")

Wakes(c) == /\ pc[c] = "sleep"
            /\ \/ /\ attempt[c] < Attempts
                  /\ attempt' = [attempt EXCEPT ![c] = @ + 1]
                  /\ pc' = [pc EXCEPT ![c] = "begin"]
                  /\ UNCHANGED result
               \/ attempt[c] = Attempts /\ Return(c, "conflict")
            /\ UNCHANGED sqlvars

\* Mutant of Timeout: it is reported like an error of the graph.
TimeoutAsError(c) == /\ \/ pc[c] \in {"run", "commit"} /\ Abandon(Txn(c))
                        \/ pc[c] = "sleep" /\ UNCHANGED sqlvars
                     /\ Return(c, "error")

\* The select of run_exported_graph drops the run at whatever it awaits.
Timeout(c) == /\ \/ pc[c] \in {"run", "commit"} /\ Abandon(Txn(c))
                 \/ pc[c] = "sleep" /\ UNCHANGED sqlvars
              /\ Return(c, "timeout")

Worker(t) == WorkerStep(t) /\ UNCHANGED runvars

\* delete_namespace deletes all rows outside the retry loop.  Its transaction
\* reads nothing before it commits and so never has an old snapshot: it is one
\* step, for which a connection must be idle.
Wipes == /\ free > 0
         /\ \E k \in Keys : db[k] # NoValue
         /\ db' = [k \in Keys |-> NoValue]
         /\ wal' = wal + 1
         /\ UNCHANGED <<free, worker, queue, snap, object, log, got, outcome, applied>>
         /\ UNCHANGED runvars

\* The steps of the loop itself, between which it waits for the store only.
Progress(c) == \/ Begins(c) \/ CommitOk(c) \/ CommitConflict(c)
               \/ CommitUnknown(c) \/ Wakes(c)

Finished == \A c \in Calls : pc[c] = "done"
Terminated == /\ Finished
              /\ \A t \in Txns : worker[t] \in {"none", "ended"}
              /\ UNCHANGED vars

Next == \/ \E c \in Calls : \/ Progress(c) \/ Runs(c) \/ Commits(c)
                            \/ BeginFails(c) \/ RunFails(c) \/ Timeout(c)
        \/ \E t \in Txns : Worker(t)
        \/ Wipes
        \/ Terminated

Spec == Init /\ [][Next]_vars

\* The worker thread runs every task that is ready, and a call is polled while
\* it can move; how long a graph runs is bounded by the timeout, which is why
\* the timeout, not the progress of the graph, is fair.
Fairness == /\ \A c \in Calls : WF_vars(Progress(c)) /\ WF_vars(Timeout(c))
            /\ \A t \in Txns : WF_vars(Worker(t))

FairSpec == Spec /\ Fairness

-----------------------------------------------------------------------------
\* The retry loop applies the effects of a call at most once, although every
\* iteration prepares them again and an earlier worker may still be running.
AppliedAtMostOnce ==
  \A c \in Calls : Cardinality(applied \cap TxnsOf(c)) <= 1

\* A call that returns Ok has its writes in the database, and so has one that
\* returns the error of a result that cannot be serialized.  One that returns an
\* error of the graph, or gives up after its retries, has not and never will.
\* Only a timeout and an unknown commit leave it open.
ResultTellsApplied ==
  \A c \in Calls :
    /\ result[c] \in {"ok", "unserializable"} /\ log[Txn(c)] # <<>> => Txn(c) \in applied
    /\ result[c] \in {"error", "conflict"} => applied \cap TxnsOf(c) = {}

\* A call that has returned anything but a timeout cannot change the database
\* afterwards through a commit that is still queued.
NoLateCommit ==
  \A c \in Calls : result[c] \notin {"none", "timeout"} =>
    \A t \in TxnsOf(c) : ~\E i \in DOMAIN queue[t] : queue[t][i] = CommitWork

\* Transactions that write are serializable on this backend: when the log of
\* a transaction reaches the database, everything it has read is still current.
ReadsCurrentAtCommit ==
  [][\A t \in applied' \ applied : \A k \in Keys :
       got[t][k] # Unread => got[t][k] = db[k]]_vars

\* Every connection is idle or owned by exactly one worker.
ConnectionsAccounted ==
  free + Cardinality({t \in Txns : worker[t] \in {"spawned", "running"}}) = PoolSize

\* Every call returns and every connection comes back to the pool, also when
\* calls are dropped half way and their workers still hold the connections that
\* others wait for.
EveryCallReturns == <>[](Finished /\ free = PoolSize)
=============================================================================
