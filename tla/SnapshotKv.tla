----------------------------- MODULE SnapshotKv -----------------------------
(***************************************************************************)
(* What the key-value interface of RefineDB promises its callers           *)
(* (rdb-analyzer/src/data/kv.rs): transactions that read from the state    *)
(* the store had when they began, never from their own writes, and that    *)
(* commit only if no key they wrote was written by somebody else since.    *)
(* There are no versions here: a transaction simply remembers the keys     *)
(* whose committed updates it missed.                                      *)
(***************************************************************************)
EXTENDS Integers

CONSTANTS Keys,     \* keys, ordered as the integers are
          Bounds,   \* the integers that may delimit a range of keys
          Values,   \* what may be stored under a key
          Txns,     \* transaction handles; a closed one may begin again
          NoValue,  \* "there is no value under this key"
          NoWrite   \* "this transaction has not written this key"

VARIABLES store,     \* the committed value of every key
          open,      \* the transactions that have begun and not ended
          snapshot,  \* per transaction: the committed values at its start
          writes,    \* per transaction: its last write of every key
          missed,    \* per transaction: keys committed since its start
          reply      \* what the last call returned

avars == <<store, open, snapshot, writes, missed, reply>>

Stored == Values \cup {NoValue}
Nothing == [k \in Keys |-> NoValue]
NoWrites == [k \in Keys |-> NoWrite]
Written(t) == {k \in Keys : writes[t][k] # NoWrite}

\* The committed state a transaction would leave behind, were it alone.
View(t) == [k \in Keys |-> IF writes[t][k] = NoWrite THEN snapshot[t][k]
                                                     ELSE writes[t][k]]

Live(m) == {k \in Keys : m[k] # NoValue}
KeyRange(lo, hi) == {k \in Keys : lo <= k /\ k < hi}

\* Replies of the calls: an outcome, a value read, or keys listed.
Done(outcome) == [is |-> outcome, val |-> NoValue, keys |-> {}]
Read(v) == [is |-> "value", val |-> v, keys |-> {}]
Listed(ks) == [is |-> "keys", val |-> NoValue, keys |-> ks]

Init == /\ store = Nothing
        /\ open = {}
        /\ snapshot = [t \in Txns |-> Nothing]
        /\ writes = [t \in Txns |-> NoWrites]
        /\ missed = [t \in Txns |-> {}]
        /\ reply = Done("none")

Begin(t) == /\ t \notin open
            /\ open' = open \cup {t}
            /\ snapshot' = [snapshot EXCEPT ![t] = store]
            /\ reply' = Done("none")
            /\ UNCHANGED <<store, writes, missed>>

Get(t, k) == /\ t \in open
             /\ reply' = Read(snapshot[t][k])
             /\ UNCHANGED <<store, open, snapshot, writes, missed>>

Write(t, k, v) == /\ t \in open
                  /\ writes' = [writes EXCEPT ![t][k] = v]
                  /\ reply' = Done("none")
                  /\ UNCHANGED <<store, open, snapshot, missed>>

\* Deletes every key the transaction can see in the range; it may also write
\* a tombstone over keys that are dead already, which then count as written.
DeleteRange(t, lo, hi) ==
  /\ t \in open
  /\ \E D \in SUBSET KeyRange(lo, hi) :
       /\ Live(View(t)) \cap KeyRange(lo, hi) \subseteq D
       /\ writes' = [writes EXCEPT ![t] =
            [k \in Keys |-> IF k \in D THEN NoValue ELSE writes[t][k]]]
  /\ reply' = Done("none")
  /\ UNCHANGED <<store, open, snapshot, missed>>

\* A scan lists the live keys of the transaction's view of the store.
Scan(t, lo, hi) ==
  /\ t \in open
  /\ reply' = Listed(Live(View(t)) \cap KeyRange(lo, hi))
  /\ UNCHANGED <<store, open, snapshot, writes, missed>>

\* What ending transaction t forgets.
Close(t) == /\ open' = open \ {t}
            /\ snapshot' = [snapshot EXCEPT ![t] = Nothing]
            /\ writes' = [writes EXCEPT ![t] = NoWrites]

\* First committer wins: the commit succeeds only if no key it writes was
\* committed by another transaction since it began.
CommitOk(t) ==
  /\ t \in open
  /\ Written(t) \cap missed[t] = {}
  /\ store' = [k \in Keys |-> IF k \in Written(t) THEN writes[t][k]
                                                  ELSE store[k]]
  /\ missed' = [u \in Txns |-> IF u = t \/ u \notin open
                               THEN {} ELSE missed[u] \cup Written(t)]
  /\ Close(t)
  /\ reply' = Done("ok")

\* ... and fails only if one was.
CommitConflict(t) ==
  /\ t \in open
  /\ Written(t) \cap missed[t] # {}
  /\ missed' = [missed EXCEPT ![t] = {}]
  /\ Close(t)
  /\ reply' = Done("conflict")
  /\ UNCHANGED store

Drop(t) == /\ t \in open
           /\ missed' = [missed EXCEPT ![t] = {}]
           /\ Close(t)
           /\ reply' = Done("none")
           /\ UNCHANGED store

Next ==
  \E t \in Txns :
    \/ Begin(t)
    \/ \E k \in Keys : Get(t, k)
    \/ \E k \in Keys, v \in Stored : Write(t, k, v)
    \/ \E lo, hi \in Bounds : DeleteRange(t, lo, hi) \/ Scan(t, lo, hi)
    \/ CommitOk(t)
    \/ CommitConflict(t)
    \/ Drop(t)

Spec == Init /\ [][Next]_avars
=============================================================================
