------------------------------- MODULE MvccKv -------------------------------
(***************************************************************************)
(* The in-memory multi-version store: MockKv of rdb-analyzer               *)
(* (src/data/mock_kv.rs) and its copy MemKv of rdb-pgsvc (src/memkv.rs).   *)
(* Every entry carries a version.  A transaction works on private copies   *)
(* of the whole map, and commits under the store's lock after comparing    *)
(* the versions of the keys it modified.                                   *)
(***************************************************************************)
EXTENDS Integers

CONSTANTS Keys,       \* keys; their order is the order of the integers
          Bounds,     \* the integers that may delimit a range of keys
          Values,     \* payloads
          Txns,       \* handles; one that ended may begin again
          NoValue,    \* None: a tombstone, or a key that was never written
          NoWrite,    \* used by the mapping to SnapshotKv only
          MaxVersion  \* bound on the versions a run explores

\* The order of the keys and of the bounds of a range is that of the integers.
ASSUME KeysAssumption == Keys \subseteq Int /\ Bounds \subseteq Int
\* The markers are told apart from payloads.
ASSUME MarkerAssumption == /\ NoValue \notin Values
                           /\ NoWrite \notin Values \cup {NoValue}
\* Versions count from zero.
ASSUME VersionAssumption == MaxVersion \in Nat

VARIABLES data,         \* MockStore.data
          active,       \* transactions that have begun and not ended
          read_buffer,  \* per transaction: the map it began with
          buffer,       \* per transaction: that map with its writes applied
          modified,     \* per transaction: initial version of modified keys
          reply         \* what the last call returned

vars == <<data, active, read_buffer, buffer, modified, reply>>

Stored == Values \cup {NoValue}

\* A map of the code has an entry for k exactly when the version of k is
\* positive: put and delete insert with version + 1, and nothing removes.
Entry == [val : Stored, ver : Nat]
NoEntry == [val |-> NoValue, ver |-> 0]
EmptyMap == [k \in Keys |-> NoEntry]
HasEntry(m, k) == m[k].ver > 0
Live(m) == {k \in Keys : m[k].val # NoValue}
KeyRange(lo, hi) == {k \in Keys : lo <= k /\ k < hi}

NotModified == -1
NoneModified == [k \in Keys |-> NotModified]
Modified(t) == {k \in Keys : modified[t][k] # NotModified}

Done(outcome) == [is |-> outcome, val |-> NoValue, keys |-> {}]
Read(v) == [is |-> "value", val |-> v, keys |-> {}]
Listed(ks) == [is |-> "keys", val |-> NoValue, keys |-> ks]

-----------------------------------------------------------------------------
Init == /\ data = EmptyMap
        /\ active = {}
        /\ read_buffer = [t \in Txns |-> EmptyMap]
        /\ buffer = [t \in Txns |-> EmptyMap]
        /\ modified = [t \in Txns |-> NoneModified]
        /\ reply = Done("none")

BeginTransaction(t) ==
  /\ t \notin active
  /\ active' = active \cup {t}
  /\ read_buffer' = [read_buffer EXCEPT ![t] = data]
  /\ buffer' = [buffer EXCEPT ![t] = data]
  /\ reply' = Done("none")
  /\ UNCHANGED <<data, modified>>

\* get reads the map of the start, never the transaction's own writes.
Get(t, k) ==
  /\ t \in active
  /\ reply' = Read(read_buffer[t][k].val)
  /\ UNCHANGED <<data, active, read_buffer, buffer, modified>>

\* Mutant of Update: the version counts down.
UpdateVersionDown(t, D, v) ==
  /\ t \in active
  /\ \A k \in D : buffer[t][k].ver > -MaxVersion
  /\ buffer' = [buffer EXCEPT ![t] = [k \in Keys |->
       IF k \in D THEN [val |-> v, ver |-> buffer[t][k].ver - 1]
                  ELSE buffer[t][k]]]
  /\ modified' = [modified EXCEPT ![t] = [k \in Keys |->
       IF k \in D /\ modified[t][k] = NotModified
       THEN buffer[t][k].ver ELSE modified[t][k]]]

\* Mutant of Update: overwriting keeps the version of the entry.
UpdateNoBump(t, D, v) ==
  /\ t \in active
  /\ buffer' = [buffer EXCEPT ![t] = [k \in Keys |->
       IF k \in D THEN [val |-> v, ver |-> IF buffer[t][k].ver = 0 THEN 1
                                           ELSE buffer[t][k].ver]
                  ELSE buffer[t][k]]]
  /\ modified' = [modified EXCEPT ![t] = [k \in Keys |->
       IF k \in D /\ modified[t][k] = NotModified
       THEN buffer[t][k].ver ELSE modified[t][k]]]

\* Mutant of Update: the version expected at commit is the latest one seen,
\* not the one before the first write.
UpdateLastVersion(t, D, v) ==
  /\ t \in active
  /\ \A k \in D : buffer[t][k].ver < MaxVersion
  /\ buffer' = [buffer EXCEPT ![t] = [k \in Keys |->
       IF k \in D THEN [val |-> v, ver |-> buffer[t][k].ver + 1]
                  ELSE buffer[t][k]]]
  /\ modified' = [modified EXCEPT ![t] = [k \in Keys |->
       IF k \in D THEN buffer[t][k].ver ELSE modified[t][k]]]

\* The common part of put, delete and delete_range: enter v under the keys D
\* with the next version, and note the version before the first write.
Update(t, D, v) ==
  /\ t \in active
  /\ \A k \in D : buffer[t][k].ver < MaxVersion
  /\ buffer' = [buffer EXCEPT ![t] = [k \in Keys |->
       IF k \in D THEN [val |-> v, ver |-> buffer[t][k].ver + 1]
                  ELSE buffer[t][k]]]
  /\ modified' = [modified EXCEPT ![t] = [k \in Keys |->
       IF k \in D /\ modified[t][k] = NotModified
       THEN buffer[t][k].ver ELSE modified[t][k]]]

Put(t, k, v) == /\ Update(t, {k}, v)
                /\ reply' = Done("none")
                /\ UNCHANGED <<data, active, read_buffer>>

Delete(t, k) == /\ Update(t, {k}, NoValue)
                /\ reply' = Done("none")
                /\ UNCHANGED <<data, active, read_buffer>>

\* Only keys that have an entry, tombstones included, are rewritten.
DeleteRange(t, lo, hi) ==
  /\ Update(t, {k \in KeyRange(lo, hi) : HasEntry(buffer[t], k)}, NoValue)
  /\ reply' = Done("none")
  /\ UNCHANGED <<data, active, read_buffer>>

\* The iterator walks a private copy of the buffer made when it was opened,
\* in key order and skipping the tombstones: what it will list is known then.
ScanKeys(t, lo, hi) ==
  /\ t \in active
  /\ reply' = Listed(Live(buffer[t]) \cap KeyRange(lo, hi))
  /\ UNCHANGED <<data, active, read_buffer, buffer, modified>>

\* The transaction object is consumed.
End(t) == /\ active' = active \ {t}
          /\ read_buffer' = [read_buffer EXCEPT ![t] = EmptyMap]
          /\ buffer' = [buffer EXCEPT ![t] = EmptyMap]
          /\ modified' = [modified EXCEPT ![t] = NoneModified]

\* Mutant of Unchanged: a key that is dead now is not compared.
UnchangedSkipsDead(t) ==
  \A k \in Modified(t) : data[k].val # NoValue => data[k].ver = modified[t][k]

\* The check of commit, over every modified key.
Unchanged(t) == \A k \in Modified(t) : data[k].ver = modified[t][k]

\* Mutant of CommitOk: the whole buffer is installed, not the modified keys.
CommitWholeBuffer(t) ==
  /\ t \in active
  /\ Unchanged(t)
  /\ data' = buffer[t]
  /\ End(t)
  /\ reply' = Done("ok")

\* commit holds the lock of the store from the check to the last insertion.
CommitOk(t) ==
  /\ t \in active
  /\ Unchanged(t)
  /\ data' = [k \in Keys |-> IF k \in Modified(t) THEN buffer[t][k]
                                                  ELSE data[k]]
  /\ End(t)
  /\ reply' = Done("ok")

CommitConflict(t) ==
  /\ t \in active
  /\ ~Unchanged(t)
  /\ End(t)
  /\ reply' = Done("conflict")
  /\ UNCHANGED data

\* An error of the executor drops the transaction without a commit.
Drop(t) == /\ t \in active
           /\ End(t)
           /\ reply' = Done("none")
           /\ UNCHANGED data

TxnNext(t) == \/ BeginTransaction(t)
              \/ \E k \in Keys : Get(t, k)
              \/ \E k \in Keys, v \in Values : Put(t, k, v)
              \/ \E k \in Keys : Delete(t, k)
              \/ \E lo, hi \in Bounds : DeleteRange(t, lo, hi)
              \/ \E lo, hi \in Bounds : ScanKeys(t, lo, hi)
              \/ CommitOk(t)
              \/ CommitConflict(t)
              \/ Drop(t)

Next == \E t \in Txns : TxnNext(t)

Spec == Init /\ [][Next]_vars

-----------------------------------------------------------------------------
(***************************************************************************)
(* Properties.                                                             *)
(***************************************************************************)

Replies == [val : Stored, keys : SUBSET Keys,
            is : {"none", "ok", "conflict", "value", "keys"}]

\* Every map is total over Keys with a version per entry.
TypeOK == /\ data \in [Keys -> Entry]
          /\ active \subseteq Txns
          /\ read_buffer \in [Txns -> [Keys -> Entry]]
          /\ buffer \in [Txns -> [Keys -> Entry]]
          /\ modified \in [Txns -> [Keys -> Nat \cup {NotModified}]]
          /\ reply \in Replies

\* A key whose version still is the one a running transaction began with
\* still has the value it began with, and no version ever runs backwards:
\* this is what lets commit compare versions instead of values.
VersionsIdentifyValues ==
  \A t \in active, k \in Keys :
    /\ read_buffer[t][k].ver <= data[k].ver
    /\ read_buffer[t][k].ver = data[k].ver => read_buffer[t][k] = data[k]

\* A key is noted as modified with the version the transaction began with,
\* however often it was written; keys not noted are as they were at the start;
\* a noted key has a larger version in the buffer.
ModifiedNotesFirstVersion ==
  \A t \in active, k \in Keys :
    IF k \in Modified(t)
    THEN /\ modified[t][k] = read_buffer[t][k].ver
         /\ modified[t][k] < buffer[t][k].ver
    ELSE buffer[t][k] = read_buffer[t][k]

\* A map has no value under a key it has no entry for, and a handle that is
\* not in use holds no transaction object.
Residue ==
  /\ \A k \in Keys : data[k].ver = 0 => data[k] = NoEntry
  /\ \A t \in Txns, k \in Keys : buffer[t][k].ver = 0 => buffer[t][k] = NoEntry
  /\ \A t \in Txns \ active : /\ read_buffer[t] = EmptyMap
                               /\ buffer[t] = EmptyMap
                               /\ modified[t] = NoneModified

\* The inductive invariant behind the theorems of MvccKvProofs.
IInv == TypeOK /\ VersionsIdentifyValues /\ ModifiedNotesFirstVersion /\ Residue

\* No lost update: a commit that succeeds replaces, under every key that it
\* changes, exactly the entry the transaction's snapshot holds, and leaves the
\* other keys alone; so nothing committed by others in between is overwritten.
NoLostUpdate ==
  [][\A t \in active :
       t \notin active' /\ reply'.is = "ok" =>
         \A k \in Keys : data'[k] # data[k] => data[k] = read_buffer[t][k]]_vars

\* A version never decreases, and a changed entry has a larger one: a deleted
\* key keeps its tombstone, so a key deleted and written again cannot pass for
\* untouched at a later commit.
VersionsGrow ==
  [][\A k \in Keys : data'[k] # data[k] => data'[k].ver > data[k].ver]_vars

\* The abstract state a concrete one stands for: a version that differs from
\* the snapshot's stands for an update that the transaction missed.
AbsStore == [k \in Keys |-> data[k].val]
AbsSnapshot == [t \in Txns |-> [k \in Keys |-> read_buffer[t][k].val]]
AbsWrites == [t \in Txns |-> [k \in Keys |->
               IF modified[t][k] = NotModified THEN NoWrite
                                               ELSE buffer[t][k].val]]
AbsMissed == [t \in Txns |-> {k \in Keys :
               t \in active /\ data[k].ver # read_buffer[t][k].ver}]

Snap == INSTANCE SnapshotKv WITH
  store <- AbsStore, open <- active, snapshot <- AbsSnapshot,
  writes <- AbsWrites, missed <- AbsMissed

\* The store implements snapshot isolation with first committer wins, which
\* is what the comment on MockKv says it simulates: get answers from the
\* start of the transaction, and commit fails exactly when another committed
\* one of its keys in between.
SnapshotIsolation == Snap!Spec
=============================================================================
