---------------------------- MODULE MvccKvProofs ----------------------------
(***************************************************************************)
(* Theorems about the in-memory multi-version store, for every set of      *)
(* keys, values and transactions.                                          *)
(***************************************************************************)
EXTENDS MvccKv, TLAPS

\* Every step of one transaction keeps the maps total and well typed.
LEMMA TypeStep == TypeOK /\ [Next]_vars => TypeOK'
<1> USE DEF TypeOK, Entry, Stored
<1> SUFFICES ASSUME TypeOK, [Next]_vars PROVE TypeOK'
  OBVIOUS
<1>1. ASSUME UNCHANGED vars PROVE TypeOK'
  BY <1>1 DEF vars
<1>2. ASSUME NEW t \in Txns, TxnNext(t) PROVE TypeOK'
  <2> NoEntry \in Entry /\ EmptyMap \in [Keys -> Entry]
    BY DEF NoEntry, EmptyMap
  <2> NoneModified \in [Keys -> Nat \cup {NotModified}]
    BY DEF NoneModified
  <2> \A o \in {"none", "ok", "conflict"} : Done(o) \in Replies
    BY DEF Done, Replies
  <2>1. CASE BeginTransaction(t)
    BY <2>1 DEF BeginTransaction
  <2>2. ASSUME NEW k \in Keys, Get(t, k) PROVE TypeOK'
    BY <2>2 DEF Get, Read, Replies
  <2>3. ASSUME NEW D \in SUBSET Keys, NEW v \in Stored, Update(t, D, v)
        PROVE /\ buffer' \in [Txns -> [Keys -> Entry]]
              /\ modified' \in [Txns -> [Keys -> Nat \cup {NotModified}]]
    BY <2>3 DEF Update
  <2>4. ASSUME NEW k \in Keys, NEW v \in Values, Put(t, k, v) PROVE TypeOK'
    BY <2>4, <2>3, Zenon DEF Put
  <2>5. ASSUME NEW k \in Keys, Delete(t, k) PROVE TypeOK'
    BY <2>5, <2>3, Zenon DEF Delete
  <2>6. ASSUME NEW lo \in Bounds, NEW hi \in Bounds, DeleteRange(t, lo, hi)
        PROVE TypeOK'
    BY <2>6, <2>3, Zenon DEF DeleteRange, KeyRange
  <2>7. ASSUME NEW lo \in Bounds, NEW hi \in Bounds, ScanKeys(t, lo, hi)
        PROVE TypeOK'
    BY <2>7 DEF ScanKeys, Listed, Replies, KeyRange, Live
  <2>8. CASE CommitOk(t)
    BY <2>8 DEF CommitOk, End
  <2>9. CASE CommitConflict(t)
    BY <2>9 DEF CommitConflict, End
  <2>10. CASE Drop(t)
    BY <2>10 DEF Drop, End
  <2> QED
    BY <1>2, <2>1, <2>2, <2>4, <2>5, <2>6, <2>7, <2>8, <2>9, <2>10
    DEF TxnNext
<1> QED
  BY <1>1, <1>2 DEF Next

\* The empty store and its unused handles are well typed.
LEMMA TypeInit == Init => TypeOK
BY DEF Init, TypeOK, EmptyMap, NoEntry, Entry, Stored, NoneModified, Done, Replies

\* The maps of the store and of its transactions are total and well typed in
\* every reachable state.
THEOREM TypeCorrect == Spec => []TypeOK
BY TypeInit, TypeStep, PTL DEF Spec

-----------------------------------------------------------------------------
(***************************************************************************)
(* The inductive invariant.  The versions of a running transaction relate  *)
(* its three maps to the store; put and delete disturb only the relation   *)
(* between the buffer and the map of the start, commit only the one        *)
(* between the other transactions' maps and the store.                     *)
(***************************************************************************)

\* put, delete and delete_range keep the parts of the invariant that speak of
\* the buffer and of the noted versions.
LEMMA UpdateStep ==
  ASSUME IInv, NEW t \in Txns, NEW D \in SUBSET Keys, NEW v \in Stored,
         Update(t, D, v), UNCHANGED <<data, active, read_buffer>>
  PROVE  VersionsIdentifyValues' /\ ModifiedNotesFirstVersion' /\ Residue'
<1> USE DEF IInv, TypeOK, Entry
<1>1. VersionsIdentifyValues'
  BY DEF VersionsIdentifyValues
<1>2. ASSUME NEW u \in active, NEW k \in Keys
      PROVE  IF modified'[u][k] # NotModified
             THEN /\ modified'[u][k] = read_buffer[u][k].ver
                  /\ modified'[u][k] < buffer'[u][k].ver
             ELSE buffer'[u][k] = read_buffer[u][k]
  <2>1. CASE u # t
    BY <2>1 DEF Update, ModifiedNotesFirstVersion, Modified
  <2>2. CASE u = t /\ k \notin D
    BY <2>2 DEF Update, ModifiedNotesFirstVersion, Modified
  <2>3. CASE u = t /\ k \in D
    BY <2>3 DEF Update, ModifiedNotesFirstVersion, Modified, NotModified
  <2> QED
    BY <2>1, <2>2, <2>3
<1>3. ModifiedNotesFirstVersion'
  BY <1>2 DEF ModifiedNotesFirstVersion, Modified
<1>4. Residue'
  BY DEF Residue, Update, NoEntry
<1> QED
  BY <1>1, <1>3, <1>4

\* A step that ends t and leaves the store alone.
LEMMA EndStep ==
  ASSUME IInv, NEW t \in active, End(t), UNCHANGED data
  PROVE  VersionsIdentifyValues' /\ ModifiedNotesFirstVersion' /\ Residue'
<1> USE DEF IInv, TypeOK, Entry, End
<1>1. VersionsIdentifyValues'
  BY DEF VersionsIdentifyValues
<1>2. ModifiedNotesFirstVersion'
  BY DEF ModifiedNotesFirstVersion, Modified
<1>3. Residue'
  BY DEF Residue, EmptyMap, NoEntry
<1> QED
  BY <1>1, <1>2, <1>3

\* A commit gives every key it changes a version larger than the one the
\* store had, because the noted version is both the store's and smaller than
\* the buffer's.
LEMMA CommitRaisesVersions ==
  ASSUME IInv, NEW t \in Txns, CommitOk(t), NEW k \in Keys
  PROVE  /\ k \in Modified(t) => /\ data'[k] = buffer[t][k]
                                 /\ data'[k].ver > data[k].ver
                                 /\ data[k] = read_buffer[t][k]
         /\ k \notin Modified(t) => data'[k] = data[k]
BY DEF IInv, TypeOK, Entry, CommitOk, Unchanged, Modified,
       ModifiedNotesFirstVersion, VersionsIdentifyValues

\* No call of the store breaks the inductive invariant.
LEMMA InvStep == IInv /\ [Next]_vars => IInv'
<1> SUFFICES ASSUME IInv, [Next]_vars PROVE IInv'
  OBVIOUS
<1> TypeOK'
  BY TypeStep DEF IInv
<1> SUFFICES VersionsIdentifyValues' /\ ModifiedNotesFirstVersion' /\ Residue'
  BY DEF IInv
<1> DEFINE Rest == VersionsIdentifyValues /\ ModifiedNotesFirstVersion /\ Residue
<1>1. ASSUME UNCHANGED <<data, active, read_buffer, buffer, modified>> PROVE Rest'
  BY <1>1 DEF IInv, VersionsIdentifyValues, ModifiedNotesFirstVersion, Residue,
              Modified
<1>2. ASSUME NEW t \in Txns, TxnNext(t) PROVE Rest'
  <2>1. CASE BeginTransaction(t)
    <3>1. VersionsIdentifyValues'
      BY <2>1 DEF IInv, TypeOK, Entry, BeginTransaction, VersionsIdentifyValues
    <3>2. ModifiedNotesFirstVersion'
      BY <2>1 DEF IInv, TypeOK, Entry, BeginTransaction, Modified,
                  ModifiedNotesFirstVersion, Residue, NoneModified
    <3>3. Residue'
      BY <2>1 DEF IInv, TypeOK, Entry, BeginTransaction, Residue
    <3> QED
      BY <3>1, <3>2, <3>3
  <2>2. ASSUME NEW k \in Keys, Get(t, k) PROVE Rest'
    BY <2>2, <1>1 DEF Get
  <2>3. ASSUME NEW k \in Keys, NEW v \in Values, Put(t, k, v) PROVE Rest'
    BY <2>3, UpdateStep DEF Put, Stored
  <2>4. ASSUME NEW k \in Keys, Delete(t, k) PROVE Rest'
    BY <2>4, UpdateStep DEF Delete, Stored
  <2>5. ASSUME NEW lo \in Bounds, NEW hi \in Bounds, DeleteRange(t, lo, hi)
        PROVE Rest'
    BY <2>5, UpdateStep DEF DeleteRange, Stored, KeyRange
  <2>6. ASSUME NEW lo \in Bounds, NEW hi \in Bounds, ScanKeys(t, lo, hi)
        PROVE Rest'
    BY <2>6, <1>1 DEF ScanKeys
  <2>7. CASE CommitOk(t)
    <3> USE <2>7 DEF IInv, TypeOK, Entry
    <3>0. End(t) /\ t \in active
      BY DEF CommitOk
    <3>1. VersionsIdentifyValues'
      <4> SUFFICES ASSUME NEW u \in active', NEW k \in Keys
                   PROVE /\ read_buffer'[u][k].ver <= data'[k].ver
                         /\ read_buffer'[u][k].ver = data'[k].ver
                              => read_buffer'[u][k] = data'[k]
        BY DEF VersionsIdentifyValues
      <4>1. u \in active /\ u # t /\ read_buffer'[u] = read_buffer[u]
        BY <3>0 DEF End
      <4>2. CASE k \in Modified(t)
        BY <4>1, <4>2, CommitRaisesVersions DEF VersionsIdentifyValues
      <4>3. CASE k \notin Modified(t)
        BY <4>1, <4>3, CommitRaisesVersions DEF VersionsIdentifyValues
      <4> QED
        BY <4>2, <4>3
    <3>2. ModifiedNotesFirstVersion'
      BY <3>0 DEF End, ModifiedNotesFirstVersion, Modified
    <3>3. Residue'
      <4>1. ASSUME NEW k \in Keys, data'[k].ver = 0 PROVE data'[k] = NoEntry
        <5>1. data'[k] \in Entry /\ data[k] \in Entry
          OBVIOUS
        <5>2. k \notin Modified(t)
          BY <4>1, <5>1, CommitRaisesVersions
        <5> QED
          BY <4>1, <5>2, CommitRaisesVersions DEF Residue
      <4> QED
        BY <3>0, <4>1 DEF End, Residue, EmptyMap, NoEntry
    <3> QED
      BY <3>1, <3>2, <3>3
  <2>8. CASE CommitConflict(t)
    BY <2>8, EndStep DEF CommitConflict
  <2>9. CASE Drop(t)
    BY <2>9, EndStep DEF Drop
  <2> QED
    BY <1>2, <2>1, <2>2, <2>3, <2>4, <2>5, <2>6, <2>7, <2>8, <2>9 DEF TxnNext
<1> QED
  BY <1>1, <1>2 DEF Next, vars

\* The inductive invariant holds of the empty store.
LEMMA InvInit == Init => IInv
<1> SUFFICES ASSUME Init PROVE IInv
  OBVIOUS
<1> TypeOK
  BY TypeInit
<1> VersionsIdentifyValues /\ ModifiedNotesFirstVersion
  BY DEF Init, VersionsIdentifyValues, ModifiedNotesFirstVersion
<1> Residue
  BY DEF Init, Residue, EmptyMap, NoEntry
<1> QED
  BY DEF IInv

\* Every reachable state satisfies the inductive invariant.
THEOREM Invariance == Spec => []IInv
BY InvInit, InvStep, PTL DEF Spec

\* What commit relies on when it compares versions instead of values.
THEOREM VersionsIdentify == Spec => []VersionsIdentifyValues
BY Invariance, PTL DEF IInv

\* However often a transaction writes a key, the version it will be checked
\* against is the one its snapshot has.
THEOREM FirstVersionNoted == Spec => []ModifiedNotesFirstVersion
BY Invariance, PTL DEF IInv

-----------------------------------------------------------------------------
(***************************************************************************)
(* Action properties.                                                      *)
(***************************************************************************)

\* Only a successful commit changes the store.
LEMMA OnlyCommitWrites ==
  ASSUME NEW t \in Txns, TxnNext(t), data' # data
  PROVE  CommitOk(t)
BY Zenon DEF TxnNext, BeginTransaction, Get, Put, Delete, DeleteRange, ScanKeys,
       CommitConflict, Drop

\* Versions in the store only grow, and a changed entry has a larger one.
THEOREM StoreVersionsGrow == Spec => VersionsGrow
<1> DEFINE Grow == \A k \in Keys : data'[k] # data[k] => data'[k].ver > data[k].ver
<1>1. ASSUME IInv, [Next]_vars PROVE [Grow]_vars
  <2>1. CASE UNCHANGED vars
    BY <2>1
  <2>2. ASSUME NEW t \in Txns, TxnNext(t) PROVE Grow
    <3>1. CASE data' = data
      BY <3>1
    <3>2. CASE data' # data
      BY <3>2, <2>2, <1>1, OnlyCommitWrites, CommitRaisesVersions
    <3> QED
      BY <3>1, <3>2
  <2> QED
    BY <1>1, <2>1, <2>2 DEF Next
<1> QED
  BY <1>1, Invariance, PTL DEF Spec, VersionsGrow

\* A successful commit overwrites nothing its snapshot does not hold.
THEOREM LostUpdateFree == Spec => NoLostUpdate
<1> DEFINE Keep == \A t \in active :
                     t \notin active' /\ reply'.is = "ok" =>
                       \A k \in Keys : data'[k] # data[k]
                                        => data[k] = read_buffer[t][k]
<1>1. ASSUME IInv, [Next]_vars PROVE [Keep]_vars
  <2>1. CASE UNCHANGED vars
    BY <2>1
  <2>2. ASSUME NEW u \in Txns, TxnNext(u) PROVE Keep
    <3>1. CASE data' = data
      BY <3>1
    <3>2. CASE data' # data
      <4>1. CommitOk(u) /\ active' = active \ {u}
        BY <2>2, <3>2, OnlyCommitWrites DEF CommitOk, End
      <4> QED
        BY <1>1, <4>1, CommitRaisesVersions DEF IInv, TypeOK
    <3> QED
      BY <3>1, <3>2
  <2> QED
    BY <1>1, <2>1, <2>2 DEF Next
<1> QED
  BY <1>1, Invariance, PTL DEF Spec, NoLostUpdate

-----------------------------------------------------------------------------
(***************************************************************************)
(* The store implements SnapshotKv.                                        *)
(***************************************************************************)

\* The mapped functions, key by key.
LEMMA Mapped ==
  ASSUME TypeOK, NEW t \in Txns, NEW k \in Keys
  PROVE  /\ AbsStore[k] = data[k].val
         /\ AbsSnapshot[t][k] = read_buffer[t][k].val
         /\ modified[t][k] # NotModified => AbsWrites[t][k] = buffer[t][k].val
         /\ AbsWrites[t][k] = NoWrite <=> modified[t][k] = NotModified
         /\ k \in AbsMissed[t] <=> /\ t \in active
                                  /\ data[k].ver # read_buffer[t][k].ver
<1>1. buffer[t][k].val \in Values \cup {NoValue}
  BY DEF TypeOK, Entry, Stored
<1>2. AbsWrites[t][k] = IF modified[t][k] = NotModified THEN NoWrite
                                                        ELSE buffer[t][k].val
  BY DEF AbsWrites
<1> QED
  BY <1>1, <1>2, MarkerAssumption DEF AbsStore, AbsSnapshot, AbsMissed

\* The keys with a noted version are the keys the abstract transaction wrote.
LEMMA WrittenIsModified ==
  ASSUME TypeOK, NEW t \in Txns
  PROVE  Snap!Written(t) = Modified(t)
BY Mapped DEF Snap!Written, Modified

\* The buffer is the abstract transaction's view of the store.
LEMMA ViewIsBuffer ==
  ASSUME IInv, NEW t \in active
  PROVE  Snap!View(t) = [k \in Keys |-> buffer[t][k].val]
<1>1. ASSUME NEW k \in Keys
      PROVE  (IF AbsWrites[t][k] = NoWrite THEN AbsSnapshot[t][k]
                                           ELSE AbsWrites[t][k]) = buffer[t][k].val
  BY Mapped DEF IInv, TypeOK, Modified, ModifiedNotesFirstVersion
<1> QED
  BY <1>1 DEF Snap!View

\* The comparison of versions succeeds exactly when the abstract transaction
\* missed none of the keys it wrote.
LEMMA UnchangedIsNoneMissed ==
  ASSUME IInv, NEW t \in active
  PROVE  Unchanged(t) <=> Modified(t) \cap AbsMissed[t] = {}
<1> TypeOK /\ t \in Txns
  BY DEF IInv, TypeOK
<1>1. \A k \in Modified(t) : k \in Keys /\ modified[t][k] = read_buffer[t][k].ver
  BY DEF IInv, Modified, ModifiedNotesFirstVersion
<1> QED
  BY <1>1, Mapped DEF Unchanged

\* Updating a function at one argument, spelled out.
LEMMA ExceptIsUpdate ==
  ASSUME NEW S, NEW f, f = [u \in S |-> f[u]], NEW t, NEW x
  PROVE  [f EXCEPT ![t] = x] = [u \in S |-> IF u = t THEN x ELSE f[u]]
  OBVIOUS

\* The snapshots and the writes of the abstract store are functions.
LEMMA AbsFunctions ==
  /\ AbsSnapshot = [u \in Txns |-> AbsSnapshot[u]]
  /\ AbsWrites = [u \in Txns |-> AbsWrites[u]]
  BY DEF AbsSnapshot, AbsWrites

\* What SnapshotKv calls ending a transaction.
LEMMA EndIsClose ==
  ASSUME IInv, IInv', NEW t \in active, End(t)
  PROVE  Snap!Close(t)
<1> USE DEF IInv, TypeOK, End
<1>1. AbsSnapshot' = [AbsSnapshot EXCEPT ![t] = Snap!Nothing]
  <2>1. /\ read_buffer'[t] = [k \in Keys |-> NoEntry] /\ NoEntry.val = NoValue
        /\ \A u \in Txns \ {t} : read_buffer'[u] = read_buffer[u]
    BY DEF EmptyMap, NoEntry
  <2> HIDE DEF IInv, TypeOK, End
  <2>2. AbsSnapshot' = [u \in Txns |-> IF u = t THEN Snap!Nothing ELSE AbsSnapshot[u]]
    <3> DEFINE V(b) == [k \in Keys |-> b[k].val]
    <3>1. V(read_buffer'[t]) = Snap!Nothing
      BY <2>1, Zenon DEF Snap!Nothing
    <3>2. ASSUME NEW u \in Txns PROVE AbsSnapshot[u] = V(read_buffer[u])
      BY Zenon DEF AbsSnapshot
    <3>3. AbsSnapshot' = [u \in Txns |-> V(read_buffer'[u])]
      BY Zenon DEF AbsSnapshot
    <3> HIDE DEF V
    <3>4. ASSUME NEW u \in Txns
          PROVE  V(read_buffer'[u]) = IF u = t THEN Snap!Nothing ELSE AbsSnapshot[u]
      BY <2>1, <3>1, <3>2, Zenon
    <3> QED
      BY <3>3, <3>4, Zenon
  <2> QED
    BY <2>2, AbsFunctions, ExceptIsUpdate
<1>2. AbsWrites' = [AbsWrites EXCEPT ![t] = Snap!NoWrites]
  <2>1. /\ modified'[t] = [k \in Keys |-> NotModified]
        /\ \A u \in Txns \ {t} : modified'[u] = modified[u] /\ buffer'[u] = buffer[u]
    BY DEF NoneModified
  <2> HIDE DEF IInv, TypeOK, End
  <2>2. AbsWrites' = [u \in Txns |-> IF u = t THEN Snap!NoWrites ELSE AbsWrites[u]]
    <3> DEFINE W(m, b) == [k \in Keys |-> IF m[k] = NotModified THEN NoWrite ELSE b[k].val]
    <3>1. W(modified'[t], buffer'[t]) = Snap!NoWrites
      BY <2>1, Zenon DEF Snap!NoWrites
    <3>2. ASSUME NEW u \in Txns PROVE AbsWrites[u] = W(modified[u], buffer[u])
      BY Zenon DEF AbsWrites
    <3>3. AbsWrites' = [u \in Txns |-> W(modified'[u], buffer'[u])]
      BY Zenon DEF AbsWrites
    <3> HIDE DEF W
    <3>4. ASSUME NEW u \in Txns
          PROVE  W(modified'[u], buffer'[u]) = IF u = t THEN Snap!NoWrites ELSE AbsWrites[u]
      BY <2>1, <3>1, <3>2, Zenon
    <3> QED
      BY <3>3, <3>4, Zenon
  <2> QED
    BY <2>2, AbsFunctions, ExceptIsUpdate
<1> QED
  BY <1>1, <1>2 DEF Snap!Close

\* An unsuccessful end forgets what was missed.
LEMMA EndForgets ==
  ASSUME IInv, NEW t \in active, End(t), UNCHANGED data
  PROVE  AbsMissed' = [AbsMissed EXCEPT ![t] = {}] /\ UNCHANGED AbsStore
BY Zenon DEF IInv, TypeOK, End, AbsMissed, AbsStore

\* put, delete and delete_range write v under the keys D in the abstraction.
LEMMA UpdateWrites ==
  ASSUME IInv, NEW t \in Txns, NEW D \in SUBSET Keys, NEW v \in Stored,
         Update(t, D, v)
  PROVE  AbsWrites' = [AbsWrites EXCEPT ![t] =
           [k \in Keys |-> IF k \in D THEN v ELSE AbsWrites[t][k]]]
<1> USE DEF IInv, TypeOK, Entry
<1> DEFINE W(u, k) == IF modified'[u][k] = NotModified THEN NoWrite
                                                       ELSE buffer'[u][k].val
<1>1. ASSUME NEW u \in Txns, NEW k \in Keys
      PROVE  W(u, k) = IF u = t /\ k \in D THEN v ELSE AbsWrites[u][k]
  BY <1>1 DEF Update, AbsWrites, NotModified
<1> HIDE DEF W
<1>2. AbsWrites' = [u \in Txns |-> [k \in Keys |-> W(u, k)]]
  BY DEF AbsWrites, W
<1>3. [u \in Txns |-> [k \in Keys |-> W(u, k)]]
        = [AbsWrites EXCEPT ![t] =
             [k \in Keys |-> IF k \in D THEN v ELSE AbsWrites[t][k]]]
  <2> DEFINE New == [k \in Keys |-> IF k \in D THEN v ELSE AbsWrites[t][k]]
  <2>1. [k \in Keys |-> W(t, k)] = New
    BY <1>1
  <2>2. ASSUME NEW u \in Txns, u # t PROVE [k \in Keys |-> W(u, k)] = AbsWrites[u]
    <3>1. AbsWrites[u] = [k \in Keys |-> AbsWrites[u][k]]
      BY DEF AbsWrites
    <3> QED
      BY <3>1, <2>2, <1>1
  <2>3. AbsWrites = [u \in Txns |-> AbsWrites[u]]
    BY DEF AbsWrites
  <2> HIDE DEF New
  <2>4. [AbsWrites EXCEPT ![t] = New] =
          [u \in Txns |-> IF u = t THEN New ELSE AbsWrites[u]]
    BY <2>3
  <2>5. [u \in Txns |-> [k \in Keys |-> W(u, k)]] =
          [u \in Txns |-> IF u = t THEN New ELSE AbsWrites[u]]
    BY <2>1, <2>2, Zenon
  <2> QED
    BY <2>4, <2>5, Zenon DEF New
<1> QED
  BY <1>2, <1>3

\* The empty store stands for the empty abstract store.
LEMMA RefineInit == Init => Snap!Init
<1> SUFFICES ASSUME Init PROVE Snap!Init
  OBVIOUS
<1> USE DEF Init, EmptyMap, NoEntry, NoneModified
<1>1. AbsStore = Snap!Nothing /\ AbsSnapshot = [t \in Txns |-> Snap!Nothing]
  BY DEF AbsStore, AbsSnapshot, Snap!Nothing
<1>2. AbsWrites = [t \in Txns |-> Snap!NoWrites]
  BY DEF AbsWrites, Snap!NoWrites
<1>3. AbsMissed = [t \in Txns |-> {}]
  BY DEF AbsMissed
<1> QED
  BY <1>1, <1>2, <1>3 DEF Snap!Init, Done, Snap!Done

\* A successful commit is a successful abstract commit: what the other
\* transactions miss grows by exactly the keys it wrote.
LEMMA RefineCommit ==
  ASSUME IInv, IInv', NEW t \in Txns, CommitOk(t)
  PROVE  Snap!CommitOk(t)
<1>1. t \in active /\ End(t) /\ TypeOK /\ TypeOK'
  BY DEF CommitOk, IInv
<1>2. Snap!Written(t) \cap AbsMissed[t] = {}
  BY <1>1, WrittenIsModified, UnchangedIsNoneMissed DEF CommitOk
<1>3. AbsStore' = [k \in Keys |-> IF k \in Snap!Written(t) THEN AbsWrites[t][k]
                                                          ELSE AbsStore[k]]
  <2>1. ASSUME NEW k \in Keys
        PROVE  data'[k].val = IF k \in Modified(t) THEN AbsWrites[t][k]
                                                   ELSE AbsStore[k]
    BY <1>1, CommitRaisesVersions, Mapped DEF Modified
  <2> QED
    BY <2>1, <1>1, WrittenIsModified DEF AbsStore
<1>4. AbsMissed' = [u \in Txns |-> IF u = t \/ u \notin active
                                   THEN {} ELSE AbsMissed[u] \cup Snap!Written(t)]
  <2> DEFINE M(u) == {k \in Keys : u \in active' /\ data'[k].ver # read_buffer'[u][k].ver}
  <2>1. ASSUME NEW u \in Txns, u = t \/ u \notin active PROVE M(u) = {}
    BY <2>1, <1>1 DEF End
  <2>2. ASSUME NEW u \in Txns, u # t, u \in active
        PROVE  M(u) = AbsMissed[u] \cup Modified(t)
    <3>1. u \in active' /\ read_buffer'[u] = read_buffer[u]
      BY <2>2, <1>1 DEF End, TypeOK
    <3>2. ASSUME NEW k \in Keys
          PROVE  data'[k].ver # read_buffer[u][k].ver
                   <=> k \in AbsMissed[u] \/ k \in Modified(t)
      <4>1. read_buffer[u][k].ver <= data[k].ver
        BY <2>2 DEF IInv, VersionsIdentifyValues
      <4>2. data[k].ver \in Nat /\ data'[k].ver \in Nat /\ read_buffer[u][k].ver \in Nat
        BY <1>1 DEF TypeOK, Entry
      <4>3. CASE k \in Modified(t)
        BY <4>1, <4>2, <4>3, CommitRaisesVersions
      <4>4. CASE k \notin Modified(t)
        BY <4>4, <2>2, <1>1, CommitRaisesVersions, Mapped
      <4> QED
        BY <4>3, <4>4
    <3>3. AbsMissed[u] \subseteq Keys /\ Modified(t) \subseteq Keys
      BY DEF AbsMissed, Modified
    <3> QED
      BY <3>1, <3>2, <3>3
  <2>3. AbsMissed' = [u \in Txns |-> M(u)]
    BY DEF AbsMissed
  <2> HIDE DEF M
  <2> QED
    BY <2>1, <2>2, <2>3, <1>1, WrittenIsModified
<1>5. Snap!Close(t)
  BY <1>1, EndIsClose
<1> QED
  BY <1>1, <1>2, <1>3, <1>4, <1>5 DEF Snap!CommitOk, CommitOk, Done, Snap!Done

\* Every call of the store is a call of the abstract store, or leaves the
\* abstract state alone.
LEMMA RefineStep == IInv /\ IInv' /\ [Next]_vars => [Snap!Next]_Snap!avars
<1> SUFFICES ASSUME IInv, IInv', [Next]_vars PROVE [Snap!Next]_Snap!avars
  OBVIOUS
<1> TypeOK /\ TypeOK'
  BY DEF IInv
<1>1. ASSUME UNCHANGED vars PROVE UNCHANGED Snap!avars
  BY <1>1 DEF vars, Snap!avars, AbsStore, AbsSnapshot, AbsWrites, AbsMissed
<1>2. ASSUME NEW t \in Txns, TxnNext(t) PROVE Snap!Next
  <2>1. ASSUME BeginTransaction(t) PROVE Snap!Begin(t)
    <3> USE <2>1 DEF BeginTransaction, TypeOK
    <3>1. AbsSnapshot' = [AbsSnapshot EXCEPT ![t] = AbsStore]
      <4>1. read_buffer'[t] = data
        OBVIOUS
      <4>2. \A u \in Txns \ {t} : read_buffer'[u] = read_buffer[u]
        OBVIOUS
      <4>3. AbsSnapshot' = [u \in Txns |-> IF u = t THEN AbsStore ELSE AbsSnapshot[u]]
        <5> HIDE DEF BeginTransaction, TypeOK
        <5> QED
          BY <4>1, <4>2, Zenon DEF AbsSnapshot, AbsStore
      <4> HIDE DEF BeginTransaction, TypeOK
      <4> QED
        BY <4>3, AbsFunctions, ExceptIsUpdate
    <3>2. UNCHANGED <<AbsStore, AbsWrites>>
      BY DEF AbsStore, AbsWrites, IInv, Residue, NoneModified
    <3>3. UNCHANGED AbsMissed
      BY DEF AbsMissed
    <3> QED
      BY <3>1, <3>2, <3>3 DEF Snap!Begin, Done, Snap!Done
  <2>2. ASSUME NEW k \in Keys, Get(t, k) PROVE Snap!Get(t, k)
    <3>1. UNCHANGED <<AbsStore, AbsSnapshot, AbsWrites, AbsMissed>>
      BY <2>2 DEF Get, AbsStore, AbsSnapshot, AbsWrites, AbsMissed
    <3> QED
      BY <2>2, <3>1, Mapped, Zenon DEF Get, Snap!Get, Read, Snap!Read
  <2>3. ASSUME NEW D \in SUBSET Keys, NEW v \in Stored, Update(t, D, v),
               UNCHANGED <<data, active, read_buffer>>
        PROVE  /\ t \in active
               /\ UNCHANGED <<AbsStore, AbsSnapshot, AbsMissed>>
               /\ AbsWrites' = [AbsWrites EXCEPT ![t] =
                    [k \in Keys |-> IF k \in D THEN v ELSE AbsWrites[t][k]]]
    BY <2>3, UpdateWrites, Zenon DEF Update, AbsStore, AbsSnapshot, AbsMissed
  <2>4. ASSUME NEW k \in Keys, NEW v \in Stored, Update(t, {k}, v),
               UNCHANGED <<data, active, read_buffer>>, reply' = Done("none")
        PROVE  Snap!Write(t, k, v)
    <3> DEFINE New == [j \in Keys |-> IF j \in {k} THEN v ELSE AbsWrites[t][j]]
    <3>1. New = [AbsWrites[t] EXCEPT ![k] = v]
      BY Zenon DEF AbsWrites
    <3>2. AbsWrites' = [AbsWrites EXCEPT ![t] = New]
      BY <2>3, <2>4
    <3> HIDE DEF New
    <3>3. AbsWrites' = [AbsWrites EXCEPT ![t][k] = v]
      BY <3>1, <3>2
    <3>4. t \in active /\ UNCHANGED <<AbsStore, AbsSnapshot, AbsMissed>>
      BY <2>3, <2>4, Zenon
    <3> QED
      BY <2>4, <3>3, <3>4 DEF Snap!Write, Done, Snap!Done
  <2>5. ASSUME NEW lo \in Bounds, NEW hi \in Bounds, DeleteRange(t, lo, hi)
        PROVE  Snap!DeleteRange(t, lo, hi)
    <3> DEFINE D == {k \in KeyRange(lo, hi) : HasEntry(buffer[t], k)}
    <3>1. D \in SUBSET Keys /\ NoValue \in Stored /\ D \in SUBSET Snap!KeyRange(lo, hi)
      BY DEF KeyRange, Snap!KeyRange, Stored
    <3>2. t \in active /\ Update(t, D, NoValue)
      BY <2>5 DEF DeleteRange, Update
    <3>3. Snap!Live(Snap!View(t)) \cap Snap!KeyRange(lo, hi) \subseteq D
      <4> SUFFICES ASSUME NEW k \in Keys, k \in Snap!KeyRange(lo, hi),
                          Snap!View(t)[k] # NoValue
                   PROVE  k \in D
        BY DEF Snap!Live, Snap!KeyRange
      <4>1. buffer[t][k].val # NoValue
        BY <3>2, ViewIsBuffer
      <4>2. buffer[t][k].ver # 0
        BY <4>1 DEF IInv, Residue, NoEntry
      <4> QED
        BY <4>2 DEF KeyRange, Snap!KeyRange, HasEntry, TypeOK, Entry
    <3> QED
      BY <2>3, <2>5, <3>1, <3>2, <3>3, Zenon
      DEF DeleteRange, Snap!DeleteRange, Done, Snap!Done
  <2>6. ASSUME NEW lo \in Bounds, NEW hi \in Bounds, ScanKeys(t, lo, hi)
        PROVE  Snap!Scan(t, lo, hi)
    <3>1. UNCHANGED <<AbsStore, AbsSnapshot, AbsWrites, AbsMissed>>
      BY <2>6 DEF ScanKeys, AbsStore, AbsSnapshot, AbsWrites, AbsMissed
    <3>2. Snap!Live(Snap!View(t)) = Live(buffer[t])
      BY <2>6, ViewIsBuffer DEF ScanKeys, Live, Snap!Live
    <3> QED
      BY <2>6, <3>1, <3>2
      DEF ScanKeys, Snap!Scan, KeyRange, Snap!KeyRange, Listed, Snap!Listed
  <2>7. ASSUME CommitConflict(t) PROVE Snap!CommitConflict(t)
    <3>1. Snap!Written(t) \cap AbsMissed[t] # {}
      BY <2>7, WrittenIsModified, UnchangedIsNoneMissed DEF CommitConflict
    <3> QED
      BY <2>7, <3>1, EndIsClose, EndForgets
      DEF CommitConflict, Snap!CommitConflict, Done, Snap!Done
  <2>8. ASSUME Drop(t) PROVE Snap!Drop(t)
    BY <2>8, EndIsClose, EndForgets DEF Drop, Snap!Drop, Done, Snap!Done
  <2>9. ASSUME NEW k \in Keys, NEW v \in Values, Put(t, k, v)
        PROVE  Snap!Write(t, k, v)
    BY <2>4, <2>9 DEF Put, Stored
  <2>10. ASSUME NEW k \in Keys, Delete(t, k) PROVE Snap!Write(t, k, NoValue)
    BY <2>4, <2>10 DEF Delete, Stored
  <2> QED
    BY <1>2, <2>1, <2>2, <2>5, <2>6, <2>7, <2>8, <2>9, <2>10, RefineCommit
    DEF TxnNext, Snap!Next, Snap!Stored
<1> QED
  BY <1>1, <1>2 DEF Next

\* The in-memory store implements the abstract snapshot-isolated store, for
\* every set of keys, values and concurrent transactions.
THEOREM ImplementsSnapshotIsolation == Spec => SnapshotIsolation
BY RefineInit, RefineStep, Invariance, PTL DEF Spec, SnapshotIsolation, Snap!Spec
=============================================================================
