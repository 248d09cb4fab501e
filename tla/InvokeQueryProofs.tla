------------------------- MODULE InvokeQueryProofs --------------------------
(***************************************************************************)
(* Theorems about requests, the control service and the query cache, for   *)
(* every set of namespaces, scripts, calls and requests, every time to     *)
(* live and every life time of a request.                                  *)
(***************************************************************************)
EXTENDS InvokeQuery, Induction

(***************************************************************************)
(* What requests rely on: the lists of the query cache, and the invariants *)
(* of the system store that every call of the control service keeps.       *)
(***************************************************************************)

\* What the store holds, and the calls keep between their steps.
Scripts == [rev : Revs, depl : Deployments, time : Millis, text : Texts]
NsRecords == [prefix : KvPrefixes, deployments : [Deployments -> Schemas \cup {Absent}],
              query_scripts : [QueryScripts -> Scripts \cup {Absent}]]
Tasks == {Idle}
         \cup [at : {"wipe", "drop"}, ns : Namespaces, prefix : 0 .. MaxPrefix]
         \cup [at : {"store"}, ns : Namespaces, qs : QueryScripts, depl : Deployments,
               text : Texts]

\* The values the variables of the control service range over.
CtlTypeOK ==
  /\ sys \in [Namespaces -> NsRecords \cup {Absent}]
  /\ data \in [KvPrefixes -> SUBSET {"row"}]
  /\ prefixes \in 0 .. MaxPrefix
  /\ depls \in 0 .. MaxDepl
  /\ scripts \in Seq(Scripts) /\ Len(scripts) <= MaxRev
  /\ task \in [Admins -> Tasks]
  /\ retired \subseteq 1 .. Len(scripts)

\* A script as it was accepted.
Accepted(s) == s.rev \in 1 .. Len(scripts) /\ s = scripts[s.rev]

\* The script a namespace has under an id, or none.
ScriptOf(n, q) == IF sys[n] = Absent THEN Absent ELSE sys[n].query_scripts[q]

\* A stored script is an accepted one that is not retired, and stored once;
\* revisions count the accepted scripts, times tell them apart if they differ.
ScriptInv ==
  /\ \A v \in 1 .. Len(scripts) : scripts[v].rev = v
  /\ MillisDiffer => \A u, v \in 1 .. Len(scripts) :
                       scripts[u].time = scripts[v].time => u = v
  /\ \A n \in Namespaces, q \in QueryScripts : ScriptOf(n, q) # Absent =>
       /\ ScriptOf(n, q) \in Scripts
       /\ Accepted(ScriptOf(n, q))
       /\ ScriptOf(n, q).rev \notin retired
       /\ \A m \in Namespaces, p \in QueryScripts :
            ScriptOf(m, p) # Absent /\ ScriptOf(m, p).rev = ScriptOf(n, q).rev
              => m = n /\ p = q

\* A script for a deployment that was made loads against it, if it is still there.
Validated(x) ==
  /\ x.depl <= depls
  /\ \A n \in Namespaces : Deployment(n, x.depl) # Absent =>
       <<x.text, Deployment(n, x.depl)>> \in Loads

\* An id of a deployment that was drawn belongs to one namespace; scripts that
\* are about to be stored, or were, are validated.
DeplInv ==
  /\ \A n \in Namespaces, d \in Deployments : Deployment(n, d) # Absent =>
       /\ d <= depls
       /\ \A m \in Namespaces : Deployment(m, d) # Absent => m = n
  /\ \A a \in Admins : task[a].at = "store" => Validated(task[a])
  /\ \A v \in 1 .. Len(scripts) : Validated(scripts[v])

\* A prefix that was drawn belongs to one namespace; one that was not is unused.
PrefixInv ==
  /\ \A n \in Namespaces : sys[n] # Absent =>
       /\ sys[n].prefix \in 1 .. prefixes
       /\ \A m \in Namespaces \ {n} : sys[m] # Absent => sys[m].prefix # sys[n].prefix
  /\ \A p \in KvPrefixes : p > prefixes => data[p] = {}

-----------------------------------------------------------------------------
\* The length and the places of a sequence.
LEMMA LengthOf ==
  ASSUME NEW S, NEW s \in Seq(S)
  PROVE  Len(s) \in Nat /\ s \in [1 .. Len(s) -> S] /\ DOMAIN s = 1 .. Len(s)
OBVIOUS

\* Append adds one place (push_back of a list).
LEMMA Appended ==
  ASSUME NEW S, NEW s \in Seq(S), NEW x \in S
  PROVE  /\ Append(s, x) \in Seq(S)
         /\ Len(Append(s, x)) = Len(s) + 1
         /\ \A i \in 1 .. Len(s) : Append(s, x)[i] = s[i]
         /\ Append(s, x)[Len(s) + 1] = x
OBVIOUS

\* The places of two lists that are joined.
LEMMA JoinedTo ==
  ASSUME NEW S, NEW s \in Seq(S), NEW t \in Seq(S)
  PROVE  /\ s \o t \in Seq(S)
         /\ Len(s \o t) = Len(s) + Len(t)
         /\ \A i \in 1 .. Len(s) + Len(t) :
              (s \o t)[i] = IF i <= Len(s) THEN s[i] ELSE t[i - Len(s)]
OBVIOUS

\* The places of a part of a list.
LEMMA PartOf ==
  ASSUME NEW S, NEW s, NEW m \in Int, NEW n \in Int, \A i \in m .. n : s[i] \in S
  PROVE  /\ SubSeq(s, m, n) \in Seq(S)
         /\ Len(SubSeq(s, m, n)) = IF m <= n THEN n - m + 1 ELSE 0
         /\ \A i \in 1 .. n - m + 1 : SubSeq(s, m, n)[i] = s[m + i - 1]
OBVIOUS

\* peek of the LRU cache returns the value of an entry with that key.
LEMMA PeekFinds ==
  ASSUME NEW lru, NEW key, Peek(lru, key) # NoItem
  PROVE  \E i \in DOMAIN lru : lru[i].key = key /\ lru[i].ctx = Peek(lru, key)
BY Zenon DEF Peek, Has, Place

\* Entry i of an LRU list without the one at place p was entry i or i + 1.
LEMMA DropAtShifts ==
  ASSUME NEW S, NEW lru \in Seq(S), NEW p \in 1 .. Len(lru)
  PROVE  /\ DropAt(lru, p) \in Seq(S)
         /\ Len(DropAt(lru, p)) = Len(lru) - 1
         /\ \A i \in 1 .. Len(lru) - 1 :
              DropAt(lru, p)[i] = lru[IF i < p THEN i ELSE i + 1]
<1> DEFINE a == SubSeq(lru, 1, p - 1)
           b == SubSeq(lru, p + 1, Len(lru))
<1>1. /\ a \in Seq(S) /\ Len(a) = p - 1
      /\ \A i \in 1 .. p - 1 : a[i] = lru[i]
  BY PartOf
<1>2. /\ b \in Seq(S) /\ Len(b) = Len(lru) - p
      /\ \A i \in 1 .. Len(lru) - p : b[i] = lru[p + i]
  <2>1. \A i \in p + 1 .. Len(lru) : lru[i] \in S
    OBVIOUS
  <2>2. /\ b \in Seq(S)
        /\ Len(b) = IF p + 1 <= Len(lru) THEN Len(lru) - (p + 1) + 1 ELSE 0
        /\ \A i \in 1 .. Len(lru) - (p + 1) + 1 : b[i] = lru[p + 1 + i - 1]
    BY <2>1, PartOf
  <2> QED
    BY <2>2
<1> HIDE DEF a, b
<1>3. /\ a \o b \in Seq(S) /\ Len(a \o b) = Len(lru) - 1
      /\ \A i \in 1 .. Len(lru) - 1 :
           (a \o b)[i] = IF i <= p - 1 THEN a[i] ELSE b[i - (p - 1)]
  BY <1>1, <1>2, JoinedTo
<1>4. ASSUME NEW i \in 1 .. Len(lru) - 1
      PROVE (a \o b)[i] = lru[IF i < p THEN i ELSE i + 1]
  <2>1. CASE i < p
    BY <1>1, <1>3, <2>1
  <2>2. CASE i >= p
    <3>1. i - (p - 1) \in 1 .. Len(lru) - p /\ p + (i - (p - 1)) = i + 1
      BY <2>2
    <3>2. (a \o b)[i] = IF i <= p - 1 THEN a[i] ELSE b[i - (p - 1)]
      BY <1>3, Zenon
    <3>3. ~(i <= p - 1) /\ ~(i < p)
      BY <2>2
    <3>4. b[i - (p - 1)] = lru[i + 1]
      BY <1>2, <3>1, Zenon
    <3> QED
      BY <3>2, <3>3, <3>4, Zenon
  <2>3. i < p \/ i >= p
    OBVIOUS
  <2> QED
    BY <2>1, <2>2, <2>3, Zenon
<1> QED
  BY <1>3, <1>4, Zenon DEF DropAt, a, b

\* The list new ends in e, and has entries of old in their order before it.
EndsIn(new, old, e) ==
  \E m \in Nat : \E f \in [1 .. m -> 1 .. Len(old)] :
    /\ Len(new) = m + 1
    /\ new[m + 1] = e
    /\ \A i \in 1 .. m : new[i] = old[f[i]]
    /\ \A i, j \in 1 .. m : i <= j => f[i] <= f[j]

\* put of the LRU cache makes its entry the last one and keeps the others, if
\* not all, in their order.
LEMMA PutLruKeepsOrder ==
  ASSUME NEW S, NEW lru \in Seq(S), NEW e \in S
  PROVE  /\ PutLru(lru, e) \in Seq(S)
         /\ EndsIn(PutLru(lru, e), lru, e)
<1> DEFINE rest == IF Has(lru, e.key) THEN DropAt(lru, Place(lru, e.key)) ELSE lru
<1>1. /\ rest \in Seq(S)
      /\ \E f \in [1 .. Len(rest) -> 1 .. Len(lru)] :
           /\ \A i \in 1 .. Len(rest) : rest[i] = lru[f[i]]
           /\ \A i, j \in 1 .. Len(rest) : i <= j => f[i] <= f[j]
  <2>1. CASE Has(lru, e.key)
    <3>1. PICK p \in 1 .. Len(lru) : p = Place(lru, e.key)
      BY <2>1 DEF Has, Place
    <3> DEFINE f == [i \in 1 .. Len(lru) - 1 |-> IF i < p THEN i ELSE i + 1]
    <3>2. /\ rest \in Seq(S) /\ Len(rest) = Len(lru) - 1
          /\ \A i \in 1 .. Len(lru) - 1 : rest[i] = lru[IF i < p THEN i ELSE i + 1]
      BY <2>1, <3>1, DropAtShifts
    <3>3. f \in [1 .. Len(rest) -> 1 .. Len(lru)]
      BY <3>2
    <3>4. \A i \in 1 .. Len(rest) : rest[i] = lru[f[i]]
      BY <3>2
    <3>5. \A i, j \in 1 .. Len(rest) : i <= j => f[i] <= f[j]
      BY <3>2
    <3> HIDE DEF f, rest
    <3> QED
      BY <3>2, <3>3, <3>4, <3>5, Zenon
  <2>2. CASE ~Has(lru, e.key)
    <3> DEFINE f == [i \in 1 .. Len(lru) |-> i]
    <3>1. rest = lru
      BY <2>2
    <3>2. f \in [1 .. Len(lru) -> 1 .. Len(lru)]
      OBVIOUS
    <3>3. /\ \A i \in 1 .. Len(lru) : lru[i] = lru[f[i]]
          /\ \A i, j \in 1 .. Len(lru) : i <= j => f[i] <= f[j]
      OBVIOUS
    <3> HIDE DEF f, rest
    <3> QED
      BY <3>1, <3>2, <3>3
  <2> QED
    BY <2>1, <2>2
<1>2. PutLru(lru, e) = Append(rest, e)
  BY DEF PutLru
<1> HIDE DEF rest
<1>3. PICK f \in [1 .. Len(rest) -> 1 .. Len(lru)] :
           /\ \A i \in 1 .. Len(rest) : rest[i] = lru[f[i]]
           /\ \A i, j \in 1 .. Len(rest) : i <= j => f[i] <= f[j]
  BY <1>1
<1>4. /\ PutLru(lru, e) \in Seq(S) /\ Len(PutLru(lru, e)) = Len(rest) + 1
      /\ \A i \in 1 .. Len(rest) : PutLru(lru, e)[i] = rest[i]
      /\ PutLru(lru, e)[Len(rest) + 1] = e
  BY <1>1, <1>2, Appended
<1>5. Len(rest) \in Nat
  BY <1>1
<1>6. \A i \in 1 .. Len(rest) : PutLru(lru, e)[i] = lru[f[i]]
  BY <1>3, <1>4
<1>7. \E g \in [1 .. Len(rest) -> 1 .. Len(lru)] :
           /\ \A i \in 1 .. Len(rest) : PutLru(lru, e)[i] = lru[g[i]]
           /\ \A i, j \in 1 .. Len(rest) : i <= j => g[i] <= g[j]
  BY <1>3, <1>6
<1>8. \E m \in Nat : \E g \in [1 .. m -> 1 .. Len(lru)] :
           /\ Len(PutLru(lru, e)) = m + 1
           /\ PutLru(lru, e)[m + 1] = e
           /\ \A i \in 1 .. m : PutLru(lru, e)[i] = lru[g[i]]
           /\ \A i, j \in 1 .. m : i <= j => g[i] <= g[j]
  BY <1>4, <1>5, <1>7, Zenon
<1> QED
  BY <1>4, <1>8, Zenon DEF EndsIn

\* gc drops a prefix of the LRU list; all that expired, if the list is in the
\* order of its times.
LEMMA DropExpiredDrops ==
  ASSUME NEW S, NEW lru \in Seq(S)
  PROVE  /\ DropExpired(lru) \in Seq(S)
         /\ \E d \in 0 .. Len(lru) :
              /\ Len(DropExpired(lru)) = Len(lru) - d
              /\ \A i \in 1 .. Len(lru) - d : DropExpired(lru)[i] = lru[d + i]
              /\ d < Len(lru) => ~Expired(lru[d + 1])
<1> DEFINE young == {i \in DOMAIN lru : ~Expired(lru[i])}
<1>1. CASE young = {}
  <2>1. DropExpired(lru) = <<>>
    BY <1>1 DEF DropExpired
  <2>2. Len(lru) \in 0 .. Len(lru) /\ Len(lru) - Len(lru) = 0
    OBVIOUS
  <2> QED
    BY <2>1, <2>2
<1>2. CASE young # {}
  <2>1. young \subseteq Nat
    OBVIOUS
  <2>2. \E i \in young : \A j \in young : i <= j
    <3> HIDE DEF young
    <3> QED
      BY <1>2, <2>1, LeastNatural, Zenon
  <2>3. PICK i \in young : DropExpired(lru) = SubSeq(lru, i, Len(lru))
    BY <1>2, <2>2, Zenon DEF DropExpired
  <2>4. i \in 1 .. Len(lru) /\ ~Expired(lru[i])
    OBVIOUS
  <2>5. \A j \in i .. Len(lru) : lru[j] \in S
    BY <2>4
  <2>6. /\ SubSeq(lru, i, Len(lru)) \in Seq(S)
        /\ Len(SubSeq(lru, i, Len(lru))) = IF i <= Len(lru) THEN Len(lru) - i + 1 ELSE 0
        /\ \A j \in 1 .. Len(lru) - i + 1 : SubSeq(lru, i, Len(lru))[j] = lru[i + j - 1]
    BY <2>4, <2>5, PartOf
  <2>7. PICK d \in 0 .. Len(lru) : d = i - 1
    BY <2>4
  <2>8. /\ Len(DropExpired(lru)) = Len(lru) - d
        /\ \A j \in 1 .. Len(lru) - d : DropExpired(lru)[j] = lru[d + j]
        /\ ~Expired(lru[d + 1])
    BY <2>3, <2>4, <2>6, <2>7
  <2> QED
    BY <2>3, <2>6, <2>8, Zenon
<1> QED
  BY <1>1, <1>2, Zenon

\* Shrinking the cache drops a prefix of the LRU list.
LEMMA PopLruDrops ==
  ASSUME NEW S, NEW lru \in Seq(S), NEW n \in Nat
  PROVE  /\ PopLru(lru, n) \in Seq(S)
         /\ \A i \in 1 .. Len(PopLru(lru, n)) :
              n + i \in 1 .. Len(lru) /\ PopLru(lru, n)[i] = lru[n + i]
<1>1. \A i \in n + 1 .. Len(lru) : lru[i] \in S
  OBVIOUS
<1>2. /\ PopLru(lru, n) \in Seq(S)
      /\ Len(PopLru(lru, n)) = IF n + 1 <= Len(lru) THEN Len(lru) - (n + 1) + 1 ELSE 0
      /\ \A i \in 1 .. Len(lru) - (n + 1) + 1 : PopLru(lru, n)[i] = lru[n + 1 + i - 1]
  BY <1>1, PartOf DEF PopLru
<1> QED
  BY <1>2

-----------------------------------------------------------------------------
\* The revisions of the scripts a namespace stores are those of its entries.
LEMMA StoredRevs ==
  ASSUME NEW n \in Namespaces, NEW v
  PROVE  v \in Stored(n) <=>
           \E q \in QueryScripts : ScriptOf(n, q) # Absent /\ ScriptOf(n, q).rev = v
BY DEF Stored, ScriptOf

\* What the handler of a call keeps between its steps depends on where it is.
LEMMA TaskAt ==
  ASSUME NEW t \in Tasks
  PROVE  /\ t.at \in {"wipe", "drop"} =>
              t \in [at : {"wipe", "drop"}, ns : Namespaces, prefix : 0 .. MaxPrefix]
         /\ t.at = "store" =>
              t \in [at : {"store"}, ns : Namespaces, qs : QueryScripts,
                     depl : Deployments, text : Texts]
<1>1. CASE t = Idle
  BY <1>1 DEF Idle
<1>2. CASE t \in [at : {"wipe", "drop"}, ns : Namespaces, prefix : 0 .. MaxPrefix]
  BY <1>2, Zenon
<1>3. CASE t \in [at : {"store"}, ns : Namespaces, qs : QueryScripts,
                  depl : Deployments, text : Texts]
  BY <1>3, Zenon
<1> QED
  BY <1>1, <1>2, <1>3, Zenon DEF Tasks

\* The control service keeps the system store and its handlers well typed; in
\* particular a script that is stored was validated.
LEMMA AdminType ==
  ASSUME CtlTypeOK, ScriptInv, NEW a \in Admins, AdminNext(a)
  PROVE  CtlTypeOK'
<1> USE DEF CtlTypeOK, KvPrefixes, Deployments, Revs
<1>i. Idle \in Tasks
  BY DEF Tasks
<1>c. MaxPrefix \in Nat /\ MaxDepl \in Nat /\ MaxRev \in Nat
  BY ControlAssumption
<1>1. ASSUME NEW n \in Namespaces, CreateNamespace(a, n) PROVE CtlTypeOK'
  <2>1. prefixes + 1 \in KvPrefixes
    BY <1>1, <1>c DEF CreateNamespace
  <2>2. NewNamespace(prefixes + 1) \in NsRecords
    BY <2>1 DEF NewNamespace, NsRecords
  <2>3. sys' \in [Namespaces -> NsRecords \cup {Absent}] /\ prefixes' \in 0 .. MaxPrefix
    BY <1>1, <2>1, <2>2, <1>c DEF CreateNamespace
  <2> QED
    BY <1>1, <2>3 DEF CreateNamespace
<1>2. ASSUME NEW n \in Namespaces, DeleteLooksUp(a, n) PROVE CtlTypeOK'
  <2>1. sys[n] # Absent => sys[n].prefix \in 0 .. MaxPrefix
    BY <1>c DEF NsRecords
  <2>2. sys[n] # Absent => [at |-> "wipe", ns |-> n, prefix |-> sys[n].prefix] \in Tasks
    BY <2>1, Zenon DEF Tasks
  <2>3. [at |-> "drop", ns |-> n, prefix |-> 0] \in Tasks
    <3>1. 0 \in 0 .. MaxPrefix
      BY <1>c
    <3> QED
      BY <3>1, Zenon DEF Tasks
  <2>4. task' \in [Admins -> Tasks]
    BY <1>2, <2>2, <2>3 DEF DeleteLooksUp, Goto
  <2> QED
    BY <1>2, <2>4 DEF DeleteLooksUp
<1>3. CASE DeleteWipes(a)
  <2>1. task[a] \in [at : {"wipe", "drop"}, ns : Namespaces, prefix : 0 .. MaxPrefix]
    BY <1>3, TaskAt, Zenon DEF DeleteWipes
  <2>2. [task[a] EXCEPT !.at = "drop"] \in Tasks
    BY <2>1, Zenon DEF Tasks
  <2>3. data' \in [KvPrefixes -> SUBSET {"row"}] /\ task' \in [Admins -> Tasks]
    BY <1>3, <2>2, Zenon DEF DeleteWipes, Goto
  <2> QED
    BY <1>3, <2>3 DEF DeleteWipes
<1>4. CASE DeleteDrops(a)
  <2>1. task[a].ns \in Namespaces
    <3>1. task[a] \in [at : {"wipe", "drop"}, ns : Namespaces, prefix : 0 .. MaxPrefix]
      BY <1>4, TaskAt, Zenon DEF DeleteDrops
    <3> QED
      BY <3>1
  <2>2. Stored(task[a].ns) \subseteq 1 .. Len(scripts)
    BY <2>1, StoredRevs DEF ScriptInv, Accepted
  <2>3. sys' \in [Namespaces -> NsRecords \cup {Absent}] /\ task' \in [Admins -> Tasks]
    BY <1>4, <1>i, Zenon DEF DeleteDrops, Goto
  <2> QED
    BY <1>4, <2>2, <2>3, Zenon DEF DeleteDrops
<1>5. ASSUME NEW n \in Namespaces, NEW s \in Schemas, CreateDeployment(a, n, s)
      PROVE CtlTypeOK'
  <2>1. depls + 1 \in Deployments /\ depls' \in 0 .. MaxDepl
    BY <1>5, <1>c DEF CreateDeployment
  <2>2. [sys[n] EXCEPT !.deployments[depls + 1] = s] \in NsRecords
    BY <1>5, <2>1 DEF CreateDeployment, NsRecords
  <2>3. sys' \in [Namespaces -> NsRecords \cup {Absent}]
    BY <1>5, <2>2 DEF CreateDeployment
  <2> QED
    BY <1>5, <2>1, <2>3 DEF CreateDeployment
<1>6. ASSUME NEW n \in Namespaces, NEW d, DeleteDeployment(a, n, d) PROVE CtlTypeOK'
  <2>1. [sys[n] EXCEPT !.deployments[d] = Absent] \in NsRecords
    BY <1>6, Zenon DEF DeleteDeployment, Deployment, NsRecords
  <2>2. sys' \in [Namespaces -> NsRecords \cup {Absent}]
    BY <1>6, <2>1 DEF DeleteDeployment
  <2> QED
    BY <1>6, <2>2 DEF DeleteDeployment
<1>7. ASSUME NEW n \in Namespaces, NEW q \in QueryScripts, NEW d \in Deployments,
             NEW x \in Texts, ValidateScript(a, n, q, d, x)
      PROVE CtlTypeOK'
  <2>1. [at |-> "store", ns |-> n, qs |-> q, depl |-> d, text |-> x] \in Tasks
    BY <1>7 DEF ValidateScript, Tasks
  <2>2. task' \in [Admins -> Tasks]
    BY <1>7, <2>1 DEF ValidateScript, Goto
  <2> QED
    BY <1>7, <2>2 DEF ValidateScript
<1>8. CASE StoreScript(a)
  <2>1. task[a] \in [at : {"store"}, ns : Namespaces, qs : QueryScripts,
                     depl : Deployments, text : Texts]
    BY <1>8, TaskAt, Zenon DEF StoreScript
  <2>2. task' \in [Admins -> Tasks]
    BY <1>8, <1>i DEF StoreScript, Goto
  <2>3. CASE sys[task[a].ns] = Absent
    BY <1>8, <2>2, <2>3 DEF StoreScript
  <2>4. CASE sys[task[a].ns] # Absent
    <3>1. PICK n \in Namespaces, q \in QueryScripts : n = task[a].ns /\ q = task[a].qs
      BY <2>1
    <3>2. PICK ms \in Millis :
            /\ Len(scripts) + 1 <= MaxRev
            /\ scripts' = Append(scripts, [rev |-> Len(scripts) + 1, depl |-> task[a].depl,
                                           time |-> ms, text |-> task[a].text])
            /\ sys' = [sys EXCEPT ![n].query_scripts[q] = scripts'[Len(scripts) + 1]]
            /\ retired' = retired \cup
                 (IF sys[n].query_scripts[q] = Absent THEN {}
                  ELSE {sys[n].query_scripts[q].rev})
      BY <1>8, <2>4, <3>1, Zenon DEF StoreScript
    <3>3. PICK s \in Scripts : s = [rev |-> Len(scripts) + 1, depl |-> task[a].depl,
                                    time |-> ms, text |-> task[a].text]
      <4>1. Len(scripts) + 1 \in Revs
        BY <3>2, <1>c
      <4> QED
        BY <2>1, <4>1, Zenon DEF Scripts
    <3>4. /\ scripts' \in Seq(Scripts) /\ Len(scripts') = Len(scripts) + 1
          /\ scripts'[Len(scripts) + 1] = s
      BY <3>2, <3>3, Appended
    <3>5. [sys[n] EXCEPT !.query_scripts[q] = s] \in NsRecords
      BY <2>4, <3>1, Zenon DEF NsRecords
    <3>6. sys' \in [Namespaces -> NsRecords \cup {Absent}]
      BY <3>2, <3>4, <3>5, Zenon
    <3>7. retired' \subseteq 1 .. Len(scripts')
      <4>1. sys[n].query_scripts[q] # Absent => sys[n].query_scripts[q].rev \in 1 .. Len(scripts)
        BY <2>4, <3>1 DEF ScriptInv, ScriptOf, Accepted
      <4> QED
        BY <3>2, <3>4, <4>1
    <3> QED
      BY <1>8, <2>2, <3>2, <3>4, <3>6, <3>7, Zenon DEF StoreScript
  <2> QED
    BY <2>3, <2>4
<1>9. ASSUME NEW n \in Namespaces, NEW q \in QueryScripts, DeleteScript(a, n, q)
      PROVE CtlTypeOK'
  <2>1. [sys[n] EXCEPT !.query_scripts[q] = Absent] \in NsRecords
    BY <1>9, Zenon DEF DeleteScript, NsRecords
  <2>2. sys' \in [Namespaces -> NsRecords \cup {Absent}]
    BY <1>9, <2>1 DEF DeleteScript
  <2>3. sys[n].query_scripts[q].rev \in 1 .. Len(scripts)
    BY <1>9 DEF DeleteScript, ScriptInv, ScriptOf, Accepted
  <2> QED
    BY <1>9, <2>2, <2>3 DEF DeleteScript
<1>10. CASE AdminGivesUp(a)
  BY <1>10, <1>i DEF AdminGivesUp, Goto
<1> QED
  BY <1>1, <1>2, <1>3, <1>4, <1>5, <1>6, <1>7, <1>8, <1>9, <1>10 DEF AdminNext

\* A step that adds no script, and keeps none that it retires, leaves the store
\* as it should be.
LEMMA StoreKept ==
  ASSUME ScriptInv, scripts' = scripts,
         \A n \in Namespaces, q \in QueryScripts : ScriptOf(n, q)' # Absent =>
           ScriptOf(n, q)' = ScriptOf(n, q) /\ ScriptOf(n, q).rev \notin retired'
  PROVE  ScriptInv'
<1>1. ASSUME NEW n \in Namespaces, NEW q \in QueryScripts, ScriptOf(n, q)' # Absent
      PROVE  /\ ScriptOf(n, q)' \in Scripts
             /\ Accepted(ScriptOf(n, q))'
             /\ ScriptOf(n, q)'.rev \notin retired'
             /\ \A m \in Namespaces, p \in QueryScripts :
                  ScriptOf(m, p)' # Absent /\ ScriptOf(m, p)'.rev = ScriptOf(n, q)'.rev
                    => m = n /\ p = q
  <2>1. ScriptOf(n, q)' = ScriptOf(n, q) /\ ScriptOf(n, q)'.rev \notin retired'
    BY <1>1
  <2>2. ScriptOf(n, q) \in Scripts /\ Accepted(ScriptOf(n, q))
    BY <1>1, <2>1 DEF ScriptInv
  <2>3. Accepted(ScriptOf(n, q))'
    BY <2>1, <2>2 DEF Accepted
  <2>4. ASSUME NEW m \in Namespaces, NEW p \in QueryScripts,
               ScriptOf(m, p)' # Absent, ScriptOf(m, p)'.rev = ScriptOf(n, q)'.rev
        PROVE  m = n /\ p = q
    <3>1. ScriptOf(m, p)' = ScriptOf(m, p)
      BY <2>4
    <3> QED
      BY <1>1, <2>1, <2>4, <3>1 DEF ScriptInv
  <2> QED
    BY <2>1, <2>2, <2>3, <2>4
<1> QED
  BY <1>1 DEF ScriptInv

\* Every call of the control service leaves the stored scripts as they should be.
LEMMA AdminScripts ==
  ASSUME CtlTypeOK, ScriptInv, NEW a \in Admins, AdminNext(a)
  PROVE  ScriptInv'
<1>0. /\ sys \in [Namespaces -> NsRecords \cup {Absent}]
      /\ task \in [Admins -> Tasks]
      /\ scripts \in Seq(Scripts)
      /\ \A n \in Namespaces : sys[n] # Absent =>
           /\ sys[n] \in NsRecords
           /\ sys[n].query_scripts \in [QueryScripts -> Scripts \cup {Absent}]
  BY DEF CtlTypeOK, NsRecords
<1>k. \A n \in Namespaces, q \in QueryScripts :
        ScriptOf(n, q) # Absent => ScriptOf(n, q).rev \notin retired
  BY DEF ScriptInv
<1>1. ASSUME NEW n \in Namespaces, CreateNamespace(a, n) PROVE ScriptInv'
  <2>1. ASSUME NEW m \in Namespaces, NEW q \in QueryScripts, ScriptOf(m, q)' # Absent
        PROVE  ScriptOf(m, q)' = ScriptOf(m, q)
    <3>1. m # n
      BY <1>0, <1>1, <2>1 DEF CreateNamespace, ScriptOf, NewNamespace
    <3> QED
      BY <1>0, <1>1, <3>1 DEF CreateNamespace, ScriptOf
  <2> QED
    BY <1>1, <1>k, <2>1, StoreKept DEF CreateNamespace
<1>2. ASSUME UNCHANGED <<sys, scripts, retired>> PROVE ScriptInv'
  <2>1. \A n \in Namespaces, q \in QueryScripts : ScriptOf(n, q)' = ScriptOf(n, q)
    BY <1>2, Zenon DEF ScriptOf
  <2> QED
    BY <1>2, <1>k, <2>1, StoreKept, Zenon
<1>3. CASE DeleteDrops(a)
  <2>1. PICK d \in Namespaces : d = task[a].ns
    <3>1. task[a] \in [at : {"wipe", "drop"}, ns : Namespaces, prefix : 0 .. MaxPrefix]
      BY <1>0, <1>3, TaskAt, Zenon DEF DeleteDrops
    <3> QED
      BY <3>1
  <2>2. ASSUME NEW m \in Namespaces, NEW q \in QueryScripts, ScriptOf(m, q)' # Absent
        PROVE  ScriptOf(m, q)' = ScriptOf(m, q) /\ ScriptOf(m, q).rev \notin retired'
    <3>1. m # d /\ ScriptOf(m, q)' = ScriptOf(m, q)
      BY <1>0, <1>3, <2>1, <2>2 DEF DeleteDrops, ScriptOf
    <3>2. ScriptOf(m, q).rev \notin Stored(d)
      BY <2>2, <3>1, StoredRevs DEF ScriptInv
    <3> QED
      BY <1>3, <1>k, <2>1, <2>2, <3>1, <3>2 DEF DeleteDrops
  <2> QED
    BY <1>3, <2>2, StoreKept DEF DeleteDrops
<1>4. ASSUME NEW n \in Namespaces, sys[n] # Absent, NEW D,
             NEW e, sys' = [sys EXCEPT ![n].deployments[e] = D], UNCHANGED <<scripts, retired>>
      PROVE  ScriptInv'
  <2>1. ASSUME NEW m \in Namespaces, NEW q \in QueryScripts, ScriptOf(m, q)' # Absent
        PROVE  ScriptOf(m, q)' = ScriptOf(m, q)
    BY <1>0, <1>4, <2>1 DEF ScriptOf, NsRecords
  <2> QED
    BY <1>4, <1>k, <2>1, StoreKept
<1>5. ASSUME NEW n \in Namespaces, NEW s, CreateDeployment(a, n, s) PROVE ScriptInv'
  BY <1>4, <1>5, Zenon DEF CreateDeployment
<1>6. ASSUME NEW n \in Namespaces, NEW d, DeleteDeployment(a, n, d) PROVE ScriptInv'
  BY <1>4, <1>6, Zenon DEF DeleteDeployment, Deployment
<1>7. ASSUME NEW n \in Namespaces, NEW q \in QueryScripts, DeleteScript(a, n, q)
      PROVE ScriptInv'
  <2>1. /\ sys' = [sys EXCEPT ![n].query_scripts[q] = Absent]
        /\ retired' = retired \cup {ScriptOf(n, q).rev}
        /\ ScriptOf(n, q) # Absent /\ scripts' = scripts /\ sys[n] # Absent
    BY <1>7 DEF DeleteScript, ScriptOf
  <2>2. ASSUME NEW m \in Namespaces, NEW p \in QueryScripts, ScriptOf(m, p)' # Absent
        PROVE  ScriptOf(m, p)' = ScriptOf(m, p) /\ ScriptOf(m, p).rev \notin retired'
    <3>1. ~ (m = n /\ p = q) /\ ScriptOf(m, p)' = ScriptOf(m, p)
      BY <1>0, <2>1, <2>2 DEF ScriptOf, NsRecords
    <3>2. ScriptOf(m, p).rev # ScriptOf(n, q).rev
      BY <2>1, <2>2, <3>1 DEF ScriptInv
    <3> QED
      BY <1>k, <2>1, <2>2, <3>1, <3>2
  <2> QED
    BY <2>1, <2>2, StoreKept
<1>8. CASE StoreScript(a)
  <2>1. task[a] \in [at : {"store"}, ns : Namespaces, qs : QueryScripts,
                     depl : Deployments, text : Texts]
    BY <1>0, <1>8, TaskAt, Zenon DEF StoreScript
  <2>2. PICK n \in Namespaces, q \in QueryScripts : n = task[a].ns /\ q = task[a].qs
    BY <2>1, Zenon
  <2>3. CASE sys[n] = Absent
    BY <1>2, <1>8, <2>2, <2>3 DEF StoreScript
  <2>4. CASE sys[n] # Absent
    <3> DEFINE rev == Len(scripts) + 1
    <3>1. PICK ms \in Millis :
            /\ rev <= MaxRev
            /\ MillisDiffer => \A r \in DOMAIN scripts : scripts[r].time # ms
            /\ scripts' = Append(scripts, [rev |-> rev, depl |-> task[a].depl,
                                           time |-> ms, text |-> task[a].text])
            /\ sys' = [sys EXCEPT ![n].query_scripts[q] = scripts'[rev]]
            /\ retired' = retired \cup
                 (IF sys[n].query_scripts[q] = Absent THEN {}
                  ELSE {sys[n].query_scripts[q].rev})
      BY <1>8, <2>2, <2>4, Zenon DEF StoreScript
    <3>2. PICK s \in Scripts : s = [rev |-> rev, depl |-> task[a].depl,
                                    time |-> ms, text |-> task[a].text]
      <4>1. rev \in Revs
        BY <1>0, <3>1, LengthOf, ControlAssumption DEF Revs
      <4> QED
        BY <2>1, <4>1, Zenon DEF Scripts
    <3>3. /\ Len(scripts') = rev /\ scripts'[rev] = s /\ rev \in Nat \ {0}
          /\ \A v \in 1 .. Len(scripts) : scripts'[v] = scripts[v] /\ v # rev
          /\ s.rev = rev /\ s.time = ms
      BY <1>0, <3>1, <3>2, Appended, LengthOf
    <3>4. \A v \in 1 .. Len(scripts') : v = rev \/ v \in 1 .. Len(scripts)
      <4>1. PICK l \in Nat : l = Len(scripts) /\ Len(scripts') = l + 1 /\ rev = l + 1
        BY <1>0, <3>1, <3>3, LengthOf
      <4>2. \A v \in 1 .. l + 1 : v = l + 1 \/ v \in 1 .. l
        OBVIOUS
      <4> QED
        BY <4>1, <4>2, Zenon
    <3> HIDE DEF rev
    <3>5. \A v \in 1 .. Len(scripts') : scripts'[v].rev = v
      BY <3>3, <3>4 DEF ScriptInv
    <3>6. ASSUME MillisDiffer, NEW u \in 1 .. Len(scripts'), NEW v \in 1 .. Len(scripts'),
                 scripts'[u].time = scripts'[v].time
          PROVE  u = v
      <4>1. \A w \in 1 .. Len(scripts) : scripts[w].time # ms
        BY <1>0, <3>1, <3>6, LengthOf
      <4> QED
        BY <3>3, <3>4, <3>6, <4>1 DEF ScriptInv
    <3>7. ScriptOf(n, q)' = s \/ ScriptOf(n, q)' = Absent
      BY <1>0, <3>1, <3>3, <2>4 DEF ScriptOf, NsRecords
    <3>8. ASSUME NEW m \in Namespaces, NEW p \in QueryScripts, ScriptOf(m, p)' # Absent,
                 ~ (m = n /\ p = q)
          PROVE  /\ ScriptOf(m, p)' = ScriptOf(m, p)
                 /\ ScriptOf(m, p) \in Scripts
                 /\ ScriptOf(m, p).rev \in 1 .. Len(scripts)
                 /\ ScriptOf(m, p) = scripts[ScriptOf(m, p).rev]
                 /\ ScriptOf(m, p).rev \notin retired'
      <4>1. ScriptOf(m, p)' = ScriptOf(m, p)
        BY <1>0, <2>4, <3>1, <3>8, Zenon DEF ScriptOf, NsRecords
      <4>2. /\ ScriptOf(m, p) \in Scripts /\ Accepted(ScriptOf(m, p))
            /\ ScriptOf(m, p).rev \notin retired
            /\ ScriptOf(n, q) # Absent => ScriptOf(m, p).rev # ScriptOf(n, q).rev
        BY <3>8, <4>1 DEF ScriptInv
      <4>3. ScriptOf(n, q) = sys[n].query_scripts[q]
        BY <2>4 DEF ScriptOf
      <4> QED
        BY <3>1, <4>1, <4>2, <4>3 DEF Accepted
    <3>9. rev \notin retired'
      <4>1. retired \subseteq 1 .. Len(scripts)
        BY DEF CtlTypeOK
      <4>2. sys[n].query_scripts[q] # Absent => sys[n].query_scripts[q].rev \in 1 .. Len(scripts)
        BY <2>4 DEF ScriptInv, ScriptOf, Accepted
      <4> QED
        BY <3>1, <3>3, <4>1, <4>2
    <3>10. ASSUME NEW m \in Namespaces, NEW p \in QueryScripts, ScriptOf(m, p)' # Absent
           PROVE  /\ ScriptOf(m, p)' \in Scripts
                  /\ ScriptOf(m, p)'.rev \in 1 .. Len(scripts')
                  /\ ScriptOf(m, p)' = scripts'[ScriptOf(m, p)'.rev]
                  /\ ScriptOf(m, p)'.rev \notin retired'
      <4>1. CASE m = n /\ p = q
        <5>1. rev \in 1 .. Len(scripts')
          BY <3>3
        <5> QED
          BY <3>3, <3>7, <3>9, <3>10, <4>1, <5>1
      <4>2. CASE ~ (m = n /\ p = q)
        <5>1. \A v \in 1 .. Len(scripts) : v \in 1 .. Len(scripts')
          BY <1>0, <3>3, LengthOf DEF rev
        <5> QED
          BY <3>3, <3>8, <3>10, <4>2, <5>1
      <4> QED
        BY <4>1, <4>2
    <3>11. ASSUME NEW m1 \in Namespaces, NEW p1 \in QueryScripts, ScriptOf(m1, p1)' # Absent,
                  NEW m2 \in Namespaces, NEW p2 \in QueryScripts, ScriptOf(m2, p2)' # Absent,
                  ScriptOf(m1, p1)'.rev = ScriptOf(m2, p2)'.rev
           PROVE  m1 = m2 /\ p1 = p2
      <4>1. CASE m1 = n /\ p1 = q
        BY <3>3, <3>7, <3>8, <3>11, <4>1
      <4>2. CASE m2 = n /\ p2 = q
        BY <3>3, <3>7, <3>8, <3>11, <4>2
      <4>3. CASE ~ (m1 = n /\ p1 = q) /\ ~ (m2 = n /\ p2 = q)
        <5>1. ScriptOf(m1, p1)' = ScriptOf(m1, p1) /\ ScriptOf(m2, p2)' = ScriptOf(m2, p2)
          BY <3>8, <3>11, <4>3
        <5> QED
          BY <3>11, <5>1 DEF ScriptInv
      <4> QED
        BY <4>1, <4>2, <4>3
    <3> QED
      BY <3>5, <3>6, <3>10, <3>11 DEF ScriptInv, Accepted
  <2> QED
    BY <2>3, <2>4
<1>9. ASSUME NEW n \in Namespaces, NEW q, NEW d, NEW b,
             DeleteLooksUp(a, n) \/ ValidateScript(a, n, q, d, b)
      PROVE ScriptInv'
  BY <1>2, <1>9 DEF DeleteLooksUp, ValidateScript
<1>10. CASE DeleteWipes(a) \/ AdminGivesUp(a)
  BY <1>2, <1>10 DEF DeleteWipes, AdminGivesUp
<1> QED
  BY <1>1, <1>3, <1>5, <1>6, <1>7, <1>8, <1>9, <1>10 DEF AdminNext

\* A step that makes no deployment leaves a validated script validated.
LEMMA StaysValidated ==
  ASSUME NEW x, x.depl \in Deployments, Validated(x), depls' = depls,
         \A n \in Namespaces, d \in Deployments :
           Deployment(n, d)' # Absent => Deployment(n, d)' = Deployment(n, d)
  PROVE  Validated(x)'
<1>1. ASSUME NEW n \in Namespaces, Deployment(n, x.depl)' # Absent
      PROVE  <<x.text, Deployment(n, x.depl)'>> \in Loads
  <2>1. Deployment(n, x.depl)' = Deployment(n, x.depl)
    BY <1>1, Zenon
  <2> QED
    BY <1>1, <2>1, Zenon DEF Validated
<1> QED
  BY <1>1, Zenon DEF Validated

\* The control service stores only scripts that load against the deployment they
\* name, however its calls and those of others interleave.
LEMMA AdminDeployments ==
  ASSUME CtlTypeOK, DeplInv, NEW a \in Admins, AdminNext(a)
  PROVE  DeplInv'
<1>0. /\ sys \in [Namespaces -> NsRecords \cup {Absent}] /\ task \in [Admins -> Tasks]
      /\ depls \in Nat /\ scripts \in Seq(Scripts) /\ MaxDepl \in Nat
  BY ControlAssumption DEF CtlTypeOK
<1>s. \A v \in 1 .. Len(scripts) : scripts[v].depl \in Deployments
  <2>1. \A s \in Scripts : s.depl \in Deployments
    BY DEF Scripts
  <2>2. \A v \in 1 .. Len(scripts) : scripts[v] \in Scripts
    BY <1>0, LengthOf
  <2> QED
    BY <2>1, <2>2, Zenon
<1>t. \A b \in Admins : task[b].at = "store" => task[b].depl \in Deployments
  <2>1. ASSUME NEW b \in Admins, task[b].at = "store"
        PROVE  task[b] \in [at : {"store"}, ns : Namespaces, qs : QueryScripts,
                            depl : Deployments, text : Texts]
    BY <1>0, <2>1, TaskAt, Zenon
  <2> QED
    BY <2>1
<1>f. \A n \in Namespaces : sys[n] # Absent =>
        /\ DOMAIN sys[n] = {"prefix", "deployments", "query_scripts"}
        /\ sys[n].deployments \in [Deployments -> Schemas \cup {Absent}]
  BY <1>0 DEF NsRecords
<1>1. ASSUME depls' = depls,
             \A n \in Namespaces, d \in Deployments :
               Deployment(n, d)' # Absent => Deployment(n, d)' = Deployment(n, d),
             \A b \in Admins : task'[b].at = "store" => Validated(task[b])',
             \A v \in 1 .. Len(scripts') : Validated(scripts[v])'
      PROVE  DeplInv'
  <2>1. ASSUME NEW n \in Namespaces, NEW d \in Deployments, Deployment(n, d)' # Absent
        PROVE  /\ d <= depls'
               /\ \A m \in Namespaces : Deployment(m, d)' # Absent => m = n
    <3>1. \A m \in Namespaces : Deployment(m, d)' # Absent => Deployment(m, d) # Absent
      BY <1>1, Zenon
    <3> QED
      BY <1>1, <2>1, <3>1, Zenon DEF DeplInv
  <2> QED
    BY <1>1, <2>1, Zenon DEF DeplInv
<1>2. ASSUME depls' = depls, scripts' = scripts,
             \A n \in Namespaces, d \in Deployments :
               Deployment(n, d)' # Absent => Deployment(n, d)' = Deployment(n, d),
             \A b \in Admins : task'[b] = task[b] \/ task'[b].at # "store"
      PROVE  DeplInv'
  <2>1. ASSUME NEW b \in Admins, task'[b].at = "store" PROVE Validated(task[b])'
    <3>1. PICK x : x = task[b] /\ task'[b] = x
      BY <1>2, <2>1, Zenon
    <3>2. Validated(x)'
      BY <1>2, <1>t, <2>1, <3>1, StaysValidated, Zenon DEF DeplInv
    <3> QED
      BY <3>1, <3>2, Zenon DEF Validated
  <2>2. ASSUME NEW v \in 1 .. Len(scripts') PROVE Validated(scripts[v])'
    <3>1. PICK x : x = scripts[v] /\ scripts'[v] = x /\ v \in 1 .. Len(scripts)
      BY <1>2, Zenon
    <3>2. Validated(x)'
      BY <1>2, <1>s, <3>1, StaysValidated, Zenon DEF DeplInv
    <3> QED
      BY <3>1, <3>2, Zenon DEF Validated
  <2> QED
    BY <1>1, <1>2, <2>1, <2>2, Zenon
<1>g. ASSUME NEW n \in Namespaces, sys[n] # Absent, NEW q, NEW s,
             sys' = [sys EXCEPT ![n].query_scripts[q] = s],
             NEW m \in Namespaces, NEW d \in Deployments, Deployment(m, d)' # Absent
      PROVE  Deployment(m, d)' = Deployment(m, d)
  <2>1. PICK y : sys' = [sys EXCEPT ![n] = y] /\ y.deployments = sys[n].deployments
    <3>1. PICK Q : sys' = [sys EXCEPT ![n] = [sys[n] EXCEPT !.query_scripts = Q]]
      BY <1>g, Zenon
    <3>2. [sys[n] EXCEPT !.query_scripts = Q].deployments = sys[n].deployments
      BY <1>f, <1>g
    <3> QED
      BY <3>1, <3>2, Zenon
  <2>2. sys'[n] = y /\ \A o \in Namespaces \ {n} : sys'[o] = sys[o]
    BY <1>0, <2>1
  <2>3. sys'[m] # Absent
    BY <1>g, Zenon DEF Deployment
  <2>4. CASE m = n
    BY <1>g, <2>1, <2>2, <2>3, <2>4, Zenon DEF Deployment
  <2>5. CASE m # n
    <3>1. sys'[m] = sys[m]
      BY <2>2, <2>5
    <3> QED
      BY <3>1, Zenon DEF Deployment
  <2> QED
    BY <2>4, <2>5, Zenon
<1>3. ASSUME NEW n \in Namespaces, CreateNamespace(a, n) PROVE DeplInv'
  <2>1. ASSUME NEW m \in Namespaces, NEW d \in Deployments, Deployment(m, d)' # Absent
        PROVE  Deployment(m, d)' = Deployment(m, d)
    BY <1>0, <1>3, <2>1 DEF CreateNamespace, NewNamespace, Deployment
  <2> QED
    BY <1>2, <1>3, <2>1 DEF CreateNamespace
<1>4. ASSUME NEW n \in Namespaces, DeleteLooksUp(a, n) PROVE DeplInv'
  <2>1. \A b \in Admins : task'[b] = task[b] \/ task'[b].at # "store"
    BY <1>0, <1>4 DEF DeleteLooksUp, Goto
  <2> QED
    BY <1>2, <1>4, <2>1, Zenon DEF DeleteLooksUp, Deployment
<1>5. CASE DeleteWipes(a) \/ AdminGivesUp(a)
  <2>1. \A b \in Admins : task'[b] = task[b] \/ task'[b].at # "store"
    <3>1. CASE DeleteWipes(a)
      <4>1. task[a] \in [at : {"wipe", "drop"}, ns : Namespaces, prefix : 0 .. MaxPrefix]
        BY <1>0, <3>1, TaskAt, Zenon DEF DeleteWipes
      <4>a. [task[a] EXCEPT !.at = "drop"].at = "drop"
        BY <4>1
      <4>2. PICK y : y = [task[a] EXCEPT !.at = "drop"] /\ y.at = "drop"
        BY <4>a, Zenon
      <4>3. task' = [task EXCEPT ![a] = y]
        BY <3>1, <4>2, Zenon DEF DeleteWipes, Goto
      <4> QED
        BY <1>0, <4>2, <4>3
    <3>2. CASE AdminGivesUp(a)
      BY <1>0, <3>2 DEF AdminGivesUp, Goto, Idle
    <3> QED
      BY <1>5, <3>1, <3>2
  <2> QED
    BY <1>2, <1>5, <2>1, Zenon DEF DeleteWipes, AdminGivesUp, Deployment
<1>6. CASE DeleteDrops(a)
  <2>1. \A b \in Admins : task'[b] = task[b] \/ task'[b].at # "store"
    BY <1>0, <1>6 DEF DeleteDrops, Goto, Idle
  <2>2. ASSUME NEW m \in Namespaces, NEW d \in Deployments, Deployment(m, d)' # Absent
        PROVE  Deployment(m, d)' = Deployment(m, d)
    BY <1>0, <1>6, <2>2 DEF DeleteDrops, Deployment
  <2> QED
    BY <1>2, <1>6, <2>1, <2>2 DEF DeleteDrops
<1>7. ASSUME NEW n \in Namespaces, NEW d, DeleteDeployment(a, n, d) PROVE DeplInv'
  <2>1. ASSUME NEW m \in Namespaces, NEW e \in Deployments, Deployment(m, e)' # Absent
        PROVE  Deployment(m, e)' = Deployment(m, e)
    <3>1. sys' = [sys EXCEPT ![n] = [sys[n] EXCEPT !.deployments =
                                      [sys[n].deployments EXCEPT ![d] = Absent]]]
      BY <1>7, Zenon DEF DeleteDeployment
    <3>2. CASE m = n
      <4>1. sys[n] # Absent
        BY <1>7, Zenon DEF DeleteDeployment, Deployment
      <4>2. sys'[n].deployments = [sys[n].deployments EXCEPT ![d] = Absent]
        BY <1>0, <1>f, <3>1, <4>1
      <4>3. sys'[n] # Absent
        BY <2>1, <3>2, Zenon DEF Deployment
      <4>4. sys'[n].deployments[e] # Absent
        BY <2>1, <3>2, <4>3, Zenon DEF Deployment
      <4>5. sys'[n].deployments[e] = sys[n].deployments[e]
        BY <1>f, <4>1, <4>2, <4>4
      <4> QED
        BY <3>2, <4>1, <4>3, <4>5, Zenon DEF Deployment
    <3>3. CASE m # n
      BY <1>0, <3>1, <3>3 DEF Deployment
    <3> QED
      BY <3>2, <3>3
  <2> QED
    BY <1>2, <1>7, <2>1 DEF DeleteDeployment
<1>8. ASSUME NEW n \in Namespaces, NEW q, DeleteScript(a, n, q) PROVE DeplInv'
  <2>1. ASSUME NEW m \in Namespaces, NEW e \in Deployments, Deployment(m, e)' # Absent
        PROVE  Deployment(m, e)' = Deployment(m, e)
    BY <1>8, <1>g, <2>1, Zenon DEF DeleteScript
  <2> QED
    BY <1>2, <1>8, <2>1 DEF DeleteScript
<1>9. ASSUME NEW n \in Namespaces, NEW q \in QueryScripts, NEW d \in Deployments,
             NEW x \in Texts, ValidateScript(a, n, q, d, x)
      PROVE  DeplInv'
  <2>1. PICK y : /\ y = [at |-> "store", ns |-> n, qs |-> q, depl |-> d, text |-> x]
                 /\ task' = [task EXCEPT ![a] = y]
    BY <1>9, Zenon DEF ValidateScript, Goto
  <2>2. /\ Deployment(n, d) # Absent /\ <<x, Deployment(n, d)>> \in Loads
        /\ UNCHANGED <<sys, depls, scripts>>
    BY <1>9 DEF ValidateScript
  <2>3. Validated(y)
    <3>1. y.depl = d /\ y.text = x
      BY <2>1
    <3>2. d <= depls /\ \A m \in Namespaces : Deployment(m, d) # Absent => m = n
      BY <2>2, Zenon DEF DeplInv
    <3> QED
      BY <2>2, <3>1, <3>2, Zenon DEF Validated
  <2>4. ASSUME NEW b \in Admins, task'[b].at = "store" PROVE Validated(task'[b])
    <3>1. CASE b = a
      BY <1>0, <2>1, <2>3, <3>1
    <3>2. CASE b # a
      <4>1. task'[b] = task[b]
        BY <1>0, <2>1, <3>2
      <4> QED
        BY <2>4, <4>1, Zenon DEF DeplInv
    <3> QED
      BY <3>1, <3>2, Zenon
  <2> QED
    BY <2>2, <2>4, Zenon DEF DeplInv, Validated, Deployment
<1>10. CASE StoreScript(a)
  <2>1. task[a] \in [at : {"store"}, ns : Namespaces, qs : QueryScripts,
                     depl : Deployments, text : Texts]
    BY <1>0, <1>10, TaskAt, Zenon DEF StoreScript
  <2>2. PICK n \in Namespaces, q \in QueryScripts : n = task[a].ns /\ q = task[a].qs
    BY <2>1, Zenon
  <2>3. \A b \in Admins : task'[b] = task[b] \/ task'[b].at # "store"
    BY <1>0, <1>10 DEF StoreScript, Goto, Idle
  <2>4. CASE sys[n] = Absent
    BY <1>2, <1>10, <2>2, <2>3, <2>4, Zenon DEF StoreScript, Deployment
  <2>5. CASE sys[n] # Absent
    <3>1. PICK ms \in Millis :
            /\ Len(scripts) + 1 <= MaxRev
            /\ scripts' = Append(scripts, [rev |-> Len(scripts) + 1, depl |-> task[a].depl,
                                           time |-> ms, text |-> task[a].text])
            /\ sys' = [sys EXCEPT ![n].query_scripts[q] = scripts'[Len(scripts) + 1]]
            /\ depls' = depls
      BY <1>10, <2>2, <2>5, Zenon DEF StoreScript
    <3>2. PICK s \in Scripts : /\ s = [rev |-> Len(scripts) + 1, depl |-> task[a].depl,
                                        time |-> ms, text |-> task[a].text]
                               /\ s.depl = task[a].depl /\ s.text = task[a].text
      <4>1. Len(scripts) + 1 \in Revs
        BY <1>0, <3>1, LengthOf, ControlAssumption DEF Revs
      <4>2. [rev |-> Len(scripts) + 1, depl |-> task[a].depl,
             time |-> ms, text |-> task[a].text] \in Scripts
        BY <2>1, <4>1, Zenon DEF Scripts
      <4> QED
        BY <4>2
    <3>3. ASSUME NEW m \in Namespaces, NEW e \in Deployments, Deployment(m, e)' # Absent
          PROVE  Deployment(m, e)' = Deployment(m, e)
      BY <1>g, <2>5, <3>1, <3>3, Zenon
    <3>4. ASSUME NEW b \in Admins, task'[b].at = "store" PROVE Validated(task[b])'
      <4>1. PICK x : x = task[b] /\ task'[b] = x
        BY <2>3, <3>4, Zenon
      <4>2. Validated(x)'
        BY <1>t, <3>1, <3>3, <3>4, <4>1, StaysValidated, Zenon DEF DeplInv
      <4> QED
        BY <4>1, <4>2, Zenon DEF Validated
    <3>5. Validated(s)'
      <4>1. Validated(task[a])
        BY <1>10, Zenon DEF StoreScript, DeplInv
      <4>2. Validated(s) /\ s.depl \in Deployments
        BY <2>1, <3>2, <4>1 DEF Validated
      <4> QED
        BY <3>1, <3>3, <4>2, StaysValidated, Zenon
    <3>6. ASSUME NEW v \in 1 .. Len(scripts') PROVE Validated(scripts[v])'
      <4>1. \/ scripts'[v] = s
            \/ v \in 1 .. Len(scripts) /\ scripts'[v] = scripts[v]
        BY <1>0, <3>1, <3>2, Appended, LengthOf
      <4>2. CASE v \in 1 .. Len(scripts) /\ scripts'[v] = scripts[v]
        <5>1. PICK x : x = scripts[v] /\ scripts'[v] = x
          BY <4>2, Zenon
        <5>2. Validated(x)'
          BY <1>s, <3>1, <3>3, <4>2, <5>1, StaysValidated, Zenon DEF DeplInv
        <5> QED
          BY <5>1, <5>2, Zenon DEF Validated
      <4> QED
        BY <3>5, <4>1, <4>2, Zenon DEF Validated
    <3> QED
      BY <1>1, <3>1, <3>3, <3>4, <3>6, Zenon
  <2> QED
    BY <2>4, <2>5
<1>11. ASSUME NEW n \in Namespaces, NEW s \in Schemas, CreateDeployment(a, n, s)
       PROVE  DeplInv'
  <2>1. PICK k \in Deployments : /\ k = depls + 1 /\ depls' = k
                                 /\ sys' = [sys EXCEPT ![n].deployments[k] = s]
                                 /\ sys[n] # Absent /\ UNCHANGED <<scripts, task>>
    <3>1. depls + 1 \in Deployments
      BY <1>0, <1>11 DEF CreateDeployment, Deployments
    <3> QED
      BY <1>11, <3>1, Zenon DEF CreateDeployment
  <2>a. PICK y : /\ sys' = [sys EXCEPT ![n] = y]
                 /\ y.deployments = [sys[n].deployments EXCEPT ![k] = s]
    <3> DEFINE D == [sys[n].deployments EXCEPT ![k] = s]
    <3>1. sys' = [sys EXCEPT ![n] = [sys[n] EXCEPT !.deployments = D]]
      BY <2>1, Zenon
    <3>2. [sys[n] EXCEPT !.deployments = D].deployments = D
      BY <1>f, <2>1
    <3> QED
      BY <3>1, <3>2, Zenon
  <2>b. sys'[n] = y /\ \A o \in Namespaces \ {n} : sys'[o] = sys[o]
    BY <1>0, <2>a
  <2>2. ASSUME NEW m \in Namespaces, NEW d \in Deployments, d # k, Deployment(m, d)' # Absent
        PROVE  Deployment(m, d)' = Deployment(m, d)
    <3>1. sys'[m] # Absent
      BY <2>2, Zenon DEF Deployment
    <3>2. CASE m = n
      <4>1. y.deployments[d] = sys[n].deployments[d]
        BY <1>f, <2>1, <2>2, <2>a
      <4> QED
        BY <2>1, <2>b, <3>1, <3>2, <4>1, Zenon DEF Deployment
    <3>3. CASE m # n
      <4>1. sys'[m] = sys[m]
        BY <2>b, <3>3
      <4> QED
        BY <4>1, Zenon DEF Deployment
    <3> QED
      BY <3>2, <3>3, Zenon
  <2>3. ASSUME NEW m \in Namespaces, m # n PROVE Deployment(m, k)' = Deployment(m, k)
    <3>1. sys'[m] = sys[m] /\ k = k
      BY <2>b, <2>3
    <3> QED
      BY <3>1, Zenon DEF Deployment
  <2>4. \A d \in Deployments : d <= depls => d # k /\ d <= depls'
    BY <1>0, <2>1 DEF Deployments
  <2>5. \A m \in Namespaces : Deployment(m, k) = Absent
    <3>1. ~(k <= depls)
      BY <1>0, <2>1
    <3> QED
      BY <3>1, Zenon DEF DeplInv
  <2>6. ASSUME NEW x, x.depl \in Deployments, Validated(x) PROVE Validated(x)'
    <3>1. PICK d \in Deployments : d = x.depl /\ d # k /\ d <= depls'
      BY <2>4, <2>6, Zenon DEF Validated
    <3>2. \A m \in Namespaces : Deployment(m, d)' # Absent => Deployment(m, d)' = Deployment(m, d)
      BY <2>2, <3>1, Zenon
    <3> QED
      BY <2>6, <3>1, <3>2, Zenon DEF Validated
  <2>7. ASSUME NEW m \in Namespaces, NEW d \in Deployments, Deployment(m, d)' # Absent
        PROVE  /\ d <= depls'
               /\ \A o \in Namespaces : Deployment(o, d)' # Absent => o = m
    <3>1. CASE d = k
      <4>1. k <= k
        BY <1>0, <2>1
      <4>2. ASSUME NEW o \in Namespaces, o # n PROVE Deployment(o, k)' = Absent
        BY <2>3, <2>5, <4>2, Zenon
      <4>3. ASSUME NEW o \in Namespaces, Deployment(o, d)' # Absent PROVE o = n
        BY <3>1, <4>2, <4>3, Zenon DEF Deployment
      <4> QED
        BY <2>1, <2>7, <3>1, <4>1, <4>3, Zenon
    <3>2. CASE d # k
      <4>1. \A o \in Namespaces : Deployment(o, d)' # Absent => Deployment(o, d) # Absent
        BY <2>2, <3>2, Zenon
      <4> QED
        BY <2>4, <2>7, <4>1, Zenon DEF DeplInv
    <3> QED
      BY <3>1, <3>2, Zenon
  <2>8. \A b \in Admins : task'[b].at = "store" => Validated(task[b])'
    <3>1. ASSUME NEW b \in Admins, task[b].at = "store" PROVE Validated(task[b])'
      <4>1. PICK x : x = task[b] /\ task'[b] = x
        BY <2>1, Zenon
      <4>2. Validated(x)'
        BY <1>t, <2>6, <3>1, <4>1, Zenon DEF DeplInv
      <4> QED
        BY <4>1, <4>2, Zenon DEF Validated
    <3> QED
      BY <2>1, <3>1, Zenon
  <2>9. ASSUME NEW v \in 1 .. Len(scripts') PROVE Validated(scripts[v])'
    <3>1. PICK x : x = scripts[v] /\ scripts'[v] = x /\ v \in 1 .. Len(scripts)
      BY <2>1, Zenon
    <3>2. Validated(x)'
      BY <1>s, <2>6, <3>1, Zenon DEF DeplInv
    <3> QED
      BY <3>1, <3>2, Zenon DEF Validated
  <2> QED
    BY <2>7, <2>8, <2>9, Zenon DEF DeplInv
<1> QED
  BY <1>3, <1>4, <1>5, <1>6, <1>7, <1>8, <1>9, <1>10, <1>11 DEF AdminNext

\* Scripts are only added.
LEMMA ScriptsGrow ==
  ASSUME CtlTypeOK, NEW a \in Admins, AdminNext(a)
  PROVE  /\ Len(scripts) \in Nat /\ Len(scripts') \in Nat /\ Len(scripts') >= Len(scripts)
         /\ \A v \in 1 .. Len(scripts) : v \in 1 .. Len(scripts') /\ scripts'[v] = scripts[v]
<1>0. scripts \in Seq(Scripts) /\ task \in [Admins -> Tasks] /\ Len(scripts) \in Nat
      /\ Len(scripts) <= MaxRev
  BY LengthOf DEF CtlTypeOK
<1>1. \/ scripts' = scripts
      \/ \E s \in Scripts : scripts' = Append(scripts, s)
  <2>1. CASE StoreScript(a)
    <3>1. task[a] \in [at : {"store"}, ns : Namespaces, qs : QueryScripts,
                       depl : Deployments, text : Texts]
      BY <1>0, <2>1, TaskAt, Zenon DEF StoreScript
    <3>2. ASSUME NEW ms \in Millis, Len(scripts) + 1 <= MaxRev
          PROVE  [rev |-> Len(scripts) + 1, depl |-> task[a].depl, time |-> ms,
                  text |-> task[a].text] \in Scripts
      <4>1. Len(scripts) + 1 \in Revs
        BY <1>0, <3>2, ControlAssumption DEF Revs
      <4> QED
        BY <3>1, <4>1, Zenon DEF Scripts
    <3> QED
      BY <2>1, <3>2, Zenon DEF StoreScript
  <2>2. CASE UNCHANGED scripts
    BY <2>2
  <2>3. StoreScript(a) \/ UNCHANGED scripts
    BY Zenon DEF AdminNext, CreateNamespace, DeleteLooksUp, DeleteWipes, DeleteDrops,
           CreateDeployment, DeleteDeployment, ValidateScript, DeleteScript, AdminGivesUp
  <2> QED
    BY <2>1, <2>2, <2>3
<1>2. /\ Len(scripts') \in Nat /\ Len(scripts') >= Len(scripts)
      /\ \A v \in 1 .. Len(scripts) : v \in 1 .. Len(scripts') /\ scripts'[v] = scripts[v]
  <2>1. CASE scripts' = scripts
    BY <1>0, <2>1
  <2>2. ASSUME NEW s \in Scripts, scripts' = Append(scripts, s)
        PROVE  <1>2!1
    BY <1>0, <2>2, Appended
  <2> QED
    BY <1>1, <2>1, <2>2
<1> QED
  BY <1>0, <1>2

\* Prefixes are only added.
LEMMA PrefixesGrow ==
  ASSUME CtlTypeOK, NEW a \in Admins, AdminNext(a)
  PROVE  prefixes \in Nat /\ prefixes' \in Nat /\ prefixes <= prefixes'
<1>1. prefixes \in Nat
  BY ControlAssumption DEF CtlTypeOK
<1>2. prefixes' = prefixes \/ prefixes' = prefixes + 1
  BY Zenon DEF AdminNext, CreateNamespace, DeleteLooksUp, DeleteWipes, DeleteDrops, CreateDeployment,
         DeleteDeployment, ValidateScript, StoreScript, DeleteScript, AdminGivesUp
<1> QED
  BY <1>1, <1>2

\* Every namespace gets a prefix of its own.
LEMMA AdminPrefix ==
  ASSUME CtlTypeOK, PrefixInv, NEW a \in Admins, AdminNext(a)
  PROVE  PrefixInv'
<1>0. /\ sys \in [Namespaces -> NsRecords \cup {Absent}]
      /\ data \in [KvPrefixes -> SUBSET {"row"}]
      /\ prefixes \in Nat
  BY ControlAssumption DEF CtlTypeOK
<1>1. ASSUME NEW n \in Namespaces, CreateNamespace(a, n) PROVE PrefixInv'
  <2>1. /\ sys' = [sys EXCEPT ![n] = NewNamespace(prefixes + 1)]
        /\ prefixes' = prefixes + 1 /\ data' = data
        /\ NewNamespace(prefixes + 1).prefix = prefixes + 1
    BY <1>1 DEF CreateNamespace, NewNamespace
  <2>2. \A m \in Namespaces : sys[m] # Absent => sys[m].prefix \in 1 .. prefixes
    BY DEF PrefixInv
  <2>3. ASSUME NEW m \in Namespaces, sys'[m] # Absent
        PROVE  /\ sys'[m].prefix \in 1 .. prefixes'
               /\ \A p \in Namespaces \ {m} : sys'[p] # Absent => sys'[p].prefix # sys'[m].prefix
    <3>1. CASE m = n
      BY <1>0, <2>1, <2>2, <2>3, <3>1
    <3>2. CASE m # n
      BY <1>0, <2>1, <2>2, <2>3, <3>2 DEF PrefixInv
    <3> QED
      BY <3>1, <3>2
  <2>4. \A p \in KvPrefixes : p > prefixes' => data'[p] = {}
    BY <1>0, <2>1 DEF PrefixInv, KvPrefixes
  <2> QED
    BY <2>3, <2>4 DEF PrefixInv
<1>2. ASSUME UNCHANGED prefixes,
             \A n \in Namespaces : sys'[n] # Absent =>
               sys[n] # Absent /\ sys'[n].prefix = sys[n].prefix,
             \A p \in KvPrefixes : data'[p] = data[p] \/ data'[p] = {}
      PROVE  PrefixInv'
  BY <1>0, <1>2 DEF PrefixInv
<1>3. CASE DeleteWipes(a)
  <2>1. \A p \in KvPrefixes : data'[p] = data[p] \/ data'[p] = {}
    BY <1>0, <1>3 DEF DeleteWipes
  <2> QED
    BY <1>2, <1>3, <2>1 DEF DeleteWipes
<1>4. CASE DeleteDrops(a)
  <2>1. \A n \in Namespaces : sys'[n] # Absent => sys'[n] = sys[n]
    BY <1>0, <1>4 DEF DeleteDrops
  <2> QED
    BY <1>2, <1>4, <2>1 DEF DeleteDrops
<1>5. ASSUME NEW n \in Namespaces, NEW q, NEW d,
             NEW s,
             CreateDeployment(a, n, s) \/ DeleteDeployment(a, n, d) \/ DeleteScript(a, n, q)
      PROVE PrefixInv'
  <2>1. sys[n] # Absent /\ UNCHANGED <<prefixes, data>>
    BY <1>5 DEF CreateDeployment, DeleteDeployment, Deployment, DeleteScript
  <2>2. \A m \in Namespaces \ {n} : sys'[m] = sys[m]
    BY <1>0, <1>5 DEF CreateDeployment, DeleteDeployment, DeleteScript
  <2>3. sys'[n].prefix = sys[n].prefix
    BY <1>0, <1>5, <2>1 DEF CreateDeployment, DeleteDeployment, DeleteScript, NsRecords
  <2> QED
    BY <1>2, <2>1, <2>2, <2>3
<1>6. CASE StoreScript(a)
  <2>1. PICK n : n = task[a].ns
    OBVIOUS
  <2>2. CASE sys[n] = Absent
    BY <1>2, <1>6, <2>1, <2>2 DEF StoreScript
  <2>3. CASE sys[n] # Absent
    <3>1. PICK s, q : sys' = [sys EXCEPT ![n].query_scripts[q] = s]
      BY <1>6, <2>1, <2>3, Zenon DEF StoreScript
    <3>2. \A m \in Namespaces : sys'[m].prefix = sys[m].prefix
      BY <1>0, <3>1, <2>3 DEF NsRecords
    <3>3. \A m \in Namespaces \ {n} : sys'[m] = sys[m]
      BY <1>0, <3>1
    <3> QED
      BY <1>2, <1>6, <2>3, <3>2, <3>3 DEF StoreScript
  <2> QED
    BY <2>2, <2>3
<1>7. ASSUME NEW n \in Namespaces, NEW q, NEW d, NEW b,
             DeleteLooksUp(a, n) \/ ValidateScript(a, n, q, d, b)
      PROVE PrefixInv'
  BY <1>2, <1>7 DEF DeleteLooksUp, ValidateScript
<1>8. CASE AdminGivesUp(a)
  BY <1>2, <1>8 DEF AdminGivesUp
<1> QED
  BY <1>1, <1>3, <1>4, <1>5, <1>6, <1>7, <1>8 DEF AdminNext

-----------------------------------------------------------------------------
(***************************************************************************)
(* The inductive invariant, and the steps that keep it without changing    *)
(* the cache: those of the control service, and those with which a request *)
(* looks things up or runs.                                                *)
(***************************************************************************)

\* What the cache holds and requests carry.
Ctxs == [rev : Revs, depl : Deployments]
ColdKeys == [ns : Namespaces, qs : QueryScripts, depl : Deployments, time : Millis]
ColdEntries == [key : ColdKeys, ctx : Ctxs]
HotEntries == [key : Namespaces \X QueryScripts, ctx : Ctxs, create_time : Nat]
Requests == [at : {"hot", "script", "cold", "heat", "load", "put", "run"},
             ns : Namespaces, qs : QueryScripts, prefix : KvPrefixes, start : Nat,
             script : Scripts \cup {Absent}, ctx : Ctxs \cup {NoItem}]

\* The values the variables of the cache and of the requests range over.
UseTypeOK ==
  /\ items \in Seq(ColdEntries)
  /\ hot_items \in Seq(HotEntries)
  /\ carry \in [Clients -> ColdEntries \cup {NoItem}]
  /\ now \in Nat
  /\ gc \in {"asleep", "expire", "shrink"} /\ over \in BOOLEAN
  /\ req \in [Clients -> Requests \cup {Waiting}]
  /\ retired_at \in [Revs -> Nat]

\* If the revision is retired, that happened at time x or later.
RetiredFrom(v, x) == v \in retired => retired_at[v] >= x

\* An entry of items is what was loaded from the script its key tells.
ColdOK(e) == /\ e.ctx.rev \in 1 .. Len(scripts)
             /\ e.ctx = Ctx(scripts[e.ctx.rev])
             /\ e.key.time = scripts[e.ctx.rev].time
ColdInv == \A i \in 1 .. Len(items) : ColdOK(items[i])

\* Hot entries are in the order of their times, none is older than gc allows,
\* and none was heated long after its script was retired.
HotOK(h) == /\ h.ctx.rev \in 1 .. Len(scripts)
            /\ h.create_time <= now
            /\ MillisDiffer => RetiredFrom(h.ctx.rev, h.create_time - Life)
HotInv ==
  /\ HotEntriesExpire
  /\ \A i \in 1 .. Len(hot_items) : HotOK(hot_items[i])
  /\ \A i, j \in 1 .. Len(hot_items) :
       i <= j => hot_items[i].create_time <= hot_items[j].create_time

\* The prefix of a request is one that was drawn.
RequestPrefix == \A r \in Clients : Active(r) => req[r].prefix \in 1 .. prefixes

\* What a request carries at each of its steps, c being what it took out of items.
RequestOK(m, c) ==
  /\ m.start <= now /\ now <= m.start + Life
  /\ m.at \in {"cold", "heat", "load", "put"} =>
       /\ m.script \in Scripts /\ Accepted(m.script)
       /\ RetiredFrom(m.script.rev, m.start)
  /\ m.at = "heat" =>
       /\ c \in ColdEntries
       /\ c.ctx.rev \in 1 .. Len(scripts)
       /\ MillisDiffer => c.ctx = Ctx(m.script)
  /\ m.at = "put" => m.ctx = Ctx(m.script)
  /\ m.at = "run" =>
       /\ m.ctx \in Ctxs
       /\ m.ctx.rev \in 1 .. Len(scripts)
       /\ MillisDiffer => RetiredFrom(m.ctx.rev, m.start - Life - Ttl - 1)
RequestInv == \A r \in Clients : Active(r) => RequestOK(req[r], carry[r])

StoreInv == ScriptInv /\ DeplInv

Inv == /\ CtlTypeOK /\ StoreInv /\ PrefixInv
       /\ UseTypeOK /\ ColdInv /\ HotInv /\ RequestPrefix /\ RequestInv

-----------------------------------------------------------------------------
\* What is retired in a step of the control service is retired now, not earlier.
LEMMA RetiredNow ==
  ASSUME CtlTypeOK, UseTypeOK, NEW a \in Admins, Admin(a),
         NEW v \in 1 .. Len(scripts), NEW x \in Int, x <= now, RetiredFrom(v, x)
  PROVE  RetiredFrom(v, x)'
<1>1. v \in Revs
  BY LengthOf, ControlAssumption DEF CtlTypeOK, Revs
<1>2. retired_at'[v] = IF v \in retired' \ retired THEN now ELSE retired_at[v]
  BY <1>1 DEF Admin
<1>3. now \in Nat
  BY DEF UseTypeOK
<1> QED
  BY <1>2, <1>3 DEF RetiredFrom

\* The control service keeps what the cache and the requests rely on.
LEMMA AdminUse ==
  ASSUME CtlTypeOK, UseTypeOK, ColdInv, HotInv, RequestPrefix, RequestInv,
         NEW a \in Admins, Admin(a)
  PROVE  UseTypeOK' /\ ColdInv' /\ HotInv' /\ RequestPrefix' /\ RequestInv'
<1>0. /\ items' = items /\ hot_items' = hot_items /\ carry' = carry /\ now' = now
      /\ gc' = gc /\ over' = over /\ req' = req
  BY DEF Admin, cachevars
<1>1. now \in Nat /\ Life \in Nat /\ Ttl \in Nat
  BY LifeAssumption, CacheAssumption DEF UseTypeOK
<1>2. /\ \A v \in 1 .. Len(scripts) : v \in 1 .. Len(scripts') /\ scripts'[v] = scripts[v]
      /\ \A v \in 1 .. Len(scripts), x \in Int :
           x <= now /\ RetiredFrom(v, x) => RetiredFrom(v, x)'
  BY ScriptsGrow, RetiredNow DEF Admin
<1>3. UseTypeOK'
  <2>1. retired_at' \in [Revs -> Nat]
    BY <1>1 DEF Admin, UseTypeOK
  <2> QED
    BY <1>0, <2>1 DEF UseTypeOK
<1>4. ColdInv'
  <2>1. ASSUME NEW e, ColdOK(e) PROVE ColdOK(e)'
    BY <1>2, <2>1 DEF ColdOK
  <2> QED
    BY <1>0, <2>1 DEF ColdInv
<1>5. HotInv'
  <2>1. HotEntriesExpire'
    BY <1>0 DEF HotInv, HotEntriesExpire
  <2>2. ASSUME NEW h \in HotEntries, HotOK(h) PROVE HotOK(h)'
    <3>1. h.create_time \in Nat /\ h.create_time <= now
      BY <2>2 DEF HotEntries, HotOK
    <3>2. PICK v \in 1 .. Len(scripts), x \in Int : v = h.ctx.rev /\ x = h.create_time - Life
      BY <1>1, <2>2, <3>1 DEF HotOK
    <3>3. MillisDiffer => RetiredFrom(v, x)'
      BY <1>1, <1>2, <2>2, <3>1, <3>2 DEF HotOK
    <3> QED
      BY <1>0, <1>2, <3>1, <3>2, <3>3 DEF HotOK
  <2>3. \A i \in 1 .. Len(hot_items) : hot_items[i] \in HotEntries
    BY DEF UseTypeOK
  <2> QED
    BY <1>0, <2>1, <2>2, <2>3 DEF HotInv
<1>6. RequestInv'
  <2>1. ASSUME NEW m \in Requests, NEW c, RequestOK(m, c) PROVE RequestOK(m, c)'
    <3>1. m.start \in Nat /\ m.start <= now
      BY <2>1, Zenon DEF Requests, RequestOK
    <3>2. ASSUME m.at \in {"cold", "heat", "load", "put"}
          PROVE  Accepted(m.script)' /\ RetiredFrom(m.script.rev, m.start)'
      <4>1. PICK v \in 1 .. Len(scripts) : v = m.script.rev /\ m.script = scripts[v]
        BY <2>1, <3>2, Zenon DEF RequestOK, Accepted
      <4>2. RetiredFrom(v, m.start)'
        <5>1. RetiredFrom(v, m.start)
          BY <2>1, <3>2, <4>1, Zenon DEF RequestOK
        <5>2. m.start \in Int
          BY <3>1
        <5> QED
          BY <1>2, <3>1, <4>1, <5>1, <5>2, Zenon
      <4> QED
        BY <1>2, <4>1, <4>2 DEF Accepted
    <3>3. ASSUME m.at = "run", MillisDiffer
          PROVE  RetiredFrom(m.ctx.rev, m.start - Life - Ttl - 1)'
      <4>1. PICK v \in 1 .. Len(scripts), x \in Int :
              v = m.ctx.rev /\ x = m.start - Life - Ttl - 1
        <5>1. m.ctx.rev \in 1 .. Len(scripts)
          BY <2>1, <3>3, Zenon DEF RequestOK
        <5>2. m.start - Life - Ttl - 1 \in Int
          BY <1>1, <3>1
        <5> QED
          BY <5>1, <5>2, Zenon
      <4>2. RetiredFrom(v, x)
        BY <2>1, <3>3, <4>1 DEF RequestOK
      <4>3. x <= now
        BY <1>1, <3>1, <4>1
      <4>4. RetiredFrom(v, x)'
        BY <1>2, <4>2, <4>3
      <4> QED
        BY <4>1, <4>4
    <3> QED
      BY <1>0, <1>2, <2>1, <3>2, <3>3 DEF RequestOK
  <2>2. \A r \in Clients : Active(r) => req[r] \in Requests
    BY DEF UseTypeOK, Active, Waiting
  <2> QED
    BY <1>0, <2>1, <2>2 DEF RequestInv, Active
<1>7. RequestPrefix'
  <2>1. prefixes' >= prefixes /\ prefixes \in Nat /\ prefixes' \in Nat
    BY PrefixesGrow DEF Admin
  <2> QED
    BY <1>0, <2>1 DEF RequestPrefix, Active
<1> QED
  BY <1>3, <1>4, <1>5, <1>6, <1>7

\* What a step of a request changes of the requests, if it leaves the clock and
\* the accepted scripts alone.
LEMMA RequestMoves ==
  ASSUME CtlTypeOK, UseTypeOK, RequestPrefix, RequestInv, NEW r \in Clients,
         NEW m, NEW c \in ColdEntries \cup {NoItem},
         m = Waiting \/ (m \in Requests /\ m.prefix \in 1 .. prefixes /\ RequestOK(m, c)),
         req' = [req EXCEPT ![r] = m], carry' = [carry EXCEPT ![r] = c],
         UNCHANGED <<scripts, retired, retired_at, now, prefixes>>
  PROVE  /\ req' \in [Clients -> Requests \cup {Waiting}]
         /\ carry' \in [Clients -> ColdEntries \cup {NoItem}]
         /\ RequestPrefix' /\ RequestInv'
<1>1. /\ req' \in [Clients -> Requests \cup {Waiting}]
      /\ carry' \in [Clients -> ColdEntries \cup {NoItem}]
      /\ req'[r] = m /\ carry'[r] = c
      /\ \A x \in Clients \ {r} : req'[x] = req[x] /\ carry'[x] = carry[x]
  BY DEF UseTypeOK
<1>2. ASSUME NEW x, NEW y, RequestOK(x, y) PROVE RequestOK(x, y)'
  BY <1>2 DEF RequestOK, RetiredFrom, Accepted
<1>3. Active(r)' => m # Waiting
  <2>1. req'[r] = m
    BY <1>1, Zenon
  <2>2. Waiting.at = "waiting"
    BY DEF Waiting
  <2> QED
    BY <2>1, <2>2, Zenon DEF Active
<1>4. ASSUME NEW x \in Clients, Active(x)'
      PROVE  req'[x].prefix \in 1 .. prefixes' /\ RequestOK(req[x], carry[x])'
  <2>1. CASE x = r
    <3>1. m \in Requests /\ m.prefix \in 1 .. prefixes /\ RequestOK(m, c)'
      BY <1>2, <1>3, <1>4, <2>1
    <3>2. RequestOK(req[x], carry[x])' <=> RequestOK(m, c)'
      BY <1>1, <2>1, Zenon DEF RequestOK, RetiredFrom, Accepted
    <3> QED
      BY <1>1, <2>1, <3>1, <3>2
  <2>2. CASE x # r
    <3>1. Active(x) /\ req'[x] = req[x] /\ carry'[x] = carry[x]
      BY <1>1, <1>4, <2>2 DEF Active
    <3>2. PICK u, w : u = req[x] /\ w = carry[x] /\ RequestOK(u, w)
      BY <3>1 DEF RequestInv
    <3>3. RequestOK(u, w)'
      BY <1>2, <3>2
    <3> QED
      BY <3>1, <3>2, <3>3 DEF RequestPrefix
  <2> QED
    BY <2>1, <2>2
<1> QED
  BY <1>1, <1>4 DEF RequestPrefix, RequestInv

\* A request that got somewhere is being served.
LEMMA AtWork ==
  ASSUME NEW m, m.at # "waiting"
  PROVE  m # Waiting
BY DEF Waiting

\* A request that is being served, and what it carries.
LEMMA Serving ==
  ASSUME UseTypeOK, RequestPrefix, RequestInv, NEW r \in Clients, req[r] # Waiting
  PROVE  /\ req[r] \in Requests /\ Active(r)
         /\ req[r].prefix \in 1 .. prefixes
         /\ RequestOK(req[r], carry[r])
<1>1. req[r] \in Requests
  BY DEF UseTypeOK
<1>2. req[r].at \in {"hot", "script", "cold", "heat", "load", "put", "run"}
  BY <1>1 DEF Requests
<1>3. Active(r)
  BY <1>2 DEF Active
<1> QED
  BY <1>1, <1>3 DEF RequestPrefix, RequestInv

\* The part of the invariants that steps of requests do not touch.
LEMMA StoreRests ==
  ASSUME CtlTypeOK, StoreInv, UNCHANGED <<sys, prefixes, depls, scripts, task, retired>>,
         data' \in [KvPrefixes -> SUBSET {"row"}]
  PROVE  CtlTypeOK' /\ StoreInv'
<1>1. CtlTypeOK'
  BY DEF CtlTypeOK
<1>2. ScriptInv'
  <2>1. \A n \in Namespaces, q \in QueryScripts : ScriptOf(n, q)' = ScriptOf(n, q)
    BY Zenon DEF ScriptOf
  <2>2. \A n \in Namespaces, q \in QueryScripts :
          ScriptOf(n, q) # Absent => ScriptOf(n, q).rev \notin retired
    BY Zenon DEF StoreInv, ScriptInv
  <2> QED
    BY <2>1, <2>2, StoreKept, Zenon DEF StoreInv
<1>3. DeplInv'
  BY Zenon DEF StoreInv, DeplInv, Validated, Deployment
<1> QED
  BY <1>1, <1>2, <1>3 DEF StoreInv

\* Retired at some time or later is retired at any earlier time or later.
LEMMA RetiredEarlier ==
  ASSUME UseTypeOK, NEW v \in Revs, NEW x \in Int, NEW y \in Int, y <= x, RetiredFrom(v, x)
  PROVE  RetiredFrom(v, y)
<1>1. retired_at[v] \in Nat
  BY DEF UseTypeOK
<1> QED
  BY <1>1 DEF RetiredFrom

\* A step of a request that leaves the cache as it should be, and writes below
\* prefixes in use at most, keeps the invariant if the request may go on with what
\* it carries then.
LEMMA RequestStep ==
  ASSUME Inv, NEW r \in Clients, NEW m, NEW c \in ColdEntries \cup {NoItem},
         m = Waiting \/ (m \in Requests /\ m.prefix \in 1 .. prefixes /\ RequestOK(m, c)),
         req' = [req EXCEPT ![r] = m], carry' = [carry EXCEPT ![r] = c],
         UNCHANGED <<sys, prefixes, depls, scripts, task, retired, retired_at>>,
         UNCHANGED <<now, gc, over>>,
         items' \in Seq(ColdEntries), ColdInv', hot_items' \in Seq(HotEntries), HotInv',
         data' \in [KvPrefixes -> SUBSET {"row"}],
         \A p \in KvPrefixes : p > prefixes => data'[p] = data[p]
  PROVE  Inv'
<1>1. CtlTypeOK' /\ StoreInv'
  BY StoreRests DEF Inv
<1>2. /\ req' \in [Clients -> Requests \cup {Waiting}]
      /\ carry' \in [Clients -> ColdEntries \cup {NoItem}]
      /\ RequestPrefix' /\ RequestInv'
  BY RequestMoves, Zenon DEF Inv
<1>3. PrefixInv'
  BY <1>2 DEF Inv, PrefixInv
<1>4. UseTypeOK'
  BY <1>2 DEF Inv, UseTypeOK
<1> QED
  BY <1>1, <1>2, <1>3, <1>4 DEF Inv

\* The same for a step that does not change the cache.
LEMMA QuietStep ==
  ASSUME Inv, NEW r \in Clients, NEW m, NEW c \in ColdEntries \cup {NoItem},
         m = Waiting \/ (m \in Requests /\ m.prefix \in 1 .. prefixes /\ RequestOK(m, c)),
         req' = [req EXCEPT ![r] = m], carry' = [carry EXCEPT ![r] = c],
         UNCHANGED <<sys, prefixes, depls, scripts, task, retired, retired_at>>,
         UNCHANGED <<items, hot_items, now, gc, over>>,
         data' \in [KvPrefixes -> SUBSET {"row"}],
         \A p \in KvPrefixes : p > prefixes => data'[p] = data[p]
  PROVE  Inv'
<1>1. items' \in Seq(ColdEntries) /\ hot_items' \in Seq(HotEntries)
  BY Zenon DEF Inv, UseTypeOK
<1>2. ColdInv'
  BY Zenon DEF Inv, ColdInv, ColdOK
<1>3. HotInv'
  BY Zenon DEF Inv, HotInv, HotEntriesExpire, HotOK, RetiredFrom
<1> QED
  BY <1>1, <1>2, <1>3, RequestStep, Zenon

\* The steps of a request that only read, and the run of its graph.
LEMMA ReadingSteps ==
  ASSUME Inv, NEW r \in Clients,
         \/ \E n \in Namespaces, q \in QueryScripts : LookUpPrefix(r, n, q)
         \/ TryHot(r) \/ LookUpScript(r) \/ TryCold(r) \/ Load(r) \/ Run(r) \/ RequestGivesUp(r)
  PROVE  Inv'
<1>0. /\ CtlTypeOK /\ UseTypeOK /\ StoreInv /\ PrefixInv /\ ColdInv /\ HotInv
      /\ RequestPrefix /\ RequestInv
      /\ now \in Nat /\ Life \in Nat /\ Ttl \in Nat /\ prefixes \in Nat
      /\ data \in [KvPrefixes -> SUBSET {"row"}]
      /\ carry[r] \in ColdEntries \cup {NoItem} /\ carry = [carry EXCEPT ![r] = carry[r]]
  BY LifeAssumption, CacheAssumption, ControlAssumption DEF Inv, UseTypeOK, CtlTypeOK
<1>1. ASSUME NEW n \in Namespaces, NEW q \in QueryScripts, LookUpPrefix(r, n, q) PROVE Inv'
  <2>1. PICK m : /\ req' = [req EXCEPT ![r] = m]
                 /\ m = IF sys[n] = Absent THEN Waiting
                        ELSE [at |-> "hot", ns |-> n, qs |-> q, prefix |-> sys[n].prefix,
                              start |-> now, script |-> Absent, ctx |-> NoItem]
    BY <1>1, Zenon DEF LookUpPrefix, Step
  <2>2. ASSUME sys[n] # Absent
        PROVE  m \in Requests /\ m.prefix \in 1 .. prefixes /\ RequestOK(m, carry[r])
    <3>1. sys[n].prefix \in 1 .. prefixes /\ sys[n].prefix \in KvPrefixes
      BY <1>0, <2>2 DEF PrefixInv, CtlTypeOK, NsRecords
    <3>2. m \in Requests
      BY <1>0, <2>1, <2>2, <3>1 DEF Requests
    <3>3. RequestOK(m, carry[r])
      BY <1>0, <2>1, <2>2 DEF RequestOK
    <3> QED
      BY <2>1, <2>2, <3>1, <3>2, <3>3, Zenon
  <2> QED
    BY <1>0, <1>1, <2>1, <2>2, QuietStep, Zenon DEF LookUpPrefix, ctlvars, cachevars
<1>2. CASE TryHot(r)
  <2>0. req[r].at = "hot"
    BY <1>2 DEF TryHot
  <2>1. req[r] # Waiting /\ req[r].at = "hot"
    BY <2>0, AtWork
  <2>2. PICK o \in Requests : o = req[r] /\ o.prefix \in 1 .. prefixes /\ RequestOK(o, carry[r])
    BY <1>0, <2>1, Serving
  <2>3. PICK x : x = Peek(hot_items, HotKey([ns |-> o.ns, qs |-> o.qs]))
    OBVIOUS
  <2>4. CASE x = NoItem
    <3>1. PICK m : m = [o EXCEPT !.at = "script"] /\ req' = [req EXCEPT ![r] = m]
      BY <1>2, <2>2, <2>3, <2>4, Zenon DEF TryHot, GetHot, Step
    <3>2. m \in Requests /\ m.prefix \in 1 .. prefixes
      BY <2>2, <3>1 DEF Requests
    <3>3. RequestOK(m, carry[r])
      BY <2>2, <3>1 DEF RequestOK, Requests
    <3> QED
      BY <1>0, <1>2, <3>1, <3>2, <3>3, QuietStep, Zenon DEF TryHot, ctlvars, cachevars
  <2>5. CASE x # NoItem
    <3>1. PICK m : m = [o EXCEPT !.at = "run", !.ctx = x] /\ req' = [req EXCEPT ![r] = m]
      BY <1>2, <2>2, <2>3, <2>5, Zenon DEF TryHot, GetHot, Step
    <3>2. PICK i \in 1 .. Len(hot_items) : hot_items[i].ctx = x
      <4>1. DOMAIN hot_items = 1 .. Len(hot_items)
        BY <1>0 DEF UseTypeOK
      <4> QED
        BY <2>3, <2>5, <4>1, PeekFinds
    <3>3. PICK h \in HotEntries : h = hot_items[i] /\ h.ctx = x /\ x \in Ctxs
                                  /\ h.create_time \in Nat
      <4>1. hot_items[i] \in HotEntries
        BY <1>0, <3>2 DEF UseTypeOK
      <4> QED
        BY <3>2, <4>1 DEF HotEntries
    <3>4. HotOK(h) /\ now - h.create_time <= Ttl + 1
      <4>1. i \in DOMAIN hot_items
        BY <1>0, <3>2 DEF UseTypeOK
      <4> QED
        BY <1>0, <3>2, <3>3, <4>1 DEF HotInv, HotEntriesExpire
    <3>5. m \in Requests /\ m.prefix \in 1 .. prefixes
      BY <2>2, <3>1, <3>3, Zenon DEF Requests
    <3>6. /\ m.at = "run" /\ m.ctx = x /\ m.start = o.start /\ o.start \in Nat
          /\ o.start <= now /\ now <= o.start + Life
      BY <2>2, <3>1 DEF Requests, RequestOK
    <3>7. MillisDiffer => RetiredFrom(x.rev, o.start - Life - Ttl - 1)
      <4>1. x.rev \in Revs
        BY <3>3 DEF Ctxs
      <4>2. PICK t \in Nat, u \in Nat : t = h.create_time /\ u = o.start
        BY <3>3, <3>6
      <4>3. t - Life \in Int /\ u - Life - Ttl - 1 \in Int /\ u - Life - Ttl - 1 <= t - Life
        <5>1. now \in Nat /\ Life \in Nat /\ Ttl \in Nat /\ u <= now /\ now - t <= Ttl + 1
          BY <1>0, <3>4, <3>6, <4>2
        <5> QED
          BY <5>1
      <4>4. MillisDiffer => RetiredFrom(x.rev, t - Life)
        BY <3>3, <3>4, <4>2 DEF HotOK
      <4> QED
        BY <1>0, <4>1, <4>2, <4>3, <4>4, RetiredEarlier
    <3>8. RequestOK(m, carry[r])
      BY <3>3, <3>4, <3>6, <3>7, Zenon DEF RequestOK, HotOK
    <3> QED
      BY <1>0, <1>2, <3>1, <3>5, <3>8, QuietStep, Zenon DEF TryHot, ctlvars, cachevars
  <2> QED
    BY <2>4, <2>5
<1>3. CASE LookUpScript(r)
  <2>0. req[r].at = "script"
    BY <1>3 DEF LookUpScript
  <2>1. req[r] # Waiting /\ req[r].at = "script"
    BY <2>0, AtWork
  <2>2. PICK o \in Requests : o = req[r] /\ o.prefix \in 1 .. prefixes /\ RequestOK(o, carry[r])
    BY <1>0, <2>1, Serving
  <2>3. PICK s : s = ScriptOf(o.ns, o.qs)
    OBVIOUS
  <2>4. CASE s = Absent
    <3>1. req' = [req EXCEPT ![r] = Waiting]
      BY <1>3, <2>2, <2>3, <2>4, Zenon DEF LookUpScript, ScriptOf, Step
    <3> QED
      BY <1>0, <1>3, <3>1, QuietStep, Zenon DEF LookUpScript, ctlvars, cachevars
  <2>5. CASE s # Absent
    <3>1. PICK m : m = [o EXCEPT !.at = "cold", !.script = s] /\ req' = [req EXCEPT ![r] = m]
      BY <1>3, <2>2, <2>3, <2>5, Zenon DEF LookUpScript, ScriptOf, Step
    <3>2. s \in Scripts /\ Accepted(s) /\ s.rev \notin retired
      BY <1>0, <2>3, <2>5 DEF StoreInv, ScriptInv, Requests
    <3>3. m \in Requests /\ m.prefix \in 1 .. prefixes
      BY <2>2, <3>1, <3>2, Zenon DEF Requests
    <3>4. /\ m.at = "cold" /\ m.script = s /\ m.start = o.start
          /\ o.start <= now /\ now <= o.start + Life
      BY <2>2, <3>1 DEF Requests, RequestOK
    <3>5. RequestOK(m, carry[r])
      BY <3>2, <3>4 DEF RequestOK, RetiredFrom
    <3> QED
      BY <1>0, <1>3, <3>1, <3>3, <3>5, QuietStep, Zenon DEF LookUpScript, ctlvars, cachevars
  <2> QED
    BY <2>4, <2>5
<1>4. CASE TryCold(r)
  <2>0. req[r].at = "cold"
    BY <1>4 DEF TryCold
  <2>1. req[r] # Waiting /\ req[r].at = "cold"
    BY <2>0, AtWork
  <2>2. PICK o \in Requests : o = req[r] /\ o.prefix \in 1 .. prefixes /\ RequestOK(o, carry[r])
    BY <1>0, <2>1, Serving
  <2>3. /\ o.at = "cold" /\ o.script \in Scripts /\ Accepted(o.script)
        /\ RetiredFrom(o.script.rev, o.start)
    BY <2>1, <2>2, Zenon DEF RequestOK
  <2>4. PICK x : x = Peek(items, Key(o))
    OBVIOUS
  <2>5. PICK c : /\ c = IF x = NoItem THEN NoItem ELSE Entry(Key(o), x)
                 /\ carry' = [carry EXCEPT ![r] = c]
    BY <1>4, <2>2, <2>4, Zenon DEF TryCold, GetCold
  <2>6. Key(o) \in ColdKeys /\ Key(o).time = o.script.time
    BY <2>2, <2>3, Zenon DEF Key, ColdKeys, Requests, Scripts
  <2>7. x # NoItem => x \in Ctxs /\ x.rev \in 1 .. Len(scripts)
                      /\ (MillisDiffer => x = Ctx(o.script))
    <3> SUFFICES ASSUME x # NoItem PROVE x \in Ctxs /\ x.rev \in 1 .. Len(scripts)
                                         /\ (MillisDiffer => x = Ctx(o.script))
      OBVIOUS
    <3>1. PICK i \in 1 .. Len(items) : items[i].key = Key(o) /\ items[i].ctx = x
      <4>1. DOMAIN items = 1 .. Len(items)
        BY <1>0 DEF UseTypeOK
      <4> QED
        BY <2>4, <4>1, PeekFinds
    <3>2. items[i] \in ColdEntries /\ ColdOK(items[i])
      <4>1. items \in Seq(ColdEntries)
        BY <1>0, Zenon DEF UseTypeOK
      <4>2. items[i] \in ColdEntries
        BY <4>1
      <4> QED
        BY <1>0, <4>2, Zenon DEF ColdInv
    <3>3. /\ x \in Ctxs /\ x.rev \in 1 .. Len(scripts) /\ x = Ctx(scripts[x.rev])
          /\ o.script.time = scripts[x.rev].time
      BY <2>6, <3>1, <3>2, Zenon DEF ColdOK, ColdEntries
    <3>4. MillisDiffer => x.rev = o.script.rev
      BY <1>0, <2>3, <3>3 DEF StoreInv, ScriptInv, Accepted
    <3> QED
      BY <2>3, <3>3, <3>4, Zenon DEF Accepted
  <2>8. x # NoItem => Entry(Key(o), x) \in ColdEntries /\ Entry(Key(o), x).ctx = x
    BY <2>6, <2>7 DEF Entry, ColdEntries
  <2>9. c \in ColdEntries \cup {NoItem}
    BY <2>5, <2>8, Zenon
  <2>10. carry'[r] = c
    BY <1>0, <2>5 DEF UseTypeOK
  <2>11. PICK m : /\ m = [o EXCEPT !.at = IF c = NoItem THEN "load" ELSE "heat"]
                  /\ req' = [req EXCEPT ![r] = m]
    BY <1>4, <2>2, <2>10, Zenon DEF TryCold, Step
  <2>12. m \in Requests /\ m.prefix \in 1 .. prefixes
    BY <2>2, <2>11 DEF Requests
  <2>13. /\ m.at = (IF c = NoItem THEN "load" ELSE "heat") /\ m.script = o.script
         /\ m.start = o.start /\ o.start <= now /\ now <= o.start + Life
    BY <2>2, <2>11 DEF Requests, RequestOK
  <2>14. RequestOK(m, c)
    BY <2>3, <2>5, <2>7, <2>8, <2>13, Zenon DEF RequestOK
  <2> QED
    BY <1>0, <1>4, <2>5, <2>9, <2>11, <2>12, <2>14, QuietStep, Zenon DEF TryCold, GetCold, ctlvars
<1>5. CASE Load(r)
  <2>0. req[r].at = "load"
    BY <1>5 DEF Load
  <2>1. req[r] # Waiting /\ req[r].at = "load"
    BY <2>0, AtWork
  <2>2. PICK o \in Requests : o = req[r] /\ o.prefix \in 1 .. prefixes /\ RequestOK(o, carry[r])
    BY <1>0, <2>1, Serving
  <2>3. /\ o.at = "load" /\ o.script \in Scripts /\ Accepted(o.script)
        /\ RetiredFrom(o.script.rev, o.start)
    BY <2>1, <2>2, Zenon DEF RequestOK
  <2>d. Deployment(o.ns, o.script.depl) # Absent =>
          <<o.script.text, Deployment(o.ns, o.script.depl)>> \in Loads
    <3>1. o.ns \in Namespaces
      BY DEF Requests
    <3>2. Validated(o.script)
      BY <1>0, <2>3, Zenon DEF StoreInv, DeplInv, Accepted
    <3> QED
      BY <3>1, <3>2, Zenon DEF Validated
  <2>4. PICK m : /\ req' = [req EXCEPT ![r] = m]
                 /\ m = Waiting \/ m = [o EXCEPT !.at = "put", !.ctx = Ctx(o.script)]
    BY <1>5, <2>2, <2>3, <2>d, Zenon DEF Load, Step
  <2>5. ASSUME m = [o EXCEPT !.at = "put", !.ctx = Ctx(o.script)]
        PROVE  m \in Requests /\ m.prefix \in 1 .. prefixes /\ RequestOK(m, carry[r])
    <3>1. Ctx(o.script) \in Ctxs
      BY <2>3, Zenon DEF Ctx, Ctxs, Scripts
    <3>2. m \in Requests /\ m.prefix \in 1 .. prefixes
      BY <2>2, <2>5, <3>1, Zenon DEF Requests
    <3>3. /\ m.at = "put" /\ m.script = o.script /\ m.ctx = Ctx(o.script)
          /\ m.start = o.start /\ o.start <= now /\ now <= o.start + Life
      BY <2>2, <2>5 DEF Requests, RequestOK
    <3>4. RequestOK(m, carry[r])
      BY <2>3, <3>3, Zenon DEF RequestOK
    <3> QED
      BY <3>2, <3>4
  <2> QED
    BY <1>0, <1>5, <2>4, <2>5, QuietStep, Zenon DEF Load, ctlvars, cachevars
<1>6. CASE Run(r)
  <2>0. req[r].at = "run"
    BY <1>6, Zenon DEF Run
  <2>1. req[r] # Waiting
    BY <2>0, AtWork, Zenon
  <2>2. req[r].prefix \in 1 .. prefixes
    BY <1>0, <2>1, Serving
  <2>3. data' = [data EXCEPT ![req[r].prefix] = {Row}] /\ req' = [req EXCEPT ![r] = Waiting]
    BY <1>6 DEF Run, Step
  <2>4. /\ data' \in [KvPrefixes -> SUBSET {"row"}]
        /\ \A p \in KvPrefixes : p > prefixes => data'[p] = data[p]
    <3>1. \A p \in KvPrefixes : p > prefixes => p # req[r].prefix
      BY <1>0, <2>2, ControlAssumption DEF KvPrefixes
    <3>2. data \in [KvPrefixes -> SUBSET {"row"}] /\ {Row} \in SUBSET {"row"}
      BY <1>0 DEF Row
    <3> QED
      BY <2>3, <3>1, <3>2, Zenon
  <2> QED
    BY <1>0, <1>6, <2>3, <2>4, QuietStep, Zenon DEF Run, cachevars
<1>7. CASE RequestGivesUp(r)
  BY <1>0, <1>7, QuietStep, Zenon DEF RequestGivesUp, ctlvars, Step
<1> QED
  BY <1>1, <1>2, <1>3, <1>4, <1>5, <1>6, <1>7

-----------------------------------------------------------------------------
(***************************************************************************)
(* The steps that change the cache, and the theorems.                      *)
(***************************************************************************)

\* What get found becomes the hot entry, and the request runs it.
LEMMA HeatStep ==
  ASSUME Inv, NEW r \in Clients, MakeHot(r)
  PROVE  Inv'
<1>0. /\ CtlTypeOK /\ UseTypeOK /\ StoreInv /\ PrefixInv /\ ColdInv /\ HotInv
      /\ RequestPrefix /\ RequestInv
      /\ now \in Nat /\ Life \in Nat /\ Ttl \in Nat
      /\ items \in Seq(ColdEntries) /\ hot_items \in Seq(HotEntries)
      /\ data \in [KvPrefixes -> SUBSET {"row"}]
  BY LifeAssumption, CacheAssumption DEF Inv, UseTypeOK, CtlTypeOK
<1>c. req[r].at = "heat"
  BY DEF MakeHot
<1>1. req[r] # Waiting /\ req[r].at = "heat"
  BY <1>c, AtWork
<1>2. PICK o \in Requests : \E c : /\ o = req[r] /\ c = carry[r]
                                   /\ o.prefix \in 1 .. prefixes /\ RequestOK(o, c)
  BY <1>0, <1>1, Serving
<1>b. PICK c : /\ o = req[r] /\ c = carry[r]
               /\ o.prefix \in 1 .. prefixes /\ RequestOK(o, c)
  BY <1>2
<1>3. /\ o.script \in Scripts /\ Accepted(o.script) /\ RetiredFrom(o.script.rev, o.start)
      /\ c \in ColdEntries /\ c.ctx.rev \in 1 .. Len(scripts)
      /\ MillisDiffer => c.ctx = Ctx(o.script)
      /\ o.start <= now /\ now <= o.start + Life /\ o.start \in Nat
  BY <1>1, <1>b DEF RequestOK, Requests
<1>n. now \in Nat /\ Life \in Nat /\ Ttl \in Nat
  BY <1>0, Zenon
<1>t. o.start \in Nat /\ o.start <= now /\ now <= o.start + Life
  BY <1>3, Zenon
<1>4. c.key \in ColdKeys /\ c.ctx \in Ctxs /\ c.ctx.rev \in Revs
  BY <1>3 DEF ColdEntries, Ctxs
<1>5. ASSUME NEW x \in Int, x <= o.start, MillisDiffer PROVE RetiredFrom(c.ctx.rev, x)
  <2>1. c.ctx.rev = o.script.rev
    <3>1. c.ctx = [rev |-> o.script.rev, depl |-> o.script.depl]
      BY <1>3, <1>5, Zenon DEF Ctx
    <3>2. [rev |-> o.script.rev, depl |-> o.script.depl].rev = o.script.rev
      OBVIOUS
    <3> QED
      BY <3>1, <3>2, Zenon
  <2>2. UseTypeOK /\ RetiredFrom(o.script.rev, o.start) /\ o.script.rev \in Revs
    BY <1>0, <1>3, <1>4, <2>1, Zenon
  <2>3. o.start \in Int
    BY <1>t
  <2>4. RetiredFrom(o.script.rev, x)
    BY <1>5, <2>2, <2>3, RetiredEarlier, Zenon
  <2> QED
    BY <2>1, <2>4, Zenon
<1>6. PICK e \in HotEntries : /\ e = Hot(HotKey(c.key), c.ctx, now)
                              /\ e.ctx = c.ctx /\ e.create_time = now
  <2>1. HotKey(c.key) \in Namespaces \X QueryScripts
    BY <1>4 DEF HotKey, ColdKeys
  <2>2. Hot(HotKey(c.key), c.ctx, now) \in HotEntries
    BY <1>0, <1>4, <2>1 DEF Hot, HotEntries
  <2> QED
    BY <2>2 DEF Hot
<1>7. hot_items' = PutLru(hot_items, e)
  BY <1>b, <1>6 DEF MakeHot, Heat
<1>8. hot_items' \in Seq(HotEntries)
  BY <1>0, <1>7, PutLruKeepsOrder
<1>9. EndsIn(hot_items', hot_items, e)
  BY <1>0, <1>7, PutLruKeepsOrder
<1>10. PICK k \in Nat : \E f \in [1 .. k -> 1 .. Len(hot_items)] :
        /\ Len(hot_items') = k + 1
        /\ hot_items'[k + 1] = e
        /\ \A i \in 1 .. k : hot_items'[i] = hot_items[f[i]]
        /\ \A i, j \in 1 .. k : i <= j => f[i] <= f[j]
  BY <1>9, Zenon DEF EndsIn
<1>a. PICK f \in [1 .. k -> 1 .. Len(hot_items)] :
        /\ Len(hot_items') = k + 1
        /\ hot_items'[k + 1] = e
        /\ \A i \in 1 .. k : hot_items'[i] = hot_items[f[i]]
        /\ \A i, j \in 1 .. k : i <= j => f[i] <= f[j]
  BY <1>10
<1>11. /\ UNCHANGED <<scripts, retired, retired_at, now, gc, over, items>>
       /\ carry' = [carry EXCEPT ![r] = NoItem]
       /\ UNCHANGED <<sys, data, prefixes, depls, task>>
  BY DEF MakeHot, Heat, ctlvars
<1>12. HotInv'
  <2>1. ASSUME NEW h, HotOK(h) PROVE HotOK(h)'
    BY <1>11, <2>1 DEF HotOK, RetiredFrom
  <2>2. HotOK(e)
    <3>1. MillisDiffer => RetiredFrom(c.ctx.rev, now - Life)
      <4>1. now - Life \in Int /\ now - Life <= o.start
        BY <1>n, <1>t
      <4> QED
        BY <1>5, <4>1
    <3>2. now <= now
      BY <1>n
    <3>3. c.ctx.rev \in 1 .. Len(scripts)
      BY <1>3, Zenon
    <3> QED
      BY <1>6, <3>1, <3>2, <3>3, Zenon DEF HotOK
  <2>3. ASSUME NEW i \in 1 .. k + 1
        PROVE  i = k + 1 \/ (i \in 1 .. k /\ f[i] \in 1 .. Len(hot_items))
    <3>1. i = k + 1 \/ i \in 1 .. k
      OBVIOUS
    <3> QED
      BY <3>1, Zenon
  <2>4. ASSUME NEW i \in 1 .. k + 1 PROVE HotOK(hot_items'[i])
    <3>1. \A j \in 1 .. Len(hot_items) : HotOK(hot_items[j])
      BY <1>0 DEF HotInv
    <3> QED
      BY <1>a, <2>2, <2>3, <3>1
  <2>5. ASSUME NEW i \in 1 .. k + 1
        PROVE  now - hot_items'[i].create_time <= Ttl + (IF gc = "expire" THEN 1 ELSE 0)
    <3>1. CASE i = k + 1
      <4>1. hot_items'[i].create_time = now
        BY <1>6, <1>a, <3>1, Zenon
      <4>2. now - now <= Ttl + (IF gc = "expire" THEN 1 ELSE 0)
        BY <1>n
      <4> QED
        BY <4>1, <4>2, Zenon
    <3>2. CASE i \in 1 .. k /\ f[i] \in 1 .. Len(hot_items)
      <4>1. hot_items'[i] = hot_items[f[i]]
        BY <1>a, <3>2, Zenon
      <4>2. DOMAIN hot_items = 1 .. Len(hot_items)
        BY <1>0
      <4>3. \A j \in DOMAIN hot_items :
              now - hot_items[j].create_time <= Ttl + (IF gc = "expire" THEN 1 ELSE 0)
        BY <1>0, Zenon DEF HotInv, HotEntriesExpire
      <4> QED
        BY <3>2, <4>1, <4>2, <4>3, Zenon
    <3> QED
      BY <2>3, <3>1, <3>2
  <2>6. ASSUME NEW i \in 1 .. k + 1, NEW j \in 1 .. k + 1, i <= j
        PROVE  hot_items'[i].create_time <= hot_items'[j].create_time
    <3>1. CASE j = k + 1
      <4>1. hot_items'[i].create_time <= now
        BY <2>4 DEF HotOK
      <4> QED
        BY <1>6, <1>a, <3>1, <4>1
    <3>2. CASE j \in 1 .. k
      <4>1. i \in 1 .. k
        BY <2>6, <3>2
      <4>2. f[i] \in 1 .. Len(hot_items) /\ f[j] \in 1 .. Len(hot_items) /\ f[i] <= f[j]
        BY <1>a, <2>6, <3>2, <4>1
      <4>3. hot_items[f[i]].create_time <= hot_items[f[j]].create_time
        BY <1>0, <4>2, Zenon DEF HotInv
      <4> QED
        BY <1>a, <3>2, <4>1, <4>3, Zenon
    <3> QED
      BY <2>3, <3>1, <3>2
  <2>7. DOMAIN hot_items' = 1 .. k + 1 /\ Len(hot_items') = k + 1
    <3>1. DOMAIN hot_items' = 1 .. Len(hot_items')
      BY <1>8
    <3> QED
      BY <1>a, <3>1, Zenon
  <2>8. HotEntriesExpire'
    BY <1>11, <2>5, <2>7 DEF HotEntriesExpire
  <2>9. \A i \in 1 .. k + 1 : HotOK(hot_items[i])'
    <3>1. ASSUME NEW i \in 1 .. k + 1 PROVE HotOK(hot_items[i])'
      <4>1. PICK h : h = hot_items'[i] /\ HotOK(h)
        BY <2>4
      <4>2. HotOK(h)'
        BY <2>1, <4>1
      <4> QED
        BY <4>1, <4>2
    <3> QED
      BY <3>1
  <2> QED
    BY <2>6, <2>7, <2>8, <2>9 DEF HotInv
<1>13. PICK m : /\ m = [o EXCEPT !.at = "run", !.ctx = c.ctx, !.script = Absent]
                /\ req' = [req EXCEPT ![r] = m]
  BY <1>b, Zenon DEF MakeHot, Step
<1>14. m \in Requests /\ m.prefix \in 1 .. prefixes
  BY <1>b, <1>4, <1>13, Zenon DEF Requests
<1>15. /\ m.at = "run" /\ m.ctx = c.ctx /\ m.start = o.start
  BY <1>13 DEF Requests
<1>16. RequestOK(m, NoItem)
  <2>1. o.start - Life - Ttl - 1 \in Int /\ o.start - Life - Ttl - 1 <= o.start
    BY <1>n, <1>t
  <2>2. MillisDiffer => RetiredFrom(c.ctx.rev, o.start - Life - Ttl - 1)
    BY <1>5, <2>1
  <2> QED
    BY <1>3, <1>4, <1>15, <2>2 DEF RequestOK
<1>17. ColdInv' /\ items' \in Seq(ColdEntries)
  BY <1>0, <1>11 DEF ColdInv, ColdOK
<1> QED
  BY <1>0, <1>8, <1>11, <1>12, <1>13, <1>14, <1>16, <1>17, RequestStep, Zenon

\* A script that was loaded is put into items, and the request runs it.
LEMMA CacheStep ==
  ASSUME Inv, NEW r \in Clients, Cache(r)
  PROVE  Inv'
<1>0. /\ CtlTypeOK /\ UseTypeOK /\ StoreInv /\ PrefixInv /\ ColdInv /\ HotInv
      /\ RequestPrefix /\ RequestInv
      /\ now \in Nat /\ Life \in Nat /\ Ttl \in Nat
      /\ items \in Seq(ColdEntries) /\ hot_items \in Seq(HotEntries)
      /\ data \in [KvPrefixes -> SUBSET {"row"}]
      /\ carry[r] \in ColdEntries \cup {NoItem} /\ carry = [carry EXCEPT ![r] = carry[r]]
  BY LifeAssumption, CacheAssumption DEF Inv, UseTypeOK, CtlTypeOK
<1>c. req[r].at = "put"
  BY DEF Cache
<1>1. req[r] # Waiting /\ req[r].at = "put"
  BY <1>c, AtWork
<1>2. PICK o \in Requests : /\ o = req[r] /\ o.prefix \in 1 .. prefixes
                            /\ RequestOK(o, carry[r])
  BY <1>0, <1>1, Serving
<1>3. /\ o.script \in Scripts /\ Accepted(o.script) /\ RetiredFrom(o.script.rev, o.start)
      /\ o.ctx = Ctx(o.script)
      /\ o.start <= now /\ now <= o.start + Life /\ o.start \in Nat
  BY <1>1, <1>2, Zenon DEF RequestOK, Requests
<1>4. o.ctx \in Ctxs /\ o.ctx.rev = o.script.rev /\ o.ctx.rev \in Revs
  <2>1. o.script.rev \in Revs /\ o.script.depl \in Deployments
    BY <1>3, Zenon DEF Scripts
  <2>2. o.ctx = [rev |-> o.script.rev, depl |-> o.script.depl]
    BY <1>3, Zenon DEF Ctx
  <2>3. \A v \in Revs, d \in Deployments :
          [rev |-> v, depl |-> d] \in Ctxs /\ [rev |-> v, depl |-> d].rev = v
    BY DEF Ctxs
  <2> QED
    BY <2>1, <2>2, <2>3, Zenon
<1>5. PICK e \in ColdEntries : /\ e = Entry(Key(o), o.ctx) /\ e.ctx = o.ctx
                               /\ e.key.time = o.script.time
  <2>1. Key(o) \in ColdKeys /\ Key(o).time = o.script.time
    BY <1>2, <1>3, Zenon DEF Key, ColdKeys, Requests, Scripts
  <2>2. Entry(Key(o), o.ctx) \in ColdEntries
    BY <1>4, <2>1 DEF Entry, ColdEntries
  <2> QED
    BY <2>1, <2>2, Zenon DEF Entry
<1>6. ColdOK(e)
  BY <1>3, <1>4, <1>5, Zenon DEF ColdOK, Accepted
<1>7. items' = PutLru(items, e)
  BY <1>2, <1>5 DEF Cache, PutCold
<1>8. items' \in Seq(ColdEntries)
  BY <1>0, <1>7, PutLruKeepsOrder
<1>9. EndsIn(items', items, e)
  BY <1>0, <1>7, PutLruKeepsOrder
<1>a. PICK k \in Nat : \E f \in [1 .. k -> 1 .. Len(items)] :
        /\ Len(items') = k + 1
        /\ items'[k + 1] = e
        /\ \A i \in 1 .. k : items'[i] = items[f[i]]
        /\ \A i, j \in 1 .. k : i <= j => f[i] <= f[j]
  BY <1>9, Zenon DEF EndsIn
<1>10. /\ UNCHANGED <<scripts, retired, retired_at, now, gc, over, hot_items, carry>>
       /\ UNCHANGED <<sys, data, prefixes, depls, task>>
  BY DEF Cache, PutCold, ctlvars
<1>11. ColdInv'
  <2>1. ASSUME NEW x, ColdOK(x) PROVE ColdOK(x)'
    BY <1>10, <2>1 DEF ColdOK
  <2>2. ASSUME NEW i \in 1 .. k + 1 PROVE ColdOK(items'[i])
    <3>1. i = k + 1 \/ i \in 1 .. k
      OBVIOUS
    <3> QED
      BY <1>0, <1>6, <1>a, <3>1 DEF ColdInv
  <2>3. ASSUME NEW i \in 1 .. k + 1 PROVE ColdOK(items[i])'
    <3>1. PICK x : x = items'[i] /\ ColdOK(x)
      BY <2>2
    <3>2. ColdOK(x)'
      BY <2>1, <3>1
    <3> QED
      BY <3>1, <3>2
  <2> QED
    BY <1>a, <2>3 DEF ColdInv
<1>12. HotInv' /\ hot_items' \in Seq(HotEntries)
  BY <1>0, <1>10 DEF HotInv, HotEntriesExpire, HotOK, RetiredFrom
<1>13. PICK m : /\ m = [o EXCEPT !.at = "run", !.script = Absent]
                /\ req' = [req EXCEPT ![r] = m]
  BY <1>2, Zenon DEF Cache, Step
<1>14. m \in Requests /\ m.prefix \in 1 .. prefixes
  BY <1>2, <1>13, Zenon DEF Requests
<1>15. /\ m.at = "run" /\ m.ctx = o.ctx /\ m.start = o.start
  BY <1>13 DEF Requests
<1>16. RequestOK(m, carry[r])
  <2>1. o.start - Life - Ttl - 1 \in Int /\ o.start - Life - Ttl - 1 <= o.start
    BY <1>0, <1>3
  <2>2. RetiredFrom(o.ctx.rev, o.start - Life - Ttl - 1)
    BY <1>0, <1>3, <1>4, <2>1, RetiredEarlier
  <2> QED
    BY <1>3, <1>4, <1>15, <2>2, Zenon DEF RequestOK, Accepted
<1> QED
  BY <1>0, <1>8, <1>10, <1>11, <1>12, <1>13, <1>14, <1>16, RequestStep, Zenon

\* A second passes, which no request in progress outlives.
LEMMA SecondStep ==
  ASSUME Inv, Second
  PROVE  Inv'
<1>0. /\ CtlTypeOK /\ UseTypeOK /\ StoreInv /\ PrefixInv /\ ColdInv /\ HotInv
      /\ RequestPrefix /\ RequestInv
      /\ now \in Nat /\ Life \in Nat /\ Ttl \in Nat
      /\ data \in [KvPrefixes -> SUBSET {"row"}]
  BY LifeAssumption, CacheAssumption DEF Inv, UseTypeOK, CtlTypeOK
<1>1. /\ UNCHANGED <<sys, data, prefixes, depls, scripts, task, retired, retired_at>>
      /\ UNCHANGED <<items, hot_items, carry, over, req>>
      /\ now' = now + 1 /\ gc' = "expire" /\ gc = "asleep"
      /\ \A r \in Clients : Active(r) => now - req[r].start < Life
  BY Zenon DEF Second, Tick, ctlvars
<1>n. now \in Nat /\ Life \in Nat /\ Ttl \in Nat
  BY <1>0, Zenon
<1>2. CtlTypeOK' /\ StoreInv'
  BY <1>0, <1>1, StoreRests, Zenon
<1>3. UseTypeOK'
  BY <1>0, <1>1 DEF UseTypeOK
<1>4. PrefixInv' /\ RequestPrefix'
  BY <1>0, <1>1, Zenon DEF PrefixInv, RequestPrefix, Active
<1>5. ColdInv'
  BY <1>0, <1>1, Zenon DEF ColdInv, ColdOK
<1>6. HotInv'
  <2>1. \A i \in DOMAIN hot_items : hot_items[i].create_time \in Nat
    <3>1. \A h \in HotEntries : h.create_time \in Nat
      BY DEF HotEntries
    <3>2. \A i \in DOMAIN hot_items : hot_items[i] \in HotEntries
      BY <1>0 DEF UseTypeOK
    <3> QED
      BY <3>1, <3>2
  <2>2. HotEntriesExpire'
    <3>1. ASSUME NEW i \in DOMAIN hot_items
          PROVE  (now + 1) - hot_items[i].create_time <= Ttl + 1
      <4>1. PICK x \in Nat : x = hot_items[i].create_time
        BY <2>1, Zenon
      <4>2. now - x <= Ttl + (IF gc = "expire" THEN 1 ELSE 0) /\ gc = "asleep"
        BY <1>0, <1>1, <4>1, Zenon DEF HotInv, HotEntriesExpire
      <4>3. now - x <= Ttl + 0
        BY <4>2
      <4>4. (now + 1) - x <= Ttl + 1
        BY <1>n, <4>3
      <4> QED
        BY <4>1, <4>4, Zenon
    <3> QED
      BY <1>1, <3>1 DEF HotEntriesExpire
  <2>3. ASSUME NEW i \in 1 .. Len(hot_items) PROVE HotOK(hot_items[i])'
    <3>1. hot_items[i].create_time \in Nat
      <4>1. DOMAIN hot_items = 1 .. Len(hot_items)
        BY <1>0 DEF UseTypeOK
      <4> QED
        BY <2>1, <4>1, Zenon
    <3>2. HotOK(hot_items[i])
      BY <1>0, Zenon DEF HotInv
    <3>3. hot_items[i].create_time <= now + 1
      <4>1. PICK x \in Nat : x = hot_items[i].create_time
        BY <3>1, Zenon
      <4>2. x <= now
        BY <3>2, <4>1, Zenon DEF HotOK
      <4>3. x <= now + 1
        BY <1>n, <4>2
      <4> QED
        BY <4>1, <4>3, Zenon
    <3> QED
      BY <1>1, <3>2, <3>3 DEF HotOK, RetiredFrom
  <2> QED
    BY <1>0, <1>1, <2>2, <2>3, Zenon DEF HotInv
<1>7. RequestInv'
  <2>1. ASSUME NEW r \in Clients, Active(r) PROVE RequestOK(req[r], carry[r])'
    <3>1. req[r].start \in Nat /\ RequestOK(req[r], carry[r])
      <4>1. req[r] # Waiting
        BY <2>1 DEF Active, Waiting
      <4> QED
        BY <1>0, <4>1, Serving, Zenon DEF Requests
    <3>2. req[r].start <= now + 1 /\ now + 1 <= req[r].start + Life
      <4>1. PICK x \in Nat : x = req[r].start
        BY <3>1
      <4>2. x <= now /\ now - x < Life
        BY <1>1, <2>1, <3>1, <4>1, Zenon DEF RequestOK
      <4>3. x <= now + 1 /\ now + 1 <= x + Life
        BY <1>0, <4>2
      <4> QED
        BY <4>1, <4>3, Zenon
    <3> QED
      BY <1>1, <3>1, <3>2, Zenon DEF RequestOK, RetiredFrom, Accepted
  <2> QED
    BY <1>1, <2>1 DEF RequestInv, Active
<1> QED
  BY <1>2, <1>3, <1>4, <1>5, <1>6, <1>7 DEF Inv

\* The first step of gc leaves no hot entry behind that has expired.
LEMMA CollectStep ==
  ASSUME Inv, Collect
  PROVE  Inv'
<1>0. /\ CtlTypeOK /\ UseTypeOK /\ StoreInv /\ PrefixInv /\ ColdInv /\ HotInv
      /\ RequestPrefix /\ RequestInv
      /\ now \in Nat /\ Ttl \in Nat /\ ShrinkStep \in Nat
      /\ items \in Seq(ColdEntries) /\ hot_items \in Seq(HotEntries)
      /\ data \in [KvPrefixes -> SUBSET {"row"}]
  BY CacheAssumption DEF Inv, UseTypeOK, CtlTypeOK
<1>1. /\ UNCHANGED <<sys, data, prefixes, depls, scripts, task, retired, retired_at>>
      /\ UNCHANGED <<carry, now, over, req>>
      /\ gc' \in {"asleep", "shrink"}
      /\ \/ hot_items' = DropExpired(hot_items)
         \/ hot_items' = hot_items /\ gc # "expire"
      /\ items' = items \/ items' = PopLru(items, ShrinkStep)
  BY DEF Collect, GcExpires, GcShrinks, ctlvars
<1>2. CtlTypeOK' /\ StoreInv'
  BY <1>0, <1>1, StoreRests
<1>3. PrefixInv' /\ RequestPrefix'
  BY <1>0, <1>1 DEF PrefixInv, RequestPrefix, Active
<1>4. RequestInv'
  BY <1>0, <1>1, Zenon DEF RequestInv, RequestOK, RetiredFrom, Accepted, Active
<1>5. items' \in Seq(ColdEntries) /\ ColdInv'
  <2>1. CASE items' = items
    BY <1>0, <1>1, <2>1 DEF ColdInv, ColdOK
  <2>2. CASE items' = PopLru(items, ShrinkStep)
    <3>1. /\ items' \in Seq(ColdEntries)
          /\ \A i \in 1 .. Len(items') :
               ShrinkStep + i \in 1 .. Len(items) /\ items'[i] = items[ShrinkStep + i]
      BY <1>0, <2>2, PopLruDrops
    <3>2. \A i \in 1 .. Len(items') : ColdOK(items[ShrinkStep + i])
      BY <1>0, <3>1 DEF ColdInv
    <3> QED
      BY <1>1, <3>1, <3>2, Zenon DEF ColdInv, ColdOK
  <2> QED
    BY <1>1, <2>1, <2>2
<1>6. ASSUME hot_items' = DropExpired(hot_items)
      PROVE  hot_items' \in Seq(HotEntries) /\ HotInv'
  <2>1. hot_items' \in Seq(HotEntries)
    BY <1>0, <1>6, DropExpiredDrops
  <2>2. PICK d \in 0 .. Len(hot_items) :
          /\ Len(hot_items') = Len(hot_items) - d
          /\ \A i \in 1 .. Len(hot_items) - d : hot_items'[i] = hot_items[d + i]
          /\ d < Len(hot_items) => ~Expired(hot_items[d + 1])
    BY <1>0, <1>6, DropExpiredDrops, Zenon
  <2>3. ASSUME NEW i \in 1 .. Len(hot_items')
        PROVE  /\ d + i \in 1 .. Len(hot_items) /\ d + 1 \in 1 .. Len(hot_items)
               /\ d + 1 <= d + i /\ d < Len(hot_items)
               /\ hot_items'[i] = hot_items[d + i]
    BY <1>0, <2>2
  <2>4. ASSUME NEW i \in 1 .. Len(hot_items')
        PROVE  now - hot_items'[i].create_time <= Ttl
    <3>1. PICK x \in Nat, y \in Nat : /\ x = hot_items[d + 1].create_time
                                      /\ y = hot_items'[i].create_time
      <4>1. \A h \in HotEntries : h.create_time \in Nat
        BY DEF HotEntries
      <4>2. hot_items[d + 1] \in HotEntries /\ hot_items'[i] \in HotEntries
        BY <1>0, <2>1, <2>3
      <4> QED
        BY <4>1, <4>2
    <3>2. x <= y
      BY <1>0, <2>3, <3>1, Zenon DEF HotInv
    <3>3. now - x <= Ttl
      <4>1. ~Expired(hot_items[d + 1])
        BY <2>2, <2>3, Zenon
      <4>2. ~(now - x > Ttl)
        BY <3>1, <4>1, Zenon DEF Expired
      <4> QED
        BY <1>0, <4>2
    <3>4. now \in Nat /\ Ttl \in Nat
      BY <1>0
    <3>5. now - y <= Ttl
      BY <3>2, <3>3, <3>4
    <3> QED
      BY <3>1, <3>5
  <2>5. DOMAIN hot_items' = 1 .. Len(hot_items')
    BY <2>1
  <2>6. HotEntriesExpire'
    <3>1. Ttl + (IF gc' = "expire" THEN 1 ELSE 0) = Ttl /\ now' = now
      BY <1>0, <1>1
    <3> QED
      BY <2>4, <2>5, <3>1, Zenon DEF HotEntriesExpire
  <2>7. ASSUME NEW i \in 1 .. Len(hot_items') PROVE HotOK(hot_items[i])'
    <3>1. HotOK(hot_items[d + i])
      BY <1>0, <2>3 DEF HotInv
    <3> QED
      BY <1>1, <2>3, <3>1 DEF HotOK, RetiredFrom
  <2>8. ASSUME NEW i \in 1 .. Len(hot_items'), NEW j \in 1 .. Len(hot_items'), i <= j
        PROVE  hot_items'[i].create_time <= hot_items'[j].create_time
    <3>1. d + i <= d + j
      BY <2>8, <2>2
    <3> QED
      BY <1>0, <2>3, <3>1, Zenon DEF HotInv
  <2> QED
    BY <2>1, <2>6, <2>7, <2>8 DEF HotInv
<1>8. ASSUME hot_items' = hot_items, gc # "expire"
      PROVE  hot_items' \in Seq(HotEntries) /\ HotInv'
  <2>1. HotEntriesExpire'
    BY <1>0, <1>1, <1>8 DEF HotInv, HotEntriesExpire
  <2>2. ASSUME NEW h, HotOK(h) PROVE HotOK(h)'
    BY <1>1, <2>2 DEF HotOK, RetiredFrom
  <2> QED
    BY <1>0, <1>8, <2>1, <2>2, Zenon DEF HotInv
<1>7. UseTypeOK'
  BY <1>0, <1>1, <1>5, <1>6, <1>8 DEF UseTypeOK
<1> QED
  BY <1>1, <1>2, <1>3, <1>4, <1>5, <1>6, <1>7, <1>8, Zenon DEF Inv

\* The invariant holds when the server has started.
LEMMA InvInit == Init => Inv
<1> SUFFICES ASSUME Init PROVE Inv
  OBVIOUS
<1>0. /\ sys = [n \in Namespaces |-> Absent] /\ data = [p \in KvPrefixes |-> {}]
      /\ prefixes = 0 /\ depls = 0 /\ scripts = <<>> /\ retired = {}
      /\ task = [a \in Admins |-> Idle]
      /\ items = <<>> /\ hot_items = <<>> /\ carry = [c \in Clients |-> NoItem]
      /\ now = 0 /\ gc = "asleep" /\ over = TRUE
      /\ req = [r \in Clients |-> Waiting] /\ retired_at = [v \in Revs |-> 0]
  BY DEF Init, CtlInit, CacheInit
<1>1. CtlTypeOK
  <2>1. MaxPrefix \in Nat /\ MaxDepl \in Nat /\ MaxRev \in Nat
    BY ControlAssumption
  <2>2. prefixes \in 0 .. MaxPrefix /\ depls \in 0 .. MaxDepl
    BY <1>0, <2>1
  <2>3. scripts \in Seq(Scripts) /\ Len(scripts) <= MaxRev
    BY <1>0, <2>1
  <2>4. sys \in [Namespaces -> NsRecords \cup {Absent}] /\ retired \subseteq 1 .. Len(scripts)
    BY <1>0, Zenon
  <2>5. data \in [KvPrefixes -> SUBSET {"row"}] /\ task \in [Admins -> Tasks]
    BY <1>0, Zenon DEF Tasks
  <2> QED
    BY <2>2, <2>3, <2>4, <2>5, Zenon DEF CtlTypeOK
<1>2. UseTypeOK
  <2>1. items \in Seq(ColdEntries) /\ hot_items \in Seq(HotEntries) /\ now \in Nat
    BY <1>0
  <2>2. gc \in {"asleep", "expire", "shrink"} /\ over \in BOOLEAN
    BY <1>0, Zenon
  <2>3. carry \in [Clients -> ColdEntries \cup {NoItem}]
    BY <1>0, Zenon
  <2>4. req \in [Clients -> Requests \cup {Waiting}] /\ retired_at \in [Revs -> Nat]
    <3>1. 0 \in Nat
      OBVIOUS
    <3> QED
      BY <1>0, <3>1, Zenon
  <2> QED
    BY <2>1, <2>2, <2>3, <2>4 DEF UseTypeOK
<1>3. StoreInv
  <2>a. \A n \in Namespaces, d \in Deployments : Deployment(n, d) = Absent
    BY <1>0, Zenon DEF Deployment
  <2>b. \A a \in Admins : task[a].at # "store"
    BY <1>0 DEF Idle
  <2>1. \A n \in Namespaces, q \in QueryScripts : ScriptOf(n, q) = Absent
    BY <1>0, Zenon DEF ScriptOf
  <2>2. 1 .. Len(scripts) = {}
    BY <1>0
  <2> QED
    BY <2>a, <2>b, <2>1, <2>2, Zenon DEF StoreInv, ScriptInv, DeplInv
<1>4. \A r \in Clients : ~Active(r)
  BY <1>0 DEF Active, Waiting
<1>5. PrefixInv /\ RequestPrefix
  BY <1>0, <1>4 DEF PrefixInv, RequestPrefix
<1>6. ColdInv /\ HotInv
  BY <1>0 DEF ColdInv, HotInv, HotEntriesExpire
<1>7. RequestInv
  BY <1>4, Zenon DEF RequestInv
<1> QED
  BY <1>1, <1>2, <1>3, <1>5, <1>6, <1>7 DEF Inv

\* Every step keeps the invariant.
LEMMA InvNext == Inv /\ [Next]_vars => Inv'
<1> SUFFICES ASSUME Inv, [Next]_vars PROVE Inv'
  OBVIOUS
<1>1. ASSUME NEW a \in Admins, Admin(a) PROVE Inv'
  <2>1. CtlTypeOK'
    BY <1>1, AdminType DEF Inv, StoreInv, Admin
  <2>2. StoreInv'
    BY <1>1, AdminScripts, AdminDeployments DEF Inv, StoreInv, Admin
  <2>3. PrefixInv'
    BY <1>1, AdminPrefix DEF Inv, Admin
  <2>4. UseTypeOK' /\ ColdInv' /\ HotInv' /\ RequestPrefix' /\ RequestInv'
    BY <1>1, AdminUse DEF Inv
  <2> QED
    BY <2>1, <2>2, <2>3, <2>4 DEF Inv
<1>2. CASE UNCHANGED vars
  <2>0. /\ UNCHANGED <<sys, data, prefixes, depls, scripts, task, retired>>
        /\ UNCHANGED <<items, hot_items, carry, now, gc, over, req, retired_at>>
    BY <1>2 DEF vars, ctlvars, cachevars
  <2>1. CtlTypeOK' /\ StoreInv'
    BY <2>0, StoreRests DEF Inv, CtlTypeOK
  <2>2. PrefixInv' /\ RequestPrefix'
    BY <2>0, Zenon DEF Inv, PrefixInv, RequestPrefix, Active
  <2>3. UseTypeOK'
    BY <2>0 DEF Inv, UseTypeOK
  <2>4. ColdInv'
    BY <2>0, Zenon DEF Inv, ColdInv, ColdOK
  <2>5. HotInv'
    BY <2>0, Zenon DEF Inv, HotInv, HotEntriesExpire, HotOK, RetiredFrom
  <2>6. RequestInv'
    BY <2>0, Zenon DEF Inv, RequestInv, RequestOK, RetiredFrom, Accepted, Active
  <2> QED
    BY <2>1, <2>2, <2>3, <2>4, <2>5, <2>6 DEF Inv
<1> QED
  BY <1>1, <1>2, ReadingSteps, HeatStep, CacheStep, SecondStep, CollectStep DEF Next

-----------------------------------------------------------------------------
\* In every reachable state the store, the cache and the requests agree as Inv
\* says, whatever calls and requests do in whatever order.
THEOREM Invariance == Spec => []Inv
BY InvInit, InvNext, PTL DEF Spec

\* gc's loop stops at the first young entry and yet misses no expired one: the
\* list of hot entries is in the order of their times.
THEOREM HotEntriesDoExpire == Spec => []HotEntriesExpire
<1>1. Inv => HotEntriesExpire
  BY DEF Inv, HotInv
<1> QED
  BY <1>1, Invariance, PTL

\* do_invoke_query never meets a stored script that does not load against the
\* deployment it finds under the id the script names: ids are drawn, so that what
\* the script was validated against cannot be replaced by something else.
THEOREM StoredScriptsDoLoad == Spec => []StoredScriptsLoad
<1>1. Inv => StoredScriptsLoad
  <2> SUFFICES ASSUME Inv, NEW r \in Clients PROVE req[r] # Invalid
    BY DEF StoredScriptsLoad
  <2>1. CASE req[r] = Waiting
    BY <2>1 DEF Waiting, Invalid
  <2>2. CASE req[r] # Waiting
    <3>1. Active(r)
      BY <2>2, Serving DEF Inv
    <3> QED
      BY <3>1 DEF Active, Invalid
  <2> QED
    BY <2>1, <2>2
<1> QED
  BY <1>1, Invariance, PTL

\* If no two scripts are stored with the same time, what the cache yields for the
\* full key is the script that the request has looked up.
THEOREM ColdHitsAreExact == ASSUME MillisDiffer PROVE Spec => []ColdHitIsTheScript
<1>1. Inv => ColdHitIsTheScript
  <2> SUFFICES ASSUME Inv, NEW r \in Clients, req[r].at = "heat"
               PROVE  carry[r].ctx = Ctx(req[r].script)
    BY Zenon DEF ColdHitIsTheScript
  <2>1. req[r] # Waiting
    BY AtWork, Zenon
  <2>2. RequestOK(req[r], carry[r])
    BY <2>1, Serving DEF Inv
  <2> QED
    BY <2>2, Zenon DEF RequestOK
<1> QED
  BY <1>1, Invariance, PTL

\* If no two scripts are stored with the same time, no request runs a script
\* longer after it was replaced or deleted than two lives of a request, the time
\* to live of a hot entry and a round of gc.
THEOREM StaleScriptsDoFade == ASSUME MillisDiffer PROVE Spec => []StaleScriptsFade
<1>1. Inv => StaleScriptsFade
  <2> SUFFICES ASSUME Inv, NEW r \in Clients, req[r].at = "run", req[r].ctx.rev \in retired
               PROVE  now - retired_at[req[r].ctx.rev] <= 2 * Life + Ttl + 1
    BY DEF StaleScriptsFade
  <2>1. req[r] # Waiting
    BY AtWork
  <2>2. req[r] \in Requests /\ RequestOK(req[r], carry[r])
    BY <2>1, Serving DEF Inv
  <2>3. PICK v \in Revs, s \in Nat : /\ v = req[r].ctx.rev /\ s = req[r].start
                                     /\ now <= s + Life
                                     /\ retired_at[v] >= s - Life - Ttl - 1
    BY <2>2, Zenon DEF RequestOK, RetiredFrom, Requests, Ctxs
  <2>4. retired_at[v] \in Nat /\ now \in Nat
    BY DEF Inv, UseTypeOK
  <2>5. PICK x \in Nat : x = retired_at[v]
    BY <2>4, Zenon
  <2>6. Life \in Nat /\ Ttl \in Nat
    BY LifeAssumption, CacheAssumption
  <2>7. now \in Nat /\ now <= s + Life /\ x >= s - Life - Ttl - 1
    BY <2>3, <2>4, <2>5, Zenon
  <2>8. now - x <= 2 * Life + Ttl + 1
    BY <2>6, <2>7
  <2> QED
    BY <2>3, <2>5, <2>8, Zenon
<1> QED
  BY <1>1, Invariance, PTL

\* A namespace that comes into being has a prefix that no other namespace and no
\* request in progress has, and under which nothing is stored.
THEOREM NewNamespacesAreEmpty == Spec => NewNamespaceIsEmpty
<1> DEFINE Empty == \A n \in Namespaces : sys[n] = Absent /\ sys'[n] # Absent =>
       /\ data'[sys'[n].prefix] = {}
       /\ \A r \in Clients : Active(r) => req[r].prefix # sys'[n].prefix
       /\ \A m \in Namespaces \ {n} : sys'[m] # Absent => sys'[m].prefix # sys'[n].prefix
<1>1. Inv /\ Inv' /\ [Next]_vars => [Empty]_vars
  <2> SUFFICES ASSUME Inv, Inv', Next,
                      NEW n \in Namespaces, sys[n] = Absent, sys'[n] # Absent
               PROVE  /\ data'[sys'[n].prefix] = {}
                      /\ \A r \in Clients : Active(r) => req[r].prefix # sys'[n].prefix
                      /\ \A m \in Namespaces \ {n} :
                           sys'[m] # Absent => sys'[m].prefix # sys'[n].prefix
    BY Zenon
  <2>0. sys \in [Namespaces -> NsRecords \cup {Absent}] /\ prefixes \in Nat /\ MaxPrefix \in Nat
    BY ControlAssumption DEF Inv, CtlTypeOK
  <2>1. PICK a \in Admins : Admin(a)
    BY Zenon DEF Next, LookUpPrefix, TryHot, LookUpScript, TryCold, MakeHot, Load, Cache, Run,
           RequestGivesUp, Second, Collect, ctlvars
  <2>2. PICK o \in Namespaces : CreateNamespace(a, o)
    <3>1. ASSUME NEW m, NEW d, CreateDeployment(a, m, d) \/ DeleteDeployment(a, m, d)
          PROVE FALSE
      BY <2>0, <3>1 DEF CreateDeployment, DeleteDeployment, Deployment
    <3>2. ASSUME NEW m, NEW q, DeleteScript(a, m, q) PROVE FALSE
      BY <2>0, <3>2 DEF DeleteScript
    <3>3. ~StoreScript(a)
      BY <2>0, Zenon DEF StoreScript
    <3>4. ~DeleteDrops(a)
      BY <2>0 DEF DeleteDrops
    <3>5. ~(UNCHANGED sys)
      OBVIOUS
    <3> QED
      BY <2>1, <3>1, <3>2, <3>3, <3>4, <3>5, Zenon
      DEF Admin, AdminNext, DeleteLooksUp, DeleteWipes, ValidateScript, AdminGivesUp
  <2>3. o = n
    BY <2>0, <2>2 DEF CreateNamespace
  <2>4. sys'[n].prefix = prefixes + 1 /\ data' = data /\ prefixes + 1 \in KvPrefixes
    BY <2>0, <2>2, <2>3 DEF CreateNamespace, NewNamespace, KvPrefixes
  <2>5. data[prefixes + 1] = {}
    <3>1. PrefixInv /\ prefixes + 1 > prefixes
      BY <2>0 DEF Inv
    <3> QED
      BY <2>4, <3>1, Zenon DEF PrefixInv
  <2>7. \A r \in Clients : Active(r) => req[r].prefix \in 1 .. prefixes
    BY Zenon DEF Inv, RequestPrefix
  <2>6. \A m \in Namespaces \ {n} : sys'[m] # Absent => sys'[m].prefix # sys'[n].prefix
    BY Zenon DEF Inv, PrefixInv
  <2>8. \A x \in 1 .. prefixes : x # prefixes + 1
    <3>1. prefixes \in Nat
      BY <2>0, Zenon
    <3> QED
      BY <3>1
  <2> QED
    BY <2>4, <2>5, <2>6, <2>7, <2>8, Zenon
<1>2. Spec => [][Empty]_vars
  BY <1>1, Invariance, PTL DEF Spec
<1> QED
  BY <1>2 DEF NewNamespaceIsEmpty

=============================================================================
