--------------------------- MODULE StartupProofs ----------------------------
(***************************************************************************)
(* Whatever the planner makes of a schema, however many servers start and  *)
(* wherever they crash: a server serves a plan that is in the store, and   *)
(* every plan in the store was made from the one before it.                *)
(***************************************************************************)
EXTENDS Startup, TLAPS

\* The store is a sequence, and there is one process per server.
Shape ==
  /\ stored \in Seq({stored[k] : k \in 1 .. Len(stored)})
  /\ server = [s \in Servers |-> server[s]]

\* A server that is about to commit holds the plan it made from what it read,
\* which is still the entry of the log it has counted to.
CommitInv(s) ==
  server[s].pc = "committing" =>
    server[s].at \in 0 .. Len(stored) /\ server[s].plan = <<NewPlan(s, server[s].at)>>

\* A server that serves has counted the entry that it stored or found.
UpInv(s) ==
  Up(s) =>
    /\ server[s].at \in 1 .. Len(stored)
    /\ stored[server[s].at] = [schema |-> Build[s], plan |-> server[s].plan[1]]

Inv == Shape /\ PlansFollow /\ \A s \in Servers : CommitInv(s) /\ UpInv(s)

-----------------------------------------------------------------------------
\* What Append of Store does to the log: it keeps what is there and adds one.
LEMMA AppendKeeps ==
  ASSUME NEW e, stored \in Seq({stored[k] : k \in 1 .. Len(stored)}),
         stored' = Append(stored, e)
  PROVE  /\ Len(stored) \in Nat
         /\ Len(stored') = Len(stored) + 1
         /\ \A k \in 1 .. Len(stored) : stored'[k] = stored[k]
         /\ stored'[Len(stored) + 1] = e
         /\ stored' \in Seq({stored'[k] : k \in 1 .. Len(stored')})
<1> DEFINE S == {stored[k] : k \in 1 .. Len(stored)}
           T == S \cup {e}
<1>1. stored \in Seq(S)
  OBVIOUS
<1> HIDE DEF S
<1>2. stored \in Seq(T) /\ stored' \in Seq(T)
  BY <1>1
<1>3. /\ Len(stored) \in Nat
      /\ Len(stored') = Len(stored) + 1
      /\ \A k \in 1 .. Len(stored) : stored'[k] = stored[k]
      /\ stored'[Len(stored) + 1] = e
  BY <1>2
<1>4. \A x \in T : \E k \in 1 .. Len(stored') : stored'[k] = x
  BY <1>3 DEF S
<1>5. T \subseteq {stored'[k] : k \in 1 .. Len(stored')}
  BY <1>4
<1> QED
  BY <1>2, <1>3, <1>5

\* What is in the log stays there.
LogStays ==
  /\ Len(stored) \in Nat /\ Len(stored') \in Nat /\ Len(stored) <= Len(stored')
  /\ \A k \in 1 .. Len(stored) : stored'[k] = stored[k]

\* What one server has read, and the plan it makes of that, do not depend on
\* what is stored afterwards (the read version of a transaction).
LEMMA ReadRests ==
  ASSUME LogStays, NEW at \in 0 .. Len(stored), NEW s
  PROVE  NewPlan(s, at)' = NewPlan(s, at)
BY DEF NewPlan, Read, LogStays

\* A step of one server that only grows the log leaves what another holds right.
LEMMA OtherRests ==
  ASSUME NEW t \in Servers, CommitInv(t), UpInv(t), server'[t] = server[t], LogStays
  PROVE  CommitInv(t)' /\ UpInv(t)'
<1>1. CommitInv(t)'
  BY DEF CommitInv, NewPlan, Read, LogStays
<1>2. UpInv(t)'
  BY DEF UpInv, Up, LogStays
<1> QED
  BY <1>1, <1>2

\* A step of one server changes the entry of that server.
LEMMA OneServer ==
  ASSUME Inv, NEW s \in Servers, NEW p, server' = [server EXCEPT ![s] = p]
  PROVE  /\ server'[s] = p
         /\ \A t \in Servers : t # s => server'[t] = server[t]
         /\ server' = [t \in Servers |-> server'[t]]
BY DEF Inv, Shape

\* A start, a refused commit and a stop leave the log alone.
LEMMA QuietStep ==
  ASSUME Inv, NEW s \in Servers, NEW p,
         server' = [server EXCEPT ![s] = p], UNCHANGED stored,
         CommitInv(s)', UpInv(s)'
  PROVE  Inv'
<1>1. LogStays
  BY DEF Inv, Shape, LogStays
<1>2. Shape'
  BY OneServer DEF Inv, Shape
<1>3. PlansFollow'
  BY DEF Inv, PlansFollow, NewPlan, Read
<1>4. \A t \in Servers : t # s => CommitInv(t)' /\ UpInv(t)'
  BY <1>1, OneServer, OtherRests DEF Inv
<1> QED
  BY <1>2, <1>3, <1>4 DEF Inv

\* A commit that is not overtaken adds a plan made from the last one.
LEMMA StoreStep ==
  ASSUME Inv, NEW s \in Servers, NEW p,
         server[s].pc = "committing", ~Conflicts(s), Store(s),
         server' = [server EXCEPT ![s] = p],
         p = Down \/ p = Process("up", Len(stored) + 1, server[s].plan)
  PROVE  Inv'
<1>n. PICK n : n = Len(stored)
  OBVIOUS
<1> DEFINE e == [schema |-> Build[s], plan |-> server[s].plan[1]]
<1>1. stored \in Seq({stored[k] : k \in 1 .. Len(stored)}) /\ stored' = Append(stored, e)
  BY DEF Inv, Shape, Store
<1>2. /\ n \in Nat
      /\ Len(stored') = n + 1
      /\ \A k \in 1 .. n : stored'[k] = stored[k]
      /\ stored'[n + 1] = e
      /\ stored' \in Seq({stored'[k] : k \in 1 .. Len(stored')})
  BY <1>1, <1>n, AppendKeeps
<1>0. LogStays
  BY <1>2, <1>n DEF LogStays
<1>9. server'[s] = p /\ server' = [t \in Servers |-> server'[t]]
  BY OneServer
<1> HIDE DEF e
<1>3. Shape'
  BY <1>2, <1>9 DEF Shape
<1>4. server[s].at = n /\ server[s].plan = <<NewPlan(s, n)>>
  BY <1>n DEF Inv, CommitInv, Conflicts
<1>5. e = [schema |-> Build[s], plan |-> NewPlan(s, n)]
  BY <1>4 DEF e
<1>6. ASSUME NEW k \in 0 .. n, NEW t PROVE NewPlan(t, k)' = NewPlan(t, k)
  BY <1>0, <1>6, <1>n, ReadRests
<1>7. PlansFollow'
  <2>1. SUFFICES ASSUME NEW k \in 1 .. n + 1
                 PROVE  \E t \in Servers :
                          stored'[k] = [schema |-> Build[t], plan |-> NewPlan(t, k - 1)']
    BY <1>2 DEF PlansFollow, NewPlan, Read
  <2>2. CASE k = n + 1
    <3>1. k - 1 = n /\ n \in 0 .. n
      BY <1>2, <2>2
    <3>2. NewPlan(s, n)' = NewPlan(s, n)
      BY <1>6, <3>1
    <3> QED
      BY <1>2, <1>5, <2>2, <3>1, <3>2
  <2>3. CASE k \in 1 .. n
    <3>1. PICK t \in Servers : stored[k] = [schema |-> Build[t], plan |-> NewPlan(t, k - 1)]
      BY <1>n, <2>3 DEF Inv, PlansFollow
    <3>2. k - 1 \in 0 .. n
      BY <1>2, <2>3
    <3>3. NewPlan(t, k - 1)' = NewPlan(t, k - 1)
      BY <1>6, <3>2
    <3> QED
      BY <1>2, <2>3, <3>1, <3>3
  <2> QED
    BY <1>2, <2>2, <2>3
<1>8. \A t \in Servers : t # s => CommitInv(t)' /\ UpInv(t)'
  BY <1>0, OneServer, OtherRests DEF Inv
<1>10. CommitInv(s)'
  BY <1>9 DEF CommitInv, Down, Process
<1>11. UpInv(s)'
  BY <1>2, <1>9, <1>n DEF UpInv, Up, Down, Process, e
<1> QED
  BY <1>3, <1>7, <1>8, <1>10, <1>11 DEF Inv

-----------------------------------------------------------------------------
\* The empty store, and no server running.
LEMMA InitInv == Init => Inv
BY DEF Init, Inv, Shape, PlansFollow, CommitInv, UpInv, Up, Down, Process

\* Every step of every server keeps the invariant.
LEMMA NextInv == Inv /\ [Next]_vars => Inv'
<1>1. SUFFICES ASSUME Inv, [Next]_vars PROVE Inv'
  OBVIOUS
<1>2. CASE UNCHANGED vars
  <2>1. Shape' /\ UNCHANGED <<stored, server>>
    BY <1>1, <1>2 DEF vars, Inv, Shape
  <2>2. PlansFollow'
    BY <1>1, <2>1 DEF Inv, PlansFollow, NewPlan, Read
  <2>3. ASSUME NEW s \in Servers PROVE CommitInv(s)' /\ UpInv(s)'
    BY <1>1, <2>1 DEF Inv, CommitInv, UpInv, Up, NewPlan, Read
  <2> QED
    BY <2>1, <2>2, <2>3 DEF Inv
<1>3. ASSUME NEW s \in Servers, Start(s) \/ Commit(s) \/ CommitFails(s) \/ CommitUnknown(s) \/ Stop(s)
      PROVE  Inv'
  <2>1. \A p : server' = [server EXCEPT ![s] = p] => server'[s] = p
    BY <1>1, OneServer
  <2>2. Len(stored) \in Nat
    BY <1>1 DEF Inv, Shape
  <2>3. ASSUME server' = [server EXCEPT ![s] = Down], UNCHANGED stored
        PROVE  Inv'
    <3>0. server'[s] = Down
      BY <1>1, <2>3, OneServer
    <3>1. CommitInv(s)' /\ UpInv(s)'
      BY <3>0 DEF CommitInv, UpInv, Up, Down, Process
    <3> QED
      BY <1>1, <2>3, <3>1, QuietStep
  <2>4. CASE StartUnchanged(s)
    <3> DEFINE n == Len(stored)
    <3>1. /\ server' = [server EXCEPT ![s] = Process("up", n, <<NewPlan(s, n)>>)]
          /\ UNCHANGED stored
          /\ stored # <<>>
      BY <2>4 DEF StartUnchanged, Becomes
    <3>2. stored[n].schema.text = Build[s].text /\ stored[n].plan = NewPlan(s, n)
      BY <2>4 DEF StartUnchanged, MigrationRequired
    <3>3. n \in 1 .. n
      BY <1>1, <3>1 DEF Inv, Shape
    <3>4. PICK t \in Servers : stored[n] = [schema |-> Build[t], plan |-> NewPlan(t, n - 1)]
      BY <1>1, <3>3 DEF Inv, PlansFollow
    \* The schema found has the server's text, so it is the server's schema.
    <3>5. Build[t] = Build[s]
      BY <3>2, <3>4, BuildAssumption
    <3>6. stored[n] = [schema |-> Build[s], plan |-> NewPlan(s, n)]
      BY <3>2, <3>4, <3>5
    <3>7. server'[s] = Process("up", n, <<NewPlan(s, n)>>)
      BY <2>1, <3>1
    <3>8. CommitInv(s)'
      BY <3>7 DEF CommitInv, Process
    <3>9. UpInv(s)'
      BY <3>1, <3>3, <3>6, <3>7 DEF UpInv, Up, Process
    <3> QED
      BY <1>1, <3>1, <3>8, <3>9, QuietStep
  <2>5. ASSUME NEW approved \in BOOLEAN, StartChanged(s, approved)
        PROVE  Inv'
    <3> DEFINE n == Len(stored)
    <3>1. CASE Becomes(s, "committing", n, <<NewPlan(s, n)>>) /\ UNCHANGED stored
      <4>1. server'[s] = Process("committing", n, <<NewPlan(s, n)>>)
        BY <2>1, <3>1 DEF Becomes
      <4>3. CommitInv(s)'
        BY <2>2, <3>1, <4>1 DEF CommitInv, Process, NewPlan, Read
      <4>4. UpInv(s)'
        BY <4>1 DEF UpInv, Up, Process
      <4> QED
        BY <1>1, <3>1, <4>3, <4>4, QuietStep DEF Becomes
    <3>2. CASE Becomes(s, "aborted", 0, <<>>) /\ UNCHANGED stored
      <4>1. server'[s] = Process("aborted", 0, <<>>)
        BY <2>1, <3>2 DEF Becomes
      <4>2. CommitInv(s)' /\ UpInv(s)'
        BY <4>1 DEF CommitInv, UpInv, Up, Process
      <4> QED
        BY <1>1, <3>2, <4>2, QuietStep DEF Becomes
    <3> QED
      BY <2>5, <3>1, <3>2 DEF StartChanged
  <2>6. CASE Commit(s)
    BY <1>1, <2>6, StoreStep DEF Commit, Becomes
  <2>7. CASE CommitFails(s)
    BY <2>3, <2>7 DEF CommitFails
  <2>8. CASE CommitUnknown(s)
    BY <1>1, <2>3, <2>8, StoreStep DEF CommitUnknown
  <2>9. CASE Stop(s)
    BY <2>3, <2>9 DEF Stop
  <2> QED
    BY <1>3, <2>4, <2>5, <2>6, <2>7, <2>8, <2>9 DEF Start
<1> QED
  BY <1>1, <1>2, <1>3 DEF Next

\* The invariant of SystemSchema::new.
LEMMA Invariant == Spec => []Inv
BY InitInv, NextInv, PTL DEF Spec

\* A server that serves uses a schema and a plan that are in the store, for any
\* planner, any number of servers and builds, and whatever crashes or conflicts.
THEOREM ServesStored == Spec => []ServesStoredPlan
<1>1. Inv => ServesStoredPlan
  BY DEF Inv, UpInv, ServesStoredPlan
<1> QED
  BY <1>1, Invariant, PTL

\* Each stored plan was made by a server of its schema from the plan before it:
\* two servers that start together never both replace the same plan.
THEOREM PlansAreFollowed == Spec => []PlansFollow
<1>1. Inv => PlansFollow
  BY DEF Inv
<1> QED
  BY <1>1, Invariant, PTL

=============================================================================
