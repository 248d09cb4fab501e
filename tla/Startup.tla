------------------------------ MODULE Startup -------------------------------
(***************************************************************************)
(* The start of a server (SystemSchema::new of rdb-server/src/system.rs).  *)
(* Servers of several builds share one metadata store, which holds the     *)
(* text of the system schema and its storage plan.  A server whose build   *)
(* has another schema migrates the plan, if its operator says so, or       *)
(* aborts.  What it reads and writes is one transaction of FoundationDB    *)
(* (rdb-server/src/kv_backend/foundationdb.rs).                            *)
(***************************************************************************)
EXTENDS Integers, Sequences

CONSTANTS Servers,
          Build,      \* the schema a server is built with: [text, types, exports]
          Unset,      \* what an empty store is read as: [schema, plan]
          Planner(_, _, _, _),  \* generate_plan_for_schema of the planner
          MaxStored   \* bound on the number of plans stored

\* A schema is what compile makes of its text.
ASSUME BuildAssumption ==
  \A s, t \in Servers : Build[s].text = Build[t].text => Build[s] = Build[t]

VARIABLES stored,  \* the contents of the metadata store, the last being current
          server   \* Servers -> [pc, at, plan]; at counts the plans stored then

vars == <<stored, server>>

Process(pc, at, plan) == [pc |-> pc, at |-> at, plan |-> plan]
Down == Process("down", 0, <<>>)

Init == stored = <<>> /\ server = [s \in Servers |-> Down]

\* The keys "schema" and "plan" are read at the transaction's read version.
Read(at) == IF at = 0 THEN Unset ELSE stored[at]

\* A server draws keys that no other server draws, and draws them once from
\* what it has read.
NewPlan(s, at) == Planner(<<s, at>>, Read(at).plan, Read(at).schema, Build[s])

MigrationRequired(s) ==
  LET at == Len(stored)
  IN stored[at].schema.text # Build[s].text \/ stored[at].plan # NewPlan(s, at)

Stopped(s) == server[s].pc \in {"down", "aborted"}

Becomes(s, pc, at, plan) == server' = [server EXCEPT ![s] = Process(pc, at, plan)]

\* "Schema unchanged."  The transaction is dropped.
StartUnchanged(s) ==
  /\ Stopped(s)
  /\ stored # <<>>
  /\ ~MigrationRequired(s)
  /\ Becomes(s, "up", Len(stored), <<NewPlan(s, Len(stored))>>)
  /\ UNCHANGED stored

\* The first start creates the schema.  A later one that changes it must be
\* given the hash of its own schema on the command line.
StartChanged(s, approved) ==
  /\ Stopped(s)
  /\ Len(stored) < MaxStored
  /\ stored # <<>> => MigrationRequired(s)
  /\ IF stored = <<>> \/ approved
     THEN Becomes(s, "committing", Len(stored), <<NewPlan(s, Len(stored))>>)
     ELSE Becomes(s, "aborted", 0, <<>>)
  /\ UNCHANGED stored

\* Mutant of Conflicts: commits are blind.
ConflictsNever(s) == FALSE

\* FoundationDB refuses a commit when a key read has been written since.
Conflicts(s) == Len(stored) # server[s].at

Store(s) == stored' = Append(stored, [schema |-> Build[s], plan |-> server[s].plan[1]])

Commit(s) ==
  /\ server[s].pc = "committing"
  /\ ~Conflicts(s)
  /\ Store(s)
  /\ Becomes(s, "up", Len(stored) + 1, server[s].plan)

\* Mutant of CommitFails: a conflict is taken for a success.
CommitFailsQuietly(s) ==
  /\ server[s].pc = "committing"
  /\ Conflicts(s)
  /\ Becomes(s, "up", Len(stored), server[s].plan)
  /\ UNCHANGED stored

\* commit().await.unwrap(): a Conflict ends the process.
CommitFails(s) ==
  /\ server[s].pc = "committing"
  /\ Conflicts(s)
  /\ server' = [server EXCEPT ![s] = Down]
  /\ UNCHANGED stored

\* So does CommitStateUnknown, as does a crash while the commit is under way.
CommitUnknown(s) ==
  /\ server[s].pc = "committing"
  /\ \/ ~Conflicts(s) /\ Store(s)
     \/ UNCHANGED stored
  /\ server' = [server EXCEPT ![s] = Down]

\* A server crashes or is stopped.
Stop(s) ==
  /\ server[s].pc = "up"
  /\ server' = [server EXCEPT ![s] = Down]
  /\ UNCHANGED stored

Start(s) == StartUnchanged(s) \/ \E approved \in BOOLEAN : StartChanged(s, approved)

Next == \E s \in Servers :
          Start(s) \/ Commit(s) \/ CommitFails(s) \/ CommitUnknown(s) \/ Stop(s)

\* A supervisor starts the servers again, and a commit is answered.
Fairness == \A s \in Servers : WF_vars(Start(s)) /\ WF_vars(Commit(s) \/ CommitFails(s))

Spec == Init /\ [][Next]_vars /\ Fairness

-----------------------------------------------------------------------------
Up(s) == server[s].pc = "up"

\* A server that serves uses a schema and a plan that were stored, also when
\* others started at the same time: its keys are those a later start reads.
ServesStoredPlan ==
  \A s \in Servers : Up(s) => stored[server[s].at] = [schema |-> Build[s], plan |-> server[s].plan[1]]

\* Every plan in the store was made from the one it replaced, and by a server
\* that is built with its schema: no start was overtaken by another.
PlansFollow ==
  \A k \in 1 .. Len(stored) : \E s \in Servers :
    stored[k] = [schema |-> Build[s], plan |-> NewPlan(s, k - 1)]
=============================================================================
