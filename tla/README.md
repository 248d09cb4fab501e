# A verification of RefineDB in TLA+

RefineDB is a strongly typed document database. A *schema* describes tables and
sets; a *storage plan* gives each of their fields a key; *query scripts* are
compiled to data flow graphs, which the TreeWalker VM runs in a transaction of an
ordered key-value store. This directory models the parts of RefineDB in which
concurrency, failure or a long history of calls decides whether the answers are
right. TLC checks the models on small instances. For the in-memory store, query
execution on SQLite, the graph scheduler, the cache with the control service and the
requests that use it, the start of servers, and the encoding of keys, TLAPS proves
safety properties for all instances.

## 1. The system

| part | source | state | operations |
|---|---|---|---|
| key-value interface, in-memory stores | `data/kv.rs`, `data/mock_kv.rs`, `rdb-pgsvc/src/memkv.rs` | a map of versioned entries; private copies per transaction | begin, get, put, delete, delete_range, scan_keys, commit, drop |
| SQLite backend | `kv_backend/sqlite.rs` | database, connection pool, a worker task, a channel and a log of writes per transaction | the same, executed by the worker |
| FoundationDB backend | `kv_backend/foundationdb.rs` | the client's transaction; a batched iterator | the same |
| query execution | `treewalker/exec.rs` (`run_graph`), `rdb-server/src/exec.rs` | iteration of the retry loop, timer | run, retry after conflict, time out |
| graph scheduler | `treewalker/exec.rs` (`recursively_run_graph`) | parameters that arrived, preconditions, running futures | complete a node, fire others |
| type checker | `treewalker/typeck.rs` | none | accept or refuse a graph |
| assembler | `treewalker/asm/` | scopes and conditions while a graph is built | make nodes of statements |
| values and their encodings | `treewalker/vm_value.rs`, `treewalker/serialize.rs`, `data/value.rs` | none | convert, compare, encode in results and in keys |
| nodes | `treewalker/exec.rs` (`run_node`, `walk_and_insert`, `delete_set`) | rows | one per node kind |
| path walker | `data/pathwalker.rs` | none | enter a field, enter a set member, make a key |
| schema compiler | `schema/compile.rs` | types resolved so far | resolve declarations and exports |
| storage planner | `storage_plan/planner.rs`, `rdbctl/src/main.rs` | deployments so far | plan a schema from an older plan |
| query cache | `query_cache.rs` | two LRU lists | get_hot, get, put, gc |
| control service | `server.rs`, `sys.rasm`, `sysquery.rs` | namespaces, deployments, scripts, data | create and delete each of them |
| HTTP requests | `httpapi.rs` | progress of each request | look up, load, cache, run |
| start-up | `system.rs`, `main.rs` | stored system schema and plan | create, migrate |
| parsers, playground, command line | grammars, `rdb-pgsvc`, `rdbctl` | none | conversions and printing |

An HTTP request reads the system store through graphs of `sys.rasm`, takes the
script from the query cache or loads it against its deployment, and runs a graph of
it on the data store of the namespace's key prefix. Each graph runs in one
transaction of a backend, behind the retry loop and a timeout. Control calls change
the system store at the same time. `rdbctl` plans new deployments from old ones, and
all the deployments of a namespace share one key space.

What is hard here, and where it is covered:

- transactions that interleave, and versions standing for values: `MvccKv`;
- a caller that gives up while a worker goes on, retries, a limited pool: `RunGraph`;
- futures that complete in any order: `GraphExec`;
- conditions that the text nests and the graph does not: `Assembler`, `ScriptExec`;
- values that tell more, or less, than their types: `TypedEval`;
- operations of several transactions that overlap or stop half way: `ControlPlane`;
- cached scripts that are out of date: `QueryCache`, `InvokeQuery`;
- keys that several schemas share over a history of migrations: `Migrations`;
- one document kept in many rows, ordered by their bytes: `TreeStore`, `KeyEncoding`;
- servers of several builds on one store, crashing while they migrate it: `Startup`.

`PROJECT.json` lists the hazards line by line with the properties that cover them.

## 2. Modules

```
SnapshotKv  <--implements-- MvccKv <-- MvccKvProofs
SqliteKv <-- RunGraph <-- RunGraphProofs
GraphExec <-- GraphTypes, and Assembler <-- ScriptExec
              GraphTypes <-- GraphExecLemmas <-- GraphExecProofs
QueryCache, ControlPlane <-- InvokeQuery <-- InvokeQueryProofs
Startup <-- StartupProofs
KeyEncoding <-- KeyEncodingProofs
Induction <-- RunGraphProofs, GraphExecLemmas, InvokeQueryProofs, KeyEncodingProofs
SchemaCompiler <-- StoragePlanner, and Startup <-- StartupPlans
                   StoragePlanner, KeyEncoding <-- PathWalker <-- Migrations
                                                   PathWalker <-- TreeValues <-- Document, TreeStore
SchemaCompiler <-- VmValues <-- NodeTypes <-- NodeEval <-- TypedEval
```

(`A <-- B`: B extends A.) Each `MC...` module gives the constants of a model to TLC.
A definition whose comment starts with "Mutant of" is a broken form of the
definition that follows it. Replacing the right one by the broken one makes the
property named in `PROJECT.json` fail, which shows that the property depends on it.

**SnapshotKv** is what callers of the interface rely on. A transaction reads the
state of its start and never its own writes. Its commit succeeds exactly if nobody
else committed a key that it wrote. A scan lists the keys of its own view.

**MvccKv** is `MockKv`, and `MemKv`, which is the same code. `data`, `read_buffer`,
`buffer` and `modified` are the fields of that name; a map is a total function, and
version 0 stands for "no entry". Each method is an action. `commit` is one step
because it holds the store's lock throughout. The mapping to `SnapshotKv` forgets
the versions: a key whose version differs from the snapshot's is a missed update.

**SqliteKv** splits a transaction as the code does: the caller's object with its log,
and the worker with its queue, connection and SQLite snapshot. All workers share one
thread and a closure does not yield, so each is one step. `Abandon` is the drop of a
future at an await. SQLite is external. From it we take that a deferred transaction
gets its snapshot at its first statement, that writing from a snapshot which is not
the latest fails with "database is locked", and that a statement which touches no
row does not make other snapshots old.

**RunGraph** puts `run_graph` and the timeout of `run_exported_graph` on top. What
the graph does is left open: any reads, any writes, or an error. The result is
encoded after the commit, and a table or set that is returned cannot be: the call then
ends with an error, `unserializable`, and its writes are applied. `ResultTellsApplied`
says so: such an error does not mean that nothing happened. `Wipes` is the one other
writer of the data store, the transaction of `delete_namespace`.

**GraphExec** is the scheduler. A graph is a sequence of nodes with parameters (`in`)
and a precondition (`pre`). A value is reduced to what the scheduler distinguishes
(true, false, null, other data, no value) together with a term that says how it was
computed. A call has a type and yet no value if the output node of its subgraph does
not fire; a node that takes it as a parameter then panics, which `Starves` describes
(`exec.rs`, 228). `Complete(f)` is one turn of the loop, with both loops over the fire
rules. `Meaning` is the reference: the value of every node, computed in order without
a scheduler. **GraphTypes** holds the rules of the type checker that the scheduler
relies on, the types as the vector that `typeck_graph` fills in order.

**QueryCache** has both LRU lists as sequences. `get` is two steps, as it releases
the lock of `items` before it takes that of `hot_items`; so is a round of `gc`, which
holds the lock of one list and then that of the other.

**ControlPlane** has the state-changing handlers. A graph of `sys.rasm` is one step,
because it is one serializable transaction (checked in `RunGraph`:
`ReadsCurrentAtCommit`). `delete_namespace` and `create_query_script` are several,
and `AdminGivesUp` stops them in between. A deployment has a schema, a script a text,
and `Loads` has the pairs that `ExecContext::load` accepts: a script is validated
against what its deployment is then, and loaded against what it is when a request
comes. **InvokeQuery** composes it with the cache
and with HTTP requests, one step per await of `do_invoke_query`.

**Assembler** makes nodes of statements and expressions as `codegen.rs` does, with
its table of names and its stack of conditions. **ScriptExec** gives the result to
the type checker and the scheduler. What the script should do is said by
`ScriptMeaning`, an interpreter of the text that knows neither nodes nor
preconditions.

**SchemaCompiler** is `compile`: declarations with type parameters become specialized
types with fields of primitive, table and set types, or an error. A specialized name
is the pair of name and arguments that the code prints. The reference,
`IsDeclaredBy`, substitutes in the declarations without a table of resolved types.

**StoragePlanner** and **PathWalker** are pure algorithms with the names of the code.
**KeyEncoding** has the bytes of primary keys and the order of keys; a storage key is
an opaque symbol among the bytes, and `Size` is the number of bytes of an integer.
**Migrations** is a namespace's history: each
deployment is compiled and then planned from scratch or from any earlier one.

**TreeStore** applies the effect nodes to rows and, in the same step, to the document
of **Document**, where a document simply has places with values. It also has the
range scan of `Reduce` with the batched iterator of the FoundationDB backend, of
which the rows a batch holds are the one thing FoundationDB decides. **TreeValues**
has the values both speak of.

**Startup** is `SystemSchema::new` on servers that are started, stopped and
crash. `stored` is the history of the metadata store; a transaction of FoundationDB
reads at one version and is refused if what it read has been written since. The
planner is a parameter: how a start decides does not depend on what a plan is.
**StartupPlans** gives it the planner of `StoragePlanner` and states what depends on it.

**VmValues** has types, values and their serialized forms; **NodeTypes** the rule
that `typeck.rs` has for each kind of node, and **NodeEval** what `run_node` does for
it, with every `unreachable!()`, `unwrap()` and `expect()` as an end of its own.
**TypedEval** runs one accepted node after the other on what it has so far. A
subgraph is run in line: its parameters and its output pass a node `Call` with the
declared types. A primitive value stands for all of its type, except that the sign
of a double is kept; a primitive read from the store is any value of its field's
type, which `TypeSound` justifies, as it comes back from its untagged form.

## 3. Runs

| run | configuration | states | shows |
|---|---|---|---|
| `mvcc` | `MCMvccKv` | 52 thousand | `TypeOK`, `VersionsIdentifyValues`, `ModifiedNotesFirstVersion`, `NoLostUpdate`, `VersionsGrow`, `SnapshotIsolation` |
| `run_graph` | `MCRunGraph` | 184 thousand | `AppliedAtMostOnce`, `ResultTellsApplied`, `NoLateCommit`, `ConnectionsAccounted`, `ReadsCurrentAtCommit`, `EveryCallReturns` |
| `graph` | `MCScriptExec` | 115 thousand | `FiresOnce`, `OnlyMeantNodesFire`, `Confluent`, `OutputMeant`, `ScriptMeant`, `Terminates` |
| `graph_twice` | `MCGraphExecTwice` | - | violates `FiresOnce` |
| `or_else` | `MCOrElse` | - | violates `ScriptMeant` |
| `invoke` | `MCInvokeQuery` | 1.4 million | `ColdHitIsTheScript`, `StaleScriptsFade`, `HotEntriesExpire`, `StoredScriptsLoad`, `NewNamespaceIsEmpty` |
| `delete_namespace` | `MCDeleteNamespace` | - | violates `DeletedNamespaceIsEmpty` |
| `migrations` | `MCMigrations` | 14 thousand | `CompiledAsDeclared`, `PlanFits`, `PlansAccepted`, `KeysDistinct`, `KeyKeepsType`, `DataStaysReachable`, `MemberRangesExact`, `PathsHaveTheirOwnKeys` |
| `tree_of_sets` | `MCTreeOfSets` | - | violates `FieldsAreFound` |
| `tree` | `MCTreeStore` | 4 thousand | `ReduceVisitsTheRange`, `MembersKnowTheirKey`, `RowsAreTheDocument` |
| `startup` | `MCStartup` | 0.7 thousand | `ServesStoredPlan`, `SharedFieldsShareKeys`, `RestartsComeUp` |
| `types` | `MCTypedEval` | 1.6 thousand | `TypeSound`, `PanicsExplained`, `ResultsReadBack` |

Each property is explained where it is defined. `tlc -config X.cfg M` runs one
configuration, with the module that `PROJECT.json` names for it.

### Bounds

For `mvcc`, `run_graph`, `invoke`, the graphs of `graph` and `ServesStoredPlan` of
`startup` the proofs of section 4 remove the bounds, except for liveness and for what
scripts mean.

- `mvcc`: two transaction handles, which can be used again and again, two keys and
  versions up to 2. Two handles are a transaction and the one that overlaps it. Two
  versions are enough for one to be overwritten and for a tombstone to be written
  over.
- `run_graph`: two calls of two attempts (the code has ten), one key, two
  connections, one write and two reads in flight. A conflict needs two calls, a
  repetition two attempts. As a call commits at most once, the second conflict that
  exhausts the attempts of the other comes from `Wipes`. The worker of a dropped
  transaction still holds its connection, so that calls do wait for one.
- `graph`: all well-typed graphs of three nodes, calls without a value included (`not`,
  `and` and `nop` are met in the scripts), and those of four nodes of the kinds true,
  false, effect and select that end with one of the last two. A branch with its condition, two
  alternatives and the select that joins them is four nodes. The scripts have an `if`
  with `else` around another `if` or `??`, with every combination of true, false and
  null conditions, and a use of both branches after it; their graphs are larger. They
  call no subgraphs. Doubly connected nodes are left out; `graph_twice` has them.
- `invoke`: two control calls and a request, five seconds and a time to live of zero,
  so that hot entries expire at the next look; one namespace id under which two
  namespaces exist one after the other; two scripts, so that the hot list has an order,
  in two revisions; two schemas, each with a text of its own. `MCBound` keeps the two
  dimensions apart: before the clock moves both control calls run, with up to two
  deployments; while it moves, one at a time, with one deployment and no second
  namespace. The proofs need neither, nor that there is one namespace id only, on which
  the part of `NewNamespaceIsEmpty` about other namespaces depends. A request lives
  `Life` seconds at most (each of its graphs has a timeout). Instead of time
  `delete_namespace` has two requests.
- `migrations`: three deployments of seventeen schemas that add, drop, rename and
  retype fields, nest, recurse directly and mutually, hold sets and use generic types,
  one of which ignores its parameter; some the compiler refuses. Three deployments let
  a field go and come back. The primary keys differ in a zero byte at the end, or are
  strings one of which is a prefix of the other. The depth limit of paths is 5 instead
  of 64, so that it is reached. The number of deployments is what makes this model
  stop, so deadlock is not checked there.
- `tree`: a set of tables with a nested table and a nested set, two primary keys for
  each set and one number. The keys are numbers on both sides of zero, and strings
  one of which is a prefix of the other. Every reachable store is explored, with all
  ranges and with batches of one and two keys. Numbers have two bytes, as many as their
  order needs. The assumption `EncodingKeepsOrder` of `MCTreeStore` compares the
  encoding with the order of the values at the boundaries of all types; `KeysKeepOrder`
  proves it for all values and any number of bytes.
- `startup`: two servers of one build and one of another that drops a field and
  renames one; four plans stored, which lets each build migrate to the other and back.
- `types`: one value in use besides the ones every script has at hand (constants,
  parameters, empty lists and maps, the exports); lists of one element, maps of two
  fields that are neither maps nor lists. Nodes whose parameters are several computed
  values are thus met with one of them computed and the others at hand. Six declared
  types and six values from callers, null and a list with null among them. `Configs` has
  the encodings of both routes: `invoke_query` (JSON) sends numbers and bytes as text,
  `invoke_query_msgpack` as such.

Symmetry is used for transactions, control calls, clients and times, in runs without
liveness.

### Fairness

`run_graph` assumes that the worker thread runs a task that is ready, that a call
whose awaited answer has arrived goes on, and that the timer of a call fires. Tokio
guarantees these to ready tasks; nothing is assumed of the graph, which may run
forever. `graph` assumes that `select_all` returns when a node can complete.
`startup` assumes a supervisor that starts a stopped server again, and that a commit
is answered unless the server dies first. It does not assume that migrations are ever
approved, that servers stay up or that commits succeed.

### Disagreements

- `graph_twice`: a comment in `exec.rs` (line 250) says that one source may be
  connected to several parameters of a target. The target is started once per
  connection, the second time without parameters, and indexes out of bounds.
- `delete_namespace`: `server.rs` (line 113) announces the deletion of all data. It
  is skipped if the lookup of the prefix fails, and rows written between the two
  deletions stay.
- `tree_of_sets`: tables can be recursive, but in a table with a set of tables of its
  own type the inner members are reference nodes, which `enter_set_raw` does not
  follow. Their fields are not found, where `GetField` expects them to be.

- `or_else`: comments in `codegen.rs` (lines 312 and 318) say that `l ?? r` is `r` if
  `l` is null and `l` otherwise. If `r` is a name, it stands for its node, which is
  not under the condition, so that both candidates of the select fire if `l` is not
  null. The query fails, panics or returns either of them.

`types` passes with the list `KnownGaps`, the places where the checker accepts what
`run_node` does not expect. Each of them is reached:

| end | place | what happens |
|---|---|---|
| no primary key | `exec.rs`, 344 | `BuildSet` of tables that have none |
| null member | `exec.rs`, 346 | a list with a null, which `decode` lets a caller pass |
| null primary key | `exec.rs`, 350 | a table that was built without it |
| wide map | `exec.rs`, 373 | `BuildTable` takes fields that the type of its map does not tell, unchecked |
| narrow initial value | `typeck.rs`, 711 | the initial value of `Reduce` may tell less than the output, which is its type if nothing is visited |
| call without output | `exec.rs`, 547 and 228 | the checker sees that a subgraph has an output, not that the output node fires; a node that uses the call's value panics |
| reduce without output | `exec.rs`, 654 and 715 | the same for the subgraph of `Reduce`, of which an output is expected for every member |
| double read as int64 | `value.rs`, 21 | untagged; a double without sign is read back as an integer |

Seen while modelling, without a run: if both candidates of a select fire, the answer
or the error depends on the order (`exec.rs`, 263). Two scripts stored in one
millisecond share a cache key (`query_cache.rs`, 48). The memory usage that decides
about shrinking the cache is read once (104). A step of shrinking can go below the
minimum size (146). A Null over a set leaves its members, which a `Reduce` that does
not ask for presence still visits (`exec.rs`, 795). A string primary key with the
character NUL can run into the terminator of its neighbour's key (`value.rs`, 79). A
double that is sent as text, as `invoke_query` does, is read as the number of its bits
(`serialize.rs`, 139 and 212; `httpapi.rs`, 86), so that passing a result back as a
parameter fails or gives another number; `ResultsReadBack` says that doubles sent as
text are the only results that do not come back. A type that contains ever larger
specializations of itself is resolved without end (`compile.rs`, 359). A field that a
migration of the system schema drops and a later one brings back has a new key, while
a server started before both uses the old one (`system.rs`, 76).

## 4. Proofs

Every theorem holds for all values of the constants that satisfy the assumptions. Each
inductive invariant was also checked by TLC, on the instance of the run, before it was
proved. In each of the four developments `Invariance` says that it holds in all
reachable states, and the properties of the run follow from it.

### The in-memory store: `MvccKvProofs`

| theorem | says |
|---|---|
| `TypeCorrect` | `Spec => []TypeOK` |
| `Invariance` | `Spec => []IInv` |
| `VersionsIdentify` | `Spec => []VersionsIdentifyValues` |
| `FirstVersionNoted` | `Spec => []ModifiedNotesFirstVersion` |
| `StoreVersionsGrow` | `Spec => VersionsGrow` |
| `LostUpdateFree` | `Spec => NoLostUpdate` |
| `ImplementsSnapshotIsolation` | `Spec => SnapshotIsolation` |

The assumptions are that keys and range bounds are integers (for their order), that
the markers for "no value" and "no write" are not values, and that versions are
natural numbers.

The argument: a commit compares the version noted at the first write with that of
the store. This is sound because the noted version is the snapshot's
(`ModifiedNotesFirstVersion`) and because equal versions mean equal entries
(`VersionsIdentifyValues`). Neither is inductive alone. That a commit keeps the second
for the other transactions needs the buffer's version to be larger than the noted
one, which is part of the first. The refinement also needs `Residue`: a key
without an entry has no value, and an ended transaction keeps nothing. `IInv` is
their conjunction with the types. For the refinement, each call maps to the abstract
call of the same name. `RefineCommit` is the only case that needs the invariant in
full, since there a comparison of versions must be the abstract test for missed
updates.

### Query execution on SQLite: `RunGraphProofs`

| theorem | says |
|---|---|
| `Invariance` | `Spec => []Inv` |
| `AppliedOnce` | `Spec => []AppliedAtMostOnce` |
| `ResultIsTrue` | `Spec => []ResultTellsApplied` |
| `NothingCommitsLate` | `Spec => []NoLateCommit` |
| `PoolAccounted` | `Spec => []ConnectionsAccounted` |
| `ReadsAreCurrent` | `Spec => ReadsCurrentAtCommit` |

Assumed are integer keys and bounds, a pool and a number of attempts of at least one,
and that every attempt of a call has a transaction of its own.

`AppliedAtMostOnce` cannot be seen from the transactions alone: what makes a retry safe
is that the one before it was refused and has nothing queued any more. `LoopInv` says
so. It ties the place of a call in `run_graph` (`CallInv`) to the state of its
transactions: those of earlier attempts were refused, those of later attempts are
untouched, and the one of the current attempt is uncommitted while the graph runs, has
its commit queued or answered while the call waits for it, and is as `Left` says when
the call has returned. `PoolInv` counts connections. It needs the set of busy workers
to be finite, which holds because each of them took a connection. `ReadInv` is about
the snapshots: one that was taken at the current number of changes is the database
itself, so that a commit which SQLite accepts has read current rows. A log that
touches no row leaves the count alone; that it leaves the rows alone too is the lemma
`UntouchedRows`, an induction over the log.

### Cache, control service and requests: `InvokeQueryProofs`

| theorem | says |
|---|---|
| `Invariance` | `Spec => []Inv` |
| `HotEntriesDoExpire` | `Spec => []HotEntriesExpire` |
| `StoredScriptsDoLoad` | `Spec => []StoredScriptsLoad` |
| `ColdHitsAreExact` | `Spec => []ColdHitIsTheScript`, if `MillisDiffer` |
| `StaleScriptsDoFade` | `Spec => []StaleScriptsFade`, if `MillisDiffer` |
| `NewNamespacesAreEmpty` | `Spec => NewNamespaceIsEmpty` |

Assumed of the constants is that they are natural numbers, a step of shrinking and the
life of a request at least one. `MillisDiffer` is a hypothesis of two theorems and not
an assumption: the key of the cold list has the creation time of a script in
milliseconds, and without it the two properties do fail (section 3).

The invariant follows what a request carries through its awaits. A script it has
looked up was accepted at that revision, and was not retired before the request
started (`RequestInv`); an entry of the cold list is what that script loads to
(`ColdInv`); a hot entry was made at most `Life` after its script was retired
(`HotInv`). Together they bound how long a script is run after it was replaced:
`StaleScriptsFade` is not inductive without the bound on the hot entries, nor that
without the one on requests. That `gc` may stop at the first young entry needs the
order of the hot list, which `PutLruKeepsOrder` shows for the moves of an LRU list.
`StoredScriptsLoad` needs `DeplInv`: an identifier of a deployment is used once, so that
what is found under it, if anything, is what the script was validated against,
whatever was deleted and created anew between validation, storing and loading
(`Validated`, which every step of the control service keeps: `StaysValidated`).
`PrefixInv` and `RequestPrefix` say that prefixes in use have been drawn, so that a
new one is nobody's. The first part of the module has the lemmas about the lists and
the control service, the second the steps that leave the cache alone, the third those
that change it.

### The graph scheduler: `GraphExecProofs`

| theorem | says, if `Simple` |
|---|---|
| `Invariance` | `Spec => []Inv` |
| `NodesFireOnce` | `Spec => []FiresOnce` |
| `OnlyMeantFire` | `Spec => []OnlyMeantNodesFire` |
| `ScheduleIsConfluent` | `Spec => []Confluent` |
| `OutputIsMeant` | `Spec => []OutputMeant` |

Assumed is that the graphs are sequences of nodes and that the type checker accepts
them (`GraphsAssumption`, `GraphsTyped`); they may have any size. `Simple` says that no
node is connected to another one twice. It is a hypothesis because the code does not
ensure it: without it `FiresOnce` fails, as `graph_twice` shows.

The argument: once a node has a value, the value stays. `Ready` says which nodes a set
of values lets fire, and everything `recursively_run_graph` keeps is a function of the
values so far (`SchedulerInv`): a node has been fired, once, exactly if it is ready,
and the futures are the ready nodes without a value. `FiresOnce` alone is far from
inductive, since a node that is visited a second time is started a second time; what
excludes the visit is that all its sources had completed (`Completion`). For the
meaning, `MeantInv` says that the values are the meant ones unless a select is
ambiguous, that is, unless two of its candidates are meant to fire. A ready node is
then meant to fire and computes the meant value (`ReadyIsMeant`), for a select because
only one of its candidates is ever present. Values have the types of their nodes
(`ResultFits`), so that what panics is a call without a value in the place of a
parameter (`Starves`), and nothing else. Conversely, if nothing runs any more then
every meant node has run (`AllMeantRun`): of the ones that have not, the first would
be ready. The lemmas of `GraphExecLemmas` speak of graphs and values only.

### The start of servers: `StartupProofs`

| theorem | says |
|---|---|
| `ServesStored` | `Spec => []ServesStoredPlan` |
| `PlansAreFollowed` | `Spec => []PlansFollow` |

Assumed is that builds with the same text have the same schema, as it is compiled from
the text. The planner may be any operator of the old plan, the two schemas and the keys
that the server draws.

The argument: a plan that is about to be committed was made from the contents it read
(`CommitInv`), and the commit is accepted only if these are still the last ones. This
needs nothing of the crashes, since a server that comes up again starts from what is
stored then. A server that found nothing to change serves the stored plan because its
own is equal to it and its text is the stored text; that its whole schema is the stored
one needs the assumption and `PlansFollow`, by which the stored schema is that of some
build.

### The encoding of keys: `KeyEncodingProofs`

| theorem | says |
|---|---|
| `KeysKeepOrder` | the key components of two values of one type are in the order of the values |
| `KeysTellApart` | two values with the same key component are one value of one type |
| `PrefixRange` | the range up to a prefix with its last byte raised by one is what begins with it |
| `MemberRange` | the range deleted for a member holds keys of this member only, and all of them |

Values are bytes and strings of any length, and integers and doubles of `Size` bytes
(`Size` at least one; 8 in the code). `MemberRange` leaves out strings with the
character NUL, for which it is false (section 3). `PrefixRange` and `MemberRange` speak
of keys with storage keys among their bytes, of which nothing is used but that they
are not bytes.

The argument: `Before` is the order of sequences of bytes, and `LessIsBefore` shows that
the store's order is this one. For a number, shifting out byte after byte keeps the
order until the rests are equal (`ShiftsMonotone`, `ShiftsMeet`); where they last differ
is the first byte that differs, and the lesser number has the lesser one there
(`BigEndianOrder`). Flipping the top bit moves negative numbers below the others
(`WordsInOrder`). For bytes, the escaped forms agree as long as the bytes do, and then
the tails decide (`EscapedSplit`): one has the lesser byte, or it is at its terminator
where the other goes on with an escaped zero.

### Induction

The theorems of the library about induction have an operator as a parameter, which no
installed prover instantiates. `Induction` gets what is needed from the least element
of a set of numbers: a set that has 0 and the successors of its members has all numbers
(`NaturalsClosed`), and a function that is defined step by step from 0 to n exists
(`RecursionExists`). With them `RowsAfterUnfolds`, `TypesUnfold`, `MeaningUnfolds`,
`WordsIsPower`, `BytesOfShifts` and `EscapedIsLast` show that the recursive functions of
the models satisfy their defining equations.

### Only model-checked

- Liveness under fairness (`EveryCallReturns`, `Terminates`, `RestartsComeUp`), which
  the prover does not support.
- `ScriptMeant`, `SharedFieldsShareKeys`, and the runs `migrations`, `tree` and `types`.
  `Assembler`, `ScriptExec`, `SchemaCompiler`, `StoragePlanner`, `PathWalker`,
  `TreeValues`, `Document`, `TreeStore`, `Migrations`, `VmValues` and `NodeEval` have
  `RECURSIVE` operators over trees, with which the prover loses its main backend. Of
  `MemberRangesExact` and `ReduceVisitsTheRange`, the part about bytes is proved in
  `KeyEncodingProofs`; that the planner and the path walker make such keys is not.
- What `or_else`, `graph_twice`, `delete_namespace` and `tree_of_sets` refute.

## 5. What is not modelled

- The parsers of schemas and scripts, which are generated from grammars; the models
  start from syntax trees.
- Of the type checker, the order in which graphs are checked and the inference of
  parameter types; types are those the script declares. The checker hands the types
  of arguments to a group of mutually recursive graphs only after it has checked the
  group (`typeck.rs`, 190), so the arguments of recursive calls are not compared.
- Of the assembler, the pools of constants, types and identifiers and type aliases:
  tables without an effect on control.
- The FoundationDB client; its transactions are modelled from how the code uses them.
- The `list` and `get` handlers, which change nothing.
- Compression and base64 of plans: a plan arrives as it was sent. Random keys,
  prefixes and ids are fresh; a collision is a matter of probability.
- Arithmetic and comparison of numbers and strings: a result is any value of its type.
- The playground, which wraps the analyzer for browsers, and the output of `rdbctl`.

## 6. Plan

1. The scheduler's theorems for assembled scripts.
2. Deployments that share a key space through `TreeStore`: what one writes, seen by
   the schema of the other.
3. The order of graphs and the inference of parameters in the type checker.
