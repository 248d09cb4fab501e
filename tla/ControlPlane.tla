---------------------------- MODULE ControlPlane ----------------------------
(***************************************************************************)
(* The control service of the server: the handlers of                      *)
(* rdb-server/src/server.rs on the system store, whose graphs are those of *)
(* rdb-server/src/sys.rasm.  A graph runs in one serializable transaction  *)
(* and is one step here; a handler that runs several graphs is several     *)
(* steps, between which other handlers and queries run.  The handlers that *)
(* only list or get are left out.  A handler may stop between two steps:   *)
(* a timeout, an error of the store, a crash of the server.                *)
(***************************************************************************)
EXTENDS Integers, Sequences

CONSTANTS Admins,     \* concurrent calls of the control service
          Namespaces, \* namespace ids, chosen by the user
          QueryScripts, \* query script ids, chosen by the user
          Absent,     \* no such namespace, deployment or query script
          Schemas,    \* what a deployment is made of, its schema and its plan
          Texts,      \* texts of query scripts
          Loads,      \* the pairs of a text and a schema ExecContext::load accepts
          MaxPrefix,  \* bound on the namespaces created
          MaxDepl,    \* bound on the deployments created
          MaxRev,     \* bound on the query scripts stored
          Millis,     \* the values of the wall clock
          MillisDiffer \* no two query scripts are stored with the same time

ASSUME ControlAssumption == /\ MaxPrefix \in Nat /\ MaxDepl \in Nat /\ MaxRev \in Nat
                            /\ MillisDiffer \in BOOLEAN

KvPrefixes == 1 .. MaxPrefix
Deployments == 1 .. MaxDepl
Revs == 1 .. MaxRev

VARIABLES sys,      \* the set system.namespaces of the system schema
          data,     \* per prefix: the rows of the data store, by their writers
          prefixes, \* how many key prefixes were drawn (random, 16 bytes)
          depls,    \* how many deployment ids were drawn (random uuids)
          scripts,  \* every query script accepted so far
          task,     \* per admin call: where its handler is
          retired   \* history: the revisions that are no longer stored

ctlvars == <<sys, data, prefixes, depls, scripts, task, retired>>

NewNamespace(p) == [prefix |-> p, deployments |-> [d \in Deployments |-> Absent],
                    query_scripts |-> [q \in QueryScripts |-> Absent]]

Idle == [at |-> "idle"]

CtlInit == /\ sys = [n \in Namespaces |-> Absent]
           /\ data = [p \in KvPrefixes |-> {}]
           /\ prefixes = 0 /\ depls = 0
           /\ scripts = <<>>
           /\ task = [a \in Admins |-> Idle]
           /\ retired = {}

Stored(n) == IF sys[n] = Absent THEN {}
             ELSE {sys[n].query_scripts[q].rev : q \in
                     {q \in QueryScripts : sys[n].query_scripts[q] # Absent}}

\* lookup_deployment: the schema and the plan under an id, or none.
Deployment(n, d) == IF sys[n] = Absent THEN Absent ELSE sys[n].deployments[d]

Goto(a, t) == task' = [task EXCEPT ![a] = t]

-----------------------------------------------------------------------------
\* Mutant of CreateNamespace: the prefix depends on the id only.
CreateNamespaceSamePrefix(a, n) ==
  /\ task[a] = Idle
  /\ prefixes < MaxPrefix
  /\ sys[n] = Absent
  /\ sys' = [sys EXCEPT ![n] = NewNamespace(1)]
  /\ prefixes' = prefixes + 1
  /\ UNCHANGED <<data, depls, scripts, task, retired>>

\* create_namespace with add_namespace; an id in use is answered "not created".
CreateNamespace(a, n) ==
  /\ task[a] = Idle
  /\ prefixes < MaxPrefix
  /\ sys[n] = Absent
  /\ sys' = [sys EXCEPT ![n] = NewNamespace(prefixes + 1)]
  /\ prefixes' = prefixes + 1
  /\ UNCHANGED <<data, depls, scripts, task, retired>>

\* delete_namespace looks up the prefix first.  If that fails, for whatever
\* reason, it goes on without deleting data.
DeleteLooksUp(a, n) ==
  /\ task[a] = Idle
  /\ \/ sys[n] # Absent /\ Goto(a, [at |-> "wipe", ns |-> n, prefix |-> sys[n].prefix])
     \/ Goto(a, [at |-> "drop", ns |-> n, prefix |-> 0])
  /\ UNCHANGED <<sys, data, prefixes, depls, scripts, retired>>

\* One transaction of the data store deletes the range of the prefix.
DeleteWipes(a) ==
  /\ task[a].at = "wipe"
  /\ data' = [data EXCEPT ![task[a].prefix] = {}]
  /\ Goto(a, [task[a] EXCEPT !.at = "drop"])
  /\ UNCHANGED <<sys, prefixes, depls, scripts, retired>>

\* The graph delete_namespace removes the entry with all its sets.
DeleteDrops(a) ==
  /\ task[a].at = "drop"
  /\ sys' = [sys EXCEPT ![task[a].ns] = Absent]
  /\ retired' = retired \cup Stored(task[a].ns)
  /\ Goto(a, Idle)
  /\ UNCHANGED <<data, prefixes, depls, scripts>>

\* Mutant of CreateDeployment: ids are drawn per namespace.
CreateDeploymentCounted(a, n, s) ==
  /\ task[a] = Idle
  /\ sys[n] # Absent
  /\ \E d \in Deployments :
       /\ \A e \in Deployments : sys[n].deployments[e] = Absent <=> e >= d
       /\ sys' = [sys EXCEPT ![n].deployments[d] = s]
       /\ depls' = depls
  /\ UNCHANGED <<data, prefixes, scripts, task, retired>>

\* create_deployment: the plan is checked against the schema, which needs no
\* store; add_deployment refuses a namespace that is not there.
CreateDeployment(a, n, s) ==
  /\ task[a] = Idle
  /\ depls < MaxDepl
  /\ sys[n] # Absent
  /\ sys' = [sys EXCEPT ![n].deployments[depls + 1] = s]
  /\ depls' = depls + 1
  /\ UNCHANGED <<data, prefixes, scripts, task, retired>>

\* delete_deployment; scripts that refer to it are not looked at.
DeleteDeployment(a, n, d) ==
  /\ task[a] = Idle
  /\ Deployment(n, d) # Absent
  /\ sys' = [sys EXCEPT ![n].deployments[d] = Absent]
  /\ UNCHANGED <<data, prefixes, depls, scripts, task, retired>>

\* create_query_script looks up the deployment and loads the script against
\* its schema and plan ...
ValidateScript(a, n, q, d, x) ==
  /\ task[a] = Idle
  /\ Deployment(n, d) # Absent
  /\ <<x, Deployment(n, d)>> \in Loads
  /\ Goto(a, [at |-> "store", ns |-> n, qs |-> q, depl |-> d, text |-> x])
  /\ UNCHANGED <<sys, data, prefixes, depls, scripts, retired>>

\* ... and stores it in the namespace that has the id by then, or in none.
StoreScript(a) ==
  /\ task[a].at = "store"
  /\ LET n == task[a].ns
         q == task[a].qs
         rev == Len(scripts) + 1
     IN  IF sys[n] = Absent THEN UNCHANGED <<sys, scripts, retired>>
         ELSE \E ms \in Millis :
           /\ rev <= MaxRev
           /\ MillisDiffer => \A r \in DOMAIN scripts : scripts[r].time # ms
           /\ scripts' = Append(scripts, [rev |-> rev, depl |-> task[a].depl, time |-> ms,
                                         text |-> task[a].text])
           /\ sys' = [sys EXCEPT ![n].query_scripts[q] = scripts'[rev]]
           /\ retired' = retired \cup
                (IF sys[n].query_scripts[q] = Absent THEN {}
                 ELSE {sys[n].query_scripts[q].rev})
  /\ Goto(a, Idle)
  /\ UNCHANGED <<data, prefixes, depls>>

DeleteScript(a, n, q) ==
  /\ task[a] = Idle
  /\ sys[n] # Absent /\ sys[n].query_scripts[q] # Absent
  /\ sys' = [sys EXCEPT ![n].query_scripts[q] = Absent]
  /\ retired' = retired \cup {sys[n].query_scripts[q].rev}
  /\ UNCHANGED <<data, prefixes, depls, scripts, task>>

\* The call ends between two of its steps.
AdminGivesUp(a) ==
  /\ task[a] # Idle
  /\ Goto(a, Idle)
  /\ UNCHANGED <<sys, data, prefixes, depls, scripts, retired>>

AdminNext(a) ==
  \/ \E n \in Namespaces : \/ CreateNamespace(a, n) \/ DeleteLooksUp(a, n)
                           \/ \E s \in Schemas : CreateDeployment(a, n, s)
                           \/ \E d \in Deployments : DeleteDeployment(a, n, d)
  \/ \E n \in Namespaces, q \in QueryScripts :
       \/ DeleteScript(a, n, q)
       \/ \E d \in Deployments, x \in Texts : ValidateScript(a, n, q, d, x)
  \/ DeleteWipes(a) \/ DeleteDrops(a) \/ StoreScript(a) \/ AdminGivesUp(a)
=============================================================================
