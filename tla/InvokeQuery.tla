----------------------------- MODULE InvokeQuery -----------------------------
(***************************************************************************)
(* HTTP requests, do_invoke_query of rdb-server/src/httpapi.rs, running    *)
(* against the control service and the query cache.  A request looks up    *)
(* its namespace, finds or loads the script and then runs a graph of it on *)
(* the data store; every one of these steps may find the world changed.    *)
(***************************************************************************)
EXTENDS ControlPlane, QueryCache

CONSTANT Life  \* a request is over this many seconds after it arrived

ASSUME LifeAssumption == Life \in Nat \ {0}

VARIABLES req,       \* per client: where do_invoke_query is with its request
          retired_at \* history: when a revision ceased to be stored

vars == <<ctlvars, cachevars, req, retired_at>>

Row == "row"  \* which rows a graph writes does not matter here

\* No request is being served: the last one, if any, was answered, be it with
\* an error.  A script that does not load is told apart.
Waiting == [at |-> "waiting"]
Invalid == [at |-> "invalid"]

\* Memory is short from the start on, so that items is shrunk, too.
Init == /\ CtlInit /\ CacheInit /\ over
        /\ req = [r \in Clients |-> Waiting]
        /\ retired_at = [v \in Revs |-> 0]

Step(r, m) == req' = [req EXCEPT ![r] = m]
Ctx(script) == [rev |-> script.rev, depl |-> script.depl]

\* Mutant of Key: the time of the script is not part of it.
KeyNoTime(m) == [ns |-> m.ns, qs |-> m.qs, depl |-> m.script.depl, time |-> 0]

Key(m) == [ns |-> m.ns, qs |-> m.qs, depl |-> m.script.depl, time |-> m.script.time]

Active(r) == req[r].at \notin {"waiting", "invalid"}

\* ns_to_kv_prefix_with_appended_zero
LookUpPrefix(r, n, q) ==
  /\ req[r] = Waiting
  /\ Step(r, IF sys[n] = Absent THEN Waiting
             ELSE [at |-> "hot", ns |-> n, qs |-> q, prefix |-> sys[n].prefix,
                   start |-> now, script |-> Absent, ctx |-> NoItem])
  /\ UNCHANGED <<ctlvars, cachevars, retired_at>>

\* Mutant of TryHot: get_hot makes the entry it finds the latest one.
TryHotTouches(r) ==
  /\ req[r].at = "hot"
  /\ LET key == HotKey(req[r])
     IN  IF Has(hot_items, key)
         THEN /\ Step(r, [req[r] EXCEPT !.at = "run", !.ctx = Peek(hot_items, key)])
              /\ hot_items' = PutLru(hot_items, hot_items[Place(hot_items, key)])
         ELSE /\ Step(r, [req[r] EXCEPT !.at = "script"])
              /\ hot_items' = hot_items
  /\ UNCHANGED <<items, carry, now, gc, over, retired_at>>
  /\ UNCHANGED ctlvars

TryHot(r) ==
  /\ req[r].at = "hot"
  /\ LET x == GetHot([ns |-> req[r].ns, qs |-> req[r].qs])
     IN Step(r, IF x = NoItem THEN [req[r] EXCEPT !.at = "script"]
                ELSE [req[r] EXCEPT !.at = "run", !.ctx = x])
  /\ UNCHANGED <<ctlvars, cachevars, retired_at>>

\* lookup_query_script
LookUpScript(r) ==
  /\ req[r].at = "script"
  /\ LET n == req[r].ns
         s == IF sys[n] = Absent THEN Absent ELSE sys[n].query_scripts[req[r].qs]
     IN Step(r, IF s = Absent THEN Waiting
                ELSE [req[r] EXCEPT !.at = "cold", !.script = s])
  /\ UNCHANGED <<ctlvars, cachevars, retired_at>>

TryCold(r) ==
  /\ req[r].at = "cold"
  /\ GetCold(r, Key(req[r]))
  /\ Step(r, [req[r] EXCEPT !.at = IF carry'[r] = NoItem THEN "load" ELSE "heat"])
  /\ UNCHANGED <<ctlvars, retired_at>>

MakeHot(r) ==
  /\ req[r].at = "heat"
  /\ Heat(r)
  /\ Step(r, [req[r] EXCEPT !.at = "run", !.ctx = carry[r].ctx, !.script = Absent])
  /\ UNCHANGED <<ctlvars, retired_at>>

\* lookup_deployment, and ExecContext::load with the schema and plan found
Load(r) ==
  /\ req[r].at = "load"
  /\ LET s == req[r].script
         d == Deployment(req[r].ns, s.depl)
     IN Step(r, IF d = Absent THEN Waiting
                ELSE IF <<s.text, d>> \notin Loads THEN Invalid
                ELSE [req[r] EXCEPT !.at = "put", !.ctx = Ctx(s)])
  /\ UNCHANGED <<ctlvars, cachevars, retired_at>>

Cache(r) ==
  /\ req[r].at = "put"
  /\ PutCold(Key(req[r]), req[r].ctx)
  /\ Step(r, [req[r] EXCEPT !.at = "run", !.script = Absent])
  /\ UNCHANGED <<ctlvars, retired_at>>

\* run_exported_graph on the store of the prefix; the graph writes.
Run(r) ==
  /\ req[r].at = "run"
  /\ data' = [data EXCEPT ![req[r].prefix] = {Row}]
  /\ Step(r, Waiting)
  /\ UNCHANGED <<sys, prefixes, depls, scripts, task, retired>>
  /\ UNCHANGED <<cachevars, retired_at>>

\* An error or a timeout of any of the graphs.
RequestGivesUp(r) ==
  /\ Active(r)
  /\ Step(r, Waiting)
  /\ carry' = [carry EXCEPT ![r] = NoItem]
  /\ UNCHANGED <<ctlvars, retired_at>>
  /\ UNCHANGED <<items, hot_items, now, gc, over>>

Admin(a) ==
  /\ AdminNext(a)
  /\ retired_at' = [v \in Revs |-> IF v \in retired' \ retired THEN now ELSE retired_at[v]]
  /\ UNCHANGED <<cachevars, req>>

\* Time passes only as far as the requests in progress may last.
Second == /\ \A r \in Clients : Active(r) => now - req[r].start < Life
          /\ Tick
          /\ UNCHANGED <<ctlvars, req, retired_at>>

Collect == (GcExpires \/ GcShrinks) /\ UNCHANGED <<ctlvars, req, retired_at>>

Next == \/ \E a \in Admins : Admin(a)
        \/ \E r \in Clients : \/ \E n \in Namespaces, q \in QueryScripts : LookUpPrefix(r, n, q)
                              \/ TryHot(r) \/ LookUpScript(r) \/ TryCold(r) \/ MakeHot(r)
                              \/ Load(r) \/ Cache(r) \/ Run(r) \/ RequestGivesUp(r)
        \/ Second
        \/ Collect

Spec == Init /\ [][Next]_vars

-----------------------------------------------------------------------------
\* "In case the query script is updated": an entry that a request takes from
\* the cache by the full key is the script that the request has looked up, also
\* when scripts, deployments and the namespace are deleted and made anew.
ColdHitIsTheScript ==
  \A r \in Clients : req[r].at = "heat" => carry[r].ctx = Ctx(req[r].script)

\* A script that was replaced or deleted is run for a bounded time only: the
\* life of the request that put it among the hot entries, the life of the hot
\* entry, and that of the request that finds it there.
StaleScriptsFade ==
  \A r \in Clients :
    req[r].at = "run" /\ req[r].ctx.rev \in retired =>
      now - retired_at[req[r].ctx.rev] <= 2 * Life + Ttl + 1

\* A script found in the store loads against the deployment then found under the
\* id it names: create_query_script validated it against what had that id in an
\* earlier step, maybe in an earlier namespace of the same name, since when
\* namespaces and deployments may have been deleted and made anew.
StoredScriptsLoad == \A r \in Clients : req[r] # Invalid

\* Namespaces do not share their rows, also not one after the other under the
\* same id: a prefix belongs to one namespace, and a new namespace is empty.
NewNamespaceIsEmpty ==
  [][\A n \in Namespaces : sys[n] = Absent /\ sys'[n] # Absent =>
       /\ data'[sys'[n].prefix] = {}
       /\ \A r \in Clients : Active(r) => req[r].prefix # sys'[n].prefix
       /\ \A m \in Namespaces \ {n} : sys'[m] # Absent => sys'[m].prefix # sys'[n].prefix]_vars

\* "Delete all data in this namespace": a namespace that a call of
\* delete_namespace removes leaves no rows behind.
DeletedNamespaceIsEmpty ==
  [][\A n \in Namespaces : sys[n] # Absent /\ sys'[n] = Absent =>
       data'[sys[n].prefix] = {}]_vars
=============================================================================
