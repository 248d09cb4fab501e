----------------------------- MODULE Migrations -----------------------------
(***************************************************************************)
(* The deployments of a namespace: each one is created from a schema, and  *)
(* its storage plan is generated afresh or migrated from the plan of any   *)
(* earlier deployment (rdbctl, create-deployment); the server then checks  *)
(* the plan before it stores it (create_deployment).  All deployments stay *)
(* in use and share the namespace's key space.                             *)
(***************************************************************************)
EXTENDS PathWalker

CONSTANTS Schemas,        \* the schemas deployed, as they are parsed
          MaxDeployments, \* bound on the number of deployments
          MaxPath         \* bound on the length of the paths looked at

VARIABLE deployments  \* Seq of [ast, schema, plan, from, accepted]

Init == deployments = <<>>

\* The reference deployment of --migrate-from; 0 when there is none.
Reference(i) == IF i = 0 THEN [schema |-> DefaultSchema, plan |-> DefaultPlan]
                ELSE [schema |-> deployments[i].schema, plan |-> deployments[i].plan]

\* The integrity check of create_deployment.
Integrity(plan, schema) == generate_plan_for_schema(0, plan, schema, schema) = plan

\* A plan that fails the check is kept here, marked, though the server drops it.
CreateDeployment(from, ast) ==
  LET ref == Reference(from)
      schema == compile(ast)
      plan == generate_plan_for_schema(Len(deployments) + 1, ref.plan, ref.schema, schema)
  IN /\ Len(deployments) < MaxDeployments
     /\ schema.err = "" /\ ~Refused(schema)
     /\ deployments' = Append(deployments,
          [ast |-> ast, schema |-> schema, plan |-> plan, from |-> from,
           accepted |-> Integrity(plan, schema)])

Next == \E from \in 0 .. Len(deployments), ast \in Schemas : CreateDeployment(from, ast)

Spec == Init /\ [][Next]_deployments

-----------------------------------------------------------------------------
\* The old field that a field of the same table takes its key from, if any.
Source(old_fields, name, field) ==
  SelectSeq(altnames(name, field), LAMBDA n : n \in DOMAIN old_fields)

\* Two fields of a table take their keys from one old field: its old name is
\* still in use, or is given twice.
ClaimedTwice(old, new) ==
  \E t \in DOMAIN old.types \cap DOMAIN new.types :
    \E f, g \in DOMAIN new.types[t] :
      LET a == Source(old.types[t], f, new.types[t][f])
          b == Source(old.types[t], g, new.types[t][g])
      IN f # g /\ a # <<>> /\ b # <<>> /\ a[1] = b[1]

\* No migration on the way to a deployment has claimed a field twice.
RECURSIVE Clean(_)
Clean(i) == \/ i = 0
            \/ /\ ~ClaimedTwice(Reference(deployments[i].from).schema, deployments[i].schema)
               /\ Clean(deployments[i].from)

NodesOf(i) == PlanNodes(deployments[i].schema, deployments[i].plan)

\* The paths of a schema that continue a path of the old one, types being equal
\* all along: [new, old, ty].
RECURSIVE Continued(_, _, _)
Continued(old, new, n) ==
  IF n = 1
  THEN {[new |-> <<e>>, old |-> <<e>>, ty |-> new.exports[e]] :
          e \in {x \in DOMAIN old.exports \cap DOMAIN new.exports :
                   old.exports[x] = new.exports[x]}}
  ELSE UNION {
    LET from(step) == IF c.ty.kind = "set" THEN <<step>>
                      ELSE Source(old.types[c.ty.t], step, new.types[c.ty.t][step])
        kept == {s \in Steps(new, c.ty) :
                   /\ from(s) # <<>>
                   /\ StepType(old, c.ty, from(s)[1]) = StepType(new, c.ty, s)}
    IN {[new |-> Append(c.new, s), old |-> Append(c.old, from(s)[1]),
         ty |-> StepType(new, c.ty, s)] : s \in kept}
    : c \in Continued(old, new, n - 1)}

\* The keys of the paths that can be walked.
KeysOf(i) ==
  LET paths == UNION {{p[1] : p \in PathsOf(deployments[i].schema, n)} : n \in 1 .. MaxPath}
      walker == [p \in paths |-> Walk(deployments[i].plan, p)]
  IN [p \in {q \in paths : walker[q] # NoWalker} |-> generate_key(walker[p])]

-----------------------------------------------------------------------------
\* The compiler specializes generic types: every deployment has the types its
\* exports lead to and each has the fields its declaration says, whatever the
\* order in which recursive types were resolved.
CompiledAsDeclared == \A i \in DOMAIN deployments :
                        IsDeclaredBy(deployments[i].schema, deployments[i].ast)

\* Every plan has the shape of its schema: a node per field, a member under a
\* set, and a reference only to a table above it that has the same type.
PlanFits ==
  \A i \in DOMAIN deployments : \A x \in NodesOf(i) :
    /\ x.node.set # <<>> <=> x.ty.kind = "set"
    /\ IF x.ty.kind = "table" /\ x.node.subspace_reference = <<>>
       THEN DOMAIN x.node.children = DOMAIN deployments[i].schema.types[x.ty.t]
       ELSE x.node.children = <<>>
    /\ x.node.subspace_reference # <<>> =>
         \E y \in NodesOf(i) : /\ y.node.key = x.node.subspace_reference[1]
                               /\ y.ty = x.ty
                               /\ Len(y.at) < Len(x.at)
                               /\ IsPrefixOf(y.at, x.at)

\* The server accepts every plan the planner makes: to plan a schema again, from
\* its own plan, changes nothing (the integrity check of create_deployment).
PlansAccepted == \A i \in DOMAIN deployments : deployments[i].accepted

\* No two fields of a plan have the same storage key, whatever was migrated from
\* what, unless rename_from claimed one old field for two.
KeysDistinct ==
  \A i \in DOMAIN deployments :
    Clean(i) => \A x, y \in NodesOf(i) : x.node.key = y.node.key => x = y

\* A storage key means one type, in all the deployments that share the key
\* space, also after its field was removed, renamed or given another type: no
\* deployment reads data that another one wrote with another type.
KeyKeepsType ==
  \A i, j \in DOMAIN deployments :
    \A x \in NodesOf(i), y \in NodesOf(j) : x.node.key = y.node.key => x.ty = y.ty

\* Data stays where it is: a place that exists in the old and in the new schema
\* with the same types all the way, under its name or under one that rename_from
\* gives, has the same key-value key in both deployments.
DataStaysReachable ==
  \A i \in DOMAIN deployments :
    LET old == Reference(deployments[i].from)
    IN \A n \in 1 .. MaxPath : \A c \in Continued(old.schema, deployments[i].schema, n) :
         LET v == Walk(old.plan, c.old)
             w == Walk(deployments[i].plan, c.new)
         IN IF v = NoWalker THEN w = NoWalker
            ELSE w # NoWalker /\ generate_key(v) = generate_key(w)

\* Flattening is not ambiguous: different paths have different keys, also
\* through references and set members.
PathsHaveTheirOwnKeys ==
  \A i \in DOMAIN deployments : Clean(i) =>
    LET keys == KeysOf(i)
    IN \A p, q \in DOMAIN keys : keys[p] = keys[q] => p = q

\* The range that DeleteFromSet deletes for a member holds the keys of the
\* member and of what is below it, and no other key, although the bytes of its
\* primary key are part of the key.
MemberRangesExact ==
  \A i \in DOMAIN deployments : Clean(i) =>
    LET keys == KeysOf(i)
    IN \A p \in DOMAIN keys : p[Len(p)] \in PrimaryKeys =>
         LET set == Walk(deployments[i].plan, SubSeq(p, 1, Len(p) - 1))
             deleted == delete_entry_from_set(set, p[Len(p)])
         IN \A q \in DOMAIN keys : InRanges(keys[q], deleted) <=> IsPrefixOf(p, q)

\* GetField expects a field of the schema to be in the plan: "inconsistency:
\* field not found in table".  So every path of the schema can be walked.
FieldsAreFound ==
  \A i \in DOMAIN deployments : \A n \in 1 .. MaxPath :
    \A p \in PathsOf(deployments[i].schema, n) : Walk(deployments[i].plan, p[1]) # NoWalker
=============================================================================
