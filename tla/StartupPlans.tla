---------------------------- MODULE StartupPlans ----------------------------
(***************************************************************************)
(* Servers that start with the plans of the planner.                       *)
(***************************************************************************)
EXTENDS Startup, StoragePlanner, SequencesExt

NothingStored == [schema |-> DefaultSchema, plan |-> DefaultPlan]

Places(k) == {<<x.at, x.ty>> : x \in PlanNodes(stored[k].schema, stored[k].plan)}

\* The places that are in every plan stored from i to j, with their types, and
\* so is all above them.
Kept(i, j) ==
  LET common == {p \in Places(i) : \A k \in i + 1 .. j : p \in Places(k)}
      places == {p[1] : p \in common}
  IN {p \in places : Prefixes(p) \ {<<>>} \subseteq places}

KeysAt(s, places) ==
  {<<x.at, x.node.key>> : x \in {y \in PlanNodes(Build[s], server[s].plan[1]) : y.at \in places}}

\* Servers of different builds that serve together find each other's data: what
\* no migration between their starts has removed or retyped has one key.
SharedFieldsShareKeys ==
  \A s, t \in Servers :
    Up(s) /\ Up(t) /\ server[s].at <= server[t].at =>
      LET places == Kept(server[s].at, server[t].at)
      IN KeysAt(s, places) = KeysAt(t, places)

Current(s) == stored # <<>> /\ Last(stored).schema.text = Build[s].text

\* Once the schema of a build is the stored one for good, its servers come up
\* whenever they are started, without a migration hash: planning it again from
\* its own plan draws no new key.
RestartsComeUp == \A s \in Servers : <>[]Current(s) => []<>Up(s)
=============================================================================
