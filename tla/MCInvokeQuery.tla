--------------------------- MODULE MCInvokeQuery ---------------------------
EXTENDS InvokeQuery, TLC

CONSTANTS a1, a2, r1, r2, ms1, ms2, q1, q2, s1, s2
MCAdmins == {a1, a2}
MCRequests == {r1, r2}
OneRequest == {r1}
MCMillis == {ms1, ms2}  \* times are only compared for equality
MCScripts == {q1, q2}
MCSchemas == {s1, s2}
MCLoads == {<<s, s>> : s \in MCSchemas}  \* a text is written for one schema
MCSymmetry == UNION {Permutations(S) : S \in {MCAdmins, Clients, MCMillis,
                                              MCScripts, MCSchemas}}

\* Two calls of the control service at once are explored before the clock moves;
\* while it does, one call at a time, in the first namespace.
MCBound ==
  \/ now = 0 /\ depls + Len(scripts) <= 3
  \/ /\ \A a, b \in Admins : a = b \/ Idle \in {task[a], task[b]}
     /\ depls <= 1 /\ prefixes <= 1
=============================================================================
