---------------------------- MODULE GraphTypes -----------------------------
(***************************************************************************)
(* What the type checker makes sure of before a graph is run (typeck_graph *)
(* of rdb-analyzer/src/data/treewalker/typeck.rs), as far as the scheduler *)
(* relies on it.  A node's type is "bool", "value" for all other data, or  *)
(* "none" for an effect.                                                   *)
(***************************************************************************)
EXTENDS GraphExec

Types(gr) ==
  LET T[n \in 1 .. Len(gr)] ==
        CASE gr[n].kind \in {"select", "nop"} -> T[gr[n].in[1]]
          [] gr[n].kind \in {"effect", "throw"} -> "none"
          [] gr[n].kind \in {"value", "nil", "novalue"} -> "value"
          [] OTHER -> "bool"
  IN T

TypeOf(gr, n) == Types(gr)[n]

\* InEdgeCountMismatch
InEdgesCounted(gr, n) ==
  /\ gr[n].kind \in {"not", "isnull", "nop"} => Len(gr[n].in) = 1
  /\ gr[n].kind \in {"and", "select"} => Len(gr[n].in) = 2

\* InvalidInEdge, and ExpectingTypedNode: an effect is nobody's parameter.
InEdgesTyped(gr, n) ==
  \A p \in DOMAIN gr[n].in : gr[n].in[p] < n /\ TypeOf(gr, gr[n].in[p]) # "none"

\* NonEqualTypes: And and Not take booleans.
OperandsTyped(gr, n) ==
  gr[n].kind \in {"not", "and"} => \A p \in DOMAIN gr[n].in : TypeOf(gr, gr[n].in[p]) = "bool"

\* InvalidPrecondition: an earlier node, either an effect or a boolean.
PreconditionTyped(gr, n) ==
  gr[n].pre # 0 => gr[n].pre < n /\ TypeOf(gr, gr[n].pre) # "value"

\* SelectTypeMismatch
CandidatesTyped(gr, n) ==
  IsSelect(gr, n) => TypeOf(gr, gr[n].in[1]) = TypeOf(gr, gr[n].in[2])

WellTyped(gr) ==
  \A n \in DOMAIN gr :
    /\ InEdgesCounted(gr, n) /\ InEdgesTyped(gr, n) /\ OperandsTyped(gr, n)
    /\ PreconditionTyped(gr, n) /\ CandidatesTyped(gr, n)

\* Only graphs that the type checker accepts are run.
ASSUME GraphsTyped == \A gr \in Graphs : WellTyped(gr)
=============================================================================
