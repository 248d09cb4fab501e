----------------------------- MODULE MCRunGraph -----------------------------
(* Two calls of two attempts each over one key.                            *)
EXTENDS RunGraph

CONSTANTS c1, c2
MCCalls == {c1, c2}
MCTxns == MCCalls \X (1 .. 2)
OneKey == {1}
WholeRange == {1, 3}
=============================================================================
