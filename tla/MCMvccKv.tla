------------------------------ MODULE MCMvccKv ------------------------------
(* Two keys, one payload besides the tombstone and two transactions that    *)
(* begin again and again until the versions reach MaxVersion.               *)
EXTENDS MvccKv, TLC

MCKeys == {1, 2}
MCBounds == {1, 3}
TxnSymmetry == Permutations(Txns)
=============================================================================
