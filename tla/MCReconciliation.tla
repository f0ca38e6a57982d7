-------------------------- MODULE MCReconciliation --------------------------
(* Reconciliation for TLC. *)
EXTENDS Reconciliation, TLC

MCSpec == InitReconciled /\ [][Next]_vars

Minus == {-1}
AmountsBothWays == {1, -1}

Symmetry == Permutations(Txns)

=============================================================================
