------------------------------ MODULE MCRestore ------------------------------
EXTENDS Restore
RestoreSymmetry == Permutations(Restores)
=============================================================================
