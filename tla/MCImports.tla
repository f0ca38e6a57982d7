------------------------------ MODULE MCImports ------------------------------
EXTENDS Imports, TLC
(* Two endpoints; two items of the first share a timestamp, and nothing is   *)
(* found at the second.                                                      *)
TwoEndpoints == <<<<1, 2, 2>>, << >>>>
(* One item, which two fetches can both stage. *)
OneItem == <<<<1>>>>
CommitterSymmetry == Permutations(Committers)
=============================================================================
