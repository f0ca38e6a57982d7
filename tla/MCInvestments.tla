--------------------------- MODULE MCInvestments ---------------------------
EXTENDS Investments

(* Two purchases at prices that leave a remainder when they are pooled. *)
UnevenTrades == {[qty |-> 3, basis |-> 4], [qty |-> 1, basis |-> 2]}

============================================================================
