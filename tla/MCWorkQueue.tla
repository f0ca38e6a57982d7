----------------------------- MODULE MCWorkQueue -----------------------------
(* The queue with one kind, two payloads and two worker ids. *)
EXTENDS WorkQueueRefinement

MCKeys == {"k1", "k2"}
MCKinds == {"fx"}
MCKindOf == [k \in MCKeys |-> "fx"]
MCDelays == {1}
=============================================================================
