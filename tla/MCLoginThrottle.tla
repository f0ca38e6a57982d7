--------------------------- MODULE MCLoginThrottle ---------------------------
(* Sign-ins of one user from one address; a reauthentication has the scope   *)
(* of its session alone.                                                     *)
EXTENDS LoginThrottle, TLC

MCScopesOf ==
    [a \in Attempts |-> IF a \in Reauths THEN <<"session">> ELSE <<"user", "ip">>]

(* The scopes of the two kinds are disjoint, so one kind at a time is enough: *)
(* the attempts of the other are not made.                                    *)
InitOf(made) ==
    /\ row = [s \in Scopes |-> NoRow]
    /\ lastGen = [s \in Scopes |-> 0]
    /\ attempt = [a \in Attempts |-> [pc |-> IF a \in made THEN "reserving" ELSE "done",
                                      next |-> 1, admittedAt |-> 0]]
    /\ place = [a \in Attempts |-> NoPlaces]
    /\ now = 0

MCSpec == (InitOf(Reauths) \/ InitOf(Attempts \ Reauths)) /\ [][Next]_vars

AttemptSymmetry == Permutations(Attempts \ Reauths) \cup Permutations(Reauths)
=============================================================================
