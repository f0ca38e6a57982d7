---------------------------- MODULE ExclusiveWork ----------------------------
(***************************************************************************)
(* What the durable work queue promises, without rows, attempts, owners'   *)
(* lives or a clock.  A piece of work is wanted at most once at a time; a  *)
(* worker that takes it has it to itself until its grant lapses; and only  *)
(* the worker that has it, while it still works on it, ends it or gives it *)
(* back.  Work in hand is never dropped: a worker that stops, for whatever *)
(* reason, leaves it to be taken over.                                     *)
(***************************************************************************)
CONSTANTS Work,     \* the pieces of work
          Workers,  \* the loops that do it
          Nobody,   \* who has work that nobody has
          Nothing   \* what a worker at rest works on

VARIABLES wanted,   \* the work that waits to be taken
          inHand,   \* per piece of work: the worker it was last granted to
          granted,  \* the work in hand whose grant has not lapsed
          task      \* per worker: what it works on

vars == <<wanted, inHand, granted, task>>

Init ==
    /\ wanted = {}
    /\ inHand = [k \in Work |-> Nobody]
    /\ granted = {}
    /\ task = [w \in Workers |-> Nothing]

Ask(k) ==
    /\ k \notin wanted /\ inHand[k] = Nobody
    /\ wanted' = wanted \cup {k}
    /\ UNCHANGED <<inHand, granted, task>>

(* Waiting work, or work whose grant has lapsed. *)
Take(w, k) ==
    /\ task[w] = Nothing
    /\ k \in wanted \/ (inHand[k] # Nobody /\ k \notin granted)
    /\ wanted' = wanted \ {k}
    /\ inHand' = [inHand EXCEPT ![k] = w]
    /\ granted' = granted \cup {k}
    /\ task' = [task EXCEPT ![w] = k]

(* The work is over, or goes back to wait; more work may follow from it.  In *)
(* between nobody sees it gone without what follows.                         *)
Settle(w, k) ==
    /\ task[w] = k /\ inHand[k] = w
    /\ wanted \subseteq wanted'
    /\ \A m \in wanted' \ {k} : inHand[m] = Nobody
    /\ inHand' = [inHand EXCEPT ![k] = Nobody]
    /\ granted' = granted \ {k}
    /\ task' = [task EXCEPT ![w] = Nothing]

(* Workers stop without an effect: they lost the work, gave up or died. *)
Stop ==
    /\ \A w \in Workers : task'[w] \in {task[w], Nothing}
    /\ UNCHANGED <<wanted, inHand, granted>>

Lapse ==
    /\ granted' \subseteq granted
    /\ UNCHANGED <<wanted, inHand, task>>

Next ==
    \/ \E k \in Work : Ask(k)
    \/ \E w \in Workers, k \in Work : Take(w, k) \/ Settle(w, k)
    \/ Stop
    \/ Lapse

Spec == Init /\ [][Next]_vars

=============================================================================
