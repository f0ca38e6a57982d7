---------------------------- MODULE LoginThrottle ----------------------------
(***************************************************************************)
(* The guess budget of sign-in, second factor and reauthentication         *)
(* (internal/app/auth_throttle.go over login_throttles).  An attempt takes *)
(* a place in each of its scopes before anything is verified and settles   *)
(* it afterwards, one transaction per scope; attempts run concurrently and *)
(* one may vanish at any point, when the process dies or its request's     *)
(* context is cancelled.                                                   *)
(*                                                                         *)
(* A generation is a uuid in the code; here it is a number per scope, one  *)
(* more for every fresh uuid that is stored.                               *)
(***************************************************************************)
EXTENDS Integers, Sequences, FiniteSets

CONSTANTS Attempts,  \* requests that try to verify something, each once
          Scopes,    \* throttle scopes: a username, an address, a device, a session
          ScopesOf,  \* the scopes of each attempt, in the order they are reserved
          Addresses, \* the scopes of type client_ip, each the last of its attempts
          Reauths,   \* attempts of the reauthentication budget
          Budget,    \* loginThrottleMaxFailures
          Window,    \* loginThrottleWindow
          Faults,    \* whether a settlement's write may fail
          MaxTime    \* bound: last instant of the clock

ASSUME ThrottleAssumption ==
    /\ IsFiniteSet(Attempts)
    /\ ScopesOf \in [Attempts -> Seq(Scopes)]
    /\ \A a \in Attempts : \A m, n \in 1..Len(ScopesOf[a]) :
          ScopesOf[a][m] = ScopesOf[a][n] => m = n
    /\ Addresses \subseteq Scopes
    /\ \A a \in Attempts : \A n \in 1..Len(ScopesOf[a]) :
          ScopesOf[a][n] \in Addresses => n = Len(ScopesOf[a])
    /\ Reauths \subseteq Attempts
    /\ Budget \in Nat \ {0}
    /\ Window \in Nat \ {0}
    /\ Faults \in BOOLEAN
    /\ MaxTime \in Nat

VARIABLES row,      \* login_throttles, one row per scope
          lastGen,  \* per scope: the newest generation
          attempt,  \* per attempt: where it is and its latest admission
          place,    \* per attempt and scope: the generation of its place, or 0
          now       \* the clock

vars == <<row, lastGen, attempt, place, now>>

NoRow == [found |-> FALSE, failedAttempts |-> 0, blockedUntil |-> 0,
          updatedAt |-> 0, generation |-> 0]

NoPlaces == [s \in Scopes |-> 0]

Init ==
    /\ row = [s \in Scopes |-> NoRow]
    /\ lastGen = [s \in Scopes |-> 0]
    /\ attempt = [a \in Attempts |-> [pc |-> "reserving", next |-> 1, admittedAt |-> 0]]
    /\ place = [a \in Attempts |-> NoPlaces]
    /\ now = 0

(* The scope an attempt is about to reserve or to settle. *)
Current(a) == ScopesOf[a][attempt[a].next]

Blocked(s) == row[s].found /\ row[s].blockedUntil # 0

(* Mutant: the budget is off by one. *)
FullOffByOne(s) == row[s].found /\ row[s].failedAttempts > Budget

Full(s) == row[s].found /\ row[s].failedAttempts >= Budget

(* Mutant: the places in flight are not held against the budget. *)
RefusesOnlyBlocked(s) == Blocked(s) /\ row[s].blockedUntil > now

(* reserveScope refuses while a block runs, or while a full budget was last  *)
(* written less than a window ago.                                           *)
Refuses(s) ==
    \/ Blocked(s) /\ row[s].blockedUntil > now
    \/ ~Blocked(s) /\ Full(s) /\ row[s].updatedAt + Window > now

(* A new row, an expired block and an expired full budget start over. *)
StartsOver(s) == ~row[s].found \/ Blocked(s) \/ Full(s)

Generation(s) == IF StartsOver(s) THEN lastGen[s] + 1 ELSE row[s].generation

ReserveScope(a) ==
    /\ attempt[a].pc = "reserving"
    /\ attempt[a].next <= Len(ScopesOf[a])
    /\ LET s == Current(a) IN
       /\ ~Refuses(s)
       /\ row' = [row EXCEPT ![s] =
             [found |-> TRUE, blockedUntil |-> 0, updatedAt |-> now,
              failedAttempts |-> (IF StartsOver(s) THEN 0 ELSE row[s].failedAttempts) + 1,
              generation |-> Generation(s)]]
       /\ lastGen' = [lastGen EXCEPT ![s] = IF StartsOver(s) THEN @ + 1 ELSE @]
       /\ place' = [place EXCEPT ![a][s] = Generation(s)]
    /\ attempt' = [attempt EXCEPT ![a].next = @ + 1, ![a].admittedAt = now]
    /\ UNCHANGED now

(* A refusal, or an error of the transaction, gives back the places taken. *)
RefuseScope(a) ==
    /\ attempt[a].pc = "reserving"
    /\ attempt[a].next <= Len(ScopesOf[a])
    /\ Refuses(Current(a)) \/ Faults
    /\ attempt' = [attempt EXCEPT ![a].pc = "refusing", ![a].next = 1]
    /\ UNCHANGED <<row, lastGen, place, now>>

(* Every scope admitted it: the verifier runs and says what follows. *)
Verify(a, verdict) ==
    /\ attempt[a].pc = "reserving"
    /\ attempt[a].next > Len(ScopesOf[a])
    /\ attempt' = [attempt EXCEPT ![a].pc = verdict, ![a].next = 1]
    /\ UNCHANGED <<row, lastGen, place, now>>

(* The row still belongs to the generation that admitted the attempt. *)
SameGeneration(a, s) == row[s].found /\ row[s].generation = place[a][s]

(* fail: the place stays counted; a full budget starts the block. *)
Failed(s) ==
    [row[s] EXCEPT !.updatedAt = now,
                   !.failedAttempts = IF Full(s) THEN 0 ELSE row[s].failedAttempts,
                   !.blockedUntil = IF Full(s) THEN now + Window ELSE 0]

FailScope(a) ==
    /\ attempt[a].pc = "failing"
    /\ attempt[a].next <= Len(ScopesOf[a])
    /\ LET s == Current(a) IN
       row' = IF SameGeneration(a, s) /\ ~Blocked(s)
              THEN [row EXCEPT ![s] = Failed(s)]
              ELSE row
    /\ attempt' = [attempt EXCEPT ![a].next = @ + 1]
    /\ UNCHANGED <<lastGen, place, now>>

(* Mutant: the refund does not ask which generation admitted the attempt. *)
RefundedAnyGeneration(a, s) ==
    IF row[s].found /\ ~Blocked(s)
    THEN [row[s] EXCEPT !.failedAttempts = IF @ > 0 THEN @ - 1 ELSE 0]
    ELSE row[s]

(* Mutant: the refund does not ask whether the row is blocked. *)
RefundLiftsBlock(a, s) ==
    IF SameGeneration(a, s)
    THEN [row[s] EXCEPT !.failedAttempts = IF @ > 0 THEN @ - 1 ELSE 0,
                        !.blockedUntil = 0]
    ELSE row[s]

(* RefundLoginAttempt: a blocked row or another generation is left alone. *)
Refunded(a, s) ==
    IF SameGeneration(a, s) /\ ~Blocked(s)
    THEN [row[s] EXCEPT !.failedAttempts = IF @ > 0 THEN @ - 1 ELSE 0]
    ELSE row[s]

(* DeleteLoginThrottle, for the generation that admitted the attempt. *)
Cleared(a, s) == IF SameGeneration(a, s) THEN NoRow ELSE row[s]

(* successSettlement: an address gets the place back, the others reset. *)
Settled(a, s) == IF s \in Addresses THEN Refunded(a, s) ELSE Cleared(a, s)

(* CompleteLogin: session, clears and refunds in one transaction. *)
CompleteLogin(a) ==
    /\ attempt[a].pc = "completing"
    /\ row' = [s \in Scopes |-> IF place[a][s] # 0 THEN Settled(a, s) ELSE row[s]]
    /\ place' = [place EXCEPT ![a] = NoPlaces]
    /\ attempt' = [attempt EXCEPT ![a].pc = "done"]
    /\ UNCHANGED <<lastGen, now>>

(* clear: the same settlement scope by scope, after a reauthentication. *)
ClearScope(a) ==
    /\ attempt[a].pc = "clearing"
    /\ attempt[a].next <= Len(ScopesOf[a])
    /\ LET s == Current(a) IN
       /\ row' = [row EXCEPT ![s] = Settled(a, s)]
       /\ place' = [place EXCEPT ![a][s] = 0]
    /\ attempt' = [attempt EXCEPT ![a].next = @ + 1]
    /\ UNCHANGED <<lastGen, now>>

(* Mutant: a refusal in a later scope keeps the places of the earlier ones. *)
ReleaseNotOnRefusal(a) ==
    /\ attempt[a].pc \in {"refusing", "releasing"}
    /\ attempt[a].next <= Len(ScopesOf[a])
    /\ LET s == Current(a) IN
       /\ row' = [row EXCEPT ![s] = IF attempt[a].pc = "releasing" THEN Refunded(a, s) ELSE @]
       /\ place' = [place EXCEPT ![a][s] = IF attempt[a].pc = "releasing" THEN 0 ELSE @]
    /\ attempt' = [attempt EXCEPT ![a].next = @ + 1]
    /\ UNCHANGED <<lastGen, now>>

(* release: no verdict was reached, the places go back one by one. *)
ReleaseScope(a) ==
    /\ attempt[a].pc \in {"refusing", "releasing"}
    /\ attempt[a].next <= Len(ScopesOf[a])
    /\ LET s == Current(a) IN
       /\ row' = [row EXCEPT ![s] = IF place[a][s] # 0 THEN Refunded(a, s) ELSE @]
       /\ place' = [place EXCEPT ![a][s] = 0]
    /\ attempt' = [attempt EXCEPT ![a].next = @ + 1]
    /\ UNCHANGED <<lastGen, now>>

(* A write of release fails: it is logged, and the next scope is tried.  A   *)
(* refusal whose release was not whole does not end as "refused".            *)
ReleaseFault(a) ==
    /\ Faults
    /\ attempt[a].pc \in {"refusing", "releasing"}
    /\ attempt[a].next <= Len(ScopesOf[a])
    /\ attempt' = [attempt EXCEPT ![a].next = @ + 1, ![a].pc = "releasing"]
    /\ UNCHANGED <<row, lastGen, place, now>>

(* A failed login transaction leaves the attempt to the deferred release. *)
CompleteLoginFault(a) ==
    /\ Faults
    /\ attempt[a].pc = "completing"
    /\ attempt' = [attempt EXCEPT ![a].pc = "releasing"]
    /\ UNCHANGED <<row, lastGen, place, now>>

Finish(a) ==
    /\ attempt[a].pc \in {"refusing", "releasing", "failing", "clearing"}
    /\ attempt[a].next > Len(ScopesOf[a])
    /\ attempt' = [attempt EXCEPT ![a].pc = IF @ = "refusing" THEN "refused" ELSE "done"]
    /\ UNCHANGED <<row, lastGen, place, now>>

(* The process dies or the request's context is cancelled, or a write of     *)
(* fail or clear errs: what is not settled yet never will be.                *)
Lose(a) ==
    /\ attempt[a].pc \notin {"refused", "done", "lost"}
    /\ attempt' = [attempt EXCEPT ![a].pc = "lost", ![a].next = 1]
    /\ UNCHANGED <<row, lastGen, place, now>>

Tick ==
    /\ now < MaxTime
    /\ now' = now + 1
    /\ UNCHANGED <<row, lastGen, attempt, place>>

Verdicts(a) ==
    {"failing", "releasing", IF a \in Reauths THEN "clearing" ELSE "completing"}

Next ==
    \/ \E a \in Attempts :
          \/ ReserveScope(a) \/ RefuseScope(a)
          \/ \E verdict \in Verdicts(a) : Verify(a, verdict)
          \/ FailScope(a) \/ ClearScope(a) \/ CompleteLogin(a)
          \/ ReleaseScope(a) \/ ReleaseFault(a) \/ CompleteLoginFault(a)
          \/ Finish(a) \/ Lose(a)
    \/ Tick

Spec == Init /\ [][Next]_vars

-----------------------------------------------------------------------------
Rows == [found: BOOLEAN, failedAttempts: Nat, blockedUntil: Nat,
         updatedAt: Nat, generation: Nat]

Phases == {"reserving", "refusing", "refused", "failing", "clearing", "completing",
           "releasing", "done", "lost"}

(* Counters, generations and times of rows, attempts and places are natural  *)
(* numbers: refunds never take a counter below zero.                         *)
TypeOK ==
    /\ row \in [Scopes -> Rows]
    /\ lastGen \in [Scopes -> Nat]
    /\ attempt \in [Attempts -> [pc: Phases, next: Nat \ {0}, admittedAt: Nat]]
    /\ place \in [Attempts -> [Scopes -> Nat]]
    /\ now \in Nat

(* The attempts with a place in a generation: those still in flight, those   *)
(* that failed, and those that vanished.                                     *)
Charged(s, g) == {a \in Attempts : place[a][s] = g}

(* "The guesses admitted within a generation never exceed its budget": in    *)
(* flight, failed and abandoned attempts together stay within it, however    *)
(* attempts overlap, settle late or are superseded by a reset.               *)
BudgetHolds ==
    \A s \in Scopes : \A g \in 1..lastGen[s] : Cardinality(Charged(s, g)) <= Budget

(* The counter of a row that is not blocked counts exactly the places of its *)
(* generation: no place is given back twice and none is forgotten.           *)
CounterIsExact ==
    \A s \in Scopes :
        row[s].found /\ row[s].blockedUntil = 0 =>
            row[s].failedAttempts = Cardinality(Charged(s, row[s].generation))

(* Counters are natural numbers, and exact: neither a double refund nor a    *)
(* refund into a later generation is ever written.                           *)
CountersAreSound == TypeOK /\ CounterIsExact

(* No place and no row is of a generation that was never issued. *)
PlacesFollowGenerations ==
    \A s \in Scopes :
        /\ \A a \in Attempts : place[a][s] <= lastGen[s]
        /\ row[s].found => row[s].generation \in 1..lastGen[s]

(* While an attempt is reserving, the scopes it has not come to are free of  *)
(* it: it takes one place per scope.                                         *)
UnreservedHasNoPlace ==
    \A a \in Attempts : attempt[a].pc = "reserving" =>
        \A n \in attempt[a].next..Len(ScopesOf[a]) : place[a][ScopesOf[a][n]] = 0

(* The inductive invariant. *)
ThrottleInv ==
    /\ TypeOK
    /\ PlacesFollowGenerations
    /\ UnreservedHasNoPlace
    /\ CounterIsExact
    /\ BudgetHolds

(* "Admits one attempt in every scope, or none": a refused attempt has no    *)
(* place left anywhere once its release is through.                          *)
RefusedHoldsNothing ==
    \A a \in Attempts : attempt[a].pc = "refused" => place[a] = NoPlaces

(* "Guesses verified within one window": an address, whose budget no success *)
(* resets, has at most Budget places admitted within any window's length,    *)
(* across blocks, rollovers and abandoned attempts.  An address is the last  *)
(* scope of its attempts, so admittedAt is the time of that admission.       *)
AddressWindowHolds ==
    \A s \in Addresses, t \in 0..now :
        Cardinality({a \in Attempts : place[a][s] # 0
                                      /\ attempt[a].admittedAt \in t..(t + Window - 1)})
            <= Budget

(* Places are in the scopes of their attempt, a refusal has given back those *)
(* of the scopes it has been through, and a refused attempt has none.        *)
PlacesAreInScopes ==
    \A a \in Attempts, s \in Scopes : place[a][s] # 0 =>
        \E n \in 1..Len(ScopesOf[a]) : ScopesOf[a][n] = s

RefusalGivesBack ==
    \A a \in Attempts : attempt[a].pc = "refusing" =>
        \A n \in 1..Len(ScopesOf[a]) :
            n < attempt[a].next => place[a][ScopesOf[a][n]] = 0

RefusalInv == PlacesAreInScopes /\ RefusalGivesBack /\ RefusedHoldsNothing

(* The row of an address is never deleted: it carries the newest generation. *)
AddressRowsStay ==
    \A s \in Addresses :
        IF row[s].found THEN row[s].generation = lastGen[s] ELSE lastGen[s] = 0

(* Whoever has a place at an address came before the row was last written,   *)
(* and a window before a block of it ends.                                   *)
AdmissionsAreOlder ==
    \A s \in Addresses, a \in Attempts : place[a][s] # 0 =>
        /\ attempt[a].admittedAt <= now
        /\ ~Blocked(s) => attempt[a].admittedAt <= row[s].updatedAt
        /\ Blocked(s) => attempt[a].admittedAt + Window <= row[s].blockedUntil

(* Admissions of two generations of an address are at least a window apart,  *)
(* and those of all but the newest are a window old.                         *)
GenerationsAreApart ==
    \A s \in Addresses, a \in Attempts : place[a][s] \in 1..(lastGen[s] - 1) =>
        /\ attempt[a].admittedAt + Window <= now
        /\ \A b \in Attempts : place[b][s] > place[a][s] =>
              attempt[a].admittedAt + Window <= attempt[b].admittedAt

(* The inductive invariant behind AddressWindowHolds. *)
WindowInv == AddressRowsStay /\ AdmissionsAreOlder /\ GenerationsAreApart

(* A running block of an address ends by time alone: a success from the same *)
(* address, a refund or a late failure does not change it.                   *)
AddressBlockStands ==
    [][\A s \in Addresses :
          Blocked(s) /\ row[s].blockedUntil > now => row'[s] = row[s]]_vars

=============================================================================
