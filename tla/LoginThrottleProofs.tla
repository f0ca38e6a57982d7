------------------------- MODULE LoginThrottleProofs -------------------------
(***************************************************************************)
(* For any attempts, scopes, budget and window: the attempts admitted in   *)
(* one generation of a scope never exceed its budget, and the counter in   *)
(* the row counts them exactly (BudgetIsKept, CounterIsKept).              *)
(*                                                                         *)
(* A step touches each scope in one of four ways: it leaves it alone, it   *)
(* admits an attempt, it takes an attempt's place away, or it records a    *)
(* failure.  One lemma per way shows that the part of the invariant about  *)
(* that scope is kept; the theorem says which action acts in which way.    *)
(***************************************************************************)
EXTENDS LoginThrottle, FiniteSetTheorems, TLAPS

(* The part of the invariant that is about one scope. *)
ScopeInv(s) ==
    /\ \A a \in Attempts : place[a][s] <= lastGen[s]
    /\ row[s].found => row[s].generation \in 1..lastGen[s]
    /\ row[s].found /\ row[s].blockedUntil = 0 =>
          row[s].failedAttempts = Cardinality(Charged(s, row[s].generation))
    /\ \A g \in 1..lastGen[s] : Cardinality(Charged(s, g)) <= Budget

(* The budget and the window are positive. *)
LEMMA BudgetAndWindow == Budget \in Nat \ {0} /\ Window \in Nat \ {0}
BY ThrottleAssumption DEF ThrottleAssumption

(* The invariant is the type, the one-place rule and a part per scope. *)
LEMMA InvariantByScope ==
    ThrottleInv <=> TypeOK /\ UnreservedHasNoPlace /\ \A s \in Scopes : ScopeInv(s)
BY DEF ThrottleInv, PlacesFollowGenerations, CounterIsExact, BudgetHolds, ScopeInv

(* The attempts with a place in a generation are finitely many. *)
LEMMA ChargedIsFinite ==
    ASSUME NEW s, NEW g
    PROVE  IsFiniteSet(Charged(s, g)) /\ Cardinality(Charged(s, g)) \in Nat
<1>1. Charged(s, g) \subseteq Attempts
  BY DEF Charged
<1>2. IsFiniteSet(Charged(s, g))
  BY <1>1, FS_Subset, ThrottleAssumption DEF ThrottleAssumption
<1> QED
  BY <1>2, FS_CardinalityType

(* An attempt that takes a place in a generation adds one to its count. *)
LEMMA PlaceTaken ==
    ASSUME NEW s, NEW g, NEW a \in Attempts,
           place[a][s] # g, place'[a][s] = g,
           \A b \in Attempts \ {a} : place'[b][s] = place[b][s]
    PROVE  Cardinality(Charged(s, g)') = Cardinality(Charged(s, g)) + 1
<1>1. Charged(s, g)' = Charged(s, g) \cup {a} /\ a \notin Charged(s, g)
  BY DEF Charged
<1> QED
  BY <1>1, ChargedIsFinite, FS_AddElement

(* An attempt that gives its place back takes one from the count. *)
LEMMA PlaceReturned ==
    ASSUME NEW s, NEW g, NEW a \in Attempts,
           place[a][s] = g, place'[a][s] # g,
           \A b \in Attempts \ {a} : place'[b][s] = place[b][s]
    PROVE  Cardinality(Charged(s, g)') = Cardinality(Charged(s, g)) - 1
<1>1. Charged(s, g)' = Charged(s, g) \ {a} /\ a \in Charged(s, g)
  BY DEF Charged
<1> QED
  BY <1>1, ChargedIsFinite, FS_RemoveElement

(* The other generations of the scope do not notice. *)
LEMMA OtherGeneration ==
    ASSUME NEW s, NEW g, NEW a \in Attempts,
           place[a][s] # g, place'[a][s] # g,
           \A b \in Attempts \ {a} : place'[b][s] = place[b][s]
    PROVE  Charged(s, g)' = Charged(s, g)
BY DEF Charged

(* A scope a step leaves alone keeps its part of the invariant. *)
LEMMA UntouchedScope ==
    ASSUME NEW s \in Scopes, ScopeInv(s),
           row'[s] = row[s], lastGen'[s] = lastGen[s],
           \A b \in Attempts : place'[b][s] = place[b][s]
    PROVE  ScopeInv(s)'
<1>1. \A g : Charged(s, g)' = Charged(s, g)
  BY DEF Charged
<1> QED
  BY <1>1 DEF ScopeInv

(* The generation an attempt is admitted to has room for it: it is the newest *)
(* one, and either nobody is in it or the counter is below the budget.       *)
LEMMA RoomForOne ==
    ASSUME TypeOK, NEW s \in Scopes, ScopeInv(s), NEW g, g = Generation(s)
    PROVE  /\ g \in Nat \ {0}
           /\ StartsOver(s) => g = lastGen[s] + 1 /\ Cardinality(Charged(s, g)) = 0
           /\ ~StartsOver(s) => /\ g = row[s].generation /\ g \in 1..lastGen[s]
                                /\ Cardinality(Charged(s, g)) = row[s].failedAttempts
                                /\ row[s].failedAttempts < Budget
<1>0. lastGen[s] \in Nat /\ \A b \in Attempts : place[b][s] \in Nat
  BY DEF TypeOK, Rows
<1>00. row[s] \in Rows
  BY DEF TypeOK, Rows
<1>1. CASE StartsOver(s)
  <2>1. g = lastGen[s] + 1
    BY <1>1 DEF Generation
  <2>2. Charged(s, g) = {}
    BY <2>1, <1>0 DEF Charged, ScopeInv
  <2>3. Cardinality(Charged(s, g)) = 0
    BY <2>2, FS_EmptySet
  <2> QED
    BY <1>0, <1>1, <2>1, <2>3
<1>2. CASE ~StartsOver(s)
  <2>1. row[s].found /\ row[s].blockedUntil = 0 /\ row[s].failedAttempts < Budget
    BY <1>2, <1>00, BudgetAndWindow DEF StartsOver, Blocked, Full, Rows
  <2>2. g = row[s].generation
    BY <1>2 DEF Generation
  <2> QED
    BY <1>0, <1>2, <2>1, <2>2 DEF ScopeInv
<1> QED
  BY <1>1, <1>2

(* reserveScope keeps the part of the scope it admits to. *)
LEMMA AdmittingScope ==
    ASSUME TypeOK, NEW s \in Scopes, ScopeInv(s), NEW a \in Attempts,
           NEW g, g = Generation(s),
           place[a][s] = 0, place'[a][s] = g,
           \A b \in Attempts \ {a} : place'[b][s] = place[b][s],
           lastGen'[s] = IF StartsOver(s) THEN lastGen[s] + 1 ELSE lastGen[s],
           row'[s].found, row'[s].blockedUntil = 0,
           row'[s].generation = g,
           row'[s].failedAttempts = (IF StartsOver(s) THEN 0 ELSE row[s].failedAttempts) + 1
    PROVE  ScopeInv(s)'
<1>0. lastGen[s] \in Nat /\ row[s].failedAttempts \in Nat
  BY DEF TypeOK, Rows
<1>1. /\ g \in Nat \ {0}
      /\ StartsOver(s) => g = lastGen[s] + 1 /\ Cardinality(Charged(s, g)) = 0
      /\ ~StartsOver(s) => /\ g = row[s].generation /\ g \in 1..lastGen[s]
                           /\ Cardinality(Charged(s, g)) = row[s].failedAttempts
                           /\ row[s].failedAttempts < Budget
  BY RoomForOne
<1>2. Cardinality(Charged(s, g)') = Cardinality(Charged(s, g)) + 1
  BY <1>1, PlaceTaken
<1>3. Cardinality(Charged(s, g)') = row'[s].failedAttempts
      /\ Cardinality(Charged(s, g)') <= Budget
  BY <1>0, <1>1, <1>2, BudgetAndWindow
<1>4. ASSUME NEW h \in 1..lastGen'[s], h # g
      PROVE  Charged(s, h)' = Charged(s, h) /\ h \in 1..lastGen[s]
  <2>1. h \in 1..lastGen[s]
    BY <1>0, <1>1, <1>4
  <2>2. Charged(s, h)' = Charged(s, h)
    BY <1>4, <2>1, OtherGeneration
  <2> QED
    BY <2>1, <2>2
<1>5. \A b \in Attempts : place'[b][s] <= lastGen'[s]
  <2>1. \A b \in Attempts : place[b][s] \in Nat /\ place[b][s] <= lastGen[s]
    BY DEF TypeOK, ScopeInv
  <2> QED
    BY <2>1, <1>0, <1>1
<1>6. g \in 1..lastGen'[s]
  BY <1>0, <1>1
<1>7. \A h \in 1..lastGen'[s] : Cardinality(Charged(s, h)') <= Budget
  BY <1>3, <1>4 DEF ScopeInv
<1>8. Charged(s, row[s].generation)' = Charged(s, g)'
  BY DEF Charged
<1> QED
  BY <1>3, <1>5, <1>6, <1>7, <1>8 DEF ScopeInv

(* A refund, a reset or a place of another generation: the scope of an       *)
(* attempt that gives its place back keeps its part.                         *)
LEMMA SettlingScope ==
    ASSUME TypeOK, NEW s \in Scopes, ScopeInv(s), NEW a \in Attempts,
           place'[a][s] = 0,
           \A b \in Attempts \ {a} : place'[b][s] = place[b][s],
           lastGen'[s] = lastGen[s],
           \/ row'[s] = Refunded(a, s)
           \/ row'[s] = Cleared(a, s)
           \/ place[a][s] = 0 /\ row'[s] = row[s]
    PROVE  ScopeInv(s)'
<1>0. /\ lastGen[s] \in Nat
      /\ \A b \in Attempts : place[b][s] \in Nat
      /\ row[s] \in Rows
  BY DEF TypeOK, Rows
<1>1. PICK g : g = place[a][s]
  OBVIOUS
<1>2. CASE g = 0
  <2>1. ~SameGeneration(a, s)
    BY <1>0, <1>1, <1>2 DEF SameGeneration, ScopeInv
  <2>2. row'[s] = row[s]
    BY <2>1 DEF Refunded, Cleared
  <2>3. \A b \in Attempts : place'[b][s] = place[b][s]
    BY <1>1, <1>2
  <2> QED
    BY <2>2, <2>3, UntouchedScope
<1>3. CASE g # 0
  <2>1. Cardinality(Charged(s, g)') = Cardinality(Charged(s, g)) - 1
    BY <1>1, <1>3, PlaceReturned
  <2>2. Cardinality(Charged(s, g)) \in Nat /\ Cardinality(Charged(s, g)') \in Nat
    <3>1. Charged(s, g)' \subseteq Charged(s, g)
      BY <1>1, <1>3 DEF Charged
    <3> QED
      BY <3>1, ChargedIsFinite, FS_Subset, FS_CardinalityType
  <2>3. ASSUME NEW h \in 1..lastGen[s], h # g
        PROVE  Charged(s, h)' = Charged(s, h)
    BY <1>0, <1>1, <2>3, OtherGeneration
  <2>4. \A h \in 1..lastGen'[s] : Cardinality(Charged(s, h)') <= Budget
    BY <2>1, <2>2, <2>3, BudgetAndWindow DEF ScopeInv
  <2>5. \A b \in Attempts : place'[b][s] <= lastGen'[s]
    BY <1>0 DEF ScopeInv
  <2>6. row'[s].found => /\ row[s].found
                         /\ row'[s].generation = row[s].generation
                         /\ row'[s].blockedUntil = row[s].blockedUntil
    BY <1>0, <1>1, <1>3 DEF Refunded, Cleared, NoRow, Rows
  <2>7. PICK h : h = row[s].generation
    OBVIOUS
  <2>8. row'[s].found => Charged(s, row[s].generation)' = Charged(s, h)'
    BY <2>6, <2>7 DEF Charged
  <2>9. row'[s].found /\ row'[s].blockedUntil = 0 =>
          row'[s].failedAttempts = Cardinality(Charged(s, h)')
    <3> SUFFICES ASSUME row'[s].found, row'[s].blockedUntil = 0
                 PROVE  row'[s].failedAttempts = Cardinality(Charged(s, h)')
      OBVIOUS
    <3>1. row[s].found /\ row[s].blockedUntil = 0
          /\ row[s].failedAttempts = Cardinality(Charged(s, h))
          /\ h \in 1..lastGen[s]
      BY <2>6, <2>7 DEF ScopeInv
    <3>2. CASE h = g
      <4>1. SameGeneration(a, s)
        BY <3>1, <3>2, <2>7, <1>1 DEF SameGeneration
      <4>2. row'[s] = [row[s] EXCEPT !.failedAttempts = IF @ > 0 THEN @ - 1 ELSE 0]
        BY <4>1, <3>1, <1>1, <1>3 DEF Refunded, Cleared, NoRow, Blocked
      <4>3. row[s].failedAttempts > 0
        BY <2>1, <2>2, <3>1, <3>2
      <4> QED
        BY <1>0, <2>1, <3>1, <3>2, <4>2, <4>3
    <3>3. CASE h # g
      <4>1. row'[s] = row[s]
        BY <3>3, <2>7, <1>1 DEF Refunded, Cleared, SameGeneration
      <4> QED
        BY <4>1, <3>1, <3>3, <2>3
    <3> QED
      BY <3>2, <3>3
  <2> QED
    BY <2>4, <2>5, <2>6, <2>8, <2>9 DEF ScopeInv
<1> QED
  BY <1>2, <1>3

(* fail: the place stays, the counter stays or gives way to a block. *)
LEMMA FailingScope ==
    ASSUME TypeOK, NEW s \in Scopes, ScopeInv(s), row[s].found, ~Blocked(s),
           \A b \in Attempts : place'[b][s] = place[b][s],
           lastGen'[s] = lastGen[s],
           row'[s] = Failed(s)
    PROVE  ScopeInv(s)'
<1>0. /\ now \in Nat
      /\ row[s] \in Rows
  BY DEF TypeOK, Rows
<1>1. \A g : Charged(s, g)' = Charged(s, g)
  BY DEF Charged
<1>2. row[s].blockedUntil = 0
  BY DEF Blocked
<1>3. /\ row'[s].found /\ row'[s].generation = row[s].generation
      /\ row'[s].blockedUntil = 0 => row'[s].failedAttempts = row[s].failedAttempts
  BY <1>0, BudgetAndWindow DEF Failed, Rows
<1>4. Charged(s, row[s].generation)' = Charged(s, row[s].generation)
  BY <1>1, <1>3 DEF Charged
<1> QED
  BY <1>1, <1>2, <1>3, <1>4 DEF ScopeInv

(* The scope an attempt stands at is a scope, and it comes up only once. *)
LEMMA CurrentScope ==
    ASSUME TypeOK, NEW a \in Attempts, attempt[a].next <= Len(ScopesOf[a])
    PROVE  /\ Current(a) \in Scopes
           /\ attempt[a].next \in 1..Len(ScopesOf[a])
           /\ \A n \in 1..Len(ScopesOf[a]) :
                 n # attempt[a].next => ScopesOf[a][n] # Current(a)
<1>1. attempt[a].next \in Nat \ {0}
  BY DEF TypeOK, Rows
<1>2. ScopesOf[a] \in Seq(Scopes)
  BY ThrottleAssumption DEF ThrottleAssumption
<1>3. attempt[a].next \in 1..Len(ScopesOf[a])
  BY <1>1, <1>2
<1>4. \A m, n \in 1..Len(ScopesOf[a]) : ScopesOf[a][m] = ScopesOf[a][n] => m = n
  BY ThrottleAssumption DEF ThrottleAssumption
<1> QED
  BY <1>2, <1>3, <1>4 DEF Current

AttemptStates == [pc: Phases, next: Nat \ {0}, admittedAt: Nat]

(* What the actions write to an attempt is an attempt. *)
LEMMA AttemptMoves ==
    ASSUME TypeOK, NEW a \in Attempts, NEW p \in Phases
    PROVE  /\ [attempt EXCEPT ![a].next = @ + 1] \in [Attempts -> AttemptStates]
           /\ [attempt EXCEPT ![a].next = @ + 1, ![a].admittedAt = now]
                 \in [Attempts -> AttemptStates]
           /\ [attempt EXCEPT ![a].pc = p] \in [Attempts -> AttemptStates]
           /\ [attempt EXCEPT ![a].pc = p, ![a].next = 1] \in [Attempts -> AttemptStates]
           /\ [attempt EXCEPT ![a].next = @ + 1, ![a].pc = p] \in [Attempts -> AttemptStates]
<1>1. attempt \in [Attempts -> AttemptStates] /\ now \in Nat
  BY DEF TypeOK, AttemptStates
<1>2. \A x \in AttemptStates : [attempt EXCEPT ![a] = x] \in [Attempts -> AttemptStates]
  BY <1>1
<1>3. /\ [attempt[a] EXCEPT !.next = @ + 1] \in AttemptStates
      /\ [attempt[a] EXCEPT !.next = @ + 1, !.admittedAt = now] \in AttemptStates
      /\ [attempt[a] EXCEPT !.pc = p] \in AttemptStates
      /\ [attempt[a] EXCEPT !.pc = p, !.next = 1] \in AttemptStates
      /\ [attempt[a] EXCEPT !.next = @ + 1, !.pc = p] \in AttemptStates
  <2>1. ASSUME NEW x \in AttemptStates
        PROVE  [x EXCEPT !.next = @ + 1] \in AttemptStates
    BY DEF AttemptStates
  <2>2. ASSUME NEW x \in AttemptStates
        PROVE  [x EXCEPT !.pc = p] \in AttemptStates
    BY DEF AttemptStates
  <2>3. ASSUME NEW x \in AttemptStates, NEW n \in Nat \ {0}
        PROVE  [x EXCEPT !.pc = p, !.next = n] \in AttemptStates
    BY DEF AttemptStates
  <2>4. ASSUME NEW x \in AttemptStates, NEW n \in Nat \ {0}
        PROVE  [x EXCEPT !.next = n, !.pc = p] \in AttemptStates
    BY DEF AttemptStates
  <2>5. ASSUME NEW x \in AttemptStates, NEW n \in Nat \ {0}, NEW t \in Nat
        PROVE  [x EXCEPT !.next = n, !.admittedAt = t] \in AttemptStates
    BY DEF AttemptStates
  <2>6. attempt[a] \in AttemptStates /\ now \in Nat /\ 1 \in Nat \ {0}
    BY <1>1
  <2>7. attempt[a].next + 1 \in Nat \ {0}
    BY <2>6 DEF AttemptStates
  <2> QED
    BY <2>1, <2>2, <2>3, <2>4, <2>5, <2>6, <2>7, Zenon
<1>4. /\ [attempt EXCEPT ![a].next = @ + 1]
            = [attempt EXCEPT ![a] = [attempt[a] EXCEPT !.next = @ + 1]]
      /\ [attempt EXCEPT ![a].next = @ + 1, ![a].admittedAt = now]
            = [attempt EXCEPT ![a] = [attempt[a] EXCEPT !.next = @ + 1, !.admittedAt = now]]
      /\ [attempt EXCEPT ![a].pc = p] = [attempt EXCEPT ![a] = [attempt[a] EXCEPT !.pc = p]]
      /\ [attempt EXCEPT ![a].pc = p, ![a].next = 1]
            = [attempt EXCEPT ![a] = [attempt[a] EXCEPT !.pc = p, !.next = 1]]
      /\ [attempt EXCEPT ![a].next = @ + 1, ![a].pc = p]
            = [attempt EXCEPT ![a] = [attempt[a] EXCEPT !.next = @ + 1, !.pc = p]]
  BY <1>1 DEF AttemptStates
<1> QED
  BY <1>2, <1>3, <1>4

(* The rows that settling writes are rows. *)
LEMMA SettledIsRow ==
    ASSUME TypeOK, NEW a \in Attempts, NEW s \in Scopes
    PROVE  /\ Refunded(a, s) \in Rows
           /\ Cleared(a, s) \in Rows
           /\ Settled(a, s) \in {Refunded(a, s), Cleared(a, s)}
<1>1. row[s] \in Rows
  BY DEF TypeOK, Rows
<1> QED
  BY <1>1 DEF Refunded, Cleared, Settled, NoRow, Rows

(* Steps that change neither rows nor places: only the next scope and the    *)
(* phase move, and no attempt goes back to reserving.                        *)
LEMMA BookkeepingStep ==
    ASSUME ThrottleInv, TypeOK', UNCHANGED <<row, lastGen, place>>,
           \A a \in Attempts : attempt'[a].pc = "reserving" =>
               attempt[a].pc = "reserving" /\ attempt'[a].next = attempt[a].next
    PROVE  ThrottleInv'
<1>1. UnreservedHasNoPlace'
  BY DEF ThrottleInv, UnreservedHasNoPlace
<1>2. \A s \in Scopes : ScopeInv(s)'
  BY InvariantByScope, UntouchedScope
<1> QED
  BY <1>1, <1>2 DEF ThrottleInv, PlacesFollowGenerations, CounterIsExact, BudgetHolds, ScopeInv

(* reserveScope keeps the invariant. *)
LEMMA ReserveKeepsInv ==
    ASSUME ThrottleInv, NEW a \in Attempts, ReserveScope(a)
    PROVE  ThrottleInv'
<1>0. TypeOK /\ UnreservedHasNoPlace /\ \A t \in Scopes : ScopeInv(t)
  BY InvariantByScope
<1>1. PICK t : t = Current(a)
  OBVIOUS
<1>2. PICK g : g = Generation(t)
  OBVIOUS
<1>3. /\ attempt[a].pc = "reserving" /\ attempt[a].next <= Len(ScopesOf[a])
      /\ row' = [row EXCEPT ![t] =
             [found |-> TRUE, blockedUntil |-> 0, updatedAt |-> now,
              failedAttempts |-> (IF StartsOver(t) THEN 0 ELSE row[t].failedAttempts) + 1,
              generation |-> g]]
      /\ lastGen' = [lastGen EXCEPT ![t] = IF StartsOver(t) THEN @ + 1 ELSE @]
      /\ place' = [place EXCEPT ![a][t] = g]
      /\ attempt' = [attempt EXCEPT ![a].next = @ + 1, ![a].admittedAt = now]
      /\ now' = now
  BY <1>1, <1>2 DEF ReserveScope
<1>4. /\ t \in Scopes
      /\ attempt[a].next \in 1..Len(ScopesOf[a])
      /\ \A n \in 1..Len(ScopesOf[a]) : n # attempt[a].next => ScopesOf[a][n] # t
  BY <1>0, <1>1, <1>3, CurrentScope
<1>5. place[a][t] = 0
  BY <1>0, <1>1, <1>3, <1>4 DEF UnreservedHasNoPlace, Current
<1>6. g \in Nat
  BY <1>0, <1>2, <1>4, RoomForOne
<1>7. TypeOK'
  <2>1. row' \in [Scopes -> Rows]
    BY <1>0, <1>3, <1>4, <1>6 DEF TypeOK, Rows
  <2>2. /\ lastGen' \in [Scopes -> Nat]
        /\ place' \in [Attempts -> [Scopes -> Nat]]
        /\ now' \in Nat
    <3>1. lastGen \in [Scopes -> Nat] /\ place \in [Attempts -> [Scopes -> Nat]] /\ now \in Nat
      BY <1>0 DEF TypeOK
    <3>2. lastGen' \in [Scopes -> Nat]
      BY <3>1, <1>3, <1>4
    <3>3. place' \in [Attempts -> [Scopes -> Nat]]
      BY <3>1, <1>3, <1>4, <1>6
    <3> QED
      BY <3>1, <3>2, <3>3, <1>3
  <2>3. attempt' \in [Attempts -> AttemptStates]
    <3>1. "done" \in Phases
      BY DEF Phases
    <3> QED
      BY <3>1, <1>0, <1>3, AttemptMoves
  <2> QED
    BY <2>1, <2>2, <2>3 DEF TypeOK, AttemptStates
<1>8. UnreservedHasNoPlace'
  <2> SUFFICES ASSUME NEW b \in Attempts, attempt'[b].pc = "reserving",
                      NEW n \in attempt'[b].next..Len(ScopesOf[b])
               PROVE  place'[b][ScopesOf[b][n]] = 0
    BY DEF UnreservedHasNoPlace
  <2>1. CASE b = a
    <3>1. attempt'[a].next = attempt[a].next + 1 /\ attempt[a].next \in Nat
      BY <1>0, <1>3 DEF TypeOK, Rows
    <3>2. n \in attempt[a].next..Len(ScopesOf[a]) /\ n # attempt[a].next
          /\ n \in 1..Len(ScopesOf[a])
      BY <2>1, <3>1, <1>4
    <3>3. ScopesOf[a][n] # t /\ place[a][ScopesOf[a][n]] = 0
      BY <3>2, <1>0, <1>3, <1>4 DEF UnreservedHasNoPlace
    <3> QED
      BY <2>1, <3>3, <1>0, <1>3 DEF TypeOK, Rows
  <2>2. CASE b # a
    <3>1. attempt'[b] = attempt[b] /\ place'[b] = place[b]
      BY <2>2, <1>0, <1>3 DEF TypeOK, Rows
    <3> QED
      BY <3>1, <1>0 DEF UnreservedHasNoPlace
  <2> QED
    BY <2>1, <2>2
<1>9. ASSUME NEW u \in Scopes PROVE ScopeInv(u)'
  <2>1. CASE u = t
    <3>1. /\ place'[a][t] = g /\ \A b \in Attempts \ {a} : place'[b][t] = place[b][t]
          /\ lastGen'[t] = IF StartsOver(t) THEN lastGen[t] + 1 ELSE lastGen[t]
          /\ row'[t].found /\ row'[t].blockedUntil = 0 /\ row'[t].generation = g
          /\ row'[t].failedAttempts = (IF StartsOver(t) THEN 0 ELSE row[t].failedAttempts) + 1
      BY <1>0, <1>3, <1>4 DEF TypeOK, Rows
    <3> QED
      BY <2>1, <3>1, <1>0, <1>2, <1>4, <1>5, AdmittingScope
  <2>2. CASE u # t
    <3>1. row'[u] = row[u] /\ lastGen'[u] = lastGen[u]
          /\ \A b \in Attempts : place'[b][u] = place[b][u]
      BY <2>2, <1>0, <1>3 DEF TypeOK, Rows
    <3> QED
      BY <3>1, <1>0, UntouchedScope
  <2> QED
    BY <2>1, <2>2
<1> QED
  BY <1>7, <1>8, <1>9 DEF ThrottleInv, PlacesFollowGenerations, CounterIsExact, BudgetHolds, ScopeInv

(* fail keeps the invariant. *)
LEMMA FailKeepsInv ==
    ASSUME ThrottleInv, NEW a \in Attempts, FailScope(a)
    PROVE  ThrottleInv'
<1>0. TypeOK /\ UnreservedHasNoPlace /\ \A t \in Scopes : ScopeInv(t)
  BY InvariantByScope
<1>1. PICK t : t = Current(a)
  OBVIOUS
<1>2. t \in Scopes
  BY <1>0, <1>1, CurrentScope DEF FailScope
<1>3. /\ attempt[a].pc = "failing"
      /\ attempt' = [attempt EXCEPT ![a].next = @ + 1]
      /\ UNCHANGED <<lastGen, place, now>>
      /\ \/ row' = row
         \/ row[t].found /\ ~Blocked(t) /\ row' = [row EXCEPT ![t] = Failed(t)]
  BY <1>1 DEF FailScope, SameGeneration
<1>4. TypeOK'
  <2>1. row[t] \in Rows /\ now \in Nat
    BY <1>0, <1>2 DEF TypeOK
  <2>2. Failed(t) \in Rows
    <3>1. ASSUME NEW n \in Nat, NEW u \in Nat, NEW r \in Rows
          PROVE  [r EXCEPT !.updatedAt = now, !.failedAttempts = n, !.blockedUntil = u] \in Rows
      BY <2>1 DEF Rows
    <3>2. (IF Full(t) THEN 0 ELSE row[t].failedAttempts) \in Nat
          /\ (IF Full(t) THEN now + Window ELSE 0) \in Nat
      BY <2>1, BudgetAndWindow DEF Rows
    <3> QED
      BY <2>1, <3>1, <3>2, Zenon DEF Failed
  <2>3. row' \in [Scopes -> Rows]
    BY <1>0, <1>3, <2>2 DEF TypeOK
  <2>4. "done" \in Phases
    BY DEF Phases
  <2>5. attempt' \in [Attempts -> AttemptStates]
    BY <1>0, <1>3, <2>4, AttemptMoves
  <2> QED
    BY <1>0, <1>3, <2>3, <2>5 DEF TypeOK, AttemptStates
<1>5. UnreservedHasNoPlace'
  <2> SUFFICES ASSUME NEW b \in Attempts, attempt'[b].pc = "reserving",
                      NEW n \in attempt'[b].next..Len(ScopesOf[b])
               PROVE  place'[b][ScopesOf[b][n]] = 0
    BY DEF UnreservedHasNoPlace
  <2>1. attempt'[a].pc = attempt[a].pc
    BY <1>0, <1>3 DEF TypeOK
  <2>2. b # a /\ attempt'[b] = attempt[b] /\ place'[b] = place[b]
    BY <1>0, <1>3, <2>1 DEF TypeOK
  <2> QED
    BY <2>2, <1>0 DEF UnreservedHasNoPlace
<1>6. ASSUME NEW u \in Scopes PROVE ScopeInv(u)'
  <2>1. CASE row'[u] = row[u]
    BY <2>1, <1>0, <1>3, UntouchedScope
  <2>2. CASE row'[u] # row[u]
    <3>1. u = t /\ row[t].found /\ ~Blocked(t) /\ row'[t] = Failed(t)
      BY <2>2, <1>0, <1>2, <1>3 DEF TypeOK
    <3> QED
      BY <3>1, <1>0, <1>2, <1>3, FailingScope
  <2> QED
    BY <2>1, <2>2
<1> QED
  BY <1>4, <1>5, <1>6 DEF ThrottleInv, PlacesFollowGenerations, CounterIsExact, BudgetHolds, ScopeInv

(* clear and release settle one scope of their attempt. *)
LEMMA SettleOneKeepsInv ==
    ASSUME ThrottleInv, NEW a \in Attempts, ClearScope(a) \/ ReleaseScope(a)
    PROVE  ThrottleInv'
<1>0. TypeOK /\ UnreservedHasNoPlace /\ \A t \in Scopes : ScopeInv(t)
  BY InvariantByScope
<1>1. PICK t : t = Current(a)
  OBVIOUS
<1>2. t \in Scopes
  BY <1>0, <1>1, CurrentScope DEF ClearScope, ReleaseScope
<1>3. Settled(a, t) \in {Refunded(a, t), Cleared(a, t)}
      /\ Refunded(a, t) \in Rows /\ Cleared(a, t) \in Rows
  BY <1>0, <1>2, SettledIsRow
<1>4. /\ attempt[a].pc # "reserving"
      /\ attempt' = [attempt EXCEPT ![a].next = @ + 1]
      /\ UNCHANGED <<lastGen, now>>
      /\ place' = [place EXCEPT ![a][t] = 0]
  BY <1>1 DEF ClearScope, ReleaseScope
<1>5. PICK r : /\ row' = [row EXCEPT ![t] = r]
               /\ \/ r = Refunded(a, t) \/ r = Cleared(a, t)
                  \/ place[a][t] = 0 /\ r = row[t]
  <2>1. CASE ClearScope(a)
    BY <1>1, <1>3, <2>1 DEF ClearScope
  <2>2. CASE ReleaseScope(a)
    BY <1>1, <2>2 DEF ReleaseScope
  <2> QED
    BY <2>1, <2>2
<1>6. TypeOK'
  <2>1. row' \in [Scopes -> Rows]
    BY <1>0, <1>2, <1>3, <1>5 DEF TypeOK
  <2>2. place' \in [Attempts -> [Scopes -> Nat]]
    BY <1>0, <1>2, <1>4 DEF TypeOK
  <2>3. "done" \in Phases
    BY DEF Phases
  <2>4. attempt' \in [Attempts -> AttemptStates]
    BY <1>0, <1>4, <2>3, AttemptMoves
  <2> QED
    BY <1>0, <1>4, <2>1, <2>2, <2>4 DEF TypeOK, AttemptStates
<1>7. UnreservedHasNoPlace'
  <2> SUFFICES ASSUME NEW b \in Attempts, attempt'[b].pc = "reserving",
                      NEW n \in attempt'[b].next..Len(ScopesOf[b])
               PROVE  place'[b][ScopesOf[b][n]] = 0
    BY DEF UnreservedHasNoPlace
  <2>1. attempt'[a].pc = attempt[a].pc
    BY <1>0, <1>4 DEF TypeOK
  <2>2. b # a /\ attempt'[b] = attempt[b] /\ place'[b] = place[b]
    BY <1>0, <1>4, <2>1 DEF TypeOK
  <2> QED
    BY <2>2, <1>0 DEF UnreservedHasNoPlace
<1>8. ASSUME NEW u \in Scopes PROVE ScopeInv(u)'
  <2>1. CASE u = t
    <3>1. /\ row'[t] = r /\ place'[a][t] = 0 /\ lastGen'[t] = lastGen[t]
          /\ \A b \in Attempts \ {a} : place'[b][t] = place[b][t]
      BY <1>0, <1>2, <1>4, <1>5 DEF TypeOK
    <3> QED
      BY <2>1, <3>1, <1>0, <1>2, <1>5, SettlingScope
  <2>2. CASE u # t
    <3>1. row'[u] = row[u] /\ lastGen'[u] = lastGen[u]
          /\ \A b \in Attempts : place'[b][u] = place[b][u]
      BY <2>2, <1>0, <1>4, <1>5 DEF TypeOK
    <3> QED
      BY <3>1, <1>0, UntouchedScope
  <2> QED
    BY <2>1, <2>2
<1> QED
  BY <1>6, <1>7, <1>8 DEF ThrottleInv, PlacesFollowGenerations, CounterIsExact, BudgetHolds, ScopeInv

(* CompleteLogin settles all scopes of its attempt at once. *)
LEMMA CompleteKeepsInv ==
    ASSUME ThrottleInv, NEW a \in Attempts, CompleteLogin(a)
    PROVE  ThrottleInv'
<1>0. TypeOK /\ UnreservedHasNoPlace /\ \A t \in Scopes : ScopeInv(t)
  BY InvariantByScope
<1>1. /\ row' = [s \in Scopes |-> IF place[a][s] # 0 THEN Settled(a, s) ELSE row[s]]
      /\ place' = [place EXCEPT ![a] = NoPlaces]
      /\ attempt' = [attempt EXCEPT ![a].pc = "done"]
      /\ UNCHANGED <<lastGen, now>>
  BY DEF CompleteLogin
<1>2. TypeOK'
  <2>1. row' \in [Scopes -> Rows]
    BY <1>0, <1>1, SettledIsRow DEF TypeOK
  <2>2. place' \in [Attempts -> [Scopes -> Nat]]
    BY <1>0, <1>1 DEF TypeOK, NoPlaces
  <2>3. "done" \in Phases
    BY DEF Phases
  <2>4. attempt' \in [Attempts -> AttemptStates]
    BY <1>0, <1>1, <2>3, AttemptMoves
  <2> QED
    BY <1>0, <1>1, <2>1, <2>2, <2>4 DEF TypeOK, AttemptStates
<1>3. UnreservedHasNoPlace'
  <2> SUFFICES ASSUME NEW b \in Attempts, attempt'[b].pc = "reserving",
                      NEW n \in attempt'[b].next..Len(ScopesOf[b])
               PROVE  place'[b][ScopesOf[b][n]] = 0
    BY DEF UnreservedHasNoPlace
  <2>1. attempt'[a].pc = "done"
    BY <1>0, <1>1 DEF TypeOK
  <2>2. b # a /\ attempt'[b] = attempt[b] /\ place'[b] = place[b]
    BY <1>0, <1>1, <2>1 DEF TypeOK
  <2> QED
    BY <2>2, <1>0 DEF UnreservedHasNoPlace
<1>4. ASSUME NEW u \in Scopes PROVE ScopeInv(u)'
  <2>1. /\ place'[a][u] = 0 /\ lastGen'[u] = lastGen[u]
        /\ \A b \in Attempts \ {a} : place'[b][u] = place[b][u]
    BY <1>0, <1>1 DEF TypeOK, NoPlaces
  <2>2. Settled(a, u) \in {Refunded(a, u), Cleared(a, u)}
    BY <1>0, SettledIsRow
  <2>3. \/ row'[u] = Refunded(a, u) \/ row'[u] = Cleared(a, u)
        \/ place[a][u] = 0 /\ row'[u] = row[u]
    BY <1>1, <2>2
  <2> QED
    BY <2>1, <2>3, <1>0, SettlingScope
<1> QED
  BY <1>2, <1>3, <1>4 DEF ThrottleInv, PlacesFollowGenerations, CounterIsExact, BudgetHolds, ScopeInv

(* The steps of an attempt that write nothing to the table of throttles. *)
LEMMA PhaseKeepsInv ==
    ASSUME ThrottleInv, NEW a \in Attempts,
           \/ RefuseScope(a) \/ \E verdict \in Verdicts(a) : Verify(a, verdict)
           \/ ReleaseFault(a) \/ CompleteLoginFault(a) \/ Finish(a) \/ Lose(a)
    PROVE  ThrottleInv'
<1>0. TypeOK
  BY DEF ThrottleInv
<1>1. UNCHANGED <<row, lastGen, place, now>>
  BY DEF RefuseScope, Verify, ReleaseFault, CompleteLoginFault, Finish, Lose
<1>2. PICK p \in Phases \ {"reserving"} :
         \/ attempt' = [attempt EXCEPT ![a].next = @ + 1] /\ attempt[a].pc # "reserving"
         \/ attempt' = [attempt EXCEPT ![a].pc = p]
         \/ attempt' = [attempt EXCEPT ![a].pc = p, ![a].next = 1]
         \/ attempt' = [attempt EXCEPT ![a].next = @ + 1, ![a].pc = p]
  BY DEF RefuseScope, Verify, Verdicts, ReleaseFault, CompleteLoginFault, Finish, Lose, Phases
<1>3. TypeOK'
  <2>0. /\ [attempt EXCEPT ![a].next = @ + 1] \in [Attempts -> AttemptStates]
        /\ [attempt EXCEPT ![a].pc = p] \in [Attempts -> AttemptStates]
        /\ [attempt EXCEPT ![a].pc = p, ![a].next = 1] \in [Attempts -> AttemptStates]
        /\ [attempt EXCEPT ![a].next = @ + 1, ![a].pc = p] \in [Attempts -> AttemptStates]
    BY <1>0, AttemptMoves
  <2>1. attempt' \in [Attempts -> AttemptStates]
    BY <1>2, <2>0, Zenon
  <2> QED
    BY <1>0, <1>1, <2>1 DEF TypeOK, AttemptStates
<1>4. \A b \in Attempts : attempt'[b].pc = "reserving" =>
          attempt[b].pc = "reserving" /\ attempt'[b].next = attempt[b].next
  <2>1. attempt'[a].pc # "reserving"
    <3>1. CASE attempt' = [attempt EXCEPT ![a].next = @ + 1] /\ attempt[a].pc # "reserving"
      BY <1>0, <3>1 DEF TypeOK
    <3>2. CASE attempt' = [attempt EXCEPT ![a].pc = p]
      BY <1>0, <3>2 DEF TypeOK
    <3>3. CASE attempt' = [attempt EXCEPT ![a].pc = p, ![a].next = 1]
      BY <1>0, <3>3 DEF TypeOK
    <3>4. CASE attempt' = [attempt EXCEPT ![a].next = @ + 1, ![a].pc = p]
      BY <1>0, <3>4 DEF TypeOK
    <3> QED
      BY <1>2, <3>1, <3>2, <3>3, <3>4
  <2>2. \A b \in Attempts \ {a} : attempt'[b] = attempt[b]
    BY <1>0, <1>2 DEF TypeOK
  <2> QED
    BY <2>1, <2>2
<1> QED
  BY <1>1, <1>3, <1>4, BookkeepingStep

(* The invariant holds in every reachable state: attempts that overlap, that *)
(* settle after a rollover, that are lost half way or whose writes fail      *)
(* included.                                                                 *)
THEOREM ThrottleInvariance == Spec => []ThrottleInv
<1>1. Init => ThrottleInv
  <2> SUFFICES ASSUME Init PROVE ThrottleInv
    OBVIOUS
  <2>1. TypeOK
    BY DEF Init, TypeOK, NoRow, NoPlaces, Rows, Phases
  <2>2. PlacesFollowGenerations /\ CounterIsExact /\ BudgetHolds
    BY DEF Init, PlacesFollowGenerations, CounterIsExact, BudgetHolds, NoRow, NoPlaces
  <2>3. UnreservedHasNoPlace
    <3>1. \A a \in Attempts : ScopesOf[a] \in Seq(Scopes)
      BY ThrottleAssumption DEF ThrottleAssumption
    <3> QED
      BY <3>1 DEF Init, UnreservedHasNoPlace, NoPlaces
  <2> QED
    BY <2>1, <2>2, <2>3 DEF ThrottleInv
<1>2. ThrottleInv /\ [Next]_vars => ThrottleInv'
  <2> SUFFICES ASSUME ThrottleInv, [Next]_vars PROVE ThrottleInv'
    OBVIOUS
  <2>1. CASE UNCHANGED vars
    BY <2>1 DEF vars, ThrottleInv, TypeOK, PlacesFollowGenerations, UnreservedHasNoPlace,
                CounterIsExact, BudgetHolds, Charged
  <2>2. CASE Tick
    <3>1. TypeOK' /\ UNCHANGED <<row, lastGen, attempt, place>>
      BY <2>2 DEF Tick, ThrottleInv, TypeOK
    <3> QED
      BY <3>1, BookkeepingStep
  <2>3. ASSUME NEW a \in Attempts, ReserveScope(a) PROVE ThrottleInv'
    BY <2>3, ReserveKeepsInv
  <2>4. ASSUME NEW a \in Attempts, FailScope(a) PROVE ThrottleInv'
    BY <2>4, FailKeepsInv
  <2>5. ASSUME NEW a \in Attempts, ClearScope(a) \/ ReleaseScope(a) PROVE ThrottleInv'
    BY <2>5, SettleOneKeepsInv
  <2>6. ASSUME NEW a \in Attempts, CompleteLogin(a) PROVE ThrottleInv'
    BY <2>6, CompleteKeepsInv
  <2>7. ASSUME NEW a \in Attempts,
               \/ RefuseScope(a) \/ \E verdict \in Verdicts(a) : Verify(a, verdict)
               \/ ReleaseFault(a) \/ CompleteLoginFault(a) \/ Finish(a) \/ Lose(a)
        PROVE  ThrottleInv'
    BY <2>7, PhaseKeepsInv
  <2> QED
    BY <2>1, <2>2, <2>3, <2>4, <2>5, <2>6, <2>7 DEF Next
<1> QED
  BY <1>1, <1>2, PTL DEF Spec

(* "The guesses admitted within a generation never exceed its budget", for   *)
(* every number of concurrent attempts and every order of their settlements. *)
THEOREM BudgetIsKept == Spec => []BudgetHolds
<1>1. ThrottleInv => BudgetHolds
  BY DEF ThrottleInv
<1> QED
  BY <1>1, ThrottleInvariance, PTL

(* The counter of an unblocked row is the number of places of its            *)
(* generation: refunds and resets lose none and give none back twice.        *)
THEOREM CounterIsKept == Spec => []CounterIsExact
<1>1. ThrottleInv => CounterIsExact
  BY DEF ThrottleInv
<1> QED
  BY <1>1, ThrottleInvariance, PTL

(* Counters and times stay natural numbers: no refund takes one below zero.  *)
THEOREM ThrottleTypes == Spec => []TypeOK
<1>1. ThrottleInv => TypeOK
  BY DEF ThrottleInv
<1> QED
  BY <1>1, ThrottleInvariance, PTL

(* Both at once: every refund and settlement writes a sound counter.         *)
THEOREM CountersStaySound == Spec => []CountersAreSound
  BY CounterIsKept, ThrottleTypes, PTL DEF CountersAreSound

(* What a settlement writes to a blocked address is what was there.          *)
LEMMA BlockedRowStays ==
    ASSUME NEW a \in Attempts, NEW s \in Addresses, Blocked(s)
    PROVE  Refunded(a, s) = row[s] /\ Settled(a, s) = row[s]
BY DEF Refunded, Settled

(* A running block of an address ends by time alone: no success, refund or   *)
(* late failure, of any number of attempts, changes its row.                 *)
THEOREM BlocksStand == Spec => AddressBlockStands
<1>1. ThrottleInv /\ [Next]_vars =>
         [\A s \in Addresses : Blocked(s) /\ row[s].blockedUntil > now => row'[s] = row[s]]_vars
  <2> SUFFICES ASSUME ThrottleInv, Next, NEW s \in Addresses,
                      Blocked(s), row[s].blockedUntil > now
               PROVE  row'[s] = row[s]
    OBVIOUS
  <2>0. TypeOK /\ s \in Scopes
    BY ThrottleAssumption DEF ThrottleInv, ThrottleAssumption
  <2>1. CASE UNCHANGED row
    BY <2>1
  <2>2. ASSUME NEW a \in Attempts, ReserveScope(a) PROVE row'[s] = row[s]
    <3>1. Refuses(s)
      BY DEF Refuses
    <3>2. Current(a) # s
      BY <2>2, <3>1 DEF ReserveScope
    <3> QED
      BY <2>0, <2>2, <3>2 DEF ReserveScope, TypeOK
  <2>3. ASSUME NEW a \in Attempts, FailScope(a) PROVE row'[s] = row[s]
    BY <2>0, <2>3 DEF FailScope, TypeOK
  <2>4. ASSUME NEW a \in Attempts, ClearScope(a) \/ ReleaseScope(a) PROVE row'[s] = row[s]
    <3>1. Refunded(a, s) = row[s] /\ Settled(a, s) = row[s]
      BY BlockedRowStays
    <3> QED
      BY <2>0, <2>4, <3>1 DEF ClearScope, ReleaseScope, TypeOK
  <2>5. ASSUME NEW a \in Attempts, CompleteLogin(a) PROVE row'[s] = row[s]
    <3>1. Settled(a, s) = row[s]
      BY BlockedRowStays
    <3> QED
      BY <2>0, <2>5, <3>1 DEF CompleteLogin
  <2> QED
    BY <2>1, <2>2, <2>3, <2>4, <2>5
       DEF Next, RefuseScope, Verify, ReleaseFault, CompleteLoginFault, Finish, Lose, Tick
<1> QED
  BY <1>1, ThrottleInvariance, PTL DEF Spec, AddressBlockStands

-----------------------------------------------------------------------------
(* The part of RefusalInv that is about one attempt. *)
RefusalOf(a) ==
    /\ \A s \in Scopes : place[a][s] # 0 => \E n \in 1..Len(ScopesOf[a]) : ScopesOf[a][n] = s
    /\ attempt[a].pc = "refusing" =>
          \A n \in 1..Len(ScopesOf[a]) :
              n < attempt[a].next => place[a][ScopesOf[a][n]] = 0
    /\ attempt[a].pc = "refused" => place[a] = NoPlaces

(* RefusalInv is a part per attempt. *)
LEMMA RefusalByAttempt == RefusalInv <=> \A a \in Attempts : RefusalOf(a)
BY DEF RefusalInv, PlacesAreInScopes, RefusalGivesBack, RefusedHoldsNothing, RefusalOf

(* An attempt a step leaves alone keeps its part. *)
LEMMA IdleAttempt ==
    ASSUME NEW a \in Attempts, RefusalOf(a), attempt'[a] = attempt[a], place'[a] = place[a]
    PROVE  RefusalOf(a)'
BY DEF RefusalOf, NoPlaces

(* No action touches the phase or the places of another attempt. *)
LEMMA OnlyOneAttempt ==
    ASSUME TypeOK, NEW a \in Attempts, NEW b \in Attempts \ {a},
           \/ ReserveScope(a) \/ RefuseScope(a)
           \/ \E verdict \in Verdicts(a) : Verify(a, verdict)
           \/ FailScope(a) \/ ClearScope(a) \/ CompleteLogin(a)
           \/ ReleaseScope(a) \/ ReleaseFault(a) \/ CompleteLoginFault(a)
           \/ Finish(a) \/ Lose(a)
    PROVE  attempt'[b] = attempt[b] /\ place'[b] = place[b]
BY DEF TypeOK, ReserveScope, RefuseScope, Verify, FailScope, ClearScope, CompleteLogin,
       ReleaseScope, ReleaseFault, CompleteLoginFault, Finish, Lose

(* reserveScope takes a place in a scope of its attempt. *)
LEMMA ReserveRefusal ==
    ASSUME TypeOK, NEW a \in Attempts, RefusalOf(a), ReserveScope(a)
    PROVE  RefusalOf(a)'
<1>1. attempt[a].next \in 1..Len(ScopesOf[a])
  BY CurrentScope DEF ReserveScope
<1>2. attempt'[a].pc = "reserving"
  BY DEF TypeOK, ReserveScope
<1>3. \A s \in Scopes \ {Current(a)} : place'[a][s] = place[a][s]
  BY DEF TypeOK, ReserveScope
<1> QED
  BY <1>1, <1>2, <1>3 DEF RefusalOf, Current

(* A release gives the place of the scope it is at back. *)
LEMMA GiveBackRefusal ==
    ASSUME TypeOK, NEW a \in Attempts, RefusalOf(a), ClearScope(a) \/ ReleaseScope(a)
    PROVE  RefusalOf(a)'
<1>1. attempt[a].next \in 1..Len(ScopesOf[a]) /\ Current(a) \in Scopes
  BY CurrentScope DEF ClearScope, ReleaseScope
<1>2. /\ attempt'[a].pc = attempt[a].pc /\ attempt[a].pc # "refused"
      /\ attempt'[a].next = attempt[a].next + 1
      /\ attempt[a].next \in Nat
  BY DEF TypeOK, ClearScope, ReleaseScope
<1>3. /\ place'[a][Current(a)] = 0
      /\ \A s \in Scopes \ {Current(a)} : place'[a][s] = place[a][s]
  BY <1>1 DEF TypeOK, ClearScope, ReleaseScope
<1>4. ASSUME attempt'[a].pc = "refusing", NEW n \in 1..Len(ScopesOf[a]), n < attempt'[a].next
      PROVE  place'[a][ScopesOf[a][n]] = 0
  <2>1. ScopesOf[a][n] \in Scopes
    BY ThrottleAssumption DEF ThrottleAssumption
  <2>2. CASE n = attempt[a].next
    BY <2>2, <1>3 DEF Current
  <2>3. CASE n # attempt[a].next
    BY <2>1, <2>3, <1>2, <1>3, <1>4 DEF RefusalOf
  <2> QED
    BY <2>2, <2>3
<1> QED
  BY <1>2, <1>3, <1>4 DEF RefusalOf

(* An attempt ends as refused when its release has been through its scopes,  *)
(* so that no place is left.                                                 *)
LEMMA FinishRefusal ==
    ASSUME TypeOK, NEW a \in Attempts, RefusalOf(a), Finish(a)
    PROVE  RefusalOf(a)'
<1>1. /\ place' = place
      /\ attempt'[a].pc # "refusing"
      /\ attempt'[a].pc = "refused" => attempt[a].pc = "refusing"
  BY DEF TypeOK, Finish
<1>2. ASSUME attempt[a].pc = "refusing" PROVE place[a] = NoPlaces
  <2>1. attempt[a].next > Len(ScopesOf[a]) /\ attempt[a].next \in Nat
    BY DEF TypeOK, Finish
  <2>2. Len(ScopesOf[a]) \in Nat
    BY ThrottleAssumption DEF ThrottleAssumption
  <2>3. \A n \in 1..Len(ScopesOf[a]) : place[a][ScopesOf[a][n]] = 0
    BY <1>2, <2>1, <2>2 DEF RefusalOf
  <2>4. \A s \in Scopes : place[a][s] = 0
    BY <2>3 DEF RefusalOf
  <2>5. place[a] \in [Scopes -> Nat]
    BY DEF TypeOK
  <2> QED
    BY <2>4, <2>5 DEF NoPlaces
<1>3. attempt'[a].pc = "refused" => place'[a] = NoPlaces
  BY <1>1, <1>2
<1>4. NoPlaces' = NoPlaces
  BY DEF NoPlaces
<1> QED
  BY <1>1, <1>3, <1>4 DEF RefusalOf

(* The other steps leave the places alone or drop them all, and neither      *)
(* advance a refusal nor end one.                                            *)
LEMMA OtherRefusal ==
    ASSUME TypeOK, NEW a \in Attempts, RefusalOf(a),
           \/ RefuseScope(a) \/ \E verdict \in Verdicts(a) : Verify(a, verdict)
           \/ FailScope(a) \/ CompleteLogin(a)
           \/ ReleaseFault(a) \/ CompleteLoginFault(a) \/ Lose(a)
    PROVE  RefusalOf(a)'
<1>1. CASE RefuseScope(a)
  <2>1. attempt'[a].pc = "refusing" /\ attempt'[a].next = 1 /\ place' = place
    BY <1>1 DEF TypeOK, RefuseScope
  <2> QED
    BY <2>1 DEF RefusalOf
<1>2. CASE CompleteLogin(a)
  <2>1. attempt'[a].pc = "done" /\ place'[a] = NoPlaces
    BY <1>2 DEF TypeOK, CompleteLogin
  <2> QED
    BY <2>1 DEF RefusalOf, NoPlaces
<1>3. CASE \/ \E verdict \in Verdicts(a) : Verify(a, verdict)
           \/ FailScope(a) \/ ReleaseFault(a) \/ CompleteLoginFault(a) \/ Lose(a)
  <2>1. attempt'[a].pc \notin {"refusing", "refused"} /\ place' = place
    BY <1>3 DEF TypeOK, Verify, Verdicts, FailScope, ReleaseFault, CompleteLoginFault, Lose
  <2> QED
    BY <2>1 DEF RefusalOf
<1> QED
  BY <1>1, <1>2, <1>3

(* Places stay within the scopes of their attempt, and a refusal gives them  *)
(* back in order.                                                            *)
THEOREM RefusalInvariance == Spec => []RefusalInv
<1>1. Init => RefusalInv
  BY DEF Init, RefusalInv, PlacesAreInScopes, RefusalGivesBack, RefusedHoldsNothing, NoPlaces
<1>2. TypeOK /\ RefusalInv /\ [Next]_vars => RefusalInv'
  <2> SUFFICES ASSUME TypeOK, RefusalInv, [Next]_vars, NEW b \in Attempts
               PROVE  RefusalOf(b)'
    BY RefusalByAttempt DEF RefusalInv, PlacesAreInScopes, RefusalGivesBack,
                            RefusedHoldsNothing, RefusalOf
  <2>0. RefusalOf(b)
    BY RefusalByAttempt
  <2>1. CASE UNCHANGED vars \/ Tick
    BY <2>0, <2>1, IdleAttempt DEF vars, Tick
  <2>2. ASSUME NEW a \in Attempts,
               \/ ReserveScope(a) \/ RefuseScope(a)
               \/ \E verdict \in Verdicts(a) : Verify(a, verdict)
               \/ FailScope(a) \/ ClearScope(a) \/ CompleteLogin(a)
               \/ ReleaseScope(a) \/ ReleaseFault(a) \/ CompleteLoginFault(a)
               \/ Finish(a) \/ Lose(a)
        PROVE  RefusalOf(b)'
    <3>1. CASE a # b
      BY <2>0, <2>2, <3>1, OnlyOneAttempt, IdleAttempt
    <3>2. CASE a = b
      BY <2>0, <2>2, <3>2, ReserveRefusal, GiveBackRefusal, FinishRefusal, OtherRefusal
    <3> QED
      BY <3>1, <3>2
  <2> QED
    BY <2>1, <2>2 DEF Next
<1> QED
  BY <1>1, <1>2, ThrottleTypes, PTL DEF Spec

(* "Admits one attempt in every scope, or none": an attempt that was refused *)
(* in some scope, and whose release no write failed, has no place in any.    *)
THEOREM RefusalsHoldNothing == Spec => []RefusedHoldsNothing
<1>1. RefusalInv => RefusedHoldsNothing
  BY DEF RefusalInv
<1> QED
  BY <1>1, RefusalInvariance, PTL

-----------------------------------------------------------------------------
(* The part of WindowInv that is about one address. *)
WindowOf(s) ==
    /\ IF row[s].found THEN row[s].generation = lastGen[s] ELSE lastGen[s] = 0
    /\ \A a \in Attempts : place[a][s] # 0 =>
          /\ attempt[a].admittedAt <= now
          /\ ~Blocked(s) => attempt[a].admittedAt <= row[s].updatedAt
          /\ Blocked(s) => attempt[a].admittedAt + Window <= row[s].blockedUntil
    /\ \A a \in Attempts : place[a][s] \in 1..(lastGen[s] - 1) =>
          /\ attempt[a].admittedAt + Window <= now
          /\ \A b \in Attempts : place[b][s] > place[a][s] =>
                attempt[a].admittedAt + Window <= attempt[b].admittedAt

(* WindowInv is a part per address. *)
LEMMA WindowByAddress == WindowInv <=> \A s \in Addresses : WindowOf(s)
BY DEF WindowInv, AddressRowsStay, AdmissionsAreOlder, GenerationsAreApart, WindowOf

(* The values of one address. *)
LEMMA AddressValues ==
    ASSUME ThrottleInv, NEW s \in Addresses
    PROVE  /\ s \in Scopes /\ row[s] \in Rows /\ lastGen[s] \in Nat /\ now \in Nat
           /\ \A a \in Attempts : /\ attempt[a].admittedAt \in Nat
                                  /\ place[a][s] \in Nat
                                  /\ place[a][s] <= lastGen[s]
<1>1. s \in Scopes
  BY ThrottleAssumption DEF ThrottleAssumption
<1> QED
  BY <1>1 DEF ThrottleInv, TypeOK, PlacesFollowGenerations

(* An attempt that is about to reserve a scope has no place at an address    *)
(* yet: the address is the last of its scopes.                               *)
LEMMA AddressComesLast ==
    ASSUME ThrottleInv, RefusalInv, NEW a \in Attempts, NEW s \in Addresses,
           attempt[a].pc = "reserving", attempt[a].next <= Len(ScopesOf[a])
    PROVE  place[a][s] = 0
<1> SUFFICES ASSUME place[a][s] # 0 PROVE FALSE
  OBVIOUS
<1>1. s \in Scopes /\ attempt[a].next \in Nat \ {0} /\ Len(ScopesOf[a]) \in Nat
  BY ThrottleAssumption DEF ThrottleAssumption, ThrottleInv, TypeOK
<1>2. PICK n \in 1..Len(ScopesOf[a]) : ScopesOf[a][n] = s
  BY <1>1 DEF RefusalInv, PlacesAreInScopes
<1>3. n = Len(ScopesOf[a])
  BY <1>2, ThrottleAssumption DEF ThrottleAssumption
<1>4. n \in attempt[a].next..Len(ScopesOf[a])
  BY <1>1, <1>3
<1> QED
  BY <1>2, <1>4 DEF ThrottleInv, UnreservedHasNoPlace

(* An address that admits nobody and is not failed: places may go, the       *)
(* counter may drop and time may pass.                                       *)
LEMMA QuietAddress ==
    ASSUME ThrottleInv, NEW s \in Addresses, WindowOf(s),
           lastGen'[s] = lastGen[s],
           now' \in Nat, now' >= now,
           row'[s].found = row[s].found,
           row'[s].generation = row[s].generation,
           row'[s].updatedAt = row[s].updatedAt,
           row'[s].blockedUntil = row[s].blockedUntil,
           \A a \in Attempts : place'[a][s] # 0 =>
               /\ place'[a][s] = place[a][s]
               /\ attempt'[a].admittedAt = attempt[a].admittedAt
    PROVE  WindowOf(s)'
<1>1. /\ row[s] \in Rows /\ lastGen[s] \in Nat /\ now \in Nat
      /\ \A a \in Attempts : attempt[a].admittedAt \in Nat /\ place[a][s] \in Nat
  BY AddressValues
<1>2. Window \in Nat
  BY BudgetAndWindow
<1>3. Blocked(s)' <=> Blocked(s)
  BY DEF Blocked
<1>4. ASSUME NEW a \in Attempts, place'[a][s] # 0
      PROVE  /\ attempt'[a].admittedAt <= now'
             /\ ~Blocked(s)' => attempt'[a].admittedAt <= row'[s].updatedAt
             /\ Blocked(s)' => attempt'[a].admittedAt + Window <= row'[s].blockedUntil
  BY <1>1, <1>3, <1>4 DEF WindowOf
<1>5. ASSUME NEW a \in Attempts, place'[a][s] \in 1..(lastGen'[s] - 1)
      PROVE  attempt'[a].admittedAt + Window <= now'
  <2>1. attempt[a].admittedAt + Window <= now /\ attempt'[a].admittedAt = attempt[a].admittedAt
    BY <1>5 DEF WindowOf
  <2> QED
    BY <2>1, <1>1, <1>2
<1>6. ASSUME NEW a \in Attempts, place'[a][s] \in 1..(lastGen'[s] - 1),
             NEW b \in Attempts, place'[b][s] > place'[a][s]
      PROVE  attempt'[a].admittedAt + Window <= attempt'[b].admittedAt
  <2>1. place'[b][s] # 0 /\ place'[a][s] # 0
    BY <1>6, <1>1
  <2> QED
    BY <2>1, <1>6 DEF WindowOf
<1> QED
  BY <1>4, <1>5, <1>6 DEF WindowOf

(* A failure at an address counts from now on: no admission is later.        *)
LEMMA FailedAddress ==
    ASSUME ThrottleInv, NEW s \in Addresses, WindowOf(s),
           row'[s] = Failed(s),
           UNCHANGED <<lastGen, place, now>>,
           \A a \in Attempts : attempt'[a].admittedAt = attempt[a].admittedAt
    PROVE  WindowOf(s)'
<1>1. /\ row[s] \in Rows /\ now \in Nat
      /\ \A a \in Attempts : attempt[a].admittedAt \in Nat
  BY AddressValues
<1>2. Window \in Nat \ {0}
  BY BudgetAndWindow
<1>3. /\ row'[s].found = row[s].found /\ row'[s].generation = row[s].generation
      /\ row'[s].updatedAt = now
      /\ row'[s].blockedUntil \in {0, now + Window}
  BY <1>1 DEF Failed, Rows
<1>4. ASSUME NEW a \in Attempts, place'[a][s] # 0
      PROVE  /\ attempt'[a].admittedAt <= now'
             /\ ~Blocked(s)' => attempt'[a].admittedAt <= row'[s].updatedAt
             /\ Blocked(s)' => attempt'[a].admittedAt + Window <= row'[s].blockedUntil
  <2>1. attempt[a].admittedAt <= now
    BY <1>4 DEF WindowOf
  <2> QED
    BY <2>1, <1>1, <1>2, <1>3 DEF Blocked
<1> QED
  BY <1>3, <1>4 DEF WindowOf

(* An admission to a new generation of an address comes a window after every *)
(* place it still has: that is what its refusals waited for.                 *)
LEMMA NewGenerationWaited ==
    ASSUME ThrottleInv, NEW s \in Addresses, WindowOf(s), ~Refuses(s), StartsOver(s),
           NEW b \in Attempts, place[b][s] # 0
    PROVE  attempt[b].admittedAt + Window <= now
<1>1. /\ row[s] \in Rows /\ now \in Nat
      /\ attempt[b].admittedAt \in Nat
      /\ place[b][s] \in Nat /\ place[b][s] <= lastGen[s]
  BY AddressValues
<1>2. Window \in Nat
  BY BudgetAndWindow
<1>3. row[s].found
  BY <1>1 DEF WindowOf
<1>4. CASE Blocked(s)
  <2>1. ~(row[s].blockedUntil > now) /\ attempt[b].admittedAt + Window <= row[s].blockedUntil
    BY <1>4 DEF Refuses, WindowOf
  <2> QED
    BY <2>1, <1>1, <1>2 DEF Rows
<1>5. CASE ~Blocked(s)
  <2>1. ~(row[s].updatedAt + Window > now) /\ attempt[b].admittedAt <= row[s].updatedAt
    BY <1>3, <1>5 DEF Refuses, StartsOver, WindowOf
  <2> QED
    BY <2>1, <1>1, <1>2 DEF Rows
<1> QED
  BY <1>4, <1>5

(* reserveScope at an address.                                               *)
LEMMA AdmittingAddress ==
    ASSUME ThrottleInv, NEW s \in Addresses, WindowOf(s), ~Refuses(s),
           NEW a \in Attempts, NEW g, g = Generation(s), place'[a][s] = g,
           attempt'[a].admittedAt = now, now' = now,
           \A b \in Attempts \ {a} : /\ place'[b][s] = place[b][s]
                                     /\ attempt'[b].admittedAt = attempt[b].admittedAt,
           lastGen'[s] = IF StartsOver(s) THEN lastGen[s] + 1 ELSE lastGen[s],
           row'[s].found, row'[s].blockedUntil = 0, row'[s].updatedAt = now,
           row'[s].generation = g
    PROVE  WindowOf(s)'
<1>1. /\ row[s] \in Rows /\ lastGen[s] \in Nat /\ now \in Nat
      /\ \A b \in Attempts : /\ attempt[b].admittedAt \in Nat
                             /\ place[b][s] \in Nat
                             /\ place[b][s] <= lastGen[s]
  BY AddressValues
<1>2. Window \in Nat
  BY BudgetAndWindow
<1>3. g = lastGen'[s]
  BY DEF Generation, StartsOver, WindowOf
<1>4. ~Blocked(s)'
  BY DEF Blocked
<1>5. ASSUME NEW b \in Attempts \ {a}, place[b][s] # 0 PROVE attempt[b].admittedAt <= now
  BY <1>5 DEF WindowOf
<1>6. \A b \in Attempts : place'[b][s] # 0 => attempt'[b].admittedAt <= now
  BY <1>1, <1>5
<1>7. ASSUME NEW b \in Attempts, place'[b][s] \in 1..(lastGen'[s] - 1)
      PROVE  /\ b # a /\ place[b][s] # 0
             /\ attempt[b].admittedAt + Window <= now
  <2>1. b # a /\ place[b][s] # 0
    BY <1>1, <1>3, <1>7
  <2>2. CASE StartsOver(s)
    BY <2>1, <2>2, NewGenerationWaited
  <2>3. CASE ~StartsOver(s)
    BY <2>1, <2>3, <1>7 DEF WindowOf
  <2> QED
    BY <2>1, <2>2, <2>3
<1>8. ASSUME NEW b \in Attempts, place'[b][s] \in 1..(lastGen'[s] - 1),
             NEW c \in Attempts, place'[c][s] > place'[b][s]
      PROVE  attempt'[b].admittedAt + Window <= attempt'[c].admittedAt
  <2>1. b # a /\ attempt'[b].admittedAt = attempt[b].admittedAt
        /\ place'[b][s] = place[b][s]
    BY <1>7, <1>8
  <2>2. CASE c = a
    BY <2>1, <2>2, <1>7, <1>8
  <2>3. CASE c # a
    <3>1. place[c][s] > place[b][s] /\ place[c][s] <= lastGen[s]
      BY <2>1, <2>3, <1>1, <1>8
    <3>2. place[b][s] \in 1..(lastGen[s] - 1)
      BY <2>1, <3>1, <1>1, <1>8
    <3> QED
      BY <2>1, <2>3, <3>1, <3>2 DEF WindowOf
  <2> QED
    BY <2>2, <2>3
<1>9. \A b \in Attempts : place'[b][s] \in 1..(lastGen'[s] - 1) =>
          attempt'[b].admittedAt + Window <= now'
  BY <1>7
<1>10. \A b \in Attempts : place'[b][s] # 0 =>
          /\ attempt'[b].admittedAt <= now'
          /\ ~Blocked(s)' => attempt'[b].admittedAt <= row'[s].updatedAt
          /\ Blocked(s)' => attempt'[b].admittedAt + Window <= row'[s].blockedUntil
  BY <1>4, <1>6
<1> QED
  BY <1>3, <1>8, <1>9, <1>10 DEF WindowOf

(* reserveScope admits to its own scope, and moves the admission time of an  *)
(* attempt that has no place at an address yet.                              *)
LEMMA ReserveKeepsWindow ==
    ASSUME ThrottleInv, RefusalInv, NEW a \in Attempts, ReserveScope(a),
           NEW s \in Addresses, WindowOf(s)
    PROVE  WindowOf(s)'
<1>0. TypeOK /\ s \in Scopes
  BY ThrottleAssumption DEF ThrottleInv, ThrottleAssumption
<1>1. place[a][s] = 0
  BY AddressComesLast DEF ReserveScope
<1>2. \A b \in Attempts \ {a} : /\ place'[b][s] = place[b][s]
                                /\ attempt'[b].admittedAt = attempt[b].admittedAt
  BY <1>0 DEF TypeOK, ReserveScope
<1>3. attempt'[a].admittedAt = now /\ now' = now
  BY <1>0 DEF TypeOK, ReserveScope
<1>4. CASE s = Current(a)
  <2>1. /\ ~Refuses(s)
        /\ place'[a][s] = Generation(s)
        /\ lastGen'[s] = IF StartsOver(s) THEN lastGen[s] + 1 ELSE lastGen[s]
        /\ row'[s].found /\ row'[s].blockedUntil = 0 /\ row'[s].updatedAt = now
        /\ row'[s].generation = Generation(s)
    BY <1>0, <1>4 DEF TypeOK, ReserveScope
  <2> QED
    BY <1>2, <1>3, <2>1, AdmittingAddress
<1>5. CASE s # Current(a)
  <2>1. row'[s] = row[s] /\ lastGen'[s] = lastGen[s] /\ place'[a][s] = place[a][s]
    BY <1>0, <1>5 DEF TypeOK, ReserveScope
  <2>2. \A b \in Attempts : place'[b][s] # 0 =>
            /\ place'[b][s] = place[b][s]
            /\ attempt'[b].admittedAt = attempt[b].admittedAt
    BY <1>1, <1>2, <2>1
  <2>3. now' \in Nat /\ now' >= now
    BY <1>0, <1>3 DEF TypeOK
  <2> QED
    BY <2>1, <2>2, <2>3, QuietAddress
<1> QED
  BY <1>4, <1>5

(* Moving to another scope or phase does not change a time of admission.     *)
LEMMA AdmissionTimesStay ==
    ASSUME TypeOK, NEW a \in Attempts, NEW p,
           \/ attempt' = [attempt EXCEPT ![a].next = @ + 1]
           \/ attempt' = [attempt EXCEPT ![a].pc = p]
           \/ attempt' = [attempt EXCEPT ![a].pc = p, ![a].next = 1]
           \/ attempt' = [attempt EXCEPT ![a].next = @ + 1, ![a].pc = p],
           NEW b \in Attempts
    PROVE  attempt'[b].admittedAt = attempt[b].admittedAt
<1>1. attempt \in [Attempts -> [pc: Phases, next: Nat \ {0}, admittedAt: Nat]]
  BY DEF TypeOK
<1>2. CASE attempt' = [attempt EXCEPT ![a].next = @ + 1]
  BY <1>1, <1>2
<1>3. CASE attempt' = [attempt EXCEPT ![a].pc = p]
  BY <1>1, <1>3
<1>4. CASE attempt' = [attempt EXCEPT ![a].pc = p, ![a].next = 1]
  BY <1>1, <1>4
<1>5. CASE attempt' = [attempt EXCEPT ![a].next = @ + 1, ![a].pc = p]
  BY <1>1, <1>5
<1> QED
  BY <1>2, <1>3, <1>4, <1>5

(* The settlements of an attempt: an address is refunded or failed, never    *)
(* cleared, and a place that is not given back stays as it was.              *)
LEMMA SettlementKeepsWindow ==
    ASSUME ThrottleInv, NEW a \in Attempts,
           FailScope(a) \/ ClearScope(a) \/ ReleaseScope(a) \/ CompleteLogin(a),
           NEW s \in Addresses, WindowOf(s)
    PROVE  WindowOf(s)'
<1>0. TypeOK /\ s \in Scopes
  BY ThrottleAssumption DEF ThrottleInv, ThrottleAssumption
<1>1. /\ lastGen' = lastGen /\ now' = now /\ now \in Nat
      /\ \A b \in Attempts : attempt'[b].admittedAt = attempt[b].admittedAt
  <2>1. /\ lastGen' = lastGen /\ now' = now
        /\ \/ attempt' = [attempt EXCEPT ![a].next = @ + 1]
           \/ attempt' = [attempt EXCEPT ![a].pc = "done"]
    BY DEF FailScope, ClearScope, ReleaseScope, CompleteLogin
  <2>2. now \in Nat
    BY <1>0 DEF TypeOK
  <2> QED
    BY <1>0, <2>1, <2>2, AdmissionTimesStay
<1>2. \A b \in Attempts : place'[b][s] # 0 => place'[b][s] = place[b][s]
  <2>1. CASE CompleteLogin(a)
    BY <1>0, <2>1 DEF TypeOK, CompleteLogin, NoPlaces
  <2>2. CASE FailScope(a)
    BY <2>2 DEF FailScope
  <2>3. CASE ClearScope(a) \/ ReleaseScope(a)
    <3>1. place' = [place EXCEPT ![a][Current(a)] = 0]
      BY <2>3 DEF ClearScope, ReleaseScope
    <3> QED
      BY <1>0, <3>1 DEF TypeOK
  <2> QED
    BY <2>1, <2>2, <2>3
<1>3. row'[s] \in {row[s], Refunded(a, s)} \/ (FailScope(a) /\ row'[s] = Failed(s))
  <2>1. Settled(a, s) = Refunded(a, s)
    BY DEF Settled
  <2>2. CASE CompleteLogin(a)
    BY <1>0, <2>1, <2>2 DEF CompleteLogin
  <2>3. CASE FailScope(a)
    BY <1>0, <2>3 DEF TypeOK, FailScope
  <2>4. CASE ClearScope(a)
    BY <1>0, <2>1, <2>4 DEF TypeOK, ClearScope
  <2>5. CASE ReleaseScope(a)
    BY <1>0, <2>5 DEF TypeOK, ReleaseScope
  <2> QED
    BY <2>2, <2>3, <2>4, <2>5
<1>4. CASE row'[s] \in {row[s], Refunded(a, s)}
  <2>1. /\ row'[s].found = row[s].found
        /\ row'[s].generation = row[s].generation
        /\ row'[s].updatedAt = row[s].updatedAt
        /\ row'[s].blockedUntil = row[s].blockedUntil
    BY <1>0, <1>4 DEF TypeOK, Rows, Refunded
  <2>2. now' >= now
    BY <1>1
  <2> QED
    BY <1>1, <1>2, <2>1, <2>2, QuietAddress
<1>5. CASE FailScope(a) /\ row'[s] = Failed(s)
  <2>1. place' = place
    BY <1>5 DEF FailScope
  <2> QED
    BY <1>1, <1>5, <2>1, FailedAddress
<1> QED
  BY <1>3, <1>4, <1>5

(* Every other step leaves rows, places and admission times alone.           *)
LEMMA OtherStepKeepsWindow ==
    ASSUME ThrottleInv,
           \/ UNCHANGED vars
           \/ Tick
           \/ \E a \in Attempts :
                 \/ RefuseScope(a) \/ \E verdict \in Verdicts(a) : Verify(a, verdict)
                 \/ ReleaseFault(a) \/ CompleteLoginFault(a) \/ Finish(a) \/ Lose(a),
           NEW s \in Addresses, WindowOf(s)
    PROVE  WindowOf(s)'
<1>0. TypeOK
  BY DEF ThrottleInv
<1>1. UNCHANGED <<row, lastGen, place>>
  BY DEF vars, Tick, RefuseScope, Verify, ReleaseFault, CompleteLoginFault, Finish, Lose
<1>2. now' \in Nat /\ now' >= now
  <2>1. now' \in {now, now + 1}
    BY DEF vars, Tick, RefuseScope, Verify, ReleaseFault, CompleteLoginFault, Finish, Lose
  <2> QED
    BY <1>0, <2>1 DEF TypeOK
<1>3. \A b \in Attempts : attempt'[b].admittedAt = attempt[b].admittedAt
  <2>1. CASE attempt' = attempt
    BY <2>1
  <2>2. ASSUME NEW a \in Attempts,
               \/ RefuseScope(a) \/ \E verdict \in Verdicts(a) : Verify(a, verdict)
               \/ ReleaseFault(a) \/ CompleteLoginFault(a) \/ Finish(a) \/ Lose(a)
        PROVE  \A b \in Attempts : attempt'[b].admittedAt = attempt[b].admittedAt
    <3>1. \E p : \/ attempt' = [attempt EXCEPT ![a].pc = p]
                 \/ attempt' = [attempt EXCEPT ![a].pc = p, ![a].next = 1]
                 \/ attempt' = [attempt EXCEPT ![a].next = @ + 1, ![a].pc = p]
      BY <2>2 DEF RefuseScope, Verify, ReleaseFault, CompleteLoginFault, Finish, Lose
    <3> QED
      BY <1>0, <3>1, AdmissionTimesStay
  <2> QED
    BY <2>1, <2>2 DEF vars, Tick
<1> QED
  BY <1>1, <1>2, <1>3, QuietAddress

(* Generations of an address are a window apart, whatever happens.           *)
THEOREM WindowInvariance == Spec => []WindowInv
<1>1. Init => WindowInv
  <2>1. ASSUME Init PROVE \A s \in Addresses : WindowOf(s)
    <3>1. Addresses \subseteq Scopes
      BY ThrottleAssumption DEF ThrottleAssumption
    <3> QED
      BY <2>1, <3>1 DEF Init, WindowOf, NoRow, NoPlaces
  <2> QED
    BY <2>1, WindowByAddress
<1>2. ThrottleInv /\ RefusalInv /\ WindowInv /\ [Next]_vars => WindowInv'
  <2> SUFFICES ASSUME ThrottleInv, RefusalInv, WindowInv, [Next]_vars, NEW s \in Addresses
               PROVE  WindowOf(s)'
    BY DEF WindowInv, AddressRowsStay, AdmissionsAreOlder, GenerationsAreApart, WindowOf
  <2>0. WindowOf(s)
    BY WindowByAddress
  <2>1. ASSUME NEW a \in Attempts, ReserveScope(a) PROVE WindowOf(s)'
    BY <2>0, <2>1, ReserveKeepsWindow
  <2>2. ASSUME NEW a \in Attempts,
               FailScope(a) \/ ClearScope(a) \/ ReleaseScope(a) \/ CompleteLogin(a)
        PROVE  WindowOf(s)'
    BY <2>0, <2>2, SettlementKeepsWindow
  <2>3. CASE \/ UNCHANGED vars
             \/ Tick
             \/ \E a \in Attempts :
                   \/ RefuseScope(a) \/ \E verdict \in Verdicts(a) : Verify(a, verdict)
                   \/ ReleaseFault(a) \/ CompleteLoginFault(a) \/ Finish(a) \/ Lose(a)
    BY <2>0, <2>3, OtherStepKeepsWindow
  <2> QED
    BY <2>1, <2>2, <2>3 DEF Next
<1> QED
  BY <1>1, <1>2, ThrottleInvariance, RefusalInvariance, PTL DEF Spec

(* The places admitted at an address within one window are all of one        *)
(* generation.                                                               *)
LEMMA WindowHasOneGeneration ==
    ASSUME ThrottleInv, WindowInv, NEW s \in Addresses, NEW t \in Nat,
           NEW a \in Attempts, place[a][s] # 0,
           attempt[a].admittedAt \in t..(t + Window - 1),
           NEW b \in Attempts, place[b][s] # 0,
           attempt[b].admittedAt \in t..(t + Window - 1)
    PROVE  place[a][s] = place[b][s]
<1>1. /\ lastGen[s] \in Nat
      /\ \A c \in Attempts : /\ attempt[c].admittedAt \in Nat
                             /\ place[c][s] \in Nat
                             /\ place[c][s] <= lastGen[s]
  BY AddressValues
<1>2. Window \in Nat
  BY BudgetAndWindow
<1>3. ASSUME NEW c \in Attempts, NEW d \in Attempts, place[c][s] # 0, place[c][s] < place[d][s]
      PROVE  attempt[c].admittedAt + Window <= attempt[d].admittedAt
  <2>1. place[c][s] \in 1..(lastGen[s] - 1)
    BY <1>1, <1>3
  <2> QED
    BY <2>1, <1>1, <1>3 DEF WindowInv, GenerationsAreApart
<1>4. ~(place[a][s] < place[b][s]) /\ ~(place[b][s] < place[a][s])
  <2>1. /\ place[a][s] < place[b][s] => attempt[a].admittedAt + Window <= attempt[b].admittedAt
        /\ place[b][s] < place[a][s] => attempt[b].admittedAt + Window <= attempt[a].admittedAt
    BY <1>3
  <2> QED
    BY <2>1, <1>1, <1>2
<1> QED
  BY <1>1, <1>4

(* "Guesses verified within one window": whatever blocks, rollovers, refunds *)
(* and abandoned attempts come between, no window's length has more than     *)
(* Budget of the places that an address still holds.                         *)
THEOREM AddressWindowIsKept == Spec => []AddressWindowHolds
<1>1. ThrottleInv /\ WindowInv => AddressWindowHolds
  <2> SUFFICES ASSUME ThrottleInv, WindowInv, NEW s \in Addresses, NEW t \in 0..now
               PROVE  Cardinality({a \in Attempts :
                                     place[a][s] # 0
                                     /\ attempt[a].admittedAt \in t..(t + Window - 1)})
                        <= Budget
    BY DEF AddressWindowHolds
  <2> DEFINE W == {a \in Attempts : place[a][s] # 0
                                    /\ attempt[a].admittedAt \in t..(t + Window - 1)}
  <2>0. s \in Scopes /\ t \in Nat /\ lastGen[s] \in Nat
    BY AddressValues
  <2>1. CASE W = {}
    <3>1. Cardinality(W) = 0
      BY <2>1, FS_EmptySet
    <3> QED
      BY <3>1, BudgetAndWindow
  <2>2. CASE W # {}
    <3>1. PICK a : a \in W
      BY <2>2
    <3>2. PICK g : g = place[a][s]
      OBVIOUS
    <3>3. W \subseteq Charged(s, g)
      BY <2>0, <3>1, <3>2, WindowHasOneGeneration DEF Charged
    <3>4. Cardinality(W) <= Cardinality(Charged(s, g)) /\ Cardinality(W) \in Nat
      BY <3>3, ChargedIsFinite, FS_Subset, FS_CardinalityType
    <3>5. g \in 1..lastGen[s]
      BY <2>0, <3>1, <3>2, AddressValues
    <3>6. Cardinality(Charged(s, g)) <= Budget /\ Cardinality(Charged(s, g)) \in Nat
      BY <2>0, <3>5, ChargedIsFinite DEF ThrottleInv, BudgetHolds
    <3> QED
      BY <3>4, <3>6, BudgetAndWindow
  <2> QED
    BY <2>1, <2>2
<1> QED
  BY <1>1, ThrottleInvariance, WindowInvariance, PTL

=============================================================================
