------------------------ MODULE ReconciliationProofs ------------------------
(***************************************************************************)
(* What reconciliation promises, for any transactions, days, amounts,      *)
(* balances and sessions, and any number of ledger writes.                 *)
(*                                                                         *)
(* The inductive invariant, ReconciliationInv, adds to the types what the  *)
(* operations rely on and never check: the place a checkpoint was drawn at *)
(* belongs to a transaction that can no longer be removed, so the end of   *)
(* its day stays behind it; a session's difference is about the amounts    *)
(* its selected versions had; a prepared write touches the place where its *)
(* transaction is, for as long as the version it read is the current one.  *)
(*                                                                         *)
(* The owner may enter statements of any days.  What needs each to end     *)
(* after the one whose balance it starts from is said of the chains that   *)
(* are in order (InOrder), and the rest of all.                            *)
(*                                                                         *)
(* Totals and chains are recursions over data.  The induction they need is *)
(* made over a set in place of a predicate (Induction, SetInduction), so   *)
(* that no fact takes an operator for a parameter.                         *)
(***************************************************************************)
EXTENDS Reconciliation, FiniteSetTheorems, SequenceTheorems,
        WellFoundedInduction, TLAPS

(* Induction over the natural numbers, over a set in place of a predicate. *)
LEMMA Induction ==
    ASSUME NEW T \in SUBSET Nat, 0 \in T, \A n \in T : n + 1 \in T
    PROVE  T = Nat
<1>1. SUFFICES ASSUME Nat \ T # {} PROVE FALSE
  OBVIOUS
<1>2. PICK x \in Nat \ T : \A y \in Nat \ T : ~(<<y, x>> \in OpToRel(<, Nat))
  BY <1>1, NatLessThanWellFounded, WFMin, Zenon
<1>3. x \in Nat /\ x \notin T /\ x # 0
  BY <1>2
<1>4. x - 1 \in Nat /\ x - 1 < x /\ (x - 1) + 1 = x
  BY <1>3
<1>5. x - 1 \in T
  <2>1. <<x - 1, x>> \in OpToRel(<, Nat)
    BY <1>3, <1>4 DEF OpToRel
  <2> QED
    BY <1>2, <1>4, <2>1
<1>6. (x - 1) + 1 \in T
  BY <1>5
<1> QED
  BY <1>3, <1>4, <1>6

(* Any element.  A fold over S gives every subset its sum: an element of   *)
(* it, and the sum of the rest.                                            *)
Pick(s) == CHOOSE x \in s : TRUE

Folds(it, a, S) ==
    it = [s \in SUBSET S |-> IF s = {} THEN 0 ELSE a[Pick(s)] + it[s \ {Pick(s)}]]

(* The sum of a over S, as the model adds up. *)
SumOf(a, S) == MapThenSumSet(LAMBDA t : a[t], S)

(* A set without one of its elements has one element less. *)
LEMMA Smaller ==
    ASSUME NEW S, IsFiniteSet(S), NEW s \in SUBSET S, s # {}, NEW x \in s
    PROVE  /\ s \ {x} \in SUBSET S /\ Cardinality(s) \in Nat /\ Cardinality(s) # 0
           /\ Cardinality(s \ {x}) = Cardinality(s) - 1
<1>1. IsFiniteSet(s)
  BY FS_Subset
<1> QED
  BY <1>1, FS_CardinalityType, FS_RemoveElement, FS_EmptySet

(* Adding up a function over every subset of a finite set is a recursion   *)
(* that some function satisfies.                                           *)
LEMMA FoldExists ==
    ASSUME NEW S, IsFiniteSet(S), NEW a, \A s \in S : a[s] \in Int
    PROVE  \E it : Folds(it, a, S)
<1> DEFINE Upto(n) == {g \in [SUBSET S -> Int] : \A s \in SUBSET S : Cardinality(s) <= n =>
                          g[s] = IF s = {} THEN 0 ELSE a[Pick(s)] + g[s \ {Pick(s)}]}
           T == {n \in Nat : Upto(n) # {}}
<1>0. \A s \in SUBSET S : /\ Cardinality(s) \in Nat
                          /\ s # {} => /\ Pick(s) \in s /\ s \ {Pick(s)} \in SUBSET S
                                       /\ Cardinality(s \ {Pick(s)}) = Cardinality(s) - 1
                                       /\ Cardinality(s) # 0
  <2>1. ASSUME NEW s \in SUBSET S PROVE Cardinality(s) \in Nat
    BY FS_Subset, FS_CardinalityType
  <2>2. ASSUME NEW s \in SUBSET S, s # {} PROVE Pick(s) \in s
    BY <2>2 DEF Pick
  <2>3. ASSUME NEW s \in SUBSET S, s # {}
        PROVE  s \ {Pick(s)} \in SUBSET S /\ Cardinality(s \ {Pick(s)}) = Cardinality(s) - 1 /\ Cardinality(s) # 0
    BY <2>2, <2>3, Smaller
  <2> QED
    BY <2>1, <2>2, <2>3
<1>1. 0 \in T
  <2>1. [s \in SUBSET S |-> 0] \in Upto(0)
    BY <1>0
  <2> QED
    BY <2>1
<1>2. ASSUME NEW n \in T PROVE n + 1 \in T
  <2>1. PICK g \in Upto(n) : TRUE
    OBVIOUS
  <2> DEFINE h == [s \in SUBSET S |-> IF Cardinality(s) <= n THEN g[s]
                                     ELSE a[Pick(s)] + g[s \ {Pick(s)}]]
  <2>2. \A s \in SUBSET S : Cardinality(s) > n => s # {}
    <3>1. n \in Nat
      OBVIOUS
    <3>2. Cardinality({}) = 0
      BY FS_EmptySet
    <3>3. ASSUME NEW s \in SUBSET S, Cardinality(s) > n PROVE s # {}
      <4>1. ~(Cardinality({}) > n)
        BY <3>1, <3>2
      <4> QED
        BY <3>3, <4>1, Zenon
    <3> QED
      BY <3>3
  <2>3. h \in [SUBSET S -> Int]
    BY <1>0, <2>1, <2>2
  <2>4. ASSUME NEW s \in SUBSET S, Cardinality(s) <= n + 1
        PROVE  h[s] = IF s = {} THEN 0 ELSE a[Pick(s)] + h[s \ {Pick(s)}]
    <3>1. CASE Cardinality(s) <= n
      BY <1>0, <2>1, <3>1
    <3>2. CASE Cardinality(s) > n
      BY <1>0, <2>1, <2>2, <2>4, <3>2
    <3> QED
      BY <1>0, <3>1, <3>2
  <2>5. h \in Upto(n + 1)
    BY <2>3, <2>4
  <2> HIDE DEF Upto
  <2>6. n + 1 \in Nat /\ Upto(n + 1) # {}
    BY <2>5
  <2> QED
    BY <2>6
<1>3. T = Nat
  <2> HIDE DEF T
  <2>1. T \in SUBSET Nat
    BY DEF T
  <2> QED
    BY <1>1, <1>2, <2>1, Induction
<1>4. Cardinality(S) \in T
  BY <1>3, FS_CardinalityType
<1>5. PICK g \in Upto(Cardinality(S)) : TRUE
  BY <1>4
<1>6. \A s \in SUBSET S : Cardinality(s) <= Cardinality(S)
  BY FS_Subset
<1>7. g = [s \in SUBSET S |-> IF s = {} THEN 0 ELSE a[Pick(s)] + g[s \ {Pick(s)}]]
  BY <1>5, <1>6
<1> QED
  BY <1>7 DEF Folds

(* MapThenSumSet is the recursion that a function satisfies. *)
LEMMA SumIsFold ==
    ASSUME NEW S, IsFiniteSet(S), NEW a, \A s \in S : a[s] \in Int
    PROVE  \E it : Folds(it, a, S) /\ SumOf(a, S) = it[S]
<1>1. PICK it : it = CHOOSE f : Folds(f, a, S)
  OBVIOUS
<1>2. Folds(it, a, S)
  BY <1>1, FoldExists
<1>3. SumOf(a, S) = it[S]
  BY <1>1 DEF SumOf, MapThenSumSet, MapThenFoldSet, Folds, Pick
<1> QED
  BY <1>2, <1>3

(* Induction over the subsets of a finite set, over a set of sets in place *)
(* of a predicate.                                                         *)
LEMMA SetInduction ==
    ASSUME NEW S, IsFiniteSet(S), NEW P \in SUBSET SUBSET S, {} \in P,
           \A s \in SUBSET S : s # {} /\ (\A x \in s : s \ {x} \in P) => s \in P
    PROVE  P = SUBSET S
<1> DEFINE T == {n \in Nat : \A s \in SUBSET S : Cardinality(s) <= n => s \in P}
<1>0. \A s \in SUBSET S : IsFiniteSet(s) /\ Cardinality(s) \in Nat
  BY FS_Subset, FS_CardinalityType
<1>1. 0 \in T
  <2>1. ASSUME NEW s \in SUBSET S, Cardinality(s) <= 0 PROVE s \in P
    <3>1. Cardinality(s) = 0
      BY <1>0, <2>1
    <3> QED
      BY <1>0, <3>1, FS_EmptySet
  <2> QED
    BY <2>1
<1>2. ASSUME NEW n \in T PROVE n + 1 \in T
  <2>0. n \in Nat /\ \A s \in SUBSET S : Cardinality(s) <= n => s \in P
    OBVIOUS
  <2>1. ASSUME NEW s \in SUBSET S, Cardinality(s) <= n + 1, s # {} PROVE s \in P
    <3>1. ASSUME NEW x \in s PROVE s \ {x} \in P
      <4>1. s \ {x} \in SUBSET S /\ Cardinality(s) \in Nat /\ Cardinality(s \ {x}) = Cardinality(s) - 1
        BY <2>1, Smaller
      <4>2. Cardinality(s \ {x}) <= n
        BY <2>1, <4>1
      <4> QED
        BY <2>0, <4>1, <4>2
    <3> QED
      BY <2>1, <3>1
  <2>2. \A s \in SUBSET S : Cardinality(s) <= n + 1 => s \in P
    BY <2>1
  <2> QED
    BY <2>0, <2>2
<1>3. T = Nat
  <2> HIDE DEF T
  <2>1. T \in SUBSET Nat
    BY DEF T
  <2> QED
    BY <1>1, <1>2, <2>1, Induction
<1>4. ASSUME NEW s \in SUBSET S PROVE s \in P
  BY <1>0, <1>3
<1> QED
  BY <1>4

(* Sums of integers are integers. *)
LEMMA FoldIsInt ==
    ASSUME NEW S, IsFiniteSet(S), NEW a, \A s \in S : a[s] \in Int, NEW it, Folds(it, a, S)
    PROVE  it \in [SUBSET S -> Int]
<1> DEFINE P == {s \in SUBSET S : it[s] \in Int}
<1>1. {} \in P
  BY DEF Folds
<1>2. ASSUME NEW s \in SUBSET S, s # {}, \A x \in s : s \ {x} \in P PROVE s \in P
  BY <1>2 DEF Folds, Pick
<1> HIDE DEF P
<1>3. P = SUBSET S
  <2>1. P \in SUBSET SUBSET S
    BY DEF P
  <2> QED
    BY <1>1, <1>2, <2>1, SetInduction
<1> QED
  BY <1>3 DEF P, Folds

(* What a fold adds up does not depend on the order it takes the elements. *)
LEMMA FoldUnwinds ==
    ASSUME NEW S, IsFiniteSet(S), NEW a, \A s \in S : a[s] \in Int, NEW it, Folds(it, a, S)
    PROVE  \A s \in SUBSET S : \A x \in s : it[s] = a[x] + it[s \ {x}]
<1> DEFINE P == {s \in SUBSET S : \A x \in s : it[s] = a[x] + it[s \ {x}]}
<1>0. \A s \in SUBSET S : s # {} => Pick(s) \in s /\ it[s] = a[Pick(s)] + it[s \ {Pick(s)}]
  BY DEF Folds, Pick
<1>1. {} \in P
  OBVIOUS
<1>2. ASSUME NEW s \in SUBSET S, s # {}, \A x \in s : s \ {x} \in P PROVE s \in P
  <2>1. PICK p \in s : it[s] = a[p] + it[s \ {p}]
    BY <1>0, <1>2
  <2>3. ASSUME NEW x \in s, x # p PROVE it[s] = a[x] + it[s \ {x}]
    <3>1. (s \ {p}) \ {x} = (s \ {x}) \ {p}
      OBVIOUS
    <3>0. it \in [SUBSET S -> Int]
      BY FoldIsInt
    <3>2. PICK q \in Int : q = it[(s \ {p}) \ {x}]
      BY <3>0
    <3>3. it[s \ {p}] = a[x] + q
      BY <1>2, <2>3, <3>2
    <3>4. it[s \ {x}] = a[p] + q
      BY <1>2, <2>3, <3>1, <3>2
    <3> QED
      BY <2>1, <3>3, <3>4
  <2> QED
    BY <2>1, <2>3
<1> HIDE DEF P
<1>3. P = SUBSET S
  <2>1. P \in SUBSET SUBSET S
    BY DEF P
  <2> QED
    BY <1>1, <1>2, <2>1, SetInduction
<1> QED
  BY <1>3 DEF P

(* Sums depend only on the numbers that are added up. *)
LEMMA FoldsAgree ==
    ASSUME NEW S, IsFiniteSet(S), NEW a, \A s \in S : a[s] \in Int, NEW it, Folds(it, a, S),
           NEW R, IsFiniteSet(R), NEW b, \A s \in R : b[s] \in Int, NEW jt, Folds(jt, b, R),
           NEW T, T \subseteq S, T \subseteq R, \A x \in T : a[x] = b[x]
    PROVE  it[T] = jt[T]
<1> DEFINE P == {s \in SUBSET T : it[s] = jt[s]}
<1>1. {} \in P
  BY DEF Folds
<1>2. ASSUME NEW s \in SUBSET T, s # {}, \A x \in s : s \ {x} \in P PROVE s \in P
  <2>1. PICK p \in s : p = Pick(s)
    BY <1>2 DEF Pick
  <2>2. it[s] = a[p] + it[s \ {p}] /\ jt[s] = b[p] + jt[s \ {p}]
    BY <1>2, <2>1 DEF Folds
  <2>3. a[p] = b[p] /\ it[s \ {p}] = jt[s \ {p}]
    BY <1>2
  <2> QED
    BY <2>2, <2>3
<1> HIDE DEF P
<1>3. P = SUBSET T
  <2>1. P \in SUBSET SUBSET T
    BY DEF P
  <2>2. IsFiniteSet(T)
    BY FS_Subset
  <2> QED
    BY <1>1, <1>2, <2>1, <2>2, SetInduction
<1> QED
  BY <1>3 DEF P

(***************************************************************************)
(* Sums                                                                    *)
(***************************************************************************)
(* The sum of finitely many integers is one. *)
LEMMA SumIsInt ==
    ASSUME NEW S, IsFiniteSet(S), NEW a, \A s \in S : a[s] \in Int
    PROVE  SumOf(a, S) \in Int
<1>1. PICK it : Folds(it, a, S) /\ SumOf(a, S) = it[S]
  BY SumIsFold
<1>2. it \in [SUBSET S -> Int]
  BY <1>1, FoldIsInt
<1> QED
  BY <1>1, <1>2

(* The sum of nothing. *)
LEMMA SumOfNone ==
    ASSUME NEW a
    PROVE  SumOf(a, {}) = 0
<1>1. PICK it : Folds(it, a, {}) /\ SumOf(a, {}) = it[{}]
  BY SumIsFold, FS_EmptySet
<1> QED
  BY <1>1 DEF Folds

(* Equal numbers have equal sums. *)
LEMMA SumSame ==
    ASSUME NEW S, IsFiniteSet(S), NEW a, NEW b, \A s \in S : a[s] \in Int /\ a[s] = b[s]
    PROVE  SumOf(a, S) = SumOf(b, S)
<1>1. PICK it : Folds(it, a, S) /\ SumOf(a, S) = it[S]
  BY SumIsFold
<1>2. PICK jt : Folds(jt, b, S) /\ SumOf(b, S) = jt[S]
  BY SumIsFold
<1> QED
  BY <1>1, <1>2, FoldsAgree

(* A sum is one of its numbers and the sum of the others. *)
LEMMA SumTakesOut ==
    ASSUME NEW S, IsFiniteSet(S), NEW a, \A s \in S : a[s] \in Int, NEW x \in S
    PROVE  SumOf(a, S) = a[x] + SumOf(a, S \ {x})
<1>1. PICK it : Folds(it, a, S) /\ SumOf(a, S) = it[S]
  BY SumIsFold
<1>2. IsFiniteSet(S \ {x})
  BY FS_Subset
<1>3. PICK jt : Folds(jt, a, S \ {x}) /\ SumOf(a, S \ {x}) = jt[S \ {x}]
  BY <1>2, SumIsFold
<1>4. it[S \ {x}] = jt[S \ {x}]
  BY <1>1, <1>2, <1>3, FoldsAgree
<1>5. it[S] = a[x] + it[S \ {x}]
  BY <1>1, FoldUnwinds
<1> QED
  BY <1>1, <1>3, <1>4, <1>5

(* The sum over two sets that share nothing is the sum of their sums. *)
LEMMA SumOfUnion ==
    ASSUME NEW S, IsFiniteSet(S), NEW R, IsFiniteSet(R), S \cap R = {},
           NEW a, \A s \in S \cup R : a[s] \in Int
    PROVE  SumOf(a, S \cup R) = SumOf(a, S) + SumOf(a, R)
<1> DEFINE P == {s \in SUBSET R : SumOf(a, S \cup s) = SumOf(a, S) + SumOf(a, s)}
<1>0. \A s \in SUBSET R : IsFiniteSet(s) /\ IsFiniteSet(S \cup s)
  BY FS_Subset, FS_Union
<1>1. {} \in P
  <2>1. S \cup {} = S
    OBVIOUS
  <2>2. SumOf(a, S) \in Int
    BY SumIsInt
  <2> QED
    BY <2>1, <2>2, SumOfNone
<1>2. ASSUME NEW s \in SUBSET R, s # {}, \A x \in s : s \ {x} \in P PROVE s \in P
  <2>1. PICK x \in s : TRUE
    BY <1>2
  <2>2. /\ IsFiniteSet(s) /\ IsFiniteSet(S \cup s) /\ IsFiniteSet(s \ {x})
        /\ \A y \in S \cup s : a[y] \in Int
    BY <1>0
  <2>3. SumOf(a, s) = a[x] + SumOf(a, s \ {x})
    BY <2>2, SumTakesOut
  <2>4. SumOf(a, S \cup s) = a[x] + SumOf(a, (S \cup s) \ {x})
    BY <2>2, SumTakesOut
  <2>5. (S \cup s) \ {x} = S \cup (s \ {x})
    OBVIOUS
  <2>6. SumOf(a, S \cup (s \ {x})) = SumOf(a, S) + SumOf(a, s \ {x})
    BY <1>2
  <2>7. SumOf(a, S) \in Int /\ SumOf(a, s \ {x}) \in Int /\ a[x] \in Int
    BY <2>2, SumIsInt
  <2>8. SumOf(a, S \cup s) = a[x] + (SumOf(a, S) + SumOf(a, s \ {x}))
    BY <2>4, <2>5, <2>6
  <2>9. SumOf(a, S \cup s) = SumOf(a, S) + SumOf(a, s)
    BY <2>3, <2>7, <2>8
  <2> QED
    BY <2>9
<1> HIDE DEF P
<1>3. P = SUBSET R
  <2>1. P \in SUBSET SUBSET R
    BY DEF P
  <2> QED
    BY <1>1, <1>2, <2>1, SetInduction
<1> QED
  BY <1>3 DEF P

(***************************************************************************)
(* Chains                                                                  *)
(***************************************************************************)
(* Induction over the first n numbers, from all the smaller ones. *)
LEMMA CourseInduction ==
    ASSUME NEW n \in Nat, NEW P \in SUBSET (1..n),
           \A c \in 1..n : (\A k \in 1..(c - 1) : k \in P) => c \in P
    PROVE  P = 1..n
<1> DEFINE T == {m \in Nat : \A c \in 1..n : c <= m => c \in P}
<1>1. 0 \in T
  OBVIOUS
<1>2. ASSUME NEW m \in T PROVE m + 1 \in T
  <2>1. ASSUME NEW c \in 1..n, c <= m + 1 PROVE c \in P
    <3>1. \A k \in 1..(c - 1) : k \in 1..n /\ k <= m
      BY <2>1
    <3> QED
      BY <3>1
  <2> QED
    BY <2>1
<1>3. T = Nat
  <2> HIDE DEF T
  <2>1. T \in SUBSET Nat
    BY DEF T
  <2> QED
    BY <1>1, <1>2, <2>1, Induction
<1>4. ASSUME NEW c \in 1..n PROVE c \in P
  <2>1. n \in T /\ c <= n
    BY <1>3
  <2> QED
    BY <2>1
<1> QED
  BY <1>4

(* Checkpoints that each go back to an older one or to none, and the       *)
(* recursion that collects their chains.                                   *)
Linked(cps, n) == n \in Nat /\ DOMAIN cps = 1..n /\ \A c \in 1..n : cps[c].previous \in 0..(c - 1)

ChainsOf(f, cps, n) ==
    f = [c \in 1..n |-> {c} \cup (IF cps[c].previous = NoRow THEN {} ELSE f[cps[c].previous])]

(* A chain is its checkpoint and the chain of the one before. *)
LEMMA ChainStep ==
    ASSUME NEW cps, NEW n, NEW f, ChainsOf(f, cps, n)
    PROVE  \A c \in 1..n : /\ cps[c].previous = NoRow => f[c] = {c}
                           /\ cps[c].previous # NoRow => f[c] = {c} \cup f[cps[c].previous]
  BY DEF ChainsOf

(* Where every checkpoint goes back to an older one, the recursion that    *)
(* collects chains is satisfied by some function.                          *)
LEMMA ChainsExist ==
    ASSUME NEW cps, NEW n, Linked(cps, n)
    PROVE  \E f : ChainsOf(f, cps, n)
<1> DEFINE T == {m \in Nat : m <= n => \E f : ChainsOf(f, cps, m)}
<1>1. 0 \in T
  <2>1. ChainsOf([c \in 1..0 |-> {}], cps, 0)
    BY DEF ChainsOf
  <2> QED
    BY <2>1
<1>2. ASSUME NEW m \in T PROVE m + 1 \in T
  <2>1. SUFFICES ASSUME m + 1 <= n PROVE \E f : ChainsOf(f, cps, m + 1)
    OBVIOUS
  <2>2. m \in Nat /\ n \in Nat /\ m <= n
    BY <2>1 DEF Linked
  <2>3. PICK f : ChainsOf(f, cps, m)
    BY <2>2
  <2> DEFINE g == [c \in 1..(m + 1) |->
                      {c} \cup (IF cps[c].previous = NoRow THEN {} ELSE f[cps[c].previous])]
  <2>4. ASSUME NEW c \in 1..m PROVE g[c] = f[c]
    <3>1. f[c] = {c} \cup (IF cps[c].previous = NoRow THEN {} ELSE f[cps[c].previous])
      BY <2>3, ChainStep
    <3>2. c \in 1..(m + 1)
      BY <2>2
    <3> QED
      BY <3>1, <3>2
  <2>5. ASSUME NEW c \in 1..(m + 1), cps[c].previous # NoRow PROVE cps[c].previous \in 1..m
    BY <2>1, <2>2, <2>5 DEF Linked, NoRow
  <2>6. g = [c \in 1..(m + 1) |->
                {c} \cup (IF cps[c].previous = NoRow THEN {} ELSE g[cps[c].previous])]
    BY <2>4, <2>5
  <2>7. ChainsOf(g, cps, m + 1)
    BY <2>6 DEF ChainsOf
  <2> QED
    BY <2>7
<1>3. T = Nat
  <2> HIDE DEF T
  <2>1. T \in SUBSET Nat
    BY DEF T
  <2> QED
    BY <1>1, <1>2, <2>1, Induction
<1> QED
  BY <1>3 DEF Linked

(* More checkpoints do not change the chains of the ones there were. *)
LEMMA ChainsAgree ==
    ASSUME NEW cps, NEW n, Linked(cps, n), NEW dps, NEW m, Linked(dps, m), n <= m,
           \A c \in 1..n : cps[c].previous = dps[c].previous,
           NEW f, ChainsOf(f, cps, n), NEW g, ChainsOf(g, dps, m)
    PROVE  \A c \in 1..n : f[c] = g[c]
<1> DEFINE P == {c \in 1..n : f[c] = g[c]}
<1>1. ASSUME NEW c \in 1..n, \A k \in 1..(c - 1) : k \in P PROVE c \in P
  <2>1. c \in 1..m /\ cps[c].previous \in 0..(c - 1) /\ cps[c].previous = dps[c].previous
    BY DEF Linked
  <2>2. CASE cps[c].previous = NoRow
    <3>1. f[c] = {c}
      BY <2>2, ChainStep
    <3>2. g[c] = {c}
      BY <2>1, <2>2, ChainStep
    <3> QED
      BY <3>1, <3>2
  <2>3. CASE cps[c].previous # NoRow
    <3>1. cps[c].previous \in 1..(c - 1)
      BY <2>1, <2>3 DEF NoRow
    <3>2. f[cps[c].previous] = g[cps[c].previous]
      BY <1>1, <3>1
    <3>3. f[c] = {c} \cup f[cps[c].previous]
      BY <2>3, ChainStep
    <3>4. g[c] = {c} \cup g[cps[c].previous]
      BY <2>1, <2>3, ChainStep
    <3> QED
      BY <3>2, <3>3, <3>4
  <2> QED
    BY <2>2, <2>3
<1> HIDE DEF P
<1>2. P = 1..n
  <2>1. n \in Nat /\ P \in SUBSET (1..n)
    BY DEF P, Linked
  <2> QED
    BY <1>1, <2>1, CourseInduction
<1> QED
  BY <1>2 DEF P

(* A chain begins with its checkpoint, and goes back to older ones with    *)
(* all of their chains.                                                    *)
LEMMA ChainsGoBack ==
    ASSUME NEW cps, NEW n, Linked(cps, n), NEW f, ChainsOf(f, cps, n)
    PROVE  \A c \in 1..n : c \in f[c] /\ f[c] \subseteq 1..c /\ \A k \in f[c] : f[k] \subseteq f[c]
<1> DEFINE P == {c \in 1..n : c \in f[c] /\ f[c] \subseteq 1..c /\ \A k \in f[c] : f[k] \subseteq f[c]}
<1>1. ASSUME NEW c \in 1..n, \A k \in 1..(c - 1) : k \in P PROVE c \in P
  <2>1. cps[c].previous \in 0..(c - 1)
    BY DEF Linked
  <2>2. CASE cps[c].previous = NoRow
    <3>1. f[c] = {c}
      BY <2>2, ChainStep
    <3> QED
      BY <3>1
  <2>3. CASE cps[c].previous # NoRow
    <3>1. PICK p \in 1..(c - 1) : p = cps[c].previous
      BY <2>1, <2>3 DEF NoRow
    <3>2. f[c] = {c} \cup f[p]
      BY <2>3, <3>1, ChainStep
    <3>3. f[p] \subseteq 1..p /\ \A k \in f[p] : f[k] \subseteq f[p]
      BY <1>1, <3>1
    <3>4. f[c] \subseteq 1..c
      BY <3>1, <3>2, <3>3
    <3> QED
      BY <3>2, <3>3, <3>4
  <2> QED
    BY <2>2, <2>3
<1> HIDE DEF P
<1>2. P = 1..n
  <2>1. n \in Nat /\ P \in SUBSET (1..n)
    BY DEF P, Linked
  <2> QED
    BY <1>1, <2>1, CourseInduction
<1> QED
  BY <1>2 DEF P

(* Where no statement is of an earlier day than the one it starts from, no *)
(* statement of a chain is of a later day than its end.                    *)
LEMMA ChainsAreOlder ==
    ASSUME NEW cps, NEW n, Linked(cps, n), NEW f, ChainsOf(f, cps, n),
           \A c \in 1..n : /\ cps[c].date \in Nat
                           /\ cps[c].previous # NoRow => cps[cps[c].previous].date <= cps[c].date
    PROVE  \A c \in 1..n : \A k \in f[c] : cps[k].date <= cps[c].date
<1> DEFINE P == {c \in 1..n : \A k \in f[c] : cps[k].date <= cps[c].date}
<1>1. ASSUME NEW c \in 1..n, \A k \in 1..(c - 1) : k \in P PROVE c \in P
  <2>1. cps[c].previous \in 0..(c - 1)
    BY DEF Linked
  <2>2. CASE cps[c].previous = NoRow
    <3>1. f[c] = {c}
      BY <2>2, ChainStep
    <3> QED
      BY <3>1
  <2>3. CASE cps[c].previous # NoRow
    <3>1. PICK p \in 1..(c - 1) : p = cps[c].previous
      BY <2>1, <2>3 DEF NoRow
    <3>2. f[c] = {c} \cup f[p]
      BY <2>3, <3>1, ChainStep
    <3>3. p \in 1..n /\ n \in Nat
      BY <3>1 DEF Linked
    <3>4. f[p] \subseteq 1..p
      BY <3>3, ChainsGoBack
    <3>5. ASSUME NEW k \in f[p] PROVE cps[k].date <= cps[c].date
      <4>1. k \in 1..n
        BY <3>3, <3>4
      <4>2. cps[p].date <= cps[c].date /\ cps[p].date \in Nat /\ cps[c].date \in Nat
        BY <2>3, <3>1, <3>3
      <4>3. cps[k].date <= cps[p].date
        BY <1>1, <3>1
      <4>4. cps[k].date \in Nat
        BY <4>1
      <4> QED
        BY <4>2, <4>3, <4>4
    <3>6. cps[c].date <= cps[c].date
      OBVIOUS
    <3> QED
      BY <3>2, <3>5, <3>6
  <2> QED
    BY <2>2, <2>3
<1> HIDE DEF P
<1>2. P = 1..n
  <2>1. n \in Nat /\ P \in SUBSET (1..n)
    BY DEF P, Linked
  <2> QED
    BY <1>1, <2>1, CourseInduction
<1> QED
  BY <1>2 DEF P

(***************************************************************************)
(* What the model's operators come to                                      *)
(***************************************************************************)
(* What each line counts for, the lines of a period, and ledgers.          *)
Counts(rows) == [t \in Txns |-> IF InLedger(rows[t]) THEN rows[t].amount ELSE 0]

InPeriod(rows, date, seq) == {t \in Txns : InLedger(rows[t]) /\ Inside(rows[t], date, seq)}

Rows == {rows \in [Txns -> TxnRow] : \A t \in Txns : InLedger(rows[t]) => rows[t].amount \in Amounts}

(* The total of a set of lines in the ledger is a sum. *)
LEMMA TotalIsSum ==
    ASSUME NEW rows \in Rows, NEW S \in SUBSET Txns
    PROVE  /\ Total(rows, S) = SumOf(Counts(rows), S)
           /\ IsFiniteSet(S) /\ \A t \in Txns : Counts(rows)[t] \in Int
<1> DEFINE a == Counts(rows)
<1>1. IsFiniteSet(S) /\ \A t \in Txns : a[t] \in Int
  <2>1. IsFiniteSet(S)
    BY FS_Subset, ReconciliationAssumption
  <2>2. \A t \in Txns : InLedger(rows[t]) => rows[t].amount \in Int
    BY ReconciliationAssumption DEF Rows
  <2> QED
    BY <2>1, <2>2 DEF Counts
<1>2. PICK it : Folds(it, a, S)
  BY <1>1, FoldExists
<1> DEFINE Adds(f) == f = [s \in SUBSET S |->
              IF s = {} THEN 0
              ELSE (IF InLedger(rows[Pick(s)]) THEN rows[Pick(s)].amount ELSE 0) + f[s \ {Pick(s)}]]
<1>3. ASSUME NEW f, Folds(f, a, S) PROVE Adds(f)
  <2>1. \A s \in SUBSET S : s # {} =>
           a[Pick(s)] = IF InLedger(rows[Pick(s)]) THEN rows[Pick(s)].amount ELSE 0
    BY DEF Counts, Pick
  <2> QED
    BY <1>3, <2>1 DEF Folds
<1>4. ASSUME NEW f, Adds(f) PROVE Folds(f, a, S)
  <2>1. \A s \in SUBSET S : s # {} =>
           a[Pick(s)] = IF InLedger(rows[Pick(s)]) THEN rows[Pick(s)].amount ELSE 0
    BY DEF Counts, Pick
  <2> QED
    BY <1>4, <2>1 DEF Folds
<1>5. PICK jt : jt = CHOOSE f : Adds(f)
  OBVIOUS
<1>6. Total(rows, S) = jt[S]
  BY <1>5 DEF Total, MapThenSumSet, MapThenFoldSet, Pick
<1>7. Folds(jt, a, S)
  <2> HIDE DEF Adds
  <2>1. Adds(it)
    BY <1>2, <1>3
  <2>2. Adds(jt)
    BY <1>5, <2>1
  <2> QED
    BY <1>4, <2>2
<1>8. PICK kt : Folds(kt, a, S) /\ SumOf(a, S) = kt[S]
  BY <1>1, SumIsFold
<1>9. jt[S] = kt[S]
  BY <1>1, <1>7, <1>8, FoldsAgree
<1> QED
  BY <1>1, <1>6, <1>8, <1>9

(* The balance of a period is a sum over its lines. *)
LEMMA BalanceIsSum ==
    ASSUME NEW rows \in Rows, NEW date, NEW seq
    PROVE  /\ PeriodBalance(rows, date, seq) = SumOf(Counts(rows), InPeriod(rows, date, seq))
           /\ PeriodBalance(rows, date, seq) \in Int
<1> DEFINE S == InPeriod(rows, date, seq)
           b == [t \in Txns |-> rows[t].amount]
<1>1. IsFiniteSet(S) /\ \A t \in S : b[t] \in Int /\ Counts(rows)[t] = b[t]
  BY FS_Subset, ReconciliationAssumption DEF Counts, Rows, InPeriod
<1>2. PICK it : Folds(it, b, S)
  BY <1>1, FoldExists
<1> DEFINE Adds(f) == f = [s \in SUBSET S |->
              IF s = {} THEN 0 ELSE rows[Pick(s)].amount + f[s \ {Pick(s)}]]
<1>0. \A s \in SUBSET S : s # {} => b[Pick(s)] = rows[Pick(s)].amount
  BY DEF Pick, InPeriod
<1>3. ASSUME NEW f, Folds(f, b, S) PROVE Adds(f)
  BY <1>0, <1>3 DEF Folds
<1>4. ASSUME NEW f, Adds(f) PROVE Folds(f, b, S)
  BY <1>0, <1>4 DEF Folds
<1>5. PICK jt : jt = CHOOSE f : Adds(f)
  OBVIOUS
<1>6. PeriodBalance(rows, date, seq) = jt[S]
  BY <1>5 DEF PeriodBalance, MapThenSumSet, MapThenFoldSet, Pick, InPeriod
<1>7. Folds(jt, b, S)
  <2> HIDE DEF Adds
  <2>1. Adds(it)
    BY <1>2, <1>3
  <2>2. Adds(jt)
    BY <1>5, <2>1
  <2> QED
    BY <1>4, <2>2
<1> HIDE DEF b, S
<1>8. PICK kt : Folds(kt, Counts(rows), S) /\ SumOf(Counts(rows), S) = kt[S]
  BY <1>1, SumIsFold
<1>9. jt[S] = kt[S]
  BY <1>1, <1>7, <1>8, FoldsAgree
<1>10. jt \in [SUBSET S -> Int]
  BY <1>1, <1>7, FoldIsInt
<1> QED
  BY <1>6, <1>8, <1>9, <1>10 DEF S

(* The greatest of some numbers that are bounded. *)
LEMMA GreatestOf ==
    ASSUME NEW n \in Nat, NEW S \in SUBSET (0..n), S # {}
    PROVE  Max(S) \in S /\ \A y \in S : y <= Max(S)
<1> DEFINE T == {k \in Nat : n - k \in S}
<1>1. T \in SUBSET Nat /\ T # {}
  <2>1. PICK x \in S : TRUE
    OBVIOUS
  <2>2. n - x \in T
    BY <2>1
  <2> QED
    BY <2>2
<1>2. PICK k \in T : \A y \in T : ~(<<y, k>> \in OpToRel(<, Nat))
  <2> HIDE DEF T
  <2> QED
    BY <1>1, NatLessThanWellFounded, WFMin, Zenon
<1>3. ASSUME NEW y \in S PROVE n - k >= y
  <2>1. n - y \in T
    OBVIOUS
  <2>2. <<n - y, k>> \in Nat \X Nat /\ ~(n - y < k)
    BY <1>2, <2>1 DEF OpToRel
  <2> QED
    BY <2>2
<1>4. n - k \in S
  BY <1>2
<1>5. \E x \in S : \A y \in S : x >= y
  BY <1>3, <1>4
<1> QED
  BY <1>5 DEF Max

(***************************************************************************)
(* The inductive invariant                                                 *)
(***************************************************************************)
(* A transaction that was posted is never removed. *)
InForce == {"posted", "voided"}

(* The place a boundary was drawn at was given to a transaction that       *)
(* cannot be removed, so a later posting of the day goes after it.         *)
SequencesWereGiven ==
    \A c \in DOMAIN checkpoints :
        \/ checkpoints[c].seq = 0
        \/ \E t \in Txns : /\ txns[t].status \in InForce
                           /\ <<checkpoints[c].date, checkpoints[c].seq>> \in places[t]

(* The lines a checkpoint and the ones it was carried from link.           *)
LinesOf(c) == UNION {checkpoints[k].lines : k \in Chain[c]}

(* A checkpoint and the balance it starts from add up, and what it links   *)
(* is behind its boundary and marked.                                      *)
OwnOK(c) ==
    LET row == checkpoints[c]
    IN  /\ row.balance = StartBalance(c) + Total(txns, row.lines)
        /\ \A t \in row.lines : t \in InPeriod(txns, row.date, row.seq) /\ txns[t].reconciled

(* So it is with all that its chain links, when the chain is in order; and *)
(* when all are, every older checkpoint in use is on the chain.            *)
CarriedOK(c) ==
    LET row == checkpoints[c]
    IN  /\ InOrder(Chain[c]) =>
              /\ row.balance = Total(txns, LinesOf(c))
              /\ \A t \in LinesOf(c) : t \in InPeriod(txns, row.date, row.seq) /\ txns[t].reconciled
        /\ InOrder(DOMAIN checkpoints) => \A a \in Active : a <= c => a \in Chain[c]

(* And the balance of its period is still what it was when the session     *)
(* finished.                                                               *)
StatementOK(c) ==
    c \in Active =>
        /\ checkpoints[c].stood = PeriodBalance(txns, checkpoints[c].date, checkpoints[c].seq)
        /\ OwnOK(c)
        /\ CarriedOK(c)

StatementsInv == CountedOnce /\ \A c \in DOMAIN checkpoints : StatementOK(c)

(* A session still starts from the balance it was told, and its difference *)
(* is the one of the amounts its selected versions had.                    *)
SessionOK(s) ==
    LET session == sessions[s]
    IN  /\ session.start = NoRow => session.startBalance = 0
        /\ session.start # NoRow => session.startBalance = checkpoints[session.start].balance
        /\ \A p \in session.selected : txns[p[1]].status \in InForce /\ p[2] <= txns[p[1]].version
        /\ session.selected # {} =>
              \E a \in [Txns -> Int] :
                 /\ \A p \in session.selected :
                       txns[p[1]].version = p[2] => txns[p[1]].amount = a[p[1]]
                 /\ session.difference =
                       session.balance - (session.startBalance + SumOf(a, SelectedLines(s)))

SessionsInv == \A s \in Sessions : sessions[s] # NoSession => SessionOK(s)

(* A prepared write touches where its transaction is and where it goes, as *)
(* long as the version it read is the current one; a removed transaction   *)
(* never has that version again.                                           *)
IsCreate == request.op \in {"create", "create_draft"}

CreateOK ==
    /\ txns[request.txn].status = "none"
    /\ request.op = "create" => <<request.date, EndOfDay>> \in request.touches

TouchesBoth(row) ==
    {<<row.date, row.seq>>, <<request.date, EndOfDay>>} \subseteq request.touches

CurrentOK(row) ==
    /\ request.op = "update" => \/ row.status = "draft"
                                \/ row.date = request.date /\ row.amount = request.amount
                                \/ TouchesBoth(row)
    /\ request.op = "post" => row.status = "draft" /\ TouchesBoth(row)
    /\ request.op \in Lifecycle => row.status \in InForce /\ <<row.date, row.seq>> \in request.touches

ChangeOK ==
    LET row == txns[request.txn]
    IN  /\ request.version # 0
        /\ request.version <= row.version \/ row.status = "gone"
        /\ request.version = row.version => CurrentOK(row)

(* A write is reviewed when there is something to review. *)
ReviewOK == request.review = "exact" => (request.override <=> request.reviewed # {})

RequestInv == request # Idle => ReviewOK /\ IF IsCreate THEN CreateOK ELSE ChangeOK

ReconciliationInv == TypeOK /\ SequencesWereGiven /\ StatementsInv /\ SessionsInv /\ RequestInv

(* The constants are numbers. *)
LEMMA Numbers ==
    /\ MaxSeq \in Nat /\ MaxWrites \in Nat /\ 0 \in 0..MaxSeq /\ 0 \in Versions
    /\ \A n \in 0..MaxSeq : n \in Nat
    /\ \A n \in Versions : n \in Nat
    /\ \A n \in Dates : n \in Nat
    /\ \A n \in Balances : n \in Int
    /\ \A n \in Amounts : n \in Int
  BY ReconciliationAssumption DEF Versions

(* The last sequence of a day is the greatest that a version has on it. *)
LEMMA LastSeq ==
    ASSUME LedgerOK, NEW d
    PROVE  /\ lastSeq(d) \in 0..MaxSeq
           /\ \A t \in Txns, q \in Nat : <<d, q>> \in places[t] => q <= lastSeq(d)
<1> DEFINE S == {0} \cup {p[2] : p \in {p \in UNION {places[t] : t \in Txns} : p[1] = d}}
<1>0. MaxSeq \in Nat
  BY ReconciliationAssumption
<1>1. S \in SUBSET (0..MaxSeq) /\ S # {}
  <2>1. ASSUME NEW p \in UNION {places[t] : t \in Txns} PROVE p[2] \in 0..MaxSeq
    BY <1>0, <2>1 DEF LedgerOK
  <2> QED
    BY <1>0, <2>1
<1>2. ASSUME NEW t \in Txns, NEW q \in Nat, <<d, q>> \in places[t] PROVE q \in S
  BY <1>2
<1>3. lastSeq(d) = Max(S)
  BY DEF lastSeq
<1> HIDE DEF S
<1> QED
  BY <1>0, <1>1, <1>2, <1>3, GreatestOf

(* A transaction that was created and not removed has a date, an amount,   *)
(* and a place that one of its versions was given.                         *)
LEMMA RealRow ==
    ASSUME LedgerOK, NEW t \in Txns
    PROVE  /\ txns[t] \in TxnRow
           /\ txns[t].status \in {"draft", "posted", "voided"} <=> txns[t].version # 0
           /\ txns[t].version # 0 => /\ txns[t].date \in Dates /\ txns[t].amount \in Amounts
                                     /\ <<txns[t].date, txns[t].seq>> \in places[t]
                                     /\ txns[t].seq \in 1..MaxSeq
  BY DEF LedgerOK, RowOK, TxnRow, Absent

(* A new version keeps the ledger well formed; it stays in its place or    *)
(* goes after every place of its day.                                      *)
LEMMA PlacedRow ==
    ASSUME LedgerOK, NEW t \in Txns, txns[t].status # "gone",
           NEW row \in TxnRow, row.status \in {"draft", "posted", "voided"}, row.date \in Dates,
           row.amount \in Amounts, row.deleted => row.status \in InForce,
           Placed(t, row)
    PROVE  /\ LedgerOK' /\ writes <= writes'
           /\ \E seq \in 1..MaxSeq :
                 /\ txns' = [txns EXCEPT ![t] = [row EXCEPT !.seq = seq, !.version = txns[t].version + 1]]
                 /\ places' = [places EXCEPT ![t] = @ \cup {<<row.date, seq>>}]
                 /\ IF txns[t].status # "none" /\ txns[t].date = row.date
                    THEN seq = txns[t].seq ELSE seq > lastSeq(row.date)
<1>0. MaxSeq \in Nat /\ MaxWrites \in Nat /\ writes \in 0..MaxWrites
  BY ReconciliationAssumption DEF LedgerOK
<1>1. PICK seq : seq = allocateOrInheritAccountDaySeq(t, row.date)
  OBVIOUS
<1>2. /\ IF txns[t].status # "none" /\ txns[t].date = row.date
         THEN seq = txns[t].seq ELSE seq > lastSeq(row.date)
      /\ seq \in 1..MaxSeq
  <2>1. CASE txns[t].status # "none" /\ txns[t].date = row.date
    <3>1. txns[t].version # 0
      BY <2>1, RealRow DEF TxnRow
    <3> QED
      BY <1>1, <2>1, <3>1, RealRow DEF allocateOrInheritAccountDaySeq
  <2>2. CASE ~(txns[t].status # "none" /\ txns[t].date = row.date)
    <3>1. PICK last \in 0..MaxSeq : last = lastSeq(row.date)
      BY LastSeq
    <3>2. seq = last + 1
      BY <1>1, <2>2, <3>1 DEF allocateOrInheritAccountDaySeq
    <3>3. seq <= MaxSeq
      BY <1>1 DEF Placed
    <3> QED
      BY <1>0, <2>2, <3>1, <3>2, <3>3
  <2> QED
    BY <2>1, <2>2
<1>3. PICK r : r = [row EXCEPT !.seq = seq, !.version = txns[t].version + 1]
  OBVIOUS
<1>4. /\ txns' = [txns EXCEPT ![t] = r]
      /\ places' = [places EXCEPT ![t] = @ \cup {<<row.date, seq>>}]
  BY <1>1, <1>3 DEF Placed
<1>5. /\ writes' \in 0..MaxWrites /\ writes <= writes'
      /\ txns[t].version + 1 <= writes' + 2 /\ txns[t].version + 1 \in Versions \ {0}
  <2>1. txns[t].version \in Nat /\ txns[t].version <= writes + 2
    <3>1. txns[t].version \in Versions /\ RowOK(t)
      BY RealRow DEF TxnRow, LedgerOK
    <3> QED
      BY <1>0, <3>1 DEF RowOK, Versions
  <2>2. CASE txns[t].status = "none"
    <3>1. writes' = writes
      BY <2>2 DEF Placed
    <3>2. txns[t].version = 0
      BY <2>2, RealRow
    <3> QED
      BY <1>0, <3>1, <3>2 DEF Versions
  <2>3. CASE txns[t].status # "none"
    <3>1. writes < MaxWrites /\ writes' = writes + 1
      BY <2>3 DEF Placed, NewWrite
    <3> QED
      BY <1>0, <2>1, <3>1 DEF Versions
  <2> QED
    BY <2>2, <2>3
<1>6. /\ r \in TxnRow /\ r.status = row.status /\ r.date = row.date /\ r.amount = row.amount
      /\ r.deleted = row.deleted /\ r.seq = seq /\ r.version = txns[t].version + 1
  <2>1. PICK version \in Versions : version = txns[t].version + 1
    BY <1>5
  <2>2. seq \in 0..MaxSeq
    BY <1>2
  <2>3. r = [row EXCEPT !.seq = seq, !.version = version]
    BY <1>3, <2>1
  <2> QED
    BY <2>1, <2>2, <2>3 DEF TxnRow
<1>7. /\ txns' \in [Txns -> TxnRow] /\ txns'[t] = r
      /\ places' \in [Txns -> SUBSET (Dates \X (1..MaxSeq))] /\ <<row.date, seq>> \in places'[t]
      /\ \A u \in Txns : u # t => txns'[u] = txns[u] /\ places'[u] = places[u]
  BY <1>2, <1>4, <1>6 DEF LedgerOK
<1>8. ASSUME NEW u \in Txns PROVE RowOK(u)'
  <2>1. CASE u = t
    BY <1>5, <1>6, <1>7, <2>1 DEF RowOK, InForce
  <2>2. CASE u # t
    <3>1. txns[u].version \in Nat /\ RowOK(u) /\ txns'[u] = txns[u] /\ places'[u] = places[u]
      BY <1>7, <2>2 DEF LedgerOK, TxnRow, Versions
    <3>2. txns[u].version <= writes' + 2
      BY <1>0, <1>5, <3>1 DEF RowOK
    <3> QED
      BY <3>1, <3>2 DEF RowOK
  <2> QED
    BY <2>1, <2>2
<1> QED
  BY <1>2, <1>3, <1>4, <1>5, <1>7, <1>8 DEF LedgerOK

(***************************************************************************)
(* Steps                                                                   *)
(***************************************************************************)
(* A checkpoint's facts are immutable, and one out of use stays so. *)
SameFacts(c) ==
    /\ checkpoints'[c].previous = checkpoints[c].previous
    /\ checkpoints'[c].date = checkpoints[c].date
    /\ checkpoints'[c].seq = checkpoints[c].seq
    /\ checkpoints'[c].balance = checkpoints[c].balance
    /\ checkpoints'[c].lines = checkpoints[c].lines
    /\ checkpoints'[c].stood = checkpoints[c].stood
    /\ checkpoints'[c].status = "active" => checkpoints[c].status = "active"

(* No checkpoint is new, and none but a status differs. *)
Standing ==
    /\ DOMAIN checkpoints' = DOMAIN checkpoints /\ Len(checkpoints') = Len(checkpoints)
    /\ checkpoints' \in Seq(Checkpoint)
    /\ \A c \in DOMAIN checkpoints : SameFacts(c)

(* Every checkpoint goes back to an older one. *)
LEMMA RowsAreLinked ==
    ASSUME TypeOK
    PROVE  /\ Linked(checkpoints, Len(checkpoints))
           /\ checkpoints \in Seq(Checkpoint)
           /\ \A c \in 1..Len(checkpoints) : checkpoints[c] \in Checkpoint
<1>1. /\ checkpoints \in Seq(Checkpoint)
      /\ \A c \in DOMAIN checkpoints : checkpoints[c].previous < c
  BY DEF TypeOK
<1>2. /\ Len(checkpoints) \in Nat /\ DOMAIN checkpoints = 1..Len(checkpoints)
      /\ \A c \in 1..Len(checkpoints) : checkpoints[c] \in Checkpoint
  BY <1>1
<1>3. ASSUME NEW c \in 1..Len(checkpoints) PROVE checkpoints[c].previous \in 0..(c - 1)
  <2>1. checkpoints[c].previous \in 0..Len(checkpoints) /\ checkpoints[c].previous < c
    BY <1>1, <1>2 DEF Checkpoint
  <2> QED
    BY <1>2, <2>1
<1> QED
  BY <1>1, <1>2, <1>3 DEF Linked

(* The chosen function satisfies the recursion, since one does. *)
LEMMA ChooseChains ==
    ASSUME NEW cps, NEW n, Linked(cps, n), NEW f,
           f = CHOOSE g : g = [c \in DOMAIN cps |->
                 {c} \cup (IF cps[c].previous = NoRow THEN {} ELSE g[cps[c].previous])]
    PROVE  ChainsOf(f, cps, n)
<1>1. PICK g : ChainsOf(g, cps, n)
  BY ChainsExist
<1> DEFINE Is(h) == h = [c \in DOMAIN cps |->
                {c} \cup (IF cps[c].previous = NoRow THEN {} ELSE h[cps[c].previous])]
<1>2. \A h : Is(h) <=> ChainsOf(h, cps, n)
  <2>1. DOMAIN cps = 1..n
    BY DEF Linked
  <2> QED
    BY <2>1 DEF ChainsOf
<1>3. f = CHOOSE h : Is(h)
  OBVIOUS
<1> HIDE DEF Is
<1> QED
  BY <1>1, <1>2, <1>3

(* Chain satisfies its definition. *)
LEMMA ChainIs ==
    ASSUME TypeOK
    PROVE  Linked(checkpoints, Len(checkpoints)) /\ ChainsOf(Chain, checkpoints, Len(checkpoints))
<1>1. Linked(checkpoints, Len(checkpoints))
  BY RowsAreLinked
<1>2. PICK f : f = Chain
  OBVIOUS
<1>3. f = CHOOSE g : g = [c \in DOMAIN checkpoints |->
            {c} \cup (IF checkpoints[c].previous = NoRow THEN {} ELSE g[checkpoints[c].previous])]
  BY <1>2 DEF Chain
<1> QED
  BY <1>1, <1>2, <1>3, ChooseChains

(* So it does in the next state. *)
LEMMA ChainIsNext ==
    ASSUME TypeOK'
    PROVE  /\ Linked(checkpoints', Len(checkpoints'))
           /\ ChainsOf(Chain', checkpoints', Len(checkpoints'))
<1>1. Linked(checkpoints', Len(checkpoints'))
  <2>1. /\ checkpoints' \in Seq(Checkpoint')
        /\ \A c \in DOMAIN checkpoints' : checkpoints'[c].previous < c
    BY DEF TypeOK
  <2>2. /\ Len(checkpoints') \in Nat /\ DOMAIN checkpoints' = 1..Len(checkpoints')
        /\ \A c \in 1..Len(checkpoints') : checkpoints'[c] \in Checkpoint'
    BY <2>1
  <2>3. ASSUME NEW c \in 1..Len(checkpoints') PROVE checkpoints'[c].previous \in 0..(c - 1)
    <3>1. checkpoints'[c].previous \in 0..Len(checkpoints') /\ checkpoints'[c].previous < c
      BY <2>1, <2>2 DEF Checkpoint
    <3> QED
      BY <2>2, <3>1
  <2> QED
    BY <2>2, <2>3 DEF Linked
<1>2. PICK f : f = Chain'
  OBVIOUS
<1>3. f = CHOOSE g : g = [c \in DOMAIN checkpoints' |->
            {c} \cup (IF checkpoints'[c].previous = NoRow THEN {} ELSE g[checkpoints'[c].previous])]
  BY <1>2 DEF Chain
<1> QED
  BY <1>1, <1>2, <1>3, ChooseChains

(* Invalidating takes checkpoints out of use and changes no fact of them. *)
LEMMA InvalidatedStand ==
    ASSUME TypeOK, NEW refs, checkpoints' = Invalidated(refs)
    PROVE  Standing /\ Active' = Active \ refs
<1> DEFINE n == Len(checkpoints)
<1>1. checkpoints \in Seq(Checkpoint) /\ n \in Nat /\ DOMAIN checkpoints = 1..n
      /\ \A c \in 1..n : checkpoints[c] \in Checkpoint
  BY DEF TypeOK
<1>2. checkpoints' = [c \in 1..n |->
          IF c \in refs THEN [checkpoints[c] EXCEPT !.status = "invalidated"] ELSE checkpoints[c]]
  BY <1>1 DEF Invalidated
<1>3. \A c \in 1..n : /\ checkpoints'[c] \in Checkpoint /\ SameFacts(c)
                      /\ c \in refs => checkpoints'[c].status = "invalidated"
                      /\ c \notin refs => checkpoints'[c].status = checkpoints[c].status
  <2> SUFFICES ASSUME NEW c \in 1..n
               PROVE  /\ checkpoints'[c] \in Checkpoint /\ SameFacts(c)
                      /\ c \in refs => checkpoints'[c].status = "invalidated"
                      /\ c \notin refs => checkpoints'[c].status = checkpoints[c].status
    OBVIOUS
  <2>1. PICK row \in Checkpoint : row = checkpoints[c]
    BY <1>1
  <2>2. checkpoints'[c] = IF c \in refs THEN [row EXCEPT !.status = "invalidated"] ELSE row
    BY <1>2, <2>1
  <2> QED
    BY <2>1, <2>2 DEF SameFacts, Checkpoint
<1>4. checkpoints' \in [1..n -> Checkpoint]
  BY <1>2, <1>3
<1>5. checkpoints' \in Seq(Checkpoint) /\ Len(checkpoints') = n /\ DOMAIN checkpoints' = 1..n
  <2> HIDE DEF n
  <2> QED
    BY <1>1, <1>4
<1> QED
  BY <1>1, <1>3, <1>5 DEF Standing, Active

(* What a write invalidates leaves no checkpoint in use at or after a      *)
(* place that the write touches.                                           *)
LEMMA NothingLeftAfter ==
    ASSUME TypeOK, NEW touches, checkpoints' = Invalidated(periodScopedCheckpointInvalidationRefs(touches))
    PROVE  /\ Standing
           /\ \A c \in Active', p \in touches :
                 /\ ~(checkpoints[c].date > p[1])
                 /\ ~(checkpoints[c].date = p[1] /\ checkpoints[c].seq >= p[2])
<1>1. PICK refs : refs = periodScopedCheckpointInvalidationRefs(touches)
  OBVIOUS
<1>2. Standing /\ Active' = Active \ refs
  BY <1>1, InvalidatedStand
<1> QED
  BY <1>1, <1>2 DEF periodScopedCheckpointInvalidationRefs, activeCheckpointRefsAtOrAfter

(* The ledger is one. *)
LEMMA RowsAreRows ==
    ASSUME LedgerOK
    PROVE  txns \in Rows
  BY DEF LedgerOK, RowOK, Rows, InLedger

(* The next ledger is one. *)
LEMMA RowsAreRowsNext ==
    ASSUME LedgerOK'
    PROVE  txns' \in Rows
  BY DEF LedgerOK, RowOK, Rows, InLedger

(* The chains of the checkpoints, and the lines along them. *)
LEMMA ChainFacts ==
    ASSUME TypeOK
    PROVE  \A c \in DOMAIN checkpoints :
              /\ c \in Chain[c] /\ Chain[c] \subseteq 1..c /\ Chain[c] \subseteq DOMAIN checkpoints
              /\ \A k \in Chain[c] : Chain[k] \subseteq Chain[c]
              /\ LinesOf(c) \subseteq Txns
<1>1. Linked(checkpoints, Len(checkpoints)) /\ ChainsOf(Chain, checkpoints, Len(checkpoints))
  BY ChainIs
<1>2. DOMAIN checkpoints = 1..Len(checkpoints)
  BY <1>1 DEF Linked
<1>3. \A c \in 1..Len(checkpoints) :
         c \in Chain[c] /\ Chain[c] \subseteq 1..c /\ \A k \in Chain[c] : Chain[k] \subseteq Chain[c]
  BY <1>1, ChainsGoBack
<1>4. \A c \in 1..Len(checkpoints) : Chain[c] \subseteq 1..Len(checkpoints)
  BY <1>3
<1>5. \A k \in 1..Len(checkpoints) : checkpoints[k].lines \subseteq Txns
  BY RowsAreLinked DEF Checkpoint
<1> QED
  BY <1>2, <1>3, <1>4, <1>5 DEF LinesOf

(* Later checkpoints leave the chains of the older ones as they are. *)
LEMMA ChainsStand ==
    ASSUME TypeOK, TypeOK', DOMAIN checkpoints \subseteq DOMAIN checkpoints',
           Len(checkpoints) <= Len(checkpoints'), \A c \in DOMAIN checkpoints : SameFacts(c)
    PROVE  \A c \in DOMAIN checkpoints : Chain'[c] = Chain[c]
<1>1. Linked(checkpoints, Len(checkpoints)) /\ ChainsOf(Chain, checkpoints, Len(checkpoints))
  BY ChainIs
<1>2. Linked(checkpoints', Len(checkpoints')) /\ ChainsOf(Chain', checkpoints', Len(checkpoints'))
  BY ChainIsNext
<1>3. DOMAIN checkpoints = 1..Len(checkpoints)
  BY <1>1 DEF Linked
<1>4. \A c \in 1..Len(checkpoints) : checkpoints[c].previous = checkpoints'[c].previous
  BY <1>3 DEF SameFacts
<1>5. \A c \in 1..Len(checkpoints) : Chain[c] = Chain'[c]
  BY <1>1, <1>2, <1>4, ChainsAgree
<1> QED
  BY <1>3, <1>5

(* What is behind the boundary of a checkpoint that stays in use is as it  *)
(* was                                                                     *)
KeptFor(t, c) ==
    LET date == checkpoints[c].date
        seq  == checkpoints[c].seq
    IN  /\ t \in InPeriod(txns', date, seq) <=> t \in InPeriod(txns, date, seq)
        /\ t \in InPeriod(txns, date, seq) =>
              /\ txns'[t].amount = txns[t].amount
              /\ t \in Covered /\ txns[t].reconciled => txns'[t].reconciled

(* Lines behind a boundary that stays in use are still there, still        *)
(* marked, and add up to what they did.                                    *)
LEMMA LinesStand ==
    ASSUME LedgerOK, LedgerOK', NEW c, NEW S \in SUBSET Txns,
           \A t \in S : /\ t \in Covered /\ txns[t].reconciled /\ KeptFor(t, c)
                        /\ t \in InPeriod(txns, checkpoints[c].date, checkpoints[c].seq)
    PROVE  /\ Total(txns', S) = Total(txns, S)
           /\ \A t \in S : /\ t \in InPeriod(txns', checkpoints[c].date, checkpoints[c].seq)
                           /\ txns'[t].reconciled
<1>1. ASSUME NEW t \in S
      PROVE  /\ t \in InPeriod(txns', checkpoints[c].date, checkpoints[c].seq) /\ txns'[t].reconciled
             /\ Counts(txns')[t] = Counts(txns)[t]
  <2>1. /\ t \in InPeriod(txns', checkpoints[c].date, checkpoints[c].seq)
        /\ txns'[t].amount = txns[t].amount /\ txns'[t].reconciled
    BY DEF KeptFor
  <2> QED
    BY <2>1 DEF Counts, InPeriod
<1>2. txns \in Rows /\ txns' \in Rows
  BY RowsAreRows, RowsAreRowsNext
<1>3. /\ Total(txns, S) = SumOf(Counts(txns), S) /\ Total(txns', S) = SumOf(Counts(txns'), S)
      /\ IsFiniteSet(S) /\ \A t \in S : Counts(txns)[t] \in Int
  BY <1>2, TotalIsSum
<1>4. SumOf(Counts(txns), S) = SumOf(Counts(txns'), S)
  <2>1. \A t \in S : Counts(txns)[t] \in Int /\ Counts(txns)[t] = Counts(txns')[t]
    BY <1>1, <1>3
  <2> QED
    BY <1>3, <2>1, SumSame
<1> QED
  BY <1>1, <1>3, <1>4

(* Where a checkpoint starts from is a row, and stays the same one. *)
LEMMA LinkStands ==
    ASSUME TypeOK, \A k \in DOMAIN checkpoints : SameFacts(k), NEW c \in DOMAIN checkpoints
    PROVE  /\ checkpoints'[c].previous = checkpoints[c].previous
           /\ checkpoints[c].previous # NoRow =>
                 /\ checkpoints[c].previous \in DOMAIN checkpoints
                 /\ Inside(checkpoints'[checkpoints[c].previous], checkpoints'[c].date, checkpoints'[c].seq)
                       <=> Inside(checkpoints[checkpoints[c].previous], checkpoints[c].date, checkpoints[c].seq)
           /\ StartBalance(c)' = StartBalance(c)
<1>1. checkpoints[c].previous # NoRow => checkpoints[c].previous \in DOMAIN checkpoints
  BY RowsAreLinked DEF Linked, NoRow
<1>2. SameFacts(c) /\ (checkpoints[c].previous # NoRow => SameFacts(checkpoints[c].previous))
  BY <1>1
<1> QED
  BY <1>1, <1>2 DEF SameFacts, Inside, StartBalance

(* Statements that are in order were so before the step. *)
LEMMA OrderStands ==
    ASSUME TypeOK, TypeOK', DOMAIN checkpoints \subseteq DOMAIN checkpoints',
           Len(checkpoints) <= Len(checkpoints'), \A k \in DOMAIN checkpoints : SameFacts(k)
    PROVE  /\ \A c \in DOMAIN checkpoints : InOrder(Chain[c])' => InOrder(Chain[c])
           /\ InOrder(DOMAIN checkpoints)' => InOrder(DOMAIN checkpoints)
<1>1. ASSUME NEW C \in SUBSET DOMAIN checkpoints, InOrder(C)' PROVE InOrder(C)
  <2>1. ASSUME NEW c \in C, checkpoints[c].previous # NoRow
        PROVE  Inside(checkpoints[checkpoints[c].previous], checkpoints[c].date, checkpoints[c].seq)
    <3>1. /\ checkpoints'[c].previous = checkpoints[c].previous
          /\ Inside(checkpoints'[checkpoints[c].previous], checkpoints'[c].date, checkpoints'[c].seq)
                <=> Inside(checkpoints[checkpoints[c].previous], checkpoints[c].date, checkpoints[c].seq)
      BY <2>1, LinkStands
    <3> QED
      BY <1>1, <2>1, <3>1 DEF InOrder
  <2> QED
    BY <2>1 DEF InOrder
<1>2. ASSUME NEW c \in DOMAIN checkpoints, InOrder(Chain[c])' PROVE InOrder(Chain[c])
  <2>1. PICK C \in SUBSET DOMAIN checkpoints : C = Chain[c] /\ C = Chain'[c]
    BY ChainFacts, ChainsStand
  <2>2. InOrder(C)'
    BY <1>2, <2>1 DEF InOrder
  <2> QED
    BY <1>1, <2>1, <2>2
<1>3. ASSUME InOrder(DOMAIN checkpoints)' PROVE InOrder(DOMAIN checkpoints)
  <2>1. PICK C \in SUBSET DOMAIN checkpoints : C = DOMAIN checkpoints
    OBVIOUS
  <2>2. InOrder(C)'
    BY <1>3, <2>1 DEF InOrder
  <2> QED
    BY <1>1, <2>1, <2>2
<1> QED
  BY <1>2, <1>3

(* A statement stays sound when the checkpoint goes out of use, or when    *)
(* nothing behind its boundary changes.                                    *)
LEMMA StatementStands ==
    ASSUME TypeOK, TypeOK', StatementsInv,
           DOMAIN checkpoints \subseteq DOMAIN checkpoints', Len(checkpoints) <= Len(checkpoints'),
           \A k \in DOMAIN checkpoints : SameFacts(k),
           NEW c \in DOMAIN checkpoints, c \in Active' => \A t \in Txns : KeptFor(t, c)
    PROVE  StatementOK(c)'
<1> SUFFICES ASSUME c \in Active' PROVE StatementOK(c)'
  BY DEF StatementOK
<1>1. /\ DOMAIN checkpoints = 1..Len(checkpoints) /\ Len(checkpoints) \in Nat
      /\ \A k \in DOMAIN checkpoints : k \in Active' => k \in Active
      /\ SameFacts(c) /\ c \in Active
  BY RowsAreLinked DEF Active, SameFacts, Linked
<1>0. /\ checkpoints[c].stood = PeriodBalance(txns, checkpoints[c].date, checkpoints[c].seq)
      /\ OwnOK(c) /\ CarriedOK(c)
  BY <1>1 DEF StatementsInv, StatementOK
<1>2. \A k \in DOMAIN checkpoints : Chain'[k] = Chain[k]
  BY ChainsStand
<1>3. Chain[c] \subseteq DOMAIN checkpoints /\ c \in Chain[c] /\ LinesOf(c) \subseteq Txns
  BY ChainFacts
<1>4. \A k \in Chain[c] : checkpoints'[k].lines = checkpoints[k].lines
  BY <1>3 DEF SameFacts
<1>5. LinesOf(c)' = LinesOf(c)
  <2>1. LinesOf(c)' = UNION {checkpoints'[k].lines : k \in Chain[c]}
    BY <1>2 DEF LinesOf
  <2> QED
    BY <1>4, <2>1 DEF LinesOf
<1>6. PICK d, q : /\ d = checkpoints[c].date /\ q = checkpoints[c].seq
                  /\ checkpoints'[c].date = d /\ checkpoints'[c].seq = q
  BY <1>1 DEF SameFacts
<1>7. /\ LinesOf(c) \subseteq Covered /\ checkpoints[c].lines \subseteq LinesOf(c)
      /\ LedgerOK /\ LedgerOK' /\ \A t \in Txns : KeptFor(t, c)
  BY <1>1, <1>3 DEF Covered, coveringCheckpoints, LinesOf, TypeOK
<1>8. OwnOK(c)'
  <2>1. PICK S \in SUBSET Txns : S = checkpoints[c].lines
    BY <1>3, <1>7
  <2>2. /\ checkpoints[c].balance = StartBalance(c) + Total(txns, S)
        /\ \A t \in S : t \in InPeriod(txns, d, q) /\ txns[t].reconciled
    BY <1>0, <1>6, <2>1 DEF OwnOK
  <2>3. Total(txns', S) = Total(txns, S) /\ \A t \in S : t \in InPeriod(txns', d, q) /\ txns'[t].reconciled
    BY <1>6, <1>7, <2>1, <2>2, LinesStand
  <2>4. StartBalance(c)' = StartBalance(c)
    BY LinkStands
  <2>5. checkpoints'[c].balance = checkpoints[c].balance /\ checkpoints'[c].lines = S
    BY <1>1, <2>1 DEF SameFacts
  <2> QED
    BY <1>6, <2>2, <2>3, <2>4, <2>5 DEF OwnOK
<1>9. CarriedOK(c)'
  <2>1. ASSUME InOrder(Chain[c])'
        PROVE  /\ checkpoints'[c].balance = Total(txns', LinesOf(c))
               /\ \A t \in LinesOf(c) : t \in InPeriod(txns', d, q) /\ txns'[t].reconciled
    <3>1. InOrder(Chain[c])
      BY <2>1, OrderStands
    <3>2. PICK S \in SUBSET Txns : S = LinesOf(c)
      BY <1>3
    <3>3. /\ checkpoints[c].balance = Total(txns, S)
          /\ \A t \in S : t \in InPeriod(txns, d, q) /\ txns[t].reconciled
      BY <1>0, <1>6, <3>1, <3>2 DEF CarriedOK
    <3>4. Total(txns', S) = Total(txns, S) /\ \A t \in S : t \in InPeriod(txns', d, q) /\ txns'[t].reconciled
      BY <1>6, <1>7, <3>2, <3>3, LinesStand
    <3> QED
      BY <1>1, <3>2, <3>3, <3>4 DEF SameFacts
  <2>2. ASSUME InOrder(DOMAIN checkpoints)', NEW a \in Active', a <= c PROVE a \in Chain'[c]
    <3>1. InOrder(DOMAIN checkpoints)
      BY <2>2, OrderStands
    <3>2. a \in 1..Len(checkpoints')
      BY RowsAreLinked, ChainIsNext DEF Active, Linked
    <3>3. a \in DOMAIN checkpoints
      BY <1>1, <2>2, <3>2
    <3> QED
      BY <1>0, <1>1, <1>2, <2>2, <3>1, <3>3 DEF CarriedOK
  <2> QED
    BY <1>5, <1>6, <2>1, <2>2 DEF CarriedOK
<1>10. checkpoints'[c].stood = PeriodBalance(txns', d, q)
  <2>1. txns \in Rows /\ txns' \in Rows
    BY <1>7, RowsAreRows, RowsAreRowsNext
  <2>2. PICK S \in SUBSET Txns : S = InPeriod(txns, d, q)
    BY DEF InPeriod
  <2>3. InPeriod(txns', d, q) = S
    BY <1>6, <1>7, <2>2 DEF KeptFor, InPeriod
  <2>4. \A t \in S : Counts(txns)[t] = Counts(txns')[t]
    BY <1>6, <1>7, <2>2, <2>3 DEF KeptFor, InPeriod, Counts
  <2>5. IsFiniteSet(S) /\ \A t \in S : Counts(txns)[t] \in Int
    BY <2>1, TotalIsSum
  <2>6. SumOf(Counts(txns), S) = SumOf(Counts(txns'), S)
    BY <2>4, <2>5, SumSame
  <2>7. /\ PeriodBalance(txns, d, q) = SumOf(Counts(txns), S)
        /\ PeriodBalance(txns', d, q) = SumOf(Counts(txns'), S)
    BY <2>1, <2>2, <2>3, BalanceIsSum
  <2> QED
    BY <1>0, <1>1, <1>6, <2>6, <2>7 DEF SameFacts
<1> QED
  BY <1>6, <1>8, <1>9, <1>10 DEF StatementOK

(* No line is counted twice for a checkpoint that goes out of use. *)
LEMMA CountedOnceStands ==
    ASSUME TypeOK, TypeOK', Standing, CountedOnce
    PROVE  CountedOnce'
<1>1. \A c \in DOMAIN checkpoints : Chain'[c] = Chain[c] /\ Chain[c] \subseteq DOMAIN checkpoints
  BY ChainsStand, ChainFacts, RowsAreLinked DEF Standing, Linked
<1>2. Active' \subseteq Active /\ Active \subseteq DOMAIN checkpoints
  BY DEF Active, Standing, SameFacts
<1>3. ASSUME NEW k \in UNION {Chain'[c] : c \in Active'}
      PROVE  k \in UNION {Chain[c] : c \in Active} /\ checkpoints'[k].lines = checkpoints[k].lines
  <2>1. PICK c \in Active' : k \in Chain'[c]
    OBVIOUS
  <2>2. c \in Active /\ k \in Chain[c] /\ k \in DOMAIN checkpoints
    BY <1>1, <1>2, <2>1
  <2> QED
    BY <2>2 DEF Standing, SameFacts
<1> QED
  BY <1>3 DEF CountedOnce

(* Statements stay sound when nothing behind the boundary of a checkpoint  *)
(* in use changes.                                                         *)
LEMMA StatementsStand ==
    ASSUME TypeOK, TypeOK', StatementsInv, Standing, \A c \in Active', t \in Txns : KeptFor(t, c)
    PROVE  StatementsInv'
<1>1. /\ DOMAIN checkpoints \subseteq DOMAIN checkpoints' /\ Len(checkpoints) <= Len(checkpoints')
      /\ \A k \in DOMAIN checkpoints : SameFacts(k)
  BY RowsAreLinked DEF Standing, Linked
<1>2. ASSUME NEW c \in DOMAIN checkpoints PROVE StatementOK(c)'
  BY <1>1, StatementStands
<1>3. CountedOnce'
  BY CountedOnceStands DEF StatementsInv
<1> QED
  BY <1>2, <1>3 DEF StatementsInv, Standing

(* What a step may do to a transaction; only a commit, which ends the      *)
(* request, makes a row or changes one without a new version.              *)
RowStep(t) ==
    LET row == txns[t]
    IN  \/ txns'[t] = row /\ places[t] \subseteq places'[t]
        \/ row.status = "draft" /\ txns'[t].status = "gone"
        \/ /\ places[t] \subseteq places'[t]
           /\ row.status \in InForce => txns'[t].status \in InForce
           /\ row.status # "gone" /\ txns'[t].status # "gone"
           /\ row.status = "none" => request' = Idle
           /\ \/ txns'[t].version > row.version
              \/ txns'[t].version = row.version /\ txns'[t].amount = row.amount /\ request' = Idle

(* Where a transaction still has the version that was read, it still has   *)
(* the amount that was read.                                               *)
LEMMA VersionsGrow ==
    ASSUME LedgerOK, LedgerOK', NEW t \in Txns, RowStep(t)
    PROVE  /\ txns[t].version \in Nat /\ txns'[t].version \in Nat
           /\ txns[t].status \in InForce =>
                 /\ txns'[t].status \in InForce /\ txns[t].version <= txns'[t].version
                 /\ txns[t].version = txns'[t].version => txns'[t].amount = txns[t].amount
                 /\ places[t] \subseteq places'[t]
           /\ request' # Idle =>
                 /\ txns[t].status = "none" => txns'[t] = txns[t]
                 /\ txns[t].status = "gone" => txns'[t] = txns[t]
                 /\ \/ txns'[t] = txns[t]
                    \/ txns'[t].version > txns[t].version
                    \/ txns'[t].status = "gone" /\ txns'[t].version = 0
<1>1. txns[t].version \in Nat /\ txns'[t].version \in Nat
  <2>1. txns[t] \in TxnRow /\ txns'[t] \in TxnRow /\ MaxWrites \in Nat
    BY ReconciliationAssumption DEF LedgerOK, TxnRow
  <2> QED
    BY <2>1 DEF TxnRow, Versions
<1>2. txns'[t].status = "gone" => txns'[t].version = 0
  BY DEF LedgerOK, RowOK, Absent
<1> QED
  BY <1>1, <1>2 DEF RowStep, InForce

(* The place a checkpoint was drawn at stays taken. *)
LEMMA SequencesStand ==
    ASSUME LedgerOK, LedgerOK', SequencesWereGiven, \A t \in Txns : RowStep(t), Standing
    PROVE  SequencesWereGiven'
  BY VersionsGrow DEF SequencesWereGiven, Standing, SameFacts

(* What a session was told stays true while the ledger goes on. *)
LEMMA SessionStands ==
    ASSUME TypeOK, TypeOK', \A t \in Txns : RowStep(t), \A c \in DOMAIN checkpoints : SameFacts(c),
           NEW s \in Sessions, sessions[s] # NoSession, SessionOK(s), sessions'[s] = sessions[s]
    PROVE  SessionOK(s)'
<1>1. LedgerOK /\ LedgerOK' /\ sessions[s] \in OpenSession
  BY DEF TypeOK
<1>2. PICK session \in OpenSession : session = sessions[s]
  BY <1>1
<1>3. /\ session.start \in 0..Len(checkpoints) /\ DOMAIN checkpoints = 1..Len(checkpoints)
      /\ Len(checkpoints) \in Nat
  BY <1>2, RowsAreLinked DEF OpenSession, Linked
<1>4. session.start # NoRow => session.startBalance = checkpoints'[session.start].balance
  <2>1. session.start # NoRow => session.start \in DOMAIN checkpoints
    BY <1>3 DEF NoRow
  <2> QED
    BY <1>2, <2>1 DEF SessionOK, SameFacts
<1>5. \A p \in session.selected :
         /\ p[1] \in Txns /\ p[2] \in Nat
         /\ txns[p[1]].status \in InForce /\ p[2] <= txns[p[1]].version
  BY <1>2, ReconciliationAssumption DEF SessionOK, OpenSession, Versions
<1>6. \A p \in session.selected :
         /\ txns'[p[1]].status \in InForce /\ p[2] <= txns'[p[1]].version
         /\ txns'[p[1]].version = p[2] => txns[p[1]].version = p[2] /\ txns'[p[1]].amount = txns[p[1]].amount
  BY <1>1, <1>5, VersionsGrow
<1>7. ASSUME session.selected # {}
      PROVE  \E a \in [Txns -> Int] :
                 /\ \A p \in session.selected :
                       txns'[p[1]].version = p[2] => txns'[p[1]].amount = a[p[1]]
                 /\ session.difference =
                       session.balance - (session.startBalance + SumOf(a, SelectedLines(s)))
  BY <1>2, <1>6, <1>7 DEF SessionOK
<1>8. SelectedLines(s)' = SelectedLines(s) /\ sessions'[s] = session
  BY <1>2 DEF SelectedLines
<1> QED
  BY <1>2, <1>4, <1>6, <1>7, <1>8 DEF SessionOK

(* So does what every session was told. *)
LEMMA SessionsStand ==
    ASSUME TypeOK, TypeOK', \A t \in Txns : RowStep(t), \A c \in DOMAIN checkpoints : SameFacts(c),
           SessionsInv, sessions' = sessions
    PROVE  SessionsInv'
  BY SessionStands DEF SessionsInv

(* What a write was prepared with is still true where its transaction      *)
(* still has the version that was read.                                    *)
LEMMA RequestStands ==
    ASSUME TypeOK, TypeOK', \A t \in Txns : RowStep(t), RequestInv, request' \in {Idle, request}
    PROVE  RequestInv'
<1>1. CASE request' = Idle
  BY <1>1 DEF RequestInv
<1>2. CASE request' = request /\ request # Idle
  <2>1. LedgerOK /\ LedgerOK' /\ request \in Request
    BY <1>2 DEF TypeOK
  <2>2. PICK t \in Txns : t = request.txn
    BY <2>1 DEF Request
  <2>3. request.version \in Nat
    BY <2>1, ReconciliationAssumption DEF Request, Versions
  <2>4. /\ txns[t].version \in Nat /\ txns'[t].version \in Nat
        /\ txns[t].status = "none" => txns'[t] = txns[t]
        /\ txns[t].status = "gone" => txns'[t] = txns[t]
        /\ \/ txns'[t] = txns[t]
           \/ txns'[t].version > txns[t].version
           \/ txns'[t].status = "gone" /\ txns'[t].version = 0
    BY <1>2, <2>1, VersionsGrow
  <2>7. ReviewOK'
    BY <1>2 DEF RequestInv, ReviewOK
  <2>5. CASE IsCreate
    <3>1. CreateOK
      BY <1>2, <2>5 DEF RequestInv
    <3>2. IsCreate' /\ CreateOK'
      BY <1>2, <2>2, <2>4, <2>5, <3>1 DEF IsCreate, CreateOK
    <3> QED
      BY <2>7, <3>2 DEF RequestInv
  <2>6. CASE ~IsCreate
    <3>1. ChangeOK
      BY <1>2, <2>6 DEF RequestInv
    <3>2. ChangeOK'
      BY <1>2, <2>2, <2>3, <2>4, <3>1 DEF ChangeOK, CurrentOK, TouchesBoth
    <3> QED
      BY <1>2, <2>6, <2>7, <3>2 DEF RequestInv, IsCreate
  <2> QED
    BY <2>5, <2>6
<1> QED
  BY <1>1, <1>2

(***************************************************************************)
(* Ledger writes                                                           *)
(***************************************************************************)
(* What every step of the ledger has in common. *)
Effect ==
    /\ LedgerOK' /\ Standing
    /\ sessions' = sessions /\ request' \in {Idle, request}
    /\ \A t \in Txns : RowStep(t)
    /\ \A c \in Active', t \in Txns : KeptFor(t, c)

(* A ledger step keeps the types. *)
LEMMA EffectTyped ==
    ASSUME TypeOK, LedgerOK', Standing, sessions' = sessions, request' \in {Idle, request}
    PROVE  TypeOK'
<1>1. OpenSession' = OpenSession /\ Checkpoint' = Checkpoint /\ Request' = Request
  BY DEF Standing, OpenSession, Checkpoint, Request
<1>2. request' \in {Idle} \cup Request' /\ sessions' \in [Sessions -> {NoSession} \cup OpenSession']
  BY <1>1 DEF TypeOK
<1>3. \A c \in DOMAIN checkpoints' : checkpoints'[c].previous < c
  BY DEF TypeOK, Standing, SameFacts
<1> QED
  BY <1>1, <1>2, <1>3 DEF TypeOK, Standing

(* A ledger step that changes nothing behind a checkpoint in use keeps the *)
(* inductive invariant.                                                    *)
LEMMA EffectKeeps ==
    ASSUME ReconciliationInv, Effect
    PROVE  ReconciliationInv'
<1>1. TypeOK'
  BY EffectTyped DEF ReconciliationInv, Effect
<1>2. SequencesWereGiven'
  BY SequencesStand DEF ReconciliationInv, Effect, TypeOK
<1>3. StatementsInv'
  BY <1>1, StatementsStand DEF ReconciliationInv, Effect
<1>4. SessionsInv'
  BY <1>1, SessionsStand DEF ReconciliationInv, Effect, Standing
<1>5. RequestInv'
  BY <1>1, RequestStands DEF ReconciliationInv, Effect
<1> QED
  BY <1>1, <1>2, <1>3, <1>4, <1>5 DEF ReconciliationInv

(* A row that is before and after the step in no period that stands.       *)
Outside(row, c) == ~(InLedger(row) /\ Inside(row, checkpoints[c].date, checkpoints[c].seq))

(* A row that is in no such period, before and after. *)
LEMMA OutsideIsKept ==
    ASSUME NEW c, NEW t \in Txns, Outside(txns[t], c), Outside(txns'[t], c)
    PROVE  KeptFor(t, c)
  BY DEF Outside, KeptFor, InPeriod

(* A row that no period can tell from what it was. *)
LEMMA SameIsKept ==
    ASSUME NEW c, NEW t \in Txns, InLedger(txns'[t]) <=> InLedger(txns[t]),
           txns'[t].date = txns[t].date, txns'[t].seq = txns[t].seq, txns'[t].amount = txns[t].amount,
           t \in Covered => txns'[t].reconciled = txns[t].reconciled
    PROVE  KeptFor(t, c)
  BY DEF KeptFor, InPeriod, Inside

(* The facts of a checkpoint are numbers. *)
LEMMA CheckpointNumbers ==
    ASSUME TypeOK, NEW c \in DOMAIN checkpoints
    PROVE  /\ checkpoints[c].date \in Nat /\ checkpoints[c].seq \in 0..MaxSeq /\ checkpoints[c].seq \in Nat
           /\ checkpoints[c].balance \in Int /\ checkpoints[c].date \in Dates
           /\ checkpoints[c].lines \in SUBSET Txns
<1>1. checkpoints[c] \in Checkpoint
  BY RowsAreLinked DEF Linked
<1>2. /\ checkpoints[c].date \in Dates /\ checkpoints[c].seq \in 0..MaxSeq
      /\ checkpoints[c].balance \in Balances /\ checkpoints[c].lines \in SUBSET Txns
  BY <1>1 DEF Checkpoint
<1> QED
  BY <1>2, Numbers

(* No position after every one of its day is inside a boundary.            *)
LEMMA AfterTheLast ==
    ASSUME TypeOK, SequencesWereGiven, NEW c \in DOMAIN checkpoints
    PROVE  checkpoints[c].seq <= lastSeq(checkpoints[c].date)
<1>1. LedgerOK /\ checkpoints[c].seq \in Nat
  BY CheckpointNumbers DEF TypeOK
<1>2. PICK d : d = checkpoints[c].date
  OBVIOUS
<1>3. lastSeq(d) \in 0..MaxSeq /\ \A t \in Txns, q \in Nat : <<d, q>> \in places[t] => q <= lastSeq(d)
  BY <1>1, LastSeq
<1>4. lastSeq(d) \in Nat
  BY <1>3, Numbers
<1>5. CASE checkpoints[c].seq = 0
  BY <1>2, <1>4, <1>5
<1>6. CASE checkpoints[c].seq # 0
  <2>1. PICK t \in Txns : <<d, checkpoints[c].seq>> \in places[t]
    BY <1>2, <1>6 DEF SequencesWereGiven
  <2> QED
    BY <1>1, <1>2, <1>3, <2>1
<1> QED
  BY <1>5, <1>6

(* A row at a place that the write touches is behind no checkpoint that it *)
(* leaves in use.                                                          *)
LEMMA TouchedIsOutside ==
    ASSUME TypeOK, NEW touches, checkpoints' = Invalidated(periodScopedCheckpointInvalidationRefs(touches)),
           NEW c \in Active', NEW row, row.date \in Nat, row.seq \in Nat,
           <<row.date, row.seq>> \in touches
    PROVE  Outside(row, c)
<1>1. c \in DOMAIN checkpoints
  BY NothingLeftAfter DEF Standing, Active
<1>2. /\ ~(checkpoints[c].date > row.date)
      /\ ~(checkpoints[c].date = row.date /\ checkpoints[c].seq >= row.seq)
  BY NothingLeftAfter
<1> QED
  BY <1>1, <1>2, CheckpointNumbers DEF Outside, Inside

(* Nor is a row that goes to the end of a day that the write touches: a    *)
(* checkpoint of the day was drawn at a place already given, so the row    *)
(* comes after it.                                                         *)
LEMMA EndOfDayIsOutside ==
    ASSUME TypeOK, SequencesWereGiven, NEW touches,
           checkpoints' = Invalidated(periodScopedCheckpointInvalidationRefs(touches)),
           NEW c \in Active', NEW row, row.date \in Dates, row.seq \in Nat,
           <<row.date, EndOfDay>> \in touches, row.seq > lastSeq(row.date)
    PROVE  Outside(row, c)
<1>1. c \in DOMAIN checkpoints
  BY NothingLeftAfter DEF Standing, Active
<1>2. ~(checkpoints[c].date > row.date)
  BY NothingLeftAfter
<1>3. /\ checkpoints[c].date \in Nat /\ checkpoints[c].seq \in Nat /\ row.date \in Nat
      /\ lastSeq(row.date) \in Nat
      /\ checkpoints[c].date = row.date => checkpoints[c].seq <= lastSeq(row.date)
  <2>1. checkpoints[c].date \in Nat /\ checkpoints[c].seq \in Nat
    BY <1>1, CheckpointNumbers
  <2>2. lastSeq(row.date) \in Nat /\ row.date \in Nat
    BY LastSeq, Numbers DEF TypeOK
  <2>3. checkpoints[c].seq <= lastSeq(checkpoints[c].date)
    BY <1>1, AfterTheLast
  <2> QED
    BY <2>1, <2>2, <2>3
<1> QED
  BY <1>2, <1>3 DEF Outside, Inside

(* CreateTransaction: the new posting goes to the end of its day. *)
LEMMA CreateHasEffect ==
    ASSUME ReconciliationInv, CreateTransaction, request' = Idle, UNCHANGED sessions
    PROVE  Effect /\ txns' # txns
<1> DEFINE status == IF request.op = "create" THEN "posted" ELSE "draft"
<1>1. TypeOK /\ LedgerOK /\ SequencesWereGiven /\ request # Idle /\ request \in Request /\ IsCreate
  BY DEF ReconciliationInv, TypeOK, CreateTransaction, Idle, IsCreate
<1>2. PICK t \in Txns : t = request.txn
  BY <1>1 DEF Request
<1>3. /\ txns[t].status = "none" /\ request.date \in Dates /\ request.amount \in Amounts
      /\ request.op = "create" => <<request.date, EndOfDay>> \in request.touches
  BY <1>1, <1>2 DEF ReconciliationInv, RequestInv, CreateOK, Request
<1>4. PICK row \in TxnRow : /\ row.status = status /\ row.date = request.date /\ row.amount = request.amount
                            /\ ~row.deleted /\ Placed(t, row)
  <2>1. PICK row : row = [Absent EXCEPT !.status = status, !.date = request.date, !.amount = request.amount]
    OBVIOUS
  <2>2. row \in TxnRow /\ row.status = status /\ row.date = request.date /\ row.amount = request.amount /\ ~row.deleted
    <3>1. PICK d \in Dates, a \in Amounts : d = request.date /\ a = request.amount
      BY <1>3
    <3>2. PICK st \in {"posted", "draft"} : st = status
      OBVIOUS
    <3>3. row = [Absent EXCEPT !.status = st, !.date = d, !.amount = a]
      BY <2>1, <3>1, <3>2
    <3> HIDE DEF status
    <3> QED
      BY <3>1, <3>2, <3>3, Numbers DEF Absent, TxnRow
  <2>3. Placed(t, row)
    BY <1>2, <2>1 DEF CreateTransaction
  <2> QED
    BY <2>2, <2>3
<1>5. LedgerOK' /\ \E seq \in 1..MaxSeq :
         /\ txns' = [txns EXCEPT ![t] = [row EXCEPT !.seq = seq, !.version = txns[t].version + 1]]
         /\ places' = [places EXCEPT ![t] = @ \cup {<<row.date, seq>>}]
         /\ IF txns[t].status # "none" /\ txns[t].date = row.date
            THEN seq = txns[t].seq ELSE seq > lastSeq(row.date)
  BY <1>1, <1>3, <1>4, PlacedRow
<1>6. PICK seq \in 1..MaxSeq :
         /\ txns' = [txns EXCEPT ![t] = [row EXCEPT !.seq = seq, !.version = txns[t].version + 1]]
         /\ places' = [places EXCEPT ![t] = @ \cup {<<row.date, seq>>}]
         /\ seq > lastSeq(row.date)
  BY <1>3, <1>5
<1>7. /\ txns'[t].status = status /\ txns'[t].date = request.date /\ txns'[t].seq = seq /\ seq \in Nat
      /\ txns'[t].version = txns[t].version + 1 /\ txns[t].version \in Nat
      /\ \A u \in Txns : (u # t => txns'[u] = txns[u]) /\ places[u] \subseteq places'[u]
  <2>1. txns[t].version \in Nat
    BY <1>1, RealRow, Numbers DEF TxnRow
  <2> QED
    BY <1>1, <1>4, <1>6, <2>1 DEF LedgerOK, TxnRow
<1>8. checkpoints' = Invalidated(periodScopedCheckpointInvalidationRefs(request.touches))
  BY DEF CreateTransaction, enforceCheckpointBoundaryTx
<1>9. Standing
  BY <1>1, <1>8, NothingLeftAfter
<1>10. \A u \in Txns : RowStep(u)
  BY <1>3, <1>7 DEF RowStep, InForce
<1>11. ASSUME NEW c \in Active', NEW u \in Txns PROVE KeptFor(u, c)
  <2>1. CASE u # t
    BY <1>7, <2>1, SameIsKept
  <2>2. CASE u = t
    <3>1. Outside(txns[t], c)
      BY <1>3 DEF Outside, InLedger
    <3>2. Outside(txns'[t], c)
      <4>1. CASE request.op = "create"
        BY <1>1, <1>3, <1>4, <1>6, <1>7, <1>8, <4>1, EndOfDayIsOutside
      <4>2. CASE request.op # "create"
        BY <1>7, <4>2 DEF Outside, InLedger
      <4> QED
        BY <4>1, <4>2
    <3> QED
      BY <2>2, <3>1, <3>2, OutsideIsKept
  <2> QED
    BY <2>1, <2>2
<1>12. txns' # txns
  BY <1>7
<1> QED
  BY <1>5, <1>9, <1>10, <1>11, <1>12 DEF Effect

(* The row that a version puts in place: in its place when the day is the  *)
(* same, or after the last of the new day; one no period tells apart.      *)
SameButPlace(r, row) ==
    /\ r.status = row.status /\ r.deleted = row.deleted /\ r.date = row.date
    /\ r.amount = row.amount /\ r.reconciled = row.reconciled

PlaceOf(r, t) ==
    IF txns[t].date = r.date THEN r.seq = txns[t].seq ELSE r.seq > lastSeq(r.date)

SameForPeriods(r, t) ==
    /\ InLedger(r) <=> InLedger(txns[t])
    /\ r.date = txns[t].date /\ r.seq = txns[t].seq /\ r.amount = txns[t].amount
    /\ r.reconciled = txns[t].reconciled

(* A new version of a transaction, wherever it is placed. *)
LEMMA PlacedHasEffect ==
    ASSUME LedgerOK, NEW t \in Txns, txns[t].version # 0,
           NEW row \in TxnRow, row.status \in {"draft", "posted", "voided"}, row.date \in Dates,
           row.amount \in Amounts, row.deleted => row.status \in InForce,
           txns[t].status \in InForce => row.status \in InForce,
           Placed(t, row), Standing, sessions' = sessions, request' \in {Idle, request},
           \A r \in TxnRow, c \in Active' :
              SameButPlace(r, row) /\ PlaceOf(r, t) =>
                  (Outside(txns[t], c) /\ Outside(r, c)) \/ SameForPeriods(r, t)
    PROVE  Effect /\ txns' # txns
<1>1. txns[t].status \notin {"none", "gone"} /\ txns[t].version \in Nat /\ DOMAIN txns = Txns
      /\ DOMAIN places = Txns
  BY RealRow, Numbers DEF TxnRow, LedgerOK
<1>2. LedgerOK' /\ \E seq \in 1..MaxSeq :
         /\ txns' = [txns EXCEPT ![t] = [row EXCEPT !.seq = seq, !.version = txns[t].version + 1]]
         /\ places' = [places EXCEPT ![t] = @ \cup {<<row.date, seq>>}]
         /\ IF txns[t].status # "none" /\ txns[t].date = row.date
            THEN seq = txns[t].seq ELSE seq > lastSeq(row.date)
  BY <1>1, PlacedRow
<1>3. PICK seq \in 1..MaxSeq :
         /\ txns' = [txns EXCEPT ![t] = [row EXCEPT !.seq = seq, !.version = txns[t].version + 1]]
         /\ places' = [places EXCEPT ![t] = @ \cup {<<row.date, seq>>}]
         /\ IF txns[t].date = row.date THEN seq = txns[t].seq ELSE seq > lastSeq(row.date)
  BY <1>1, <1>2
<1>4. PICK r \in TxnRow : r = txns'[t]
  BY <1>2 DEF LedgerOK
<1>5. /\ SameButPlace(r, row) /\ r.seq = seq /\ r.version = txns[t].version + 1
      /\ \A u \in Txns : (u # t => txns'[u] = txns[u]) /\ places[u] \subseteq places'[u]
  BY <1>1, <1>3, <1>4 DEF SameButPlace, TxnRow
<1>6. PlaceOf(r, t)
  BY <1>3, <1>5 DEF PlaceOf, SameButPlace
<1>7. \A u \in Txns : RowStep(u)
  BY <1>1, <1>4, <1>5 DEF RowStep, SameButPlace, InForce
<1>8. ASSUME NEW c \in Active', NEW u \in Txns PROVE KeptFor(u, c)
  <2>1. CASE u # t
    BY <1>5, <2>1, SameIsKept
  <2>2. CASE u = t
    <3>1. (Outside(txns[t], c) /\ Outside(r, c)) \/ SameForPeriods(r, t)
      BY <1>5, <1>6
    <3>2. CASE Outside(txns[t], c) /\ Outside(r, c)
      BY <1>4, <2>2, <3>2, OutsideIsKept
    <3>3. CASE SameForPeriods(r, t)
      BY <1>4, <2>2, <3>3, SameIsKept DEF SameForPeriods
    <3> QED
      BY <3>1, <3>2, <3>3
  <2> QED
    BY <2>1, <2>2
<1>9. txns' # txns
  BY <1>1, <1>4, <1>5
<1> QED
  BY <1>2, <1>7, <1>8, <1>9 DEF Effect

(* A request of the version that is current knows where the row is.        *)
LEMMA CurrentRow ==
    ASSUME ReconciliationInv, request # Idle, ~IsCreate, requireExpectedVersionTx
    PROVE  \E t \in Txns, row \in TxnRow :
              /\ t = request.txn /\ row = txns[t] /\ CurrentOK(row)
              /\ row.version # 0 /\ row.status \in {"draft", "posted", "voided"}
              /\ row.date \in Dates /\ row.amount \in Amounts /\ row.seq \in Nat /\ row.date \in Nat
              /\ row.deleted => row.status \in InForce
              /\ request.date \in Dates /\ request.amount \in Amounts
<1>1. LedgerOK /\ request \in Request /\ ChangeOK
  BY DEF ReconciliationInv, TypeOK, RequestInv
<1>2. PICK t \in Txns : t = request.txn
  BY <1>1 DEF Request
<1>3. txns[t].version # 0 /\ CurrentOK(txns[t])
  BY <1>1, <1>2 DEF ChangeOK, requireExpectedVersionTx
<1>4. /\ txns[t] \in TxnRow /\ txns[t].status \in {"draft", "posted", "voided"}
      /\ txns[t].date \in Dates /\ txns[t].amount \in Amounts /\ txns[t].seq \in 1..MaxSeq
  BY <1>1, <1>3, RealRow
<1>5. txns[t].date \in Nat /\ txns[t].seq \in Nat
  BY <1>4, Numbers
<1>6. txns[t].deleted => txns[t].status \in InForce
  BY <1>1 DEF LedgerOK, RowOK, InForce
<1>7. request.date \in Dates /\ request.amount \in Amounts
  BY <1>1 DEF Request
<1> QED
  BY <1>2, <1>3, <1>4, <1>5, <1>6, <1>7

(* UpdateTransaction: from the place the owner saw to the end of a day, or *)
(* nothing that a period can tell.                                         *)
LEMMA UpdateHasEffect ==
    ASSUME ReconciliationInv, UpdateTransaction, request' = Idle, UNCHANGED sessions
    PROVE  Effect /\ txns' # txns
<1>1. TypeOK /\ LedgerOK /\ SequencesWereGiven /\ request # Idle /\ ~IsCreate
  BY DEF ReconciliationInv, TypeOK, UpdateTransaction, Idle, IsCreate
<1>2. PICK t \in Txns, row \in TxnRow :
              /\ t = request.txn /\ row = txns[t] /\ CurrentOK(row)
              /\ row.version # 0 /\ row.status \in {"draft", "posted", "voided"}
              /\ row.date \in Dates /\ row.amount \in Amounts /\ row.seq \in Nat /\ row.date \in Nat
              /\ row.deleted => row.status \in InForce
              /\ request.date \in Dates /\ request.amount \in Amounts
  BY <1>1, CurrentRow DEF UpdateTransaction
<1>3. PICK d \in Dates, a \in Amounts, st \in {"draft", "posted"}, rec \in BOOLEAN :
         /\ d = request.date /\ a = request.amount
         /\ st = (IF request.op = "post" THEN "posted" ELSE row.status)
         /\ rec = (row.reconciled /\ request.date = row.date /\ request.amount = row.amount)
  BY <1>2 DEF UpdateTransaction, TxnRow
<1>4. PICK new : new = [row EXCEPT !.status = st, !.date = d, !.amount = a, !.reconciled = rec]
  OBVIOUS
<1>5. Placed(t, new) /\ ~row.deleted /\ row.status # "voided" /\ request.op \in {"update", "post"}
  BY <1>2, <1>3, <1>4 DEF UpdateTransaction
<1>6. /\ new \in TxnRow /\ new.status = st /\ new.date = d /\ new.amount = a /\ new.reconciled = rec
      /\ new.deleted = row.deleted
  BY <1>3, <1>4 DEF TxnRow
<1>7. checkpoints' = Invalidated(periodScopedCheckpointInvalidationRefs(request.touches))
  BY DEF UpdateTransaction, enforceCheckpointBoundaryTx
<1>8. Standing
  BY <1>1, <1>7, NothingLeftAfter
<1>9. ASSUME NEW r \in TxnRow, NEW c \in Active', SameButPlace(r, new), PlaceOf(r, t)
      PROVE  (Outside(txns[t], c) /\ Outside(r, c)) \/ SameForPeriods(r, t)
  <2>1. CASE request.op = "update" /\ row.status = "draft"
    BY <1>2, <1>3, <1>6, <1>9, <2>1 DEF Outside, InLedger, SameButPlace
  <2>2. CASE request.op = "update" /\ row.date = request.date /\ row.amount = request.amount
    <3>1. r.seq = row.seq
      BY <1>2, <1>3, <1>6, <1>9, <2>2 DEF PlaceOf, SameButPlace
    <3>2. rec = row.reconciled /\ st = row.status
      BY <1>3, <2>2 DEF TxnRow
    <3> QED
      BY <1>2, <1>3, <1>6, <1>9, <2>2, <3>1, <3>2 DEF SameForPeriods, SameButPlace, InLedger
  <2>3. CASE TouchesBoth(row)
    <3>1. /\ <<row.date, row.seq>> \in request.touches /\ <<r.date, EndOfDay>> \in request.touches
          /\ r.date = d /\ r.seq \in Nat /\ r.date \in Nat
      BY <1>3, <1>6, <1>9, <2>3, Numbers DEF TouchesBoth, SameButPlace, TxnRow
    <3>2. Outside(txns[t], c)
      BY <1>1, <1>2, <1>7, <3>1, TouchedIsOutside
    <3>3. CASE row.date = r.date
      <4>1. r.seq = row.seq
        BY <1>2, <1>9, <3>3 DEF PlaceOf
      <4>2. <<r.date, r.seq>> \in request.touches
        BY <3>1, <3>3, <4>1
      <4> QED
        BY <1>1, <1>7, <3>1, <3>2, <4>2, TouchedIsOutside
    <3>4. CASE row.date # r.date
      <4>1. r.seq > lastSeq(r.date)
        BY <1>2, <1>9, <3>4 DEF PlaceOf
      <4> QED
        BY <1>1, <1>7, <3>1, <3>2, <4>1, EndOfDayIsOutside
    <3> QED
      BY <3>3, <3>4
  <2> QED
    BY <1>2, <1>5, <2>1, <2>2, <2>3 DEF CurrentOK
<1> QED
  BY <1>1, <1>2, <1>3, <1>5, <1>6, <1>8, <1>9, PlacedHasEffect DEF InForce

(* VoidTransaction and UnvoidTransaction, in place. *)
LEMMA VoidingHasEffect ==
    ASSUME ReconciliationInv, VoidTransaction \/ UnvoidTransaction, request' = Idle, UNCHANGED sessions
    PROVE  Effect /\ txns' # txns
<1>1. TypeOK /\ LedgerOK /\ request # Idle /\ ~IsCreate /\ request.op \in {"void", "unvoid"}
      /\ requireExpectedVersionTx
  BY DEF ReconciliationInv, TypeOK, VoidTransaction, UnvoidTransaction, Idle, IsCreate
<1>2. PICK t \in Txns, row \in TxnRow :
              /\ t = request.txn /\ row = txns[t] /\ CurrentOK(row)
              /\ row.version # 0 /\ row.status \in {"draft", "posted", "voided"}
              /\ row.date \in Dates /\ row.amount \in Amounts /\ row.seq \in Nat /\ row.date \in Nat
              /\ row.deleted => row.status \in InForce
              /\ request.date \in Dates /\ request.amount \in Amounts
  BY <1>1, CurrentRow
<1>3. PICK st \in InForce : Placed(t, [row EXCEPT !.status = st])
  BY <1>2 DEF VoidTransaction, UnvoidTransaction, InForce
<1>4. PICK new : new = [row EXCEPT !.status = st]
  OBVIOUS
<1>5. /\ Placed(t, new) /\ new \in TxnRow /\ new.status = st /\ new.date = row.date /\ new.amount = row.amount
      /\ new.deleted = row.deleted
  BY <1>3, <1>4 DEF TxnRow, InForce
<1>6. checkpoints' = Invalidated(periodScopedCheckpointInvalidationRefs(request.touches))
  BY DEF VoidTransaction, UnvoidTransaction, enforceCheckpointBoundaryTx
<1>7. Standing
  BY <1>1, <1>6, NothingLeftAfter
<1>8. ASSUME NEW r \in TxnRow, NEW c \in Active', SameButPlace(r, new), PlaceOf(r, t)
      PROVE  (Outside(txns[t], c) /\ Outside(r, c)) \/ SameForPeriods(r, t)
  <2>1. r.date = row.date /\ r.seq = row.seq
    BY <1>2, <1>5, <1>8 DEF SameButPlace, PlaceOf
  <2>2. <<row.date, row.seq>> \in request.touches
    BY <1>1, <1>2 DEF CurrentOK, Lifecycle
  <2>3. Outside(row, c) /\ Outside(r, c)
    BY <1>1, <1>2, <1>6, <2>1, <2>2, TouchedIsOutside
  <2> QED
    BY <1>2, <2>3
<1> QED
  BY <1>1, <1>2, <1>5, <1>7, <1>8, PlacedHasEffect DEF InForce

(* Soft delete and restore, in place. *)
LEMMA DeletingHasEffect ==
    ASSUME ReconciliationInv, SetTransactionDeleted, request' = Idle, UNCHANGED sessions
    PROVE  Effect /\ txns' # txns
<1>1. TypeOK /\ LedgerOK /\ request # Idle /\ ~IsCreate /\ request.op \in {"delete", "restore"}
      /\ requireExpectedVersionTx
  BY DEF ReconciliationInv, TypeOK, SetTransactionDeleted, Idle, IsCreate
<1>2. PICK t \in Txns, row \in TxnRow :
              /\ t = request.txn /\ row = txns[t] /\ CurrentOK(row)
              /\ row.version # 0 /\ row.status \in {"draft", "posted", "voided"}
              /\ row.date \in Dates /\ row.amount \in Amounts /\ row.seq \in Nat /\ row.date \in Nat
              /\ row.deleted => row.status \in InForce
              /\ request.date \in Dates /\ request.amount \in Amounts
  BY <1>1, CurrentRow
<1>3. PICK del \in BOOLEAN : del = (request.op = "delete")
  OBVIOUS
<1>4. txns' = [txns EXCEPT ![t] = [row EXCEPT !.deleted = del]] /\ places' = places
  BY <1>2, <1>3 DEF SetTransactionDeleted
<1>5. writes < MaxWrites /\ writes' = writes + 1 /\ writes \in 0..MaxWrites /\ MaxWrites \in Nat
  BY <1>1, Numbers DEF SetTransactionDeleted, NewWrite, LedgerOK
<1>6. PICK r \in TxnRow : /\ r = txns'[t] /\ r.date = row.date /\ r.seq = row.seq /\ r.amount = row.amount
                          /\ r.version = row.version /\ r.status = row.status
  BY <1>1, <1>2, <1>4 DEF TxnRow, LedgerOK
<1>7. \A u \in Txns : u # t => txns'[u] = txns[u]
  BY <1>1, <1>4 DEF LedgerOK
<1>8. txns' \in [Txns -> TxnRow]
  BY <1>1, <1>4, <1>6 DEF LedgerOK
<1>9. row.status \in InForce /\ <<row.date, row.seq>> \in request.touches
  BY <1>1, <1>2 DEF CurrentOK, Lifecycle
<1>10. LedgerOK'
  <2>1. ASSUME NEW u \in Txns PROVE RowOK(u)'
    <3>0. RowOK(u) /\ txns[u].version \in Nat
      BY <1>1, RealRow, Numbers DEF LedgerOK, TxnRow
    <3>1. txns[u].version <= writes' + 2
      BY <1>5, <3>0 DEF RowOK
    <3>2. CASE u = t
      BY <1>2, <1>4, <1>6, <1>9, <3>0, <3>1, <3>2 DEF RowOK, InForce
    <3>3. CASE u # t
      BY <1>4, <1>7, <3>0, <3>1, <3>3 DEF RowOK
    <3> QED
      BY <3>2, <3>3
  <2>2. writes' \in 0..MaxWrites
    BY <1>5
  <2> QED
    BY <1>1, <1>4, <1>8, <2>1, <2>2 DEF LedgerOK
<1>11. checkpoints' = Invalidated(periodScopedCheckpointInvalidationRefs(request.touches))
  BY DEF SetTransactionDeleted, enforceCheckpointBoundaryTx
<1>12. Standing
  BY <1>1, <1>11, NothingLeftAfter
<1>13. \A u \in Txns : RowStep(u)
  BY <1>2, <1>4, <1>6, <1>7 DEF RowStep
<1>14. ASSUME NEW c \in Active', NEW u \in Txns PROVE KeptFor(u, c)
  <2>1. CASE u # t
    BY <1>7, <2>1, SameIsKept
  <2>2. CASE u = t
    <3>1. Outside(row, c) /\ Outside(r, c)
      BY <1>1, <1>2, <1>6, <1>9, <1>11, TouchedIsOutside
    <3> QED
      BY <1>2, <1>6, <2>2, <3>1, OutsideIsKept
  <2> QED
    BY <2>1, <2>2
<1>15. txns' # txns
  <2>1. r.deleted = del /\ row.deleted # del
    BY <1>1, <1>2, <1>3, <1>4, <1>6 DEF SetTransactionDeleted, TxnRow, LedgerOK
  <2> QED
    BY <1>2, <1>6, <2>1
<1> QED
  BY <1>10, <1>12, <1>13, <1>14, <1>15 DEF Effect

(* A step that leaves the checkpoints alone. *)
LEMMA StandingStill ==
    ASSUME TypeOK, UNCHANGED checkpoints
    PROVE  Standing /\ Active' = Active
  BY RowsAreLinked DEF Standing, SameFacts, Active

(* ApproveTransaction: the same journal at the same place. *)
LEMMA ApproveHasEffect ==
    ASSUME ReconciliationInv, NEW t \in Txns, ApproveTransaction(t)
    PROVE  Effect
<1>1. TypeOK /\ LedgerOK /\ txns[t].status \in {"draft", "posted"} /\ ~txns[t].deleted /\ Placed(t, txns[t])
      /\ UNCHANGED <<sessions, checkpoints, request>>
  BY DEF ReconciliationInv, TypeOK, ApproveTransaction
<1>2. PICK row \in TxnRow : row = txns[t]
  BY <1>1, RealRow
<1>3. row.version # 0 /\ row.date \in Dates /\ row.amount \in Amounts
  BY <1>1, <1>2, RealRow
<1>4. Standing
  BY <1>1, StandingStill
<1>5. ASSUME NEW r \in TxnRow, NEW c \in Active', SameButPlace(r, row), PlaceOf(r, t)
      PROVE  (Outside(txns[t], c) /\ Outside(r, c)) \/ SameForPeriods(r, t)
  BY <1>2, <1>5 DEF SameButPlace, PlaceOf, SameForPeriods, InLedger
<1> QED
  BY <1>1, <1>2, <1>3, <1>4, <1>5, PlacedHasEffect

(* DeleteDraftTransaction: a draft is in no period. *)
LEMMA DeleteDraftHasEffect ==
    ASSUME ReconciliationInv, NEW t \in Txns, DeleteDraftTransaction(t)
    PROVE  Effect
<1>1. TypeOK /\ LedgerOK /\ txns[t].status = "draft" /\ UNCHANGED <<sessions, checkpoints, request>>
      /\ writes < MaxWrites /\ writes' = writes + 1 /\ writes \in 0..MaxWrites /\ MaxWrites \in Nat
  BY Numbers DEF ReconciliationInv, TypeOK, DeleteDraftTransaction, NewWrite, LedgerOK
<1>2. PICK gone : gone = [Absent EXCEPT !.status = "gone"]
  OBVIOUS
<1>3. /\ gone \in TxnRow /\ gone.status = "gone" /\ gone.version = 0 /\ ~gone.deleted
  BY <1>2, Numbers DEF Absent, TxnRow
<1>4. /\ txns' = [txns EXCEPT ![t] = gone] /\ places' = [places EXCEPT ![t] = {}]
  BY <1>2 DEF DeleteDraftTransaction
<1>5. /\ txns' \in [Txns -> TxnRow] /\ txns'[t] = gone
      /\ places' \in [Txns -> SUBSET (Dates \X (1..MaxSeq))]
      /\ \A u \in Txns : u # t => txns'[u] = txns[u] /\ places'[u] = places[u]
  BY <1>1, <1>3, <1>4 DEF LedgerOK
<1>6. LedgerOK'
  <2>1. ASSUME NEW u \in Txns PROVE RowOK(u)'
    <3>0. RowOK(u) /\ txns[u].version \in Nat
      BY <1>1, RealRow, Numbers DEF LedgerOK, TxnRow
    <3>1. txns[u].version <= writes' + 2
      BY <1>1, <3>0 DEF RowOK
    <3>2. CASE u = t
      <4>1. txns'[u] = gone /\ gone = [Absent EXCEPT !.status = gone.status] /\ 0 <= writes' + 2
        BY <1>1, <1>2, <1>3, <1>5, <3>2
      <4> QED
        BY <1>3, <4>1 DEF RowOK
    <3>3. CASE u # t
      BY <1>5, <3>0, <3>1, <3>3 DEF RowOK
    <3> QED
      BY <3>2, <3>3
  <2>2. writes' \in 0..MaxWrites
    BY <1>1
  <2> QED
    BY <1>5, <2>1, <2>2 DEF LedgerOK
<1>7. Standing
  BY <1>1, StandingStill
<1>8. \A u \in Txns : RowStep(u)
  BY <1>1, <1>3, <1>5 DEF RowStep
<1>9. ASSUME NEW c \in Active', NEW u \in Txns PROVE KeptFor(u, c)
  <2>1. CASE u # t
    BY <1>5, <2>1, SameIsKept
  <2>2. CASE u = t
    BY <1>1, <1>3, <1>5, <2>2, OutsideIsKept DEF Outside, InLedger
  <2> QED
    BY <2>1, <2>2
<1> QED
  BY <1>1, <1>6, <1>7, <1>8, <1>9 DEF Effect

(* MovePosting: two postings change places on one side of every boundary   *)
(* of their day, or the checkpoints at and after them go out of use.       *)
LEMMA MoveHasEffect ==
    ASSUME ReconciliationInv, NEW t \in Txns, NEW u \in Txns, MovePosting(t, u)
    PROVE  Effect
<1> DEFINE refs  == activeCheckpointRefsAtOrAfter(<<txns[t].date, txns[t].seq>>)
           cross == \E c \in refs : checkpoints[c].date = txns[t].date /\ checkpoints[c].seq < txns[u].seq
<1>1. /\ TypeOK /\ LedgerOK /\ UNCHANGED <<sessions, request>>
      /\ writes < MaxWrites /\ writes' = writes + 1 /\ writes \in 0..MaxWrites /\ MaxWrites \in Nat
  BY Numbers DEF ReconciliationInv, TypeOK, MovePosting, NewWrite, LedgerOK
<1>2. /\ txns[t].version # 0 /\ ~txns[t].deleted /\ txns[u].version # 0 /\ ~txns[u].deleted
      /\ txns[u].date = txns[t].date /\ txns[t].seq < txns[u].seq
      /\ txns' = [txns EXCEPT ![t].seq = txns[u].seq, ![t].version = @ + 1,
                              ![u].seq = txns[t].seq, ![u].version = @ + 1]
      /\ places' = [places EXCEPT ![t] = @ \cup Position(u), ![u] = @ \cup Position(t)]
      /\ checkpoints' = Invalidated(IF cross THEN refs ELSE {})
  BY DEF MovePosting
<1>3. PICK date \in Dates, low \in 1..MaxSeq, high \in 1..MaxSeq :
         /\ date = txns[t].date /\ low = txns[t].seq /\ high = txns[u].seq /\ low < high
         /\ <<date, low>> \in places[t] /\ <<date, high>> \in places[u]
  BY <1>1, <1>2, RealRow
<1>4. /\ low \in Nat /\ high \in Nat /\ date \in Nat /\ low \in 0..MaxSeq /\ high \in 0..MaxSeq /\ t # u
  BY <1>3, Numbers
<1>5. /\ txns[t] \in TxnRow /\ txns[u] \in TxnRow
      /\ txns[t].version + 1 \in Versions /\ txns[u].version + 1 \in Versions
      /\ txns[t].version + 1 <= writes' + 2 /\ txns[u].version + 1 <= writes' + 2
      /\ txns[t].version \in Nat /\ txns[u].version \in Nat
  <2>1. ASSUME NEW v \in Txns
        PROVE  /\ txns[v] \in TxnRow /\ txns[v].version \in Nat
               /\ txns[v].version + 1 \in Versions /\ txns[v].version + 1 <= writes' + 2
    <3>1. RowOK(v) /\ txns[v] \in TxnRow
      BY <1>1 DEF LedgerOK
    <3>2. txns[v].version \in Nat /\ txns[v].version <= writes + 2
      BY <3>1, Numbers DEF RowOK, TxnRow
    <3> QED
      BY <1>1, <3>1, <3>2 DEF Versions
  <2> QED
    BY <2>1
<1>6. PICK rt, ru : /\ rt = [txns[t] EXCEPT !.seq = high, !.version = @ + 1]
                    /\ ru = [txns[u] EXCEPT !.seq = low, !.version = @ + 1]
  OBVIOUS
<1>7. /\ rt \in TxnRow /\ ru \in TxnRow /\ rt.seq = high /\ ru.seq = low
      /\ rt.version = txns[t].version + 1 /\ ru.version = txns[u].version + 1
      /\ rt.status = txns[t].status /\ rt.deleted = txns[t].deleted /\ rt.date = date
      /\ rt.amount = txns[t].amount /\ rt.reconciled = txns[t].reconciled
      /\ ru.status = txns[u].status /\ ru.deleted = txns[u].deleted /\ ru.date = date
      /\ ru.amount = txns[u].amount /\ ru.reconciled = txns[u].reconciled
  <2>1. PICK vt \in Versions, vu \in Versions : vt = txns[t].version + 1 /\ vu = txns[u].version + 1
    BY <1>5
  <2>2. /\ rt = [txns[t] EXCEPT !.seq = high, !.version = vt]
        /\ ru = [txns[u] EXCEPT !.seq = low, !.version = vu]
    BY <1>5, <1>6, <2>1 DEF TxnRow
  <2>3. /\ rt \in TxnRow /\ rt.seq = high /\ rt.version = vt
        /\ rt.status = txns[t].status /\ rt.deleted = txns[t].deleted /\ rt.date = txns[t].date
        /\ rt.amount = txns[t].amount /\ rt.reconciled = txns[t].reconciled
    BY <1>4, <1>5, <2>1, <2>2 DEF TxnRow
  <2>4. /\ ru \in TxnRow /\ ru.seq = low /\ ru.version = vu
        /\ ru.status = txns[u].status /\ ru.deleted = txns[u].deleted /\ ru.date = txns[u].date
        /\ ru.amount = txns[u].amount /\ ru.reconciled = txns[u].reconciled
    BY <1>4, <1>5, <2>1, <2>2 DEF TxnRow
  <2> QED
    BY <1>2, <1>3, <2>1, <2>3, <2>4
<1>8. /\ txns' = [txns EXCEPT ![t] = rt, ![u] = ru]
      /\ places' = [places EXCEPT ![t] = @ \cup {<<date, high>>}, ![u] = @ \cup {<<date, low>>}]
  <2>1. txns \in [Txns -> TxnRow] /\ places \in [Txns -> SUBSET (Dates \X (1..MaxSeq))]
    BY <1>1 DEF LedgerOK
  <2> QED
    BY <1>2, <1>3, <1>4, <1>5, <1>6, <2>1 DEF Position, TxnRow
<1>9. /\ txns' \in [Txns -> TxnRow] /\ txns'[t] = rt /\ txns'[u] = ru
      /\ places' \in [Txns -> SUBSET (Dates \X (1..MaxSeq))]
      /\ <<date, high>> \in places'[t] /\ <<date, low>> \in places'[u]
      /\ \A v \in Txns : /\ v \notin {t, u} => txns'[v] = txns[v]
                         /\ places[v] \subseteq places'[v]
  BY <1>1, <1>3, <1>4, <1>7, <1>8 DEF LedgerOK
<1>10. LedgerOK'
  <2>1. ASSUME NEW v \in Txns PROVE RowOK(v)'
    <3>0. RowOK(v) /\ txns[v].version \in Nat
      BY <1>1, RealRow, Numbers DEF LedgerOK, TxnRow
    <3>1. txns[v].version <= writes' + 2
      BY <1>1, <3>0 DEF RowOK
    <3>2. CASE v \notin {t, u}
      BY <1>9, <3>0, <3>1, <3>2 DEF RowOK
    <3>3. CASE v \in {t, u}
      <4>1. /\ txns[v].version # 0 /\ txns[v].amount \in Amounts
            /\ txns[v].status \in {"draft", "posted", "voided"}
        BY <1>1, <1>2, <3>3, RealRow
      <4>2. txns'[v].version = txns[v].version + 1 /\ txns'[v].version <= writes' + 2 /\ txns'[v].version # 0
        BY <1>5, <1>7, <1>9, <3>3
      <4>3. /\ txns'[v].status = txns[v].status /\ txns'[v].deleted = txns[v].deleted
            /\ txns'[v].amount = txns[v].amount /\ txns'[v].date = date
            /\ <<date, txns'[v].seq>> \in places'[v]
        BY <1>7, <1>9, <3>3
      <4> QED
        BY <1>3, <3>0, <4>1, <4>2, <4>3 DEF RowOK
    <3> QED
      BY <3>2, <3>3
  <2>2. writes' \in 0..MaxWrites
    BY <1>1
  <2> QED
    BY <1>9, <2>1, <2>2 DEF LedgerOK
<1>11. Standing /\ Active' = Active \ (IF cross THEN refs ELSE {})
  <2>1. PICK gone : gone = IF cross THEN refs ELSE {}
    OBVIOUS
  <2> QED
    BY <1>1, <1>2, <2>1, InvalidatedStand
<1>12. \A v \in Txns : RowStep(v)
  <2>1. ASSUME NEW v \in {t, u}
        PROVE  /\ txns[v].status \in {"draft", "posted", "voided"} /\ txns'[v].status = txns[v].status
               /\ txns[v].version \in Nat /\ txns'[v].version = txns[v].version + 1
    <3>1. txns[v].version # 0 /\ v \in Txns
      BY <1>2, <2>1
    <3> QED
      BY <1>1, <1>5, <1>7, <1>9, <2>1, <3>1, RealRow
  <2>2. \A v \in {t, u} : txns'[v].version > txns[v].version
    BY <2>1
  <2> QED
    BY <1>9, <2>1, <2>2 DEF RowStep
<1>13. ASSUME NEW c \in Active', NEW v \in Txns PROVE KeptFor(v, c)
  <2>1. CASE v \notin {t, u}
    BY <1>9, <2>1, SameIsKept
  <2>2. CASE v \in {t, u}
    <3>1. c \in Active /\ c \in DOMAIN checkpoints
      BY <1>11 DEF Active
    <3>2. PICK cd \in Nat, cs \in Nat : cd = checkpoints[c].date /\ cs = checkpoints[c].seq
      BY <1>1, <3>1, CheckpointNumbers
    <3>3. \/ cd > date
          \/ cd < date
          \/ cd = date /\ cs < low
          \/ cd = date /\ cs >= high
      <4>1. c \in refs <=> cd > date \/ (cd = date /\ cs >= low)
        BY <1>3, <3>1, <3>2 DEF activeCheckpointRefsAtOrAfter
      <4>2. c \in refs => ~(cd = date /\ cs < high)
        BY <1>3, <1>11, <3>2
      <4> QED
        BY <1>4, <4>1, <4>2
    <3>4. \A r \in TxnRow : r.date = date /\ r.seq \in {low, high} =>
             (Inside(r, cd, cs) <=> cd > date \/ (cd = date /\ cs >= high))
      BY <1>3, <1>4, <3>3 DEF Inside
    <3>5. /\ txns[v] \in TxnRow /\ txns'[v] \in TxnRow
          /\ txns[v].date = date /\ txns[v].seq \in {low, high}
          /\ txns'[v].date = date /\ txns'[v].seq \in {low, high}
          /\ txns'[v].status = txns[v].status /\ txns'[v].deleted = txns[v].deleted
          /\ txns'[v].amount = txns[v].amount /\ txns'[v].reconciled = txns[v].reconciled
      BY <1>2, <1>3, <1>5, <1>7, <1>9, <2>2
    <3>6. Inside(txns'[v], cd, cs) <=> Inside(txns[v], cd, cs)
      BY <3>4, <3>5
    <3> QED
      BY <3>2, <3>5, <3>6 DEF KeptFor, InPeriod, InLedger
  <2> QED
    BY <2>1, <2>2
<1> QED
  BY <1>1, <1>10, <1>11, <1>12, <1>13 DEF Effect

(* VoidReconciliationCheckpoint: a checkpoint goes out of use. *)
LEMMA VoidingCheckpointHasEffect ==
    ASSUME ReconciliationInv, NEW c \in Active, VoidReconciliationCheckpoint(c)
    PROVE  Effect
<1> DEFINE n == Len(checkpoints)
<1>1. TypeOK /\ LedgerOK /\ UNCHANGED <<txns, places, sessions, request, writes>>
      /\ checkpoints' = [checkpoints EXCEPT ![c].status = "voided"]
  BY DEF ReconciliationInv, TypeOK, VoidReconciliationCheckpoint
<1>2. /\ checkpoints \in Seq(Checkpoint) /\ n \in Nat /\ DOMAIN checkpoints = 1..n /\ c \in 1..n
      /\ \A k \in 1..n : checkpoints[k] \in Checkpoint
  BY <1>1, RowsAreLinked DEF Linked, Active
<1>3. PICK row \in Checkpoint : row = [checkpoints[c] EXCEPT !.status = "voided"]
  BY <1>2 DEF Checkpoint
<1>4. checkpoints' = [k \in 1..n |-> IF k = c THEN row ELSE checkpoints[k]]
  BY <1>1, <1>2, <1>3
<1>5. checkpoints' \in [1..n -> Checkpoint]
  BY <1>2, <1>4
<1>6. checkpoints' \in Seq(Checkpoint) /\ Len(checkpoints') = n /\ DOMAIN checkpoints' = 1..n
  <2> HIDE DEF n
  <2> QED
    BY <1>2, <1>5
<1>7. SameFacts(c)
  <2>1. checkpoints[c] \in Checkpoint /\ checkpoints'[c] = [checkpoints[c] EXCEPT !.status = "voided"]
    BY <1>2, <1>3, <1>4
  <2> QED
    BY <2>1 DEF SameFacts, Checkpoint
<1>8. \A k \in 1..n : SameFacts(k)
  BY <1>4, <1>7 DEF SameFacts
<1>9. Standing
  BY <1>2, <1>6, <1>8 DEF Standing
<1>10. \A t \in Txns : RowStep(t)
  BY <1>1 DEF RowStep
<1>11. \A k \in Active', t \in Txns : KeptFor(t, k)
  BY <1>1, SameIsKept
<1>12. LedgerOK'
  BY <1>1 DEF LedgerOK, RowOK
<1> QED
  BY <1>1, <1>9, <1>10, <1>11, <1>12 DEF Effect

(* A write that is refused, and a step that changes nothing. *)
LEMMA RefusalHasEffect ==
    ASSUME ReconciliationInv, WriteRefused \/ UNCHANGED vars
    PROVE  Effect
<1>1. TypeOK /\ LedgerOK /\ UNCHANGED <<txns, places, sessions, checkpoints, writes>> /\ request' \in {Idle, request}
  BY DEF ReconciliationInv, TypeOK, WriteRefused, vars
<1>2. Standing
  BY <1>1, StandingStill
<1>3. \A t \in Txns : RowStep(t)
  BY <1>1 DEF RowStep
<1>4. \A k \in Active', t \in Txns : KeptFor(t, k)
  BY <1>1, SameIsKept
<1>5. LedgerOK'
  BY <1>1 DEF LedgerOK, RowOK
<1> QED
  BY <1>1, <1>2, <1>3, <1>4, <1>5 DEF Effect

(* A change of status is a version of each of the lines.                   *)
LEMMA WithStatusRows ==
    ASSUME LedgerOK, NEW lines, \A t \in lines \cap Txns : InLedger(txns[t]), NEW rec \in BOOLEAN,
           NewWrite, txns' = WithStatus(lines, rec), UNCHANGED places
    PROVE  /\ LedgerOK' /\ \A t \in Txns : RowStep(t)
           /\ \A t \in Txns :
                 /\ InLedger(txns'[t]) <=> InLedger(txns[t])
                 /\ txns'[t].date = txns[t].date /\ txns'[t].seq = txns[t].seq
                 /\ txns'[t].amount = txns[t].amount
                 /\ t \in lines => txns'[t].reconciled = rec
                 /\ t \notin lines => txns'[t] = txns[t]
<1>1. writes < MaxWrites /\ writes' = writes + 1 /\ writes \in 0..MaxWrites /\ MaxWrites \in Nat
  BY Numbers DEF NewWrite, LedgerOK
<1>2. ASSUME NEW t \in Txns, t \in lines
      PROVE  /\ txns'[t] \in TxnRow /\ txns[t].version \in Nat
             /\ txns'[t].version = txns[t].version + 1 /\ txns'[t].version <= writes' + 2
             /\ txns'[t].version \in Nat
             /\ txns'[t].status = txns[t].status /\ txns'[t].deleted = txns[t].deleted
             /\ txns'[t].date = txns[t].date /\ txns'[t].seq = txns[t].seq
             /\ txns'[t].amount = txns[t].amount /\ txns'[t].reconciled = rec
  <2>1. RowOK(t) /\ txns[t] \in TxnRow
    BY <1>2 DEF LedgerOK
  <2>2. txns[t].version \in Nat /\ txns[t].version <= writes + 2
    BY <2>1, Numbers DEF RowOK, TxnRow
  <2>3. PICK version \in Versions : version = txns[t].version + 1 /\ version <= writes' + 2 /\ version \in Nat
    BY <1>1, <2>2 DEF Versions
  <2>4. txns'[t] = [txns[t] EXCEPT !.reconciled = rec, !.version = version]
    BY <1>2, <2>1, <2>3 DEF WithStatus, TxnRow
  <2> QED
    BY <2>1, <2>2, <2>3, <2>4 DEF TxnRow
<1>3. \A t \in Txns : t \notin lines => txns'[t] = txns[t]
  BY DEF WithStatus
<1>4. txns' \in [Txns -> TxnRow]
  <2>1. \A t \in Txns : txns'[t] \in TxnRow
    BY <1>2, <1>3 DEF LedgerOK
  <2> QED
    BY <2>1 DEF WithStatus
<1>5. \A t \in Txns : RowStep(t)
  <2>1. ASSUME NEW t \in Txns, t \in lines PROVE RowStep(t)
    <3>1. txns[t].status = "posted"
      BY <2>1 DEF InLedger
    <3>2. txns'[t].version > txns[t].version
      BY <1>2, <2>1
    <3> QED
      BY <1>2, <2>1, <3>1, <3>2 DEF RowStep
  <2> QED
    BY <1>3, <2>1 DEF RowStep
<1>6. ASSUME NEW t \in Txns PROVE RowOK(t)'
  <2>0. RowOK(t) /\ txns[t].version \in Nat
    BY RealRow, Numbers DEF LedgerOK, TxnRow
  <2>1. CASE t \in lines
    <3>1. txns[t].status = "posted"
      BY <2>1 DEF InLedger
    <3>2. /\ txns'[t].version <= writes' + 2 /\ txns'[t].version # 0
          /\ txns'[t].status = txns[t].status /\ txns'[t].deleted = txns[t].deleted
          /\ txns'[t].date = txns[t].date /\ txns'[t].seq = txns[t].seq
          /\ txns'[t].amount = txns[t].amount
      BY <1>2, <2>0, <2>1
    <3> QED
      BY <2>0, <3>1, <3>2 DEF RowOK
  <2>2. CASE t \notin lines
    <3>1. txns[t].version <= writes' + 2 /\ txns'[t] = txns[t]
      BY <1>1, <1>3, <2>0, <2>2 DEF RowOK
    <3> QED
      BY <2>0, <3>1 DEF RowOK
  <2> QED
    BY <2>1, <2>2
<1>7. LedgerOK'
  <2>1. writes' \in 0..MaxWrites
    BY <1>1
  <2> QED
    BY <1>4, <1>6, <2>1 DEF LedgerOK
<1>8. ASSUME NEW t \in Txns
      PROVE  /\ InLedger(txns'[t]) <=> InLedger(txns[t])
             /\ txns'[t].date = txns[t].date /\ txns'[t].seq = txns[t].seq
             /\ txns'[t].amount = txns[t].amount
             /\ t \in lines => txns'[t].reconciled = rec
             /\ t \notin lines => txns'[t] = txns[t]
  <2>1. CASE t \in lines
    BY <1>2, <2>1 DEF InLedger
  <2>2. CASE t \notin lines
    BY <1>3, <2>2
  <2> QED
    BY <2>1, <2>2
<1> QED
  BY <1>5, <1>7, <1>8

(* ChangePostingReconciliationStatus: the mark of a posting that no        *)
(* checkpoint counts.                                                      *)
LEMMA HandChangeHasEffect ==
    ASSUME ReconciliationInv, NEW t \in Txns, ChangePostingReconciliationStatus(t)
    PROVE  Effect
<1>1. TypeOK /\ LedgerOK /\ InLedger(txns[t]) /\ t \notin Covered /\ NewWrite
      /\ txns' = WithStatus({t}, FALSE) /\ UNCHANGED <<places, sessions, checkpoints, request>>
  BY DEF ReconciliationInv, TypeOK, ChangePostingReconciliationStatus
<1>2. /\ LedgerOK' /\ \A u \in Txns : RowStep(u)
      /\ \A u \in Txns :
                 /\ InLedger(txns'[u]) <=> InLedger(txns[u])
                 /\ txns'[u].date = txns[u].date /\ txns'[u].seq = txns[u].seq
                 /\ txns'[u].amount = txns[u].amount
                 /\ u \notin {t} => txns'[u] = txns[u]
  BY <1>1, WithStatusRows
<1>3. Standing
  BY <1>1, StandingStill
<1>4. \A k \in Active', u \in Txns : KeptFor(u, k)
  BY <1>1, <1>2, SameIsKept
<1> QED
  BY <1>1, <1>2, <1>3, <1>4 DEF Effect

(* A ledger write that commits. *)
LEMMA CommitHasEffect ==
    ASSUME ReconciliationInv, WriteCommits
    PROVE  Effect /\ txns' # txns
<1>1. request' = Idle /\ UNCHANGED sessions
  BY DEF WriteCommits
<1> QED
  BY <1>1, CreateHasEffect, UpdateHasEffect, VoidingHasEffect, DeletingHasEffect DEF WriteCommits

(***************************************************************************)
(* The service's half, and sessions                                        *)
(***************************************************************************)
(* A step that leaves the ledger and the checkpoints alone. *)
LEMMA QuietKeeps ==
    ASSUME ReconciliationInv, UNCHANGED <<txns, places, checkpoints, writes>>,
           sessions' \in [Sessions -> {NoSession} \cup OpenSession], request' \in {Idle} \cup Request
    PROVE  /\ TypeOK' /\ SequencesWereGiven' /\ StatementsInv' /\ Standing /\ \A t \in Txns : RowStep(t)
<1>1. TypeOK /\ LedgerOK /\ LedgerOK'
  BY DEF ReconciliationInv, TypeOK, LedgerOK, RowOK
<1>2. Standing
  BY <1>1, StandingStill
<1>3. \A t \in Txns : RowStep(t)
  BY DEF RowStep
<1>4. \A k \in Active', t \in Txns : KeptFor(t, k)
  BY SameIsKept
<1>5. TypeOK'
  <2>1. OpenSession' = OpenSession /\ Checkpoint' = Checkpoint /\ Request' = Request
    BY DEF OpenSession, Checkpoint, Request
  <2> QED
    BY <1>1, <2>1 DEF TypeOK
<1>6. SequencesWereGiven'
  BY <1>1, <1>2, <1>3, SequencesStand DEF ReconciliationInv
<1>7. StatementsInv'
  BY <1>1, <1>2, <1>4, <1>5, StatementsStand DEF ReconciliationInv
<1> QED
  BY <1>2, <1>3, <1>5, <1>6, <1>7

(* A write that is prepared remembers what it read. *)
LEMMA PreparedKeeps ==
    ASSUME ReconciliationInv, NEW t \in Txns, NEW op, NEW date \in Dates, NEW amount \in Amounts,
           NEW touches \in SUBSET (Dates \X Nat), Prepared(op, t, date, amount, touches),
           op \in {"create", "create_draft", "update", "post"} \cup Lifecycle,
           op \in {"create", "create_draft"} =>
              txns[t].status = "none" /\ (op = "create" => <<date, EndOfDay>> \in touches),
           op \notin {"create", "create_draft"} => txns[t].version # 0,
           op = "update" => \/ txns[t].status = "draft"
                            \/ txns[t].date = date /\ txns[t].amount = amount
                            \/ {<<txns[t].date, txns[t].seq>>, <<date, EndOfDay>>} \subseteq touches,
           op = "post" =>
              /\ txns[t].status = "draft"
              /\ {<<txns[t].date, txns[t].seq>>, <<date, EndOfDay>>} \subseteq touches,
           op \in Lifecycle => txns[t].status \in InForce /\ <<txns[t].date, txns[t].seq>> \in touches
    PROVE  ReconciliationInv'
<1>1. TypeOK /\ LedgerOK /\ UNCHANGED <<txns, places, sessions, checkpoints, writes>>
  BY DEF ReconciliationInv, TypeOK, Prepared
<1>2. PICK refs \in SUBSET DOMAIN checkpoints : refs = periodScopedCheckpointInvalidationRefs(touches)
  BY DEF periodScopedCheckpointInvalidationRefs, activeCheckpointRefsAtOrAfter, Active
<1>3. PICK version \in Versions : version = txns[t].version /\ version \in Nat
  BY <1>1, RealRow, Numbers DEF TxnRow
<1>4. PICK review \in Reviews, reviewed \in SUBSET DOMAIN checkpoints, over \in BOOLEAN :
         /\ over = (review = "unbound" \/ reviewed # {})
         /\ request' = [op |-> op, txn |-> t, version |-> version, date |-> date, amount |-> amount,
                        touches |-> touches, review |-> review, override |-> over, reviewed |-> reviewed]
  <2>1. PICK review \in Reviews :
           \E reviewed \in IF review = "batch" THEN BatchRefs(refs) ELSE {refs} :
              request' = [op |-> op, txn |-> t, version |-> txns[t].version, date |-> date,
                          amount |-> amount, touches |-> touches, review |-> review,
                          override |-> review = "unbound" \/ reviewed # {}, reviewed |-> reviewed]
    BY <1>2 DEF Prepared
  <2>2. BatchRefs(refs) \subseteq SUBSET DOMAIN checkpoints
    BY DEF BatchRefs, activeCheckpointRefsAtOrAfter, Active
  <2>3. PICK reviewed \in SUBSET DOMAIN checkpoints :
           request' = [op |-> op, txn |-> t, version |-> version, date |-> date, amount |-> amount,
                       touches |-> touches, review |-> review,
                       override |-> review = "unbound" \/ reviewed # {}, reviewed |-> reviewed]
    BY <1>3, <2>1, <2>2
  <2>4. PICK over \in BOOLEAN : over = (review = "unbound" \/ reviewed # {})
    OBVIOUS
  <2> QED
    BY <2>1, <2>3, <2>4
<1>6. request' \in Request
  BY <1>3, <1>4 DEF Request
<1>7. /\ TypeOK' /\ SequencesWereGiven' /\ StatementsInv' /\ Standing /\ \A u \in Txns : RowStep(u)
  BY <1>1, <1>6, QuietKeeps DEF TypeOK
<1>8. SessionsInv'
  BY <1>1, <1>7, SessionsStand DEF ReconciliationInv, Standing
<1>9. RequestInv'
  <2>1. /\ request'.op = op /\ request'.txn = t /\ request'.version = version /\ request'.date = date
        /\ request'.amount = amount /\ request'.touches = touches
    BY <1>4
  <2>5. ReviewOK'
    <3>1. request'.review = review /\ request'.override = over /\ request'.reviewed = reviewed
      BY <1>4
    <3> QED
      BY <1>4, <3>1 DEF ReviewOK
  <2>2. txns' = txns
    BY <1>1
  <2>3. CASE op \in {"create", "create_draft"}
    <3>1. IsCreate' /\ CreateOK'
      BY <2>1, <2>2, <2>3 DEF IsCreate, CreateOK, EndOfDay
    <3> QED
      BY <2>5, <3>1 DEF RequestInv
  <2>4. CASE op \notin {"create", "create_draft"}
    <3>1. ~IsCreate' /\ ChangeOK'
      BY <1>3, <2>1, <2>2, <2>4 DEF IsCreate, ChangeOK, CurrentOK, TouchesBoth, EndOfDay, Lifecycle
    <3> QED
      BY <2>5, <3>1 DEF RequestInv
  <2> QED
    BY <2>3, <2>4
<1> QED
  BY <1>7, <1>8, <1>9 DEF ReconciliationInv

(* The service's half of every ledger write. *)
LEMMA PreparingKeeps ==
    ASSUME ReconciliationInv,
           \/ \E t \in Txns, status \in {"draft", "posted"}, d \in PostingDates, a \in NewAmounts :
                 PrepareCreate(t, status, d, a)
           \/ \E t \in Txns, d \in PostingDates, a \in Amounts : PrepareUpdate(t, d, a)
           \/ \E t \in Txns : PreparePost(t)
           \/ \E t \in Txns, op \in Lifecycle : PrepareLifecycle(t, op)
    PROVE  ReconciliationInv'
<1>0. /\ LedgerOK /\ PostingDates \subseteq Dates /\ NewAmounts \subseteq Amounts /\ EndOfDay \in Nat
      /\ \A t \in Txns : txns[t].status \in {"draft", "posted", "voided"} =>
            /\ txns[t].version # 0 /\ txns[t].date \in Dates /\ txns[t].amount \in Amounts
            /\ txns[t].seq \in Nat /\ Position(t) = {<<txns[t].date, txns[t].seq>>}
  <2>1. LedgerOK
    BY DEF ReconciliationInv, TypeOK
  <2>2. PostingDates \subseteq Dates /\ NewAmounts \subseteq Amounts /\ EndOfDay \in Nat
    BY ReconciliationAssumption DEF EndOfDay
  <2>3. ASSUME NEW t \in Txns, txns[t].status \in {"draft", "posted", "voided"}
        PROVE  /\ txns[t].version # 0 /\ txns[t].date \in Dates /\ txns[t].amount \in Amounts
               /\ txns[t].seq \in 1..MaxSeq
    BY <2>1, <2>3, RealRow
  <2> QED
    BY <2>1, <2>2, <2>3, Numbers DEF Position
<1>1. ASSUME NEW t \in Txns, NEW status \in {"draft", "posted"}, NEW d \in PostingDates,
             NEW a \in NewAmounts, PrepareCreate(t, status, d, a)
      PROVE  ReconciliationInv'
  <2>1. PICK op \in {"create", "create_draft"}, touches \in SUBSET (Dates \X Nat) :
           /\ Prepared(op, t, d, a, touches) /\ txns[t].status = "none"
           /\ op = "create" => <<d, EndOfDay>> \in touches
    <3>1. PICK op : op = IF status = "draft" THEN "create_draft" ELSE "create"
      OBVIOUS
    <3>2. PICK touches : touches = IF status = "draft" THEN {} ELSE {<<d, EndOfDay>>}
      OBVIOUS
    <3>3. touches \in SUBSET (Dates \X Nat) /\ Prepared(op, t, d, a, touches) /\ txns[t].status = "none"
      BY <1>0, <1>1, <3>1, <3>2 DEF PrepareCreate
    <3> QED
      BY <3>1, <3>2, <3>3
  <2>2. d \in Dates /\ a \in Amounts
    BY <1>0
  <2> QED
    BY <2>1, <2>2, PreparedKeeps DEF Lifecycle
<1>2. ASSUME NEW t \in Txns, NEW d \in PostingDates, NEW a \in Amounts, PrepareUpdate(t, d, a)
      PROVE  ReconciliationInv'
  <2>1. PICK touches : touches = IF txns[t].status = "draft" \/ (d = txns[t].date /\ a = txns[t].amount)
                                 THEN {} ELSE Position(t) \cup {<<d, EndOfDay>>}
    OBVIOUS
  <2>2. d \in Dates /\ txns[t].status \in {"draft", "posted"} /\ Prepared("update", t, d, a, touches)
    BY <1>0, <1>2, <2>1 DEF PrepareUpdate
  <2>3. /\ touches \in SUBSET (Dates \X Nat) /\ txns[t].version # 0
        /\ \/ txns[t].status = "draft"
           \/ txns[t].date = d /\ txns[t].amount = a
           \/ {<<txns[t].date, txns[t].seq>>, <<d, EndOfDay>>} \subseteq touches
    BY <1>0, <2>1, <2>2
  <2> QED
    BY <2>2, <2>3, PreparedKeeps DEF Lifecycle
<1>3. ASSUME NEW t \in Txns, PreparePost(t)
      PROVE  ReconciliationInv'
  <2>1. PICK d, a, touches : d = txns[t].date /\ a = txns[t].amount /\ touches = Position(t) \cup {<<d, EndOfDay>>}
    OBVIOUS
  <2>2. txns[t].status = "draft" /\ Prepared("post", t, d, a, touches)
    BY <1>3, <2>1 DEF PreparePost
  <2>3. /\ touches \in SUBSET (Dates \X Nat) /\ txns[t].version # 0 /\ d \in Dates /\ a \in Amounts
        /\ {<<txns[t].date, txns[t].seq>>, <<d, EndOfDay>>} \subseteq touches
    BY <1>0, <2>1, <2>2
  <2> QED
    BY <2>2, <2>3, PreparedKeeps DEF Lifecycle
<1>4. ASSUME NEW t \in Txns, NEW op \in Lifecycle, PrepareLifecycle(t, op)
      PROVE  ReconciliationInv'
  <2>1. PICK d, a, touches : d = txns[t].date /\ a = txns[t].amount /\ touches = Position(t)
    OBVIOUS
  <2>2. txns[t].status \in InForce /\ Prepared(op, t, d, a, touches)
    <3>1. txns[t].deleted => txns[t].status \in InForce
      BY <1>0 DEF LedgerOK, RowOK, InForce
    <3> QED
      BY <1>4, <2>1, <3>1 DEF PrepareLifecycle, Lifecycle, InForce
  <2>3. /\ touches \in SUBSET (Dates \X Nat) /\ txns[t].version # 0 /\ d \in Dates /\ a \in Amounts
        /\ <<txns[t].date, txns[t].seq>> \in touches
    BY <1>0, <2>1, <2>2 DEF InForce
  <2> QED
    BY <2>2, <2>3, PreparedKeeps DEF Lifecycle
<1> QED
  BY <1>1, <1>2, <1>3, <1>4

(* The latest checkpoint is an active one: of finitely many, one is not    *)
(* before any other.                                                       *)
LEMMA LatestIsActive ==
    ASSUME TypeOK, Active # {}
    PROVE  /\ latestActiveReconciliationCheckpoint \in Active
           /\ \A d \in Active :
                 LET latest == latestActiveReconciliationCheckpoint
                 IN  \/ checkpoints[d].date < checkpoints[latest].date
                     \/ checkpoints[d].date = checkpoints[latest].date /\ d <= latest
<1> DEFINE Before(d, c) == \/ checkpoints[d].date < checkpoints[c].date
                           \/ checkpoints[d].date = checkpoints[c].date /\ d <= c
           Last(c, S) == \A d \in S : Before(d, c)
           P == {S \in SUBSET Active : S # {} => \E c \in S : Last(c, S)}
<1>1. \A c \in Active : c \in Nat /\ checkpoints[c].date \in Nat
  BY RowsAreLinked, CheckpointNumbers DEF Linked, Active
<1>2. IsFiniteSet(Active)
  <2>1. PICK n \in Nat : Active \subseteq 1..n
    BY RowsAreLinked DEF Linked, Active
  <2>2. IsFiniteSet(1..n)
    BY FS_Interval
  <2> QED
    BY <2>1, <2>2, FS_Subset
<1>3. \A c, d, e \in Active : Before(c, d) /\ Before(d, e) => Before(c, e)
  BY <1>1
<1>4. \A c, d \in Active : Before(c, d) \/ Before(d, c)
  BY <1>1
<1>5. \A c \in Active : Before(c, c)
  BY <1>1
<1> HIDE DEF Before
<1>6. ASSUME NEW S \in SUBSET Active, S # {}, \A x \in S : S \ {x} \in P
      PROVE  S \in P
  <2>1. PICK x \in S : TRUE
    BY <1>6
  <2>2. CASE S \ {x} = {}
    <3>1. S = {x}
      BY <2>1, <2>2
    <3> QED
      BY <1>5, <3>1
  <2>3. CASE S \ {x} # {}
    <3>1. PICK c \in S \ {x} : Last(c, S \ {x})
      BY <1>6, <2>1, <2>3
    <3>2. CASE Before(x, c)
      BY <3>1, <3>2
    <3>3. CASE Before(c, x)
      <4>1. Last(x, S)
        BY <1>3, <1>5, <2>1, <3>1, <3>3
      <4> QED
        BY <2>1, <4>1
    <3> QED
      BY <1>4, <2>1, <3>1, <3>2, <3>3
  <2> QED
    BY <2>2, <2>3
<1>7. P \in SUBSET SUBSET Active /\ {} \in P
  OBVIOUS
<1>8. P = SUBSET Active
  <2> HIDE DEF P
  <2> QED
    BY <1>2, <1>6, <1>7, SetInduction
<1>9. PICK g \in Active : Last(g, Active)
  BY <1>8
<1>10. PICK latest : latest = latestActiveReconciliationCheckpoint
  OBVIOUS
<1>11. latest = CHOOSE c \in Active : Last(c, Active)
  BY <1>10 DEF latestActiveReconciliationCheckpoint, Before
<1>12. latest \in Active /\ Last(latest, Active)
  <2> HIDE DEF Last
  <2> QED
    BY <1>9, <1>11
<1> QED
  BY <1>10, <1>12 DEF Before

(* The latest active checkpoint is a row, or there is none. *)
LEMMA LatestIsRow ==
    ASSUME TypeOK
    PROVE  /\ latestActiveReconciliationCheckpoint \in 0..Len(checkpoints)
           /\ latestActiveReconciliationCheckpoint = NoRow <=> Active = {}
<1>1. DOMAIN checkpoints = 1..Len(checkpoints) /\ Len(checkpoints) \in Nat
  BY RowsAreLinked DEF Linked
<1>2. CASE Active = {}
  BY <1>1, <1>2 DEF latestActiveReconciliationCheckpoint, NoRow
<1>3. CASE Active # {}
  <2>1. latestActiveReconciliationCheckpoint \in DOMAIN checkpoints
    BY <1>3, LatestIsActive DEF Active
  <2> QED
    BY <1>1, <1>3, <2>1 DEF NoRow
<1> QED
  BY <1>2, <1>3

(* When statements follow each other, the latest checkpoint is the         *)
(* greatest active one, and the rest are on its chain.                     *)
LEMMA LatestCarriesAll ==
    ASSUME InOrder(DOMAIN checkpoints), TypeOK, StatementsInv, Active # {}
    PROVE  \A a \in Active : a \in Chain[latestActiveReconciliationCheckpoint]
<1> DEFINE n == Len(checkpoints)
<1>1. /\ n \in Nat /\ DOMAIN checkpoints = 1..n /\ Active \in SUBSET (0..n) /\ Active \subseteq DOMAIN checkpoints
      /\ Linked(checkpoints, n) /\ ChainsOf(Chain, checkpoints, n)
  BY ChainIs DEF Linked, Active
<1>2. PICK g \in Active : \A a \in Active : a <= g
  <2> HIDE DEF n
  <2> QED
    BY <1>1, GreatestOf
<1>3. \A a \in Active : a \in Chain[g]
  <2>1. CarriedOK(g)
    BY <1>1, <1>2 DEF StatementsInv, StatementOK
  <2> QED
    BY <1>2, <2>1 DEF CarriedOK
<1>4. ASSUME NEW c \in 1..n
      PROVE  /\ checkpoints[c].date \in Nat
             /\ checkpoints[c].previous # NoRow =>
                   checkpoints[checkpoints[c].previous].date <= checkpoints[c].date
  <2>1. checkpoints[c].date \in Nat
    BY <1>1, CheckpointNumbers
  <2>2. ASSUME checkpoints[c].previous # NoRow
        PROVE  checkpoints[checkpoints[c].previous].date <= checkpoints[c].date
    <3>1. PICK p \in DOMAIN checkpoints : p = checkpoints[c].previous
      BY <1>1, <2>2 DEF Linked, NoRow
    <3>2. checkpoints[p].date \in Nat
      BY CheckpointNumbers
    <3>3. Inside(checkpoints[p], checkpoints[c].date, checkpoints[c].seq)
      BY <1>1, <2>2, <3>1 DEF InOrder
    <3> QED
      BY <2>1, <3>1, <3>2, <3>3 DEF Inside
  <2> QED
    BY <2>1, <2>2
<1>5. \A c \in 1..n : \A k \in Chain[c] : checkpoints[k].date <= checkpoints[c].date
  <2> HIDE DEF n
  <2> QED
    BY <1>1, <1>4, ChainsAreOlder
<1>6. \A a \in Active : /\ checkpoints[a].date \in Nat /\ a \in Nat
                        /\ checkpoints[a].date <= checkpoints[g].date
  BY <1>1, <1>2, <1>3, <1>4, <1>5
<1>7. PICK latest \in Active :
         /\ latest = latestActiveReconciliationCheckpoint
         /\ \A d \in Active :
               \/ checkpoints[d].date < checkpoints[latest].date
               \/ checkpoints[d].date = checkpoints[latest].date /\ d <= latest
  BY LatestIsActive
<1>8. latest = g
  BY <1>2, <1>6, <1>7
<1> QED
  BY <1>3, <1>7, <1>8

(* One slot of the open sessions changes and nothing else.                 *)
LEMMA SlotKeeps ==
    ASSUME ReconciliationInv, UNCHANGED <<txns, places, checkpoints, request, writes>>, NEW s \in Sessions,
           NEW new \in {NoSession} \cup OpenSession, sessions' = [sessions EXCEPT ![s] = new],
           new # NoSession => SessionOK(s)'
    PROVE  ReconciliationInv'
<1>1. TypeOK /\ sessions \in [Sessions -> {NoSession} \cup OpenSession]
  BY DEF ReconciliationInv, TypeOK
<1>2. sessions' \in [Sessions -> {NoSession} \cup OpenSession] /\ request' \in {Idle} \cup Request
  BY <1>1 DEF TypeOK
<1>3. TypeOK' /\ SequencesWereGiven' /\ StatementsInv' /\ Standing /\ \A t \in Txns : RowStep(t)
  BY <1>2, QuietKeeps
<1>4. ASSUME NEW r \in Sessions, sessions'[r] # NoSession PROVE SessionOK(r)'
  <2>1. CASE r = s
    BY <1>1, <1>4, <2>1
  <2>2. CASE r # s
    <3>1. sessions'[r] = sessions[r] /\ SessionOK(r)
      BY <1>1, <1>4, <2>2 DEF ReconciliationInv, SessionsInv
    <3> QED
      BY <1>1, <1>3, <1>4, <3>1, SessionStands DEF Standing
  <2> QED
    BY <2>1, <2>2
<1>5. SessionsInv'
  BY <1>4 DEF SessionsInv
<1>6. RequestInv'
  BY <1>1, <1>3, RequestStands DEF ReconciliationInv
<1> QED
  BY <1>3, <1>5, <1>6 DEF ReconciliationInv

(* CreateReconciliationSession: the balance to start from is the one of    *)
(* the latest active checkpoint.                                           *)
LEMMA StartingKeeps ==
    ASSUME ReconciliationInv, NEW s \in Sessions, NEW d \in Dates, NEW b \in Balances,
           CreateReconciliationSession(s, d, b)
    PROVE  ReconciliationInv'
<1>1. TypeOK /\ StatementsInv /\ UNCHANGED <<txns, places, checkpoints, request, writes>>
  BY DEF ReconciliationInv, CreateReconciliationSession
<1>2. PICK start \in 0..Len(checkpoints) :
         start = latestActiveReconciliationCheckpoint /\ (start # NoRow => start \in DOMAIN checkpoints)
  BY <1>1, LatestIsRow, LatestIsActive DEF Active
<1>3. PICK sb \in Balances \cup {0} :
         sb = IF start = NoRow THEN 0 ELSE checkpoints[start].balance
  <2>1. start # NoRow => checkpoints[start].balance \in Balances
    <3>1. start # NoRow => checkpoints[start] \in Checkpoint
      BY <1>1, <1>2, RowsAreLinked DEF Linked
    <3> QED
      BY <3>1 DEF Checkpoint
  <2> QED
    BY <2>1
<1>4. PICK new : new = [date |-> d, balance |-> b, start |-> start, startBalance |-> sb,
                        selected |-> {}, difference |-> 0]
  OBVIOUS
<1>5. new \in OpenSession
  BY <1>4 DEF OpenSession
<1>6. sessions' = [sessions EXCEPT ![s] = new]
  BY <1>2, <1>3, <1>4 DEF CreateReconciliationSession
<1>7. sessions'[s] = new
  BY <1>1, <1>6 DEF TypeOK
<1>8. SessionOK(s)'
  <2>1. /\ new.date = d /\ new.start = start /\ new.startBalance = sb /\ new.selected = {}
        /\ checkpoints' = checkpoints
    BY <1>1, <1>4
  <2> QED
    BY <1>3, <1>7, <2>1 DEF SessionOK, NoRow
<1> QED
  BY <1>1, <1>5, <1>6, <1>8, SlotKeeps

(* ReplaceReconciliationSessionSelection: the difference is the one of the *)
(* selection as it reads at that moment.                                   *)
LEMMA SelectingKeeps ==
    ASSUME ReconciliationInv, NEW s \in Open, NEW postings \in SUBSET reconciliationCandidates(s),
           ReplaceReconciliationSessionSelection(s, postings)
    PROVE  ReconciliationInv'
<1>1. /\ TypeOK /\ LedgerOK /\ SessionOK(s) /\ s \in Sessions /\ sessions[s] \in OpenSession
      /\ UNCHANGED <<txns, places, checkpoints, request, writes>>
      /\ sessions \in [Sessions -> {NoSession} \cup OpenSession]
  BY DEF ReconciliationInv, SessionsInv, TypeOK, ReplaceReconciliationSessionSelection, Open
<1>2. PICK session \in OpenSession : session = sessions[s]
  BY <1>1
<1>3. PICK lines \in SUBSET Txns : lines = {p[1] : p \in postings}
  <2>1. \A p \in reconciliationCandidates(s) : p[1] \in Txns
    BY DEF reconciliationCandidates
  <2> QED
    BY <2>1
<1>4. /\ Total(txns, lines) = SumOf(Counts(txns), lines) /\ IsFiniteSet(lines)
      /\ \A t \in Txns : Counts(txns)[t] \in Int
  BY <1>1, RowsAreRows, TotalIsSum
<1>5. PICK difference \in Int :
         /\ difference = reconciliationTotals(s, postings)
         /\ difference = session.balance - (session.startBalance + SumOf(Counts(txns), lines))
  <2>1. SumOf(Counts(txns), lines) \in Int
    BY <1>4, SumIsInt
  <2>2. session.balance \in Int /\ session.startBalance \in Int
    BY Numbers DEF OpenSession
  <2>3. reconciliationTotals(s, postings) = session.balance - (session.startBalance + SumOf(Counts(txns), lines))
    BY <1>2, <1>3, <1>4 DEF reconciliationTotals
  <2> QED
    BY <2>1, <2>2, <2>3
<1>6. \A p \in postings : /\ p \in Txns \X Versions /\ txns[p[1]].status = "posted"
                          /\ p[2] = txns[p[1]].version /\ txns[p[1]].version \in Nat
                          /\ txns[p[1]].amount = Counts(txns)[p[1]]
  <2>1. \A t \in Txns : txns[t].version \in Versions /\ txns[t].version \in Nat
    BY <1>1, RealRow, Numbers DEF TxnRow
  <2> QED
    BY <2>1 DEF reconciliationCandidates, InLedger, Counts
<1>7. PICK new : new = [session EXCEPT !.selected = postings, !.difference = difference]
  OBVIOUS
<1>8. /\ new \in OpenSession /\ new.selected = postings /\ new.difference = difference
      /\ new.date = session.date /\ new.balance = session.balance /\ new.start = session.start
      /\ new.startBalance = session.startBalance
  BY <1>6, <1>7 DEF OpenSession
<1>9. sessions' = [sessions EXCEPT ![s] = new]
  BY <1>1, <1>2, <1>5, <1>7 DEF ReplaceReconciliationSessionSelection
<1>10. sessions'[s] = new /\ SelectedLines(s)' = lines
  BY <1>1, <1>3, <1>8, <1>9 DEF SelectedLines
<1>11. SessionOK(s)'
  <2>1. \E a \in [Txns -> Int] :
                 /\ \A p \in postings : txns[p[1]].version = p[2] => txns[p[1]].amount = a[p[1]]
                 /\ difference = session.balance - (session.startBalance + SumOf(a, lines))
    <3>1. Counts(txns) \in [Txns -> Int]
      BY <1>4 DEF Counts
    <3> QED
      BY <1>5, <1>6, <3>1
  <2>2. \A p \in postings : txns[p[1]].status \in InForce /\ p[2] <= txns[p[1]].version
    BY <1>6 DEF InForce
  <2>3. txns' = txns /\ checkpoints' = checkpoints
    BY <1>1
  <2>4. /\ session.start = NoRow => session.startBalance = 0
        /\ session.start # NoRow => session.startBalance = checkpoints[session.start].balance
    BY <1>1, <1>2 DEF SessionOK
  <2> QED
    BY <1>8, <1>10, <2>1, <2>2, <2>3, <2>4 DEF SessionOK
<1> QED
  BY <1>1, <1>8, <1>9, <1>11, SlotKeeps

(* VoidReconciliationSession frees the slot. *)
LEMMA VoidingSessionKeeps ==
    ASSUME ReconciliationInv, NEW s \in Sessions, VoidReconciliationSession(s)
    PROVE  ReconciliationInv'
<1>1. /\ UNCHANGED <<txns, places, checkpoints, request, writes>>
      /\ sessions' = [sessions EXCEPT ![s] = NoSession]
  BY DEF VoidReconciliationSession
<1> QED
  BY <1>1, SlotKeeps

(***************************************************************************)
(* Finishing a session                                                     *)
(***************************************************************************)
(* What a session that may finish selects.                                 *)
LEMMA FinishingLines ==
    ASSUME ReconciliationInv, NEW s \in Open, FinishReconciliationSession(s)
    PROVE  \E lines \in SUBSET Txns, seq \in 0..MaxSeq :
              /\ lines = SelectedLines(s) /\ seq = StatementSequence(lines, sessions[s].date)
              /\ \A t \in lines : /\ InLedger(txns[t]) /\ t \notin Covered
                                  /\ Inside(txns[t], sessions[s].date, seq)
              /\ seq # 0 => \E t \in lines : txns[t].date = sessions[s].date /\ txns[t].seq = seq
              /\ sessions[s].balance = sessions[s].startBalance + SumOf(Counts(txns), lines)
<1>1. TypeOK /\ LedgerOK /\ SessionOK(s) /\ sessions[s] \in OpenSession
  BY DEF ReconciliationInv, SessionsInv, TypeOK, Open
<1>2. PICK session \in OpenSession : session = sessions[s]
  BY <1>1
<1>3. /\ session.difference = 0 /\ session.selected # {}
      /\ session.selected \subseteq reconciliationCandidates(s)
  BY <1>2 DEF FinishReconciliationSession, SelectionStands
<1>4. \A p \in session.selected : /\ p[1] \in Txns /\ p[2] = txns[p[1]].version
                                  /\ InLedger(txns[p[1]]) /\ p[1] \notin Covered
                                  /\ txns[p[1]].date <= session.date
  BY <1>2, <1>3 DEF reconciliationCandidates
<1>5. PICK lines \in SUBSET Txns : lines = SelectedLines(s)
  BY <1>2, <1>4 DEF SelectedLines
<1>6. \A t \in lines : /\ InLedger(txns[t]) /\ t \notin Covered /\ txns[t].date <= session.date
                       /\ txns[t].date \in Nat /\ txns[t].seq \in 0..MaxSeq
  <2>1. \A t \in lines : InLedger(txns[t]) /\ t \notin Covered /\ txns[t].date <= session.date
    BY <1>2, <1>4, <1>5 DEF SelectedLines
  <2>2. ASSUME NEW t \in lines PROVE txns[t].date \in Nat /\ txns[t].seq \in 0..MaxSeq
    <3>1. txns[t].version # 0 /\ txns[t] \in TxnRow
      BY <1>1, <2>1, RealRow DEF InLedger
    <3>2. txns[t].date \in Dates /\ txns[t].seq \in 0..MaxSeq
      BY <1>1, <3>1, RealRow DEF TxnRow
    <3> QED
      BY <3>2, Numbers
  <2> QED
    BY <2>1, <2>2
<1> DEFINE S == {0} \cup {txns[t].seq : t \in {t \in lines : txns[t].date = session.date}}
<1>7. S \in SUBSET (0..MaxSeq) /\ S # {}
  BY <1>6, Numbers
<1>8. PICK seq \in S : seq = Max(S) /\ \A y \in S : y <= seq
  <2> HIDE DEF S
  <2> QED
    BY <1>7, GreatestOf, Numbers
<1>9. seq \in 0..MaxSeq /\ seq = StatementSequence(lines, session.date)
  BY <1>7, <1>8 DEF StatementSequence
<1>10. ASSUME NEW t \in lines PROVE Inside(txns[t], session.date, seq)
  <2>1. CASE txns[t].date = session.date
    <3>1. txns[t].seq \in S
      BY <2>1
    <3> QED
      BY <1>8, <2>1, <3>1 DEF Inside
  <2>2. CASE txns[t].date # session.date
    <3>1. session.date \in Nat
      BY Numbers DEF OpenSession
    <3> QED
      BY <1>6, <2>2, <3>1 DEF Inside
  <2> QED
    BY <2>1, <2>2
<1>11. seq # 0 => \E t \in lines : txns[t].date = session.date /\ txns[t].seq = seq
  BY <1>8
<1>12. session.balance = session.startBalance + SumOf(Counts(txns), lines)
  <2>1. PICK a \in [Txns -> Int] :
           /\ \A p \in session.selected : txns[p[1]].version = p[2] => txns[p[1]].amount = a[p[1]]
           /\ session.difference = session.balance - (session.startBalance + SumOf(a, lines))
    BY <1>1, <1>2, <1>3, <1>5 DEF SessionOK
  <2>2. \A t \in lines : a[t] \in Int /\ a[t] = Counts(txns)[t]
    BY <1>2, <1>4, <1>5, <2>1 DEF SelectedLines, Counts
  <2>3. IsFiniteSet(lines)
    BY FS_Subset, ReconciliationAssumption
  <2>4. SumOf(a, lines) = SumOf(Counts(txns), lines) /\ SumOf(a, lines) \in Int
    BY <2>2, <2>3, SumSame, SumIsInt
  <2>5. session.balance \in Int /\ session.startBalance \in Int
    BY Numbers DEF OpenSession
  <2> QED
    BY <1>3, <2>1, <2>4, <2>5
<1> QED
  BY <1>2, <1>5, <1>6, <1>9, <1>10, <1>11, <1>12

(* FinishReconciliationSession: the new checkpoint is sound, although its  *)
(* session was started and filled earlier.                                 *)
LEMMA FinishingKeeps ==
    ASSUME ReconciliationInv, NEW s \in Open, FinishReconciliationSession(s)
    PROVE  ReconciliationInv'
<1>0. PICK n \in Nat : n = Len(checkpoints)
  BY RowsAreLinked DEF ReconciliationInv, TypeOK, Linked
<1>1. /\ TypeOK /\ LedgerOK /\ StatementsInv /\ SessionOK(s) /\ s \in Sessions
      /\ sessions \in [Sessions -> {NoSession} \cup OpenSession] /\ sessions[s] \in OpenSession
      /\ UNCHANGED <<places, request>> /\ NewWrite /\ sessions' = [sessions EXCEPT ![s] = NoSession]
  BY DEF ReconciliationInv, SessionsInv, TypeOK, Open, FinishReconciliationSession
<1>2. PICK session \in OpenSession : session = sessions[s]
  BY <1>1
<1>3. PICK lines \in SUBSET Txns, seq \in 0..MaxSeq :
              /\ lines = SelectedLines(s) /\ seq = StatementSequence(lines, session.date)
              /\ \A t \in lines : /\ InLedger(txns[t]) /\ t \notin Covered
                                  /\ Inside(txns[t], session.date, seq)
              /\ seq # 0 => \E t \in lines : txns[t].date = session.date /\ txns[t].seq = seq
              /\ session.balance = session.startBalance + SumOf(Counts(txns), lines)
  BY <1>2, FinishingLines
<1>4. PICK start \in 0..n : /\ start = session.start /\ start = latestActiveReconciliationCheckpoint
                            /\ start = NoRow <=> Active = {}
                            /\ start # NoRow => start \in Active /\ start \in DOMAIN checkpoints
  <2>1. session.start = latestActiveReconciliationCheckpoint
    BY <1>2 DEF FinishReconciliationSession
  <2> QED
    BY <1>0, <1>1, <2>1, LatestIsRow, LatestIsActive DEF Active
<1>5. PICK stood \in Int : stood = PeriodBalance(txns, session.date, seq)
  BY <1>1, RowsAreRows, BalanceIsSum
<1>6. PICK cp : cp = [status |-> "active", previous |-> start, date |-> session.date,
                      seq |-> seq, balance |-> session.balance, lines |-> lines, stood |-> stood]
  OBVIOUS
<1>7. /\ txns' = WithStatus(lines, TRUE) /\ checkpoints' = Append(checkpoints, cp)
  BY <1>2, <1>3, <1>4, <1>5, <1>6 DEF FinishReconciliationSession
<1>8. /\ cp.status = "active" /\ cp.previous = start /\ cp.date = session.date /\ cp.seq = seq
      /\ cp.balance = session.balance /\ cp.lines = lines /\ cp.stood = stood
  BY <1>6
<1>9. /\ n \in Nat /\ DOMAIN checkpoints = 1..n /\ checkpoints \in Seq(Checkpoint)
      /\ \A c \in 1..n : checkpoints[c] \in Checkpoint
  BY <1>0, <1>1, RowsAreLinked DEF Linked
<1>10. /\ Len(checkpoints') = n + 1 /\ DOMAIN checkpoints' = 1..(n + 1)
       /\ \A c \in 1..n : checkpoints'[c] = checkpoints[c]
       /\ checkpoints'[n + 1] = cp
  BY <1>0, <1>7, <1>9
<1>11. /\ DOMAIN checkpoints \subseteq DOMAIN checkpoints' /\ n <= Len(checkpoints')
       /\ \A c \in DOMAIN checkpoints : SameFacts(c)
       /\ Active' = Active \cup {n + 1} /\ n + 1 \in DOMAIN checkpoints'
  <2>1. \A c \in 1..n : c \in 1..(n + 1)
    BY <1>9
  <2>2. n + 1 \in 1..(n + 1) /\ n <= n + 1
    BY <1>9
  <2>3. \A c \in 1..(n + 1) : c \in 1..n \/ c = n + 1
    BY <1>9
  <2> QED
    BY <1>0, <1>8, <1>9, <1>10, <2>1, <2>2, <2>3 DEF SameFacts, Active
<1>12. /\ LedgerOK' /\ \A t \in Txns : RowStep(t)
       /\ \A t \in Txns :
                 /\ InLedger(txns'[t]) <=> InLedger(txns[t])
                 /\ txns'[t].date = txns[t].date /\ txns'[t].seq = txns[t].seq
                 /\ txns'[t].amount = txns[t].amount
                 /\ t \in lines => txns'[t].reconciled = TRUE
                 /\ t \notin lines => txns'[t] = txns[t]
  BY <1>1, <1>3, <1>7, WithStatusRows
<1>13. TypeOK'
  <2>1. checkpoints' \in Seq(Checkpoint')
    <3>1. \A c \in 1..n : checkpoints[c] \in Checkpoint'
      <4>1. \A p \in 0..n : p \in 0..(n + 1)
        BY <1>9
      <4> QED
        BY <1>0, <1>9, <1>10, <4>1 DEF Checkpoint
    <3>2. cp \in Checkpoint'
      <4>1. start \in 0..(n + 1)
        BY <1>9
      <4> QED
        BY <1>0, <1>6, <1>10, <4>1 DEF Checkpoint, OpenSession
    <3>3. \A c \in 1..(n + 1) : checkpoints'[c] \in Checkpoint'
      <4>1. \A c \in 1..(n + 1) : c \in 1..n \/ c = n + 1
        BY <1>9
      <4> QED
        BY <1>10, <3>1, <3>2, <4>1
    <3>4. checkpoints' \in Seq(Checkpoint \cup {cp})
      BY <1>7, <1>9
    <3> QED
      BY <1>10, <3>3, <3>4, <1>9
  <2>2. sessions' \in [Sessions -> {NoSession} \cup OpenSession']
    <3>1. ASSUME NEW x \in OpenSession PROVE x \in OpenSession'
      <4>1. \A p \in 0..n : p \in 0..(n + 1)
        BY <1>9
      <4> QED
        BY <1>0, <1>10, <4>1 DEF OpenSession
    <3>2. \A r \in Sessions : sessions'[r] \in {NoSession} \cup OpenSession'
      BY <1>1, <3>1
    <3> QED
      BY <1>1, <3>2
  <2>3. \A c \in DOMAIN checkpoints' : checkpoints'[c].previous < c
    <3>1. \A c \in 1..n : checkpoints[c].previous < c
      BY <1>1, <1>9 DEF TypeOK
    <3>2. start < n + 1
      BY <1>9
    <3>3. \A c \in 1..(n + 1) : c \in 1..n \/ c = n + 1
      BY <1>9
    <3> QED
      BY <1>8, <1>10, <3>1, <3>2, <3>3
  <2>4. request' \in {Idle} \cup Request'
    BY <1>1, <1>11 DEF TypeOK, Request
  <2> QED
    BY <1>12, <2>1, <2>2, <2>3, <2>4 DEF TypeOK
<1>14. SequencesWereGiven'
  <2>1. ASSUME NEW c \in 1..n
        PROVE  \/ checkpoints'[c].seq = 0
               \/ \E t \in Txns : /\ txns'[t].status \in InForce
                                  /\ <<checkpoints'[c].date, checkpoints'[c].seq>> \in places'[t]
    <3>1. \/ checkpoints[c].seq = 0
          \/ \E t \in Txns : /\ txns[t].status \in InForce
                             /\ <<checkpoints[c].date, checkpoints[c].seq>> \in places[t]
      BY <1>9 DEF ReconciliationInv, SequencesWereGiven
    <3> QED
      BY <1>1, <1>10, <1>12, <3>1, VersionsGrow
  <2>2. \/ cp.seq = 0
        \/ \E t \in Txns : txns'[t].status \in InForce /\ <<cp.date, cp.seq>> \in places'[t]
    <3>1. SUFFICES ASSUME seq # 0
                   PROVE  \E t \in Txns : txns'[t].status \in InForce /\ <<session.date, seq>> \in places'[t]
      BY <1>8
    <3>2. PICK t \in lines : txns[t].date = session.date /\ txns[t].seq = seq
      BY <1>3, <3>1
    <3>3. InLedger(txns'[t]) /\ txns'[t].date = session.date /\ txns'[t].seq = seq
      BY <1>3, <1>12, <3>2
    <3>4. txns'[t].status = "posted"
      BY <3>3 DEF InLedger
    <3> QED
      BY <1>12, <3>3, <3>4 DEF LedgerOK, RowOK, InForce
  <2>3. \A c \in 1..(n + 1) : c \in 1..n \/ c = n + 1
    BY <1>9
  <2> QED
    BY <1>10, <2>1, <2>2, <2>3 DEF SequencesWereGiven
<1>15. SessionsInv'
  <2>1. ASSUME NEW r \in Sessions, sessions'[r] # NoSession PROVE SessionOK(r)'
    <3>1. sessions'[r] = sessions[r] /\ SessionOK(r)
      BY <1>1, <2>1 DEF ReconciliationInv, SessionsInv
    <3> QED
      BY <1>1, <1>11, <1>12, <1>13, <2>1, <3>1, SessionStands
  <2> QED
    BY <2>1 DEF SessionsInv
<1>16. RequestInv'
  BY <1>1, <1>12, <1>13, RequestStands DEF ReconciliationInv
<1>17. ASSUME NEW c \in DOMAIN checkpoints PROVE StatementOK(c)'
  <2>1. \A t \in Txns : KeptFor(t, c)
    BY <1>3, <1>12, SameIsKept
  <2> QED
    BY <1>0, <1>1, <1>11, <1>13, <2>1, StatementStands
<1>18. /\ txns \in Rows /\ txns' \in Rows /\ Counts(txns') = Counts(txns)
       /\ InPeriod(txns', session.date, seq) = InPeriod(txns, session.date, seq)
  <2>1. txns \in Rows /\ txns' \in Rows
    BY <1>1, <1>12, RowsAreRows, RowsAreRowsNext
  <2> QED
    BY <1>12, <2>1 DEF Counts, InPeriod, Inside
<1>19. stood = PeriodBalance(txns', session.date, seq)
  BY <1>5, <1>18, BalanceIsSum
<1>20. /\ checkpoints'[n + 1].previous = start /\ checkpoints'[n + 1].date = session.date
       /\ checkpoints'[n + 1].seq = seq /\ checkpoints'[n + 1].balance = session.balance
       /\ checkpoints'[n + 1].stood = stood
  BY <1>8, <1>10
<1>21. /\ start # NoRow => /\ OwnOK(start) /\ CarriedOK(start) /\ start \in DOMAIN checkpoints
                           /\ Chain[start] \subseteq DOMAIN checkpoints /\ LinesOf(start) \subseteq Txns
                           /\ session.startBalance = checkpoints[start].balance
                           /\ checkpoints[start].date \in Nat /\ checkpoints[start].seq \in Nat
       /\ start = NoRow => session.startBalance = 0
       /\ session.date \in Nat /\ seq \in Nat
  <2>1. start # NoRow => /\ StatementOK(start) /\ Chain[start] \subseteq DOMAIN checkpoints
                         /\ LinesOf(start) \subseteq Txns
                         /\ checkpoints[start].date \in Nat /\ checkpoints[start].seq \in Nat
    BY <1>1, <1>4, ChainFacts, CheckpointNumbers DEF StatementsInv
  <2>2. session.date \in Nat /\ seq \in Nat
    BY Numbers DEF OpenSession
  <2> QED
    BY <1>1, <1>2, <1>4, <2>1, <2>2 DEF SessionOK, StatementOK
<1>22. OwnOK(n + 1)'
  <2>1. StartBalance(n + 1)' = session.startBalance
    <3>1. start # NoRow => checkpoints'[start] = checkpoints[start]
      BY <1>4, <1>9, <1>10
    <3> QED
      BY <1>20, <1>21, <3>1 DEF StartBalance
  <2>2. checkpoints'[n + 1].lines = lines
    BY <1>8, <1>10
  <2>3. Total(txns', lines) = SumOf(Counts(txns), lines)
    BY <1>18, TotalIsSum
  <2>4. \A t \in lines : t \in InPeriod(txns', session.date, seq) /\ txns'[t].reconciled
    BY <1>3, <1>12 DEF InPeriod, Inside
  <2> QED
    BY <1>3, <1>20, <2>1, <2>2, <2>3, <2>4 DEF OwnOK
<1> DEFINE older == IF start = NoRow THEN {} ELSE Chain[start]
           covered == IF start = NoRow THEN {} ELSE LinesOf(start)
<1>23. Chain'[n + 1] = {n + 1} \cup older /\ \A c \in 1..n : Chain'[c] = Chain[c]
  <2>1. ChainsOf(Chain', checkpoints', n + 1)
    BY <1>10, <1>13, ChainIsNext
  <2>2. n + 1 \in 1..(n + 1)
    BY <1>9
  <2>3. /\ cp.previous = NoRow => Chain'[n + 1] = {n + 1}
        /\ cp.previous # NoRow => Chain'[n + 1] = {n + 1} \cup Chain'[cp.previous]
    BY <1>10, <2>1, <2>2, ChainStep
  <2>4. \A c \in 1..n : Chain'[c] = Chain[c]
    BY <1>0, <1>1, <1>9, <1>11, <1>13, ChainsStand
  <2>5. start # NoRow => start \in 1..n
    BY <1>4, <1>9
  <2> QED
    BY <1>8, <2>3, <2>4, <2>5
<1>24. /\ older \subseteq DOMAIN checkpoints /\ covered \subseteq Covered /\ covered \subseteq Txns
       /\ \A k \in older : checkpoints'[k].lines = checkpoints[k].lines /\ checkpoints[k].lines \subseteq covered
       /\ lines \cap Covered = {} /\ checkpoints'[n + 1].lines = lines
  <2>1. older \subseteq DOMAIN checkpoints /\ covered \subseteq Covered /\ covered \subseteq Txns
    BY <1>4, <1>21 DEF Covered, coveringCheckpoints, LinesOf
  <2>2. \A k \in older : checkpoints'[k].lines = checkpoints[k].lines
    BY <1>9, <1>10, <2>1
  <2>3. \A k \in older : checkpoints[k].lines \subseteq covered
    BY DEF LinesOf
  <2>4. lines \cap Covered = {} /\ checkpoints'[n + 1].lines = lines
    BY <1>3, <1>8, <1>10
  <2> QED
    BY <2>1, <2>2, <2>3, <2>4
<1>25. CountedOnce'
  <2> DEFINE Counting == UNION {Chain[c] : c \in Active}
  <2>1. UNION {Chain'[c] : c \in Active'} \subseteq {n + 1} \cup Counting
    <3>1. \A c \in Active : c \in 1..n
      BY <1>9 DEF Active
    <3>2. older \subseteq Counting
      BY <1>4
    <3> HIDE DEF older
    <3> QED
      BY <1>11, <1>23, <3>1, <3>2
  <2>2. ASSUME NEW k \in Counting
        PROVE  checkpoints'[k].lines = checkpoints[k].lines /\ checkpoints[k].lines \subseteq Covered
    <3>1. k \in 1..n
      BY <1>1, <1>9, ChainFacts DEF Active
    <3> QED
      BY <1>10, <3>1 DEF Covered, coveringCheckpoints
  <2>3. \A j, k \in Counting : j # k => checkpoints[j].lines \cap checkpoints[k].lines = {}
    BY <1>1 DEF StatementsInv, CountedOnce
  <2> HIDE DEF Counting
  <2>4. ASSUME NEW j \in {n + 1} \cup Counting, NEW k \in {n + 1} \cup Counting, j # k
        PROVE  checkpoints'[j].lines \cap checkpoints'[k].lines = {}
    <3>1. CASE j \in Counting /\ k \in Counting
      BY <2>2, <2>3, <2>4, <3>1
    <3>2. CASE j = n + 1 /\ k \in Counting
      BY <1>24, <2>2, <3>2
    <3>3. CASE k = n + 1 /\ j \in Counting
      BY <1>24, <2>2, <3>3
    <3> QED
      BY <2>4, <3>1, <3>2, <3>3
  <2> QED
    BY <2>1, <2>4 DEF CountedOnce
<1>26. LinesOf(n + 1)' = lines \cup covered
  <2>1. LinesOf(n + 1)' = UNION {checkpoints'[k].lines : k \in {n + 1} \cup older}
    BY <1>23 DEF LinesOf
  <2>2. covered = UNION {checkpoints[k].lines : k \in older}
    BY DEF LinesOf
  <2> HIDE DEF covered, older
  <2>3. LinesOf(n + 1)' \subseteq lines \cup covered
    BY <1>24, <2>1, <2>2
  <2>4. lines \cup covered \subseteq LinesOf(n + 1)'
    BY <1>24, <2>1, <2>2
  <2> QED
    BY <2>3, <2>4
<1>27. ASSUME InOrder(Chain[n + 1])'
       PROVE  start # NoRow => /\ InOrder(Chain[start])
                               /\ Inside(checkpoints[start], session.date, seq)
  <2> SUFFICES ASSUME start # NoRow
               PROVE  InOrder(Chain[start]) /\ Inside(checkpoints[start], session.date, seq)
    OBVIOUS
  <2>1. Chain'[start] \subseteq Chain'[n + 1] /\ n + 1 \in Chain'[n + 1] /\ start \in DOMAIN checkpoints
    BY <1>4, <1>9, <1>23
  <2>2. InOrder(Chain[start])'
    BY <1>27, <2>1 DEF InOrder
  <2>3. InOrder(Chain[start])
    BY <1>0, <1>1, <1>11, <1>13, <2>1, <2>2, OrderStands
  <2>4. Inside(checkpoints'[start], session.date, seq)
    BY <1>20, <1>27, <2>1 DEF InOrder
  <2>5. checkpoints'[start] = checkpoints[start]
    BY <1>9, <1>10, <2>1
  <2> QED
    BY <2>3, <2>4, <2>5
<1>28. ASSUME InOrder(Chain[n + 1])', NEW t \in lines \cup covered
       PROVE  t \in InPeriod(txns', session.date, seq) /\ txns'[t].reconciled
  <2>1. CASE t \in lines
    BY <1>3, <1>12, <2>1 DEF InPeriod, Inside
  <2>2. CASE t \in covered
    <3>1. /\ t \in InPeriod(txns, checkpoints[start].date, checkpoints[start].seq) /\ txns[t].reconciled
          /\ start # NoRow /\ t \in Txns
      BY <1>21, <1>24, <1>27, <1>28, <2>2 DEF CarriedOK
    <3>2. txns'[t] = txns[t]
      BY <1>12, <1>24, <2>2, <3>1
    <3>3. Inside(checkpoints[start], session.date, seq)
      BY <1>27, <1>28, <3>1
    <3>4. txns[t].date \in Nat /\ txns[t].seq \in Nat
      <4>1. txns[t].version # 0
        BY <1>1, <3>1, RealRow DEF InPeriod, InLedger
      <4>2. txns[t].date \in Dates /\ txns[t].seq \in 1..MaxSeq
        BY <1>1, <3>1, <4>1, RealRow
      <4> QED
        BY <4>2, Numbers
    <3> QED
      BY <1>21, <3>1, <3>2, <3>3, <3>4 DEF InPeriod, Inside
  <2> QED
    BY <1>28, <2>1, <2>2
<1>29. ASSUME InOrder(Chain[n + 1])' PROVE session.balance = Total(txns', lines \cup covered)
  <2>1. PICK a : a = Counts(txns)
    OBVIOUS
  <2>2. PICK S \in SUBSET Txns : S = covered
    BY <1>24
  <2>3. /\ Total(txns', lines \cup S) = SumOf(a, lines \cup S)
        /\ \A t \in Txns : a[t] \in Int
        /\ IsFiniteSet(lines) /\ IsFiniteSet(S)
    BY <1>18, <2>1, TotalIsSum
  <2>4. SumOf(a, lines \cup S) = SumOf(a, lines) + SumOf(a, S)
    <3>1. lines \cap S = {}
      BY <1>24, <2>2
    <3> QED
      BY <2>3, <3>1, SumOfUnion
  <2>5. session.startBalance = SumOf(a, S)
    <3>1. CASE start = NoRow
      BY <1>21, <2>2, <3>1, SumOfNone
    <3>2. CASE start # NoRow
      <4>1. checkpoints[start].balance = Total(txns, S)
        BY <1>21, <1>27, <1>29, <2>2, <3>2 DEF CarriedOK
      <4>2. Total(txns, S) = SumOf(a, S)
        BY <1>18, <2>1, TotalIsSum
      <4> QED
        BY <1>21, <3>2, <4>1, <4>2
    <3> QED
      BY <3>1, <3>2
  <2>6. SumOf(a, lines) \in Int /\ SumOf(a, S) \in Int
    BY <2>3, SumIsInt
  <2> QED
    BY <1>3, <2>1, <2>2, <2>3, <2>4, <2>5, <2>6
<1>30. ASSUME InOrder(DOMAIN checkpoints)', NEW a \in Active' PROVE a \in Chain'[n + 1]
  <2>1. CASE a = n + 1
    BY <1>23, <2>1
  <2>2. CASE a \in Active
    <3>1. InOrder(DOMAIN checkpoints)
      BY <1>0, <1>1, <1>11, <1>13, <1>30, OrderStands
    <3>2. a \in Chain[start] /\ start # NoRow
      BY <1>1, <1>4, <2>2, <3>1, LatestCarriesAll
    <3> QED
      BY <1>23, <3>2
  <2> QED
    BY <1>11, <1>30, <2>1, <2>2
<1> HIDE DEF older, covered
<1>31. CarriedOK(n + 1)'
  BY <1>20, <1>26, <1>28, <1>29, <1>30 DEF CarriedOK
<1>32. StatementOK(n + 1)'
  BY <1>19, <1>20, <1>22, <1>31 DEF StatementOK
<1>33. StatementsInv'
  <2>1. \A c \in 1..(n + 1) : c \in 1..n \/ c = n + 1
    BY <1>9
  <2> QED
    BY <1>9, <1>10, <1>17, <1>25, <1>32, <2>1 DEF StatementsInv
<1> QED
  BY <1>13, <1>14, <1>15, <1>16, <1>33 DEF ReconciliationInv

(***************************************************************************)
(* The specification                                                       *)
(***************************************************************************)
(* An empty account satisfies the inductive invariant. *)
LEMMA Begins == Init => ReconciliationInv
<1> SUFFICES ASSUME Init PROVE ReconciliationInv
  OBVIOUS
<1>1. checkpoints = << >> /\ DOMAIN checkpoints = {} /\ checkpoints \in Seq(Checkpoint)
  BY DEF Init
<1>2. LedgerOK
  <2>1. Absent \in TxnRow /\ Absent.version = 0 /\ Absent.status = "none" /\ Absent.deleted = FALSE
    BY ReconciliationAssumption DEF Absent, TxnRow, Versions
  <2>2. Absent = [Absent EXCEPT !.status = Absent.status]
    BY DEF Absent
  <2>3. writes \in 0..MaxWrites
    BY ReconciliationAssumption DEF Init
  <2>4. \A t \in Txns : RowOK(t)
    <3>1. ASSUME NEW t \in Txns PROVE RowOK(t)
      <4>1. txns[t] = Absent /\ writes = 0
        BY DEF Init
      <4> QED
        BY <2>1, <2>2, <4>1 DEF RowOK
    <3> QED
      BY <3>1
  <2> QED
    BY <2>1, <2>3, <2>4 DEF Init, LedgerOK
<1>3. TypeOK
  BY <1>1, <1>2 DEF TypeOK, Init
<1>4. SequencesWereGiven /\ StatementsInv
  BY <1>1 DEF SequencesWereGiven, StatementsInv, CountedOnce, Active
<1>5. SessionsInv /\ RequestInv
  BY DEF Init, SessionsInv, RequestInv
<1> QED
  BY <1>3, <1>4, <1>5 DEF ReconciliationInv

(* The inductive invariant is kept by every step. *)
LEMMA StepKeeps ==
    ASSUME ReconciliationInv, [Next]_vars
    PROVE  ReconciliationInv'
<1>1. CASE \/ \E t \in Txns, status \in {"draft", "posted"}, d \in PostingDates, a \in NewAmounts :
                 PrepareCreate(t, status, d, a)
           \/ \E t \in Txns, d \in PostingDates, a \in Amounts : PrepareUpdate(t, d, a)
           \/ \E t \in Txns : PreparePost(t)
           \/ \E t \in Txns, op \in Lifecycle : PrepareLifecycle(t, op)
  BY <1>1, PreparingKeeps
<1>2. CASE WriteCommits
  BY <1>2, CommitHasEffect, EffectKeeps
<1>3. CASE WriteRefused \/ UNCHANGED vars
  BY <1>3, RefusalHasEffect, EffectKeeps
<1>4. ASSUME NEW t \in Txns, ApproveTransaction(t) PROVE ReconciliationInv'
  BY <1>4, ApproveHasEffect, EffectKeeps
<1>5. ASSUME NEW t \in Txns, DeleteDraftTransaction(t) PROVE ReconciliationInv'
  BY <1>5, DeleteDraftHasEffect, EffectKeeps
<1>6. ASSUME NEW t \in Txns, NEW u \in Txns, MovePosting(t, u) PROVE ReconciliationInv'
  BY <1>6, MoveHasEffect, EffectKeeps
<1>7. ASSUME NEW s \in Sessions, NEW d \in Dates, NEW b \in Balances, CreateReconciliationSession(s, d, b)
      PROVE  ReconciliationInv'
  BY <1>7, StartingKeeps
<1>8. ASSUME NEW s \in Open, NEW postings \in SUBSET reconciliationCandidates(s),
             ReplaceReconciliationSessionSelection(s, postings)
      PROVE  ReconciliationInv'
  BY <1>8, SelectingKeeps
<1>9. ASSUME NEW s \in Open, FinishReconciliationSession(s) PROVE ReconciliationInv'
  BY <1>9, FinishingKeeps
<1>10. ASSUME NEW s \in Sessions, VoidReconciliationSession(s) PROVE ReconciliationInv'
  BY <1>10, VoidingSessionKeeps
<1>11. ASSUME NEW c \in Active, VoidReconciliationCheckpoint(c) PROVE ReconciliationInv'
  BY <1>11, VoidingCheckpointHasEffect, EffectKeeps
<1>12. ASSUME NEW t \in Txns, ChangePostingReconciliationStatus(t) PROVE ReconciliationInv'
  BY <1>12, HandChangeHasEffect, EffectKeeps
<1> QED
  BY <1>1, <1>2, <1>3, <1>4, <1>5, <1>6, <1>7, <1>8, <1>9, <1>10, <1>11, <1>12 DEF Next

(* What the invariant says of the checkpoints. *)
LEMMA SoundNow ==
    ASSUME ReconciliationInv
    PROVE  CheckpointsAreSound
<1>1. TypeOK /\ \A c \in Active : OwnOK(c)
  BY DEF ReconciliationInv, StatementsInv, StatementOK, Active
<1>2. CheckpointAddsUp
  BY <1>1 DEF CheckpointAddsUp, OwnOK
<1>3. LinkedIsReconciled
  BY <1>1 DEF LinkedIsReconciled, OwnOK, InPeriod
<1> QED
  BY <1>1, <1>2, <1>3 DEF CheckpointsAreSound

(* What the invariant says of their periods. *)
LEMMA StandsNow ==
    ASSUME ReconciliationInv
    PROVE  PeriodStands
  BY DEF ReconciliationInv, StatementsInv, StatementOK, Active, PeriodStands

(* What the invariant says of the lines they count. *)
LEMMA CountedNow ==
    ASSUME ReconciliationInv
    PROVE  CountedExactlyOnce
<1>1. TypeOK /\ StatementsInv /\ CountedOnce /\ \A c \in Active : c \in DOMAIN checkpoints /\ CarriedOK(c)
  BY DEF ReconciliationInv, StatementsInv, StatementOK, Active
<1>2. ChainAddsUp
  BY <1>1 DEF ChainAddsUp, CarriedOK, LinesOf, InPeriod
<1>3. ASSUME InOrder(DOMAIN checkpoints), Active # {}
      PROVE  coveringCheckpoints = Chain[latestActiveReconciliationCheckpoint]
  <2>1. PICK latest \in Active :
           /\ latest = latestActiveReconciliationCheckpoint
           /\ \A a \in Active : a \in Chain[latest]
    BY <1>1, <1>3, LatestIsActive, LatestCarriesAll
  <2>2. \A a \in Active : Chain[a] \subseteq Chain[latest]
    BY <1>1, <2>1, ChainFacts
  <2>3. coveringCheckpoints \subseteq Chain[latest]
    BY <2>2 DEF coveringCheckpoints
  <2>4. Chain[latest] \subseteq coveringCheckpoints
    BY DEF coveringCheckpoints
  <2> QED
    BY <2>1, <2>3, <2>4
<1> QED
  BY <1>1, <1>2, <1>3 DEF CountedExactlyOnce, StartAccountsForCovered

(* The inductive invariant holds of every state the specification reaches. *)
THEOREM ReconciliationInvariance == Spec => []ReconciliationInv
<1>1. ReconciliationInv /\ [Next]_vars => ReconciliationInv'
  BY StepKeeps
<1> QED
  BY <1>1, Begins, PTL DEF Spec

(* CheckpointsAreSound, whatever statements the owner enters: an active    *)
(* checkpoint adds up in the ledger of now, and what it links is there and *)
(* marked, whatever write, reorder, void or hand change came since.        *)
THEOREM SoundCheckpoints == Spec => []CheckpointsAreSound
<1>1. ReconciliationInv => CheckpointsAreSound
  BY SoundNow
<1> QED
  BY <1>1, ReconciliationInvariance, PTL

(* PeriodStands, whatever statements the owner enters: no write that       *)
(* enforceCheckpointBoundaryTx lets pass changes the balance of a period   *)
(* behind a checkpoint in use.                                             *)
THEOREM PeriodsStand == Spec => []PeriodStands
<1>1. ReconciliationInv => PeriodStands
  BY StandsNow
<1> QED
  BY <1>1, ReconciliationInvariance, PTL

(* CountedExactlyOnce, whatever statements the owner enters: no line is    *)
(* counted twice; a statement whose chain is in order accounts for all of  *)
(* it; and when all are, the balance a session starts from counts every    *)
(* line that coveringCheckpoints withholds from it.                        *)
THEOREM EveryLineCountedOnce == Spec => []CountedExactlyOnce
<1>1. ReconciliationInv => CountedExactlyOnce
  BY CountedNow
<1> QED
  BY <1>1, ReconciliationInvariance, PTL

(* The action that InvalidatesWhatWasReviewed states. *)
Reviewed ==
    request # Idle /\ request' = Idle =>
       LET gone == {c \in Active : checkpoints'[c].status = "invalidated"}
       IN  /\ ~request.override => gone = {}
           /\ request.review = "exact" => gone = IF txns' = txns THEN {} ELSE request.reviewed
           /\ request.review = "batch" => gone \subseteq request.reviewed

(* A write that commits invalidates what it was reviewed for: the boundary *)
(* is enforced with the same refs the override is compared with            *)
(* (bindCheckpointOverride), an override without a reviewed set is bound   *)
(* to none, and every commit writes a row.                                 *)
LEMMA WriteInvalidatesReviewed ==
    ASSUME ReconciliationInv, WriteCommits
    PROVE  Reviewed
<1>1. enforceCheckpointBoundaryTx /\ request # Idle
  BY DEF WriteCommits, CreateTransaction, UpdateTransaction, VoidTransaction, UnvoidTransaction,
         SetTransactionDeleted, Idle
<1>2. PICK refs : /\ refs = periodScopedCheckpointInvalidationRefs(request.touches)
                  /\ bindCheckpointOverride(refs, request.override, request.review, request.reviewed)
                  /\ checkpoints' = Invalidated(refs)
  BY <1>1 DEF enforceCheckpointBoundaryTx
<1>3. txns' # txns
  BY CommitHasEffect
<1>4. refs \subseteq Active
  BY <1>2 DEF periodScopedCheckpointInvalidationRefs, activeCheckpointRefsAtOrAfter
<1>5. {c \in Active : checkpoints'[c].status = "invalidated"} = refs
  <2>1. \A c \in Active : c \in DOMAIN checkpoints /\ checkpoints[c].status = "active"
    BY DEF Active
  <2>2. ASSUME NEW c \in refs PROVE checkpoints'[c].status = "invalidated"
      BY <1>2, <1>4, <2>1, <2>2 DEF Invalidated
  <2> QED
    BY <1>2, <1>4, <2>1, <2>2 DEF Invalidated
<1>6. ~request.override => refs = {}
  BY <1>2 DEF bindCheckpointOverride
<1>7. request.review = "exact" => refs = request.reviewed
  <2>1. ReviewOK
    BY <1>1 DEF ReconciliationInv, RequestInv
  <2>2. request.review = "exact" /\ request.override => refs = request.reviewed
    BY <1>2 DEF bindCheckpointOverride
  <2> QED
    BY <1>6, <2>1, <2>2 DEF ReviewOK
<1>8. request.review = "batch" => refs \subseteq request.reviewed
  BY <1>2, <1>6 DEF bindCheckpointOverride
<1> QED
  BY <1>3, <1>5, <1>6, <1>7, <1>8 DEF Reviewed

(* InvalidatesWhatWasReviewed, whatever statements the owner enters and    *)
(* however an override is bound: a write takes out of use what its owner   *)
(* reviewed, although statements may be finished, voided and invalidated   *)
(* in between.                                                             *)
THEOREM ReviewedIsInvalidated == Spec => InvalidatesWhatWasReviewed
<1>1. ReconciliationInv /\ [Next]_vars => [Reviewed]_vars
  <2> SUFFICES ASSUME ReconciliationInv, Next PROVE Reviewed
    OBVIOUS
  <2>1. CASE request' = request \/ request = Idle
    BY <2>1 DEF Reviewed
  <2>2. CASE WriteCommits
    BY <2>2, WriteInvalidatesReviewed
  <2>3. CASE WriteRefused
    <3>1. {c \in Active : checkpoints'[c].status = "invalidated"} = {} /\ txns' = txns
      BY <2>3 DEF WriteRefused, Active
    <3> QED
      BY <3>1 DEF Reviewed
  <2>4. ASSUME NEW op, NEW t, NEW date, NEW amount, NEW touches, Prepared(op, t, date, amount, touches)
        PROVE  request = Idle
    BY <2>4 DEF Prepared
  <2> QED
    BY <2>1, <2>2, <2>3, <2>4
       DEF Next, PrepareCreate, PrepareUpdate, PreparePost, PrepareLifecycle, ApproveTransaction,
           DeleteDraftTransaction, MovePosting, CreateReconciliationSession,
           ReplaceReconciliationSessionSelection, FinishReconciliationSession,
           VoidReconciliationSession, VoidReconciliationCheckpoint, ChangePostingReconciliationStatus
<1> QED
  BY <1>1, ReconciliationInvariance, PTL DEF Spec, InvalidatesWhatWasReviewed, Reviewed

=============================================================================
