--------------------------- MODULE WorkQueueProofs ---------------------------
(***************************************************************************)
(* The work queue keeps its inductive invariant, and implements            *)
(* ExclusiveWork, for every set of keys, kinds and owners, every lease,    *)
(* backoff and attempt cap.                                                *)
(***************************************************************************)
EXTENDS WorkQueueRefinement, SequenceTheorems, TLAPS

Table == Seq(Row(Keys, Owners))

(* What the operations on rows do, restricted to what the invariant reads:   *)
(* u is t with the attempts of some active rows raised within the successor  *)
(* bound and fresh pending rows added at the end.                            *)
Grown(t, u) ==
    /\ DOMAIN t \subseteq DOMAIN u
    /\ \A i \in DOMAIN t :
          /\ u[i].key = t[i].key
          /\ u[i].status = t[i].status
          /\ u[i].owner = t[i].owner
          /\ u[i].leaseExpiresAt = t[i].leaseExpiresAt
          /\ u[i].attempts = t[i].attempts \/ u[i].attempts <= MaxSuccessorAttempts
    /\ \A i \in DOMAIN u \ DOMAIN t :
          u[i].status = "pending" /\ u[i].attempts <= MaxSuccessorAttempts

(* The uniqueness of active rows, of any table. *)
Unique(t) ==
    \A i, j \in DOMAIN t : Active(t[i]) /\ Active(t[j]) /\ t[i].key = t[j].key => i = j

-----------------------------------------------------------------------------
(* Overwriting one row of a table. *)
LEMMA RowUpdate ==
    ASSUME NEW t \in Table, NEW i \in DOMAIN t, NEW r \in Row(Keys, Owners),
           NEW u, u = [t EXCEPT ![i] = r]
    PROVE  /\ u \in Table
           /\ DOMAIN u = DOMAIN t
           /\ u[i] = r
           /\ \A j \in DOMAIN t : j # i => u[j] = t[j]
  <1>1. i \in 1..Len(t) /\ DOMAIN t = 1..Len(t)
    BY LenProperties DEF Table
  <1> QED BY <1>1, ExceptSeq DEF Table

(* A table's rows are rows. *)
LEMMA RowOfTable ==
    ASSUME NEW t \in Table, NEW i \in DOMAIN t
    PROVE  t[i] \in Row(Keys, Owners)
  BY LenProperties, ElementOfSeq DEF Table

(* The insert with ON CONFLICT DO NOTHING: a table that grew by at most one  *)
(* pending row, and still has one active row per key.                        *)
LEMMA EnqueueGrows ==
    ASSUME NEW t \in Table, NEW key \in Keys, NEW at \in Nat
    PROVE  /\ Enqueue(t, key, at) \in Table
           /\ Grown(t, Enqueue(t, key, at))
           /\ Unique(t) => Unique(Enqueue(t, key, at))
  <1>1. CASE ActiveIds(t, key) # {}
    <2>1. Enqueue(t, key, at) = t
      BY <1>1 DEF Enqueue
    <2> QED BY <2>1 DEF Grown
  <1>2. CASE ActiveIds(t, key) = {}
    <2> DEFINE u == Append(t, NewRow(key, at))
    <2>1. Enqueue(t, key, at) = u
      BY <1>2 DEF Enqueue
    <2>2. NewRow(key, at) \in Row(Keys, Owners)
      BY DEF NewRow, Row, Statuses, NoOwner, NoLease
    <2>3. Len(t) \in Nat /\ DOMAIN t = 1..Len(t)
      BY LenProperties DEF Table
    <2>4. /\ u \in Table
          /\ Len(u) = Len(t) + 1
          /\ \A i \in 1..Len(t) : u[i] = t[i]
          /\ u[Len(t) + 1] = NewRow(key, at)
      BY <2>2, AppendProperties DEF Table
    <2>5. DOMAIN u = 1..(Len(t) + 1)
      BY <2>4, LenProperties DEF Table
    <2>6. Grown(t, u)
      <3>1. \A i \in DOMAIN u \ DOMAIN t : u[i] = NewRow(key, at)
        BY <2>3, <2>4, <2>5
      <3> HIDE DEF u
      <3> QED BY <3>1, <2>3, <2>4, <2>5, QueueAssumption DEF Grown, NewRow
    <2>7. ASSUME Unique(t) PROVE Unique(u)
      <3>1. SUFFICES ASSUME NEW i \in DOMAIN u, NEW j \in DOMAIN u,
                            Active(u[i]), Active(u[j]), u[i].key = u[j].key
                     PROVE  i = j
        BY DEF Unique
      <3>2. \A n \in DOMAIN t : u[n] = t[n]
        BY <2>3, <2>4
      <3>3. NewRow(key, at).key = key
        BY DEF NewRow
      <3>4. \A n \in DOMAIN t : ~(t[n].key = key /\ Active(t[n]))
        BY <1>2 DEF ActiveIds
      <3> HIDE DEF u
      <3>5. CASE i \in DOMAIN t /\ j \in DOMAIN t
        BY <3>1, <3>2, <3>5, <2>7 DEF Unique
      <3>6. CASE i \in DOMAIN t /\ j \notin DOMAIN t
        <4>1. j = Len(t) + 1
          BY <3>6, <2>3, <2>5
        <4> QED BY <4>1, <3>1, <3>2, <3>3, <3>4, <3>6, <2>4
      <3>7. CASE i \notin DOMAIN t /\ j \in DOMAIN t
        <4>1. i = Len(t) + 1
          BY <3>7, <2>3, <2>5
        <4> QED BY <4>1, <3>1, <3>2, <3>3, <3>4, <3>7, <2>4
      <3>8. CASE i \notin DOMAIN t /\ j \notin DOMAIN t
        BY <3>8, <2>3, <2>5
      <3> QED BY <3>5, <3>6, <3>7, <3>8
    <2> HIDE DEF u
    <2> QED BY <2>1, <2>4, <2>6, <2>7
  <1> QED BY <1>1, <1>2

(* Growing twice is growing. *)
LEMMA GrownTransitive ==
    ASSUME NEW t \in Table, NEW u \in Table, NEW v \in Table,
           Grown(t, u), Grown(u, v)
    PROVE  Grown(t, v)
  <1>1. \A i \in DOMAIN u : u[i].attempts \in Nat
    BY RowOfTable DEF Row
  <1>2. \A i \in DOMAIN v : v[i].attempts \in Nat
    BY RowOfTable DEF Row
  <1>3. DOMAIN t \subseteq DOMAIN v
    BY DEF Grown
  <1>4. \A i \in DOMAIN t :
          /\ v[i].key = t[i].key
          /\ v[i].status = t[i].status
          /\ v[i].owner = t[i].owner
          /\ v[i].leaseExpiresAt = t[i].leaseExpiresAt
          /\ v[i].attempts = t[i].attempts \/ v[i].attempts <= MaxSuccessorAttempts
    BY DEF Grown
  <1>5. \A i \in DOMAIN v \ DOMAIN t :
          v[i].status = "pending" /\ v[i].attempts <= MaxSuccessorAttempts
    BY DEF Grown
  <1> QED BY <1>3, <1>4, <1>5 DEF Grown

(* One successor: the enqueue, then the attempts of the active row raised. *)
LEMMA AddSuccessorGrows ==
    ASSUME NEW t \in Table,
           NEW s \in [key: Keys, availableAt: Nat, attempts: 0..MaxSuccessorAttempts]
    PROVE  /\ AddSuccessor(t, s) \in Table
           /\ Grown(t, AddSuccessor(t, s))
           /\ Unique(t) => Unique(AddSuccessor(t, s))
  <1> DEFINE q == Enqueue(t, s.key, s.availableAt)
             a == AddSuccessor(t, s)
  <1>1. q \in Table /\ Grown(t, q) /\ (Unique(t) => Unique(q))
    BY EnqueueGrows
  <1>2. Len(q) \in Nat /\ DOMAIN q = 1..Len(q)
    BY <1>1, LenProperties DEF Table
  <1>3. a = [i \in DOMAIN q |->
              IF i \in ActiveIds(q, s.key) /\ s.attempts > q[i].attempts
              THEN [q[i] EXCEPT !.attempts = s.attempts] ELSE q[i]]
    BY DEF AddSuccessor
  <1> HIDE DEF q, a
  <1>4. \A i \in DOMAIN q : q[i] \in Row(Keys, Owners)
    BY <1>1, RowOfTable
  <1>5. DOMAIN a = DOMAIN q
    BY <1>3
  <1>6. ASSUME NEW i \in DOMAIN q
        PROVE  /\ a[i] \in Row(Keys, Owners)
               /\ a[i].key = q[i].key
               /\ a[i].status = q[i].status
               /\ a[i].owner = q[i].owner
               /\ a[i].leaseExpiresAt = q[i].leaseExpiresAt
               /\ a[i].attempts = q[i].attempts \/ a[i].attempts <= MaxSuccessorAttempts
    <2>1. CASE i \in ActiveIds(q, s.key) /\ s.attempts > q[i].attempts
      <3>1. a[i] = [q[i] EXCEPT !.attempts = s.attempts]
        BY <2>1, <1>3
      <3> QED BY <3>1, <1>4, QueueAssumption DEF Row
    <2>2. CASE ~(i \in ActiveIds(q, s.key) /\ s.attempts > q[i].attempts)
      <3>1. a[i] = q[i]
        BY <2>2, <1>3
      <3> QED BY <3>1, <1>4
    <2> QED BY <2>1, <2>2
  <1>7. a \in Table
    <2>1. a \in [1..Len(q) -> Row(Keys, Owners)]
      BY <1>2, <1>3, <1>5, <1>6
    <2> QED BY <2>1, <1>2, SeqDef DEF Table
  <1>8. Grown(q, a)
    BY <1>5, <1>6 DEF Grown
  <1>9. Unique(q) => Unique(a)
    BY <1>5, <1>6 DEF Unique, Active
  <1> QED BY <1>1, <1>7, <1>8, <1>9, GrownTransitive DEF a

(* A settlement of row i takes it out of "running"; the row keeps its key    *)
(* and its attempts, and every other row is as it was.                       *)
Settled(t, u, i, status) ==
    /\ u \in Table
    /\ DOMAIN u = DOMAIN t
    /\ u[i].key = t[i].key /\ u[i].attempts = t[i].attempts
    /\ u[i].status = status /\ status # "running"
    /\ \A j \in DOMAIN t : j # i => u[j] = t[j]

(* Complete, fail and retry settle the row when the fence holds. *)
LEMMA FencedSettles ==
    ASSUME NEW t \in Table, NEW i \in DOMAIN t, NEW owner, Fenced(t, i, owner),
           NEW at \in Nat
    PROVE  /\ Settled(t, CompleteRow(t, i, owner), i, "completed")
           /\ Settled(t, FailRow(t, i, owner), i, "failed")
           /\ Settled(t, RetryRow(t, i, owner, at), i, "pending")
  <1>1. t[i] \in Row(Keys, Owners)
    BY RowOfTable
  <1>2. Settled(t, CompleteRow(t, i, owner), i, "completed")
    <2> DEFINE r == [t[i] EXCEPT !.status = "completed", !.owner = NoOwner,
                                 !.leaseExpiresAt = NoLease]
    <2>1. /\ r \in Row(Keys, Owners) /\ r.key = t[i].key
          /\ r.attempts = t[i].attempts /\ r.status = "completed"
      BY <1>1 DEF Row, Statuses, NoOwner, NoLease
    <2>2. CompleteRow(t, i, owner) = [t EXCEPT ![i] = r]
      BY DEF CompleteRow
    <2> HIDE DEF r
    <2> DEFINE u == [t EXCEPT ![i] = r]
    <2>3. u \in Table /\ DOMAIN u = DOMAIN t /\ u[i] = r
          /\ \A j \in DOMAIN t : j # i => u[j] = t[j]
      BY <2>1, RowUpdate
    <2> HIDE DEF u
    <2> QED BY <2>1, <2>2, <2>3 DEF Settled, u
  <1>3. Settled(t, FailRow(t, i, owner), i, "failed")
    <2> DEFINE r == [t[i] EXCEPT !.status = "failed", !.owner = NoOwner,
                                 !.leaseExpiresAt = NoLease]
    <2>1. /\ r \in Row(Keys, Owners) /\ r.key = t[i].key
          /\ r.attempts = t[i].attempts /\ r.status = "failed"
      BY <1>1 DEF Row, Statuses, NoOwner, NoLease
    <2>2. FailRow(t, i, owner) = [t EXCEPT ![i] = r]
      BY DEF FailRow
    <2> HIDE DEF r
    <2> DEFINE u == [t EXCEPT ![i] = r]
    <2>3. u \in Table /\ DOMAIN u = DOMAIN t /\ u[i] = r
          /\ \A j \in DOMAIN t : j # i => u[j] = t[j]
      BY <2>1, RowUpdate
    <2> HIDE DEF u
    <2> QED BY <2>1, <2>2, <2>3 DEF Settled, u
  <1>4. Settled(t, RetryRow(t, i, owner, at), i, "pending")
    <2> DEFINE r == [t[i] EXCEPT !.status = "pending", !.availableAt = at,
                                 !.owner = NoOwner, !.leaseExpiresAt = NoLease]
    <2>1. /\ r \in Row(Keys, Owners) /\ r.key = t[i].key
          /\ r.attempts = t[i].attempts /\ r.status = "pending"
      BY <1>1 DEF Row, Statuses, NoOwner, NoLease
    <2>2. RetryRow(t, i, owner, at) = [t EXCEPT ![i] = r]
      BY DEF RetryRow
    <2> HIDE DEF r
    <2> DEFINE u == [t EXCEPT ![i] = r]
    <2>3. u \in Table /\ DOMAIN u = DOMAIN t /\ u[i] = r
          /\ \A j \in DOMAIN t : j # i => u[j] = t[j]
      BY <2>1, RowUpdate
    <2> HIDE DEF u
    <2> QED BY <2>1, <2>2, <2>3 DEF Settled, u
  <1> QED BY <1>2, <1>3, <1>4

(* A loop that lets go of its item without touching the table. *)
LEMMA ReleaseKeepsInv ==
    ASSUME QueueInv, NEW owner \in Owners, NEW kind \in Kinds,
           Release(owner, kind), UNCHANGED <<items, life, now>>
    PROVE  QueueInv'
  <1>1. hold' \in [Loops -> [item: Nat, attempts: Nat, expires: Nat]]
    BY DEF QueueInv, TypeOK, Release, Idle, Loops
  <1>2. \A l \in Loops : hold'[l] = hold[l] \/ hold'[l].item = 0
    BY DEF QueueInv, TypeOK, Release, Idle, Loops
  <1>3. TypeOK'
    BY <1>1, <1>2 DEF QueueInv, TypeOK
  <1>4. HoldInv'
    BY <1>2 DEF QueueInv, HoldInv, Fenced
  <1> QED BY <1>3, <1>4 DEF QueueInv, ActiveUnique, PendingUnderCap

(* A fenced settlement, with or without follow-up work, by the loop that     *)
(* holds the row: no other loop's grant is disturbed, because a live grant   *)
(* of the same row would belong to the same owner and kind.                  *)
LEMMA SettlementKeepsInv ==
    ASSUME QueueInv, NEW owner \in Owners, NEW kind \in Kinds,
           NEW c, NEW status,
           Holding(owner, kind),
           Fenced(items, hold[<<owner, kind>>].item, owner),
           Settled(items, c, hold[<<owner, kind>>].item, status),
           status = "pending" => c[hold[<<owner, kind>>].item].attempts < MaxAttempts,
           items' \in Table, Grown(c, items'), Unique(c) => Unique(items'),
           Release(owner, kind), UNCHANGED <<life, now>>
    PROVE  QueueInv'
  <1> DEFINE me == <<owner, kind>>
             i == hold[<<owner, kind>>].item
  <1>1. me \in Loops /\ i \in DOMAIN items /\ i # 0
    BY DEF QueueInv, TypeOK, Loops, Holding
  <1>2. items \in Table
    BY DEF QueueInv, TypeOK, Table
  <1>3. hold' \in [Loops -> [item: Nat, attempts: Nat, expires: Nat]]
    BY DEF QueueInv, TypeOK, Release, Idle, Loops
  <1>4. hold'[me].item = 0 /\ \A l \in Loops : l # me => hold'[l] = hold[l]
    BY <1>1 DEF QueueInv, TypeOK, Release, Idle, Loops
  <1>5. TypeOK'
    <2>1. \A l \in Loops : hold'[l].item \in {0} \cup DOMAIN items'
      BY <1>1, <1>3, <1>4 DEF QueueInv, TypeOK, Settled, Grown
    <2> QED BY <2>1, <1>3 DEF QueueInv, TypeOK, Table
  <1>6. Unique(items')
    <2>1. Unique(c)
      BY <1>1 DEF QueueInv, ActiveUnique, Unique, Settled, Fenced, Active
    <2> QED BY <2>1
  <1>7. HoldInv'
    <2>1. SUFFICES ASSUME NEW l \in Loops, hold'[l].item # 0
                   PROVE  LET row == items'[hold'[l].item] IN
                          /\ KindOf[row.key] = l[2]
                          /\ now' < hold'[l].expires =>
                                /\ Fenced(items', hold'[l].item, l[1])
                                /\ row.leaseExpiresAt = hold'[l].expires
                          /\ Fenced(items', hold'[l].item, l[1]) =>
                                \/ row.attempts <= hold'[l].attempts
                                \/ row.attempts <= MaxSuccessorAttempts
      BY DEF HoldInv, Fenced
    <2>2. l # me /\ hold'[l] = hold[l]
      BY <2>1, <1>4
    <2> DEFINE n == hold[l].item
    <2>3. n \in DOMAIN items /\ n # 0 /\ n \in DOMAIN c
      BY <2>1, <2>2 DEF QueueInv, TypeOK, Settled
    <2>4. KindOf[items[n].key] = l[2] /\ KindOf[items[i].key] = kind
      BY <2>3, <1>1 DEF QueueInv, HoldInv
    <2>5. CASE n = i
      <3>1. l[1] # owner
        <4>1. l[2] = kind
          BY <2>5, <2>4
        <4> QED BY <4>1, <2>2 DEF Loops
      <3>2. ~(now < hold[l].expires)
        BY <3>1, <2>3, <2>5 DEF QueueInv, HoldInv, Fenced
      <3>3. items'[n].key = items[n].key /\ items'[n].status # "running"
        BY <2>3, <2>5 DEF Settled, Grown
      <3> QED BY <3>2, <3>3, <2>2, <2>4 DEF Fenced
    <2>6. CASE n # i
      <3>1. c[n] = items[n]
        BY <2>3, <2>6 DEF Settled
      <3>2. /\ items'[n].key = items[n].key
            /\ items'[n].status = items[n].status
            /\ items'[n].owner = items[n].owner
            /\ items'[n].leaseExpiresAt = items[n].leaseExpiresAt
            /\ \/ items'[n].attempts = items[n].attempts
               \/ items'[n].attempts <= MaxSuccessorAttempts
        BY <3>1, <2>3 DEF Grown
      <3> QED BY <3>2, <2>2, <2>3 DEF QueueInv, HoldInv, Fenced
    <2> QED BY <2>5, <2>6
  <1>8. PendingUnderCap'
    <2>1. SUFFICES ASSUME NEW j \in DOMAIN items', items'[j].status = "pending"
                   PROVE  items'[j].attempts < MaxAttempts
      BY DEF PendingUnderCap
    <2>2. items'[j].attempts \in Nat
      BY RowOfTable DEF Row
    <2>3. CASE items'[j].attempts <= MaxSuccessorAttempts
      BY <2>2, <2>3, QueueAssumption
    <2>4. CASE j \in DOMAIN c /\ items'[j].attempts = c[j].attempts
      <3>1. c[j].status = "pending"
        BY <2>1, <2>4 DEF Grown
      <3>2. CASE j = i
        BY <3>1, <3>2, <2>4 DEF Settled
      <3>3. CASE j # i
        BY <3>1, <3>3, <2>4 DEF Settled, QueueInv, PendingUnderCap
      <3> QED BY <3>2, <3>3
    <2> QED BY <2>1, <2>3, <2>4 DEF Grown
  <1> QED BY <1>5, <1>6, <1>7, <1>8 DEF QueueInv, ActiveUnique, Unique

-----------------------------------------------------------------------------
(* EnqueueBackgroundWork adds a fresh row or nothing. *)
LEMMA EnqueueKeepsInv ==
    ASSUME QueueInv, NEW key \in Keys, EnqueueBackgroundWork(key)
    PROVE  QueueInv'
  <1>1. items \in Table /\ now \in Nat
    BY DEF QueueInv, TypeOK, Table
  <1>2. /\ items' \in Table /\ Grown(items, items')
        /\ Unique(items) => Unique(items')
    BY <1>1, EnqueueGrows DEF EnqueueBackgroundWork
  <1>3. UNCHANGED <<hold, life, now>>
    BY DEF EnqueueBackgroundWork
  <1>4. TypeOK'
    BY <1>2, <1>3 DEF QueueInv, TypeOK, Table, Grown
  <1>5. ActiveUnique'
    BY <1>2 DEF QueueInv, ActiveUnique, Unique
  <1>6. HoldInv'
    <2>1. \A l \in Loops : hold[l].item # 0 => hold[l].item \in DOMAIN items
      BY DEF QueueInv, TypeOK
    <2> QED BY <1>2, <1>3, <2>1 DEF QueueInv, HoldInv, Fenced, Grown
  <1>7. PendingUnderCap'
    <2>1. \A i \in DOMAIN items' : items'[i].attempts \in Nat
      BY <1>2, RowOfTable DEF Row
    <2> QED BY <1>2, <2>1, QueueAssumption DEF QueueInv, PendingUnderCap, Grown
  <1> QED BY <1>4, <1>5, <1>6, <1>7 DEF QueueInv

(* A claim takes a pending row, or a running one whose lease ran out: in     *)
(* both cases no unexpired grant of it exists.                               *)
LEMMA ClaimKeepsInv ==
    ASSUME QueueInv, NEW owner \in Owners, NEW kind \in Kinds,
           ClaimBackgroundWork(owner, kind)
    PROVE  QueueInv'
  <1> DEFINE me == <<owner, kind>>
  <1>1. items \in Table /\ now \in Nat /\ me \in Loops
    BY DEF QueueInv, TypeOK, Table, Loops
  <1>2. PICK i \in DOMAIN items :
          /\ FirstDue(items, KeysOf(kind), now, i)
          /\ items' = ClaimRow(items, i, owner, now + Lease)
          /\ hold' = [hold EXCEPT ![me] = [item |-> i,
                         attempts |-> items[i].attempts + 1, expires |-> now + Lease]]
    BY DEF ClaimBackgroundWork
  <1>3. KindOf[items[i].key] = kind /\ Claimable(items[i], now)
    BY <1>2 DEF FirstDue, DueIds, KeysOf
  <1>4. UNCHANGED <<life, now>>
    BY DEF ClaimBackgroundWork
  <1> DEFINE r == [items[i] EXCEPT !.status = "running",
                     !.attempts = items[i].attempts + 1, !.owner = owner,
                     !.leaseExpiresAt = now + Lease]
  <1>5. items[i] \in Row(Keys, Owners)
    BY <1>1, RowOfTable
  <1>6. /\ r \in Row(Keys, Owners)
        /\ r.key = items[i].key /\ r.status = "running"
        /\ r.attempts = items[i].attempts + 1
        /\ r.owner = owner /\ r.leaseExpiresAt = now + Lease
    <2> DEFINE a == items[i].attempts + 1
               e == now + Lease
    <2>1. a \in Nat /\ e \in Nat
      BY <1>1, <1>5, QueueAssumption DEF Row
    <2> HIDE DEF a, e
    <2>2. r = [items[i] EXCEPT !.status = "running", !.attempts = a,
                               !.owner = owner, !.leaseExpiresAt = e]
      BY DEF a, e
    <2> HIDE DEF r
    <2>3. /\ r \in Row(Keys, Owners)
          /\ r.key = items[i].key /\ r.status = "running"
          /\ r.attempts = a /\ r.owner = owner /\ r.leaseExpiresAt = e
      BY <1>5, <2>1, <2>2 DEF Row, Statuses
    <2> QED BY <2>3 DEF a, e
  <1>7. items' = [items EXCEPT ![i] = r]
    BY <1>2 DEF ClaimRow
  <1> HIDE DEF r
  <1>8. /\ items' \in Table /\ DOMAIN items' = DOMAIN items /\ items'[i] = r
        /\ \A j \in DOMAIN items : j # i => items'[j] = items[j]
    BY <1>1, <1>6, <1>7, RowUpdate
  <1>9. i \in Nat \ {0}
    BY <1>1, LenProperties DEF Table
  <1>10. /\ hold' \in [Loops -> [item: Nat, attempts: Nat, expires: Nat]]
         /\ hold'[me].item = i /\ hold'[me].attempts = items[i].attempts + 1
         /\ hold'[me].expires = now + Lease
         /\ \A l \in Loops : l # me => hold'[l] = hold[l]
    <2>1. items[i].attempts + 1 \in Nat /\ now + Lease \in Nat
      BY <1>1, <1>5, QueueAssumption DEF Row
    <2> QED BY <1>1, <1>2, <1>9, <2>1 DEF QueueInv, TypeOK
  <1>11. TypeOK'
    BY <1>4, <1>8, <1>10 DEF QueueInv, TypeOK, Table
  <1>12. ActiveUnique'
    <2>1. Active(items[i])
      BY <1>3 DEF Claimable, Active
    <2> QED BY <1>6, <1>8, <2>1 DEF QueueInv, ActiveUnique
  <1>13. PendingUnderCap'
    BY <1>6, <1>8 DEF QueueInv, PendingUnderCap
  <1>14. HoldInv'
    <2>1. SUFFICES ASSUME NEW l \in Loops, hold'[l].item # 0
                   PROVE  LET row == items'[hold'[l].item] IN
                          /\ KindOf[row.key] = l[2]
                          /\ now' < hold'[l].expires =>
                                /\ Fenced(items', hold'[l].item, l[1])
                                /\ row.leaseExpiresAt = hold'[l].expires
                          /\ Fenced(items', hold'[l].item, l[1]) =>
                                \/ row.attempts <= hold'[l].attempts
                                \/ row.attempts <= MaxSuccessorAttempts
      BY DEF HoldInv, Fenced
    <2>2. CASE l = me
      <3>1. r.attempts <= hold'[me].attempts
        BY <1>5, <1>6, <1>10 DEF Row
      <3> QED BY <2>2, <3>1, <1>3, <1>6, <1>8, <1>10 DEF Fenced
    <2>3. CASE l # me
      <3> DEFINE n == hold[l].item
      <3>1. hold'[l] = hold[l] /\ n \in DOMAIN items /\ n # 0
        BY <2>1, <2>3, <1>10 DEF QueueInv, TypeOK
      <3>2. KindOf[items[n].key] = l[2]
        BY <3>1 DEF QueueInv, HoldInv
      <3>3. CASE n = i
        <4>1. l[1] # owner
          BY <2>3, <3>2, <3>3, <1>3 DEF Loops
        <4>2. ~(now < hold[l].expires)
          <5>1. SUFFICES ASSUME now < hold[l].expires PROVE FALSE
            OBVIOUS
          <5>2. items[i].status = "running" /\ items[i].leaseExpiresAt = hold[l].expires
            BY <5>1, <3>1, <3>3 DEF QueueInv, HoldInv, Fenced
          <5>3. items[i].leaseExpiresAt <= now
            BY <5>2, <1>3 DEF Claimable
          <5>4. hold[l].expires \in Nat
            BY DEF QueueInv, TypeOK
          <5> QED BY <5>1, <5>2, <5>3, <5>4, <1>1
        <4> QED BY <4>1, <4>2, <3>1, <3>2, <3>3, <1>4, <1>6, <1>8 DEF Fenced
      <3>4. CASE n # i
        BY <3>1, <3>4, <1>4, <1>8 DEF QueueInv, HoldInv, Fenced
      <3> QED BY <3>3, <3>4
    <2> QED BY <2>2, <2>3
  <1> QED BY <1>11, <1>12, <1>13, <1>14 DEF QueueInv

(* A requeued row had no active twin, and its failed status means that no    *)
(* unexpired grant names it.                                                 *)
LEMMA RequeueKeepsInv ==
    ASSUME QueueInv, NEW i \in DOMAIN items, RequeueBackgroundWork(i)
    PROVE  QueueInv'
  <1>1. items \in Table /\ now \in Nat
    BY DEF QueueInv, TypeOK, Table
  <1> DEFINE r == [items[i] EXCEPT !.status = "pending", !.attempts = 0,
                     !.availableAt = now, !.owner = NoOwner, !.leaseExpiresAt = NoLease]
  <1>2. items[i] \in Row(Keys, Owners)
    BY <1>1, RowOfTable
  <1>3. /\ r \in Row(Keys, Owners) /\ r.key = items[i].key
        /\ r.status = "pending" /\ r.attempts = 0
    BY <1>1, <1>2 DEF Row, Statuses, NoOwner, NoLease
  <1>4. items' = [items EXCEPT ![i] = r]
    BY DEF RequeueBackgroundWork, RequeueRow
  <1> HIDE DEF r
  <1>5. /\ items' \in Table /\ DOMAIN items' = DOMAIN items /\ items'[i] = r
        /\ \A j \in DOMAIN items : j # i => items'[j] = items[j]
    BY <1>1, <1>3, <1>4, RowUpdate
  <1>6. /\ UNCHANGED <<hold, life, now>> /\ items[i].status = "failed"
        /\ ActiveIds(items, items[i].key) = {}
    BY DEF RequeueBackgroundWork, Requeueable
  <1>7. TypeOK'
    BY <1>5, <1>6 DEF QueueInv, TypeOK, Table
  <1>8. ActiveUnique'
    <2>1. \A j \in DOMAIN items : ~(items[j].key = items[i].key /\ Active(items[j]))
      BY <1>6 DEF ActiveIds
    <2> QED BY <2>1, <1>3, <1>5 DEF QueueInv, ActiveUnique
  <1>9. PendingUnderCap'
    BY <1>3, <1>5, QueueAssumption DEF QueueInv, PendingUnderCap
  <1>10. HoldInv'
    <2>1. \A l \in Loops : hold[l].item # 0 => hold[l].item \in DOMAIN items
      BY DEF QueueInv, TypeOK
    <2> QED BY <2>1, <1>3, <1>5, <1>6 DEF QueueInv, HoldInv, Fenced
  <1> QED BY <1>7, <1>8, <1>9, <1>10 DEF QueueInv

(* A crash forgets what the owner held and leaves its rows leased. *)
LEMMA CrashKeepsInv ==
    ASSUME QueueInv, NEW owner \in Owners, Crash(owner)
    PROVE  QueueInv'
  <1>1. /\ hold' \in [Loops -> [item: Nat, attempts: Nat, expires: Nat]]
        /\ \A l \in Loops : hold'[l] = hold[l] \/ hold'[l].item = 0
    BY DEF QueueInv, TypeOK, Crash, Idle
  <1>2. UNCHANGED <<items, now>> /\ life' \in [Owners -> {"new", "up", "dead"}]
    BY DEF QueueInv, TypeOK, Crash
  <1>3. TypeOK'
    BY <1>1, <1>2 DEF QueueInv, TypeOK
  <1>4. HoldInv'
    BY <1>1, <1>2 DEF QueueInv, HoldInv, Fenced
  <1> QED BY <1>2, <1>3, <1>4 DEF QueueInv, ActiveUnique, PendingUnderCap

(* Time only takes grants away. *)
LEMMA TickKeepsInv ==
    ASSUME QueueInv, Tick
    PROVE  QueueInv'
  <1>1. now \in Nat /\ now' = now + 1 /\ UNCHANGED <<items, hold, life>>
    BY DEF QueueInv, TypeOK, Tick
  <1>2. TypeOK'
    BY <1>1 DEF QueueInv, TypeOK
  <1>3. \A l \in Loops : hold[l].expires \in Nat
    BY DEF QueueInv, TypeOK
  <1>4. HoldInv'
    BY <1>1, <1>3 DEF QueueInv, HoldInv, Fenced
  <1> QED BY <1>1, <1>2, <1>4 DEF QueueInv, ActiveUnique, PendingUnderCap

(* Every settlement, whichever way: it changes nothing, or its fence held,   *)
(* the row is settled as c says, and c has grown by the follow-up work.      *)
LEMMA SettlementOutcome ==
    ASSUME QueueInv, NEW owner \in Owners, NEW kind \in Kinds, Settle(owner, kind)
    PROVE  \/ items' = items
           \/ /\ Fenced(items, hold[<<owner, kind>>].item, owner)
              /\ \E c \in Table, status \in Statuses :
                    /\ Settled(items, c, hold[<<owner, kind>>].item, status)
                    /\ status = "pending" =>
                          c[hold[<<owner, kind>>].item].attempts < MaxAttempts
                    /\ items' \in Table /\ Grown(c, items')
                    /\ Unique(c) => Unique(items')
  <1> DEFINE i == hold[<<owner, kind>>].item
             Outcome == \E c \in Table, status \in Statuses :
                           /\ Settled(items, c, i, status)
                           /\ status = "pending" => c[i].attempts < MaxAttempts
                           /\ items' \in Table /\ Grown(c, items')
                           /\ Unique(c) => Unique(items')
  <1>1. CASE Abandon(owner, kind)
    BY <1>1 DEF Abandon
  <1>2. CASE ~Fenced(items, i, owner)
    BY <1>2 DEF Settle, CompleteBackgroundWork, CompleteBackgroundWorkWithSuccessors,
                RetryBackgroundWork, FailBackgroundWork, Abandon,
                CompleteRow, CompleteWithSuccessors, RetryRow, FailRow
  <1>3. ASSUME ~Abandon(owner, kind), Fenced(items, i, owner) PROVE Outcome
    <2>1. Holding(owner, kind)
      BY DEF Settle, CompleteBackgroundWork, CompleteBackgroundWorkWithSuccessors,
             RetryBackgroundWork, FailBackgroundWork, Abandon
    <2>2. <<owner, kind>> \in Loops /\ i \in DOMAIN items
      BY <2>1 DEF QueueInv, TypeOK, Loops, Holding
    <2>3. items \in Table /\ now \in Nat
      BY DEF QueueInv, TypeOK, Table
    <2>4. \A t \in Table : Grown(t, t)
      BY DEF Grown
    <2>5. CASE CompleteBackgroundWork(owner, kind)
      <3>1. Settled(items, items', i, "completed")
        BY <2>5, <2>2, <2>3, <1>3, FencedSettles DEF CompleteBackgroundWork
      <3> QED BY <3>1, <2>4 DEF Settled, Statuses
    <2>6. ASSUME NEW first \in Successors(kind), NEW second \in Successors(kind),
                 CompleteBackgroundWorkWithSuccessors(owner, kind, first, second)
          PROVE  Outcome
      <3> DEFINE c == CompleteRow(items, i, owner)
                 a == AddSuccessor(c, first)
      <3>1. items' = AddSuccessor(a, second)
        BY <2>6, <1>3 DEF CompleteBackgroundWorkWithSuccessors, CompleteWithSuccessors
      <3>2. Settled(items, c, i, "completed") /\ c \in Table
        BY <2>2, <2>3, <1>3, FencedSettles DEF Settled
      <3>3. /\ first \in [key: Keys, availableAt: Nat, attempts: 0..MaxSuccessorAttempts]
            /\ second \in [key: Keys, availableAt: Nat, attempts: 0..MaxSuccessorAttempts]
        <4>1. {now} \cup {now + d : d \in Delays} \subseteq Nat
          BY <2>3, QueueAssumption
        <4>2. KeysOf(kind) \subseteq Keys
          BY DEF KeysOf
        <4> QED BY <4>1, <4>2 DEF Successors
      <3> HIDE DEF c
      <3>4. a \in Table /\ Grown(c, a) /\ (Unique(c) => Unique(a))
        BY <3>2, <3>3, AddSuccessorGrows
      <3> HIDE DEF a
      <3>5. items' \in Table /\ Grown(a, items') /\ (Unique(a) => Unique(items'))
        BY <3>1, <3>3, <3>4, AddSuccessorGrows
      <3>6. Grown(c, items')
        BY <3>2, <3>4, <3>5, GrownTransitive
      <3> QED BY <3>2, <3>4, <3>5, <3>6 DEF Statuses
    <2>7. ASSUME NEW delay \in Delays, RetryBackgroundWork(owner, kind, delay)
          PROVE  Outcome
      <3>1. now + delay \in Nat
        BY <2>3, QueueAssumption
      <3>2. items' = RetryRow(items, i, owner, now + delay)
        BY <2>7 DEF RetryBackgroundWork
      <3>3. Settled(items, items', i, "pending")
        BY <3>1, <3>2, <2>2, <2>3, <1>3, FencedSettles
      <3>4. items[i].attempts < MaxAttempts
        <4>1. /\ hold[<<owner, kind>>].attempts < MaxAttempts
              /\ hold[<<owner, kind>>].attempts \in Nat
          BY <2>7, <2>2 DEF RetryBackgroundWork, QueueInv, TypeOK
        <4>2. \/ items[i].attempts <= hold[<<owner, kind>>].attempts
              \/ items[i].attempts <= MaxSuccessorAttempts
          BY <2>1, <2>2, <1>3 DEF QueueInv, HoldInv, Holding
        <4>3. items[i].attempts \in Nat
          BY <2>2, <2>3, RowOfTable DEF Row
        <4> QED BY <4>1, <4>2, <4>3, QueueAssumption
      <3>5. items'[i].attempts < MaxAttempts
        BY <3>3, <3>4 DEF Settled
      <3> QED BY <3>3, <3>5, <2>4 DEF Settled, Statuses
    <2>8. CASE FailBackgroundWork(owner, kind)
      <3>1. Settled(items, items', i, "failed")
        BY <2>8, <2>2, <2>3, <1>3, FencedSettles DEF FailBackgroundWork
      <3> QED BY <3>1, <2>4 DEF Settled, Statuses
    <2> QED BY <1>3, <2>5, <2>6, <2>7, <2>8 DEF Settle
  <1> QED BY <1>1, <1>2, <1>3

(* What every settlement does beside the table: the handler's turn is over.  *)
LEMMA SettleReleases ==
    ASSUME NEW owner \in Owners, NEW kind \in Kinds, Settle(owner, kind)
    PROVE  Holding(owner, kind) /\ Release(owner, kind) /\ UNCHANGED <<life, now>>
  BY DEF Settle, CompleteBackgroundWork, CompleteBackgroundWorkWithSuccessors,
         RetryBackgroundWork, FailBackgroundWork, Abandon

(* The four settlements and Abandon: fenced or not, the invariant stays. *)
LEMMA SettleKeepsInv ==
    ASSUME QueueInv, NEW owner \in Owners, NEW kind \in Kinds, Settle(owner, kind)
    PROVE  QueueInv'
  <1>1. Holding(owner, kind) /\ Release(owner, kind) /\ UNCHANGED <<life, now>>
    BY SettleReleases
  <1>2. CASE items' = items
    BY <1>1, <1>2, ReleaseKeepsInv
  <1>3. CASE items' # items
    BY <1>1, <1>3, SettlementOutcome, SettlementKeepsInv
  <1> QED BY <1>2, <1>3

(* A settlement that ends a running row is the one of the loop that holds    *)
(* the row for its present owner: any other loop fails the fence.            *)
LEMMA SettledByItsHolder ==
    ASSUME QueueInv, NEW owner \in Owners, NEW kind \in Kinds, Settle(owner, kind),
           NEW i \in DOMAIN items, items[i].status = "running", items'[i].status # "running"
    PROVE  /\ hold[<<items[i].owner, kind>>].item = i
           /\ hold'[<<items[i].owner, kind>>].item = 0
  <1> DEFINE h == hold[<<owner, kind>>].item
  <1>1. Fenced(items, h, owner) /\ h = i
    BY SettlementOutcome DEF Settled, Grown
  <1>2. hold'[<<owner, kind>>].item = 0
    BY SettleReleases DEF Release, Idle, QueueInv, TypeOK, Loops
  <1> QED BY <1>1, <1>2 DEF Fenced

-----------------------------------------------------------------------------
(* The inductive invariant holds in every reachable state of the queue. *)
THEOREM QueueInvariance == Spec => []QueueInv
  <1>1. Init => QueueInv
    BY EmptySeq, QueueAssumption
       DEF Init, QueueInv, TypeOK, ActiveUnique, HoldInv, PendingUnderCap, Idle
  <1>2. QueueInv /\ [Next]_vars => QueueInv'
    <2> SUFFICES ASSUME QueueInv, [Next]_vars PROVE QueueInv'
      OBVIOUS
    <2>1. ASSUME NEW key \in Keys, EnqueueBackgroundWork(key) PROVE QueueInv'
      BY <2>1, EnqueueKeepsInv
    <2>2. ASSUME NEW owner \in Owners, NEW kind \in Kinds,
                 ClaimBackgroundWork(owner, kind) \/ Settle(owner, kind)
          PROVE  QueueInv'
      BY <2>2, ClaimKeepsInv, SettleKeepsInv
    <2>3. ASSUME NEW i \in DOMAIN items, RequeueBackgroundWork(i) PROVE QueueInv'
      BY <2>3, RequeueKeepsInv
    <2>4. ASSUME NEW owner \in Owners, Start(owner) PROVE QueueInv'
      BY <2>4 DEF Start, QueueInv, TypeOK, ActiveUnique, HoldInv, PendingUnderCap, Fenced
    <2>5. ASSUME NEW owner \in Owners, Crash(owner) PROVE QueueInv'
      BY <2>5, CrashKeepsInv
    <2>6. CASE Tick
      BY <2>6, TickKeepsInv
    <2>7. CASE UNCHANGED vars
      BY <2>7 DEF vars, QueueInv, TypeOK, ActiveUnique, HoldInv, PendingUnderCap, Fenced
    <2> QED BY <2>1, <2>2, <2>3, <2>4, <2>5, <2>6, <2>7 DEF Next
  <1> QED BY <1>1, <1>2, PTL DEF Spec

(* Rows, leases and the handlers' copies stay well typed through every       *)
(* statement on background_work_items.                                       *)
THEOREM QueueTypes == Spec => []TypeOK
  BY QueueInvariance, PTL DEF QueueInv

(* EnqueueBackgroundWork, hand-over, retry and requeue leave at most one     *)
(* active row per (book, kind, payload).                                     *)
THEOREM ActiveRowsAreUnique == Spec => []ActiveUnique
  BY QueueInvariance, PTL DEF QueueInv

(* Work put back in the queue has attempts left, at every cap and whatever   *)
(* the successors carry.                                                     *)
THEOREM RetriesAreWithinCap == Spec => []PendingUnderCap
  BY QueueInvariance, PTL DEF QueueInv

(* Both at once: the rows stay well formed through every statement.          *)
THEOREM RowsStaySound == Spec => []RowsAreSound
  BY QueueInvariance, PTL DEF QueueInv, RowsAreSound

(* While its lease runs, a handler owns the row it claimed. *)
THEOREM LeaseIsExclusive == Spec => []LeaseProtects
  <1>1. QueueInv => LeaseProtects
    BY DEF QueueInv, HoldInv, LeaseProtects, Fenced
  <1> QED BY <1>1, QueueInvariance, PTL

(* A settlement that comes after the row changed hands changes nothing: a    *)
(* running row leaves that state only through the loop that holds it.        *)
THEOREM StaleWorkersAreFenced == Spec => OnlyHolderSettles
  <1> DEFINE ByHolder(i) ==
         items[i].status = "running" /\ items'[i].status # "running" =>
             \E kind \in Kinds :
                 /\ hold[<<items[i].owner, kind>>].item = i
                 /\ hold'[<<items[i].owner, kind>>].item = 0
  <1>1. ASSUME QueueInv, [Next]_vars PROVE [\A i \in DOMAIN items : ByHolder(i)]_vars
    <2> SUFFICES ASSUME NEW i \in DOMAIN items, Next,
                        items[i].status = "running", items'[i].status # "running"
                 PROVE  \E kind \in Kinds :
                            /\ hold[<<items[i].owner, kind>>].item = i
                            /\ hold'[<<items[i].owner, kind>>].item = 0
      BY <1>1
    <2>1. items \in Table /\ now \in Nat
      BY <1>1 DEF QueueInv, TypeOK, Table
    <2>2. ASSUME NEW key \in Keys, EnqueueBackgroundWork(key) PROVE FALSE
      BY <2>1, <2>2, EnqueueGrows DEF EnqueueBackgroundWork, Grown
    <2>3. ASSUME NEW owner \in Owners, NEW kind \in Kinds, ClaimBackgroundWork(owner, kind)
          PROVE  FALSE
      BY <2>1, <2>3 DEF ClaimBackgroundWork, ClaimRow, FirstDue, DueIds
    <2>4. ASSUME NEW j \in DOMAIN items, RequeueBackgroundWork(j) PROVE FALSE
      BY <2>4 DEF RequeueBackgroundWork, Requeueable, RequeueRow
    <2>5. ASSUME NEW owner \in Owners, NEW kind \in Kinds, Settle(owner, kind)
          PROVE  \E k \in Kinds : /\ hold[<<items[i].owner, k>>].item = i
                                  /\ hold'[<<items[i].owner, k>>].item = 0
      BY <1>1, <2>5, SettledByItsHolder
    <2>6. ASSUME NEW owner \in Owners, Start(owner) \/ Crash(owner) PROVE FALSE
      BY <2>6 DEF Start, Crash
    <2>7. CASE Tick
      BY <2>7 DEF Tick
    <2> QED BY <2>2, <2>3, <2>4, <2>5, <2>6, <2>7 DEF Next
  <1> QED BY <1>1, QueueInvariance, PTL DEF Spec, OnlyHolderSettles

(***************************************************************************)
(* The queue implements ExclusiveWork                                      *)
(***************************************************************************)

(* What the mapping needs beside QueueInv: a running row names a worker, so  *)
(* that work in hand is in somebody's hand.                                  *)
RunningIsOwned(t) ==
    \A i \in DOMAIN t : t[i].status = "running" => t[i].owner \in Owners

(* The inductive invariant of the refinement. *)
RefinementInv == QueueInv /\ RunningIsOwned(items)

(* Who has the work of key m, and until when, is the same in t and in u.     *)
SameGrip(t, u, m, at) ==
    /\ InHand(u)[m] = InHand(t)[m]
    /\ m \in Granted(u, at) <=> m \in Granted(t, at)

-----------------------------------------------------------------------------
(* A running row is the one running row of its key. *)
LEMMA RunningRowIs ==
    ASSUME NEW t \in Table, Unique(t), NEW i \in DOMAIN t, t[i].status = "running"
    PROVE  /\ t[i].key \in Keys
           /\ t[i].key \in KeysThatAre(t, "running")
           /\ RunningRow(t, t[i].key) = t[i]
  <1> DEFINE Is(j) == t[j].key = t[i].key /\ t[j].status = "running"
             c == CHOOSE j \in DOMAIN t : Is(j)
  <1>1. c \in DOMAIN t /\ Is(c)
    <2>1. Is(i)
      OBVIOUS
    <2> HIDE DEF Is
    <2> QED BY <2>1
  <1>2. c = i
    BY <1>1 DEF Unique, Active
  <1>3. t[i] \in Row(Keys, Owners)
    BY RowOfTable
  <1> QED BY <1>2, <1>3 DEF KeysThatAre, RunningRow, Row

(* If every running row of a key keeps its place, owner and lease, and no    *)
(* other row of the key starts to run, the grip on the key is the same.      *)
LEMMA GripIsKept ==
    ASSUME NEW t \in Table, NEW u \in Table, Unique(t), Unique(u), NEW m \in Keys, NEW at,
           \A j \in DOMAIN t : t[j].key = m /\ t[j].status = "running" =>
              /\ j \in DOMAIN u
              /\ u[j].key = m /\ u[j].status = "running"
              /\ u[j].owner = t[j].owner /\ u[j].leaseExpiresAt = t[j].leaseExpiresAt,
           \A j \in DOMAIN u : u[j].key = m /\ u[j].status = "running" =>
              j \in DOMAIN t /\ t[j].key = m /\ t[j].status = "running"
    PROVE  SameGrip(t, u, m, at)
  <1>1. CASE m \in KeysThatAre(t, "running")
    <2>1. PICK j \in DOMAIN t : t[j].key = m /\ t[j].status = "running"
      BY <1>1 DEF KeysThatAre
    <2>2. RunningRow(t, m) = t[j]
      BY <2>1, RunningRowIs
    <2>3. RunningRow(u, m) = u[j] /\ m \in KeysThatAre(u, "running")
      BY <2>1, RunningRowIs
    <2> QED BY <1>1, <2>1, <2>2, <2>3 DEF SameGrip, InHand, Granted
  <1>2. CASE m \notin KeysThatAre(t, "running")
    <2>1. m \notin KeysThatAre(u, "running")
      BY <1>2 DEF KeysThatAre
    <2> QED BY <1>2, <2>1 DEF SameGrip, InHand, Granted
  <1> QED BY <1>1, <1>2

(* A key whose running row is i is in the hand of i's owner. *)
LEMMA InHandIs ==
    ASSUME NEW t \in Table, Unique(t), NEW i \in DOMAIN t, t[i].status = "running", NEW at
    PROVE  /\ InHand(t)[t[i].key] = <<t[i].owner, KindOf[t[i].key]>>
           /\ t[i].key \in Granted(t, at) <=> at < t[i].leaseExpiresAt
  BY RunningRowIs DEF InHand, Granted

(* A key without a running row is in nobody's hand. *)
LEMMA InNobodysHand ==
    ASSUME NEW t \in Table, NEW m \in Keys, NEW at,
           \A j \in DOMAIN t : t[j].key = m => t[j].status # "running"
    PROVE  InHand(t)[m] = NoLoop /\ m \notin Granted(t, at)
  BY DEF InHand, Granted, KeysThatAre

(* Granted work has a key. *)
LEMMA GrantedAreKeys ==
    ASSUME NEW t \in Table, NEW at
    PROVE  Granted(t, at) \subseteq Keys /\ KeysThatAre(t, "pending") \subseteq Keys
  BY RowOfTable DEF Granted, KeysThatAre, Row

-----------------------------------------------------------------------------
(* Running rows have owners: only a claim makes a row run. *)
LEMMA RunningStaysOwned ==
    ASSUME QueueInv, RunningIsOwned(items), [Next]_vars
    PROVE  RunningIsOwned(items')
  <1>1. items \in Table /\ now \in Nat
    BY DEF QueueInv, TypeOK, Table
  <1>2. ASSUME NEW key \in Keys, EnqueueBackgroundWork(key) PROVE RunningIsOwned(items')
    <2>1. Grown(items, items')
      BY <1>1, <1>2, EnqueueGrows DEF EnqueueBackgroundWork
    <2> QED BY <2>1 DEF RunningIsOwned, Grown
  <1>3. ASSUME NEW owner \in Owners, NEW kind \in Kinds, ClaimBackgroundWork(owner, kind)
        PROVE  RunningIsOwned(items')
    <2>1. PICK i \in DOMAIN items : items' = ClaimRow(items, i, owner, now + Lease)
      BY <1>3 DEF ClaimBackgroundWork
    <2>2. items[i] \in Row(Keys, Owners)
      BY <1>1, RowOfTable
    <2>3. /\ DOMAIN items' = DOMAIN items /\ items'[i].owner = owner
          /\ \A j \in DOMAIN items : j # i => items'[j] = items[j]
      BY <2>1, <2>2 DEF ClaimRow, Row
    <2> QED BY <2>3 DEF RunningIsOwned
  <1>4. ASSUME NEW owner \in Owners, NEW kind \in Kinds, Settle(owner, kind)
        PROVE  RunningIsOwned(items')
    <2>1. CASE items' = items
      BY <2>1
    <2>2. CASE items' # items
      <3> DEFINE i == hold[<<owner, kind>>].item
      <3>1. PICK c \in Table, status \in Statuses :
               Settled(items, c, i, status) /\ Grown(c, items')
        BY <1>4, <2>2, SettlementOutcome
      <3>2. RunningIsOwned(c)
        BY <3>1 DEF RunningIsOwned, Settled
      <3> QED BY <3>1, <3>2 DEF RunningIsOwned, Grown
    <2> QED BY <2>1, <2>2
  <1>5. ASSUME NEW i \in DOMAIN items, RequeueBackgroundWork(i) PROVE RunningIsOwned(items')
    <2>1. items[i] \in Row(Keys, Owners)
      BY <1>1, RowOfTable
    <2>2. /\ DOMAIN items' = DOMAIN items /\ items'[i].status = "pending"
          /\ \A j \in DOMAIN items : j # i => items'[j] = items[j]
      BY <1>5, <2>1 DEF RequeueBackgroundWork, RequeueRow, Row
    <2> QED BY <2>2 DEF RunningIsOwned
  <1>6. ASSUME NEW owner \in Owners, Start(owner) \/ Crash(owner) PROVE items' = items
    BY <1>6 DEF Start, Crash
  <1>7. CASE Tick \/ UNCHANGED vars
    BY <1>7 DEF Tick, vars
  <1> QED BY <1>2, <1>3, <1>4, <1>5, <1>6, <1>7 DEF Next

-----------------------------------------------------------------------------
(* A loop that stops without touching the table. *)
LEMMA StopStep ==
    ASSUME items' = items, now' = now,
           \A l \in Loops : hold'[l] = hold[l] \/ hold'[l].item = 0
    PROVE  Promise!Stop
  <1>1. ASSUME NEW l \in Loops PROVE Task'[l] \in {Task[l], NoKey}
    BY <1>1 DEF Task
  <1> QED BY <1>1 DEF Promise!Stop

(* A row of a key without active rows becomes pending: an enqueue or a       *)
(* requeue asks for the key.                                                 *)
LEMMA AskStep ==
    ASSUME QueueInv, QueueInv', NEW k \in Keys, ActiveIds(items, k) = {},
           NEW n \in DOMAIN items', items'[n].key = k, items'[n].status = "pending",
           n \in DOMAIN items => items[n].key = k,
           DOMAIN items \subseteq DOMAIN items', DOMAIN items' \subseteq DOMAIN items \cup {n},
           \A j \in DOMAIN items : j # n => items'[j] = items[j],
           UNCHANGED <<hold, now>>
    PROVE  Promise!Ask(k)
  <1>1. items \in Table /\ Unique(items) /\ items' \in Table /\ Unique(items')
    BY DEF QueueInv, TypeOK, Table, ActiveUnique, Unique
  <1>2. \A j \in DOMAIN items : items[j].key = k => items[j].status \notin {"pending", "running"}
    BY DEF ActiveIds, Active
  <1>3. k \notin KeysThatAre(items, "pending") /\ InHand(items)[k] = NoLoop
    BY <1>1, <1>2, InNobodysHand DEF KeysThatAre
  <1>4. KeysThatAre(items', "pending") = KeysThatAre(items, "pending") \cup {k}
    <2>1. ASSUME NEW j \in DOMAIN items, items[j].status = "pending"
          PROVE  j \in DOMAIN items' /\ items'[j] = items[j]
      BY <2>1, <1>2
    <2>2. ASSUME NEW j \in DOMAIN items' PROVE j = n \/ (j \in DOMAIN items /\ items'[j] = items[j])
      OBVIOUS
    <2> QED BY <2>1, <2>2 DEF KeysThatAre
  <1>5. ASSUME NEW m \in Keys PROVE SameGrip(items, items', m, now)
    <2>1. \A j \in DOMAIN items : items[j].status = "running" =>
             j \in DOMAIN items' /\ items'[j] = items[j]
      BY <1>2
    <2>2. \A j \in DOMAIN items' : items'[j].status = "running" =>
             j \in DOMAIN items /\ items'[j] = items[j]
      OBVIOUS
    <2> QED BY <1>1, <2>1, <2>2, GripIsKept
  <1>6. InHand(items') = InHand(items)
    BY <1>5 DEF SameGrip, InHand
  <1>7. Granted(items', now) = Granted(items, now)
    BY <1>1, <1>5, GrantedAreKeys DEF SameGrip
  <1>8. Task' = Task
    <2>1. ASSUME NEW l \in Loops, hold[l].item # 0
          PROVE  items'[hold[l].item].key = items[hold[l].item].key
      BY <2>1 DEF QueueInv, TypeOK
    <2> QED BY <2>1 DEF Task
  <1> QED BY <1>3, <1>4, <1>6, <1>7, <1>8 DEF Promise!Ask

(* A claim takes what waits, or what another let its lease run out on. *)
LEMMA TakeStep ==
    ASSUME QueueInv, QueueInv', RunningIsOwned(items),
           NEW owner \in Owners, NEW kind \in Kinds, ClaimBackgroundWork(owner, kind)
    PROVE  \E k \in Keys : Promise!Take(<<owner, kind>>, k)
  <1> DEFINE me == <<owner, kind>>
  <1>1. /\ items \in Table /\ Unique(items) /\ items' \in Table /\ Unique(items')
        /\ now \in Nat /\ me \in Loops
    BY DEF QueueInv, TypeOK, Table, ActiveUnique, Unique, Loops
  <1>2. PICK i \in DOMAIN items :
          /\ FirstDue(items, KeysOf(kind), now, i)
          /\ items' = ClaimRow(items, i, owner, now + Lease)
          /\ hold' = [hold EXCEPT ![me] = [item |-> i,
                         attempts |-> items[i].attempts + 1, expires |-> now + Lease]]
    BY DEF ClaimBackgroundWork
  <1> DEFINE k == items[i].key
  <1>3. /\ items[i] \in Row(Keys, Owners) /\ KindOf[k] = kind /\ Claimable(items[i], now)
        /\ i # 0
    BY <1>1, <1>2, RowOfTable, LenProperties DEF FirstDue, DueIds, KeysOf, Table
  <1>4. /\ k \in Keys /\ items[i].leaseExpiresAt \in Nat
        /\ Active(items[i])
    BY <1>3 DEF Row, Claimable, Active
  <1>5. /\ DOMAIN items' = DOMAIN items
        /\ items'[i].key = k /\ items'[i].status = "running"
        /\ items'[i].owner = owner /\ items'[i].leaseExpiresAt = now + Lease
        /\ \A j \in DOMAIN items : j # i => items'[j] = items[j]
    BY <1>2, <1>3 DEF ClaimRow, Row
  <1>6. now' = now /\ hold[me] = Idle
    BY DEF ClaimBackgroundWork
  <1>7. Task[me] = NoKey
    BY <1>1, <1>6 DEF Task, Idle
  <1>8. k \in KeysThatAre(items, "pending") \/ (InHand(items)[k] # NoLoop /\ k \notin Granted(items, now))
    <2>1. CASE items[i].status = "pending"
      BY <2>1 DEF KeysThatAre
    <2>2. CASE items[i].status = "running" /\ items[i].leaseExpiresAt <= now
      <3>1. /\ InHand(items)[k] = <<items[i].owner, KindOf[k]>>
            /\ k \in Granted(items, now) <=> now < items[i].leaseExpiresAt
        BY <1>1, <2>2, InHandIs
      <3>2. items[i].owner # NoOwner
        BY <2>2, QueueAssumption DEF RunningIsOwned
      <3> QED BY <3>1, <3>2, <2>2, <1>1, <1>4 DEF NoLoop
    <2> QED BY <2>1, <2>2, <1>3 DEF Claimable
  <1>9. KeysThatAre(items', "pending") = KeysThatAre(items, "pending") \ {k}
    <2>1. \A j \in DOMAIN items : items[j].key = k /\ items[j].status = "pending" => j = i
      BY <1>1, <1>4 DEF Unique, Active
    <2> HIDE DEF k
    <2>2. ASSUME NEW m \in KeysThatAre(items', "pending")
          PROVE  m \in KeysThatAre(items, "pending") /\ m # k
      <3>1. PICK j \in DOMAIN items' : items'[j].key = m /\ items'[j].status = "pending"
        BY <2>2 DEF KeysThatAre
      <3>2. j # i /\ items'[j] = items[j]
        BY <3>1, <1>5
      <3> QED BY <3>1, <3>2, <2>1, <1>5 DEF KeysThatAre
    <2>3. ASSUME NEW m \in KeysThatAre(items, "pending"), m # k
          PROVE  m \in KeysThatAre(items', "pending")
      <3>1. PICK j \in DOMAIN items : items[j].key = m /\ items[j].status = "pending"
        BY <2>3 DEF KeysThatAre
      <3>2. items'[j] = items[j]
        BY <3>1, <2>3, <1>5 DEF k
      <3> QED BY <3>1, <3>2, <1>5 DEF KeysThatAre
    <2> QED BY <2>2, <2>3
  <1>10. ASSUME NEW m \in Keys, m # k PROVE SameGrip(items, items', m, now)
    BY <1>1, <1>5, <1>10, GripIsKept
  <1>11. /\ InHand(items')[k] = me
         /\ k \in Granted(items', now)
    <2>1. now < now + Lease
      BY <1>1, QueueAssumption
    <2> QED BY <2>1, <1>1, <1>3, <1>5, InHandIs
  <1>12. InHand(items') = [InHand(items) EXCEPT ![k] = me]
    BY <1>4, <1>10, <1>11 DEF SameGrip, InHand
  <1>13. Granted(items', now) = Granted(items, now) \cup {k}
    BY <1>1, <1>10, <1>11, GrantedAreKeys DEF SameGrip
  <1>14. Task' = [Task EXCEPT ![me] = k]
    <2>1. hold'[me].item = i /\ \A l \in Loops : l # me => hold'[l] = hold[l]
      BY <1>1, <1>2 DEF QueueInv, TypeOK
    <2>2. ASSUME NEW l \in Loops, l # me, hold[l].item # 0
          PROVE  items'[hold[l].item].key = items[hold[l].item].key
      BY <2>2, <1>5 DEF QueueInv, TypeOK
    <2> QED BY <2>1, <2>2, <1>1, <1>3, <1>5 DEF Task
  <1> QED BY <1>4, <1>6, <1>7, <1>8, <1>9, <1>12, <1>13, <1>14 DEF Promise!Take

(* A settlement whose fence holds ends the loop's work, whatever follows. *)
LEMMA SettleStep ==
    ASSUME QueueInv, QueueInv', NEW owner \in Owners, NEW kind \in Kinds,
           Settle(owner, kind), items' # items
    PROVE  \E k \in Keys : Promise!Settle(<<owner, kind>>, k)
  <1> DEFINE me == <<owner, kind>>
             i  == hold[<<owner, kind>>].item
             k  == items[i].key
  <1>1. /\ items \in Table /\ Unique(items) /\ items' \in Table /\ Unique(items')
        /\ me \in Loops
    BY DEF QueueInv, TypeOK, Table, ActiveUnique, Unique, Loops
  <1>2. Holding(owner, kind) /\ Release(owner, kind) /\ now' = now
    BY SettleReleases
  <1>3. i # 0 /\ i \in DOMAIN items /\ items[i] \in Row(Keys, Owners)
    BY <1>1, <1>2, RowOfTable DEF QueueInv, TypeOK, Holding
  <1>4. k \in Keys /\ KindOf[k] = kind
    BY <1>1, <1>3 DEF Row, QueueInv, HoldInv
  <1>5. /\ items[i].status = "running" /\ items[i].owner = owner
        /\ \E c \in Table, status \in Statuses :
              Settled(items, c, i, status) /\ Grown(c, items')
    BY SettlementOutcome DEF Fenced
  <1>6. PICK c \in Table, status \in Statuses :
          Settled(items, c, i, status) /\ Grown(c, items')
    BY <1>5
  <1>7. ASSUME NEW j \in DOMAIN items
        PROVE  /\ j \in DOMAIN items' /\ items'[j].key = items[j].key
               /\ j # i => /\ items'[j].status = items[j].status
                          /\ items'[j].owner = items[j].owner
                          /\ items'[j].leaseExpiresAt = items[j].leaseExpiresAt
    BY <1>6 DEF Settled, Grown
  <1>8. ASSUME NEW j \in DOMAIN items', items'[j].status = "running"
        PROVE  j \in DOMAIN items /\ j # i
    BY <1>6, <1>8 DEF Settled, Grown
  <1> HIDE DEF k, i
  <1>9. Task[me] = k /\ InHand(items)[k] = me
    BY <1>1, <1>3, <1>4, <1>5, InHandIs DEF Task, i, k
  <1>10. KeysThatAre(items, "pending") \subseteq KeysThatAre(items', "pending")
    BY <1>5, <1>7 DEF KeysThatAre
  <1>11. ASSUME NEW m \in KeysThatAre(items', "pending") \ {k}
         PROVE  InHand(items)[m] = NoLoop
    <2>1. PICK p \in DOMAIN items' : items'[p].key = m /\ items'[p].status = "pending"
      BY <1>11 DEF KeysThatAre
    <2>2. ASSUME NEW j \in DOMAIN items, items[j].key = m, items[j].status = "running"
          PROVE  FALSE
      <3>1. j # i
        BY <1>11, <2>2 DEF k
      <3>2. j \in DOMAIN items' /\ items'[j].key = m /\ items'[j].status = "running"
        BY <2>2, <3>1, <1>7
      <3> QED BY <2>1, <3>2, <1>1 DEF Unique, Active
    <2>3. m \in Keys
      BY <1>1, GrantedAreKeys
    <2> QED BY <2>2, <2>3, <1>1, InNobodysHand
  <1>12. ASSUME NEW j \in DOMAIN items', items'[j].key = k
         PROVE  items'[j].status # "running"
    <2>1. SUFFICES ASSUME items'[j].status = "running" PROVE FALSE
      OBVIOUS
    <2>2. j \in DOMAIN items /\ j # i /\ items[j].key = k /\ items[j].status = "running"
      BY <2>1, <1>7, <1>8, <1>12
    <2> QED BY <2>2, <1>1, <1>3, <1>5 DEF Unique, Active, k
  <1>13. InHand(items')[k] = NoLoop /\ k \notin Granted(items', now)
    BY <1>1, <1>4, <1>12, InNobodysHand
  <1>14. ASSUME NEW m \in Keys, m # k PROVE SameGrip(items, items', m, now)
    <2>1. \A j \in DOMAIN items : items[j].key = m => j # i
      BY <1>14 DEF k
    <2> QED BY <2>1, <1>1, <1>7, <1>8, GripIsKept
  <1>15. InHand(items') = [InHand(items) EXCEPT ![k] = NoLoop]
    BY <1>4, <1>13, <1>14 DEF SameGrip, InHand
  <1>16. Granted(items', now) = Granted(items, now) \ {k}
    BY <1>1, <1>13, <1>14, GrantedAreKeys DEF SameGrip
  <1>17. Task' = [Task EXCEPT ![me] = NoKey]
    <2>1. hold'[me].item = 0 /\ \A l \in Loops : l # me => hold'[l] = hold[l]
      BY <1>1, <1>2 DEF QueueInv, TypeOK, Release, Idle
    <2>2. ASSUME NEW l \in Loops, l # me, hold[l].item # 0
          PROVE  items'[hold[l].item].key = items[hold[l].item].key
      BY <2>2, <1>7 DEF QueueInv, TypeOK
    <2> QED BY <2>1, <2>2, <1>1 DEF Task
  <1> QED BY <1>2, <1>4, <1>9, <1>10, <1>11, <1>15, <1>16, <1>17 DEF Promise!Settle

(* Time only lets grants lapse. *)
LEMMA LapseStep ==
    ASSUME QueueInv, Tick
    PROVE  Promise!Lapse
  <1>1. items \in Table /\ now \in Nat /\ now' = now + 1 /\ UNCHANGED <<items, hold>>
    BY DEF QueueInv, TypeOK, Table, Tick
  <1>2. ASSUME NEW m \in Granted(items, now') PROVE m \in Granted(items, now)
    <2>1. PICK i \in DOMAIN items : items[i].key = m /\ items[i].status = "running"
      BY <1>2 DEF Granted, KeysThatAre
    <2>2. Unique(items) /\ items[i].leaseExpiresAt \in Nat
      BY <1>1, RowOfTable DEF QueueInv, ActiveUnique, Unique, Row
    <2> QED BY <1>1, <1>2, <2>1, <2>2, InHandIs
  <1> QED BY <1>1, <1>2 DEF Promise!Lapse, Task

-----------------------------------------------------------------------------
(* Every transaction on background_work_items is a step of ExclusiveWork, or *)
(* none: a late settlement ends and hands over nothing, a running row passes *)
(* to another worker only once its lease has run out, and a hand-over is one *)
(* change.                                                                   *)
THEOREM QueueImplementsPromise == Spec => QueueKeepsPromise
  <1>1. Init => RunningIsOwned(items) /\ Promise!Init
    <2> SUFFICES ASSUME Init PROVE RunningIsOwned(items) /\ Promise!Init
      OBVIOUS
    <2>1. DOMAIN items = {}
      BY DEF Init
    <2>2. KeysThatAre(items, "pending") = {} /\ KeysThatAre(items, "running") = {}
      BY <2>1 DEF KeysThatAre
    <2> QED BY <2>1, <2>2 DEF Init, RunningIsOwned, Promise!Init, InHand, Granted, Task, Idle
  <1>2. QueueInv /\ QueueInv' /\ RefinementInv /\ [Next]_vars => RefinementInv'
    BY RunningStaysOwned DEF RefinementInv
  <1>3. QueueInv /\ QueueInv' /\ Init => RefinementInv
    BY <1>1 DEF RefinementInv
  <1>4. RefinementInv /\ RefinementInv' /\ [Next]_vars => [Promise!Next]_(Promise!vars)
    <2> SUFFICES ASSUME QueueInv, QueueInv', RunningIsOwned(items), [Next]_vars
                 PROVE  [Promise!Next]_(Promise!vars)
      BY DEF RefinementInv
    <2>1. items \in Table /\ now \in Nat /\ DOMAIN items = 1..Len(items) /\ Len(items) \in Nat
      BY LenProperties DEF QueueInv, TypeOK, Table
    <2>2. ASSUME NEW key \in Keys, EnqueueBackgroundWork(key)
          PROVE  [Promise!Next]_(Promise!vars)
      <3>1. UNCHANGED <<hold, now>> /\ items' = Enqueue(items, key, now)
        BY <2>2 DEF EnqueueBackgroundWork
      <3>2. CASE ActiveIds(items, key) # {}
        <4>1. items' = items
          BY <3>1, <3>2 DEF Enqueue
        <4> QED BY <3>1, <4>1 DEF Promise!vars, Task
      <3>3. CASE ActiveIds(items, key) = {}
        <4> DEFINE n == Len(items) + 1
        <4>1. items' = Append(items, NewRow(key, now))
          BY <3>1, <3>3 DEF Enqueue
        <4>2. NewRow(key, now) \in Row(Keys, Owners)
          BY <2>1 DEF NewRow, Row, Statuses, NoOwner, NoLease
        <4>3. /\ Len(items') = n /\ items'[n] = NewRow(key, now)
              /\ \A j \in 1..Len(items) : items'[j] = items[j]
              /\ DOMAIN items' = 1..n
          BY <4>1, <4>2, <2>1, AppendProperties, LenProperties DEF Table
        <4>4. Promise!Ask(key)
          BY <3>1, <3>3, <4>3, <2>1, AskStep DEF NewRow
        <4> QED BY <4>4 DEF Promise!Next
      <3> QED BY <3>2, <3>3
    <2>3. ASSUME NEW owner \in Owners, NEW kind \in Kinds, ClaimBackgroundWork(owner, kind)
          PROVE  Promise!Next
      BY <2>3, TakeStep DEF Promise!Next, Loops
    <2>4. ASSUME NEW owner \in Owners, NEW kind \in Kinds, Settle(owner, kind)
          PROVE  Promise!Next
      <3>1. CASE items' # items
        BY <2>4, <3>1, SettleStep DEF Promise!Next, Loops
      <3>2. CASE items' = items
        <4>1. Release(owner, kind) /\ now' = now
          BY <2>4, SettleReleases
        <4>2. \A l \in Loops : hold'[l] = hold[l] \/ hold'[l].item = 0
          BY <4>1 DEF Release, Idle, QueueInv, TypeOK
        <4> QED BY <3>2, <4>1, <4>2, StopStep DEF Promise!Next
      <3> QED BY <3>1, <3>2
    <2>5. ASSUME NEW i \in DOMAIN items, RequeueBackgroundWork(i)
          PROVE  Promise!Next
      <3>1. items[i] \in Row(Keys, Owners)
        BY <2>1, RowOfTable
      <3>2. /\ DOMAIN items' = DOMAIN items /\ UNCHANGED <<hold, now>>
            /\ items'[i].key = items[i].key /\ items'[i].status = "pending"
            /\ \A j \in DOMAIN items : j # i => items'[j] = items[j]
        BY <2>5, <3>1 DEF RequeueBackgroundWork, RequeueRow, Row
      <3>3. items[i].key \in Keys /\ ActiveIds(items, items[i].key) = {}
        BY <2>5, <3>1 DEF RequeueBackgroundWork, Requeueable, Row
      <3>4. Promise!Ask(items[i].key)
        BY <3>2, <3>3, AskStep
      <3> QED BY <3>3, <3>4 DEF Promise!Next
    <2>6. ASSUME NEW owner \in Owners, Start(owner) PROVE UNCHANGED Promise!vars
      BY <2>6 DEF Start, Promise!vars, Task
    <2>7. ASSUME NEW owner \in Owners, Crash(owner) PROVE Promise!Next
      <3>1. /\ items' = items /\ now' = now
            /\ \A l \in Loops : hold'[l] = hold[l] \/ hold'[l].item = 0
        BY <2>7 DEF Crash, Idle
      <3> QED BY <3>1, StopStep DEF Promise!Next
    <2>8. CASE Tick
      BY <2>8, LapseStep DEF Promise!Next
    <2>9. CASE UNCHANGED vars
      BY <2>9 DEF vars, Promise!vars, Task
    <2> QED BY <2>2, <2>3, <2>4, <2>5, <2>6, <2>7, <2>8, <2>9 DEF Next
  <1>5. Init => Promise!Init
    BY <1>1
  <1>6. Spec => []RefinementInv
    BY <1>2, <1>3, QueueInvariance, PTL DEF Spec
  <1>7. Spec => Promise!Spec
    BY <1>4, <1>5, <1>6, PTL DEF Spec, Promise!Spec
  <1> QED BY <1>7 DEF QueueKeepsPromise

=============================================================================
