------------------------------ MODULE WorkQueue ------------------------------
(***************************************************************************)
(* The durable work queue: the table of WorkItems, the worker loops that   *)
(* claim from it and settle what they claimed, the callers that enqueue    *)
(* and requeue, wall-clock time, and process starts and crashes.           *)
(*                                                                         *)
(* A worker id is a fresh uuid per start of a service, so an owner is born *)
(* once and never comes back; one owner runs one sequential loop per kind. *)
(* Handlers are abstracted to the settlements they may end in.  The lock   *)
(* file keeps a second process out of the same database; this module does  *)
(* not rely on it, owners may overlap in any way.                          *)
(***************************************************************************)
EXTENDS WorkItems, FiniteSets

CONSTANTS Keys,         \* (book, kind, payload) identities
          Kinds,        \* work kinds
          KindOf,       \* the kind of each key
          Owners,       \* worker ids, one per service start
          MaxAttempts,  \* attempt cap of a kind's handler
          MaxSuccessorAttempts, \* largest Attempts a successor carries
          Lease,        \* length of a lease
          Delays,       \* backoffs, and delays of deferred successors
          MaxItems,     \* bound: rows ever inserted
          MaxTime       \* bound: last instant of the clock

ASSUME QueueAssumption ==
    /\ KindOf \in [Keys -> Kinds]
    /\ NoOwner \notin Owners
    /\ MaxAttempts \in Nat \ {0}
    /\ MaxSuccessorAttempts \in Nat /\ MaxSuccessorAttempts < MaxAttempts
    /\ Lease \in Nat \ {0}
    /\ Delays \subseteq Nat
    /\ MaxItems \in Nat
    /\ MaxTime \in Nat

VARIABLES items,   \* background_work_items
          hold,    \* per loop: the item record the handler was given
          life,    \* per owner: "new", "up" or "dead"
          now      \* the clock

vars == <<items, hold, life, now>>

Loops == Owners \X Kinds

KeysOf(kind) == {key \in Keys : KindOf[key] = kind}

(* Between claims a loop has no item.  An item record is the claim's copy:   *)
(* its attempts are not read again, its lease is the one it was granted.     *)
Idle == [item |-> 0, attempts |-> 0, expires |-> 0]

Successors(kind) ==
    [key: KeysOf(kind),
     availableAt: {now} \cup {now + d : d \in Delays},
     attempts: 0..MaxSuccessorAttempts]

Init ==
    /\ items = << >>
    /\ hold = [l \in Loops |-> Idle]
    /\ life = [o \in Owners |-> "new"]
    /\ now = 0

EnqueueBackgroundWork(key) ==
    /\ Len(items) < MaxItems
    /\ items' = Enqueue(items, key, now)
    /\ UNCHANGED <<hold, life, now>>

ClaimBackgroundWork(owner, kind) ==
    /\ life[owner] = "up"
    /\ hold[<<owner, kind>>] = Idle
    /\ \E i \in DOMAIN items :
        /\ FirstDue(items, KeysOf(kind), now, i)
        /\ items' = ClaimRow(items, i, owner, now + Lease)
        /\ hold' = [hold EXCEPT ![<<owner, kind>>] =
                       [item |-> i, attempts |-> items[i].attempts + 1,
                        expires |-> now + Lease]]
    /\ UNCHANGED <<life, now>>

Holding(owner, kind) ==
    life[owner] = "up" /\ hold[<<owner, kind>>].item # 0

(* A settlement ends the handler's turn whether or not its fence held. *)
Release(owner, kind) == hold' = [hold EXCEPT ![<<owner, kind>>] = Idle]

CompleteBackgroundWork(owner, kind) ==
    /\ Holding(owner, kind)
    /\ items' = CompleteRow(items, hold[<<owner, kind>>].item, owner)
    /\ Release(owner, kind)
    /\ UNCHANGED <<life, now>>

(* Two successors stand for any list: equal ones are one successor. *)
CompleteBackgroundWorkWithSuccessors(owner, kind, first, second) ==
    /\ Holding(owner, kind)
    /\ Len(items) + 2 <= MaxItems
    /\ items' = CompleteWithSuccessors(items, hold[<<owner, kind>>].item, owner,
                                       first, second)
    /\ Release(owner, kind)
    /\ UNCHANGED <<life, now>>

(* Mutant: the cap is off by one. *)
RetryOnceTooOften(owner, kind, delay) ==
    /\ Holding(owner, kind)
    /\ hold[<<owner, kind>>].attempts <= MaxAttempts
    /\ items' = RetryRow(items, hold[<<owner, kind>>].item, owner, now + delay)
    /\ Release(owner, kind)
    /\ UNCHANGED <<life, now>>

(* The handler failed below its attempt cap. *)
RetryBackgroundWork(owner, kind, delay) ==
    /\ Holding(owner, kind)
    /\ hold[<<owner, kind>>].attempts < MaxAttempts
    /\ items' = RetryRow(items, hold[<<owner, kind>>].item, owner, now + delay)
    /\ Release(owner, kind)
    /\ UNCHANGED <<life, now>>

(* The cap is reached, or the error is one the handler calls terminal. *)
FailBackgroundWork(owner, kind) ==
    /\ Holding(owner, kind)
    /\ items' = FailRow(items, hold[<<owner, kind>>].item, owner)
    /\ Release(owner, kind)
    /\ UNCHANGED <<life, now>>

(* The settlement's own write failed, or the context was cancelled: the      *)
(* handler logs and returns, and the lease is left to expire.                *)
Abandon(owner, kind) ==
    /\ Holding(owner, kind)
    /\ Release(owner, kind)
    /\ UNCHANGED <<items, life, now>>

(* At the clock's last instant nobody requeues: there, and only there, a     *)
(* failing item could be put back for ever without time passing.             *)
RequeueBackgroundWork(i) ==
    /\ now < MaxTime
    /\ Requeueable(items, i)
    /\ items' = RequeueRow(items, i, now)
    /\ UNCHANGED <<hold, life, now>>

Start(owner) ==
    /\ life[owner] = "new"
    /\ life' = [life EXCEPT ![owner] = "up"]
    /\ UNCHANGED <<items, hold, now>>

(* Crash or shutdown: what the owner held is in no memory any more.  The     *)
(* last owner of the bounded set stays, so that the queue is still served.   *)
Crash(owner) ==
    /\ life[owner] = "up"
    /\ \E other \in Owners \ {owner} : life[other] # "dead"
    /\ life' = [life EXCEPT ![owner] = "dead"]
    /\ hold' = [l \in Loops |-> IF l[1] = owner THEN Idle ELSE hold[l]]
    /\ UNCHANGED <<items, now>>

Tick ==
    /\ now < MaxTime
    /\ now' = now + 1
    /\ UNCHANGED <<items, hold, life>>

Settle(owner, kind) ==
    \/ CompleteBackgroundWork(owner, kind)
    \/ \E first, second \in Successors(kind) :
          CompleteBackgroundWorkWithSuccessors(owner, kind, first, second)
    \/ \E delay \in Delays : RetryBackgroundWork(owner, kind, delay)
    \/ FailBackgroundWork(owner, kind)
    \/ Abandon(owner, kind)

Next ==
    \/ \E key \in Keys : EnqueueBackgroundWork(key)
    \/ \E owner \in Owners, kind \in Kinds :
          ClaimBackgroundWork(owner, kind) \/ Settle(owner, kind)
    \/ \E i \in DOMAIN items : RequeueBackgroundWork(i)
    \/ \E owner \in Owners : Start(owner) \/ Crash(owner)
    \/ Tick

Spec == Init /\ [][Next]_vars

(* A handler returns, by whichever settlement. *)
Return(owner, kind) == Holding(owner, kind) /\ Release(owner, kind)

(* A loop that is up claims at every tick of its timer and its handler       *)
(* returns; a service is restarted after a crash; time passes.               *)
Fairness ==
    /\ WF_vars(Tick)
    /\ \A owner \in Owners : WF_vars(Start(owner))
    /\ \A owner \in Owners, kind \in Kinds :
          WF_vars(ClaimBackgroundWork(owner, kind)) /\ WF_hold(Return(owner, kind))

FairSpec == Spec /\ Fairness

-----------------------------------------------------------------------------
(* The table holds rows, a loop holds nothing or a row it claimed, and the   *)
(* clock is a natural number.                                                *)
TypeOK ==
    /\ items \in Seq(Row(Keys, Owners))
    /\ hold \in [Loops -> [item: Nat, attempts: Nat, expires: Nat]]
    /\ \A l \in Loops : hold[l].item \in {0} \cup DOMAIN items
    /\ life \in [Owners -> {"new", "up", "dead"}]
    /\ now \in Nat

(* The partial unique index: enqueue, hand-over, retry and requeue never     *)
(* leave two active rows of one key.                                         *)
ActiveUnique ==
    \A i, j \in DOMAIN items :
        Active(items[i]) /\ Active(items[j]) /\ items[i].key = items[j].key => i = j

(* A handler whose lease has not run out still owns its row: nobody claimed, *)
(* settled or requeued it in the meantime (TestClaimHandsOneItemToOneWorker).*)
LeaseProtects ==
    \A l \in Loops :
        hold[l].item # 0 /\ now < hold[l].expires =>
            /\ items[hold[l].item].status = "running"
            /\ items[hold[l].item].owner = l[1]

(* Work that waits for a retry has attempts left: retry, requeue and         *)
(* hand-over never queue an item whose budget is spent.                      *)
PendingUnderCap ==
    \A i \in DOMAIN items : items[i].status = "pending" => items[i].attempts < MaxAttempts

(* Rows are well formed: typed, with every copy a loop holds naming a row,   *)
(* and never waiting for a retry they may not have.                          *)
RowsAreSound == TypeOK /\ PendingUnderCap

(* A running row is settled only by the loop that holds it for the row's     *)
(* present owner; a stale loop's late settlement changes nothing.            *)
OnlyHolderSettles ==
    [][\A i \in DOMAIN items :
          items[i].status = "running" /\ items'[i].status # "running" =>
              \E kind \in Kinds :
                  /\ hold[<<items[i].owner, kind>>].item = i
                  /\ hold'[<<items[i].owner, kind>>].item = 0]_vars

(* What ties a handler's copy to the table.  An unexpired grant is the lease *)
(* in the row; and while the row names the handler's owner it is the row the *)
(* handler claimed, with at most the attempts a hand-over added to it.       *)
HoldInv ==
    \A l \in Loops : hold[l].item # 0 =>
        LET row == items[hold[l].item] IN
        /\ KindOf[row.key] = l[2]
        /\ now < hold[l].expires =>
              /\ Fenced(items, hold[l].item, l[1])
              /\ row.leaseExpiresAt = hold[l].expires
        /\ Fenced(items, hold[l].item, l[1]) =>
              row.attempts <= hold[l].attempts \/ row.attempts <= MaxSuccessorAttempts

(* The inductive invariant. *)
QueueInv == TypeOK /\ ActiveUnique /\ HoldInv /\ PendingUnderCap

(* Waiting for a worker: due and pending, or left behind by one whose lease  *)
(* has run out.                                                              *)
Waiting(i) ==
    /\ i \in DOMAIN items
    /\ items[i].availableAt <= now
    /\ \/ items[i].status = "pending"
       \/ items[i].status = "running" /\ items[i].leaseExpiresAt <= now

(* Work that is due is taken up by some worker, however crashes, abandoned   *)
(* settlements and newly arriving work are interleaved with it.              *)
DueWorkIsServed == \A i \in 1..MaxItems : Waiting(i) ~> ~Waiting(i)

=============================================================================
