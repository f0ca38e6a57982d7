------------------------------ MODULE WorkItems ------------------------------
(***************************************************************************)
(* The table background_work_items and the statements that                *)
(* internal/db/background_work.go runs on it, as operators from a table to *)
(* the table the committed transaction leaves.                             *)
(*                                                                         *)
(* A table is a sequence of rows; a row's id is its position, because the  *)
(* program only ever appends rows.  The pair (book, kind, payload) is one  *)
(* key.  The main pool has a single connection (SetMaxOpenConns(1)), so a  *)
(* transaction is atomic and each statement below is one step of a caller. *)
(***************************************************************************)
EXTENDS Integers, Sequences

NoOwner == "none"   \* lease_owner IS NULL
NoLease == 0        \* lease_expires_at IS NULL

Statuses == {"pending", "running", "completed", "failed"}

Row(Keys, Owners) ==
    [key: Keys, status: Statuses, attempts: Nat, availableAt: Nat,
     owner: Owners \cup {NoOwner}, leaseExpiresAt: Nat]

NewRow(key, availableAt) ==
    [key |-> key, status |-> "pending", attempts |-> 0,
     availableAt |-> availableAt, owner |-> NoOwner, leaseExpiresAt |-> NoLease]

Active(row) == row.status \in {"pending", "running"}

(* The rows the partial unique index background_work_items_active_unique_idx *)
(* makes at most one of.                                                     *)
ActiveIds(table, key) ==
    {i \in DOMAIN table : table[i].key = key /\ Active(table[i])}

(* INSERT ... ON CONFLICT ... DO NOTHING. *)
Enqueue(table, key, availableAt) ==
    IF ActiveIds(table, key) = {}
    THEN Append(table, NewRow(key, availableAt))
    ELSE table

(* Mutant: a running row is handed out again before its lease ran out. *)
ClaimableWithoutLease(row, now) ==
    row.availableAt <= now /\ Active(row)

(* Mutant: a row whose worker died is never handed out again. *)
ClaimableNeverReclaimed(row, now) ==
    row.availableAt <= now /\ row.status = "pending"

Claimable(row, now) ==
    /\ row.availableAt <= now
    /\ \/ row.status = "pending"
       \/ row.status = "running" /\ row.leaseExpiresAt <= now

(* The rows of one kind (a set of keys) that a claim may take. *)
DueIds(table, keys, now) ==
    {i \in DOMAIN table : table[i].key \in keys /\ Claimable(table[i], now)}

(* ORDER BY available_at, id LIMIT 1. *)
FirstDue(table, keys, now, i) ==
    /\ i \in DueIds(table, keys, now)
    /\ \A j \in DueIds(table, keys, now) :
          \/ table[i].availableAt < table[j].availableAt
          \/ table[i].availableAt = table[j].availableAt /\ i <= j

ClaimRow(table, i, owner, leaseExpiresAt) ==
    [table EXCEPT ![i] = [table[i] EXCEPT !.status = "running",
                                          !.attempts = table[i].attempts + 1,
                                          !.owner = owner,
                                          !.leaseExpiresAt = leaseExpiresAt]]

(* Mutant: WHERE id = ? AND status = 'running', without the owner. *)
FencedByStatusOnly(table, i, owner) == table[i].status = "running"

(* WHERE id = ? AND status = 'running' AND lease_owner = ?: the fence of     *)
(* every settlement.  When it does not hold the statement changes no row and *)
(* the caller gets ErrNotFound.                                              *)
Fenced(table, i, owner) ==
    table[i].status = "running" /\ table[i].owner = owner

CompleteRow(table, i, owner) ==
    IF Fenced(table, i, owner)
    THEN [table EXCEPT ![i] = [@ EXCEPT !.status = "completed",
                                        !.owner = NoOwner,
                                        !.leaseExpiresAt = NoLease]]
    ELSE table

RetryRow(table, i, owner, availableAt) ==
    IF Fenced(table, i, owner)
    THEN [table EXCEPT ![i] = [@ EXCEPT !.status = "pending",
                                        !.availableAt = availableAt,
                                        !.owner = NoOwner,
                                        !.leaseExpiresAt = NoLease]]
    ELSE table

FailRow(table, i, owner) ==
    IF Fenced(table, i, owner)
    THEN [table EXCEPT ![i] = [@ EXCEPT !.status = "failed",
                                        !.owner = NoOwner,
                                        !.leaseExpiresAt = NoLease]]
    ELSE table

(* One turn of the loop over successors: the follow-up is enqueued unless an *)
(* equivalent item is active, and attempts is raised to the successor's own. *)
AddSuccessor(table, succ) ==
    LET queued == Enqueue(table, succ.key, succ.availableAt)
    IN  [i \in DOMAIN queued |->
            IF i \in ActiveIds(queued, succ.key) /\ succ.attempts > queued[i].attempts
            THEN [queued[i] EXCEPT !.attempts = succ.attempts]
            ELSE queued[i]]

(* Mutant: the successors are enqueued although the completion changed no row. *)
SuccessorsUnfenced(table, i, owner, first, second) ==
    AddSuccessor(AddSuccessor(CompleteRow(table, i, owner), first), second)

(* Complete and hand over in one transaction; the item is retired before the *)
(* successors are deduplicated, since one of them may carry its own payload. *)
CompleteWithSuccessors(table, i, owner, first, second) ==
    IF Fenced(table, i, owner)
    THEN AddSuccessor(AddSuccessor(CompleteRow(table, i, owner), first), second)
    ELSE table

(* Mutant: the check for an active twin is left out. *)
RequeueableBesideTwin(table, i) == table[i].status = "failed"

(* Only a failed row whose key has no active row can be put back. *)
Requeueable(table, i) ==
    /\ table[i].status = "failed"
    /\ ActiveIds(table, table[i].key) = {}

RequeueRow(table, i, availableAt) ==
    [table EXCEPT ![i] = [@ EXCEPT !.status = "pending",
                                   !.attempts = 0,
                                   !.availableAt = availableAt,
                                   !.owner = NoOwner,
                                   !.leaseExpiresAt = NoLease]]

=============================================================================
