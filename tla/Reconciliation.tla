--------------------------- MODULE Reconciliation ---------------------------
(***************************************************************************)
(* Reconciliation of one account in one commodity, and the ledger writes   *)
(* its checkpoints guard (db/reconciliation.go, db/transactions_write.go,  *)
(* db/transactions_move.go, app/reconciliation.go,                         *)
(* app/transactions_write.go, app/transactions_reconciliation.go).         *)
(*                                                                         *)
(* Each transaction has one posting line in the account; its other lines   *)
(* are in accounts that are not being reconciled.  A ledger write is two   *)
(* steps: the service reads the transaction, names the positions the write *)
(* touches and, for the owner's override, the checkpoints they fall        *)
(* inside; the write transaction comes later, and anything may commit in   *)
(* between.  Reconciliation's own operations decide in one transaction.    *)
(* A version id stands for the immutable facts stored under it, so a       *)
(* session's totals, added up before its transaction, cannot differ from   *)
(* the ones added up in it, and selecting is one step.                     *)
(***************************************************************************)
EXTENDS Integers, Sequences, FiniteSets, FiniteSetsExt

CONSTANTS Txns,           \* transactions with a line in the account
          Dates,          \* the days, as numbers
          PostingDates,   \* the ones a posting may be on
          Amounts,        \* quantities a posting may have
          NewAmounts,     \* the ones a new posting may have
          Balances,       \* statement balances the owner may enter
          Reviews,        \* how an override may be bound to what was reviewed
          Sessions,       \* slots for the sessions that are open at a time
          MaxWrites,      \* bound: ledger writes after a transaction's first
          MaxSeq          \* bound: positions ever given out in one day

ASSUME ReconciliationAssumption ==
    /\ IsFiniteSet(Txns)
    /\ Dates \subseteq Nat
    /\ PostingDates \subseteq Dates
    /\ Amounts \subseteq Int
    /\ NewAmounts \subseteq Amounts
    /\ Balances \subseteq Int
    /\ Reviews \subseteq {"exact", "batch", "unbound"}
    /\ IsFiniteSet(Sessions)
    /\ MaxWrites \in Nat
    /\ MaxSeq \in Nat

VARIABLES txns,         \* the current version of each transaction
          places,       \* per transaction: <<date, account_day_sequence>> of its versions
          sessions,     \* the open reconciliation_sessions, by slot
          checkpoints,  \* reconciliation_checkpoints, by id
          request,      \* the ledger write between its service and its transaction
          writes        \* bound only: ledger writes after a transaction's first

vars == <<txns, places, sessions, checkpoints, request, writes>>

NoRow    == 0
EndOfDay == MaxSeq + 1  \* math.MaxInt64: a position after every one given out

Absent == [status |-> "none", deleted |-> FALSE, version |-> 0, date |-> 0, seq |-> 0,
           amount |-> 0, reconciled |-> FALSE]
Idle   == [op |-> "none"]

(* A slot without an open session.  Of a session that was finished or      *)
(* voided only the status is ever read again, to refuse it.                *)
NoSession == [date |-> 0]

Versions == 0..(MaxWrites + 2)

TxnRow == [status : {"none", "draft", "posted", "voided", "gone"}, deleted : BOOLEAN,
           version : Versions, date : Dates \cup {0}, seq : 0..MaxSeq,
           amount : Amounts \cup {0}, reconciled : BOOLEAN]

OpenSession == [date : Dates, balance : Balances, start : 0..Len(checkpoints),
                startBalance : Balances \cup {0}, selected : SUBSET (Txns \X Versions),
                difference : Int]

Checkpoint == [status : {"active", "invalidated", "voided"}, previous : 0..Len(checkpoints),
               date : Dates, seq : 0..MaxSeq, balance : Balances, lines : SUBSET Txns,
               stood : Int]

Lifecycle == {"void", "unvoid", "delete", "restore"}

Request == [op : {"create", "create_draft", "update", "post"} \cup Lifecycle, txn : Txns,
            version : Versions, date : Dates, amount : Amounts,
            touches : SUBSET (Dates \X Nat), review : Reviews, override : BOOLEAN,
            reviewed : SUBSET DOMAIN checkpoints]

RowOK(t) ==
    LET row == txns[t]
    IN  /\ row.version <= writes + 2
        /\ row.status \in {"none", "gone"} => row = [Absent EXCEPT !.status = row.status]
        /\ row.status \in {"draft", "posted", "voided"} =>
              /\ row.version # 0 /\ row.date \in Dates /\ row.amount \in Amounts
              /\ <<row.date, row.seq>> \in places[t]
        /\ row.deleted => row.status \in {"posted", "voided"}

LedgerOK ==
    /\ writes \in 0..MaxWrites
    /\ txns \in [Txns -> TxnRow]
    /\ places \in [Txns -> SUBSET (Dates \X (1..MaxSeq))]
    /\ \A t \in Txns : RowOK(t)

TypeOK ==
    /\ LedgerOK
    /\ sessions \in [Sessions -> {NoSession} \cup OpenSession]
    /\ checkpoints \in Seq(Checkpoint)
    /\ \A c \in DOMAIN checkpoints : checkpoints[c].previous < c
    /\ request \in {Idle} \cup Request

(***************************************************************************)
(* Checkpoints                                                             *)
(***************************************************************************)
Active == {c \in DOMAIN checkpoints : checkpoints[c].status = "active"}

(* ORDER BY statement_date DESC, id DESC LIMIT 1 *)
latestActiveReconciliationCheckpoint ==
    IF Active = {} THEN NoRow
    ELSE CHOOSE c \in Active : \A d \in Active :
            \/ checkpoints[d].date < checkpoints[c].date
            \/ checkpoints[d].date = checkpoints[c].date /\ d <= c

(* A checkpoint and the ones its starting balance was carried from. *)
Chain[c \in DOMAIN checkpoints] ==
    {c} \cup (IF checkpoints[c].previous = NoRow THEN {} ELSE Chain[checkpoints[c].previous])

(* Mutant: a voided checkpoint no longer covers, though one that starts    *)
(* from it does                                                            *)
OnlyActiveCovers == Active

coveringCheckpoints == UNION {Chain[c] : c \in Active}

Covered == UNION {checkpoints[c].lines : c \in coveringCheckpoints}

(* Mutant: the boundary is exclusive *)
ActiveRefsAfter(at) ==
    {c \in Active : \/ checkpoints[c].date > at[1]
                    \/ checkpoints[c].date = at[1] /\ checkpoints[c].seq > at[2]}

(* The one per-boundary selector: the active checkpoints whose boundary is *)
(* at or after a position <<date, sequence>>.                              *)
activeCheckpointRefsAtOrAfter(at) ==
    {c \in Active : \/ checkpoints[c].date > at[1]
                    \/ checkpoints[c].date = at[1] /\ checkpoints[c].seq >= at[2]}

periodScopedCheckpointInvalidationRefs(positions) ==
    UNION {activeCheckpointRefsAtOrAfter(p) : p \in positions}

(* Mutant: an override covers whatever is in the way by now *)
OverrideAnything(refs, override, review, reviewed) == override \/ refs = {}

(* One write is reviewed for exactly the checkpoints it takes out of use;  *)
(* a row of an import batch for some of the batch's, which are reviewed as *)
(* one set; an override without a reviewed set is bound to none.  (Only    *)
(* previews, which roll back, write with an unbound one.)                  *)
bindCheckpointOverride(refs, override, review, reviewed) ==
    IF override
    THEN \/ review = "exact" /\ refs = reviewed
         \/ review = "batch" /\ refs \subseteq reviewed
         \/ review = "unbound"
    ELSE refs = {}

Invalidated(refs) ==
    [c \in DOMAIN checkpoints |->
        IF c \in refs THEN [checkpoints[c] EXCEPT !.status = "invalidated"] ELSE checkpoints[c]]

(***************************************************************************)
(* The ledger                                                              *)
(***************************************************************************)
InLedger(row) == row.status = "posted" /\ ~row.deleted

Total(rows, S) ==
    LET Of(t) == IF InLedger(rows[t]) THEN rows[t].amount ELSE 0
    IN  MapThenSumSet(Of, S)

(* Inside the inclusive boundary of a checkpoint. *)
Inside(row, date, seq) == row.date < date \/ (row.date = date /\ row.seq <= seq)

PeriodBalance(rows, date, seq) ==
    LET In == {t \in Txns : InLedger(rows[t]) /\ Inside(rows[t], date, seq)}
        Of(t) == rows[t].amount
    IN  MapThenSumSet(Of, In)

(* The greatest place a version that still exists has in a day. *)
lastSeq(date) ==
    Max({0} \cup {p[2] : p \in {p \in UNION {places[t] : t \in Txns} : p[1] = date}})

(* A new version of a transaction's row on a day: its place in the         *)
(* account's register is kept unless the day changes.                      *)
allocateOrInheritAccountDaySeq(t, date) ==
    IF txns[t].status # "none" /\ txns[t].date = date THEN txns[t].seq ELSE lastSeq(date) + 1

NewWrite == writes < MaxWrites /\ writes' = writes + 1

Placed(t, row) ==
    LET seq == allocateOrInheritAccountDaySeq(t, row.date)
    IN  /\ seq <= MaxSeq
        /\ IF txns[t].status = "none" THEN UNCHANGED writes ELSE NewWrite
        /\ txns' = [txns EXCEPT ![t] = [row EXCEPT !.seq = seq, !.version = txns[t].version + 1]]
        /\ places' = [places EXCEPT ![t] = @ \cup {<<row.date, seq>>}]

Position(t) == {<<txns[t].date, txns[t].seq>>}

(***************************************************************************)
(* Ledger writes: the service's half.  A checkpoint in the way refuses the *)
(* write unless the owner overrides the set the preview named: its own, or *)
(* for a new posting of an import batch that of the batch, in which        *)
(* another row may go to the end of another day.                           *)
(***************************************************************************)
BatchRefs(refs) == {refs} \cup {refs \cup activeCheckpointRefsAtOrAfter(<<d, EndOfDay>>) : d \in PostingDates}

Prepared(op, t, date, amount, touches) ==
    LET refs == periodScopedCheckpointInvalidationRefs(touches)
    IN  /\ request = Idle
        /\ txns[t].status # "none" => writes < MaxWrites
        /\ \E review \in Reviews :
              /\ review = "batch" => op = "create"
              /\ \E reviewed \in IF review = "batch" THEN BatchRefs(refs) ELSE {refs} :
                    request' = [op |-> op, txn |-> t, version |-> txns[t].version, date |-> date,
                                amount |-> amount, touches |-> touches, review |-> review,
                                override |-> review = "unbound" \/ reviewed # {},
                                reviewed |-> reviewed]
        /\ UNCHANGED <<txns, places, sessions, checkpoints, writes>>

(* reconciliationCandidatesFromSpec: a new posting goes to the end of its  *)
(* day; a draft touches nothing.                                           *)
PrepareCreate(t, status, date, amount) ==
    /\ txns[t].status = "none"
    /\ Prepared(IF status = "draft" THEN "create_draft" ELSE "create", t, date, amount,
                IF status = "draft" THEN {} ELSE {<<date, EndOfDay>>})

(* reconciliationCandidates: where a changed posting is, and the end of    *)
(* the day it goes to.                                                     *)
PrepareUpdate(t, date, amount) ==
    /\ txns[t].status \in {"draft", "posted"}
    /\ Prepared("update", t, date, amount,
                IF txns[t].status = "draft" \/ (date = txns[t].date /\ amount = txns[t].amount)
                THEN {} ELSE Position(t) \cup {<<date, EndOfDay>>})

(* PostTransaction promotes a draft with its stored journal. *)
PreparePost(t) ==
    /\ txns[t].status = "draft"
    /\ Prepared("post", t, txns[t].date, txns[t].amount,
                Position(t) \cup {<<txns[t].date, EndOfDay>>})

PrepareLifecycle(t, op) ==
    /\ CASE op = "void"    -> txns[t].status = "posted"
         [] op = "unvoid"  -> ~txns[t].deleted /\ txns[t].status = "voided"
         [] op = "delete"  -> ~txns[t].deleted /\ txns[t].status \in {"posted", "voided"}
         [] op = "restore" -> txns[t].deleted
    /\ Prepared(op, t, txns[t].date, txns[t].amount, Position(t))

(***************************************************************************)
(* Ledger writes: the transaction                                          *)
(***************************************************************************)
requireExpectedVersionTx == request.version = txns[request.txn].version

(* enforceCheckpointBoundaryTx, the last step of every write *)
enforceCheckpointBoundaryTx ==
    LET refs == periodScopedCheckpointInvalidationRefs(request.touches)
    IN  /\ bindCheckpointOverride(refs, request.override, request.review, request.reviewed)
        /\ checkpoints' = Invalidated(refs)

CreateTransaction ==
    /\ request.op \in {"create", "create_draft"}
    /\ Placed(request.txn,
              [Absent EXCEPT !.status = IF request.op = "create" THEN "posted" ELSE "draft",
                             !.date = request.date, !.amount = request.amount])
    /\ enforceCheckpointBoundaryTx

(* A posting whose facts the edit changes goes back to uncleared. *)
UpdateTransaction ==
    LET row == txns[request.txn]
    IN  /\ request.op \in {"update", "post"}
        /\ requireExpectedVersionTx
        /\ row.status # "voided"
        /\ ~row.deleted
        /\ Placed(request.txn,
                  [row EXCEPT !.status = IF request.op = "post" THEN "posted" ELSE @,
                              !.date = request.date, !.amount = request.amount,
                              !.reconciled = @ /\ request.date = row.date
                                               /\ request.amount = row.amount])
        /\ enforceCheckpointBoundaryTx

VoidTransaction ==
    LET row == txns[request.txn]
    IN  /\ request.op = "void"
        /\ requireExpectedVersionTx
        /\ row.status # "voided"
        /\ ~row.deleted
        /\ Placed(request.txn, [row EXCEPT !.status = "voided"])
        /\ enforceCheckpointBoundaryTx

(* The version before the void is the current one with its old status. *)
UnvoidTransaction ==
    LET row == txns[request.txn]
    IN  /\ request.op = "unvoid"
        /\ requireExpectedVersionTx
        /\ ~row.deleted
        /\ row.status = "voided"
        /\ Placed(request.txn, [row EXCEPT !.status = "posted"])
        /\ enforceCheckpointBoundaryTx

(* Soft delete and restore set a flag of the transaction, not a version. *)
SetTransactionDeleted ==
    /\ request.op \in {"delete", "restore"}
    /\ requireExpectedVersionTx
    /\ txns[request.txn].deleted # (request.op = "delete")
    /\ txns' = [txns EXCEPT ![request.txn].deleted = request.op = "delete"]
    /\ NewWrite
    /\ UNCHANGED places
    /\ enforceCheckpointBoundaryTx

WriteCommits ==
    /\ \/ CreateTransaction
       \/ UpdateTransaction
       \/ VoidTransaction
       \/ UnvoidTransaction
       \/ SetTransactionDeleted
    /\ request' = Idle
    /\ UNCHANGED sessions

(* The transaction refuses the write, or the caller is gone. *)
WriteRefused ==
    /\ request # Idle
    /\ request' = Idle
    /\ UNCHANGED <<txns, places, sessions, checkpoints, writes>>

(* ApproveTransaction copies the journal into a new version, bound to no   *)
(* version the owner saw.                                                  *)
ApproveTransaction(t) ==
    /\ txns[t].status \in {"draft", "posted"}
    /\ ~txns[t].deleted
    /\ Placed(t, txns[t])
    /\ UNCHANGED <<sessions, checkpoints, request>>

(* A draft that was never posted is removed with its versions, and the     *)
(* places they held are free again.                                        *)
DeleteDraftTransaction(t) ==
    /\ txns[t].status = "draft"
    /\ NewWrite
    /\ txns' = [txns EXCEPT ![t] = [Absent EXCEPT !.status = "gone"]]
    /\ places' = [places EXCEPT ![t] = {}]
    /\ UNCHANGED <<sessions, checkpoints, request>>

(* A posting changes places with its neighbour of the day.  The override,  *)
(* when one is needed, names the set an earlier refusal answered with; a   *)
(* set that is stale is refused again.                                     *)
MovePosting(t, u) ==
    LET day   == {v \in Txns : txns[v].version # 0 /\ ~txns[v].deleted
                                /\ txns[v].date = txns[t].date}
        low   == txns[t].seq
        high  == txns[u].seq
        refs  == activeCheckpointRefsAtOrAfter(<<txns[t].date, low>>)
        cross == \E c \in refs : checkpoints[c].date = txns[t].date /\ checkpoints[c].seq < high
    IN  /\ {t, u} \subseteq day
        /\ low < high
        /\ ~\E v \in day : low < txns[v].seq /\ txns[v].seq < high
        /\ NewWrite
        /\ txns' = [txns EXCEPT ![t].seq = high, ![t].version = @ + 1,
                                ![u].seq = low, ![u].version = @ + 1]
        /\ places' = [places EXCEPT ![t] = @ \cup Position(u), ![u] = @ \cup Position(t)]
        /\ checkpoints' = Invalidated(IF cross THEN refs ELSE {})
        /\ UNCHANGED <<sessions, request>>

(***************************************************************************)
(* Sessions                                                                *)
(***************************************************************************)
Open == {s \in Sessions : sessions[s] # NoSession}

CreateReconciliationSession(s, date, balance) ==
    LET start == latestActiveReconciliationCheckpoint
    IN  /\ sessions[s] = NoSession
        /\ sessions' = [sessions EXCEPT ![s] =
              [date |-> date, balance |-> balance, start |-> start,
               startBalance |-> IF start = NoRow THEN 0 ELSE checkpoints[start].balance,
               selected |-> {}, difference |-> 0]]
        /\ UNCHANGED <<txns, places, checkpoints, request, writes>>

(* The postings a session may select, as <<transaction, version>>. *)
reconciliationCandidates(s) ==
    {<<t, txns[t].version>> : t \in {t \in Txns : /\ InLedger(txns[t])
                                                  /\ txns[t].date <= sessions[s].date
                                                  /\ t \notin Covered}}

SelectedLines(s) == {p[1] : p \in sessions[s].selected}

reconciliationTotals(s, postings) ==
    sessions[s].balance - (sessions[s].startBalance + Total(txns, {p[1] : p \in postings}))

(* A start selects the cleared and the once-reconciled candidates, an      *)
(* update any of them.                                                     *)
ReplaceReconciliationSessionSelection(s, postings) ==
    /\ s \in Open
    /\ postings \subseteq reconciliationCandidates(s)
    /\ sessions' = [sessions EXCEPT ![s].selected = postings,
                                    ![s].difference = reconciliationTotals(s, postings)]
    /\ UNCHANGED <<txns, places, checkpoints, request, writes>>

(* appendReconciliationStatusVersions; cleared and uncleared postings are  *)
(* not told apart.                                                         *)
WithStatus(lines, reconciled) ==
    [t \in Txns |-> IF t \in lines
                    THEN [txns[t] EXCEPT !.reconciled = reconciled, !.version = @ + 1]
                    ELSE txns[t]]

StatementSequence(lines, date) ==
    Max({0} \cup {txns[t].seq : t \in {t \in lines : txns[t].date = date}})

(* Mutant: a selected posting may have changed since it was selected *)
AnySelection(s) == SelectedLines(s) # {}

SelectionStands(s) ==
    sessions[s].selected # {} /\ sessions[s].selected \subseteq reconciliationCandidates(s)

FinishReconciliationSession(s) ==
    LET session == sessions[s]
        lines   == SelectedLines(s)
        seq     == StatementSequence(lines, session.date)
    IN  /\ s \in Open
        /\ session.difference = 0
        /\ session.start = latestActiveReconciliationCheckpoint
        /\ SelectionStands(s)
        /\ NewWrite
        /\ txns' = WithStatus(lines, TRUE)
        /\ checkpoints' = Append(checkpoints,
              [status |-> "active", previous |-> session.start, date |-> session.date,
               seq |-> seq, balance |-> session.balance, lines |-> lines,
               stood |-> PeriodBalance(txns, session.date, seq)])
        /\ sessions' = [sessions EXCEPT ![s] = NoSession]
        /\ UNCHANGED <<places, request>>

(* Voiding a finished session only changes its own status; its checkpoint  *)
(* stays as it is.                                                         *)
VoidReconciliationSession(s) ==
    /\ s \in Open
    /\ sessions' = [sessions EXCEPT ![s] = NoSession]
    /\ UNCHANGED <<txns, places, checkpoints, request, writes>>

(* Voiding an invalidated checkpoint only changes what it is called. *)
VoidReconciliationCheckpoint(c) ==
    /\ c \in Active
    /\ checkpoints' = [checkpoints EXCEPT ![c].status = "voided"]
    /\ UNCHANGED <<txns, places, sessions, request, writes>>

(* By hand a posting is only cleared or uncleared, and only while no       *)
(* checkpoint counts its line.                                             *)
ChangePostingReconciliationStatus(t) ==
    /\ InLedger(txns[t])
    /\ t \notin Covered
    /\ NewWrite
    /\ txns' = WithStatus({t}, FALSE)
    /\ UNCHANGED <<places, sessions, checkpoints, request>>

(***************************************************************************)
(* The specification                                                       *)
(***************************************************************************)
Init ==
    /\ txns = [t \in Txns |-> Absent]
    /\ places = [t \in Txns |-> {}]
    /\ sessions = [s \in Sessions |-> NoSession]
    /\ checkpoints = <<>>
    /\ request = Idle
    /\ writes = 0

(* One posting has been reconciled, the others of the ledger have not: a   *)
(* state that creating them and finishing a session of its day leads to.   *)
(* A bounded check that begins here spends its writes on what follows.     *)
InitReconciled ==
    \E t \in Txns :
       /\ txns \in [Txns -> {Absent} \cup
             [status : {"posted"}, deleted : {FALSE}, version : {1, 2}, date : PostingDates,
              seq : 1..MaxSeq, amount : Amounts, reconciled : BOOLEAN]]
       /\ txns[t].version = 2 /\ txns[t].reconciled /\ txns[t].amount \in Balances
       /\ \A u \in Txns \ {t} : txns[u] = Absent \/ (txns[u].version = 1 /\ ~txns[u].reconciled
                                                    /\ txns[u].amount \in NewAmounts)
       /\ places = [u \in Txns |-> IF txns[u] = Absent THEN {} ELSE {<<txns[u].date, txns[u].seq>>}]
       /\ \A d \in PostingDates : LET Day == {u \in Txns : txns[u].date = d}
                                 IN  {txns[u].seq : u \in Day} = 1..Cardinality(Day)
       /\ sessions = [s \in Sessions |-> NoSession]
       /\ checkpoints = <<[status |-> "active", previous |-> NoRow, date |-> txns[t].date,
                           seq |-> txns[t].seq, balance |-> txns[t].amount, lines |-> {t},
                           stood |-> PeriodBalance(txns, txns[t].date, txns[t].seq)]>>
       /\ request = Idle
       /\ writes = 0

Next ==
    \/ \E t \in Txns, status \in {"draft", "posted"}, d \in PostingDates, a \in NewAmounts :
          PrepareCreate(t, status, d, a)
    \/ \E t \in Txns, d \in PostingDates, a \in Amounts : PrepareUpdate(t, d, a)
    \/ \E t \in Txns : PreparePost(t)
    \/ \E t \in Txns, op \in Lifecycle : PrepareLifecycle(t, op)
    \/ WriteCommits
    \/ WriteRefused
    \/ \E t \in Txns : ApproveTransaction(t)
    \/ \E t \in Txns : DeleteDraftTransaction(t)
    \/ \E t, u \in Txns : MovePosting(t, u)
    \/ \E s \in Sessions, d \in Dates, b \in Balances : CreateReconciliationSession(s, d, b)
    \/ \E s \in Open : \E postings \in SUBSET reconciliationCandidates(s) :
          ReplaceReconciliationSessionSelection(s, postings)
    \/ \E s \in Open : FinishReconciliationSession(s)
    \/ \E s \in Sessions : VoidReconciliationSession(s)
    \/ \E c \in Active : VoidReconciliationCheckpoint(c)
    \/ \E t \in Txns : ChangePostingReconciliationStatus(t)

Spec == Init /\ [][Next]_vars

(***************************************************************************)
(* Properties                                                              *)
(***************************************************************************)

(* An active checkpoint still adds up in the ledger of now: the balance    *)
(* its session started from and the lines it links, as they stand today,   *)
(* make its statement balance.  Every ledger write, reorder, hand void and *)
(* later session keeps it or takes the checkpoint out of use               *)
(* (checkpointIntegrityCheck).                                             *)
StartBalance(c) ==
    IF checkpoints[c].previous = NoRow THEN 0 ELSE checkpoints[checkpoints[c].previous].balance

CheckpointAddsUp ==
    \A c \in Active :
        checkpoints[c].balance = StartBalance(c) + Total(txns, checkpoints[c].lines)

(* A line that an active checkpoint links is in the ledger, marked         *)
(* reconciled and inside the boundary: no edit, void, delete, reorder or   *)
(* hand change left it otherwise.                                          *)
LinkedIsReconciled ==
    \A c \in Active : \A t \in checkpoints[c].lines :
        InLedger(txns[t]) /\ txns[t].reconciled /\ Inside(txns[t], checkpoints[c].date, checkpoints[c].seq)

(* Checkpoints agree with the ledger of now: they add up, and what they    *)
(* link is there and marked.                                               *)
CheckpointsAreSound == TypeOK /\ CheckpointAddsUp /\ LinkedIsReconciled

(* No write changes the balance of a period behind an active checkpoint,   *)
(* whether or not the posting was ever reconciled: what the ledger says up *)
(* to the checkpoint's boundary is what it said when the session finished. *)
PeriodStands ==
    \A c \in Active :
        PeriodBalance(txns, checkpoints[c].date, checkpoints[c].seq) = checkpoints[c].stood

(* Statements follow each other: none ends before the one whose balance it *)
(* starts from.  The code accepts a statement of any day.                  *)
InOrder(C) ==
    \A c \in C : LET from == checkpoints[c].previous
                 IN  from # NoRow => Inside(checkpoints[from], checkpoints[c].date, checkpoints[c].seq)

(* No posting is counted by two statements, whatever their days: not by    *)
(* two that are in use or that one in use was carried from, and whatever   *)
(* was voided, invalidated and reconciled again in between.                *)
CountedOnce ==
    LET Counting == UNION {Chain[c] : c \in Active}
    IN  \A j, k \in Counting : j # k => checkpoints[j].lines \cap checkpoints[k].lines = {}

(* An active statement whose chain is in order still accounts for all of   *)
(* it: its balance is the amounts, as they stand today, of the lines it    *)
(* and the statements it was carried from link, and each is still there    *)
(* and marked.                                                             *)
ChainAddsUp ==
    \A c \in Active : InOrder(Chain[c]) =>
        LET lines == UNION {checkpoints[k].lines : k \in Chain[c]}
        IN  /\ checkpoints[c].balance = Total(txns, lines)
            /\ \A t \in lines : InLedger(txns[t]) /\ txns[t].reconciled

(* When all are, the balance the next session starts from accounts for     *)
(* every line that is withheld from it: each covering checkpoint is on the *)
(* chain of the latest active one.                                         *)
StartAccountsForCovered ==
    InOrder(DOMAIN checkpoints) /\ Active # {} =>
        coveringCheckpoints = Chain[latestActiveReconciliationCheckpoint]

(* A chain of statements counts every line it covers exactly once.         *)
CountedExactlyOnce == CountedOnce /\ ChainAddsUp /\ StartAccountsForCovered

(* A write takes out of use what its owner reviewed: exactly that when it  *)
(* goes through and nothing when it does not; as a row of a batch, nothing *)
(* outside the set reviewed for the batch; without an override, nothing;   *)
(* although statements may be finished, voided and invalidated after the   *)
(* review.                                                                 *)
InvalidatesWhatWasReviewed ==
    [][request # Idle /\ request' = Idle =>
          LET gone == {c \in Active : checkpoints'[c].status = "invalidated"}
          IN  /\ ~request.override => gone = {}
              /\ request.review = "exact" => gone = IF txns' = txns THEN {} ELSE request.reviewed
              /\ request.review = "batch" => gone \subseteq request.reviewed]_vars

=============================================================================
