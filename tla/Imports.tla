------------------------------- MODULE Imports -------------------------------
(***************************************************************************)
(* Online imports: the fetch worker (app/import_fetch_worker.go) walks the *)
(* pages of each provider endpoint and stages what it finds in a batch,    *)
(* while the owner reviews, commits or discards that batch                 *)
(* (app/import_service.go, db/imports.go).                                 *)
(*                                                                         *)
(* One worker runs per process, so its handlers never overlap; a crash     *)
(* leaves its work item to be claimed again.  Commits run in request       *)
(* goroutines and may overlap with the worker and with each other.  Every  *)
(* action is one statement or one transaction of the database.             *)
(*                                                                         *)
(* The provider lists the items of an endpoint newest first.  Item <<s,k>> *)
(* is the k-th to appear at endpoint s and bears the timestamp             *)
(* Stamps[s][k]; a page holds one item and a fetch reads one page.  Time 0 *)
(* is the empty cursor.  A page is named by the item it begins with, 0 is  *)
(* no page; the path of an endpoint itself, which begins with whatever is  *)
(* newest when it is read, is named TopPage.                               *)
(***************************************************************************)
EXTENDS Naturals, Sequences, FiniteSets

CONSTANTS Committers,   \* concurrent commit requests
          Stamps,       \* per endpoint, the timestamps of its items in order
          MaxAttempts,  \* maxTrading212FetchAttempts
          MaxBatches,   \* bound: batches ever created
          MaxRows,      \* bound: rows ever staged
          MaxEdits,     \* bound: patches, discards and deletions by the owner
          MaxFaults     \* bound: crashes and failing steps

ASSUME ImportsAssumption ==
    /\ Stamps \in Seq(Seq(Nat \ {0})) /\ Stamps # << >>
    /\ \A s \in 1..Len(Stamps) : \A k \in 1..Len(Stamps[s]) :
         \A j \in 1..k : Stamps[s][j] <= Stamps[s][k]
    /\ MaxAttempts \in Nat \ {0}
    /\ {MaxBatches, MaxRows, MaxEdits, MaxFaults} \subseteq Nat

VARIABLES arrived,    \* per endpoint, how many items the provider shows
          conn,       \* the connection: cursors, and whether it still exists
          batch,      \* import_batches
          row,        \* import_staged_rows
          rows,       \* how many rows exist
          work,       \* active work items: payload, attempts, claimed
          worker,     \* the running handler
          commit,     \* per commit request, its progress
          posted,     \* per item, the ledger transactions made from it
          edits, faults

vars == <<arrived, conn, batch, row, rows, work, worker, commit, posted, edits, faults>>

Stages  == 1..Len(Stamps)
Items   == UNION {{<<s, k>> : k \in 1..Len(Stamps[s])} : s \in Stages}
NoItem  == <<0, 0>>
Batches == 1..MaxBatches
RowIds  == 1..MaxRows
Stamp(item) == Stamps[item[1]][item[2]]
Larger(a, b) == IF a >= b THEN a ELSE b

BatchStatus == {"none", "previewing", "committed", "partially_committed", "discarded", "failed"}
Reviewable(status) == status \in {"previewing", "partially_committed", "failed"}

NoPayload == [batch |-> 0, stage |-> 0, cursor |-> [s \in Stages |-> 0], resume |-> 0, max |-> 0]
Idle      == [pc |-> "idle", p |-> NoPayload, attempts |-> 0, got |-> NoItem, next |-> 0, dedupe |-> "new"]
NoRow     == [batch |-> 0, item |-> NoItem, dedupe |-> "new", staged |-> "new", status |-> "pending"]
NoCommit  == [pc |-> "idle", batch |-> 0, snap |-> [r \in {} |-> NoRow], cur |-> 0, seen |-> {}]

RowsOf(b) == {r \in 1..rows : row[r].batch = b}
Identities == {i \in Items : posted[i] > 0}

-----------------------------------------------------------------------------
Dedupes == {"new", "needs_attention", "duplicate", "excluded"}
Outcomes == {"pending", "failed", "skipped", "committed"}

ImportBatches == [status: BatchStatus, fetch: {"none", "fetching", "ready", "failed"},
                  known: [Stages -> Nat]]

StagedRows == [batch: Batches \cup {0}, item: Items \cup {NoItem}, dedupe: Dedupes,
               staged: Dedupes, status: Outcomes]

Payloads == [batch: Batches, stage: Stages, cursor: [Stages -> Nat], resume: Nat, max: Nat]

WorkItems == [p: Payloads, attempts: Nat, claimed: BOOLEAN]

Handlers == [pc: {"idle", "fetch", "recheck", "dedupe", "stage", "meta", "enqueue", "cursor",
                  "complete", "mark_status", "mark_meta"},
             p: Payloads \cup {NoPayload}, attempts: Nat, got: Items \cup {NoItem}, next: Nat,
             dedupe: Dedupes]

Snapshots == UNION {[R -> StagedRows] : R \in SUBSET RowIds}

Commits == [pc: {"idle", "list", "row", "skip", "write", "adopt"}, batch: Batches \cup {0},
            snap: Snapshots, cur: RowIds \cup {0}, seen: SUBSET Outcomes]

TypeOK ==
    /\ arrived \in [Stages -> Nat]
    /\ conn \in [cursor: [Stages -> Nat], live: BOOLEAN]
    /\ batch \in [Batches -> ImportBatches]
    /\ row \in [RowIds -> StagedRows]
    /\ rows \in 0..MaxRows
    /\ \A r \in 1..rows : row[r].batch \in Batches /\ row[r].item \in Items
    /\ work \subseteq WorkItems
    /\ \A w \in work : w.attempts <= MaxAttempts + MaxFaults
    /\ Cardinality({w \in work : w.claimed}) <= 1
    /\ worker \in Handlers
    /\ commit \in [Committers -> Commits]
    /\ posted \in [Items -> Nat]
    /\ edits \in 0..MaxEdits
    /\ faults \in 0..MaxFaults

Init ==
    /\ arrived = [s \in Stages |-> 0]
    /\ conn = [cursor |-> [s \in Stages |-> 0], live |-> TRUE]
    /\ batch = [b \in Batches |-> [status |-> "none", fetch |-> "none", known |-> [s \in Stages |-> 0]]]
    /\ row = [r \in RowIds |-> NoRow]
    /\ rows = 0
    /\ work = {}
    /\ worker = Idle
    /\ commit = [u \in Committers |-> NoCommit]
    /\ posted = [i \in Items |-> 0]
    /\ edits = 0
    /\ faults = 0

-----------------------------------------------------------------------------
(* The provider and the owner's requests *)

Arrive(s) ==
    /\ arrived[s] < Len(Stamps[s])
    /\ arrived' = [arrived EXCEPT ![s] = @ + 1]
    /\ UNCHANGED <<conn, batch, row, rows, work, worker, commit, posted, edits, faults>>

hasInFlightFetch == \E b \in Batches : batch[b].status = "previewing" /\ batch[b].fetch = "fetching"

(* EnqueueBackgroundWork: an active item with the same payload absorbs it. *)
Enqueued(items, p) ==
    IF \E w \in items : w.p = p THEN items
    ELSE items \cup {[p |-> p, attempts |-> 0, claimed |-> FALSE]}

(* Batch and work item are one transaction, behind the in-flight guard.    *)
StartOnlineImportBatch(incremental) ==
    LET b == 1 + Cardinality({c \in Batches : batch[c].status # "none"})
    IN  /\ conn.live
        /\ ~hasInFlightFetch
        /\ b \in Batches
        /\ batch' = [batch EXCEPT ![b] = [status |-> "previewing", fetch |-> "fetching", known |-> arrived]]
        /\ work' = Enqueued(work, [NoPayload EXCEPT
                       !.batch = b, !.stage = 1,
                       !.cursor = IF incremental THEN conn.cursor ELSE @])
        /\ UNCHANGED <<arrived, conn, row, rows, worker, commit, posted, edits, faults>>

Edit == edits < MaxEdits /\ edits' = edits + 1

DeleteImportConnection ==
    /\ Edit
    /\ conn.live
    /\ conn' = [conn EXCEPT !.live = FALSE]
    /\ UNCHANGED <<arrived, batch, row, rows, work, worker, commit, posted, faults>>

DiscardImportBatch(b) ==
    /\ Edit
    /\ batch[b].status = "previewing"
    /\ batch' = [batch EXCEPT ![b].status = "discarded"]
    /\ UNCHANGED <<arrived, conn, row, rows, work, worker, commit, posted, faults>>

(* A review patch re-checks batch and row inside its transaction and makes *)
(* a failed row pending again.                                             *)
PatchImportStagedRow(r, dedupe) ==
    /\ Edit
    /\ r \in 1..rows
    /\ Reviewable(batch[row[r].batch].status)
    /\ row[r].status \in {"pending", "failed"}
    /\ row' = [row EXCEPT ![r].dedupe = dedupe, ![r].status = "pending"]
    /\ UNCHANGED <<arrived, conn, batch, rows, work, worker, commit, posted, faults>>

-----------------------------------------------------------------------------
(* The fetch worker *)

At(pc) == worker.pc = pc
Goto(pc) == worker' = [worker EXCEPT !.pc = pc]
Finished == {w \in work : w.p # worker.p}

Claim ==
    /\ At("idle")
    /\ \E w \in work :
         /\ ~w.claimed
         /\ work' = (work \ {w}) \cup {[w EXCEPT !.attempts = @ + 1, !.claimed = TRUE]}
         /\ worker' = [Idle EXCEPT !.pc = "fetch", !.p = w.p, !.attempts = w.attempts + 1]
    /\ UNCHANGED <<arrived, conn, batch, row, rows, commit, posted, edits, faults>>

Stops(stamp, cursor) == cursor # 0 /\ stamp < cursor

(* Mutant: what a page budget leaves over is dropped. *)
OnePage(k) == 0

NextPage(k) == k - 1

TopPage(s) == Len(Stamps[s]) + 1
FirstPage(p) == p.resume \in {0, TopPage(p.stage)}

(* fetchPaginated, from the newest item or from the resume path. *)
Fetch ==
    LET s == worker.p.stage
        k == IF FirstPage(worker.p) THEN arrived[s] ELSE worker.p.resume
        found == k > 0 /\ ~Stops(Stamps[s][k], worker.p.cursor[s])
    IN  /\ At("fetch")
        /\ batch[worker.p.batch].status = "previewing"
        /\ conn.live
        /\ worker' = [worker EXCEPT !.pc = "recheck",
                                    !.got = IF found THEN <<s, k>> ELSE NoItem,
                                    !.next = IF found THEN NextPage(k) ELSE 0]
        /\ UNCHANGED <<arrived, conn, batch, row, rows, work, commit, posted, edits, faults>>

(* A page that is rate limited is asked for again within the call, and each *)
(* answer uses up the page budget: the call ends with no item and with the  *)
(* path it would have read as the place to go on.                           *)
Throttled ==
    /\ At("fetch")
    /\ batch[worker.p.batch].status = "previewing"
    /\ conn.live
    /\ worker' = [worker EXCEPT !.pc = "recheck",
                                !.got = NoItem,
                                !.next = IF FirstPage(worker.p) THEN TopPage(worker.p.stage)
                                         ELSE worker.p.resume]
    /\ UNCHANGED <<arrived, conn, batch, row, rows, work, commit, posted, edits, faults>>

(* The batch was closed by the owner: nothing to do, the item completes.   *)
BatchClosed ==
    /\ At("fetch") \/ At("recheck")
    /\ batch[worker.p.batch].status # "previewing"
    /\ Goto("complete")
    /\ UNCHANGED <<arrived, conn, batch, row, rows, work, commit, posted, edits, faults>>

Recheck ==
    /\ At("recheck")
    /\ batch[worker.p.batch].status = "previewing"
    /\ Goto(IF worker.got = NoItem THEN "meta" ELSE "dedupe")
    /\ UNCHANGED <<arrived, conn, batch, row, rows, work, commit, posted, edits, faults>>

(* Mutant: the rows an earlier call staged are not looked at. *)
SeenInThisCall(item, b) == FALSE

SeenInBatch(item, b) == \E r \in RowsOf(b) : row[r].item = item

(* stageParseResult reads the batch's rows and the commit identities ...   *)
DedupeStatus ==
    /\ At("dedupe")
    /\ worker' = [worker EXCEPT !.pc = "stage",
                     !.dedupe = IF worker.got \in Identities THEN "duplicate"
                                ELSE IF SeenInBatch(worker.got, worker.p.batch) THEN "needs_attention"
                                ELSE "new"]
    /\ UNCHANGED <<arrived, conn, batch, row, rows, work, commit, posted, edits, faults>>

(* ... and inserts in a transaction that does not look at the batch.       *)
InsertImportStagedRows ==
    /\ At("stage")
    /\ rows < MaxRows
    /\ rows' = rows + 1
    /\ row' = [row EXCEPT ![rows + 1] = [batch |-> worker.p.batch, item |-> worker.got, status |-> "pending",
                                         dedupe |-> worker.dedupe, staged |-> worker.dedupe]]
    /\ Goto("meta")
    /\ UNCHANGED <<arrived, conn, batch, work, commit, posted, edits, faults>>

LastStage == worker.p.stage = Len(Stamps)

UpdateImportBatchSourceMeta ==
    LET done == worker.next = 0 /\ LastStage
    IN  /\ At("meta")
        /\ batch' = [batch EXCEPT ![worker.p.batch].fetch = IF done THEN "ready" ELSE "fetching"]
        /\ Goto(IF done THEN "cursor" ELSE "enqueue")
        /\ UNCHANGED <<arrived, conn, row, rows, work, commit, posted, edits, faults>>

ChunkCursor == LET c == worker.p.cursor[worker.p.stage]
               IN  IF worker.got = NoItem THEN c ELSE Larger(c, Stamp(worker.got))
RunningMax == Larger(worker.p.max, ChunkCursor)
FinalCursors == [worker.p.cursor EXCEPT ![worker.p.stage] = RunningMax]

(* A continuation of this stage, or the first item of the next. *)
Continuation ==
    IF worker.next # 0
    THEN [worker.p EXCEPT !.resume = worker.next, !.max = RunningMax]
    ELSE [batch |-> worker.p.batch, stage |-> worker.p.stage + 1, cursor |-> FinalCursors,
          resume |-> 0, max |-> 0]

EnqueueContinuation ==
    /\ At("enqueue")
    /\ work' = Enqueued(work, Continuation)
    /\ Goto("complete")
    /\ UNCHANGED <<arrived, conn, batch, row, rows, commit, posted, edits, faults>>

UpdateFetchCursor ==
    /\ At("cursor")
    /\ conn.live
    /\ conn' = [conn EXCEPT !.cursor = FinalCursors]
    /\ Goto("complete")
    /\ UNCHANGED <<arrived, batch, row, rows, work, commit, posted, edits, faults>>

CompleteBackgroundWork ==
    /\ At("complete")
    /\ work' = Finished
    /\ worker' = Idle
    /\ UNCHANGED <<arrived, conn, batch, row, rows, commit, posted, edits, faults>>

(* The handler returned an error: the item is retried, or failed for good  *)
(* when the key was refused or the attempts are used up.                   *)
Retry ==
    /\ worker.attempts < MaxAttempts
    /\ work' = Finished \cup {[p |-> worker.p, attempts |-> worker.attempts, claimed |-> FALSE]}
    /\ worker' = Idle

FailBackgroundWork == work' = Finished /\ Goto("mark_status")

HandlerFails ==
    /\ worker.pc \in {"fetch", "recheck", "dedupe", "stage", "meta", "enqueue", "cursor"}
    /\ \/ Retry
       \/ FailBackgroundWork /\ (worker.attempts >= MaxAttempts \/ At("fetch"))
    /\ \/ faults < MaxFaults /\ faults' = faults + 1
       \/ worker.pc \in {"fetch", "cursor"} /\ ~conn.live /\ UNCHANGED faults
    /\ UNCHANGED <<arrived, conn, batch, row, rows, commit, posted, edits>>

(* markTrading212FetchTerminalFailure: the status, then the meta, each on  *)
(* its own; both only if the batch was previewing.                         *)
MarkBatchFailed ==
    /\ At("mark_status")
    /\ IF batch[worker.p.batch].status = "previewing"
       THEN /\ batch' = [batch EXCEPT ![worker.p.batch].status = "failed"]
            /\ Goto("mark_meta")
       ELSE /\ worker' = Idle
            /\ UNCHANGED batch
    /\ UNCHANGED <<arrived, conn, row, rows, work, commit, posted, edits, faults>>

MarkMetaFailed ==
    /\ At("mark_meta")
    /\ batch' = [batch EXCEPT ![worker.p.batch].fetch = "failed"]
    /\ worker' = Idle
    /\ UNCHANGED <<arrived, conn, row, rows, work, commit, posted, edits, faults>>

-----------------------------------------------------------------------------
(* A commit request.  "seen" collects the outcomes its final status needs. *)

OpenCommit(u, b) ==
    /\ commit[u].pc = "idle"
    /\ Reviewable(batch[b].status)
    /\ commit' = [commit EXCEPT ![u] = [NoCommit EXCEPT !.pc = "list", !.batch = b]]
    /\ UNCHANGED <<arrived, conn, batch, row, rows, work, worker, posted, edits, faults>>

(* The rows are read once; the rest works from this snapshot. *)
ListRows(u) ==
    /\ commit[u].pc = "list"
    /\ commit' = [commit EXCEPT ![u].pc = "row", ![u].snap = [r \in RowsOf(commit[u].batch) |-> row[r]]]
    /\ UNCHANGED <<arrived, conn, batch, row, rows, work, worker, posted, edits, faults>>

Without(snap, r) == [q \in DOMAIN snap \ {r} |-> snap[q]]

(* The request counts an outcome and goes on to its next row. *)
Counted(c, r, outcome) ==
    [c EXCEPT !.pc = "row", !.cur = 0, !.seen = c.seen \cup {outcome}, !.snap = Without(c.snap, r)]

Done(u, outcome) ==
    commit' = [commit EXCEPT ![u] = Counted(commit[u], commit[u].cur, outcome)]

Abort(u) == commit' = [commit EXCEPT ![u] = NoCommit]

(* Mutant: a discard does not close the batch to outcomes. *)
AnyBatch(r) == TRUE

BatchOpen(r) == batch[row[r].batch].status # "discarded"

(* recordImportStagedRowTerminal: a row another request committed counts   *)
(* as committed; a discarded batch ends the request.                       *)
Record(u, r, status) ==
    /\ IF row[r].status = "committed" THEN Done(u, "committed") /\ UNCHANGED row
       ELSE IF ~BatchOpen(r) THEN Abort(u) /\ UNCHANGED row
       ELSE /\ row' = [row EXCEPT ![r].status = status]
            /\ Done(u, status)
    /\ UNCHANGED <<arrived, conn, batch, rows, work, worker, posted, edits, faults>>

(* A row settled before the snapshot is counted; one left out, or whose     *)
(* item is in the ledger, will be skipped; the others are written.         *)
CountSettled(u) ==
    /\ commit[u].pc = "row"
    /\ \E r \in DOMAIN commit[u].snap :
         /\ commit[u].snap[r].status \in {"committed", "skipped"}
         /\ commit' = [commit EXCEPT ![u] = Counted(commit[u], r, commit[u].snap[r].status)]
    /\ UNCHANGED <<arrived, conn, batch, row, rows, work, worker, posted, edits, faults>>

TakeRow(u) ==
    /\ commit[u].pc = "row"
    /\ \E r \in DOMAIN commit[u].snap :
         LET old == commit[u].snap[r]
         IN  /\ old.status \in {"pending", "failed"}
             /\ commit' = [commit EXCEPT ![u].cur = r, ![u].pc =
                  IF old.dedupe \in {"duplicate", "excluded"} \/ old.item \in Identities THEN "skip"
                  ELSE "write"]
    /\ UNCHANGED <<arrived, conn, batch, row, rows, work, worker, posted, edits, faults>>

SkipRow(u) == commit[u].pc = "skip" /\ Record(u, commit[u].cur, "skipped")
FailRow(u) == commit[u].pc = "write" /\ Record(u, commit[u].cur, "failed")
HoldRow(u) == commit[u].pc = "write" /\ Record(u, commit[u].cur, "pending")

(* Mutant: INSERT OR IGNORE without looking at the rows affected. *)
IgnoresConflict(item) == FALSE

Conflict(item) == item \in Identities

(* Mutant: the row marker is left to a later statement. *)
EffectsWithoutMarker(u) ==
    LET r == commit[u].cur
    IN  /\ commit[u].pc = "write"
        /\ BatchOpen(r)
        /\ posted' = [posted EXCEPT ![row[r].item] = @ + 1]
        /\ Done(u, "committed")
        /\ UNCHANGED <<arrived, conn, batch, row, rows, work, worker, edits, faults>>

(* CommitImportedEffects: journal, identity and row marker in one          *)
(* transaction; a conflict or a discarded batch rolls all of it back.      *)
CommitImportedEffects(u) ==
    LET r == commit[u].cur
        i == row[r].item
    IN  /\ commit[u].pc = "write"
        /\ IF Conflict(i)
           THEN /\ commit' = [commit EXCEPT ![u].pc = "adopt"]
                /\ UNCHANGED <<row, posted>>
           ELSE IF ~BatchOpen(r) THEN Abort(u) /\ UNCHANGED <<row, posted>>
           ELSE /\ posted' = [posted EXCEPT ![i] = @ + 1]
                /\ row' = [row EXCEPT ![r].status = "committed"]
                /\ Done(u, "committed")
        /\ UNCHANGED <<arrived, conn, batch, rows, work, worker, edits, faults>>

(* resolveConcurrentImportCommit *)
Adopt(u) ==
    LET r == commit[u].cur
    IN  /\ commit[u].pc = "adopt"
        /\ row' = IF row[r].status \in {"pending", "failed"} /\ BatchOpen(r)
                  THEN [row EXCEPT ![r].status = "committed"] ELSE row
        /\ Done(u, "committed")
        /\ UNCHANGED <<arrived, conn, batch, rows, work, worker, posted, edits, faults>>

FinalStatus(seen) ==
    CASE "pending" \in seen -> "partially_committed"
      [] "pending" \notin seen /\ "failed" \in seen ->
           IF "committed" \in seen THEN "partially_committed" ELSE "failed"
      [] OTHER -> "committed"

FinishCommit(u) ==
    LET b == commit[u].batch
    IN  /\ commit[u].pc = "row"
        /\ DOMAIN commit[u].snap = {}
        /\ batch' = IF batch[b].status = "discarded" THEN batch
                    ELSE [batch EXCEPT ![b].status = FinalStatus(commit[u].seen)]
        /\ Abort(u)
        /\ UNCHANGED <<arrived, conn, row, rows, work, worker, posted, edits, faults>>

-----------------------------------------------------------------------------
(* The process dies: the handler and every request end where they are, and *)
(* the claimed item is free once its lease has run out.                    *)
Crash ==
    /\ faults < MaxFaults
    /\ faults' = faults + 1
    /\ worker' = Idle
    /\ commit' = [u \in Committers |-> NoCommit]
    /\ work' = {[w EXCEPT !.claimed = FALSE] : w \in work}
    /\ UNCHANGED <<arrived, conn, batch, row, rows, posted, edits>>

WorkerStep ==
    \/ Claim \/ Fetch \/ Throttled \/ BatchClosed \/ Recheck \/ DedupeStatus \/ InsertImportStagedRows
    \/ UpdateImportBatchSourceMeta \/ EnqueueContinuation \/ UpdateFetchCursor
    \/ CompleteBackgroundWork \/ HandlerFails \/ MarkBatchFailed \/ MarkMetaFailed

CommitStep(u) ==
    \/ \E b \in Batches : OpenCommit(u, b)
    \/ ListRows(u) \/ TakeRow(u) \/ CountSettled(u) \/ SkipRow(u) \/ FailRow(u) \/ HoldRow(u)
    \/ CommitImportedEffects(u) \/ Adopt(u) \/ FinishCommit(u)

Next ==
    \/ \E s \in Stages : Arrive(s)
    \/ \E incremental \in BOOLEAN : StartOnlineImportBatch(incremental)
    \/ \E b \in Batches : DiscardImportBatch(b)
    \/ \E r \in RowIds, d \in {"new", "excluded"} : PatchImportStagedRow(r, d)
    \/ DeleteImportConnection
    \/ WorkerStep
    \/ \E u \in Committers : CommitStep(u)
    \/ Crash

Spec == Init /\ [][Next]_vars

-----------------------------------------------------------------------------
(* Properties *)

(* An item of the provider becomes at most one ledger transaction, however *)
(* often it was fetched, staged and committed: by overlapping commits, in  *)
(* two batches, after a crash.                                             *)
PostedOnce == \A i \in Items : posted[i] <= 1

(* Ledger and review agree: what was posted is marked on some row, and a   *)
(* row is marked only for an item that was posted.                         *)
PostedIsMarked ==
    \A i \in Items : posted[i] > 0 <=> \E r \in 1..rows : row[r].item = i /\ row[r].status = "committed"

(* Batches, rows and work are well formed and agree with the ledger.       *)
ReviewIsSound == TypeOK /\ PostedIsMarked

Staged(i) == \E r \in 1..rows : row[r].item = i

(* A fetch that reports "ready" has left nothing out: every item the       *)
(* provider showed when it started is staged in this batch or an earlier   *)
(* one, across pages, stages, retries and a saved cursor whose timestamp   *)
(* several items share.                                                    *)
FetchIsComplete ==
    \A b \in Batches : batch[b].fetch = "ready" =>
        \A s \in Stages : \A k \in 1..batch[b].known[s] : Staged(<<s, k>>)

(* The saved cursor never passes an item that was not staged. *)
CursorIsCovered ==
    \A s \in Stages : \A k \in 1..arrived[s] : Stamps[s][k] < conn.cursor[s] => Staged(<<s, k>>)

(* Nothing the provider showed is lost for good: neither by a fetch that   *)
(* ended nor by a cursor the next one starts from.                         *)
NothingIsSkipped == FetchIsComplete /\ CursorIsCovered

(* However often a page is fetched again, a batch offers an item as new    *)
(* once.                                                                   *)
OfferedOnce ==
    \A r, q \in 1..rows :
        /\ row[r].batch = row[q].batch /\ row[r].item = row[q].item
        /\ row[r].staged = "new" /\ row[q].staged = "new"
        => r = q

(* The inductive invariant.  What is in hand belongs to one handler, and a   *)
(* payload to a batch that exists; an item that waits has an attempt left.   *)
WorkIsHeld ==
    /\ \A v, w \in work : v.p = w.p => v = w
    /\ \A w \in work :
          /\ w.attempts + (IF w.claimed THEN 0 ELSE 1) <= MaxAttempts + faults
          /\ w.claimed => /\ worker.pc \notin {"idle", "mark_status", "mark_meta"}
                          /\ w.p = worker.p /\ w.attempts = worker.attempts
          /\ batch[w.p.batch].status # "none"
    /\ worker.pc # "idle" => /\ worker.p \in Payloads
                             /\ batch[worker.p.batch].status # "none"
    /\ worker.pc \in {"dedupe", "stage"} => worker.got \in Items

(* Batches are numbered as they come.                                        *)
BatchesAreNumbered ==
    \E n \in 0..MaxBatches : {b \in Batches : batch[b].status # "none"} = 1..n

(* A commit only looks at a batch and rows there are, and adopts what is in  *)
(* the ledger.                                                               *)
CommitsAreSound ==
    \A u \in Committers :
        /\ commit[u].pc # "idle" => /\ commit[u].batch \in Batches
                                    /\ batch[commit[u].batch].status # "none"
        /\ DOMAIN commit[u].snap \subseteq 1..rows
        /\ commit[u].pc \in {"skip", "write", "adopt"} => commit[u].cur \in 1..rows
        /\ commit[u].pc = "adopt" => row[commit[u].cur].item \in Identities

(* What is about to be staged as new is not in its batch.                    *)
NewIsNew ==
    worker.pc = "stage" /\ worker.dedupe = "new" => ~SeenInBatch(worker.got, worker.p.batch)

(* A cursor passes no item that is not staged.                               *)
Covers(s, cursor) == \A k \in 1..Len(Stamps[s]) : Stamps[s][k] < cursor => Staged(<<s, k>>)

KnownStaged(b, s, above) ==
    \A k \in 1..batch[b].known[s] : k > above => Staged(<<s, k>>)

(* What is staged when the walk over stage s has come down to an item.       *)
WalkedTo(p, next, max) ==
    /\ KnownStaged(p.batch, p.stage, next)
    /\ \A k \in 1..Len(Stamps[p.stage]) :
          k > next /\ Stamps[p.stage][k] < max => Staged(<<p.stage, k>>)

(* The same for a page: where the walk begins anew it has taken nothing      *)
(* beyond the saved cursor.                                                  *)
Remains(p, next, max) ==
    /\ next <= TopPage(p.stage)
    /\ WalkedTo(p, next, max)
    /\ next = TopPage(p.stage) => max <= p.cursor[p.stage]

PayloadIsSound(p) ==
    /\ \A s \in Stages : Covers(s, p.cursor[s])
    /\ \A s \in 1..(p.stage - 1) : KnownStaged(p.batch, s, 0)
    /\ IF p.resume = 0 THEN p.max = 0 ELSE Remains(p, p.resume, p.max)

(* The page a handler holds is the next below what it has walked.            *)
PageIsNext ==
    IF worker.got = NoItem THEN Remains(worker.p, worker.next, RunningMax)
    ELSE LET p == worker.p IN
         /\ worker.got = <<p.stage, worker.next + 1>>
         /\ worker.next + 1 <= Len(Stamps[p.stage])
         /\ IF FirstPage(p) THEN batch[p.batch].known[p.stage] <= worker.next + 1
                           ELSE worker.next + 1 = p.resume

PagesAreSound ==
    /\ \A s \in Stages : arrived[s] <= Len(Stamps[s])
    /\ \A b \in Batches, s \in Stages : batch[b].known[s] <= arrived[s]
    /\ \A s \in Stages : Covers(s, conn.cursor[s])
    /\ \A w \in work : PayloadIsSound(w.p)
    /\ worker.pc # "idle" => PayloadIsSound(worker.p)
    /\ worker.pc \in {"recheck", "dedupe", "stage"} => PageIsNext
    /\ worker.pc \in {"meta", "enqueue", "cursor"} => Remains(worker.p, worker.next, RunningMax)
    /\ worker.pc = "enqueue" => worker.next # 0 \/ ~LastStage
    /\ worker.pc = "cursor" => worker.next = 0 /\ LastStage

ImportsInv ==
    /\ TypeOK
    /\ PostedOnce /\ PostedIsMarked /\ OfferedOnce /\ FetchIsComplete
    /\ WorkIsHeld
    /\ BatchesAreNumbered
    /\ CommitsAreSound
    /\ NewIsNew
    /\ PagesAreSound

(* A discard wins over a commit under way: no row of a discarded batch     *)
(* changes its outcome and nothing of it is posted; and what is committed  *)
(* stays committed.                                                        *)
OutcomesStand ==
    [][\A r \in 1..rows :
         batch[row[r].batch].status = "discarded" \/ row[r].status = "committed"
         => row'[r].status = row[r].status]_vars

=============================================================================
