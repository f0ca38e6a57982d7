# Verification of Rekenraam's backend

Rekenraam is a self-hosted personal-finance server: a Go backend over one
SQLite database, an HTTP API and a browser frontend. These TLA+ modules model
the parts of the backend whose state is hard to keep right: the durable work
queue, backups and restore, online imports, sign-in and its throttle, recurring
transactions, reconciliation and investment positions. TLC checks them on small
instances; for every value of the constants TLAPS proves the main properties of
the queue and that it implements its abstract specification, and those of
backups, of restore, of the throttle, of sign-in, of recurrence rules, of
recurring transactions, of imports and of reconciliation.

Paths below are relative to `src/backend/internal/`. `PROJECT.json` maps every
definition to the lines it models.

## 1. The system

### Process and database

One process serves a database; a lock file keeps a second one out. The main
pool has a single connection (`db/sqlite.go:76`), so a transaction is atomic
with respect to every other one and is one step of a model. What is *not*
atomic is a service call: it reads in queries of its own, decides in Go, and
writes in one or more later transactions. Between them run the other HTTP
requests, the tickers (most of them every minute) and, at any point, the end
of the process.

| Component | State | Operations | What is hard about it | Modelled |
|---|---|---|---|---|
| Durable work queue (`db/background_work.go`) | `background_work_items`: status, attempts, due time, lease owner and expiry | enqueue, claim, complete, complete with successors, retry, fail, requeue | leases that run out under a live handler, crashes, one active row per payload, the attempt cap | yes |
| Backups (`app/backup_*.go`, `db/backups.go`, `db/backup_online.go`) | `backup_runs`, work items, the files of the backup directory | schedule, request, produce, verify, publish, record, prune, retry | a crash between any two file or database steps, unsynced renames, retention, retry racing the worker | partly |
| Restore and lock file (`db/restore.go`, `cmd/rekenraam/restore.go`, `lockfile`) | the database's file set, preserved directories, the lock | checkpoint, preserve, copy, install | a kill or a power cut between any two file operations, a server that starts meanwhile | yes |
| Online imports (`app/import_fetch_worker.go`, `app/import_scheduler.go`) | connection cursors, a batch's fetch state, work items | start, fetch a page, stage, continue, finish | partial progress, items that arrive during the walk, crashes and retries | partly |
| Import review (`app/import_service.go`, `db/imports.go`) | batches, staged rows, import identities | stage, patch, commit, discard | commits that overlap with the fetch and with each other | partly |
| Login throttle (`app/auth_throttle.go`, `db/auth.go`) | `login_throttles`: counter, block, generation, last write | reserve, fail, clear, refund, release | overlapping attempts, late settlements of an older generation, abandoned places | yes |
| Sessions, second factor, devices (`app/auth*.go`, `db/auth_mfa.go`, `db/recovery.go`) | sessions, challenges, recovery codes, the TOTP row | log in, verify, enrol, regenerate, disable, recover | single use of challenges and codes under concurrent requests | partly |
| Recurring transactions (`app/recurring*.go`, `db/recurring*.go`) | templates with a revision and a watermark, postings, occurrence rows, drafts | create, edit, pause, archive, sweep, run now, skip, retry | sweeps working from stale snapshots, the per-tick cap, lost sweeps, local dates that step back | yes |
| Transactions and ledger (`db/transactions_*.go`) | transactions, versions, day sequences | create, edit, post, void, delete, restore, move | optimistic versions, covered postings | partly |
| Reconciliation (`db/reconciliation.go`, `app/transactions_reconciliation.go`) | sessions, selections, checkpoints and their chain | select, finish, void, invalidate | a write that touches what a checkpoint counted, prepared before and committed after it | yes |
| Investments (`db/investment*.go`) | operations, lots, allocations, the method family | buy, sell, reverse, replace, split, transfer, exchange | corrections far back in a history that later operations build on | partly |
| FX coverage and quotes (`app/pricing_*.go`) | the cursor in a work item's payload, price rows | walk currency pairs, hand over to a successor, defer at rate limits | hand-over and resume, provider limits | as handlers of the queue |
| Recurrence rules (`recur`) | none: a rule and its dates | validate, enumerate a window, next date | clamped days, leap and century years, an origin that is shifted once | yes |
| Exact decimals (`exact`), budgets, forecast, reports, search, exports, self-check, setup, API, runtime, market data, secrets, frontend | - | - | see section 6 | no |

### How the parts interact

* The backup scheduler and the API create a run and its work item in one
  transaction (`CreateBackupRunWithWork`); the backup worker claims the item
  from the queue, works on files and on `backup_runs`, and settles the item.
  Module `BackupRuns` therefore uses the queue's statements themselves, the
  operators of `WorkItems`.
* The import fetch is another handler of the queue: its item's payload carries
  the stage and the cursors, and each page ends in a retry, a failure, or a
  completion with the item of the next page as successor. It shares batches and
  rows with the commits and discards of the owner's requests. `Imports` holds
  both sides.
* FX coverage and quote refresh are further handlers; `WorkQueue` models what
  any handler may do to the queue.
* Login, second factor and reauthentication all reserve places in the throttle
  before anything is verified. A completed login settles them in the transaction
  that creates the session; a reauthentication settles them scope by scope.
  `SignIn` models what follows an admitted attempt.
* The recurring scheduler, run-now requests, the owner's edits and the reviews
  of single dates meet only in the database; each write re-checks the revision,
  the occurrence row, or both.
* Every ledger write that touches a posting within an active checkpoint's period
  needs the owner's override and invalidates the checkpoint with it, in the
  transaction that writes. `Reconciliation` therefore holds the writes too.
* Restore meets the server only through the lock file and the file set.

### What makes each modelled part correct

* Queue: one active row per payload; a live lease is exclusive; a stale worker's
  settlement changes nothing; work waiting for a retry has attempts left; due
  work is taken up.
* Backups: what stands under a final name is complete and synced; retention
  never takes a copy the policy keeps, also when a failing check removed a sound
  one; completed work has a recorded copy; every backup asked for is settled.
* Restore: no acknowledged transaction is lost, whatever fails; the live name
  never holds a torn file, nor a WAL of another database.
* Imports: a fetch that reports ready has staged every item; a saved cursor
  passes no unstaged item; an item is offered and posted once; a discard and a
  posted row stay what they are.
* Throttle: the guesses admitted in a generation, and for an address in any
  window, stay within the budget; the counter is exact; an address's block ends
  by time alone; a refused attempt holds nothing.
* Sign-in: a challenge becomes at most one session; a code is accepted once; a
  factor verified against one enrolment never completes a login under another.
* Recurrence rules: the dates of a window are the dates the rule says, each once
  and in order; a short month moves no later date.
* Recurring: one draft per date; the watermark passes no date; drafts follow the
  template as it is now; decided dates are final; stale writes undo nothing; due
  dates are eventually recorded.
* Reconciliation: while a checkpoint is active, the balance it started from and
  its lines still add up to the one it states; no line is counted twice; a write
  invalidates no checkpoint its owner was not shown.
* Investments: quantity and basis are conserved to the last unit; a sale takes
  what its slot in the history holds; the lots are what the history says,
  whether they were written directly or replayed.

The hazards behind these, each at its line, are listed in `PROJECT.json`.

## 2. The modules

| Module | Role |
|---|---|
| `ExclusiveWork` | what the queue promises: work wanted once, held by one, settled by its holder |
| `WorkItems` | the statements on `background_work_items` as operators from a table to the table the commit leaves |
| `WorkQueue` | the queue as a state machine: loops, callers, clock, starts and crashes |
| `WorkQueueRefinement` | the queue implements `ExclusiveWork` |
| `WorkQueueProofs` | the inductive invariant of the queue, the theorems from it, and that it implements `ExclusiveWork`, step by step |
| `BackupRuns` | runs, files, worker, retry, crashes and power cuts, over `WorkItems` |
| `BackupRunsProofs` | the inductive invariants of backups and the theorems from them |
| `Restore` | the restore command and the server over a file system with unsynced renames |
| `RestoreProofs` | the inductive invariant of restore and the theorems from it |
| `Imports` | the fetch worker beside the owner's review of its batches |
| `ImportsProofs` | the inductive invariant of imports and the theorems from it |
| `LoginThrottle` | concurrent attempts on throttle rows |
| `LoginThrottleProofs` | the inductive invariant of the throttle and the theorems from it |
| `SignIn` | challenges, factors and sessions under concurrent requests |
| `SignInProofs` | the inductive invariant of sign-in and the theorems from it |
| `RecurrenceRules` | the calendar, the series of a rule, and the windows cut from it |
| `Recurring` | templates, sweeps, edits and reviews |
| `RecurringProofs` | the inductive invariant of recurring transactions and the theorems from it; of the rules, that a series ascends, its walk stops, and the next date is the first |
| `Reconciliation` | statements and checkpoints beside the ledger writes they guard |
| `ReconciliationProofs` | sums and chains, the inductive invariant of reconciliation and the theorems from it |
| `Investments` | one position: purchases, sales and their corrections |
| `MC...` | instances for TLC |

Operators marked "Mutant" stand before the definition they vary. They are used
by no specification; each says which plausible slip in the code a property
would catch (`PROJECT.json`, "mutants").

### WorkItems, WorkQueue and ExclusiveWork

`items` is the table, a row's id its position (rows are never deleted). The
unique index over (book, kind, payload) of active rows makes that triple one
`key`. `hold[<<owner, kind>>]` is the handler's *copy* of the item it claimed,
with the attempts and the lease it was given; the table may move on without it.
`life` follows worker ids: an id is a new uuid at every service start, so a dead
owner never returns. The lock file is not relied on; owners may overlap.

| Action | Code |
|---|---|
| `EnqueueBackgroundWork` | INSERT ... ON CONFLICT DO NOTHING |
| `ClaimBackgroundWork` | first due row of the kind, by due time and id; pending, or running with an expired lease |
| `CompleteBackgroundWork`, `CompleteBackgroundWorkWithSuccessors`, `RetryBackgroundWork`, `FailBackgroundWork` | the settlements, fenced by status and lease owner |
| `Abandon` | the settlement's own write failed or the context was cancelled: the handler logs and returns |
| `RequeueBackgroundWork` | the owner's retry of a failed item without an active twin |
| `Start`, `Crash`, `Tick` | service start, its end at any moment, the clock |

Two successors stand for a list: each turn of the code's loop is an
`AddSuccessor`, and two show every interaction of one with the next.

`ExclusiveWork` has no rows, attempts or clock. Its state follows from the
queue's: a key is *wanted* while it has a pending row and *in hand* while it has
a running one; it is *granted* until the lease runs out; a worker's *task* is
the key of the row its loop holds. Claims are `Take`, settlements `Settle`,
enqueues and requeues `Ask`, crashes, abandoned items and fenced settlements
`Stop`, the clock `Lapse`. A hand-over is one `Settle`: nobody sees work gone
without its successors.

### BackupRuns

Every step is one transaction or one file-system call: claim, read the run, mark
it running, adopt or remove what stands under the final name, clear, copy,
verify, sync, rename, sync the directory, record, plan pruning, remove a file,
mark it pruned, settle. `files[r]` says what the final and the partial name of
run `r` hold (nothing, an incomplete copy, a complete but only cached one, a
synced one), and whether the directory entry of the final name has been synced.
`Crash` ends the process between any two steps; with `PowerCuts` it may also
lose cached bytes and unsynced renames, of any subset of runs. `Fault` makes a
database write fail. `RetryBackupRun` runs beside the worker in its three
transactions (`RetryRead`, `RetryRequeue`, `RetryUpdate`). The database's own
commits survive a power cut.

`AdoptFinal` needs a copy that verifies. `RemoveFinal` needs nothing: the code
removes the file on any error of the check (`app/backup_worker.go:215`), also on
a cancelled context, a busy file or a failed read, so a sound copy can go.
`sized` says that a run was recorded as completed once: its size is written
then, and no later update clears it.

### Restore

`disk` is what survives a power cut, `ops` the renames and removals since then,
and `View` what processes see. A file is known by its *book* (one per database
ever created) and the number of that book's transactions it holds. `step[p]`
walks the command through the lock, the checkpoint, the preserved directory, the
two renames out, the copy, its sync, the rename in, and the removal of stale
files; each is one file operation, any may fail, and `Crash` kills a process
anywhere. `PowerCut` keeps any subset of the unsynced operations, in order, and
tears files whose bytes were not synced. `committed` records what clients were
told. Assumed: a made directory is durable, a rename between two directories is
settled by a sync of either. When that settles the second move of a file whose
first still waits, the first has nothing left to move and only empties its old
name (`MovedOn`): an install that waits, moved aside by the next restore. The
-shm file is an index SQLite rebuilds.

### Imports

The provider is external: it shows the items of each endpoint newest first, and
more `Arrive` at any time. One worker runs per process; `worker.pc` walks it
through claim, fetch, the recheck of the batch, staging with deduplication, the
batch's meta data, the continuation or the saved cursors, and the settlement,
one transaction each. A call of `fetchPaginated` either reads a page (`Fetch`) or
spends its whole page budget on answers that ask it to wait (`Throttled`): it
then returns no item and, as the place to go on, the path it would have read,
which at the start of a stage is the path of the endpoint (`TopPage`). Waiting
within a call that does read a page changes nothing and is part of `Fetch`.
`HandlerFails` at any of these steps leads to a retry or, at the
cap, to the two writes that mark the failure. `commit[u]` is a commit request:
it opens the batch, lists the rows, and handles them one transaction at a time,
from the list it read. `posted` counts the ledger transactions made of an item,
and nothing else does: an item is an *identity* once that count is positive.

### LoginThrottle

An attempt reserves its scopes in order, one transaction each, gets a verdict
and settles, again scope by scope, except that `CompleteLogin` settles all of
them in its transaction. `place[a][s]` is the generation in which attempt `a`
holds a place of scope `s`. A generation is a uuid in the code, here a number
that grows with every uuid stored. `Lose` ends an attempt anywhere: a crash, a
cancelled context, an error of `fail` or `clear`. `ReleaseFault` is the write
error `release` only logs. `admittedAt` records when an attempt was last
admitted; no action reads it.

### SignIn

`requests[r]` is a request between two of its transactions, with the challenge
it names and the secret or code it has verified in memory. `totp` and `codes`
are the owner's rows, `challenges` and `sessions` the tables. Matching a code
changes nothing and remembers what was matched; the step that consumes it, the
one that consumes the challenge, and the one that creates the session follow as
the code orders them. Beside them run enrolment, activation, regeneration,
disabling, logout, the daily cleanup and the owner's recovery from the command
line. `spent` collects accepted codes; no action reads it.

### RecurrenceRules

Operators without state. A date is its day number, a month its number since
year 0, so package `time` becomes arithmetic on years 1 to 9999. `at(spec, i)`
is the i-th date of a rule: the origin, resolved once, plus i intervals, with the
day clamped to its month. `Stop` is the index at which `walk` ends, `Occurrences`
the window cut from it, `NextAfter` the first date behind one. `Named` is the
reference: it reads the rule date by date, without an origin or a series. The
service caps the interval at 10000 (`app/recurring.go:519`), so the integers of
the code do not overflow. `MCRecurring` computes the schedules of the recurring
runs with these operators.

### Recurring

A sweep (`GenerateDue`) reads today's local date, the templates, and their
postings in a second query; opens one template at a time and enumerates the
missing dates of its window; makes one date per transaction; and moves the
watermark in a transaction of its own. `sweep[g]` keeps the snapshot it works
from. A request (`user[u]`) reads template, postings and, for a review, the
occurrence row, and then writes with the guards of its transaction. `drafts`
lists, per template and date, the postings of each draft ever made for the date,
so a second draft would show. `base` is the watermark at which the present
schedule began; no action reads it. A schedule is the set of its dates, the
postings a number that every edit renews, the verdict of template validation a
free choice. `ChangeTimeZone` lets the local date step back.

### Reconciliation

One account and commodity. A ledger write is prepared (`Prepare...`: the service
reads the transaction, names the positions the write touches and the checkpoints
the owner is shown) and commits later (`UpdateTransaction`, ...): version check,
day sequence, and the guard that finds the active checkpoints reaching beyond
the touched positions and either refuses or invalidates them. Sessions and
checkpoints decide in one transaction each. `checkpoints` is a sequence; each
names the one its starting balance was carried from, and `Chain` is the chain so
made. A version id stands for the immutable facts stored under it, so a
session's totals cannot differ between its preview and its transaction.

A statement may be of any day; it starts from the active checkpoint that is
latest by date. An override is bound in one of three ways
(`bindCheckpointOverride`): a single write's set must be the reviewed one
("exact"); a row of an import batch needs its set to be within the one reviewed
for the batch ("batch", `WithBatchReviewedCheckpoints`), which may hold more than
the row needs (`BatchRefs`); and an override without a set is bound to nothing
("unbound"). The API refuses the last (`api/transactions_types.go:382`); only
previews make it, to learn what a write would invalidate, and they roll back
(`app/checkpoint_override.go:15`). The runs take the first two, the theorems hold
with all three.

### Investments

`ops` is the list of operations, never rewritten; `lots`, `taken` and `family`
are the projection that commands maintain. A purchase or a sale at the end of
the history is applied directly; one that is backdated, and every correction
that later operations build on, replays the whole history (`Replayed`), in the
order the code gives slots. A correction keeps the slot of the operation at its
root. The arithmetic is exact: the largest share of a basis that a partial sale
may take, pooled costs under average cost with the code's order of remainders.
A command is one transaction whose guard reads the operation it corrects again,
so commands do not interleave; the difficulty is the sequence. A replay that
cannot be carried out, as a policy refusal, is no step.

### Bounds in guards

Named bounds (`MaxItems`, `MaxTime`, `MaxRuns`, `MaxRetries`, `MaxFaults`,
`MaxDay`, `MaxRevision`, `MaxAudit`, `MaxOps`, `MaxWrites`, `MaxSeq`, `MaxDirs`,
`MaxBooks`, `MaxCommits`, `MaxCuts`, `MaxBatches`, `MaxRows`, `MaxEdits`,
`MaxNow`, `MaxSecrets`, `MaxSets`) appear in guards and type bounds only. One
guard deserves a word: `RequeueBackgroundWork` is off at the clock's last
instant, because there, and only there, an item could be failed and requeued for
ever without time passing.

## 3. The runs

Each module's type invariant is checked together with one or two facts about the
same rows, as one named conjunction:

| Invariant | Parts |
|---|---|
| `RowsAreSound` | `TypeOK`, `PendingUnderCap` |
| `RunsAreSound` | `TypeOK`, `CompletedWorkHasCopy` |
| `CountersAreSound` | `TypeOK`, `CounterIsExact` |
| `OccurrencesAreSound` | `TypeOK`, `OneDraftPerDate` |
| `FactorIsSound` | `TypeOK`, `ActiveSecretWasProven`, `RecoveryCodesAreWhole` |
| `DirectoryIsSound` | `TypeOK`, `LiveIsOneDatabase` |
| `ReviewIsSound` | `TypeOK`, `PostedIsMarked` |
| `CheckpointsAreSound` | `TypeOK`, `CheckpointAddsUp`, `LinkedIsReconciled` |
| `PositionIsSound` | `TypeOK`, `Conserved`, `SoldWhatWasHeld` |
| `NothingIsSkipped` | `FetchIsComplete`, `CursorIsCovered` |
| `CountedExactlyOnce` | `CountedOnce`, `ChainAddsUp`, `StartAccountsForCovered` |

| Run | Properties | Distinct states |
|---|---|---|
| `queue` | `RowsAreSound`, `ActiveUnique`, `LeaseProtects`, `OnlyHolderSettles`, `DueWorkIsServed`, `QueueKeepsPromise` | 0.13 M |
| `backup_safety` | `RunsAreSound`, `EnoughCopies` | 1.8 M |
| `backup_recovery` | `FinalNameIsTrusted`, `WorkSettles` | 0.05 M |
| `restore` | `DirectoryIsSound`, `NothingIsLost` | 0.11 M |
| `import_fetch` | `NothingIsSkipped`, `OfferedOnce` | 3.3 M |
| `import_commit` | `ReviewIsSound`, `PostedOnce`, `OutcomesStand` | 2.1 M |
| `login_throttle` | `CountersAreSound`, `BudgetHolds`, `AddressWindowHolds`, `RefusedHoldsNothing`, `AddressBlockStands` | 0.37 M |
| `sign_in` | `FactorIsSound`, `OneSessionPerChallenge`, `NoCodeIsAcceptedTwice`, `FactorIsCurrent` | 1.4 M |
| `recurring_sweeps` | `RulesAreKept`, `OccurrencesAreSound`, `NothingPassedOver`, `DraftsFollowTemplate`, `NoLostUpdate` | 0.83 M |
| `recurring_review` | `DecidedDatesAreFinal`, `DueIsRecorded` | 0.27 M |
| `reconciliation` | `CheckpointsAreSound`, `PeriodStands`, `CountedExactlyOnce`, `InvalidatesWhatWasReviewed` | 1.4 M |
| `investments` | `PositionIsSound`, `ProjectionIsHistory`, `HistoryBeforeStands` | 0.33 M |

Most runs end where their bounds are used up, and the systems themselves may
rest, so deadlock is checked only in `reconciliation`, where a session can
always be opened or closed.

### Bounds, and why they suffice

* `queue`: two worker ids, two payloads of one kind, three rows. A stale and a
  present holder of one row, a twin of a failed row, and a hand-over whose
  successors meet an active row all fit. A lease and a backoff last one instant
  and the clock makes one step, so a lease runs out, a row is reclaimed and a
  retried row becomes due again. The safety properties of this run are proved
  without bounds (section 5).
* `backup_safety`: two runs with a keep count of one, so the second run prunes
  the first; an age cap; one crash, one failed write, one retry. With one attempt
  per item a failed run is final and only a retry takes it up again, which is how
  a run that has its copy is reopened; the backoff of further attempts is in the
  other run. This is enough for a run to lose a sound copy to a failing check
  after an older one was removed and before it was marked pruned: without
  `Standing` in `EnoughCopies`, TLC finds that. Power cuts are off, because with
  them `EnoughCopies` fails (observation 2).
* `backup_recovery`: one run, asked for either way, with a crash or power cut, a
  failed write, backoff and a retry. Copies of different runs share no file, so
  one run shows all a power cut can do to a name. `Patient` lets time pass only
  while active work waits for it; otherwise the clock could be used up before
  the work needs it, and the bound would decide the property.
* `restore`: two restore commands, so one can be killed half way and the next
  one finds what it left; two power cuts, two transactions per book, four books
  (the original, two copies, one that a server makes where the live name is
  empty).
* `import_fetch`: two endpoints, since a stage is closed and its cursor taken
  over where one ends and the next begins; three items at one of them, of which
  two share a timestamp and one is older, so that both an equal and an older item
  meet the cursor, and none at the other: the stages' walks do not read each
  other's items. Two batches, so the second starts from the first one's cursors;
  four rows; one fault, one edit. Calls that are rate limited throughout are not
  bounded.
* `import_commit`: two commits, two batches and one item that both batches
  stage: the smallest in which a commit meets its twin and a discard. The owner
  makes one edit (a patch, a discard or a deletion). The safety properties of
  both import runs are proved without bounds (section 5).
* `login_throttle`: three sign-ins, or two reauthentications, and a budget of
  two, so one can be refused, and two in one generation can settle in either
  order around a block; window two with a clock to two, so windows overlap
  without coinciding; writes may fail. Only one kind is made at a time: their
  scopes are disjoint and no step reads the other's rows. A refusal whose
  release fails ends outside "refused", since its place is left to expire.
* `sign_in`: two requests, one challenge, two secrets and two code sets, so an
  enrolment can change under a verified factor; a clock of two TOTP steps.
* `recurring_sweeps`: one template with two dates, a cap of one date per sweep,
  the scheduler's and a run-now sweep, an edit of the postings, one of the
  schedule and a pause, one fault. `recurring_review`: two templates that share
  the cap, and two concurrent requests that skip or retry.
  `RulesAreKept` has a part without state, `EnumerationIsRight`: rules of every
  frequency and interval 1 to 3, without an end, with a count and with an end
  date, from starts at the end of a year, on 29 February, in the middle of a
  month and at the end of the calendar; days 15, 29, 30, 31 and the last one; 4
  months for days and weeks, 14 for months, 37 for years.
* `reconciliation`: two postings on two days, whose amounts may change sign;
  statements of either day in any order, so a second one may be of a later, the
  same or an earlier day than the one it starts from; overrides of single writes
  and of rows of a batch; one open session and one prepared write at a time; a
  book that starts with one reconciled posting, and two writes after creation.
  This is enough for the cases of observation 7: without `InOrder` TLC finds both
  a chain that no longer adds up and a line no start accounts for. One prepared
  write is enough for what a write can find changed, since everything else
  commits beside it; two would only race for a version. Unbound overrides are in
  the theorems.
* `investments`: five operations over two days, so that a purchase, a sale over
  two lots, a later operation and a correction of each fit, with same-day and
  backdated ones; two purchases whose prices leave a remainder when pooled; all
  four methods. Instances with two quantities (1.3 M states) and with three days
  (1.5 M states) gave the same verdicts.

Symmetry is used over worker ids, attempts of one kind, committers, restores,
requests, ids and transactions, in runs without liveness properties only.

### Fairness

* Queue: `WF` on the clock, on starting a service, on claiming (the loops poll
  every minute) and on a handler's return (`Return`: whichever settlement, or
  none). A handler is not assumed to succeed, and nothing is assumed of callers
  or of requeues. The last worker id of the bounded set does not crash; in the
  program there is always a next start.
* Backups: `WF` on the worker's steps, on the start of the process and on the
  clock. Failures remain free choices.
* Recurring: `WF` on the scheduler's sweeps (at start and every minute), none on
  run-now, on requests or on the calendar. Pauses and lost sweeps are in
  `recurring_sweeps`, which states no liveness; `DueIsRecorded` is checked
  without faults, so that a lost sweep passes no date is `NothingPassedOver`'s to
  say.

## 4. Observations

Behaviours met while modelling, with how to see each. None is a run.

1. The attempt cap is compared only after a handler returned an error; an item
   whose worker dies is claimed again whatever its attempts
   (`db/background_work.go:136`). A test says of the count that it is "what stops
   a crash loop from retrying for ever" (`db/background_work_test.go:113`).
2. After a crash between rename and directory sync the next backup attempt adopts
   the file (`app/backup_worker.go:216`) without the sync that the comment at
   `app/backup_worker.go:252` asks for. `PowerCuts = TRUE` in `MCBackupRuns.cfg`
   shows `EnoughCopies` violated.
3. `RetryBackupRun` writes "pending" after the requeue has committed
   (`app/backup_worker.go:407`); a worker that finishes in between is
   overwritten, and the run says it is queued while it has no work. If the worker
   has recorded the run, it has its copy and may already have removed an older
   one for it. When such a run is taken up again (its item reclaimed after a
   crash or a failed settlement), and the check of its copy fails for whatever
   reason, `produceBackup` removes it (`app/backup_worker.go:215`). The older run,
   if the crash fell before `MarkBackupRunPruned`, is then completed, not pruned
   and without a file, and no copy is left until the new one is published.
   `EnoughCopies` says how far this goes: each reopened run costs one copy at
   most, and without one nothing is lost.
4. An abandoned throttle place ages out with its window only when the budget is
   full; below that, every admission carries it on and renews the row
   (`app/auth_throttle.go:78`, against `:26`).
5. A commit decides on the rows it listed. A row the fetch stages after that is
   still pending when the batch is closed as committed
   (`app/import_service.go:1157`, against the comment at `:1450`).
6. A crash between `FailBackgroundWork` and `markTrading212FetchTerminalFailure`
   (`app/import_fetch_worker.go:333`) leaves a batch "fetching" that nothing
   fetches; the owner can only discard it.
7. A session may carry any statement date (`app/reconciliation.go:153`) and
   starts from the checkpoint that is latest by date (`db/reconciliation.go:163`).
   Let one end at place 2 of a day and a second one, of the same day or an earlier
   one, link only what comes before: it is carried from the first and its
   boundary is before the first one's. Editing the line at place 2 then
   invalidates the first only, and if the first was voided by hand, nothing: no
   override is asked for. The second stays active with a balance that includes
   that line as it was, and the next session starts from it. The plan asks that
   a change of a reconciled balance be "never silent" and invalidate "all later
   active checkpoints" (`docs/plans/transaction-ledger-core-plan.md:275`, `:768`),
   where later is meant by boundary, not by chain. What one dated before the
   latest links is also withheld from every session
   (`db/reconciliation.go:1178`) while no later starting balance counts it.
   `InOrder` in `ChainAddsUp` and `StartAccountsForCovered` marks these cases;
   taking it out shows each of the two violated. What the code's own self-check
   asks (`app/self_check.go:150`), that a checkpoint is its start and its lines,
   holds throughout (`CheckpointAddsUp`).
8. `docs/conventions.md:432` says that restoring a transaction that is both voided
   and soft-deleted is never guarded, as it is out of the ledger either way;
   `planSetDeleted` (`app/transactions_write.go:591`) guards it whenever a
   checkpoint covers its position. The model follows the code.
9. A direct sale keeps the method family locked while a lot opened later than
   the sale is open (`db/investments.go:1571`); a replay of the same history
   lifts it. Two purchases on days 1 and 2 and a sale on day 1 of all of the
   first show it; `ProjectionIsHistory` allows for it.
10. Replacing one of two same-day purchases by an identical one changes which of
   the two lots FIFO and LIFO take, because ties go by lot id
   (`db/investments.go:1640`) while a replay keeps the root's slot
   (`docs/adrs/0013-investment-operations-and-position-sides.md:78`).
11. A fetch call that rate limits use up asks to go on where it would have read.
   If it had a resume path, the continuation has the payload of the item that is
   still running, and the queue, with one active row per payload, takes it for
   that one (`db/background_work.go:66`; `app/import_fetch_worker.go:470` ignores
   it). The running item then completes, and the batch says "fetching" with
   nothing to fetch it; `hasInFlightFetch` (`db/imports.go:984`) refuses a new
   start until the owner discards the batch. Nothing is skipped or offered twice
   by it. `Throttled` followed by `EnqueueContinuation` and
   `CompleteBackgroundWork` shows it.

## 5. Proofs

### The queue (`WorkQueueProofs`)

Assumption `QueueAssumption`: keys have kinds, "no owner" is no owner, lease and
cap are positive, and a successor carries fewer attempts than the cap.

The inductive invariant `QueueInv` is `TypeOK`, `ActiveUnique`,
`PendingUnderCap` and `HoldInv`. `HoldInv` is the strengthening: it ties a
handler's copy to the table. While its lease runs, the row is fenced for the
handler's owner and has the very expiry the handler was given; and whenever the
fence holds, the row's attempts are at most those of the copy, or what a
hand-over may have raised them to. Without the first part `LeaseProtects` is not
inductive (nothing would keep a claim from taking the row); without the second
`PendingUnderCap` is not, because a retry compares the *copy's* attempts and
writes the row.

The proof has one lemma per kind of step. The table operators are first reduced
to what the invariant reads: `Grown` (rows appended, attempts raised within the
successor bound) and `Settled` (one row left its running state, the others
untouched). `SettlementKeepsInv` then covers every settlement at once.

* `QueueInvariance`: `Spec => []QueueInv`, type correctness included.
* `ActiveRowsAreUnique`, `RetriesAreWithinCap`, `LeaseIsExclusive`,
  `RowsStaySound`: the invariants `ActiveUnique`, `PendingUnderCap`,
  `LeaseProtects` and `RowsAreSound`.
* `StaleWorkersAreFenced`: the action property `OnlyHolderSettles`. A row that
  leaves "running" was settled by a loop whose fence held, and the loop's item
  is that row.

### The throttle (`LoginThrottleProofs`)

Assumption `ThrottleAssumption`: finitely many attempts, each with distinct
scopes; budget and window positive.

`ThrottleInv` is `TypeOK`, `CounterIsExact`, `BudgetHolds`,
`PlacesFollowGenerations` (no place or row is of a generation not yet issued)
and `UnreservedHasNoPlace` (an attempt has no place in a scope it has not
reached). The budget needs the exact counter, since the code compares the
counter; the exact counter needs the other two, since a fresh generation must
start without places and an attempt must take one place per scope. The invariant
is a conjunction over scopes, and a step touches a scope in one of four ways: it
leaves it alone, takes a place, gives a place back, or clears the row; each way
is a lemma about cardinalities.

* `ThrottleInvariance`, `BudgetIsKept`, `CounterIsKept`, `CountersStaySound`.
* `BlocksStand`: the action property `AddressBlockStands`.

`RefusalInv` adds what a refusal does: places are in the scopes of their
attempt, and a refusal has given back those it has been through.

* `RefusalInvariance`, `RefusalsHoldNothing`: the invariant `RefusedHoldsNothing`.

`WindowInv` is about addresses, whose budget no success resets: their rows are
never deleted, so they carry the newest generation; who holds a place was
admitted before the row was last written; and admissions of two generations are
a window apart. So any window's length meets places of one generation only
(`WindowHasOneGeneration`), and `BudgetHolds` bounds those. The assumption also
says that an address is the last scope of its attempts, as `loginThrottleScopes`
orders them; without it `admittedAt` would be the time of another admission.

* `WindowInvariance`, `AddressWindowIsKept`: the invariant `AddressWindowHolds`.

### The refinement (`WorkQueueProofs`)

`RefinementInv` is `QueueInv` and `RunningIsOwned`: a running row names a worker.
Each statement on the table is related to one action of `ExclusiveWork`:
`StopStep`, `AskStep`, `TakeStep`, `SettleStep` and `LapseStep` say what a change
of the table must do for the mapped state to make that step, and the theorem goes
through the actions of the queue with them. `ActiveUnique` is what makes the
mapping a function: a key has one running row, which says who has it in hand and
until when.

* `QueueImplementsPromise`: `Spec => QueueKeepsPromise`.

### Backups (`BackupRunsProofs`)

Assumption `BackupAssumption`: "no owner" is no worker; caps, delays, keep count
and day length are positive.

`RunsInv` is `TypeOK`, `CompletedWorkHasCopy`, `ItemsFollowRuns` and
`RecordsAreSound`. Run and item are made in one transaction and neither is ever
removed, so the rows of the two tables pair up; and while the worker is at work
its item is running under its own process, so that a requeue, which needs a
failed item, cannot touch it. That is what `CompletedWorkHasCopy` needs at
`CompleteWork`: between recording and settling, the record is the worker's, or a
late `RetryUpdate` reopened it (observation 3), and the item is still running.

`FilesInv` is `FinalNameIsTrusted` and what the worker relies on between its
file steps: a partial file about to be renamed is synced, a final file about to
be recorded is there. It holds with power cuts: they tear cached bytes only.

`CopiesInv` is about retention. It counts runs that are `Standing`: completed
once, not pruned, and either with a complete copy or reopened. A copy that
`RemoveFinal` takes is never that of a completed run, since the worker produces
only what it has marked running (`ProducesUnfinished`, which leans on the pairing
of items and runs); so a run that stands keeps standing while its copy is removed
and made again. A run is `Spared` when pruning may take its copy:
it is past the age cap, or the keep count of newer runs stand. Every completed
run either stands or is spared, and so is every run the worker plans to
prune. Without it `EnoughCopies` is not inductive: a crash between removing a
file and marking it pruned leaves a run that counts as prunable without a copy,
and the next plan counts it as newer than another. `SparedDown` says what saves
the older one: what may go for a run may go for every older one, since runs are
numbered in the order of their times. `SparedThinned` covers a removal: newer
runs lose nothing they counted, older ones are spared because the removed one is.

* `RunsInvariance`, `RunsStaySound` (`RunsAreSound`).
* `FilesInvariance`, `FinalNamesStayTrusted` (`FinalNameIsTrusted`).
* `CopiesInvariance`, `CopiesStayEnough` (`EnoughCopies`): assume `~PowerCuts`, as
  the run does; with power cuts the property fails (observation 2).

### Sign-in (`SignInProofs`)

Assumption `SignInAssumption`: no challenge or session is "no id"; a set has
codes; a challenge lives for a while.

`SignInInv` is `TypeOK`, `ChallengeInv` and `CodeInv`. `ChallengeInv` says what a
request relies on between its transactions (`Fits`): its challenge, while it
stands, was verified against the present enrolment, and one that is consumed has
no session until its only completer makes it. `CodeInv` ties the codes ever
accepted to the rows: those of the present secret are behind its replay counter,
those of the present set are gone from the unused ones. Without the first a
secret could be replaced under a verified request; without the second nothing
says that a code the row still offers was not accepted before.

* `SignInInvariance`, `ChallengesAreSingleUse` (`OneSessionPerChallenge`),
  `FactorStaysSound` (`FactorIsSound`).
* `CodesAreSingleUse`, `SignInsAreCurrent`: the action properties
  `NoCodeIsAcceptedTwice` and `FactorIsCurrent`.

### Restore (`RestoreProofs`)

Assumption `RestoreAssumption`: the server and nobody are not restore commands;
there is at least one database, and a client's transaction in it (`Init` has
one in the WAL). `MaxDirs`, `MaxBooks`, `MaxCommits` and `MaxCuts` are any
numbers.

`NothingIsLost` is about what processes see, so it does not say what a cut would
leave. The invariant is about the disk. `Files` says of a set of entries that
nothing but the copy in the making is partial, a WAL stands beside its own
database and is up to date, and every database is somewhere. `Pending` lists
what can wait for a sync: nothing, an install of a fresh copy, a live file moved
aside, the two in that order, or the end of the first when a sync settled the
second. `FilesInstalled`, `FilesPreserved` and `FilesRemoved` show that each of
these takes sound entries to sound entries, so whatever part of them survives is
sound (`SurvivorsAreSound`); what processes see is one such part. `Progress` is
what each step of a command relies on, above all that no operation waits when
the copy takes the live name. TLC checked the invariant on the instance of the
run first.

* `RestoreInvariance`, `DirectoryStaysSound` (`DirectoryIsSound`),
  `NoBookIsLost` (`NothingIsLost`).
* `AnyCutLosesNothing`: at every moment, every part of what waits leaves every
  database that a client wrote to.

### Recurrence rules (`RecurringProofs`, last part)

No assumption: the theorems are about every rule that validates. A daily or
weekly series ascends by arithmetic. For months, `LaterMonths` shows that the
first of a later month is behind the last day of an earlier one by a day for
each month between them, over leap and century years; `ClampedAscends` and
`OriginIsOnAnchor` carry that to clamped days and to the shifted origin.

* `SeriesAscends`, `DaysAreNamedOnce`: each step of a series is a day or more, so
  a rule names a day at most once.
* `WalkStops`: the set `Stop` takes the least of is not empty, for every window.
* `NextIsFirst`: `NextAfter` is the first date behind the given one that the
  series reaches before it ends, and there is none exactly when it says so.

### Recurring (`RecurringProofs`)

`RecurringInv` is `TypeOK`, `OneDraftPerDate`, `NothingPassedOver` and what the
snapshots know. A row that was read is not newer than its template, and *while
its revision stands* the template still has those postings, that schedule and
that watermark (`SamePostings`, `SameRow`); a sweep's open window lists every
date from the watermark on that has no row yet (`WindowIsListed`). The last is
what `NothingPassedOver` needs, since the watermark moves to the end of a window
whose list has run empty. A step takes a template forward in its revisions and a
date out of "none"; `EntryStays` and `RequestStays` show once that such a step
keeps what every other snapshot knows.

* `RecurringInvariance`, `OccurrencesStaySound`, `NothingIsPassedOver`.
* `DecidedDatesStay`, `DraftsKeepToTemplate`, `NoUpdateIsLost`: the action
  properties `DecidedDatesAreFinal`, `DraftsFollowTemplate` and `NoLostUpdate`.

### Imports (`ImportsProofs`)

Assumption `ImportsAssumption`: there is an endpoint, its items come with
timestamps that do not decrease (the provider lists them newest first, which the
fetcher's stop at an older item relies on), and an item is tried at least once.

`ImportsInv` has four sides, kept apart in the proof. The *ledger*: `PostedOnce`,
`PostedIsMarked`, and that a request adopts only what is in the ledger. The
*offers*: `OfferedOnce`, and that what is about to be staged as new is not in its
batch, which holds because one handler stages. *Work in hand*: the claimed item
is the handler's, and a payload's batch exists. The *pages*: what is staged
already, as a payload tells it. No row is ever taken away, so "staged" is for
good, and what a payload says stays true of every copy of it, in the table, in a
handler's hands, or claimed again after a crash. A payload says (`PayloadIsSound`)
that its cursors pass no unstaged item (`Covers`), that earlier stages are
complete, and that in its own stage everything above the resume path that was
known at the start, or is older than the running maximum, is staged
(`WalkedTo`). `NothingBelow` closes a stage: when the fetch stops at an item
older than the cursor, every item below it is older still, so staged.
`PageIsWalked` takes the walk down by one page, `ThrottledKeeps` covers a call
that read none and leaves it where it was (`Remains`), `ContinuationIsSound`
carries it into the next item, `FinalCursorsCover` into the saved cursor.

* `ImportsInvariance`, `OnePostingPerItem` (`PostedOnce`), `ReviewAgreesWithLedger`
  (`ReviewIsSound`), `NewIsOfferedOnce` (`OfferedOnce`), `NothingIsLeftOut`
  (`NothingIsSkipped`).
* `SettledOutcomesStand`: the action property `OutcomesStand`.

### Reconciliation (`ReconciliationProofs`)

Assumption `ReconciliationAssumption`: finitely many transactions and slots; days
are natural numbers and amounts integers.

`ReconciliationInv` is the types and four things the operations rely on without
checking them.

* `SequencesWereGiven`: the place a boundary was drawn at was given to a
  transaction that can no longer be removed. `allocateOrInheritAccountDaySeq`
  takes the greatest place of a version that *still exists*, so this is what
  keeps a new posting of the day behind the boundary; removing a draft frees its
  places, and without this one of them could be given out again before it.
* `StatementsInv`: no line is counted twice (`CountedOnce`: finishing links only
  lines outside every covering checkpoint, and covering is never gained again);
  and of an active checkpoint, the balance of its period is what it was, it is
  its start and its lines, which are behind its boundary and marked (`OwnOK`).
  Nothing of this depends on the order of statements, because each boundary is
  guarded for itself. `CarriedOK` is what does: if the chain is in order, a
  boundary is behind those it was carried from, so a write that leaves the last
  active leaves the lines of all of them alone; if all statements are, every
  older active checkpoint is on the chain of a newer one.
* `SessionsInv`: a session's difference is about the amounts its selected versions
  had. Finishing compares versions only; that a version that is still current
  still has its amount is what makes the new checkpoint add up.
* `RequestInv`: a prepared write touches the place where its transaction is and
  the one it goes to, as long as the version it read is the current one. A move
  makes a new version, so a write that was prepared before it is refused. A
  write with an override of its own was reviewed for something (`ReviewOK`).

Every ledger step is shown to have one `Effect`: what is behind the boundary of a
checkpoint that stays active is as it was, because the row is not in the ledger
or outside before and after the step, or is the same to every period
(`OutsideIsKept`, `SameIsKept`). `EffectKeeps` then keeps the invariant for all of
them. `FinishingKeeps` is the other half: the new checkpoint, built from a
selection made earlier.

Totals (`MapThenSumSet`) and chains (a recursive function) are recursions over
data. The induction theorems of the library take an operator, which the provers
cannot instantiate, so `Induction` and `SetInduction` are stated over a set of
numbers and a set of sets, from the well-foundedness of `<`; `FoldExists` and
`ChainsExist` show that some function satisfies the recursion, `FoldsAgree` and
`ChainsAgree` that it does not matter which.

* `ReconciliationInvariance`, `PeriodsStand` (`PeriodStands`), `SoundCheckpoints`
  (`CheckpointsAreSound`), `EveryLineCountedOnce` (`CountedExactlyOnce`): for
  whatever statements the owner enters, in whatever order. What the last one says
  of chains out of order is `CountedOnce` only (observation 7).
* `ReviewedIsInvalidated`: the action property `InvalidatesWhatWasReviewed`, for
  single writes, rows of a batch and writes without an override. A single write
  that goes through invalidates exactly what was reviewed, also when that is
  nothing, which is where `ReviewOK` comes in.

The theorems are about `Spec`, which begins with an empty account; the run begins
with `InitReconciled`, a state that leads on from there.

### Only model-checked

* Liveness (`DueWorkIsServed`, `WorkSettles`, `DueIsRecorded`): the prover does
  not handle fairness and ENABLED.
* `PositionIsSound`, `ProjectionIsHistory` and `HistoryBeforeStands` of
  `Investments`. They are about replays of a whole history, whose result depends
  on every step before; what a replay computes for every input would need an
  induction over the operator that is folded.
* `RulesAreKept`: that a window holds exactly the dates the rule says goes through
  a filter of a sequence, again an induction.

## 6. Not modelled

* FX coverage: the walk over currency pairs is a handler of the queue here, and
  its cursor is not followed. Quote refresh keeps no cursor.
* Sessions: trusted devices, idle expiry, password change, personal access
  tokens; first-time setup, one transaction behind a uniqueness constraint.
* Imports: parsers, matching against the ledger, resolution of accounts and
  instruments (they decide what a row says, not what becomes of it), the
  scheduler's due window, uploads, which stage in one call.
* Ledger: journals of several lines and their balance, tags, categories; the
  previews, which write and roll back.
* Investments: short positions, splits, transfers, exchanges, mergers, spin-offs,
  returns of capital, unknown basis, the journals and prices a command posts.
* Backups: the policy row, whose values are constants; the page copy of SQLite's
  online backup, whose outcome is a choice; the self-check that follows.
* Exact decimals: pure arithmetic without state. Recurrence rules: the parsing of
  dates. In `Recurring` a schedule is a set of dates, and the end of the calendar
  is left out.
* Budgets, forecast, reports, home, search, exports, self-check: computed from
  one snapshot, with no protocol of their own.
* Cryptography, formatting, HTTP, provider clients and the frontend: no shared
  state of the kinds above.

## 7. What could come next

1. The FX coverage walk over `WorkItems`: pairs, deferral at rate limits,
   hand-over, and that it reaches every pair.
2. In `Investments`: splits and transfers, then the short side.
3. Theorems about `Investments`, with inductions stated over sets as in
   `ReconciliationProofs`.
