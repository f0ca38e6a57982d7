------------------------------ MODULE BackupRuns ------------------------------
(***************************************************************************)
(* Scheduled and requested backups: backup_runs, their work items, the     *)
(* files in the backup directory, the worker that produces and prunes      *)
(* copies step by step, the user's retry of a failed run, process crashes, *)
(* power cuts and failing database writes.                                 *)
(*                                                                         *)
(* One process serves the database (the lock file) and runs one backup     *)
(* worker.  Every step below is one database transaction or one file       *)
(* system call; a crash may fall between any two of them.                  *)
(***************************************************************************)
EXTENDS WorkItems, FiniteSets, FiniteSetsExt

CONSTANTS Workers,      \* worker ids, one per start of the process
          Triggers,     \* the ways a run is asked for: "scheduled", "manual"
          MaxAttempts,  \* maxBackupAttempts
          Lease,        \* lease of a claimed item
          Backoff,      \* delay of a retried item
          Keep,         \* retention_count
          MaxAge,       \* retention_max_age_days, 0 for none
          DayLength,    \* instants per local day
          PowerCuts,    \* whether a crash may lose what was not synced
          Patient,      \* whether time passes only while active work waits for it
          MaxRuns,      \* bound: runs ever created
          MaxRetries,   \* bound: retries the user asks for
          MaxFaults,    \* bound: database writes that fail
          MaxTime       \* bound: last instant of the clock

ASSUME BackupAssumption ==
    /\ NoOwner \notin Workers
    /\ Triggers \subseteq {"scheduled", "manual"}
    /\ {MaxAttempts, Lease, Backoff, Keep, DayLength} \subseteq Nat \ {0}
    /\ {MaxAge, MaxRuns, MaxRetries, MaxFaults, MaxTime} \subseteq Nat
    /\ PowerCuts \in BOOLEAN /\ Patient \in BOOLEAN

VARIABLES items,    \* background_work_items of kind maintenance.backup
          runs,     \* backup_runs; a run's id is its position
          files,    \* what the backup directory holds for each run
          worker,   \* the worker's program counter and locals
          request,  \* a RetryBackupRun in progress
          process,  \* the worker id of the live process, or "down"
          spent,    \* worker ids that were used
          faults,   \* database writes that failed so far
          now       \* the clock

vars == <<items, runs, files, worker, request, process, spent, faults, now>>

RunIds == 1..MaxRuns
Ids == DOMAIN runs

(* A file is absent, incomplete, complete but only cached, or complete and   *)
(* synced.  named says that the directory entry of the final name is synced. *)
Contents == {"none", "torn", "cached", "synced"}
File == [final: Contents, part: Contents, named: BOOLEAN]

NewRun(trigger) ==
    [trigger |-> trigger, date |-> now \div DayLength, status |-> "pending",
     verified |-> FALSE, sized |-> FALSE, pruned |-> FALSE, createdAt |-> now,
     workItem |-> Len(items) + 1]

Resting == [pc |-> "idle", item |-> 0, attempts |-> 0, run |-> 0, victims |-> {}]
Unasked(count) == [pc |-> "idle", run |-> 0, count |-> count]

Init ==
    /\ items = << >>
    /\ runs = << >>
    /\ files = [r \in RunIds |-> [final |-> "none", part |-> "none", named |-> TRUE]]
    /\ worker = Resting
    /\ request = Unasked(0)
    /\ process = "down"
    /\ spent = {}
    /\ faults = 0
    /\ now = 0

Up == process # "down"

At(pc) == Up /\ worker.pc = pc
Go(pc) == worker' = [worker EXCEPT !.pc = pc]

(* A database write that fails changes nothing; the caller sees the error. *)
Fault == faults < MaxFaults /\ faults' = faults + 1

-----------------------------------------------------------------------------
(* RequestBackup and scheduleBackupIfDue end in CreateBackupRunWithWork: the *)
(* run and its work item in one transaction, one scheduled run per local day.*)
CreateRun(trigger) ==
    /\ Up
    /\ Len(runs) < MaxRuns
    /\ trigger = "scheduled" =>
          \A r \in Ids : runs[r].trigger = "scheduled" => runs[r].date # now \div DayLength
    /\ runs' = Append(runs, NewRun(trigger))
    /\ items' = Enqueue(items, Len(runs) + 1, now)
    /\ UNCHANGED <<files, worker, request, process, spent, faults, now>>

ClaimBackup ==
    /\ At("idle")
    /\ \E i \in DOMAIN items :
        /\ FirstDue(items, RunIds, now, i)
        /\ items' = ClaimRow(items, i, process, now + Lease)
        /\ worker' = [pc |-> "start", item |-> i, attempts |-> items[i].attempts + 1,
                      run |-> items[i].key, victims |-> {}]
    /\ UNCHANGED <<runs, files, request, process, spent, faults, now>>

(* RunBackup: a completed run is left alone, any other is marked running. *)
ReadRun ==
    /\ At("start")
    /\ Go(IF runs[worker.run].status = "completed" THEN "complete" ELSE "begin")
    /\ UNCHANGED <<items, runs, files, request, process, spent, faults, now>>

MarkRunning ==
    /\ At("begin")
    /\ runs' = [runs EXCEPT ![worker.run].status = "running", ![worker.run].verified = FALSE]
    /\ Go("produce")
    /\ UNCHANGED <<items, files, request, process, spent, faults, now>>

StartRunFault ==
    /\ At("start") \/ At("begin")
    /\ Fault
    /\ Go("settle")
    /\ UNCHANGED <<items, runs, files, request, process, spent, now>>

Verifies(content) == content \in {"cached", "synced"}

(* produceBackup, first half: adopt a final file that verifies.  *)
AdoptFinal ==
    /\ At("produce")
    /\ Verifies(files[worker.run].final)
    /\ Go("record")
    /\ UNCHANGED <<items, runs, files, request, process, spent, faults, now>>

(* Any error of VerifySQLiteBackupStats removes the final file, whatever it  *)
(* holds: a sound copy as well, when the context is cancelled, the file busy *)
(* or a read fails.                                                          *)
RemoveFinal ==
    /\ At("produce")
    /\ files[worker.run].final # "none"
    /\ files' = [files EXCEPT ![worker.run].final = "none"]
    /\ Go("produce")
    /\ UNCHANGED <<items, runs, request, process, spent, faults, now>>

(* What an earlier attempt left of the copy goes, and the copy begins: from  *)
(* here the partial file exists and is incomplete.                           *)
ClearTarget ==
    /\ At("produce")
    /\ files[worker.run].final = "none"
    /\ files' = [files EXCEPT ![worker.run].part = "torn"]
    /\ Go("copying")
    /\ UNCHANGED <<items, runs, request, process, spent, faults, now>>

(* OnlineBackupSQLiteDatabase returned: the copy is whole, or it is not and  *)
(* VerifySQLiteBackup will say so.                                           *)
EndCopy ==
    /\ At("copying")
    /\ \E content \in {"torn", "cached"} :
          files' = [files EXCEPT ![worker.run].part = content]
    /\ Go("verify")
    /\ UNCHANGED <<items, runs, request, process, spent, faults, now>>

VerifyCopy ==
    /\ At("verify")
    /\ Verifies(files[worker.run].part)
    /\ Go("sync")
    /\ UNCHANGED <<items, runs, files, request, process, spent, faults, now>>

(* Mutant: the copy is not synced before it gets its final name. *)
SyncNothing ==
    /\ At("sync")
    /\ Go("rename")
    /\ UNCHANGED <<items, runs, files, request, process, spent, faults, now>>

(* SyncFileAndParent: the copy's bytes, and every name in the directory. *)
SyncCopy ==
    /\ At("sync")
    /\ files' = [r \in RunIds |->
                    [files[r] EXCEPT !.named = TRUE,
                                     !.part = IF r = worker.run THEN "synced" ELSE @]]
    /\ Go("rename")
    /\ UNCHANGED <<items, runs, request, process, spent, faults, now>>

Publish ==
    /\ At("rename")
    /\ files' = [files EXCEPT ![worker.run] =
                    [final |-> @.part, part |-> "none", named |-> FALSE]]
    /\ Go("syncdir")
    /\ UNCHANGED <<items, runs, request, process, spent, faults, now>>

SyncDirectory ==
    /\ At("syncdir")
    /\ files' = [r \in RunIds |-> [files[r] EXCEPT !.named = TRUE]]
    /\ Go("record")
    /\ UNCHANGED <<items, runs, request, process, spent, faults, now>>

(* Any step of produceBackup may fail: no directory, no space, a busy        *)
(* database, a copy that does not verify, an I/O error.  Up to the rename    *)
(* the partial file is then removed, as far as that succeeds.                *)
ProduceFails ==
    /\ \E pc \in {"produce", "copying", "verify", "sync", "rename", "syncdir"} : At(pc)
    /\ \/ UNCHANGED files
       \/ /\ worker.pc # "syncdir"
          /\ files' = [files EXCEPT ![worker.run].part = "none"]
    /\ Go("failed")
    /\ UNCHANGED <<items, runs, request, process, spent, faults, now>>

RecordFailure ==
    /\ At("failed")
    /\ runs' = [runs EXCEPT ![worker.run].status = "failed", ![worker.run].verified = FALSE]
    /\ Go("settle")
    /\ UNCHANGED <<items, files, request, process, spent, faults, now>>

RecordFailureFault ==
    /\ At("failed")
    /\ Fault
    /\ Go("settle")
    /\ UNCHANGED <<items, runs, files, request, process, spent, now>>

(* Size and page count are written here only, and UpdateBackupRun never      *)
(* clears them: sized says that the run was recorded as completed once.      *)
RecordSuccess ==
    /\ At("record")
    /\ runs' = [runs EXCEPT ![worker.run].status = "completed", ![worker.run].verified = TRUE,
                            ![worker.run].sized = TRUE]
    /\ Go("plan")
    /\ UNCHANGED <<items, files, request, process, spent, faults, now>>

(* Mutant: the error of the write that records the copy is dropped. *)
RecordSuccessFaultIgnored ==
    /\ At("record")
    /\ Fault
    /\ Go("plan")
    /\ UNCHANGED <<items, runs, files, request, process, spent, now>>

RecordSuccessFault ==
    /\ At("record")
    /\ Fault
    /\ Go("settle")
    /\ UNCHANGED <<items, runs, files, request, process, spent, now>>

-----------------------------------------------------------------------------
Prunable == {r \in Ids : runs[r].status = "completed" /\ ~runs[r].pruned}

Newer(r) == {s \in Prunable : s > r}

TooOld(r) == MaxAge # 0 /\ runs[r].createdAt + MaxAge < now

(* Mutant: one copy fewer is kept. *)
VictimsOffByOne == {r \in Prunable : Cardinality(Newer(r)) >= Keep - 1 \/ TooOld(r)}

(* Oldest first, everything beyond the keep count or past the age cap. *)
Victims == {r \in Prunable : Cardinality(Newer(r)) >= Keep \/ TooOld(r)}

(* pruneBackups reads the policy and the prunable runs once. *)
PlanPrune ==
    /\ At("plan")
    /\ Victims # {}
    /\ worker' = [worker EXCEPT !.pc = "prune", !.victims = Victims]
    /\ UNCHANGED <<items, runs, files, request, process, spent, faults, now>>

PruneFile ==
    /\ At("prune")
    /\ worker.victims # {}
    /\ files' = [files EXCEPT ![Min(worker.victims)].final = "none"]
    /\ Go("mark")
    /\ UNCHANGED <<items, runs, request, process, spent, faults, now>>

MarkPruned ==
    /\ At("mark")
    /\ runs' = [runs EXCEPT ![Min(worker.victims)].pruned = TRUE]
    /\ worker' = [worker EXCEPT !.pc = "prune",
                                !.victims = @ \ {Min(worker.victims)}]
    /\ UNCHANGED <<items, files, request, process, spent, faults, now>>

(* ErrBackupDirectoryUnsafe: the path is not this app's to delete. *)
PruneRefused ==
    /\ At("prune")
    /\ worker.victims # {}
    /\ worker' = [worker EXCEPT !.victims = @ \ {Min(worker.victims)}]
    /\ UNCHANGED <<items, runs, files, request, process, spent, faults, now>>

(* Nothing left to prune, or an error that ends pruning: the backup is not   *)
(* failed for it.                                                            *)
PruneEnds ==
    /\ \/ At("plan")
       \/ At("prune")
       \/ At("mark")
    /\ worker.pc = "mark" => Fault
    /\ worker.pc # "mark" => UNCHANGED faults
    /\ worker' = [worker EXCEPT !.pc = "complete", !.victims = {}]
    /\ UNCHANGED <<items, runs, files, request, process, spent, now>>

CompleteWork ==
    /\ At("complete")
    /\ items' = CompleteRow(items, worker.item, process)
    /\ worker' = Resting
    /\ UNCHANGED <<runs, files, request, process, spent, faults, now>>

SettleFailure ==
    /\ At("settle")
    /\ items' = IF worker.attempts >= MaxAttempts
                THEN FailRow(items, worker.item, process)
                ELSE RetryRow(items, worker.item, process, now + Backoff)
    /\ worker' = Resting
    /\ UNCHANGED <<runs, files, request, process, spent, faults, now>>

SettlementFault ==
    /\ At("complete") \/ At("settle")
    /\ Fault
    /\ worker' = Resting
    /\ UNCHANGED <<items, runs, files, request, process, spent, now>>

-----------------------------------------------------------------------------
(* RetryBackupRun: the run is read, the work item requeued, the run updated, *)
(* each in a transaction of its own.                                         *)
RetryRead(r) ==
    /\ Up
    /\ request.pc = "idle"
    /\ request.count < MaxRetries
    /\ runs[r].status = "failed"
    /\ request' = [pc |-> "requeue", run |-> r, count |-> request.count + 1]
    /\ UNCHANGED <<items, runs, files, worker, process, spent, faults, now>>

RetryRequeue ==
    /\ Up
    /\ request.pc = "requeue"
    /\ LET item == runs[request.run].workItem IN
       IF Requeueable(items, item)
       THEN /\ items' = RequeueRow(items, item, now)
            /\ request' = [request EXCEPT !.pc = "update"]
       ELSE request' = Unasked(request.count) /\ UNCHANGED items
    /\ UNCHANGED <<runs, files, worker, process, spent, faults, now>>

RetryUpdate ==
    /\ Up
    /\ request.pc = "update"
    /\ runs' = [runs EXCEPT ![request.run].status = "pending",
                            ![request.run].verified = FALSE]
    /\ request' = Unasked(request.count)
    /\ UNCHANGED <<items, files, worker, process, spent, faults, now>>

RetryUpdateFault ==
    /\ Up
    /\ request.pc = "update"
    /\ Fault
    /\ request' = Unasked(request.count)
    /\ UNCHANGED <<items, runs, files, worker, process, spent, now>>

-----------------------------------------------------------------------------
StartProcess(w) ==
    /\ ~Up
    /\ w \notin spent
    /\ process' = w
    /\ spent' = spent \cup {w}
    /\ UNCHANGED <<items, runs, files, worker, request, faults, now>>

(* What a power cut leaves of one run's files: cached bytes may be lost, and *)
(* so may a rename whose directory was not synced.                           *)
Torn(content, lost) == IF content = "cached" /\ lost THEN "torn" ELSE content

PowerCut(file, lost, unnamed) ==
    IF file.final # "none" /\ ~file.named /\ unnamed
    THEN [final |-> "none", part |-> Torn(file.final, lost), named |-> TRUE]
    ELSE [final |-> Torn(file.final, lost), part |-> Torn(file.part, lost), named |-> TRUE]

(* The database itself survives: its commits are synced. *)
Crash ==
    /\ Up
    /\ spent # Workers
    /\ process' = "down"
    /\ worker' = Resting
    /\ request' = Unasked(request.count)
    /\ \/ UNCHANGED files
       \/ /\ PowerCuts
          /\ \E lost, unnamed \in SUBSET RunIds :
                files' = [r \in RunIds |-> PowerCut(files[r], r \in lost, r \in unnamed)]
    /\ UNCHANGED <<items, runs, spent, faults, now>>

(* Active work is in backoff, or leased by a process that is gone. *)
WorkWaits ==
    /\ ~Up \/ worker.pc = "idle"
    /\ DueIds(items, RunIds, now) = {}
    /\ \E i \in DOMAIN items : Active(items[i])

Tick ==
    /\ now < MaxTime
    /\ Patient => WorkWaits
    /\ now' = now + 1
    /\ UNCHANGED <<items, runs, files, worker, request, process, spent, faults>>

WorkerStep ==
    \/ ClaimBackup \/ ReadRun \/ MarkRunning \/ StartRunFault
    \/ AdoptFinal \/ RemoveFinal \/ ClearTarget \/ EndCopy \/ VerifyCopy
    \/ SyncCopy \/ Publish \/ SyncDirectory \/ ProduceFails
    \/ RecordFailure \/ RecordFailureFault \/ RecordSuccess \/ RecordSuccessFault
    \/ PlanPrune \/ PruneFile \/ MarkPruned \/ PruneRefused \/ PruneEnds
    \/ CompleteWork \/ SettleFailure \/ SettlementFault

RequestStep ==
    \/ \E r \in Ids : RetryRead(r)
    \/ RetryRequeue \/ RetryUpdate \/ RetryUpdateFault

Next ==
    \/ \E trigger \in Triggers : CreateRun(trigger)
    \/ WorkerStep
    \/ RequestStep
    \/ \E w \in Workers : StartProcess(w)
    \/ Crash
    \/ Tick

Spec == Init /\ [][Next]_vars

(* The worker keeps going, the process is started again, and time passes. *)
Fairness ==
    /\ WF_vars(WorkerStep)
    /\ WF_vars(\E w \in Workers : StartProcess(w))
    /\ WF_vars(Tick)

FairSpec == Spec /\ Fairness

-----------------------------------------------------------------------------
Runs == [trigger: {"scheduled", "manual"}, date: Nat,
         status: {"pending", "running", "completed", "failed"},
         verified: BOOLEAN, sized: BOOLEAN, pruned: BOOLEAN, createdAt: Nat, workItem: Nat]

Steps == {"idle", "start", "begin", "produce", "copying", "verify", "sync", "rename", "syncdir",
          "failed", "settle", "record", "plan", "prune", "mark", "complete"}

WorkerStates == [pc: Steps, item: {0} \cup RunIds, attempts: Nat, run: {0} \cup RunIds,
                 victims: SUBSET RunIds]

(* Rows, runs and files have their types, and every reference from a run to  *)
(* its work item and from the worker to its run and item is a valid one.     *)
TypeOK ==
    /\ items \in Seq(Row(RunIds, Workers))
    /\ runs \in Seq(Runs) /\ Ids \subseteq RunIds
    /\ \A r \in Ids : runs[r].workItem \in DOMAIN items
    /\ files \in [RunIds -> File]
    /\ worker \in WorkerStates
    /\ worker.run \in {0} \cup Ids /\ worker.item \in {0} \cup DOMAIN items
    /\ worker.victims \subseteq Ids
    /\ request \in [pc: {"idle", "requeue", "update"}, run: {0} \cup Ids, count: 0..MaxRetries]
    /\ process \in Workers \cup {"down"} /\ spent \subseteq Workers
    /\ faults \in 0..MaxFaults /\ now \in 0..MaxTime

(* "Verified before published, durable before visible": under its final name *)
(* a copy is complete and its bytes are synced, whatever crash or power cut  *)
(* interrupted the copy, its sync, its rename or its pruning.                *)
FinalNameIsTrusted ==
    \A r \in RunIds : files[r].final \in {"none", "synced"}

(* Runs that completed once, are not pruned, and have their copy or were     *)
(* reopened by a retry that wrote "pending" late: the worker may take such a *)
(* run up again, find its copy unreadable and remove it.                     *)
Standing ==
    {r \in Ids : /\ runs[r].sized /\ ~runs[r].pruned
                 /\ files[r].final = "synced" \/ runs[r].status # "completed"}

(* Retention, crashes and failing writes never take a copy the policy keeps: *)
(* of the runs that completed once at least as many stand as there are       *)
(* completed runs within the age cap, up to the keep count.  Without a       *)
(* reopened run all of these are complete copies in the directory, and each  *)
(* reopened one costs one copy at most.                                      *)
EnoughCopies ==
    LET kept == {r \in Prunable : ~TooOld(r)}
    IN  Cardinality(Standing) >= Min({Keep, Cardinality(kept)})

(* The run is completed and verified, unless a retry that requeued it earlier *)
(* writes its "pending" afterwards.                                           *)
Recorded(r) ==
    \/ runs[r].status = "completed" /\ runs[r].verified
    \/ runs[r].status = "pending" /\ request.count > 0

(* Work is completed only for a run whose copy was recorded. *)
CompletedWorkHasCopy ==
    \A r \in Ids : items[runs[r].workItem].status = "completed" => Recorded(r)

(* Runs, work items and files agree: every reference names what exists, and  *)
(* completed work has a copy.                                                *)
RunsAreSound == TypeOK /\ CompletedWorkHasCopy

(* The inductive invariants.  Run and work item are made together, so the    *)
(* rows of the two tables pair up; the worker's item is running under its    *)
(* process's id, so nothing but the worker settles it.                       *)
ItemsFollowRuns ==
    /\ Len(items) = Len(runs)
    /\ \A r \in Ids : runs[r].workItem = r /\ items[r].key = r
    /\ worker.pc # "idle" => /\ Up /\ worker.item \in Ids /\ worker.run = worker.item
                             /\ Fenced(items, worker.item, process)
    /\ worker.pc = "mark" => worker.victims # {}
    /\ request.pc # "idle" => request.run \in Ids /\ request.count > 0

(* What is completed was verified and has a size, and the worker completes   *)
(* what it recorded.                                                         *)
RecordsAreSound ==
    /\ \A r \in Ids : runs[r].status = "completed" => runs[r].verified /\ runs[r].sized
    /\ worker.pc \in {"plan", "prune", "mark", "complete"} => Recorded(worker.run)

(* While a copy is looked for, made and published its run is not completed:  *)
(* only pruning takes the file of a completed run.                           *)
ProducesUnfinished ==
    worker.pc \in {"produce", "copying", "verify", "sync", "rename", "syncdir", "record"} =>
        runs[worker.run].status # "completed"

RunsInv == TypeOK /\ CompletedWorkHasCopy /\ ItemsFollowRuns /\ RecordsAreSound

(* What is about to get its final name is synced, and what is about to be    *)
(* recorded has it.                                                          *)
FilesInv ==
    /\ FinalNameIsTrusted
    /\ worker.pc = "rename" => files[worker.run].part = "synced"
    /\ worker.pc \in {"syncdir", "record"} => files[worker.run].final = "synced"

(* Pruning may take the copy of r: it is too old, or enough newer ones stand. *)
Spared(r) == TooOld(r) \/ Cardinality({c \in Standing : c > r}) >= Keep

(* Runs are numbered as they are made; a completed run that lost its copy,   *)
(* and one the worker is about to prune, may lose it.                        *)
CopiesInv ==
    /\ \A r \in Ids : runs[r].createdAt <= now /\ \A s \in Ids : r < s => runs[r].createdAt <= runs[s].createdAt
    /\ \A r \in Prunable : r \in Standing \/ Spared(r)
    /\ \A r \in worker.victims : Spared(r)

(* Every requested or scheduled backup is carried through: its work item     *)
(* ends completed or failed, across crashes, backoff and lost settlements.   *)
WorkSettles ==
    \A i \in RunIds :
        (i \in DOMAIN items /\ Active(items[i])) ~> (i \in DOMAIN items /\ ~Active(items[i]))

=============================================================================
