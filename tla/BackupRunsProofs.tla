--------------------------- MODULE BackupRunsProofs ---------------------------
(***************************************************************************)
(* For any number of runs, workers, retries and failing writes, and any    *)
(* policy: runs, work items and the worker agree, completed work has a     *)
(* recorded copy, and what stands under a final name is complete and       *)
(* synced, power cuts included.  Without power cuts the directory always   *)
(* holds the copies that the policy keeps.                                 *)
(***************************************************************************)
EXTENDS BackupRuns, FiniteSetTheorems, SequenceTheorems, WellFoundedInduction, TLAPS

ItemRows == Row(RunIds, Workers)

RetryStates == [pc: {"idle", "requeue", "update"}, run: {0} \cup Ids, count: 0..MaxRetries]

-----------------------------------------------------------------------------
(* What the invariant says of the parts of a state. *)

LEMMA Values ==
    /\ MaxRuns \in Nat /\ MaxRetries \in Nat /\ MaxFaults \in Nat /\ MaxTime \in Nat
    /\ Keep \in Nat \ {0} /\ MaxAge \in Nat /\ Lease \in Nat /\ Backoff \in Nat /\ DayLength \in Nat \ {0}
BY BackupAssumption DEF BackupAssumption

LEMMA Tables ==
    ASSUME RunsInv
    PROVE  /\ Len(runs) \in Nat /\ Len(runs) <= MaxRuns /\ Len(items) = Len(runs)
           /\ Ids = 1..Len(runs) /\ DOMAIN items = Ids /\ Ids \subseteq RunIds
           /\ \A r \in Ids : /\ runs[r] \in Runs /\ runs[r].workItem = r
                             /\ items[r] \in ItemRows /\ items[r].key = r
<1>1. /\ items \in Seq(ItemRows) /\ runs \in Seq(Runs) /\ Ids \subseteq RunIds
      /\ Len(items) = Len(runs)
      /\ \A r \in Ids : runs[r].workItem = r /\ items[r].key = r
  BY DEF RunsInv, TypeOK, ItemsFollowRuns, ItemRows
<1>2. /\ Len(runs) \in Nat /\ Ids = 1..Len(runs) /\ DOMAIN items = 1..Len(items)
  BY <1>1, LenProperties DEF Ids
<1>3. \A r \in Ids : runs[r] \in Runs /\ items[r] \in ItemRows
  BY <1>1, <1>2, ElementOfSeq
<1>4. Len(runs) <= MaxRuns
  BY <1>1, <1>2, Values DEF RunIds
<1> QED
  BY <1>1, <1>2, <1>3, <1>4

LEMMA AtWork ==
    ASSUME RunsInv
    PROVE  /\ worker \in WorkerStates /\ worker.victims \subseteq Ids
           /\ files \in [RunIds -> File]
           /\ worker.pc # "idle" =>
                 /\ worker.run \in Ids /\ worker.item = worker.run
                 /\ Up /\ process \in Workers
                 /\ items[worker.run].status = "running" /\ items[worker.run].owner = process
           /\ worker.pc = "mark" => worker.victims # {}
BY Tables DEF RunsInv, TypeOK, ItemsFollowRuns, Fenced, Up

(* A step that keeps the rows of both tables in place is sound when what it  *)
(* leaves in the worker's and the request's hands is.                        *)
LEMMA Assembled ==
    ASSUME RunsInv,
           items' \in Seq(ItemRows), Len(items') = Len(items),
           runs' \in Seq(Runs), Len(runs') = Len(runs),
           \A r \in Ids : items'[r].key = r /\ runs'[r].workItem = r,
           files' \in [RunIds -> File], faults' \in 0..MaxFaults, now' \in 0..MaxTime,
           process' \in Workers \cup {"down"}, spent' \subseteq Workers,
           worker' \in WorkerStates, worker'.run \in {0} \cup Ids, worker'.item \in {0} \cup Ids,
           worker'.victims \subseteq Ids, worker'.pc = "mark" => worker'.victims # {},
           worker'.pc # "idle" => /\ process' # "down" /\ worker'.item \in Ids /\ worker'.run = worker'.item
                                  /\ Fenced(items', worker'.item, process'),
           request' \in RetryStates,
           request'.pc # "idle" => request'.run \in Ids /\ request'.count > 0,
           \A r \in Ids : items'[r].status = "completed" => Recorded(r)',
           \A r \in Ids : runs'[r].status = "completed" => runs'[r].verified /\ runs'[r].sized,
           (worker.pc \in {"plan", "prune", "mark", "complete"} => Recorded(worker.run))'
    PROVE  RunsInv'
<1>1. Ids' = Ids /\ DOMAIN items' = Ids /\ Ids \subseteq RunIds /\ DOMAIN items = Ids
  <2>1. DOMAIN items' = 1..Len(items') /\ DOMAIN runs' = 1..Len(runs')
    BY LenProperties
  <2> QED
    BY <2>1, Tables DEF Ids
<1>2. TypeOK'
  BY <1>1 DEF TypeOK, ItemRows, RetryStates, RunIds, Row, File, WorkerStates
<1>3. ItemsFollowRuns'
  BY <1>1, Tables DEF ItemsFollowRuns, Up
<1>4. CompletedWorkHasCopy'
  BY <1>1 DEF CompletedWorkHasCopy
<1>5. RecordsAreSound'
  BY <1>1 DEF RecordsAreSound
<1> QED
  BY <1>2, <1>3, <1>4, <1>5 DEF RunsInv

-----------------------------------------------------------------------------
(* One row of a table is written. *)

LEMMA ItemWritten ==
    ASSUME RunsInv, NEW i \in Ids, NEW q \in ItemRows, q.key = i, items' = [items EXCEPT ![i] = q]
    PROVE  /\ items' \in Seq(ItemRows) /\ Len(items') = Len(items)
           /\ items'[i] = q /\ \A r \in Ids : r # i => items'[r] = items[r]
           /\ \A r \in Ids : items'[r].key = r
<1>1. items \in Seq(ItemRows) /\ i \in 1..Len(items) /\ Ids = 1..Len(items)
  BY Tables DEF RunsInv, TypeOK, ItemRows
<1>2. /\ items' \in Seq(ItemRows) /\ Len(items') = Len(items)
      /\ \A j \in 1..Len(items) : items'[j] = IF j = i THEN q ELSE items[j]
  BY <1>1, ExceptSeq
<1> QED
  BY <1>1, <1>2, Tables

LEMMA RunWritten ==
    ASSUME RunsInv, NEW i \in Ids, NEW q \in Runs, q.workItem = i, runs' = [runs EXCEPT ![i] = q]
    PROVE  /\ runs' \in Seq(Runs) /\ Len(runs') = Len(runs) /\ Ids' = Ids
           /\ runs'[i] = q /\ \A r \in Ids : r # i => runs'[r] = runs[r]
           /\ \A r \in Ids : runs'[r].workItem = r
<1>1. runs \in Seq(Runs) /\ i \in 1..Len(runs) /\ Ids = 1..Len(runs)
  BY Tables DEF RunsInv, TypeOK
<1>2. /\ runs' \in Seq(Runs) /\ Len(runs') = Len(runs)
      /\ \A j \in 1..Len(runs) : runs'[j] = IF j = i THEN q ELSE runs[j]
  BY <1>1, ExceptSeq
<1>3. Ids' = Ids
  BY <1>1, <1>2, LenProperties DEF Ids
<1> QED
  BY <1>1, <1>2, <1>3, Tables

(* The worker goes from step to step with its item and its run. *)
LEMMA WorkerMoves ==
    ASSUME RunsInv, worker.pc # "idle", UNCHANGED <<items, request, process, spent, now>>,
           runs' \in Seq(Runs), Len(runs') = Len(runs), \A r \in Ids : runs'[r].workItem = r,
           files' \in [RunIds -> File], faults' \in 0..MaxFaults,
           NEW pc \in Steps \ {"idle"}, NEW V \in SUBSET Ids, pc = "mark" => V # {},
           worker' = [worker EXCEPT !.pc = pc, !.victims = V],
           \A r \in Ids : items[r].status = "completed" => Recorded(r)',
           \A r \in Ids : runs'[r].status = "completed" => runs'[r].verified /\ runs'[r].sized,
           pc \in {"plan", "prune", "mark", "complete"} => Recorded(worker.run)'
    PROVE  RunsInv'
<1>1. /\ worker' \in WorkerStates /\ worker'.pc = pc /\ worker'.item = worker.item
      /\ worker'.run = worker.run /\ worker'.victims = V
  BY AtWork, Tables DEF WorkerStates
<1>2. /\ items \in Seq(ItemRows) /\ items' = items /\ process' = process /\ request' = request
      /\ now' \in 0..MaxTime /\ spent' \subseteq Workers /\ process' \in Workers \cup {"down"}
      /\ request' \in RetryStates
      /\ (request'.pc # "idle" => request'.run \in Ids /\ request'.count > 0)
  BY DEF RunsInv, TypeOK, ItemsFollowRuns, RetryStates, ItemRows
<1>3. worker'.run \in Ids /\ worker'.run = worker'.item /\ process' # "down" /\ Fenced(items', worker'.item, process')
  BY <1>1, <1>2, AtWork DEF Up, Fenced
<1>4. (worker.pc \in {"plan", "prune", "mark", "complete"} => Recorded(worker.run))'
  BY <1>1
<1>5. \A r \in Ids : items'[r].key = r /\ runs'[r].workItem = r
  BY <1>2, Tables
<1> HIDE DEF RetryStates
<1> QED
  BY <1>1, <1>2, <1>3, <1>4, <1>5, Assembled

LEMMA RecordedStays ==
    ASSUME UNCHANGED <<runs, request>>
    PROVE  \A r : Recorded(r)' <=> Recorded(r)
BY DEF Recorded

(* A step of the worker that writes no row. *)
LEMMA PlainMove ==
    ASSUME RunsInv, worker.pc # "idle", UNCHANGED <<items, runs, request, process, spent, now>>,
           files' \in [RunIds -> File], faults' \in 0..MaxFaults,
           NEW pc \in Steps \ {"idle"}, NEW V \in SUBSET Ids, pc = "mark" => V # {},
           worker' = [worker EXCEPT !.pc = pc, !.victims = V],
           pc \in {"plan", "prune", "mark", "complete"} => Recorded(worker.run)
    PROVE  RunsInv'
<1>1. /\ runs' \in Seq(Runs) /\ Len(runs') = Len(runs)
      /\ \A r \in Ids : runs'[r].workItem = r
      /\ \A r \in Ids : runs'[r].status = "completed" => runs'[r].verified /\ runs'[r].sized
  BY Tables DEF RunsInv, TypeOK, RecordsAreSound
<1>2. \A r \in Ids : items[r].status = "completed" => Recorded(r)'
  BY Tables, RecordedStays DEF RunsInv, CompletedWorkHasCopy
<1>3. pc \in {"plan", "prune", "mark", "complete"} => Recorded(worker.run)'
  <2>1. worker'.run = worker.run
    BY AtWork DEF WorkerStates
  <2> QED
    BY <2>1 DEF Recorded
<1> QED
  BY <1>1, <1>2, <1>3, WorkerMoves

LEMMA Turn ==
    ASSUME RunsInv, NEW pc, Go(pc)
    PROVE  /\ worker' = [worker EXCEPT !.pc = pc, !.victims = worker.victims]
           /\ worker.victims \in SUBSET Ids
           /\ worker'.pc = pc /\ worker'.run = worker.run /\ worker'.victims = worker.victims
BY AtWork DEF Go, WorkerStates

LEMMA ReadsKeepRuns ==
    ASSUME RunsInv, ReadRun \/ StartRunFault \/ AdoptFinal \/ VerifyCopy \/ RecordFailureFault \/ RecordSuccessFault
    PROVE  RunsInv'
<1>1. /\ worker.pc # "idle" /\ UNCHANGED <<items, runs, request, process, spent, now>>
      /\ files' \in [RunIds -> File] /\ faults' \in 0..MaxFaults
  BY AtWork, Values DEF RunsInv, TypeOK, ReadRun, StartRunFault, AdoptFinal, VerifyCopy, RecordFailureFault,
     RecordSuccessFault, At, Fault
<1>2. \E pc \in {"complete", "begin", "settle", "record", "sync"} :
         Go(pc) /\ (pc = "complete" => Recorded(worker.run))
  <2>1. CASE ReadRun
    <3>1. runs[worker.run].status = "completed" => Recorded(worker.run)
      BY <1>1, AtWork DEF RunsInv, RecordsAreSound, Recorded
    <3>2. CASE runs[worker.run].status = "completed"
      BY <2>1, <3>1, <3>2 DEF ReadRun
    <3>3. CASE runs[worker.run].status # "completed"
      BY <2>1, <3>3 DEF ReadRun
    <3> QED
      BY <3>2, <3>3
  <2>2. CASE StartRunFault \/ RecordFailureFault \/ RecordSuccessFault
    BY <2>2 DEF StartRunFault, RecordFailureFault, RecordSuccessFault
  <2>3. CASE AdoptFinal \/ VerifyCopy
    BY <2>3 DEF AdoptFinal, VerifyCopy
  <2> QED
    BY <2>1, <2>2, <2>3
<1>3. PICK pc \in {"complete", "begin", "settle", "record", "sync"} :
         Go(pc) /\ (pc = "complete" => Recorded(worker.run))
  BY <1>2
<1>4. pc \in Steps \ {"idle"} /\ pc \notin {"plan", "prune", "mark"}
  BY DEF Steps
<1>5. PICK V \in SUBSET Ids : worker' = [worker EXCEPT !.pc = pc, !.victims = V]
  BY <1>3, Turn
<1> QED
  BY <1>1, <1>3, <1>4, <1>5, PlainMove

LEMMA FileIsWritten ==
    ASSUME RunsInv, NEW r \in RunIds, NEW c \in Contents
    PROVE  /\ [files EXCEPT ![r].final = c] \in [RunIds -> File]
           /\ [files EXCEPT ![r].part = c] \in [RunIds -> File]
BY AtWork DEF File

LEMMA CopyingKeepsRuns ==
    ASSUME RunsInv, RemoveFinal \/ ClearTarget \/ EndCopy \/ SyncCopy \/ Publish \/ SyncDirectory \/ ProduceFails
    PROVE  RunsInv'
<1>1. /\ worker.pc # "idle" /\ UNCHANGED <<items, runs, request, process, spent, now>>
      /\ faults' \in 0..MaxFaults
  BY DEF RunsInv, TypeOK, RemoveFinal, ClearTarget, EndCopy, SyncCopy, Publish, SyncDirectory, ProduceFails, At
<1>2. /\ worker.run \in RunIds /\ files \in [RunIds -> File]
      /\ "none" \in Contents /\ "torn" \in Contents /\ "cached" \in Contents /\ "synced" \in Contents
  BY <1>1, AtWork, Tables DEF Contents
<1>3. files' \in [RunIds -> File]
  <2>1. CASE RemoveFinal
    BY <2>1, <1>2, FileIsWritten DEF RemoveFinal
  <2>2. CASE ClearTarget
    BY <2>2, <1>2, FileIsWritten DEF ClearTarget
  <2>3. CASE EndCopy
    <3>1. PICK content \in {"torn", "cached"} : files' = [files EXCEPT ![worker.run].part = content]
      BY <2>3 DEF EndCopy
    <3>2. content \in Contents
      BY <1>2
    <3> QED
      BY <1>2, <3>1, <3>2, FileIsWritten
  <2>4. CASE SyncCopy
    BY <2>4, <1>2 DEF SyncCopy, File
  <2>5. CASE Publish
    BY <2>5, <1>2 DEF Publish, File
  <2>6. CASE SyncDirectory
    BY <2>6, <1>2 DEF SyncDirectory, File
  <2>7. CASE ProduceFails
    <3>1. \/ files' = files
          \/ files' = [files EXCEPT ![worker.run].part = "none"]
      BY <2>7 DEF ProduceFails
    <3> QED
      BY <1>2, <3>1 DEF File
  <2> QED
    BY <2>1, <2>2, <2>3, <2>4, <2>5, <2>6, <2>7
<1>4. \E pc \in {"produce", "copying", "verify", "rename", "syncdir", "record", "failed"} : Go(pc)
  BY DEF RemoveFinal, ClearTarget, EndCopy, SyncCopy, Publish, SyncDirectory, ProduceFails
<1>5. PICK pc \in {"produce", "copying", "verify", "rename", "syncdir", "record", "failed"} : Go(pc)
  BY <1>4
<1>6. pc \in Steps \ {"idle"} /\ pc \notin {"plan", "prune", "mark", "complete"}
  BY DEF Steps
<1> QED
  BY <1>1, <1>3, <1>5, <1>6, Turn, PlainMove

LEMMA LeastNatural ==
    ASSUME NEW T, T \subseteq Nat, T # {}
    PROVE  Min(T) \in T /\ \A y \in T : Min(T) <= y
<1>1. PICK x \in T : \A y \in T : ~(<<y, x>> \in OpToRel(<, Nat))
  BY NatLessThanWellFounded, WFMin, Zenon
<1>2. ASSUME NEW y \in T PROVE x <= y
  <2>1. <<y, x>> \in Nat \X Nat /\ ~(y < x)
    BY <1>1 DEF OpToRel
  <2> QED
    BY <2>1
<1> QED
  BY <1>2 DEF Min

LEMMA PruningKeepsRuns ==
    ASSUME RunsInv, PlanPrune \/ PruneFile \/ PruneRefused \/ PruneEnds
    PROVE  RunsInv'
<1>1. /\ worker.pc \in {"plan", "prune", "mark"} /\ UNCHANGED <<items, runs, request, process, spent, now>>
      /\ faults' \in 0..MaxFaults
  BY Values DEF RunsInv, TypeOK, PlanPrune, PruneFile, PruneRefused, PruneEnds, At, Fault
<1>2. Recorded(worker.run)
  BY <1>1 DEF RunsInv, RecordsAreSound
<1>3. \E pc \in {"prune", "mark", "complete"}, V \in SUBSET Ids :
         worker' = [worker EXCEPT !.pc = pc, !.victims = V] /\ (pc = "mark" => V # {})
  <2>1. CASE PlanPrune
    BY <2>1 DEF PlanPrune, Victims, Prunable
  <2>2. CASE PruneFile
    <3>1. Go("mark") /\ worker.victims # {}
      BY <2>2 DEF PruneFile
    <3>2. worker' = [worker EXCEPT !.pc = "mark", !.victims = worker.victims] /\ worker.victims \in SUBSET Ids
      BY <3>1, Turn
    <3> QED
      BY <3>1, <3>2
  <2>3. CASE PruneRefused
    <3>1. PICK W : W = worker.victims \ {Min(worker.victims)}
      OBVIOUS
    <3>2. W \in SUBSET Ids
      BY <3>1, AtWork
    <3>3. worker' = [worker EXCEPT !.pc = "prune", !.victims = W]
      BY <2>3, <3>1, AtWork DEF PruneRefused, At, WorkerStates
    <3> QED
      BY <3>2, <3>3
  <2>4. CASE PruneEnds
    BY <2>4 DEF PruneEnds
  <2> QED
    BY <2>1, <2>2, <2>3, <2>4
<1>4. files' \in [RunIds -> File]
  <2>1. CASE PruneFile
    <3>1. Min(worker.victims) \in RunIds
      BY <2>1, AtWork, Tables, LeastNatural DEF PruneFile, RunIds
    <3> QED
      BY <2>1, <3>1, AtWork DEF PruneFile, File, Contents
  <2>2. CASE ~PruneFile
    BY <2>2, AtWork DEF PlanPrune, PruneRefused, PruneEnds
  <2> QED
    BY <2>1, <2>2
<1>5. PICK pc \in {"prune", "mark", "complete"}, V \in SUBSET Ids :
         worker' = [worker EXCEPT !.pc = pc, !.victims = V] /\ (pc = "mark" => V # {})
  BY <1>3
<1>6. pc \in Steps \ {"idle"} /\ worker.pc # "idle"
  BY <1>1 DEF Steps
<1> QED
  BY <1>1, <1>2, <1>4, <1>5, <1>6, PlainMove

(* What the worker writes to the row of its run. *)
LEMMA RowOfRun ==
    ASSUME RunsInv, MarkRunning \/ RecordFailure \/ RecordSuccess
    PROVE  \E q \in Runs, pc \in {"produce", "settle", "plan"} :
              /\ runs' = [runs EXCEPT ![worker.run] = q] /\ Go(pc)
              /\ q.workItem = worker.run
              /\ q.pruned = runs[worker.run].pruned /\ q.createdAt = runs[worker.run].createdAt
              /\ \/ /\ q.status \in {"running", "failed"} /\ pc \in {"produce", "settle"}
                    /\ q.sized = runs[worker.run].sized
                 \/ /\ q.status = "completed" /\ q.verified /\ q.sized /\ pc = "plan"
                    /\ worker.pc = "record"
<1> DEFINE r == worker.run
<1>1. r \in Ids /\ runs[r] \in Runs /\ runs[r].workItem = r
  BY AtWork, Tables DEF MarkRunning, RecordFailure, RecordSuccess, At
<1>2. CASE MarkRunning
  <2>1. PICK q : q = [runs[r] EXCEPT !.status = "running", !.verified = FALSE]
    OBVIOUS
  <2>2. /\ q \in Runs /\ q.workItem = r /\ q.status = "running" /\ q.sized = runs[r].sized
        /\ q.pruned = runs[r].pruned /\ q.createdAt = runs[r].createdAt
    BY <1>1, <2>1 DEF Runs
  <2> QED
    BY <1>2, <2>1, <2>2 DEF MarkRunning
<1>3. CASE RecordFailure
  <2>1. PICK q : q = [runs[r] EXCEPT !.status = "failed", !.verified = FALSE]
    OBVIOUS
  <2>2. /\ q \in Runs /\ q.workItem = r /\ q.status = "failed" /\ q.sized = runs[r].sized
        /\ q.pruned = runs[r].pruned /\ q.createdAt = runs[r].createdAt
    BY <1>1, <2>1 DEF Runs
  <2> QED
    BY <1>3, <2>1, <2>2 DEF RecordFailure
<1>4. CASE RecordSuccess
  <2>1. PICK q : q = [runs[r] EXCEPT !.status = "completed", !.verified = TRUE, !.sized = TRUE]
    OBVIOUS
  <2>2. /\ q \in Runs /\ q.workItem = r /\ q.status = "completed" /\ q.verified /\ q.sized
        /\ q.pruned = runs[r].pruned /\ q.createdAt = runs[r].createdAt
    BY <1>1, <2>1 DEF Runs
  <2> QED
    BY <1>4, <2>1, <2>2 DEF RecordSuccess, At
<1> QED
  BY <1>2, <1>3, <1>4

(* The worker writes the row of its run. *)
LEMMA RecordKeepsRuns ==
    ASSUME RunsInv, MarkRunning \/ RecordFailure \/ RecordSuccess
    PROVE  RunsInv'
<1> DEFINE r == worker.run
<1>1. /\ worker.pc # "idle" /\ r \in Ids /\ UNCHANGED <<items, files, request, process, spent, faults, now>>
      /\ files' \in [RunIds -> File] /\ faults' \in 0..MaxFaults
      /\ items[r].status = "running" /\ runs[r] \in Runs /\ runs[r].workItem = r
  BY AtWork, Tables DEF RunsInv, TypeOK, MarkRunning, RecordFailure, RecordSuccess, At
<1>2. PICK q \in Runs, pc \in {"produce", "settle", "plan"} :
         /\ runs' = [runs EXCEPT ![r] = q] /\ Go(pc) /\ q.workItem = r
         /\ \/ q.status \in {"running", "failed"} /\ pc \in {"produce", "settle"}
            \/ q.status = "completed" /\ q.verified /\ q.sized /\ pc = "plan"
  BY RowOfRun
<1>6. /\ runs' \in Seq(Runs) /\ Len(runs') = Len(runs) /\ runs'[r] = q
      /\ \A s \in Ids : s # r => runs'[s] = runs[s]
      /\ \A s \in Ids : runs'[s].workItem = s
  BY <1>1, <1>2, RunWritten
<1>7. \A s \in Ids : items[s].status = "completed" => Recorded(s)'
  BY <1>1, <1>6, Tables DEF RunsInv, CompletedWorkHasCopy, Recorded
<1>8. \A s \in Ids : runs'[s].status = "completed" => runs'[s].verified /\ runs'[s].sized
  BY <1>2, <1>6 DEF RunsInv, RecordsAreSound
<1>9. pc \in {"plan", "prune", "mark", "complete"} => Recorded(worker.run)'
  BY <1>1, <1>2, <1>6, Turn DEF Recorded
<1>10. pc \in Steps \ {"idle"} /\ pc # "mark"
  BY <1>2 DEF Steps
<1> HIDE DEF r
<1> QED
  BY <1>1, <1>2, <1>6, <1>7, <1>8, <1>9, <1>10, Turn, WorkerMoves

LEMMA MarkKeepsRuns ==
    ASSUME RunsInv, MarkPruned
    PROVE  RunsInv'
<1>1. PICK m : m = Min(worker.victims)
  OBVIOUS
<1>2. m \in Ids /\ worker.pc = "mark"
  BY <1>1, AtWork, Tables, LeastNatural DEF MarkPruned, At, RunIds
<1>3. PICK W : W = worker.victims \ {m}
  OBVIOUS
<1>4. /\ W \in SUBSET Ids /\ UNCHANGED <<items, files, request, process, spent, faults, now>>
      /\ files' \in [RunIds -> File] /\ faults' \in 0..MaxFaults
      /\ runs[m] \in Runs /\ runs[m].workItem = m
  BY <1>2, <1>3, AtWork, Tables DEF RunsInv, TypeOK, MarkPruned
<1>5. worker' = [worker EXCEPT !.pc = "prune", !.victims = W]
  BY <1>1, <1>3, AtWork DEF MarkPruned, WorkerStates
<1>6. PICK q : q = [runs[m] EXCEPT !.pruned = TRUE]
  OBVIOUS
<1>7. /\ q \in Runs /\ q.workItem = m /\ q.status = runs[m].status /\ q.verified = runs[m].verified
      /\ q.sized = runs[m].sized
  BY <1>4, <1>6 DEF Runs
<1>8. runs' = [runs EXCEPT ![m] = q]
  BY <1>1, <1>6 DEF MarkPruned
<1>9. /\ runs' \in Seq(Runs) /\ Len(runs') = Len(runs) /\ Ids' = Ids
      /\ \A s \in Ids : /\ runs'[s].status = runs[s].status /\ runs'[s].verified = runs[s].verified
                         /\ runs'[s].sized = runs[s].sized
      /\ \A s \in Ids : runs'[s].workItem = s
  BY <1>2, <1>7, <1>8, RunWritten
<1>10. \A s \in Ids : items[s].status = "completed" => Recorded(s)'
  BY <1>4, <1>9, Tables DEF RunsInv, CompletedWorkHasCopy, Recorded
<1>11. \A s \in Ids : runs'[s].status = "completed" => runs'[s].verified /\ runs'[s].sized
  BY <1>9 DEF RunsInv, RecordsAreSound
<1>12. Recorded(worker.run)'
  <2>1. worker'.run = worker.run /\ worker.run \in Ids
    BY <1>2, <1>5, AtWork DEF WorkerStates
  <2>2. Recorded(worker.run)
    BY <1>2 DEF RunsInv, RecordsAreSound
  <2> QED
    BY <1>4, <1>9, <2>1, <2>2 DEF Recorded
<1>13. "prune" \in Steps \ {"idle"}
  BY DEF Steps
<1> QED
  BY <1>2, <1>4, <1>5, <1>9, <1>10, <1>11, <1>12, <1>13, WorkerMoves

LEMMA RestIsWorker == Resting \in WorkerStates /\ Resting.victims = {} /\ Resting.pc = "idle" /\ Resting.run = 0 /\ Resting.item = 0
BY Values DEF Resting, WorkerStates, Steps, RunIds

(* The request is where it was, or back where it began. *)
LEMMA RequestIs ==
    ASSUME RunsInv
    PROVE  /\ request \in RetryStates /\ request.count \in 0..MaxRetries
           /\ (request.pc # "idle" => request.run \in Ids /\ request.count > 0)
           /\ Unasked(request.count) \in RetryStates /\ Unasked(request.count).pc = "idle"
           /\ Unasked(request.count).count = request.count
BY DEF RunsInv, TypeOK, ItemsFollowRuns, RetryStates, Unasked

LEMMA Clocks ==
    ASSUME RunsInv
    PROVE  /\ faults \in 0..MaxFaults /\ now \in 0..MaxTime /\ now \in Nat
           /\ process \in Workers \cup {"down"} /\ spent \subseteq Workers
           /\ items \in Seq(ItemRows) /\ runs \in Seq(Runs)
BY Values DEF RunsInv, TypeOK, ItemRows

(* The worker puts its item down; the runs stay as they are. *)
LEMMA WorkerRests ==
    ASSUME RunsInv, worker' = Resting, UNCHANGED <<runs, files, request, process, spent, now>>,
           faults' \in 0..MaxFaults, items' \in Seq(ItemRows), Len(items') = Len(items),
           \A r \in Ids : items'[r].key = r,
           \A r \in Ids : items'[r].status = "completed" => items[r].status = "completed" \/ Recorded(r)
    PROVE  RunsInv'
<1>1. \A r \in Ids : items'[r].status = "completed" => Recorded(r)'
  BY Tables, RecordedStays DEF RunsInv, CompletedWorkHasCopy
<1>2. \A r \in Ids : runs'[r].status = "completed" => runs'[r].verified /\ runs'[r].sized
  BY DEF RunsInv, RecordsAreSound
<1> HIDE DEF RetryStates
<1>3. /\ worker' \in WorkerStates /\ worker'.victims = {} /\ worker'.pc = "idle" /\ worker'.run = 0 /\ worker'.item = 0
  BY RestIsWorker
<1>4. /\ runs' = runs /\ files' = files /\ request' = request /\ process' = process /\ spent' = spent /\ now' = now
  OBVIOUS
<1> QED
  BY <1>1, <1>2, <1>3, <1>4, Clocks, RequestIs, Tables, AtWork, Assembled

LEMMA SettlementKeepsRuns ==
    ASSUME RunsInv, CompleteWork \/ SettleFailure \/ SettlementFault
    PROVE  RunsInv'
<1> DEFINE i == worker.item
<1>1. /\ worker.pc # "idle" /\ i \in Ids /\ i = worker.run /\ worker' = Resting
      /\ UNCHANGED <<runs, files, request, process, spent, now>> /\ faults' \in 0..MaxFaults
  BY AtWork, Values, Clocks DEF CompleteWork, SettleFailure, SettlementFault, At, Fault
<1>2. items[i] \in ItemRows /\ items[i].key = i /\ NoOwner \in Workers \cup {NoOwner} /\ NoLease \in Nat
      /\ now + Backoff \in Nat
  BY <1>1, Tables, Values, Clocks DEF NoLease
<1>3. PICK q \in ItemRows : /\ items' = items \/ items' = [items EXCEPT ![i] = q]
                            /\ q.key = i /\ (q.status = "completed" => At("complete"))
  <2>1. CASE CompleteWork
    <3>1. PICK q : q = [items[i] EXCEPT !.status = "completed", !.owner = NoOwner, !.leaseExpiresAt = NoLease]
      OBVIOUS
    <3>2. q \in ItemRows /\ q.key = i
      BY <1>2, <3>1 DEF ItemRows, Row, Statuses
    <3> QED
      BY <2>1, <3>1, <3>2 DEF CompleteWork, CompleteRow
  <2>2. CASE SettleFailure
    <3>1. PICK q, p : /\ q = [items[i] EXCEPT !.status = "failed", !.owner = NoOwner, !.leaseExpiresAt = NoLease]
                      /\ p = [items[i] EXCEPT !.status = "pending", !.availableAt = now + Backoff,
                                             !.owner = NoOwner, !.leaseExpiresAt = NoLease]
      OBVIOUS
    <3>2. q \in ItemRows /\ q.key = i /\ q.status = "failed" /\ p \in ItemRows /\ p.key = i /\ p.status = "pending"
      BY <1>2, <3>1 DEF ItemRows, Row, Statuses
    <3>3. items' = items \/ items' = [items EXCEPT ![i] = q] \/ items' = [items EXCEPT ![i] = p]
      BY <2>2, <3>1 DEF SettleFailure, FailRow, RetryRow
    <3> QED
      BY <3>2, <3>3
  <2>3. CASE SettlementFault
    <3>1. items' = items
      BY <2>3 DEF SettlementFault
    <3>2. PICK q : q = [items[i] EXCEPT !.status = "failed"]
      OBVIOUS
    <3>3. q \in ItemRows /\ q.key = i /\ q.status = "failed"
      BY <1>2, <3>2 DEF ItemRows, Row, Statuses
    <3> QED
      BY <3>1, <3>3
  <2> QED
    BY <2>1, <2>2, <2>3
<1>4. At("complete") => Recorded(i)
  BY <1>1 DEF RunsInv, RecordsAreSound, At
<1> HIDE DEF i
<1>5. /\ items' \in Seq(ItemRows) /\ Len(items') = Len(items)
      /\ \A r \in Ids : items'[r].key = r
      /\ \A r \in Ids : items'[r].status = "completed" => items[r].status = "completed" \/ Recorded(r)
  <2>1. CASE items' = items
    BY <2>1, Clocks, Tables
  <2>2. CASE items' = [items EXCEPT ![i] = q]
    <3>1. /\ items' \in Seq(ItemRows) /\ Len(items') = Len(items)
          /\ items'[i] = q /\ \A r \in Ids : r # i => items'[r] = items[r]
          /\ \A r \in Ids : items'[r].key = r
      BY <1>1, <1>3, <2>2, ItemWritten
    <3>2. ASSUME NEW r \in Ids, items'[r].status = "completed" PROVE items[r].status = "completed" \/ Recorded(r)
      BY <1>3, <1>4, <3>1, <3>2 DEF Recorded
    <3> QED
      BY <3>1, <3>2
  <2> QED
    BY <1>3, <2>1, <2>2
<1> QED
  BY <1>1, <1>5, WorkerRests

-----------------------------------------------------------------------------
(* The other actors *)

(* Neither the worker nor what it has in hand changes. *)
LEMMA WorkerWaits ==
    ASSUME RunsInv, UNCHANGED <<runs, worker, process, spent>>,
           files' \in [RunIds -> File], faults' \in 0..MaxFaults, now' \in 0..MaxTime,
           items' \in Seq(ItemRows), Len(items') = Len(items),
           \A r \in Ids : items'[r].key = r,
           \A r \in Ids : items'[r].status = "completed" => items'[r] = items[r],
           \A r \in Ids : items[r].status = "running" => items'[r] = items[r],
           request' \in RetryStates, request.count <= request'.count,
           request'.pc # "idle" => request'.run \in Ids /\ request'.count > 0
    PROVE  RunsInv'
<1>0. runs' = runs /\ worker' = worker /\ process' = process /\ spent' = spent /\ request'.count \in Nat
      /\ request.count \in Nat
  BY RequestIs, Values DEF RetryStates
<1> HIDE DEF RetryStates
<1>1. \A r \in Ids : Recorded(r) => Recorded(r)'
  BY <1>0 DEF Recorded
<1>2. \A r \in Ids : items'[r].status = "completed" => Recorded(r)'
  BY <1>1, Tables DEF RunsInv, CompletedWorkHasCopy
<1>3. \A r \in Ids : runs'[r].status = "completed" => runs'[r].verified /\ runs'[r].sized
  BY <1>0 DEF RunsInv, RecordsAreSound
<1>4. (worker.pc \in {"plan", "prune", "mark", "complete"} => Recorded(worker.run))'
  BY <1>0, <1>1, AtWork DEF RunsInv, RecordsAreSound, Recorded
<1>5. worker.pc # "idle" => Fenced(items', worker.item, process)
  BY AtWork DEF Fenced
<1>6. worker.run \in {0} \cup Ids /\ worker.item \in {0} \cup Ids
  BY Tables DEF RunsInv, TypeOK
<1> QED
  BY <1>0, <1>2, <1>3, <1>4, <1>5, <1>6, AtWork, Clocks, Tables, Assembled DEF Up

LEMMA RequestKeepsRuns ==
    ASSUME RunsInv, (\E r \in Ids : RetryRead(r)) \/ RetryRequeue \/ RetryUpdateFault
    PROVE  RunsInv'
<1>1. /\ UNCHANGED <<runs, worker, process, spent>> /\ files' \in [RunIds -> File]
      /\ faults' \in 0..MaxFaults /\ now' \in 0..MaxTime
  BY AtWork, Clocks, Values DEF RetryRead, RetryRequeue, RetryUpdateFault, Fault
<1>2. /\ request' \in RetryStates /\ request.count <= request'.count
      /\ (request'.pc # "idle" => request'.run \in Ids /\ request'.count > 0)
  <2>1. CASE \E r \in Ids : RetryRead(r)
    <3>1. PICK r \in Ids : RetryRead(r)
      BY <2>1
    <3> QED
      BY <3>1, RequestIs, Values DEF RetryRead, RetryStates
  <2>2. CASE RetryRequeue
    BY <2>2, RequestIs, Values DEF RetryRequeue, RetryStates, Unasked
  <2>3. CASE RetryUpdateFault
    BY <2>3, RequestIs, Values DEF RetryUpdateFault, RetryStates, Unasked
  <2> QED
    BY <2>1, <2>2, <2>3
<1>3. /\ items' \in Seq(ItemRows) /\ Len(items') = Len(items)
      /\ \A r \in Ids : items'[r].key = r
      /\ \A r \in Ids : items'[r].status = "completed" => items'[r] = items[r]
      /\ \A r \in Ids : items[r].status = "running" => items'[r] = items[r]
  <2>1. CASE items' = items
    BY <2>1, Clocks, Tables
  <2>2. CASE items' # items
    <3>1. PICK i : i = runs[request.run].workItem
      OBVIOUS
    <3>2. /\ i \in Ids /\ items[i].status = "failed" /\ items' = RequeueRow(items, i, now)
      BY <2>2, <3>1, RequestIs, Tables DEF RetryRead, RetryRequeue, RetryUpdateFault, Requeueable
    <3>3. PICK q : q = [items[i] EXCEPT !.status = "pending", !.attempts = 0, !.availableAt = now,
                                       !.owner = NoOwner, !.leaseExpiresAt = NoLease]
      OBVIOUS
    <3>3a. items[i] \in ItemRows /\ items[i].key = i /\ now \in Nat
      BY <3>2, Tables, Clocks
    <3>4. q \in ItemRows /\ q.key = i /\ q.status = "pending"
      BY <3>3, <3>3a DEF ItemRows, Row, Statuses, NoLease
    <3>5. items' = [items EXCEPT ![i] = q]
      BY <3>2, <3>3 DEF RequeueRow
    <3>6. /\ items' \in Seq(ItemRows) /\ Len(items') = Len(items)
          /\ items'[i] = q /\ \A r \in Ids : r # i => items'[r] = items[r]
          /\ \A r \in Ids : items'[r].key = r
      BY <3>2, <3>4, <3>5, ItemWritten
    <3> QED
      BY <3>2, <3>4, <3>6
  <2> QED
    BY <2>1, <2>2
<1> HIDE DEF RetryStates
<1> QED
  BY <1>1, <1>2, <1>3, WorkerWaits

LEMMA TickKeepsRuns ==
    ASSUME RunsInv, Tick
    PROVE  RunsInv'
<1>1. now' \in 0..MaxTime
  BY Clocks, Values DEF Tick
<1>2. /\ items' = items /\ runs' = runs /\ files' = files /\ worker' = worker /\ request' = request
      /\ process' = process /\ spent' = spent /\ faults' = faults
  BY DEF Tick
<1>3. request.count <= request.count
  BY RequestIs, Values
<1> HIDE DEF RetryStates
<1> QED
  BY <1>1, <1>2, <1>3, AtWork, Clocks, Tables, RequestIs, WorkerWaits

(* A retry writes "pending", after the item of its run was requeued. *)
LEMMA RetryUpdateKeepsRuns ==
    ASSUME RunsInv, RetryUpdate
    PROVE  RunsInv'
<1>1. PICK r : r = request.run
  OBVIOUS
<1>2. /\ r \in Ids /\ runs[r] \in Runs /\ runs[r].workItem = r /\ request.count > 0
      /\ UNCHANGED <<items, files, worker, process, spent, faults, now>>
  BY <1>1, RequestIs, Tables DEF RetryUpdate
<1>3. PICK q : q = [runs[r] EXCEPT !.status = "pending", !.verified = FALSE]
  OBVIOUS
<1>4. q \in Runs /\ q.workItem = r /\ q.status = "pending"
  BY <1>2, <1>3 DEF Runs
<1>5. runs' = [runs EXCEPT ![r] = q]
  BY <1>1, <1>2, <1>3 DEF RetryUpdate
<1>6. /\ runs' \in Seq(Runs) /\ Len(runs') = Len(runs) /\ runs'[r] = q
      /\ \A s \in Ids : s # r => runs'[s] = runs[s]
      /\ \A s \in Ids : runs'[s].workItem = s
  <2>1. r \in Ids
    BY <1>2
  <2>2. q \in Runs /\ q.workItem = r
    BY <1>4
  <2> QED
    BY <2>1, <2>2, <1>5, RunWritten
<1>7. /\ request' \in RetryStates /\ request'.count = request.count /\ request'.pc = "idle"
  BY RequestIs DEF RetryUpdate
<1>8. \A s \in Ids : Recorded(s) => Recorded(s)'
  BY <1>2, <1>4, <1>6, <1>7 DEF Recorded
<1>9. \A s \in Ids : items[s].status = "completed" => Recorded(s)'
  BY <1>8, Tables DEF RunsInv, CompletedWorkHasCopy
<1>10. \A s \in Ids : runs'[s].status = "completed" => runs'[s].verified /\ runs'[s].sized
  BY <1>4, <1>6 DEF RunsInv, RecordsAreSound
<1>11. (worker.pc \in {"plan", "prune", "mark", "complete"} => Recorded(worker.run))'
  BY <1>2, <1>8, AtWork DEF RunsInv, RecordsAreSound, Recorded
<1>12. worker.pc # "idle" => Fenced(items, worker.item, process)
  BY AtWork DEF Fenced
<1>13. worker.run \in {0} \cup Ids /\ worker.item \in {0} \cup Ids
  BY Tables DEF RunsInv, TypeOK
<1> HIDE DEF RetryStates
<1> QED
  BY <1>2, <1>6, <1>7, <1>9, <1>10, <1>11, <1>12, <1>13, AtWork, Clocks, Tables, Assembled DEF Up

(* The process comes up, or ends where it is. *)
LEMMA ProcessKeepsRuns ==
    ASSUME RunsInv, (\E w \in Workers : StartProcess(w)) \/ Crash
    PROVE  RunsInv'
<1>1. /\ items' = items /\ runs' = runs /\ now' = now /\ faults' = faults
      /\ process' \in Workers \cup {"down"} /\ spent' \subseteq Workers
  BY Clocks DEF StartProcess, Crash
<1>2. worker'.pc = "idle" /\ worker' \in WorkerStates
      /\ worker'.run \in {0} \cup Ids /\ worker'.item \in {0} \cup Ids /\ worker'.victims \subseteq Ids
  <2>1. CASE Crash
    BY <2>1, RestIsWorker DEF Crash
  <2>2. CASE \E w \in Workers : StartProcess(w)
    BY <2>2, AtWork, Tables DEF StartProcess, RunsInv, TypeOK
  <2> QED
    BY <2>1, <2>2
<1>3. /\ request' \in RetryStates /\ request'.count = request.count
      /\ (request'.pc # "idle" => request'.run \in Ids /\ request'.count > 0)
  BY RequestIs DEF StartProcess, Crash
<1>4. files' \in [RunIds -> File]
  <2>1. CASE files' = files
    BY <2>1, AtWork
  <2>2. CASE files' # files
    <3>1. PICK lost, unnamed \in SUBSET RunIds :
             files' = [r \in RunIds |-> PowerCut(files[r], r \in lost, r \in unnamed)]
      BY <2>2 DEF StartProcess, Crash
    <3>2. ASSUME NEW r \in RunIds PROVE PowerCut(files[r], r \in lost, r \in unnamed) \in File
      <4>1. files[r] \in File
        BY AtWork
      <4> QED
        BY <4>1 DEF PowerCut, Torn, File, Contents
    <3> QED
      BY <3>1, <3>2
  <2> QED
    BY <2>1, <2>2
<1>5. \A r \in Ids : Recorded(r)' <=> Recorded(r)
  BY <1>1, <1>3 DEF Recorded
<1>6. /\ \A r \in Ids : items'[r].status = "completed" => Recorded(r)'
      /\ \A r \in Ids : runs'[r].status = "completed" => runs'[r].verified /\ runs'[r].sized
  BY <1>1, <1>5, Tables DEF RunsInv, CompletedWorkHasCopy, RecordsAreSound
<1>7. (worker.pc \in {"plan", "prune", "mark", "complete"} => Recorded(worker.run))'
  BY <1>2
<1> HIDE DEF RetryStates
<1> QED
  BY <1>1, <1>2, <1>3, <1>4, <1>6, <1>7, Clocks, Tables, Assembled

LEMMA Appended ==
    ASSUME NEW S, NEW table \in Seq(S), NEW row \in S, NEW new, new = Append(table, row),
           NEW n, n = Len(table) + 1
    PROVE  /\ new \in Seq(S) /\ Len(new) = n /\ new[n] = row
           /\ \A r \in 1..Len(table) : new[r] = table[r]
BY AppendProperties

(* A run and its item get the next row of their tables. *)
LEMMA CreateFacts ==
    ASSUME RunsInv, NEW trigger \in Triggers, CreateRun(trigger), NEW n, n = Len(runs) + 1
    PROVE  /\ n \in RunIds /\ n \notin Ids /\ Ids' = Ids \cup {n} /\ DOMAIN items' = Ids'
           /\ runs' \in Seq(Runs) /\ items' \in Seq(ItemRows) /\ Len(runs') = n /\ Len(items') = n
           /\ runs'[n] = NewRun(trigger) /\ items'[n] = NewRow(n, now)
           /\ \A r \in Ids : runs'[r] = runs[r] /\ items'[r] = items[r]
<1>1. /\ Len(runs) \in Nat /\ Len(items) = Len(runs) /\ Ids = 1..Len(runs) /\ Len(runs) < MaxRuns
      /\ runs' = Append(runs, NewRun(trigger)) /\ items' = Enqueue(items, n, now)
      /\ items \in Seq(ItemRows) /\ runs \in Seq(Runs) /\ now \in Nat /\ MaxRuns \in Nat
  BY Tables, Clocks, Values DEF CreateRun
<1>2. n \in RunIds /\ n \notin Ids /\ 1..n = Ids \cup {n}
  BY <1>1 DEF RunIds
<1>3. NewRun(trigger) \in Runs
  <2>1. trigger \in {"scheduled", "manual"}
    BY BackupAssumption DEF BackupAssumption
  <2>2. PICK day, item : day = now \div DayLength /\ item = Len(items) + 1
    OBVIOUS
  <2>3. day \in Nat /\ item \in Nat
    BY <1>1, <2>2, Values
  <2> QED
    BY <1>1, <2>1, <2>2, <2>3 DEF NewRun, Runs
<1>4. NewRow(n, now) \in ItemRows
  BY <1>1, <1>2 DEF NewRow, ItemRows, Row, Statuses, NoLease
<1>5. ActiveIds(items, n) = {}
  BY <1>2, Tables DEF ActiveIds
<1>6. items' = Append(items, NewRow(n, now))
  BY <1>1, <1>5 DEF Enqueue
<1>7. /\ runs' \in Seq(Runs) /\ Len(runs') = n /\ runs'[n] = NewRun(trigger)
      /\ \A r \in Ids : runs'[r] = runs[r]
  BY <1>1, <1>3, Appended
<1>8. /\ items' \in Seq(ItemRows) /\ Len(items') = n /\ items'[n] = NewRow(n, now)
      /\ \A r \in Ids : items'[r] = items[r]
  BY <1>1, <1>4, <1>6, Appended
<1>9. Ids' = 1..n /\ DOMAIN items' = 1..n
  BY <1>7, <1>8, LenProperties DEF Ids
<1> QED
  BY <1>2, <1>7, <1>8, <1>9

LEMMA CreateKeepsRuns ==
    ASSUME RunsInv, NEW trigger \in Triggers, CreateRun(trigger)
    PROVE  RunsInv'
<1>1. PICK n : n = Len(runs) + 1
  OBVIOUS
<1>2. /\ n \in RunIds /\ n \notin Ids /\ Ids' = Ids \cup {n} /\ DOMAIN items' = Ids'
      /\ runs' \in Seq(Runs) /\ items' \in Seq(ItemRows) /\ Len(runs') = n /\ Len(items') = n
      /\ runs'[n] = NewRun(trigger) /\ items'[n] = NewRow(n, now)
      /\ \A r \in Ids : runs'[r] = runs[r] /\ items'[r] = items[r]
  BY <1>1, CreateFacts
<1>3. /\ runs'[n].workItem = n /\ runs'[n].status = "pending"
      /\ items'[n].key = n /\ items'[n].status = "pending"
  BY <1>1, <1>2, Tables DEF NewRun, NewRow
<1>4. /\ files' = files /\ worker' = worker /\ request' = request /\ process' = process
      /\ spent' = spent /\ faults' = faults /\ now' = now
  BY DEF CreateRun
<1>5. /\ worker.victims \subseteq Ids /\ worker.run \in {0} \cup Ids /\ worker.item \in {0} \cup Ids
      /\ worker.pc # "idle" => worker.item \in Ids
      /\ Ids \subseteq RunIds
  BY Tables, AtWork DEF RunsInv, TypeOK
<1>6. request' \in RetryStates'
  BY <1>2, <1>4, RequestIs DEF RetryStates
<1>7. TypeOK'
  <2>1. \A r \in Ids' : runs'[r].workItem \in Ids'
    BY <1>2, <1>3, Tables
  <2> QED
    BY <1>2, <1>4, <1>5, <1>6, <2>1, AtWork, Clocks DEF TypeOK, ItemRows, RetryStates, RunIds, Row, File, WorkerStates
<1>8. ItemsFollowRuns'
  <2>1. \A r \in Ids' : runs'[r].workItem = r /\ items'[r].key = r
    BY <1>2, <1>3, Tables
  <2>2. worker.pc # "idle" => /\ Up /\ worker.item \in Ids /\ worker.run = worker.item
                              /\ Fenced(items, worker.item, process)
    BY DEF RunsInv, ItemsFollowRuns
  <2>3. worker.pc # "idle" => Fenced(items', worker.item, process)
    BY <1>2, <2>2 DEF Fenced
  <2> QED
    BY <1>2, <1>4, <2>1, <2>2, <2>3 DEF RunsInv, ItemsFollowRuns, Up
<1>9. \A r \in Ids : Recorded(r)' <=> Recorded(r)
  BY <1>2, <1>4 DEF Recorded
<1>10. CompletedWorkHasCopy'
  <2>1. \A r \in Ids' : items'[r].status = "completed" => r \in Ids /\ items[r].status = "completed"
    BY <1>2, <1>3
  <2>2. \A r \in Ids' : runs'[r].workItem = r
    BY <1>2, <1>3, Tables
  <2>3. \A r \in Ids : items[r].status = "completed" => Recorded(r)
    BY Tables DEF RunsInv, CompletedWorkHasCopy
  <2> QED
    BY <1>9, <2>1, <2>2, <2>3 DEF CompletedWorkHasCopy
<1>11. RecordsAreSound'
  <2>1. \A r \in Ids' : runs'[r].status = "completed" => runs'[r].verified /\ runs'[r].sized
    BY <1>2, <1>3 DEF RunsInv, RecordsAreSound
  <2>2. (worker.pc \in {"plan", "prune", "mark", "complete"} => Recorded(worker.run))'
    BY <1>4, <1>9, AtWork DEF RunsInv, RecordsAreSound, Recorded
  <2> QED
    BY <2>1, <2>2 DEF RecordsAreSound
<1> QED
  BY <1>7, <1>8, <1>10, <1>11 DEF RunsInv

LEMMA ClaimKeepsRuns ==
    ASSUME RunsInv, ClaimBackup
    PROVE  RunsInv'
<1>1. PICK i \in DOMAIN items :
         /\ FirstDue(items, RunIds, now, i)
         /\ items' = ClaimRow(items, i, process, now + Lease)
         /\ worker' = [pc |-> "start", item |-> i, attempts |-> items[i].attempts + 1,
                       run |-> items[i].key, victims |-> {}]
  BY DEF ClaimBackup
<1>2. /\ i \in Ids /\ items[i] \in ItemRows /\ items[i].key = i /\ i \in RunIds
      /\ process \in Workers /\ process # "down" /\ now + Lease \in Nat
  BY <1>1, Tables, Clocks, Values DEF ClaimBackup, At, Up
<1>3. PICK q : q = [items[i] EXCEPT !.status = "running", !.attempts = items[i].attempts + 1,
                                   !.owner = process, !.leaseExpiresAt = now + Lease]
  OBVIOUS
<1>4. q \in ItemRows /\ q.key = i /\ q.status = "running" /\ q.owner = process
  <2>1. PICK a, e : a = items[i].attempts + 1 /\ e = now + Lease
    OBVIOUS
  <2>2. a \in Nat /\ e \in Nat
    BY <1>2, <2>1 DEF ItemRows, Row
  <2>3. q = [items[i] EXCEPT !.status = "running", !.attempts = a, !.owner = process, !.leaseExpiresAt = e]
    BY <1>3, <2>1
  <2>4. items[i] \in ItemRows /\ items[i].key = i /\ process \in Workers
    BY <1>2
  <2> QED
    BY <2>2, <2>3, <2>4 DEF ItemRows, Row, Statuses
<1>5. items' = [items EXCEPT ![i] = q]
  BY <1>1, <1>3 DEF ClaimRow
<1>6. /\ items' \in Seq(ItemRows) /\ Len(items') = Len(items)
      /\ items'[i] = q /\ \A r \in Ids : r # i => items'[r] = items[r]
      /\ \A r \in Ids : items'[r].key = r
  <2>1. i \in Ids
    BY <1>2
  <2>2. q \in ItemRows /\ q.key = i
    BY <1>4
  <2> QED
    BY <2>1, <2>2, <1>5, ItemWritten
<1>7. /\ worker' \in WorkerStates /\ worker'.pc = "start" /\ worker'.item = i /\ worker'.run = i
      /\ worker'.victims = {}
  <2>1. items[i].attempts + 1 \in Nat
    BY <1>2 DEF ItemRows, Row
  <2> QED
    BY <1>1, <1>2, <2>1 DEF WorkerStates, Steps
<1>8. /\ runs' = runs /\ files' = files /\ request' = request /\ process' = process
      /\ spent' = spent /\ faults' = faults /\ now' = now
  BY DEF ClaimBackup
<1>9. Fenced(items', worker'.item, process')
  BY <1>4, <1>6, <1>7, <1>8 DEF Fenced
<1>10. \A r \in Ids : Recorded(r)' <=> Recorded(r)
  BY <1>8 DEF Recorded
<1>11. \A r \in Ids : items'[r].status = "completed" => Recorded(r)'
  BY <1>4, <1>6, <1>10, Tables DEF RunsInv, CompletedWorkHasCopy
<1>12. \A r \in Ids : runs'[r].status = "completed" => runs'[r].verified /\ runs'[r].sized
  BY <1>8 DEF RunsInv, RecordsAreSound
<1>13. (worker.pc \in {"plan", "prune", "mark", "complete"} => Recorded(worker.run))'
  BY <1>7
<1> HIDE DEF RetryStates
<1> QED
  BY <1>2, <1>6, <1>7, <1>8, <1>9, <1>11, <1>12, <1>13, AtWork, Clocks, Tables, RequestIs, Assembled

-----------------------------------------------------------------------------
(* Every step *)

LEMMA RunsInit ==
    ASSUME Init
    PROVE  RunsInv
<1>1. /\ items = << >> /\ runs = << >> /\ worker = Resting /\ request = Unasked(0) /\ process = "down"
      /\ files = [r \in RunIds |-> [final |-> "none", part |-> "none", named |-> TRUE]]
      /\ spent = {} /\ faults = 0 /\ now = 0
  BY DEF Init
<1>2. Ids = {} /\ DOMAIN items = {} /\ Len(items) = Len(runs)
  BY <1>1 DEF Ids
<1>3. worker \in WorkerStates /\ worker.pc = "idle" /\ worker.run = 0 /\ worker.item = 0 /\ worker.victims = {}
  BY <1>1, RestIsWorker
<1>4. files \in [RunIds -> File]
  BY <1>1 DEF File, Contents
<1>5. request \in [pc: {"idle", "requeue", "update"}, run: {0} \cup Ids, count: 0..MaxRetries] /\ request.pc = "idle"
  BY <1>1, Values DEF Unasked
<1>6. TypeOK
  BY <1>1, <1>2, <1>3, <1>4, <1>5, Values DEF TypeOK
<1>7. ItemsFollowRuns
  BY <1>2, <1>3, <1>5 DEF ItemsFollowRuns
<1>8. CompletedWorkHasCopy /\ RecordsAreSound
  BY <1>2, <1>3 DEF CompletedWorkHasCopy, RecordsAreSound
<1> QED
  BY <1>6, <1>7, <1>8 DEF RunsInv

LEMMA WorkerKeepsRuns ==
    ASSUME RunsInv, WorkerStep
    PROVE  RunsInv'
<1>1. CASE ClaimBackup
  BY <1>1, ClaimKeepsRuns
<1>2. CASE ReadRun \/ StartRunFault \/ AdoptFinal \/ VerifyCopy \/ RecordFailureFault \/ RecordSuccessFault
  BY <1>2, ReadsKeepRuns
<1>3. CASE RemoveFinal \/ ClearTarget \/ EndCopy \/ SyncCopy \/ Publish \/ SyncDirectory \/ ProduceFails
  BY <1>3, CopyingKeepsRuns
<1>4. CASE MarkRunning \/ RecordFailure \/ RecordSuccess
  BY <1>4, RecordKeepsRuns
<1>5. CASE PlanPrune \/ PruneFile \/ PruneRefused \/ PruneEnds
  BY <1>5, PruningKeepsRuns
<1>6. CASE MarkPruned
  BY <1>6, MarkKeepsRuns
<1>7. CASE CompleteWork \/ SettleFailure \/ SettlementFault
  BY <1>7, SettlementKeepsRuns
<1> QED
  BY <1>1, <1>2, <1>3, <1>4, <1>5, <1>6, <1>7 DEF WorkerStep

LEMMA RunsStep ==
    ASSUME RunsInv, [Next]_vars
    PROVE  RunsInv'
<1>1. ASSUME NEW trigger \in Triggers, CreateRun(trigger) PROVE RunsInv'
  BY <1>1, CreateKeepsRuns
<1>2. CASE WorkerStep
  BY <1>2, WorkerKeepsRuns
<1>3. CASE RequestStep
  BY <1>3, RequestKeepsRuns, RetryUpdateKeepsRuns DEF RequestStep
<1>4. CASE (\E w \in Workers : StartProcess(w)) \/ Crash
  BY <1>4, ProcessKeepsRuns
<1>5. CASE Tick
  BY <1>5, TickKeepsRuns
<1>6. CASE UNCHANGED vars
  BY <1>6 DEF vars, RunsInv, TypeOK, Ids, CompletedWorkHasCopy, ItemsFollowRuns, RecordsAreSound, Recorded, Up, Fenced
<1> QED
  BY <1>1, <1>2, <1>3, <1>4, <1>5, <1>6 DEF Next

(* Runs, work items, worker and retry keep agreeing: an item is settled only *)
(* by the worker that holds it, and a run says "completed" only of a copy    *)
(* that was verified.                                                        *)
THEOREM RunsInvariance == Spec => []RunsInv
<1>1. Init => RunsInv
  BY RunsInit
<1>2. RunsInv /\ [Next]_vars => RunsInv'
  BY RunsStep
<1> QED
  BY <1>1, <1>2, PTL DEF Spec

(* RunsAreSound: every reference between backup_runs, background_work_items  *)
(* and the worker names a row that exists, and the item of a run is          *)
(* completed only when the run was recorded, or a retry reopened it.         *)
THEOREM RunsStaySound == Spec => []RunsAreSound
<1>1. RunsInv => RunsAreSound
  BY DEF RunsInv, RunsAreSound
<1> QED
  BY <1>1, RunsInvariance, PTL

-----------------------------------------------------------------------------
(* What stands under a final name *)

(* A step that writes no file, and that brings the worker to no step that    *)
(* relies on one.                                                            *)
LEMMA FilesKept ==
    ASSUME FilesInv, files' = files,
           worker' = worker \/ worker'.pc \notin {"rename", "syncdir", "record"}
    PROVE  FilesInv'
BY DEF FilesInv, FinalNameIsTrusted

LEMMA CopyingKeepsFiles ==
    ASSUME RunsInv, FilesInv, AdoptFinal \/ RemoveFinal \/ ClearTarget \/ EndCopy \/ SyncCopy \/ Publish \/ SyncDirectory \/ ProduceFails
    PROVE  FilesInv'
<1> DEFINE r == worker.run
<1>1. worker.pc # "idle"
  BY DEF AdoptFinal, RemoveFinal, ClearTarget, EndCopy, SyncCopy, Publish, SyncDirectory, ProduceFails, At
<1>2. r \in RunIds /\ files \in [RunIds -> File] /\ \A s \in RunIds : files[s] \in File
  BY <1>1, AtWork, Tables
<1>3. \A s \in RunIds : files[s].final \in {"none", "synced"}
  BY DEF FilesInv, FinalNameIsTrusted
<1>4. CASE AdoptFinal
  <2>1. files' = files /\ worker'.pc = "record" /\ worker'.run = r
    BY <1>4, Turn DEF AdoptFinal
  <2>2. files[r].final = "synced"
    BY <1>2, <1>3, <1>4 DEF AdoptFinal, Verifies
  <2> QED
    BY <1>3, <2>1, <2>2 DEF FilesInv, FinalNameIsTrusted
<1>5. CASE RemoveFinal \/ ClearTarget
  <2>1. worker'.pc \in {"produce", "copying"}
    BY <1>5, Turn DEF RemoveFinal, ClearTarget
  <2>2. \A s \in RunIds : files'[s].final \in {"none", files[s].final}
    BY <1>2, <1>5 DEF RemoveFinal, ClearTarget, File
  <2> QED
    BY <1>3, <2>1, <2>2 DEF FilesInv, FinalNameIsTrusted
<1>6. CASE EndCopy
  <2>1. worker'.pc = "verify"
    BY <1>6, Turn DEF EndCopy
  <2> QED
    BY <1>2, <1>3, <1>6, <2>1 DEF EndCopy, FilesInv, FinalNameIsTrusted, File
<1>7. CASE SyncCopy
  <2>1. worker'.pc = "rename" /\ worker'.run = r
    BY <1>7, Turn DEF SyncCopy
  <2>2. \A s \in RunIds : files'[s].final = files[s].final /\ (s = r => files'[s].part = "synced")
    BY <1>2, <1>7 DEF SyncCopy, File
  <2> QED
    BY <1>2, <1>3, <2>1, <2>2 DEF FilesInv, FinalNameIsTrusted
<1>8. CASE Publish
  <2>1. worker'.pc = "syncdir" /\ worker'.run = r
    BY <1>8, Turn DEF Publish
  <2>2. files[r].part = "synced"
    BY <1>8 DEF Publish, At, FilesInv
  <2>3. \A s \in RunIds : files'[s].final = IF s = r THEN "synced" ELSE files[s].final
    BY <1>2, <1>8, <2>2 DEF Publish, File
  <2> QED
    BY <1>2, <1>3, <2>1, <2>3 DEF FilesInv, FinalNameIsTrusted
<1>9. CASE SyncDirectory
  <2>1. worker'.pc = "record" /\ worker'.run = r
    BY <1>9, Turn DEF SyncDirectory
  <2>2. files[r].final = "synced"
    BY <1>9 DEF SyncDirectory, At, FilesInv
  <2>3. \A s \in RunIds : files'[s].final = files[s].final
    BY <1>2, <1>9 DEF SyncDirectory, File
  <2> QED
    BY <1>2, <1>3, <2>1, <2>2, <2>3 DEF FilesInv, FinalNameIsTrusted
<1>10. CASE ProduceFails
  <2>1. worker'.pc = "failed"
    BY <1>10, Turn DEF ProduceFails
  <2>2. \/ files' = files
        \/ files' = [files EXCEPT ![r].part = "none"]
    BY <1>10 DEF ProduceFails
  <2>3. \A s \in RunIds : files'[s].final \in {"none", "synced"}
    BY <1>2, <1>3, <2>2 DEF File
  <2> QED
    BY <2>1, <2>3 DEF FilesInv, FinalNameIsTrusted
<1> QED
  BY <1>4, <1>5, <1>6, <1>7, <1>8, <1>9, <1>10

LEMMA PruneFileIs ==
    ASSUME RunsInv, PruneFile, NEW m, m = Min(worker.victims)
    PROVE  /\ m \in worker.victims /\ m \in Ids /\ m \in RunIds
           /\ \A v \in worker.victims : m <= v
           /\ files' = [files EXCEPT ![m].final = "none"]
           /\ \A s \in RunIds : files'[s].final = IF s = m THEN "none" ELSE files[s].final
           /\ worker'.pc = "mark" /\ worker'.run = worker.run /\ worker'.victims = worker.victims
<1>1. worker.victims # {} /\ worker.victims \subseteq Ids /\ Ids \subseteq RunIds /\ RunIds \subseteq Nat
  BY AtWork, Tables DEF PruneFile, RunIds
<1>2. m \in worker.victims /\ \A v \in worker.victims : m <= v
  BY <1>1, LeastNatural
<1>3. files' = [files EXCEPT ![m].final = "none"] /\ files \in [RunIds -> File]
  BY AtWork DEF PruneFile
<1>4. m \in RunIds /\ \A s \in RunIds : files[s] \in File
  BY <1>1, <1>2, <1>3
<1>5. \A s \in RunIds : files'[s].final = IF s = m THEN "none" ELSE files[s].final
  BY <1>3, <1>4 DEF File
<1>6. worker'.pc = "mark" /\ worker'.run = worker.run /\ worker'.victims = worker.victims
  BY Turn DEF PruneFile
<1> QED
  BY <1>1, <1>2, <1>3, <1>5, <1>6

LEMMA WorkerKeepsFiles ==
    ASSUME RunsInv, FilesInv, WorkerStep
    PROVE  FilesInv'
<1>1. CASE ClaimBackup
  BY <1>1, FilesKept DEF ClaimBackup
<1>2. CASE ReadRun
  <2>1. worker'.pc \in {"complete", "begin"} /\ files' = files
    BY <1>2, Turn DEF ReadRun
  <2> QED
    BY <2>1, FilesKept
<1>3. CASE StartRunFault \/ RecordFailureFault \/ RecordSuccessFault
  <2>1. worker'.pc = "settle" /\ files' = files
    BY <1>3, Turn DEF StartRunFault, RecordFailureFault, RecordSuccessFault
  <2> QED
    BY <2>1, FilesKept
<1>4. CASE MarkRunning \/ RecordFailure \/ RecordSuccess \/ VerifyCopy
  <2>1. worker'.pc \in {"produce", "settle", "plan", "sync"} /\ files' = files
    BY <1>4, Turn DEF MarkRunning, RecordFailure, RecordSuccess, VerifyCopy
  <2> QED
    BY <2>1, FilesKept
<1>5. CASE AdoptFinal \/ RemoveFinal \/ ClearTarget \/ EndCopy \/ SyncCopy \/ Publish \/ SyncDirectory \/ ProduceFails
  BY <1>5, CopyingKeepsFiles
<1>6. CASE PlanPrune \/ MarkPruned \/ PruneRefused \/ PruneEnds
  <2>1. worker'.pc \in {"prune", "complete"} /\ files' = files
    BY <1>6, AtWork DEF PlanPrune, MarkPruned, PruneRefused, PruneEnds, At, WorkerStates
  <2> QED
    BY <2>1, FilesKept
<1>7. CASE PruneFile
  <2>1. PICK m : m = Min(worker.victims)
    OBVIOUS
  <2>2. worker'.pc = "mark" /\ \A s \in RunIds : files'[s].final = IF s = m THEN "none" ELSE files[s].final
    BY <1>7, <2>1, PruneFileIs
  <2> QED
    BY <2>2 DEF FilesInv, FinalNameIsTrusted
<1>8. CASE CompleteWork \/ SettleFailure \/ SettlementFault
  <2>1. worker'.pc = "idle" /\ files' = files
    BY <1>8 DEF CompleteWork, SettleFailure, SettlementFault, Resting
  <2> QED
    BY <2>1, FilesKept
<1> QED
  BY <1>1, <1>2, <1>3, <1>4, <1>5, <1>6, <1>7, <1>8 DEF WorkerStep

LEMMA FilesStep ==
    ASSUME RunsInv, FilesInv, [Next]_vars
    PROVE  FilesInv'
<1>1. CASE WorkerStep
  BY <1>1, WorkerKeepsFiles
<1>2. CASE Crash
  <2>1. worker'.pc = "idle"
    BY <1>2 DEF Crash, Resting
  <2>2. CASE files' = files
    BY <2>1, <2>2, FilesKept
  <2>3. CASE files' # files
    <3>1. PICK lost, unnamed \in SUBSET RunIds :
             files' = [r \in RunIds |-> PowerCut(files[r], r \in lost, r \in unnamed)]
      BY <1>2, <2>3 DEF Crash
    <3>2. ASSUME NEW r \in RunIds PROVE files'[r].final \in {"none", "synced"}
      <4>1. files[r].final \in {"none", "synced"}
        BY DEF FilesInv, FinalNameIsTrusted
      <4> QED
        BY <3>1, <4>1 DEF PowerCut, Torn
    <3> QED
      BY <2>1, <3>2 DEF FilesInv, FinalNameIsTrusted
  <2> QED
    BY <2>2, <2>3
<1>3. CASE \/ \E trigger \in Triggers : CreateRun(trigger)
           \/ RequestStep
           \/ \E w \in Workers : StartProcess(w)
           \/ Tick \/ UNCHANGED vars
  <2>1. files' = files /\ worker' = worker
    BY <1>3 DEF CreateRun, RequestStep, RetryRead, RetryRequeue, RetryUpdate, RetryUpdateFault, StartProcess, Tick, vars
  <2> QED
    BY <2>1, FilesKept
<1> QED
  BY <1>1, <1>2, <1>3 DEF Next

(* FinalNameIsTrusted: whatever crash or power cut interrupts produceBackup  *)
(* or pruneBackups, a file under its final name is complete and synced.      *)
THEOREM FilesInvariance == Spec => []FilesInv
<1>1. Init => FilesInv
  BY DEF Init, FilesInv, FinalNameIsTrusted, Resting
<1>2. RunsInv /\ FilesInv /\ [Next]_vars => FilesInv'
  BY FilesStep
<1> QED
  BY <1>1, <1>2, RunsInvariance, PTL DEF Spec

THEOREM FinalNamesStayTrusted == Spec => []FinalNameIsTrusted
<1>1. FilesInv => FinalNameIsTrusted
  BY DEF FilesInv
<1> QED
  BY <1>1, FilesInvariance, PTL

-----------------------------------------------------------------------------
(* The copies that retention keeps *)

LEMMA Fewer ==
    ASSUME NEW T, IsFiniteSet(T), NEW S \in SUBSET T
    PROVE  /\ IsFiniteSet(S) /\ Cardinality(S) \in Nat /\ Cardinality(T) \in Nat
           /\ Cardinality(S) <= Cardinality(T)
BY FS_Subset, FS_CardinalityType

LEMMA Dated ==
    ASSUME RunsInv
    PROVE  /\ \A r \in Ids : runs[r].createdAt \in Nat /\ r \in Nat
           /\ now \in Nat /\ MaxAge \in Nat /\ Keep \in Nat
           /\ IsFiniteSet(Standing)
<1>1. IsFiniteSet(RunIds)
  BY FS_Interval, Values DEF RunIds
<1>2. Standing \subseteq RunIds
  BY Tables DEF Standing
<1>3. IsFiniteSet(Standing)
  BY <1>1, <1>2, FS_Subset
<1> QED
  BY <1>3, Tables, Clocks, Values DEF Runs, RunIds

(* What may go for a run may go for every older one. *)
LEMMA SparedDown ==
    ASSUME RunsInv, CopiesInv, NEW m \in Ids, Spared(m), NEW r \in Ids, r <= m
    PROVE  Spared(r)
<1>1. runs[r].createdAt <= runs[m].createdAt
  <2>1. r = m \/ r < m
    BY Dated
  <2> QED
    BY <2>1, Dated DEF CopiesInv
<1>2. CASE TooOld(m)
  BY <1>1, <1>2, Dated DEF TooOld, Spared
<1>3. CASE Cardinality({c \in Standing : c > m}) >= Keep
  <2>1. {c \in Standing : c > m} \subseteq {c \in Standing : c > r}
    <3>1. \A c \in Standing : c \in Nat
      BY Dated DEF Standing
    <3> QED
      BY <3>1, Dated
  <2>2. IsFiniteSet({c \in Standing : c > r})
    BY Dated, Fewer
  <2>3. PICK x, y : x = Cardinality({c \in Standing : c > m}) /\ y = Cardinality({c \in Standing : c > r})
    OBVIOUS
  <2>4. x \in Nat /\ y \in Nat /\ x <= y
    BY <2>1, <2>2, <2>3, Fewer
  <2>5. y >= Keep
    BY <1>3, <2>3, <2>4, Dated
  <2> QED
    BY <2>3, <2>5 DEF Spared
<1> QED
  BY <1>2, <1>3 DEF Spared

LEMMA MoreStand ==
    ASSUME RunsInv, RunsInv', NEW r \in Ids, r \in Ids', {c \in Standing : c > r} \subseteq {c \in Standing : c > r}',
           runs'[r].createdAt = runs[r].createdAt, now <= now', Spared(r)
    PROVE  Spared(r)'
<1>1. now \in Nat /\ now' \in Nat /\ runs[r].createdAt \in Nat /\ MaxAge \in Nat /\ Keep \in Nat
  <2>1. now' \in Nat
    BY Values DEF RunsInv, TypeOK
  <2> QED
    BY <2>1, Dated
<1>2. CASE TooOld(r)
  BY <1>1, <1>2 DEF TooOld, Spared
<1>3. CASE Cardinality({c \in Standing : c > r}) >= Keep
  <2>1. IsFiniteSet(Standing')
    <3>1. Standing' \subseteq Ids' /\ Ids' \subseteq RunIds
      BY DEF Standing, RunsInv, TypeOK, RunIds
    <3>2. IsFiniteSet(RunIds)
      BY FS_Interval, Values DEF RunIds
    <3> QED
      BY <3>1, <3>2, FS_Subset
  <2>2. IsFiniteSet({c \in Standing : c > r}')
    BY <2>1, Fewer
  <2>3. PICK x, y : x = Cardinality({c \in Standing : c > r}) /\ y = Cardinality({c \in Standing : c > r}')
    OBVIOUS
  <2>4. x \in Nat /\ y \in Nat /\ x <= y
    BY <2>2, <2>3, Fewer
  <2>5. y >= Keep
    BY <1>1, <1>3, <2>3, <2>4
  <2> QED
    BY <2>3, <2>5 DEF Spared
<1> QED
  BY <1>2, <1>3 DEF Spared

(* Nothing that stood is lost. *)
LEMMA SparedStays ==
    ASSUME RunsInv, RunsInv', Ids \subseteq Ids', Standing \subseteq Standing', now <= now',
           \A r \in Ids : runs'[r].createdAt = runs[r].createdAt
    PROVE  \A r \in Ids : Spared(r) => Spared(r)'
<1>1. ASSUME NEW r \in Ids, Spared(r) PROVE Spared(r)'
  <2>1. r \in Ids'
    OBVIOUS
  <2>2. {c \in Standing : c > r} \subseteq {c \in Standing : c > r}'
    OBVIOUS
  <2>3. runs'[r].createdAt = runs[r].createdAt
    OBVIOUS
  <2> QED
    BY <1>1, <2>1, <2>2, <2>3, MoreStand
<1> QED
  BY <1>1

(* One copy goes that may go: for every newer run just as many stand, and    *)
(* what may go for that one may go for every older one.                      *)
LEMMA SparedThinned ==
    ASSUME RunsInv, RunsInv', CopiesInv, NEW m \in Ids, Spared(m), Ids' = Ids, Standing \ {m} \subseteq Standing',
           now' = now, \A r \in Ids : runs'[r].createdAt = runs[r].createdAt
    PROVE  \A r \in Ids : Spared(r) => Spared(r)'
<1>0. /\ \A c \in Standing : c \in Nat
      /\ \A c \in Ids : c \in Nat
      /\ now <= now'
  BY Dated DEF Standing
<1>1. ASSUME NEW r \in Ids, r >= m, Spared(r) PROVE Spared(r)'
  <2>1. r \in Ids' /\ runs'[r].createdAt = runs[r].createdAt
    OBVIOUS
  <2>2. {c \in Standing : c > r} \subseteq {c \in Standing : c > r}'
    BY <1>0, <1>1
  <2> QED
    BY <1>0, <1>1, <2>1, <2>2, MoreStand
<1>2. Spared(m)'
  BY <1>0, <1>1
<1>3. ASSUME NEW r \in Ids, r < m PROVE Spared(r)'
  <2>1. /\ runs'[r].createdAt <= runs'[m].createdAt
        /\ runs'[r].createdAt \in Nat /\ runs'[m].createdAt \in Nat /\ now' \in Nat /\ MaxAge \in Nat /\ Keep \in Nat
    BY <1>3, Dated DEF CopiesInv
  <2>2. CASE TooOld(m)'
    BY <2>1, <2>2 DEF TooOld, Spared
  <2>3. CASE Cardinality({c \in Standing : c > m}') >= Keep
    <3>1. {c \in Standing : c > m}' \subseteq {c \in Standing : c > r}'
      <4>1. \A c \in Standing' : c \in Nat
        BY <1>0 DEF Standing
      <4> QED
        BY <1>0, <1>3, <4>1
    <3>2. IsFiniteSet({c \in Standing : c > r}')
      <4>1. {c \in Standing : c > r}' \subseteq RunIds
        BY Tables DEF Standing
      <4>2. IsFiniteSet(RunIds)
        BY FS_Interval, Values DEF RunIds
      <4> QED
        BY <4>1, <4>2, FS_Subset
    <3>3. PICK x, y : x = Cardinality({c \in Standing : c > m}') /\ y = Cardinality({c \in Standing : c > r}')
      OBVIOUS
    <3>4. x \in Nat /\ y \in Nat /\ x <= y
      BY <3>1, <3>2, <3>3, Fewer
    <3>5. y >= Keep
      BY <2>1, <2>3, <3>3, <3>4
    <3> QED
      BY <3>3, <3>5 DEF Spared
  <2> QED
    BY <1>2, <2>2, <2>3 DEF Spared
<1> QED
  BY <1>0, <1>1, <1>3

LEMMA CopiesFollow ==
    ASSUME RunsInv, RunsInv', CopiesInv, now <= now', Ids' = Ids,
           \A r \in Ids : runs'[r].createdAt = runs[r].createdAt,
           \A r \in Ids : Spared(r) => Spared(r)',
           \A r \in Prunable' : r \in Standing' \/ Spared(r),
           \A v \in worker'.victims : v \in Ids /\ Spared(v)
    PROVE  CopiesInv'
<1>1. Prunable' \subseteq Ids
  BY DEF Prunable
<1>2. now' \in Nat
  BY Values DEF RunsInv, TypeOK
<1>3. \A r \in Ids : runs'[r].createdAt <= now' /\ \A s \in Ids : r < s => runs'[r].createdAt <= runs'[s].createdAt
  <2>1. ASSUME NEW r \in Ids PROVE runs'[r].createdAt <= now' /\ runs[r].createdAt \in Nat
    BY <1>2, Dated DEF CopiesInv
  <2>2. ASSUME NEW r \in Ids, NEW s \in Ids, r < s PROVE runs'[r].createdAt <= runs'[s].createdAt
    BY <2>2 DEF CopiesInv
  <2> QED
    BY <2>1, <2>2
<1> QED
  BY <1>1, <1>3 DEF CopiesInv

(* No file is touched, and no run becomes one that retention counts without  *)
(* a copy.                                                                   *)
LEMMA CopiesStand ==
    ASSUME RunsInv, RunsInv', CopiesInv, now <= now', Ids' = Ids,
           \A r \in Ids : runs'[r].createdAt = runs[r].createdAt,
           Standing \subseteq Standing',
           \A r \in Prunable' : r \in Prunable \/ r \in Standing',
           \A v \in worker'.victims : v \in Ids /\ Spared(v)
    PROVE  CopiesInv'
<1>1. \A r \in Ids : Spared(r) => Spared(r)'
  BY SparedStays
<1>2. \A r \in Prunable' : r \in Standing' \/ Spared(r)
  BY DEF CopiesInv
<1> QED
  BY <1>1, <1>2, CopiesFollow

LEMMA VictimsAre ==
    ASSUME RunsInv, CopiesInv
    PROVE  \A v \in worker.victims : v \in Ids /\ Spared(v)
BY AtWork DEF CopiesInv

(* Only the worker and its files move. *)
LEMMA FilesMove ==
    ASSUME RunsInv, RunsInv', CopiesInv, UNCHANGED <<runs, now>>,
           \A r \in Ids : \/ files[r].final = "synced" => files'[r].final = "synced"
                         \/ runs[r].status # "completed",
           \A v \in worker'.victims : v \in Ids /\ Spared(v)
    PROVE  CopiesInv'
<1>1. /\ runs' = runs /\ now' = now /\ now <= now' /\ Ids' = Ids /\ Ids \subseteq RunIds
      /\ \A r \in Ids : runs'[r].createdAt = runs[r].createdAt
  BY Dated, Tables DEF Ids
<1>2. Prunable' = Prunable
  BY <1>1 DEF Prunable
<1>3. Standing \subseteq Standing'
  BY <1>1 DEF Standing
<1> QED
  BY <1>1, <1>2, <1>3, CopiesStand

(* The worker at the files of its run: pruning and the records are over, or  *)
(* have not begun.                                                           *)
LEMMA ProducingStep ==
    ASSUME RunsInv, ProducesUnfinished, [Next]_vars
    PROVE  ProducesUnfinished'
<1> DEFINE busy == {"produce", "copying", "verify", "sync", "rename", "syncdir", "record"}
<1>1. CASE MarkRunning
  <2>1. PICK r : r = worker.run
    OBVIOUS
  <2>2. worker'.run = r /\ r \in Ids
    BY <1>1, <2>1, Turn, AtWork DEF MarkRunning, At
  <2>3. runs[r] \in Runs /\ runs \in Seq(Runs)
    BY <2>2, Tables DEF RunsInv, TypeOK
  <2>4. runs'[r].status = "running"
    BY <1>1, <2>1, <2>2, <2>3 DEF MarkRunning, Runs, Ids
  <2> QED
    BY <2>2, <2>4 DEF ProducesUnfinished
<1>2. CASE AdoptFinal \/ RemoveFinal \/ ClearTarget \/ EndCopy \/ VerifyCopy \/ SyncCopy \/ Publish \/ SyncDirectory
  <2>1. runs' = runs /\ worker.pc \in busy /\ \E pc : Go(pc)
    BY <1>2 DEF AdoptFinal, RemoveFinal, ClearTarget, EndCopy, VerifyCopy, SyncCopy, Publish, SyncDirectory, At
  <2>2. worker'.run = worker.run
    BY <2>1, Turn
  <2> QED
    BY <2>1, <2>2 DEF ProducesUnfinished
<1>3. CASE RetryUpdate
  <2>1. worker' = worker /\ request.run \in Ids /\ runs \in Seq(Runs)
    BY <1>3, RequestIs DEF RetryUpdate, RunsInv, TypeOK
  <2>2. \A r \in Ids : runs'[r].status = "completed" => runs[r].status = "completed"
    BY <1>3, <2>1, Tables DEF RetryUpdate, Runs, Ids
  <2>3. worker.pc # "idle" => worker.run \in Ids
    BY AtWork
  <2> QED
    BY <2>1, <2>2, <2>3 DEF ProducesUnfinished
<1>4. ASSUME NEW trigger \in Triggers, CreateRun(trigger) PROVE ProducesUnfinished'
  <2>1. worker' = worker /\ \A r \in Ids : runs'[r] = runs[r]
    BY <1>4, CreateFacts DEF CreateRun
  <2>2. worker.pc # "idle" => worker.run \in Ids
    BY AtWork
  <2> QED
    BY <2>1, <2>2 DEF ProducesUnfinished
<1>5. CASE (\E r \in Ids : RetryRead(r)) \/ RetryRequeue \/ RetryUpdateFault \/ (\E w \in Workers : StartProcess(w)) \/ Tick \/ UNCHANGED vars
  <2>1. worker' = worker /\ runs' = runs
    BY <1>5 DEF RetryRead, RetryRequeue, RetryUpdateFault, StartProcess, Tick, vars
  <2> QED
    BY <2>1 DEF ProducesUnfinished
<1>6. CASE ReadRun \/ StartRunFault \/ ProduceFails \/ RecordFailure \/ RecordFailureFault \/ RecordSuccess \/ RecordSuccessFault \/ PruneFile
  <2>1. \E pc : Go(pc) /\ pc \notin busy
    BY <1>6 DEF ReadRun, StartRunFault, ProduceFails, RecordFailure, RecordFailureFault, RecordSuccess,
       RecordSuccessFault, PruneFile
  <2>2. worker'.pc \notin busy
    BY <2>1, Turn
  <2> QED
    BY <2>2 DEF ProducesUnfinished
<1>7. CASE ClaimBackup \/ PlanPrune \/ MarkPruned \/ PruneRefused \/ PruneEnds \/ CompleteWork \/ SettleFailure \/ SettlementFault \/ Crash
  <2>1. worker'.pc \notin busy
    <3>1. CASE ClaimBackup
      BY <3>1 DEF ClaimBackup
    <3>2. CASE CompleteWork \/ SettleFailure \/ SettlementFault \/ Crash
      BY <3>2, RestIsWorker DEF CompleteWork, SettleFailure, SettlementFault, Crash
    <3>3. CASE PlanPrune \/ PruneEnds
      BY <3>3, AtWork DEF PlanPrune, PruneEnds, WorkerStates
    <3>4. CASE MarkPruned \/ PruneRefused
      BY <3>4, AtWork DEF MarkPruned, PruneRefused, At, WorkerStates
    <3> QED
      BY <1>7, <3>1, <3>2, <3>3, <3>4
  <2> QED
    BY <2>1 DEF ProducesUnfinished
<1> QED
  BY <1>1, <1>2, <1>3, <1>4, <1>5, <1>6, <1>7 DEF Next, WorkerStep, RequestStep

LEMMA ProducingInvariance == Spec => []ProducesUnfinished
<1>1. Init => ProducesUnfinished
  BY DEF Init, Resting, ProducesUnfinished
<1>2. RunsInv /\ ProducesUnfinished /\ [Next]_vars => ProducesUnfinished'
  BY ProducingStep
<1> QED
  BY <1>1, <1>2, RunsInvariance, PTL DEF Spec

LEMMA CopyingKeepsCopies ==
    ASSUME RunsInv, RunsInv', FilesInv, CopiesInv, ProducesUnfinished,
           AdoptFinal \/ RemoveFinal \/ ClearTarget \/ EndCopy \/ SyncCopy \/ Publish \/ SyncDirectory \/ ProduceFails
    PROVE  CopiesInv'
<1> DEFINE r == worker.run
<1>1. worker.pc # "idle" /\ runs' = runs /\ now' = now /\ \E pc : Go(pc)
  BY DEF AdoptFinal, RemoveFinal, ClearTarget, EndCopy, SyncCopy, Publish, SyncDirectory, ProduceFails, At
<1>2. worker'.victims = worker.victims
  BY <1>1, Turn
<1>3. r \in RunIds /\ r \in Ids /\ files \in [RunIds -> File] /\ \A s \in RunIds : files[s] \in File
  BY <1>1, AtWork, Tables
<1>4. \A s \in RunIds : s # r => files'[s].final = files[s].final
  <2>1. CASE AdoptFinal \/ ProduceFails
    BY <1>3, <2>1 DEF AdoptFinal, ProduceFails, File
  <2>2. CASE RemoveFinal \/ ClearTarget
    BY <1>3, <2>2 DEF RemoveFinal, ClearTarget, File
  <2>3. CASE EndCopy \/ Publish
    BY <1>3, <2>3 DEF EndCopy, Publish, File
  <2>4. CASE SyncCopy
    BY <1>3, <2>4 DEF SyncCopy, File
  <2>5. CASE SyncDirectory
    BY <1>3, <2>5 DEF SyncDirectory, File
  <2> QED
    BY <2>1, <2>2, <2>3, <2>4, <2>5
<1>5. runs[r].status # "completed"
  BY DEF ProducesUnfinished, AdoptFinal, RemoveFinal, ClearTarget, EndCopy, SyncCopy, Publish, SyncDirectory, ProduceFails, At
<1>6. \A v \in worker'.victims : v \in Ids /\ Spared(v)
  BY <1>2, VictimsAre
<1>7. \A s \in Ids : \/ files[s].final = "synced" => files'[s].final = "synced"
                     \/ runs[s].status # "completed"
  BY <1>4, <1>5, Tables
<1> HIDE DEF r
<1> QED
  BY <1>1, <1>6, <1>7, FilesMove

(* The row of the worker's run changes, and its copy stands when it is       *)
(* recorded as completed.                                                    *)
LEMMA RecordKeepsCopies ==
    ASSUME RunsInv, RunsInv', FilesInv, CopiesInv, MarkRunning \/ RecordFailure \/ RecordSuccess
    PROVE  CopiesInv'
<1> DEFINE r == worker.run
<1>1. /\ r \in Ids /\ runs[r] \in Runs /\ runs[r].workItem = r
      /\ files' = files /\ now' = now /\ now <= now'
  BY AtWork, Tables, Dated DEF MarkRunning, RecordFailure, RecordSuccess, At
<1>2. PICK q \in Runs :
         /\ runs' = [runs EXCEPT ![r] = q] /\ q.workItem = r
         /\ q.pruned = runs[r].pruned /\ q.createdAt = runs[r].createdAt
         /\ \/ q.status \in {"running", "failed"} /\ q.sized = runs[r].sized
            \/ q.status = "completed" /\ q.sized /\ worker.pc = "record"
  BY RowOfRun
<1>3. Ids' = Ids /\ runs'[r] = q /\ \A s \in Ids : s # r => runs'[s] = runs[s]
  BY <1>1, <1>2, RunWritten
<1>4. q.status = "completed" => files[r].final = "synced"
  BY <1>2 DEF FilesInv
<1>7. Standing \subseteq Standing'
  BY <1>1, <1>2, <1>3, <1>4 DEF Standing
<1>8. \A s \in Prunable' : s \in Prunable \/ s \in Standing'
  <2>1. ASSUME NEW s \in Prunable', s # r PROVE s \in Prunable
    BY <1>3, <2>1 DEF Prunable
  <2>2. ASSUME r \in Prunable' PROVE r \in Standing'
    BY <1>1, <1>2, <1>3, <1>4, <2>2 DEF Prunable, Standing
  <2> QED
    BY <2>1, <2>2
<1>9. worker'.victims = worker.victims
  BY Turn DEF MarkRunning, RecordFailure, RecordSuccess
<1>10. \A c \in worker'.victims : c \in Ids /\ Spared(c)
  BY <1>9, VictimsAre
<1>11. \A s \in Ids : runs'[s].createdAt = runs[s].createdAt
  BY <1>2, <1>3
<1> HIDE DEF r
<1> QED
  BY <1>1, <1>3, <1>7, <1>8, <1>10, <1>11, CopiesStand

(* The plan of pruneBackups: beyond the keep count every newer completed run *)
(* has its copy, or one of them may itself go.                               *)
LEMMA PlanIsSpared ==
    ASSUME RunsInv, CopiesInv
    PROVE  \A v \in Victims : v \in Ids /\ Spared(v)
<1>1. ASSUME NEW v \in Victims PROVE v \in Ids /\ Spared(v)
  <2>1. v \in Ids /\ v \in Prunable
    BY DEF Victims, Prunable
  <2>2. CASE TooOld(v)
    BY <2>1, <2>2 DEF Spared
  <2>3. CASE Cardinality(Newer(v)) >= Keep /\ Newer(v) \subseteq Standing
    <3>1. Newer(v) \subseteq {c \in Standing : c > v}
      BY <2>3 DEF Newer
    <3>2. IsFiniteSet({c \in Standing : c > v})
      BY Dated, Fewer
    <3>3. PICK x, y : x = Cardinality(Newer(v)) /\ y = Cardinality({c \in Standing : c > v})
      OBVIOUS
    <3>4. x \in Nat /\ y \in Nat /\ x <= y
      BY <3>1, <3>2, <3>3, Fewer
    <3>5. y >= Keep
      BY <2>3, <3>3, <3>4, Dated
    <3> QED
      BY <2>1, <3>3, <3>5 DEF Spared
  <2>4. CASE ~(Newer(v) \subseteq Standing)
    <3>1. PICK s \in Newer(v) : s \notin Standing
      BY <2>4
    <3>2. s \in Ids /\ s \in Prunable /\ v <= s
      BY <2>1, Dated DEF Newer, Prunable
    <3>3. Spared(s)
      BY <3>1, <3>2 DEF CopiesInv
    <3> QED
      BY <2>1, <3>2, <3>3, SparedDown
  <2> QED
    BY <2>1, <2>2, <2>3, <2>4 DEF Victims
<1> QED
  BY <1>1

LEMMA PruningKeepsCopies ==
    ASSUME RunsInv, RunsInv', CopiesInv, PlanPrune \/ PruneRefused \/ PruneEnds
    PROVE  CopiesInv'
<1>1. /\ runs' = runs /\ now' = now /\ files' = files
  BY DEF PlanPrune, PruneRefused, PruneEnds
<1>2. \A v \in worker'.victims : v \in Victims \/ v \in worker.victims
  <2>1. CASE PlanPrune
    BY <2>1, AtWork DEF PlanPrune, WorkerStates
  <2>2. CASE PruneRefused
    <3>1. PICK W : W = worker.victims \ {Min(worker.victims)}
      OBVIOUS
    <3>2. worker'.victims = W
      BY <2>2, <3>1, AtWork DEF PruneRefused, WorkerStates
    <3> QED
      BY <3>1, <3>2
  <2>3. CASE PruneEnds
    BY <2>3, AtWork DEF PruneEnds, WorkerStates
  <2> QED
    BY <2>1, <2>2, <2>3
<1>3. \A v \in worker'.victims : v \in Ids /\ Spared(v)
  BY <1>2, PlanIsSpared, VictimsAre
<1> QED
  BY <1>1, <1>3, FilesMove

LEMMA PruneFileKeepsCopies ==
    ASSUME RunsInv, RunsInv', CopiesInv, PruneFile
    PROVE  CopiesInv'
<1>1. PICK m : m = Min(worker.victims)
  OBVIOUS
<1>2. /\ m \in worker.victims /\ m \in Ids
      /\ \A s \in RunIds : files'[s].final = IF s = m THEN "none" ELSE files[s].final
      /\ worker'.victims = worker.victims
  BY <1>1, PruneFileIs
<1>3. /\ runs' = runs /\ now' = now /\ now <= now' /\ Ids' = Ids /\ Ids \subseteq RunIds
      /\ \A r \in Ids : runs'[r].createdAt = runs[r].createdAt
  BY Dated, Tables DEF PruneFile, Ids
<1>4. Spared(m)
  BY <1>2, VictimsAre
<1>5. Standing \ {m} \subseteq Standing'
  BY <1>2, <1>3 DEF Standing
<1>6. \A r \in Ids : Spared(r) => Spared(r)'
  BY <1>2, <1>3, <1>4, <1>5, SparedThinned
<1>7. \A r \in Prunable' : r \in Standing' \/ Spared(r)
  <2>1. Prunable' = Prunable
    BY <1>3 DEF Prunable
  <2> QED
    BY <1>4, <1>5, <2>1 DEF CopiesInv
<1>8. \A v \in worker'.victims : v \in Ids /\ Spared(v)
  BY <1>2, VictimsAre
<1> QED
  BY <1>3, <1>6, <1>7, <1>8, CopiesFollow

LEMMA MarkKeepsCopies ==
    ASSUME RunsInv, RunsInv', CopiesInv, MarkPruned
    PROVE  CopiesInv'
<1>1. PICK m : m = Min(worker.victims)
  OBVIOUS
<1>2. m \in Ids /\ m \in worker.victims
  BY <1>1, AtWork, Tables, LeastNatural DEF MarkPruned, At, RunIds
<1>3. PICK W : W = worker.victims \ {m}
  OBVIOUS
<1>4. worker'.victims = W /\ files' = files /\ now' = now /\ now <= now'
  BY <1>1, <1>3, AtWork, Dated DEF MarkPruned, WorkerStates
<1>5. runs[m] \in Runs /\ runs[m].workItem = m
  BY <1>2, Tables
<1>6. PICK q : q = [runs[m] EXCEPT !.pruned = TRUE]
  OBVIOUS
<1>7. q \in Runs /\ q.workItem = m /\ q.pruned /\ q.createdAt = runs[m].createdAt
  BY <1>5, <1>6 DEF Runs
<1>8. runs' = [runs EXCEPT ![m] = q]
  BY <1>1, <1>6 DEF MarkPruned
<1>9. Ids' = Ids /\ runs'[m] = q /\ \A s \in Ids : s # m => runs'[s] = runs[s]
  BY <1>2, <1>7, <1>8, RunWritten
<1>10. \A r \in Ids : runs'[r].createdAt = runs[r].createdAt
  BY <1>7, <1>9
<1>11. Spared(m)
  BY <1>2, VictimsAre
<1>12. Standing \ {m} \subseteq Standing'
  BY <1>4, <1>9 DEF Standing
<1>13. \A r \in Ids : Spared(r) => Spared(r)'
  BY <1>2, <1>4, <1>9, <1>10, <1>11, <1>12, SparedThinned
<1>14. \A r \in Prunable' : r \in Standing' \/ Spared(r)
  <2>1. \A r \in Prunable' : r \in Prunable /\ r # m
    BY <1>7, <1>9 DEF Prunable
  <2> QED
    BY <1>12, <2>1 DEF CopiesInv
<1>15. \A v \in worker'.victims : v \in Ids /\ Spared(v)
  BY <1>3, <1>4, VictimsAre
<1> QED
  BY <1>4, <1>9, <1>10, <1>13, <1>14, <1>15, CopiesFollow

LEMMA WorkerKeepsCopies ==
    ASSUME RunsInv, RunsInv', FilesInv, CopiesInv, ProducesUnfinished, WorkerStep
    PROVE  CopiesInv'
<1>1. CASE ClaimBackup \/ CompleteWork \/ SettleFailure \/ SettlementFault
  <2>1. runs' = runs /\ now' = now /\ files' = files /\ worker'.victims = {}
    BY <1>1, RestIsWorker DEF ClaimBackup, CompleteWork, SettleFailure, SettlementFault
  <2> QED
    BY <2>1, FilesMove
<1>2. CASE ReadRun \/ StartRunFault \/ VerifyCopy \/ RecordFailureFault \/ RecordSuccessFault
  <2>1. runs' = runs /\ now' = now /\ files' = files /\ \E pc : Go(pc)
    BY <1>2 DEF ReadRun, StartRunFault, VerifyCopy, RecordFailureFault, RecordSuccessFault
  <2>2. worker'.victims = worker.victims
    BY <2>1, Turn
  <2>3. \A v \in worker'.victims : v \in Ids /\ Spared(v)
    BY <2>2, VictimsAre
  <2> QED
    BY <2>1, <2>3, FilesMove
<1>3. CASE AdoptFinal \/ RemoveFinal \/ ClearTarget \/ EndCopy \/ SyncCopy \/ Publish \/ SyncDirectory \/ ProduceFails
  BY <1>3, CopyingKeepsCopies
<1>4. CASE MarkRunning \/ RecordFailure \/ RecordSuccess
  BY <1>4, RecordKeepsCopies
<1>5. CASE PlanPrune \/ PruneRefused \/ PruneEnds
  BY <1>5, PruningKeepsCopies
<1>6. CASE PruneFile
  BY <1>6, PruneFileKeepsCopies
<1>7. CASE MarkPruned
  BY <1>7, MarkKeepsCopies
<1> QED
  BY <1>1, <1>2, <1>3, <1>4, <1>5, <1>6, <1>7 DEF WorkerStep

LEMMA CreateKeepsCopies ==
    ASSUME RunsInv, RunsInv', CopiesInv, NEW trigger \in Triggers, CreateRun(trigger)
    PROVE  CopiesInv'
<1>1. PICK n : n = Len(runs) + 1
  OBVIOUS
<1>2. /\ n \in RunIds /\ n \notin Ids /\ Ids' = Ids \cup {n} /\ \A r \in Ids : r < n
      /\ runs'[n] = NewRun(trigger) /\ \A r \in Ids : runs'[r] = runs[r]
  BY <1>1, CreateFacts, Tables
<1>3. runs'[n].status = "pending" /\ runs'[n].createdAt = now
  BY <1>2 DEF NewRun
<1>4. files' = files /\ now' = now /\ worker' = worker /\ now <= now'
  BY Dated DEF CreateRun
<1>5. Prunable' = Prunable /\ Standing \subseteq Standing'
  <2>1. \A r \in Ids' : r \in Ids \/ r = n
    BY <1>2
  <2> QED
    BY <1>2, <1>3, <1>4, <2>1 DEF Prunable, Standing
<1>6. \A r \in Ids : Spared(r) => Spared(r)'
  BY <1>2, <1>4, <1>5, SparedStays
<1>7. ASSUME NEW r \in Ids' PROVE runs'[r].createdAt <= now'
  <2>1. r \in Ids \/ r = n
    BY <1>2
  <2> QED
    BY <1>2, <1>3, <1>4, <2>1, Dated DEF CopiesInv
<1>8. ASSUME NEW r \in Ids', NEW s \in Ids', r < s PROVE runs'[r].createdAt <= runs'[s].createdAt
  <2>1. r \in Nat /\ s \in Nat /\ n \in Nat
    BY <1>2, Dated DEF RunIds
  <2>2. r \in Ids
    BY <1>2, <1>8, <2>1
  <2>3. CASE s \in Ids
    BY <1>2, <1>8, <2>2, <2>3 DEF CopiesInv
  <2>4. CASE s = n
    BY <1>2, <1>3, <2>2, <2>4 DEF CopiesInv
  <2> QED
    BY <1>2, <2>3, <2>4
<1>9. \A r \in Prunable' : r \in Standing' \/ Spared(r)'
  <2>1. Prunable \subseteq Ids
    BY DEF Prunable
  <2> QED
    BY <1>5, <1>6, <2>1 DEF CopiesInv
<1>10. \A v \in worker'.victims : Spared(v)'
  BY <1>4, <1>6, VictimsAre
<1> QED
  BY <1>7, <1>8, <1>9, <1>10 DEF CopiesInv

LEMMA RetryUpdateKeepsCopies ==
    ASSUME RunsInv, RunsInv', CopiesInv, RetryUpdate
    PROVE  CopiesInv'
<1>1. PICK r : r = request.run
  OBVIOUS
<1>2. /\ r \in Ids /\ runs[r] \in Runs /\ runs[r].workItem = r
      /\ files' = files /\ worker' = worker /\ now' = now /\ now <= now'
  BY <1>1, RequestIs, Tables, Dated DEF RetryUpdate
<1>3. PICK q : q = [runs[r] EXCEPT !.status = "pending", !.verified = FALSE]
  OBVIOUS
<1>4. /\ q \in Runs /\ q.workItem = r /\ q.status = "pending" /\ q.pruned = runs[r].pruned
      /\ q.createdAt = runs[r].createdAt /\ q.sized = runs[r].sized
  BY <1>2, <1>3 DEF Runs
<1>5. runs' = [runs EXCEPT ![r] = q]
  BY <1>1, <1>2, <1>3 DEF RetryUpdate
<1>6. Ids' = Ids /\ runs'[r] = q /\ \A s \in Ids : s # r => runs'[s] = runs[s]
  <2>1. r \in Ids /\ q \in Runs /\ q.workItem = r
    BY <1>2, <1>4
  <2> QED
    BY <2>1, <1>5, RunWritten
<1>7. Standing \subseteq Standing'
  BY <1>2, <1>4, <1>6 DEF Standing
<1>8. \A s \in Prunable' : s \in Prunable
  BY <1>4, <1>6 DEF Prunable
<1>9. \A s \in Ids : runs'[s].createdAt = runs[s].createdAt
  BY <1>4, <1>6
<1>10. \A v \in worker'.victims : v \in Ids /\ Spared(v)
  BY <1>2, VictimsAre
<1> QED
  BY <1>2, <1>6, <1>7, <1>8, <1>9, <1>10, CopiesStand

LEMMA CopiesStep ==
    ASSUME ~PowerCuts, RunsInv, RunsInv', FilesInv, CopiesInv, ProducesUnfinished, [Next]_vars
    PROVE  CopiesInv'
<1>1. ASSUME NEW trigger \in Triggers, CreateRun(trigger) PROVE CopiesInv'
  BY <1>1, CreateKeepsCopies
<1>2. CASE WorkerStep
  BY <1>2, WorkerKeepsCopies
<1>3. CASE RetryUpdate
  BY <1>3, RetryUpdateKeepsCopies
<1>4. CASE (\E r \in Ids : RetryRead(r)) \/ RetryRequeue \/ RetryUpdateFault \/ (\E w \in Workers : StartProcess(w)) \/ UNCHANGED vars
  <2>1. runs' = runs /\ now' = now /\ files' = files /\ worker' = worker
    BY <1>4 DEF RetryRead, RetryRequeue, RetryUpdateFault, StartProcess, vars
  <2>2. \A v \in worker'.victims : v \in Ids /\ Spared(v)
    BY <2>1, VictimsAre
  <2> QED
    BY <2>1, <2>2, FilesMove
<1>5. CASE Crash
  <2>1. runs' = runs /\ now' = now /\ files' = files /\ worker'.victims = {}
    BY <1>5, RestIsWorker DEF Crash
  <2> QED
    BY <2>1, FilesMove
<1>6. CASE Tick
  <2>1. /\ runs' = runs /\ now <= now' /\ files' = files /\ worker' = worker /\ Ids' = Ids
        /\ \A r \in Ids : runs'[r].createdAt = runs[r].createdAt
    BY <1>6, Dated DEF Tick, Ids
  <2>2. Standing' = Standing /\ Prunable' = Prunable
    BY <2>1 DEF Standing, Prunable
  <2>3. \A v \in worker'.victims : v \in Ids /\ Spared(v)
    BY <2>1, VictimsAre
  <2> QED
    BY <2>1, <2>2, <2>3, CopiesStand
<1> QED
  BY <1>1, <1>2, <1>3, <1>4, <1>5, <1>6 DEF Next, RequestStep

LEMMA CopiesAreEnough ==
    ASSUME RunsInv, CopiesInv
    PROVE  EnoughCopies
<1> DEFINE kept == {r \in Prunable : ~TooOld(r)}
<1>1. IsFiniteSet(kept)
  <2>1. kept \subseteq RunIds
    BY Tables DEF Prunable
  <2>2. IsFiniteSet(RunIds)
    BY FS_Interval, Values DEF RunIds
  <2> QED
    BY <2>1, <2>2, FS_Subset
<1>2. PICK k, x, y : k = Cardinality(kept) /\ x = Cardinality(Standing) /\ y = Min({Keep, k})
  OBVIOUS
<1>3. k \in Nat /\ x \in Nat /\ Keep \in Nat
  BY <1>1, <1>2, Dated, FS_CardinalityType
<1>4. y \in Nat /\ y <= Keep /\ y <= k
  BY <1>2, <1>3, LeastNatural
<1>5. CASE kept \subseteq Standing
  <2>1. k <= x
    BY <1>2, <1>5, Dated, Fewer
  <2>2. x >= y
    BY <1>3, <1>4, <2>1
  <2> QED
    BY <1>2, <2>2 DEF EnoughCopies
<1>6. CASE ~(kept \subseteq Standing)
  <2>1. PICK r \in kept : r \notin Standing
    BY <1>6
  <2>2. Cardinality({c \in Standing : c > r}) >= Keep
    BY <2>1 DEF CopiesInv, Spared
  <2>3. PICK z : z = Cardinality({c \in Standing : c > r})
    OBVIOUS
  <2>4. z \in Nat /\ z <= x
    BY <1>2, <2>3, Dated, Fewer
  <2>5. x >= y
    BY <1>3, <1>4, <2>2, <2>3, <2>4
  <2> QED
    BY <1>2, <2>5 DEF EnoughCopies
<1> QED
  BY <1>5, <1>6

THEOREM CopiesInvariance ==
    ASSUME ~PowerCuts
    PROVE  Spec => []CopiesInv
<1>1. Init => CopiesInv
  BY DEF Init, CopiesInv, Prunable, Ids, Resting
<1>2. RunsInv /\ RunsInv' /\ FilesInv /\ CopiesInv /\ ProducesUnfinished /\ [Next]_vars => CopiesInv'
  BY CopiesStep
<1> QED
  BY <1>1, <1>2, RunsInvariance, FilesInvariance, ProducingInvariance, PTL DEF Spec

(* EnoughCopies: pruneBackups, its crashes and its failing writes included,  *)
(* leaves as many complete copies as the policy keeps, as long as the file   *)
(* system loses no rename (a process crash alone loses none).                *)
THEOREM CopiesStayEnough ==
    ASSUME ~PowerCuts
    PROVE  Spec => []EnoughCopies
<1>1. RunsInv /\ CopiesInv => EnoughCopies
  BY CopiesAreEnough
<1> QED
  BY <1>1, RunsInvariance, CopiesInvariance, PTL
=============================================================================
