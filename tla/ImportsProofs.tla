----------------------------- MODULE ImportsProofs -----------------------------
(***************************************************************************)
(* For any endpoints, timestamps, commits and bounds: an item is posted    *)
(* once and marked when it is, a batch offers it as new once, and neither  *)
(* a fetch that ended nor the saved cursor has passed an item that is not  *)
(* staged.                                                                 *)
(*                                                                         *)
(* Rows are never taken away, so "staged" is for good.  What a payload     *)
(* says of the walk (all above the resume path that was known or older     *)
(* than the running maximum is staged) is therefore true of every copy of  *)
(* it: the work item, the handler, the retry of a claim that was lost.     *)
(***************************************************************************)
EXTENDS Imports, FiniteSetTheorems, SequenceTheorems, TLAPS

-----------------------------------------------------------------------------
(* The parts of the invariant *)

Ledger == PostedOnce /\ PostedIsMarked /\ CommitsAreSound
Offers == OfferedOnce /\ NewIsNew
Held   == WorkIsHeld /\ BatchesAreNumbered
Pages  == PagesAreSound /\ FetchIsComplete

HandlerOK ==
    /\ worker.pc # "idle" => PayloadIsSound(worker.p)
    /\ worker.pc \in {"recheck", "dedupe", "stage"} => PageIsNext
    /\ worker.pc \in {"meta", "enqueue", "cursor"} => Remains(worker.p, worker.next, RunningMax)
    /\ worker.pc = "enqueue" => worker.next # 0 \/ ~LastStage
    /\ worker.pc = "cursor" => worker.next = 0 /\ LastStage

(* The invariant by its parts. *)
LEMMA InvariantByPart == ImportsInv <=> TypeOK /\ Ledger /\ Offers /\ Held /\ Pages
BY DEF ImportsInv, Ledger, Offers, Held, Pages

LEMMA PagesByPart ==
    Pages <=> /\ \A s \in Stages : arrived[s] <= Len(Stamps[s])
              /\ \A b \in Batches, s \in Stages : batch[b].known[s] <= arrived[s]
              /\ \A s \in Stages : Covers(s, conn.cursor[s])
              /\ \A w \in work : PayloadIsSound(w.p)
              /\ HandlerOK
              /\ FetchIsComplete
BY DEF Pages, PagesAreSound, HandlerOK

-----------------------------------------------------------------------------
(* Values *)

(* The endpoints and what they list. *)
LEMMA Values ==
    /\ Len(Stamps) \in Nat /\ Len(Stamps) >= 1 /\ Stages \subseteq Nat \ {0}
    /\ 1 \in Stages
    /\ \A s \in Stages : Len(Stamps[s]) \in Nat
    /\ \A s \in Stages : \A k \in 1..Len(Stamps[s]) :
          /\ Stamps[s][k] \in Nat
          /\ \A j \in 1..k : Stamps[s][j] <= Stamps[s][k]
    /\ Batches \subseteq Nat \ {0} /\ RowIds \subseteq Nat \ {0}
    /\ MaxBatches \in Nat /\ MaxRows \in Nat /\ MaxFaults \in Nat /\ MaxEdits \in Nat
    /\ MaxAttempts \in Nat \ {0}
<1>1. Stamps \in Seq(Seq(Nat \ {0})) /\ Stamps # << >>
  BY ImportsAssumption DEF ImportsAssumption
<1>2. Len(Stamps) \in Nat /\ Len(Stamps) >= 1
  BY <1>1, EmptySeq, LenProperties
<1>3. ASSUME NEW s \in Stages PROVE Stamps[s] \in Seq(Nat \ {0})
  BY <1>1, <1>2, ElementOfSeq DEF Stages
<1>4. ASSUME NEW s \in Stages PROVE Len(Stamps[s]) \in Nat
  BY <1>3, LenProperties
<1>5. ASSUME NEW s \in Stages, NEW k \in 1..Len(Stamps[s]) PROVE Stamps[s][k] \in Nat \ {0}
  BY <1>3, <1>4, ElementOfSeq
<1> QED
  BY <1>2, <1>4, <1>5, ImportsAssumption DEF ImportsAssumption, Stages, Batches, RowIds

(* An item is a place in the list of an endpoint; "no item" is none. *)
LEMMA ItemFacts ==
    /\ \A s \in Stages : \A k \in 1..Len(Stamps[s]) : <<s, k>> \in Items
    /\ \A i \in Items : \E s \in Stages : \E k \in 1..Len(Stamps[s]) : i = <<s, k>>
    /\ NoItem \notin Items
<1>1. \A i \in Items : \E s \in Stages : \E k \in 1..Len(Stamps[s]) : i = <<s, k>>
  BY DEF Items
<1>2. \A s \in Stages : \A k \in 1..Len(Stamps[s]) : <<s, k>> \in Items
  BY DEF Items
<1>3. NoItem \notin Items
  BY <1>1, Values DEF NoItem
<1> QED
  BY <1>1, <1>2, <1>3

(* The records the model begins with. *)
LEMMA Records ==
    /\ NoRow \in StagedRows
    /\ Idle \in Handlers
    /\ NoCommit \in Commits
    /\ NoPayload.cursor \in [Stages -> Nat]
<1>1. NoRow \in StagedRows
  BY DEF NoRow, StagedRows, Dedupes, Outcomes
<1>2. Idle \in Handlers
  BY DEF Idle, Handlers, Dedupes
<1>3. [r \in {} |-> NoRow] \in Snapshots
  <2>1. [r \in {} |-> NoRow] \in [{} -> StagedRows] /\ {} \in SUBSET RowIds
    OBVIOUS
  <2> QED
    BY <2>1 DEF Snapshots
<1>4. NoCommit \in Commits
  BY <1>3 DEF NoCommit, Commits
<1> QED
  BY <1>1, <1>2, <1>4 DEF NoPayload

LEMMA LargerFacts ==
    ASSUME NEW a \in Nat, NEW b \in Nat
    PROVE  Larger(a, b) \in Nat /\ Larger(a, b) >= a /\ Larger(a, b) >= b
           /\ Larger(a, b) \in {a, b}
BY DEF Larger

-----------------------------------------------------------------------------
(* What a step leaves alone *)

(* Rows are added and keep their item and batch; batches that exist go on    *)
(* to exist and keep what the provider showed when they began.               *)
Onward ==
    /\ \A r \in 1..rows : /\ r \in 1..rows'
                          /\ row'[r].item = row[r].item
                          /\ row'[r].batch = row[r].batch
    /\ \A b \in Batches : batch[b].status # "none" =>
          batch'[b].status # "none" /\ batch'[b].known = batch[b].known

LEMMA StagedStays ==
    ASSUME Onward, NEW i, Staged(i)
    PROVE  Staged(i)'
BY DEF Onward, Staged

LEMMA CoversStays ==
    ASSUME Onward, NEW s, NEW cursor, Covers(s, cursor)
    PROVE  Covers(s, cursor)'
BY StagedStays DEF Covers

LEMMA KnownStays ==
    ASSUME Onward, NEW b, NEW s, NEW above, batch'[b].known = batch[b].known,
           KnownStaged(b, s, above)
    PROVE  KnownStaged(b, s, above)'
BY StagedStays DEF KnownStaged

LEMMA WalkStays ==
    ASSUME Onward, NEW p \in Payloads, batch[p.batch].status # "none",
           NEW next, NEW max, WalkedTo(p, next, max)
    PROVE  WalkedTo(p, next, max)'
<1>1. p.batch \in Batches
  BY DEF Payloads
<1>2. batch'[p.batch].known = batch[p.batch].known
  BY <1>1 DEF Onward
<1> QED
  BY <1>2, KnownStays, StagedStays DEF WalkedTo

(* What a payload says of the walk stays true. *)
LEMMA RemainsStays ==
    ASSUME Onward, NEW p \in Payloads, batch[p.batch].status # "none", NEW next, NEW max,
           Remains(p, next, max)
    PROVE  Remains(p, next, max)'
BY WalkStays DEF Remains

LEMMA PayloadStays ==
    ASSUME Onward, NEW p \in Payloads, batch[p.batch].status # "none", PayloadIsSound(p)
    PROVE  PayloadIsSound(p)'
<1>1. p.batch \in Batches
  BY DEF Payloads
<1>2. batch'[p.batch].known = batch[p.batch].known
  BY <1>1 DEF Onward
<1>3. \A s \in Stages : Covers(s, p.cursor[s])'
  BY CoversStays DEF PayloadIsSound
<1>4. \A s \in 1..(p.stage - 1) : KnownStaged(p.batch, s, 0)'
  BY <1>2, KnownStays DEF PayloadIsSound
<1>5. p.resume # 0 => Remains(p, p.resume, p.max)'
  BY RemainsStays DEF PayloadIsSound
<1> QED
  BY <1>3, <1>4, <1>5 DEF PayloadIsSound

(* A payload that begins at the top has taken nothing beyond its cursor; any  *)
(* other begins at an item, and says what is walked above it.                *)
LEMMA WhereItBegins ==
    ASSUME NEW p \in Payloads, PayloadIsSound(p), NEW s, s = p.stage
    PROVE  /\ FirstPage(p) => p.max <= p.cursor[s]
           /\ ~FirstPage(p) => /\ p.resume \in 1..Len(Stamps[s])
                               /\ WalkedTo(p, p.resume, p.max)
<1>1. s \in Stages /\ p.resume \in Nat /\ p.max \in Nat /\ p.cursor[s] \in Nat
  BY DEF Payloads
<1>2. Len(Stamps[s]) \in Nat
  BY <1>1, Values
<1>3. /\ p.resume = 0 => p.max = 0
      /\ p.resume # 0 => /\ p.resume <= Len(Stamps[s]) + 1
                         /\ WalkedTo(p, p.resume, p.max)
                         /\ p.resume = Len(Stamps[s]) + 1 => p.max <= p.cursor[s]
  BY DEF PayloadIsSound, Remains, TopPage
<1>4. FirstPage(p) <=> p.resume = 0 \/ p.resume = Len(Stamps[s]) + 1
  BY DEF FirstPage, TopPage
<1> QED
  BY <1>1, <1>2, <1>3, <1>4

LEMMA HandlerStays ==
    ASSUME TypeOK, Held, HandlerOK, Onward, worker' = worker
    PROVE  HandlerOK'
<1>1. PICK p, m : p = worker.p /\ m = RunningMax
  OBVIOUS
<1>2. RunningMax' = m /\ worker'.p = p /\ LastStage' = LastStage
  BY <1>1 DEF RunningMax, ChunkCursor, LastStage
<1>3. CASE worker.pc = "idle"
  BY <1>3 DEF HandlerOK
<1>4. CASE worker.pc # "idle"
  <2>1. p \in Payloads /\ batch[p.batch].status # "none"
    BY <1>1, <1>4 DEF Held, WorkIsHeld
  <2>2. PayloadIsSound(p)'
    BY <1>1, <1>4, <2>1, PayloadStays DEF HandlerOK
  <2>3. PageIsNext => PageIsNext'
    <3>1. p.batch \in Batches /\ batch'[p.batch].known = batch[p.batch].known
      BY <2>1 DEF Onward, Payloads
    <3>2. PICK next : next = worker.next
      OBVIOUS
    <3>3. Remains(p, next, m) => Remains(p, next, m)'
      BY <2>1, RemainsStays
    <3> QED
      BY <1>1, <1>2, <3>1, <3>2, <3>3 DEF PageIsNext
  <2>4. Remains(p, worker.next, m) => Remains(p, worker.next, m)'
    <3>1. PICK next : next = worker.next
      OBVIOUS
    <3> QED
      BY <2>1, <3>1, RemainsStays
  <2> QED
    BY <1>1, <1>2, <2>2, <2>3, <2>4 DEF HandlerOK
<1> QED
  BY <1>3, <1>4

(* A handler between pages claims no more than its payload. *)
LEMMA HandlerRests ==
    ASSUME TypeOK, Held, HandlerOK, Onward,
           \/ worker'.pc = "idle"
           \/ /\ worker.pc # "idle" /\ worker'.p = worker.p
              /\ worker'.pc \in {"fetch", "complete", "mark_status", "mark_meta"}
    PROVE  HandlerOK'
<1>1. PICK p : p = worker.p
  OBVIOUS
<1>2. CASE worker'.pc = "idle"
  BY <1>2 DEF HandlerOK
<1>3. CASE /\ worker.pc # "idle" /\ worker'.p = worker.p
           /\ worker'.pc \in {"fetch", "complete", "mark_status", "mark_meta"}
  <2>1. PayloadIsSound(p)'
    BY <1>1, <1>3, PayloadStays DEF HandlerOK, Held, WorkIsHeld
  <2> QED
    BY <1>1, <1>3, <2>1 DEF HandlerOK
<1> QED
  BY <1>2, <1>3

(* The pages after a step: nothing the provider showed is lost on the way.   *)
LEMMA PagesMove ==
    ASSUME TypeOK, TypeOK', Held, Pages, Onward,
           \A s \in Stages : arrived[s] <= arrived'[s] /\ arrived'[s] <= Len(Stamps[s]),
           \A b \in Batches : batch'[b].known \in {batch[b].known, arrived},
           \A b \in Batches : batch'[b].fetch = "ready" =>
              \/ batch[b].fetch = "ready" /\ batch'[b].known = batch[b].known
              \/ \A s \in Stages : KnownStaged(b, s, 0)',
           \A s \in Stages : conn'.cursor[s] = conn.cursor[s] \/ Covers(s, conn.cursor[s])',
           \A w \in work' : (\E v \in work : v.p = w.p) \/ PayloadIsSound(w.p)',
           HandlerOK'
    PROVE  Pages'
<1>1. \A b \in Batches, s \in Stages : batch'[b].known[s] <= arrived'[s]
  <2>1. SUFFICES ASSUME NEW b \in Batches, NEW s \in Stages PROVE batch'[b].known[s] <= arrived'[s]
    OBVIOUS
  <2>2. /\ arrived[s] \in Nat /\ arrived'[s] \in Nat /\ batch[b].known[s] \in Nat
        /\ batch[b].known[s] <= arrived[s]
    BY PagesByPart DEF TypeOK, ImportBatches
  <2> QED
    BY <2>2
<1>2. \A s \in Stages : Covers(s, conn.cursor[s])'
  <2>1. SUFFICES ASSUME NEW s \in Stages, conn'.cursor[s] = conn.cursor[s] PROVE Covers(s, conn.cursor[s])'
    OBVIOUS
  <2>2. PICK c : c = conn.cursor[s]
    OBVIOUS
  <2>3. Covers(s, c)'
    BY <2>2, PagesByPart, CoversStays
  <2> QED
    BY <2>1, <2>2, <2>3 DEF Covers
<1>3. \A w \in work' : PayloadIsSound(w.p)'
  <2>1. SUFFICES ASSUME NEW v \in work PROVE PayloadIsSound(v.p)'
    OBVIOUS
  <2>2. PICK p : p = v.p
    OBVIOUS
  <2>3. p \in Payloads /\ batch[p.batch].status # "none" /\ PayloadIsSound(p)
    BY <2>2, PagesByPart DEF TypeOK, WorkItems, Held, WorkIsHeld
  <2>4. PayloadIsSound(p)'
    BY <2>3, PayloadStays
  <2> QED
    BY <2>2, <2>4
<1>4. FetchIsComplete'
  <2>1. SUFFICES ASSUME NEW b \in Batches, batch'[b].fetch = "ready", NEW s \in Stages,
                        NEW k \in 1..batch'[b].known[s]
                 PROVE  Staged(<<s, k>>)'
    BY DEF FetchIsComplete
  <2>2. CASE batch[b].fetch = "ready" /\ batch'[b].known = batch[b].known
    <3>1. Staged(<<s, k>>)
      BY <2>2, PagesByPart DEF FetchIsComplete
    <3> QED
      BY <3>1, StagedStays
  <2>3. CASE KnownStaged(b, s, 0)'
    <3>1. k > 0
      BY <2>1, PagesByPart DEF TypeOK, ImportBatches
    <3> QED
      BY <2>3, <3>1 DEF KnownStaged
  <2> QED
    BY <2>1, <2>2, <2>3
<1> QED
  BY <1>1, <1>2, <1>3, <1>4 DEF Pages, PagesAreSound, HandlerOK

LEMMA LedgerStays ==
    ASSUME Ledger, UNCHANGED <<row, rows, commit, posted>>,
           \A b \in Batches : batch[b].status # "none" => batch'[b].status # "none"
    PROVE  Ledger'
BY DEF Ledger, PostedOnce, PostedIsMarked, CommitsAreSound, Identities

LEMMA OffersStay ==
    ASSUME Offers, UNCHANGED <<row, rows>>, worker' = worker \/ worker'.pc # "stage"
    PROVE  Offers'
BY DEF Offers, OfferedOnce, NewIsNew, SeenInBatch, RowsOf

LEMMA HeldStays ==
    ASSUME TypeOK, Held, UNCHANGED <<work, worker>>, faults' \in Nat, faults' >= faults,
           \A b \in Batches : batch'[b].status = "none" <=> batch[b].status = "none"
    PROVE  Held'
<1>1. {b \in Batches : batch'[b].status # "none"} = {b \in Batches : batch[b].status # "none"}
  OBVIOUS
<1>2. BatchesAreNumbered'
  BY <1>1 DEF Held, BatchesAreNumbered
<1>3. ASSUME NEW w \in work
      PROVE  /\ w.attempts + (IF w.claimed THEN 0 ELSE 1) <= MaxAttempts + faults'
             /\ batch'[w.p.batch].status # "none"
  <2>1. w.attempts \in Nat /\ MaxAttempts \in Nat /\ faults \in Nat /\ w.p.batch \in Batches
        /\ w.attempts + (IF w.claimed THEN 0 ELSE 1) <= MaxAttempts + faults
        /\ batch[w.p.batch].status # "none"
    BY Values DEF TypeOK, WorkItems, Payloads, Held, WorkIsHeld
  <2> QED
    BY <2>1
<1>4. worker.pc # "idle" => batch'[worker.p.batch].status # "none"
  BY DEF Held, WorkIsHeld, Payloads
<1> QED
  BY <1>2, <1>3, <1>4 DEF Held, WorkIsHeld

-----------------------------------------------------------------------------
(* The initial state *)

LEMMA InitSound == Init => ImportsInv
<1> SUFFICES ASSUME Init PROVE ImportsInv
  OBVIOUS
<1>1. TypeOK
  <2>1. /\ Cardinality({w \in work : w.claimed}) = 0
        /\ \A b \in Batches : batch[b] \in ImportBatches
    BY FS_EmptySet DEF Init, ImportBatches, BatchStatus
  <2> QED
    BY <2>1, Records, Values DEF Init, TypeOK, ImportBatches, BatchStatus
<1>2. Ledger
  BY DEF Init, Ledger, PostedOnce, PostedIsMarked, CommitsAreSound, NoCommit
<1>3. Offers
  BY DEF Init, Offers, OfferedOnce, NewIsNew, Idle
<1>4. Held
  <2>1. {b \in Batches : batch[b].status # "none"} = 1..0 /\ 0 \in 0..MaxBatches
    BY Values DEF Init
  <2> QED
    BY <2>1 DEF Init, Held, WorkIsHeld, BatchesAreNumbered, Idle
<1>5. Pages
  <2>1. \A s \in Stages : Covers(s, 0)
    BY Values DEF Covers
  <2>2. HandlerOK
    BY DEF HandlerOK, Init, Idle
  <2> QED
    BY <2>1, <2>2, Values, PagesByPart DEF Init, FetchIsComplete
<1> QED
  BY <1>1, <1>2, <1>3, <1>4, <1>5, InvariantByPart

-----------------------------------------------------------------------------
(* The provider and the owner's requests *)

LEMMA ArriveKeeps ==
    ASSUME ImportsInv, NEW s \in Stages, Arrive(s)
    PROVE  ImportsInv'
<1>0. TypeOK /\ Ledger /\ Offers /\ Held /\ Pages
  BY InvariantByPart
<1>1. /\ arrived' = [arrived EXCEPT ![s] = @ + 1] /\ arrived[s] < Len(Stamps[s])
      /\ UNCHANGED <<conn, batch, row, rows, work, worker, commit, posted, edits, faults>>
  BY DEF Arrive
<1>2. arrived \in [Stages -> Nat] /\ \A t \in Stages : arrived[t] <= Len(Stamps[t])
  BY <1>0, PagesByPart DEF TypeOK
<1>3. TypeOK'
  BY <1>0, <1>1, <1>2 DEF TypeOK
<1>4. Onward
  BY <1>1 DEF Onward
<1>5. \A t \in Stages : arrived[t] <= arrived'[t] /\ arrived'[t] <= Len(Stamps[t])
  BY <1>1, <1>2, Values
<1>6. HandlerOK'
  BY <1>0, <1>1, <1>4, HandlerStays, PagesByPart
<1>7. Pages'
  BY <1>0, <1>1, <1>3, <1>4, <1>5, <1>6, PagesMove
<1>8. Held'
  BY <1>0, <1>1, HeldStays DEF TypeOK
<1>9. Ledger' /\ Offers'
  BY <1>0, <1>1, LedgerStays, OffersStay
<1> QED
  BY <1>3, <1>7, <1>8, <1>9, InvariantByPart DEF ImportsInv, Ledger, Offers, Held, Pages

(* The statuses of batches and the outcomes of rows are not what pages,      *)
(* offers and handlers are about.                                            *)
LEMMA ReviewMoves ==
    ASSUME ImportsInv, TypeOK', Ledger',
           UNCHANGED <<arrived, rows, work, worker, faults>>,
           conn'.cursor = conn.cursor,
           \A r \in 1..rows : /\ row'[r].item = row[r].item /\ row'[r].batch = row[r].batch
                              /\ row'[r].staged = row[r].staged,
           \A b \in Batches : /\ batch'[b].known = batch[b].known /\ batch'[b].fetch = batch[b].fetch
                              /\ batch'[b].status = "none" <=> batch[b].status = "none"
    PROVE  ImportsInv'
<1>0. TypeOK /\ Ledger /\ Offers /\ Held /\ Pages
  BY InvariantByPart
<1>1. Onward
  BY DEF Onward
<1>2. HandlerOK'
  BY <1>0, <1>1, HandlerStays, PagesByPart
<1>3. \A s \in Stages : arrived[s] <= arrived'[s] /\ arrived'[s] <= Len(Stamps[s])
  BY <1>0, PagesByPart DEF TypeOK
<1>4. Pages'
  BY <1>0, <1>1, <1>2, <1>3, PagesMove
<1>5. Held'
  BY <1>0, HeldStays DEF TypeOK
<1>6. Offers'
  BY <1>0 DEF Offers, OfferedOnce, NewIsNew, SeenInBatch, RowsOf
<1> QED
  BY <1>4, <1>5, <1>6 DEF ImportsInv, Ledger, Offers, Held, Pages

LEMMA EditsCount ==
    ASSUME TypeOK, edits < MaxEdits, edits' = edits + 1
    PROVE  edits' \in 0..MaxEdits
BY Values DEF TypeOK

LEMMA DeleteKeeps ==
    ASSUME ImportsInv, DeleteImportConnection
    PROVE  ImportsInv'
<1>0. TypeOK /\ Ledger
  BY InvariantByPart
<1>1. /\ conn' = [conn EXCEPT !.live = FALSE] /\ edits < MaxEdits /\ edits' = edits + 1
      /\ UNCHANGED <<arrived, batch, row, rows, work, worker, commit, posted, faults>>
  BY DEF DeleteImportConnection, Edit
<1>2. edits' \in 0..MaxEdits /\ conn'.cursor = conn.cursor
      /\ conn' \in [cursor: [Stages -> Nat], live: BOOLEAN]
  BY <1>0, <1>1, EditsCount DEF TypeOK
<1>2a. TypeOK'
  BY <1>0, <1>1, <1>2 DEF TypeOK
<1>3. Ledger'
  BY <1>0, <1>1, LedgerStays
<1> QED
  BY <1>1, <1>2, <1>2a, <1>3, ReviewMoves

LEMMA DiscardKeeps ==
    ASSUME ImportsInv, NEW b \in Batches, DiscardImportBatch(b)
    PROVE  ImportsInv'
<1>0. TypeOK /\ Ledger
  BY InvariantByPart
<1>1. /\ batch' = [batch EXCEPT ![b].status = "discarded"] /\ batch[b].status = "previewing"
      /\ edits < MaxEdits /\ edits' = edits + 1
      /\ UNCHANGED <<arrived, conn, row, rows, work, worker, commit, posted, faults>>
  BY DEF DiscardImportBatch, Edit
<1>2. batch' \in [Batches -> ImportBatches]
  BY <1>0, <1>1 DEF TypeOK, ImportBatches, BatchStatus
<1>2a. edits' \in 0..MaxEdits
  BY <1>0, <1>1, EditsCount
<1>3. TypeOK'
  BY <1>0, <1>1, <1>2, <1>2a DEF TypeOK
<1>4. \A c \in Batches : /\ batch'[c].known = batch[c].known /\ batch'[c].fetch = batch[c].fetch
                         /\ batch'[c].status = "none" <=> batch[c].status = "none"
  BY <1>0, <1>1 DEF TypeOK, ImportBatches
<1>5. Ledger'
  BY <1>0, <1>1, <1>4, LedgerStays
<1> QED
  BY <1>1, <1>3, <1>4, <1>5, ReviewMoves

(* A row's outcome changes: it is still a row of its item and batch.         *)
LEMMA RowOutcome ==
    ASSUME TypeOK, NEW r \in 1..rows, NEW new \in StagedRows, new.item = row[r].item,
           new.batch = row[r].batch, new.staged = row[r].staged,
           row' = [row EXCEPT ![r] = new], rows' = rows
    PROVE  /\ row' \in [RowIds -> StagedRows]
           /\ \A q \in 1..rows' : row'[q].batch \in Batches /\ row'[q].item \in Items
           /\ \A q \in 1..rows : /\ row'[q].item = row[q].item /\ row'[q].batch = row[q].batch
                                 /\ row'[q].staged = row[q].staged
           /\ \A q \in 1..rows : q # r => row'[q] = row[q]
           /\ row'[r].status = new.status
<1>1. 1..rows \subseteq RowIds
  BY Values DEF TypeOK, RowIds
<1>2. row \in [RowIds -> StagedRows] /\ \A q \in 1..rows : row[q].batch \in Batches /\ row[q].item \in Items
  BY DEF TypeOK
<1> QED
  BY <1>1, <1>2

LEMMA PatchKeeps ==
    ASSUME ImportsInv, NEW r \in RowIds, NEW d \in {"new", "excluded"}, PatchImportStagedRow(r, d)
    PROVE  ImportsInv'
<1>0. TypeOK /\ Ledger
  BY InvariantByPart
<1>1. /\ r \in 1..rows /\ row[r].status \in {"pending", "failed"}
      /\ row' = [row EXCEPT ![r] = [row[r] EXCEPT !.dedupe = d, !.status = "pending"]]
      /\ edits < MaxEdits /\ edits' = edits + 1
      /\ UNCHANGED <<arrived, conn, batch, rows, work, worker, commit, posted, faults>>
  BY DEF PatchImportStagedRow, Edit
<1>2. PICK new : new = [row[r] EXCEPT !.dedupe = d, !.status = "pending"]
  OBVIOUS
<1>2a. /\ new \in StagedRows /\ new.item = row[r].item /\ new.batch = row[r].batch
       /\ new.staged = row[r].staged /\ new.status = "pending"
  BY <1>0, <1>2 DEF TypeOK, StagedRows, Dedupes, Outcomes
<1>3. /\ row' \in [RowIds -> StagedRows]
      /\ \A q \in 1..rows' : row'[q].batch \in Batches /\ row'[q].item \in Items
      /\ \A q \in 1..rows : /\ row'[q].item = row[q].item /\ row'[q].batch = row[q].batch
                            /\ row'[q].staged = row[q].staged
      /\ \A q \in 1..rows : q # r => row'[q] = row[q]
      /\ row'[r].status = "pending"
  <2>1. row' = [row EXCEPT ![r] = new]
    BY <1>1, <1>2
  <2> QED
    BY <1>0, <1>1, <1>2a, <2>1, RowOutcome
<1>3a. edits' \in 0..MaxEdits
  BY <1>0, <1>1, EditsCount
<1>4. TypeOK'
  BY <1>0, <1>1, <1>3, <1>3a DEF TypeOK
<1>5. Ledger'
  <2>1. PostedIsMarked'
    <3>1. \A q \in 1..rows : row'[q].status = "committed" <=> row[q].status = "committed"
      BY <1>1, <1>3
    <3> QED
      BY <1>0, <1>1, <1>3, <3>1 DEF Ledger, PostedIsMarked
  <2>2. CommitsAreSound'
    BY <1>0, <1>1, <1>3 DEF Ledger, CommitsAreSound, Identities
  <2> QED
    BY <1>0, <1>1, <2>1, <2>2 DEF Ledger, PostedOnce
<1> QED
  BY <1>1, <1>3, <1>4, <1>5, ReviewMoves

(* A payload is put in hand once, with its attempts before it. *)
LEMMA Enqueues ==
    ASSUME TypeOK, Held, NEW p \in Payloads, work' = Enqueued(work, p)
    PROVE  /\ work' \subseteq WorkItems
           /\ \A w \in work' : w.attempts <= MaxAttempts + MaxFaults
           /\ Cardinality({w \in work' : w.claimed}) <= 1
           /\ \A v, w \in work' : v.p = w.p => v = w
           /\ \A w \in work' : \/ w \in work
                               \/ w.p = p /\ w.attempts = 0 /\ ~w.claimed
<1>1. PICK new : new = [p |-> p, attempts |-> 0, claimed |-> FALSE]
  OBVIOUS
<1>2. new \in WorkItems /\ new.p = p /\ new.attempts = 0 /\ ~new.claimed
  BY <1>1 DEF WorkItems
<1>3. work' = work \/ (work' = work \cup {new} /\ \A w \in work : w.p # p)
  BY <1>1 DEF Enqueued
<1>4. {w \in work' : w.claimed} = {w \in work : w.claimed}
  BY <1>2, <1>3
<1>5. 0 <= MaxAttempts + MaxFaults
  BY Values
<1>6. /\ work \subseteq WorkItems /\ \A w \in work : w.attempts <= MaxAttempts + MaxFaults
      /\ \A v, w \in work : v.p = w.p => v = w
      /\ Cardinality({w \in work : w.claimed}) <= 1
  BY DEF TypeOK, Held, WorkIsHeld
<1> QED
  BY <1>2, <1>3, <1>4, <1>5, <1>6

(* The next batch takes the next number. *)
LEMMA NextNumber ==
    ASSUME TypeOK, BatchesAreNumbered,
           NEW b, b = 1 + Cardinality({c \in Batches : batch[c].status # "none"}), b \in Batches
    PROVE  /\ batch[b].status = "none"
           /\ b \in 1..MaxBatches
           /\ {c \in Batches : batch[c].status # "none"} \cup {b} = 1..b
<1>1. PICK n \in 0..MaxBatches : {c \in Batches : batch[c].status # "none"} = 1..n
  BY DEF BatchesAreNumbered
<1>2. n \in Nat
  BY <1>1, Values
<1>3. Cardinality(1..n) = n
  BY <1>2, FS_Interval
<1>4. b = 1 + Cardinality(1..n)
  BY <1>1
<1>4a. b = n + 1
  BY <1>2, <1>3, <1>4
<1>5. b \notin 1..n /\ 1..n \cup {b} = 1..b
  <2>1. 1..(n + 1) = 1..n \cup {n + 1} /\ n + 1 \notin 1..n
    BY <1>2
  <2> QED
    BY <1>4a, <2>1
<1> QED
  BY <1>1, <1>5 DEF Batches

LEMMA StartKeeps ==
    ASSUME ImportsInv, NEW incremental \in BOOLEAN, StartOnlineImportBatch(incremental)
    PROVE  ImportsInv'
<1>0. TypeOK /\ Ledger /\ Offers /\ Held /\ Pages
  BY InvariantByPart
<1>1. PICK b : b = 1 + Cardinality({c \in Batches : batch[c].status # "none"})
  OBVIOUS
<1>2. PICK new : new = [status |-> "previewing", fetch |-> "fetching", known |-> arrived]
  OBVIOUS
<1>3. PICK p : p = [NoPayload EXCEPT !.batch = b, !.stage = 1,
                                     !.cursor = IF incremental THEN conn.cursor ELSE @]
  OBVIOUS
<1>4. /\ b \in Batches
      /\ batch' = [batch EXCEPT ![b] = new] /\ work' = Enqueued(work, p)
      /\ UNCHANGED <<arrived, conn, row, rows, worker, commit, posted, edits, faults>>
  BY <1>1, <1>2, <1>3 DEF StartOnlineImportBatch
<1>5. /\ batch[b].status = "none" /\ b \in 1..MaxBatches
      /\ {c \in Batches : batch[c].status # "none"} \cup {b} = 1..b
  BY <1>0, <1>1, <1>4, NextNumber DEF Held
<1>6. new \in ImportBatches /\ new.status = "previewing" /\ new.fetch = "fetching" /\ new.known = arrived
  BY <1>0, <1>2 DEF TypeOK, ImportBatches, BatchStatus
<1>7. /\ p \in Payloads /\ p.batch = b /\ p.stage = 1 /\ p.resume = 0 /\ p.max = 0
      /\ p.cursor = conn.cursor \/ p.cursor = [s \in Stages |-> 0]
  <2>1. conn.cursor \in [Stages -> Nat] /\ 1 \in Stages
    BY <1>0, Values DEF TypeOK
  <2> QED
    BY <1>3, <1>4, <2>1 DEF NoPayload, Payloads
<1>8. /\ batch' \in [Batches -> ImportBatches] /\ batch'[b] = new
      /\ \A c \in Batches : c # b => batch'[c] = batch[c]
  BY <1>0, <1>4, <1>6 DEF TypeOK
<1>9. Onward
  BY <1>4, <1>5, <1>8 DEF Onward
<1>10. /\ work' \subseteq WorkItems
       /\ \A w \in work' : w.attempts <= MaxAttempts + MaxFaults
       /\ Cardinality({w \in work' : w.claimed}) <= 1
       /\ \A v, w \in work' : v.p = w.p => v = w
       /\ \A w \in work' : \/ w \in work
                           \/ w.p = p /\ w.attempts = 0 /\ ~w.claimed
  BY <1>0, <1>4, <1>7, Enqueues
<1>11. TypeOK'
  BY <1>0, <1>4, <1>8, <1>10 DEF TypeOK
<1>12. Held'
  <2>1. BatchesAreNumbered'
    <3>1. {c \in Batches : batch'[c].status # "none"} = 1..b
      BY <1>4, <1>5, <1>6, <1>8
    <3>2. b \in 0..MaxBatches
      BY <1>5, Values
    <3> QED
      BY <3>1, <3>2 DEF BatchesAreNumbered
  <2>2. ASSUME NEW w \in work'
        PROVE  /\ w.attempts + (IF w.claimed THEN 0 ELSE 1) <= MaxAttempts + faults'
               /\ w.claimed => /\ worker'.pc \notin {"idle", "mark_status", "mark_meta"}
                               /\ w.p = worker'.p /\ w.attempts = worker'.attempts
               /\ batch'[w.p.batch].status # "none"
    <3>1. CASE w \in work
      <4>1. w.p.batch \in Batches
        BY <1>0, <3>1 DEF TypeOK, WorkItems, Payloads
      <4> QED
        BY <1>0, <1>4, <1>9, <3>1, <4>1 DEF Held, WorkIsHeld, Onward
    <3>2. CASE w.p = p /\ w.attempts = 0 /\ ~w.claimed
      <4>1. 0 + 1 <= MaxAttempts + faults
        BY <1>0, Values DEF TypeOK
      <4> QED
        BY <1>4, <1>6, <1>7, <1>8, <3>2, <4>1
    <3> QED
      BY <1>10, <3>1, <3>2
  <2>3. worker'.pc # "idle" => worker'.p \in Payloads /\ batch'[worker'.p.batch].status # "none"
    BY <1>0, <1>4, <1>9 DEF Held, WorkIsHeld, Payloads, Onward
  <2>4. worker'.pc \in {"dedupe", "stage"} => worker'.got \in Items
    BY <1>0, <1>4 DEF Held, WorkIsHeld
  <2> QED
    BY <1>10, <2>1, <2>2, <2>3, <2>4 DEF Held, WorkIsHeld
<1>13. PayloadIsSound(p)'
  <2>1. ASSUME NEW s \in Stages PROVE Covers(s, p.cursor[s])
    BY <1>0, <1>7, Values, PagesByPart DEF Covers
  <2>2. \A s \in Stages : Covers(s, p.cursor[s])'
    BY <1>9, <2>1, CoversStays
  <2>3. Len(Stamps[1]) >= 0
    BY Values
  <2> QED
    BY <1>7, <2>2, <2>3 DEF PayloadIsSound
<1>14. Pages'
  <2>1. \A s \in Stages : arrived[s] <= arrived'[s] /\ arrived'[s] <= Len(Stamps[s])
    BY <1>0, <1>4, PagesByPart DEF TypeOK
  <2>2. HandlerOK'
    BY <1>0, <1>4, <1>9, HandlerStays, PagesByPart
  <2>3. \A c \in Batches : batch'[c].known \in {batch[c].known, arrived}
    BY <1>6, <1>8
  <2>4. \A c \in Batches : batch'[c].fetch = "ready" =>
           batch[c].fetch = "ready" /\ batch'[c].known = batch[c].known
    BY <1>6, <1>8
  <2>5. \A w \in work' : (\E v \in work : v.p = w.p) \/ PayloadIsSound(w.p)'
    BY <1>10, <1>13 DEF PayloadIsSound
  <2> QED
    BY <1>0, <1>4, <1>9, <1>11, <2>1, <2>2, <2>3, <2>4, <2>5, PagesMove
<1>15. Ledger' /\ Offers'
  BY <1>0, <1>4, <1>6, <1>8, LedgerStays, OffersStay
<1> QED
  BY <1>11, <1>12, <1>14, <1>15 DEF ImportsInv, Ledger, Offers, Held, Pages

-----------------------------------------------------------------------------
(* The fetch worker *)

(* What a handler at work has in its hands. *)
LEMMA InHand ==
    ASSUME ImportsInv, worker.pc # "idle"
    PROVE  /\ TypeOK /\ Ledger /\ Offers /\ Held /\ Pages /\ HandlerOK
           /\ worker \in Handlers /\ worker.p \in Payloads
           /\ worker.p.batch \in Batches /\ worker.p.stage \in Stages
           /\ worker.p.cursor \in [Stages -> Nat] /\ worker.p.max \in Nat /\ worker.p.resume \in Nat
           /\ worker.next \in Nat /\ worker.got \in Items \cup {NoItem}
           /\ batch[worker.p.batch].status # "none"
           /\ PayloadIsSound(worker.p)
<1>1. TypeOK /\ Ledger /\ Offers /\ Held /\ Pages /\ HandlerOK
  BY InvariantByPart, PagesByPart
<1>2. worker \in Handlers /\ worker.p \in Payloads
  BY <1>1 DEF TypeOK, Held, WorkIsHeld
<1> QED
  BY <1>1, <1>2 DEF Held, WorkIsHeld, HandlerOK, Handlers, Payloads

(* A handler goes on with the item it holds. *)
LEMMA HandlerGoesOn ==
    ASSUME ImportsInv, worker.pc # "idle",
           TypeOK', Ledger', Offers', HandlerOK', Onward,
           UNCHANGED <<arrived, work, faults>>,
           worker'.pc \notin {"idle", "mark_status", "mark_meta"},
           worker.pc \notin {"mark_status", "mark_meta"},
           worker'.p = worker.p, worker'.attempts = worker.attempts,
           worker'.pc \in {"dedupe", "stage"} => worker'.got \in Items,
           \A b \in Batches :
              /\ batch'[b].status = "none" <=> batch[b].status = "none"
              /\ batch'[b].known = batch[b].known
              /\ batch'[b].fetch = "ready" =>
                    batch[b].fetch = "ready" \/ \A s \in Stages : KnownStaged(b, s, 0)',
           \A s \in Stages : conn'.cursor[s] = conn.cursor[s] \/ Covers(s, conn.cursor[s])'
    PROVE  ImportsInv'
<1>1. TypeOK /\ Held /\ Pages
  BY InHand
<1>2. Held'
  <2>1. {b \in Batches : batch'[b].status # "none"} = {b \in Batches : batch[b].status # "none"}
    OBVIOUS
  <2>2. BatchesAreNumbered'
    BY <1>1, <2>1 DEF Held, BatchesAreNumbered
  <2>3. \A w \in work : w.p.batch \in Batches
    BY <1>1 DEF TypeOK, WorkItems, Payloads
  <2>4. worker.p.batch \in Batches
    BY InHand
  <2> QED
    BY <1>1, <2>2, <2>3, <2>4 DEF Held, WorkIsHeld
<1>3. Pages'
  <2>1. \A s \in Stages : arrived[s] <= arrived'[s] /\ arrived'[s] <= Len(Stamps[s])
    BY <1>1, PagesByPart DEF TypeOK
  <2> QED
    BY <1>1, <2>1, PagesMove
<1> QED
  BY <1>2, <1>3 DEF ImportsInv, Ledger, Offers, Held, Pages

(* The steps that only move the handler. *)
LEMMA HandlerTurns ==
    ASSUME ImportsInv, worker.pc \notin {"idle", "mark_status", "mark_meta"},
           worker' \in Handlers, HandlerOK', NewIsNew',
           UNCHANGED <<arrived, conn, batch, row, rows, work, commit, posted, edits, faults>>,
           worker'.pc \notin {"idle", "mark_status", "mark_meta"},
           worker'.p = worker.p, worker'.attempts = worker.attempts,
           worker'.pc \in {"dedupe", "stage"} => worker'.got \in Items
    PROVE  ImportsInv'
<1>1. TypeOK /\ Ledger /\ Offers
  BY InHand
<1>2. TypeOK'
  BY <1>1 DEF TypeOK
<1>3. Ledger'
  BY <1>1, LedgerStays
<1>4. Offers'
  BY <1>1 DEF Offers, OfferedOnce
<1>5. Onward
  BY DEF Onward
<1> QED
  BY <1>2, <1>3, <1>4, <1>5, HandlerGoesOn

(* The page is empty or the walk has come to the cursor: all is covered.     *)
LEMMA NothingBelow ==
    ASSUME TypeOK, Pages, NEW p \in Payloads, PayloadIsSound(p), NEW s, s = p.stage,
           NEW k, k = IF FirstPage(p) THEN arrived[s] ELSE p.resume,
           ~(k > 0 /\ ~Stops(Stamps[s][k], p.cursor[s]))
    PROVE  WalkedTo(p, 0, Larger(p.max, p.cursor[s]))
<1>1. PICK c, max : c = p.cursor[s] /\ max = p.max
  OBVIOUS
<1>2. /\ s \in Stages /\ c \in Nat /\ max \in Nat /\ p.resume \in Nat /\ p.batch \in Batches
      /\ Len(Stamps[s]) \in Nat /\ arrived[s] \in Nat
      /\ batch[p.batch].known[s] \in Nat
  <2>1. s \in Stages /\ c \in Nat /\ max \in Nat /\ p.resume \in Nat /\ p.batch \in Batches
    BY <1>1 DEF Payloads
  <2>2. batch[p.batch].known \in [Stages -> Nat] /\ arrived \in [Stages -> Nat]
    BY <2>1 DEF TypeOK, ImportBatches
  <2> QED
    BY <2>1, <2>2, Values
<1>3. /\ Covers(s, c)
      /\ arrived[s] <= Len(Stamps[s]) /\ batch[p.batch].known[s] <= arrived[s]
      /\ FirstPage(p) => max <= c
      /\ ~FirstPage(p) => p.resume \in 1..Len(Stamps[s]) /\ WalkedTo(p, p.resume, max)
  BY <1>1, <1>2, PagesByPart, WhereItBegins DEF PayloadIsSound
<1>4. k \in Nat /\ k <= Len(Stamps[s])
  BY <1>2, <1>3
<1>5. ASSUME NEW j \in 1..Len(Stamps[s]), j <= k PROVE Staged(<<s, j>>)
  <2>1. k > 0 /\ Stamps[s][k] < c
    BY <1>1, <1>4, <1>5 DEF Stops
  <2>2. k \in 1..Len(Stamps[s]) /\ j \in 1..k
    BY <1>4, <1>5
  <2>3. Stamps[s][j] <= Stamps[s][k] /\ Stamps[s][j] \in Nat /\ Stamps[s][k] \in Nat
    BY <1>2, <1>5, <2>2, Values
  <2>4. Stamps[s][j] < c
    BY <1>2, <2>1, <2>3
  <2> QED
    BY <1>3, <2>4 DEF Covers
<1>6. ASSUME NEW j \in 1..Len(Stamps[s]), Stamps[s][j] < Larger(max, c) PROVE Staged(<<s, j>>)
  <2>1. Stamps[s][j] < c \/ Stamps[s][j] < max
    BY <1>6 DEF Larger
  <2>2. CASE Stamps[s][j] < c
    BY <1>3, <2>2 DEF Covers
  <2>3. CASE Stamps[s][j] < max
    <3>1. CASE FirstPage(p)
      <4>1. Stamps[s][j] \in Nat
        BY <1>2, Values
      <4> QED
        BY <1>2, <1>3, <2>2, <2>3, <3>1, <4>1
    <3>2. CASE ~FirstPage(p)
      <4>1. k = p.resume
        BY <3>2
      <4>2. j > k => Staged(<<s, j>>)
        BY <1>3, <2>3, <3>2, <4>1 DEF WalkedTo
      <4> QED
        BY <1>4, <1>5, <4>2
    <3> QED
      BY <3>1, <3>2
  <2> QED
    BY <2>1, <2>2, <2>3
<1>7. ASSUME NEW j \in 1..batch[p.batch].known[s], j > 0 PROVE Staged(<<s, j>>)
  <2>1. j \in 1..Len(Stamps[s])
    BY <1>2, <1>3
  <2>2. CASE j <= k
    BY <1>5, <2>1, <2>2
  <2>3. CASE j > k
    <3>1. ~FirstPage(p)
      BY <1>2, <1>3, <2>3
    <3>2. k = p.resume
      BY <3>1
    <3> QED
      BY <1>3, <2>3, <3>1, <3>2 DEF WalkedTo, KnownStaged
  <2> QED
    BY <1>4, <2>1, <2>2, <2>3
<1> QED
  BY <1>1, <1>6, <1>7 DEF WalkedTo, KnownStaged

LEMMA FetchKeeps ==
    ASSUME ImportsInv, Fetch
    PROVE  ImportsInv'
<1>1. PICK p, s, k, found :
         /\ p = worker.p /\ s = p.stage
         /\ k = IF FirstPage(p) THEN arrived[s] ELSE p.resume
         /\ found = (k > 0 /\ ~Stops(Stamps[s][k], p.cursor[s]))
  OBVIOUS
<1>2. /\ worker.pc = "fetch"
      /\ worker' = [worker EXCEPT !.pc = "recheck",
                                  !.got = IF found THEN <<s, k>> ELSE NoItem,
                                  !.next = IF found THEN k - 1 ELSE 0]
      /\ UNCHANGED <<arrived, conn, batch, row, rows, work, commit, posted, edits, faults>>
  BY <1>1 DEF Fetch, At, NextPage
<1>3. /\ TypeOK /\ Pages /\ worker \in Handlers /\ p \in Payloads /\ PayloadIsSound(p)
      /\ p.batch \in Batches /\ s \in Stages /\ p.cursor \in [Stages -> Nat]
      /\ p.max \in Nat /\ p.resume \in Nat /\ batch[p.batch].status # "none"
  BY <1>1, <1>2, InHand
<1>4. /\ arrived[s] \in Nat /\ arrived[s] <= Len(Stamps[s]) /\ Len(Stamps[s]) \in Nat
      /\ batch[p.batch].known[s] <= arrived[s]
      /\ ~FirstPage(p) => p.resume \in 1..Len(Stamps[s])
  BY <1>1, <1>3, Values, PagesByPart, WhereItBegins DEF TypeOK
<1>5. k \in Nat /\ k <= Len(Stamps[s])
  BY <1>1, <1>3, <1>4
<1>6. found => <<s, k>> \in Items /\ k - 1 \in Nat /\ k - 1 + 1 = k
  <2>1. found => k > 0
    BY <1>1
  <2>2. k > 0 => k \in 1..Len(Stamps[s]) /\ k - 1 \in Nat /\ k - 1 + 1 = k
    BY <1>4, <1>5
  <2> QED
    BY <1>3, <2>1, <2>2, ItemFacts
<1>7. /\ worker' \in Handlers /\ worker'.pc = "recheck" /\ worker'.p = p
      /\ worker'.attempts = worker.attempts
      /\ worker'.got = IF found THEN <<s, k>> ELSE NoItem
      /\ worker'.next = IF found THEN k - 1 ELSE 0
  <2>1. PICK got, next : /\ got = (IF found THEN <<s, k>> ELSE NoItem)
                         /\ next = (IF found THEN k - 1 ELSE 0)
    OBVIOUS
  <2>2. got \in Items \cup {NoItem} /\ next \in Nat
    BY <1>6, <2>1
  <2>3. worker' = [worker EXCEPT !.pc = "recheck", !.got = got, !.next = next]
    BY <1>2, <2>1
  <2>4. /\ worker' \in Handlers /\ worker'.pc = "recheck" /\ worker'.p = worker.p
        /\ worker'.attempts = worker.attempts /\ worker'.got = got /\ worker'.next = next
    BY <1>3, <2>2, <2>3 DEF Handlers
  <2> QED
    BY <1>1, <2>1, <2>4
<1>8. PageIsNext'
  <2>1. CASE found
    <3>1. worker'.got = <<s, k>> /\ worker'.next + 1 = k /\ <<s, k>> # NoItem
      BY <1>6, <1>7, <2>1, ItemFacts
    <3>2. IF FirstPage(p) THEN batch[p.batch].known[s] <= k ELSE k = p.resume
      BY <1>1, <1>4
    <3> QED
      BY <1>1, <1>2, <1>5, <1>7, <3>1, <3>2 DEF PageIsNext, FirstPage
  <2>2. CASE ~found
    <3>1. worker'.got = NoItem /\ worker'.next = 0
      BY <1>7, <2>2
    <3>2. WalkedTo(p, 0, Larger(p.max, p.cursor[s]))
      BY <1>1, <1>3, <2>2, NothingBelow
    <3>3. PICK m : m = Larger(p.max, p.cursor[s])
      OBVIOUS
    <3>4. RunningMax' = m
      BY <1>1, <1>7, <3>1, <3>3 DEF RunningMax, ChunkCursor
    <3>5. WalkedTo(p, 0, m)'
      <4>1. Onward
        BY <1>2 DEF Onward
      <4> QED
        BY <1>3, <3>2, <3>3, <4>1, WalkStays
    <3>6. Remains(p, 0, m)'
      <4>1. 0 <= TopPage(s) /\ 0 # TopPage(s)
        BY <1>4 DEF TopPage
      <4> QED
        BY <1>1, <3>5, <4>1 DEF Remains
    <3> QED
      BY <1>7, <3>1, <3>4, <3>6 DEF PageIsNext
  <2> QED
    BY <2>1, <2>2
<1>9. HandlerOK'
  <2>1. Onward
    BY <1>2 DEF Onward
  <2>2. PayloadIsSound(p)'
    BY <1>3, <2>1, PayloadStays
  <2> QED
    BY <1>7, <1>8, <2>2 DEF HandlerOK
<1> QED
  BY <1>1, <1>2, <1>7, <1>9, HandlerTurns DEF NewIsNew

(* A call that read nothing leaves the walk where it was.                    *)
LEMMA ThrottledKeeps ==
    ASSUME ImportsInv, Throttled
    PROVE  ImportsInv'
<1>1. PICK p, s, c, top, next :
         /\ p = worker.p /\ s = p.stage /\ c = p.cursor[s] /\ top = TopPage(s)
         /\ next = IF FirstPage(p) THEN top ELSE p.resume
  OBVIOUS
<1>2. /\ worker.pc = "fetch"
      /\ worker' = [worker EXCEPT !.pc = "recheck", !.got = NoItem, !.next = next]
      /\ UNCHANGED <<arrived, conn, batch, row, rows, work, commit, posted, edits, faults>>
  BY <1>1 DEF Throttled, At
<1>3. /\ TypeOK /\ Pages /\ worker \in Handlers /\ p \in Payloads /\ PayloadIsSound(p)
      /\ p.batch \in Batches /\ s \in Stages /\ p.cursor \in [Stages -> Nat]
      /\ p.max \in Nat /\ p.resume \in Nat /\ batch[p.batch].status # "none"
  BY <1>1, <1>2, InHand
<1>4. /\ Len(Stamps[s]) \in Nat /\ c \in Nat /\ top = Len(Stamps[s]) + 1
      /\ batch[p.batch].known[s] \in Nat /\ batch[p.batch].known[s] <= Len(Stamps[s])
  <2>1. batch[p.batch].known \in [Stages -> Nat] /\ arrived \in [Stages -> Nat]
    BY <1>3 DEF TypeOK, ImportBatches
  <2>2. batch[p.batch].known[s] <= arrived[s] /\ arrived[s] <= Len(Stamps[s])
    BY <1>3, PagesByPart
  <2>3. Len(Stamps[s]) \in Nat
    BY <1>3, Values
  <2>4. arrived[s] \in Nat /\ batch[p.batch].known[s] \in Nat /\ c \in Nat
    BY <1>1, <1>3, <2>1
  <2> QED
    BY <1>1, <2>2, <2>3, <2>4 DEF TopPage
<1>5. /\ FirstPage(p) => p.max <= c
      /\ ~FirstPage(p) => p.resume \in 1..Len(Stamps[s]) /\ WalkedTo(p, p.resume, p.max)
  BY <1>1, <1>3, WhereItBegins
<1>6. next \in Nat /\ next <= top /\ (next = top <=> FirstPage(p))
  BY <1>1, <1>3, <1>4, <1>5
<1>7. /\ worker' \in Handlers /\ worker'.pc = "recheck" /\ worker'.p = p
      /\ worker'.attempts = worker.attempts
      /\ worker'.got = NoItem /\ worker'.next = next
  BY <1>1, <1>2, <1>3, <1>6 DEF Handlers
<1>8. PICK m : m = Larger(p.max, c)
  OBVIOUS
<1>9. RunningMax' = m
  BY <1>1, <1>7, <1>8 DEF RunningMax, ChunkCursor
<1>10. WalkedTo(p, next, m)
  <2>1. CASE FirstPage(p)
    BY <1>1, <1>4, <2>1 DEF WalkedTo, KnownStaged
  <2>2. CASE ~FirstPage(p)
    <3>1. KnownStaged(p.batch, s, next)
      BY <1>1, <1>5, <2>2 DEF WalkedTo
    <3>2. ASSUME NEW k \in 1..Len(Stamps[s]), k > next, Stamps[s][k] < m PROVE Staged(<<s, k>>)
      <4>1. CASE m = c
        BY <1>1, <1>3, <3>2, <4>1 DEF PayloadIsSound, Covers
      <4>2. CASE m = p.max
        BY <1>1, <1>5, <2>2, <3>2, <4>2 DEF WalkedTo
      <4> QED
        BY <1>8, <4>1, <4>2 DEF Larger
    <3> QED
      BY <1>1, <3>1, <3>2 DEF WalkedTo
  <2> QED
    BY <2>1, <2>2
<1>11. Onward
  BY <1>2 DEF Onward
<1>12. Remains(p, next, m)'
  <2>1. next = top => m <= c
    BY <1>3, <1>4, <1>5, <1>6, <1>8 DEF Larger
  <2>2. Remains(p, next, m)
    BY <1>1, <1>6, <1>10, <2>1 DEF Remains
  <2> QED
    BY <1>3, <1>11, <2>2, RemainsStays
<1>13. HandlerOK'
  <2>1. PageIsNext'
    BY <1>7, <1>9, <1>12 DEF PageIsNext
  <2>2. PayloadIsSound(p)'
    BY <1>3, <1>11, PayloadStays
  <2> QED
    BY <1>7, <2>1, <2>2 DEF HandlerOK
<1> QED
  BY <1>1, <1>2, <1>7, <1>13, HandlerTurns DEF NewIsNew

(* A handler that turns to another step as it is. *)
LEMMA TurnFacts ==
    ASSUME worker \in Handlers,
           NEW pc \in {"idle", "fetch", "recheck", "dedupe", "stage", "meta", "enqueue", "cursor",
                       "complete", "mark_status", "mark_meta"},
           Goto(pc)
    PROVE  /\ worker' \in Handlers /\ worker'.pc = pc
           /\ worker'.p = worker.p /\ worker'.attempts = worker.attempts
           /\ worker'.got = worker.got /\ worker'.next = worker.next
           /\ worker'.dedupe = worker.dedupe
BY DEF Goto, Handlers

LEMMA BatchClosedKeeps ==
    ASSUME ImportsInv, BatchClosed
    PROVE  ImportsInv'
<1>1. /\ worker.pc \in {"fetch", "recheck"} /\ Goto("complete")
      /\ UNCHANGED <<arrived, conn, batch, row, rows, work, commit, posted, edits, faults>>
  BY DEF BatchClosed, At
<1>2. /\ worker' \in Handlers /\ worker'.pc = "complete"
      /\ worker'.p = worker.p /\ worker'.attempts = worker.attempts
  BY <1>1, InHand, TurnFacts
<1>3. HandlerOK'
  <2>1. Onward
    BY <1>1 DEF Onward
  <2> QED
    BY <1>1, <1>2, <2>1, InHand, HandlerRests
<1> QED
  BY <1>1, <1>2, <1>3, HandlerTurns DEF NewIsNew

LEMMA RecheckKeeps ==
    ASSUME ImportsInv, Recheck
    PROVE  ImportsInv'
<1>1. PICK pc : pc = IF worker.got = NoItem THEN "meta" ELSE "dedupe"
  OBVIOUS
<1>2. /\ worker.pc = "recheck" /\ Goto(pc) /\ pc \in {"meta", "dedupe"}
      /\ UNCHANGED <<arrived, conn, batch, row, rows, work, commit, posted, edits, faults>>
  BY <1>1 DEF Recheck, At
<1>3. /\ worker' \in Handlers /\ worker'.pc = pc
      /\ worker'.p = worker.p /\ worker'.attempts = worker.attempts
      /\ worker'.got = worker.got /\ worker'.next = worker.next
  BY <1>2, InHand, TurnFacts
<1>4. PICK p, m : p = worker.p /\ m = RunningMax
  OBVIOUS
<1>5. /\ p \in Payloads /\ p.stage \in Stages /\ PayloadIsSound(p) /\ PageIsNext
      /\ worker.next \in Nat /\ batch[p.batch].status # "none"
  BY <1>2, <1>4, InHand DEF HandlerOK
<1>6. Onward
  BY <1>2 DEF Onward
<1>7. PayloadIsSound(p)' /\ worker'.p = p /\ RunningMax' = m
  BY <1>3, <1>4, <1>5, <1>6, PayloadStays DEF RunningMax, ChunkCursor
<1>8. CASE pc = "meta"
  <2>0. PICK next : next = worker.next
    OBVIOUS
  <2>1. Remains(p, next, m)
    BY <1>1, <1>4, <1>5, <1>8, <2>0 DEF PageIsNext
  <2>2. Remains(p, next, m)'
    BY <1>5, <1>6, <2>1, RemainsStays
  <2>3. HandlerOK'
    BY <1>3, <1>7, <1>8, <2>0, <2>2 DEF HandlerOK
  <2> QED
    BY <1>2, <1>3, <1>8, <2>3, HandlerTurns DEF NewIsNew
<1>9. CASE pc = "dedupe"
  <2>1. worker.got # NoItem
    BY <1>1, <1>9
  <2>2. PageIsNext'
    BY <1>2, <1>3, <1>5, <2>1 DEF PageIsNext, FirstPage
  <2>3. HandlerOK'
    BY <1>3, <1>7, <1>9, <2>2 DEF HandlerOK
  <2>4. worker.got \in Items
    BY <1>2, <2>1, InHand
  <2> QED
    BY <1>2, <1>3, <1>9, <2>3, <2>4, HandlerTurns DEF NewIsNew
<1> QED
  BY <1>2, <1>8, <1>9

LEMMA DedupeKeeps ==
    ASSUME ImportsInv, DedupeStatus
    PROVE  ImportsInv'
<1>1. PICK d : d = IF worker.got \in Identities THEN "duplicate"
                   ELSE IF SeenInBatch(worker.got, worker.p.batch) THEN "needs_attention"
                   ELSE "new"
  OBVIOUS
<1>2. /\ worker.pc = "dedupe" /\ worker' = [worker EXCEPT !.pc = "stage", !.dedupe = d]
      /\ UNCHANGED <<arrived, conn, batch, row, rows, work, commit, posted, edits, faults>>
  BY <1>1 DEF DedupeStatus, At
<1>3. d \in Dedupes /\ worker \in Handlers
  BY <1>1, <1>2, InHand DEF Dedupes
<1>4. /\ worker' \in Handlers /\ worker'.pc = "stage" /\ worker'.dedupe = d
      /\ worker'.p = worker.p /\ worker'.attempts = worker.attempts
      /\ worker'.got = worker.got /\ worker'.next = worker.next
  BY <1>2, <1>3 DEF Handlers
<1>5. PICK p : p = worker.p
  OBVIOUS
<1>6. /\ p \in Payloads /\ PayloadIsSound(p) /\ PageIsNext
      /\ batch[p.batch].status # "none" /\ worker.got \in Items
  BY <1>2, <1>5, InHand DEF HandlerOK, Held, WorkIsHeld
<1>7. Onward
  BY <1>2 DEF Onward
<1>8. HandlerOK'
  <2>1. PayloadIsSound(p)'
    BY <1>6, <1>7, PayloadStays
  <2>2. PageIsNext'
    BY <1>2, <1>4, <1>6, ItemFacts DEF PageIsNext, FirstPage
  <2> QED
    BY <1>4, <1>5, <2>1, <2>2 DEF HandlerOK
<1>9. NewIsNew'
  BY <1>1, <1>2, <1>4 DEF NewIsNew, SeenInBatch, RowsOf
<1> QED
  BY <1>2, <1>4, <1>6, <1>8, <1>9, HandlerTurns

(* Staging the page takes the walk down to it: what is above was there, or   *)
(* is the item itself.                                                       *)
LEMMA PageIsWalked ==
    ASSUME TypeOK, Pages, NEW p \in Payloads, PayloadIsSound(p), NEW s, s = p.stage,
           NEW next \in Nat, next + 1 <= Len(Stamps[s]),
           IF FirstPage(p) THEN batch[p.batch].known[s] <= next + 1 ELSE next + 1 = p.resume,
           Onward, batch[p.batch].status # "none", Staged(<<s, next + 1>>)'
    PROVE  WalkedTo(p, next, Larger(p.max, Larger(p.cursor[s], Stamps[s][next + 1])))'
<1>1. PICK c, max, t, k : c = p.cursor[s] /\ max = p.max /\ t = Stamps[s][k] /\ k = next + 1
  OBVIOUS
<1>2. /\ s \in Stages /\ c \in Nat /\ max \in Nat /\ p.resume \in Nat /\ p.batch \in Batches
      /\ Len(Stamps[s]) \in Nat /\ batch[p.batch].known[s] \in Nat /\ k \in 1..Len(Stamps[s])
      /\ t \in Nat
  <2>1. s \in Stages /\ c \in Nat /\ max \in Nat /\ p.resume \in Nat /\ p.batch \in Batches
    BY <1>1 DEF Payloads
  <2>2. batch[p.batch].known \in [Stages -> Nat]
    BY <2>1 DEF TypeOK, ImportBatches
  <2>3. Len(Stamps[s]) \in Nat
    BY <2>1, Values
  <2>4. k \in 1..Len(Stamps[s])
    BY <1>1, <2>3
  <2> QED
    BY <1>1, <2>1, <2>2, <2>3, <2>4, Values
<1>3. /\ Covers(s, c)' /\ Staged(<<s, k>>)'
      /\ FirstPage(p) => max <= c
      /\ ~FirstPage(p) => WalkedTo(p, p.resume, max)'
      /\ batch'[p.batch].known[s] = batch[p.batch].known[s]
  <2>1. PayloadIsSound(p)'
    BY PayloadStays
  <2>2. /\ FirstPage(p) => max <= c
        /\ ~FirstPage(p) => p.resume # 0
    BY <1>1, WhereItBegins DEF FirstPage
  <2>3. p.resume # 0 => WalkedTo(p, p.resume, max)'
    BY <1>1, <2>1 DEF PayloadIsSound, Remains
  <2> QED
    BY <1>1, <1>2, <2>1, <2>2, <2>3 DEF PayloadIsSound, Onward
<1>4. ASSUME NEW j \in 1..Len(Stamps[s]), j > next, Stamps[s][j] < Larger(max, Larger(c, t))
      PROVE  Staged(<<s, j>>)'
  <2>1. Stamps[s][j] \in Nat
    BY <1>2, Values
  <2>2. j = k \/ j > k
    BY <1>1, <1>2, <1>4
  <2>3. CASE j = k
    BY <1>3, <2>3
  <2>4. CASE j > k
    <3>1. k \in 1..j
      BY <1>2, <2>4
    <3>2. Stamps[s][k] <= Stamps[s][j]
      BY <1>2, <3>1, Values
    <3>3. Stamps[s][j] < c \/ Stamps[s][j] < max
      BY <1>1, <1>2, <1>4, <2>1, <3>2 DEF Larger
    <3>4. CASE Stamps[s][j] < c
      BY <1>3, <3>4 DEF Covers
    <3>5. CASE Stamps[s][j] < max
      <4>1. CASE FirstPage(p)
        BY <1>2, <1>3, <2>1, <3>4, <3>5, <4>1
      <4>2. CASE ~FirstPage(p)
        <5>1. j > p.resume
          BY <1>1, <1>2, <2>4, <4>2
        <5> QED
          BY <1>3, <3>5, <4>2, <5>1 DEF WalkedTo
      <4> QED
        BY <4>1, <4>2
    <3> QED
      BY <3>3, <3>4, <3>5
  <2> QED
    BY <2>2, <2>3, <2>4
<1>5. ASSUME NEW j \in 1..batch[p.batch].known[s], j > next PROVE Staged(<<s, j>>)'
  <2>1. j = k \/ j > k
    BY <1>1, <1>2, <1>5
  <2>2. CASE j = k
    BY <1>3, <2>2
  <2>3. CASE j > k
    <3>1. ~FirstPage(p) /\ k = p.resume
      BY <1>1, <1>2, <2>3
    <3>2. KnownStaged(p.batch, s, p.resume)'
      BY <1>3, <3>1 DEF WalkedTo
    <3> QED
      BY <1>3, <2>3, <3>1, <3>2 DEF KnownStaged
  <2> QED
    BY <2>1, <2>2, <2>3
<1>6. t = Stamps[s][next + 1]
  BY <1>1
<1> QED
  BY <1>1, <1>3, <1>4, <1>5, <1>6 DEF WalkedTo, KnownStaged

LEMMA InsertKeeps ==
    ASSUME ImportsInv, InsertImportStagedRows
    PROVE  ImportsInv'
<1>1. PICK p, got, new, n :
         /\ p = worker.p /\ got = worker.got /\ n = rows + 1
         /\ new = [batch |-> p.batch, item |-> got, status |-> "pending",
                   dedupe |-> worker.dedupe, staged |-> worker.dedupe]
  OBVIOUS
<1>2. /\ worker.pc = "stage" /\ rows < MaxRows /\ rows' = n /\ row' = [row EXCEPT ![n] = new]
      /\ Goto("meta")
      /\ UNCHANGED <<arrived, conn, batch, work, commit, posted, edits, faults>>
  BY <1>1 DEF InsertImportStagedRows, At
<1>3. /\ TypeOK /\ Ledger /\ Offers /\ Pages /\ worker \in Handlers
      /\ p \in Payloads /\ PayloadIsSound(p) /\ PageIsNext
      /\ p.batch \in Batches /\ p.stage \in Stages /\ worker.next \in Nat
      /\ batch[p.batch].status # "none"
  BY <1>1, <1>2, InHand DEF HandlerOK
<1>4. got \in Items /\ got # NoItem
  BY <1>1, <1>2, InHand, ItemFacts DEF Held, WorkIsHeld
<1>5. /\ rows \in Nat /\ n \in Nat /\ n \in RowIds /\ rows' \in 0..MaxRows
      /\ 1..n = 1..rows \cup {n} /\ n \notin 1..rows
  <2>1. rows \in Nat /\ MaxRows \in Nat
    BY <1>3, Values DEF TypeOK
  <2>2. 1..(rows + 1) = 1..rows \cup {rows + 1} /\ rows + 1 \notin 1..rows /\ rows + 1 \in 1..MaxRows
    BY <1>2, <2>1
  <2> QED
    BY <1>1, <1>2, <2>1, <2>2 DEF RowIds
<1>6. /\ new \in StagedRows /\ new.item = got /\ new.batch = p.batch /\ new.status = "pending"
      /\ new.staged = worker.dedupe
  BY <1>1, <1>3, <1>4 DEF StagedRows, Outcomes, Handlers
<1>7. /\ row' \in [RowIds -> StagedRows] /\ row'[n] = new
      /\ \A r \in 1..rows : row'[r] = row[r]
  <2>1. row \in [RowIds -> StagedRows] /\ 1..rows \subseteq RowIds
    BY <1>3, Values DEF TypeOK, RowIds
  <2> QED
    BY <1>2, <1>5, <1>6, <2>1
<1>8. /\ worker' \in Handlers /\ worker'.pc = "meta"
      /\ worker'.p = worker.p /\ worker'.attempts = worker.attempts
      /\ worker'.got = worker.got /\ worker'.next = worker.next
  BY <1>2, <1>3, TurnFacts
<1>9. TypeOK'
  <2>1. \A r \in 1..rows' : row'[r].batch \in Batches /\ row'[r].item \in Items
    BY <1>2, <1>3, <1>4, <1>5, <1>6, <1>7 DEF TypeOK
  <2> QED
    BY <1>2, <1>3, <1>5, <1>7, <1>8, <2>1 DEF TypeOK
<1>10. Onward
  BY <1>2, <1>5, <1>7 DEF Onward
<1>11. Ledger'
  <2>1. PostedIsMarked'
    BY <1>2, <1>3, <1>5, <1>6, <1>7 DEF Ledger, PostedIsMarked
  <2>2. CommitsAreSound'
    <3>1. 1..rows \subseteq 1..rows'
      BY <1>2, <1>5
    <3>2. ASSUME NEW u \in Committers
          PROVE  /\ commit[u].pc # "idle" => /\ commit[u].batch \in Batches
                                             /\ batch[commit[u].batch].status # "none"
                 /\ DOMAIN commit[u].snap \subseteq 1..rows
                 /\ commit[u].pc \in {"skip", "write", "adopt"} => commit[u].cur \in 1..rows
                 /\ commit[u].pc = "adopt" => row[commit[u].cur].item \in Identities
      BY <1>3 DEF Ledger, CommitsAreSound
    <3>3. Identities' = Identities
      BY <1>2 DEF Identities
    <3> QED
      BY <1>2, <1>7, <3>1, <3>2, <3>3 DEF CommitsAreSound
  <2> QED
    BY <1>2, <1>3, <2>1, <2>2 DEF Ledger, PostedOnce
<1>12. Offers'
  <2>1. ASSUME NEW r \in 1..rows, row[r].batch = p.batch, row[r].item = got PROVE worker.dedupe # "new"
    BY <1>1, <1>2, <1>3, <2>1 DEF Offers, NewIsNew, SeenInBatch, RowsOf
  <2>2. OfferedOnce'
    BY <1>2, <1>3, <1>5, <1>6, <1>7, <2>1 DEF Offers, OfferedOnce
  <2> QED
    BY <1>8, <2>2 DEF Offers, NewIsNew
<1>13. HandlerOK'
  <2>1. PICK s, next : s = p.stage /\ next = worker.next
    OBVIOUS
  <2>2. /\ got = <<s, next + 1>> /\ next + 1 <= Len(Stamps[s])
        /\ IF FirstPage(p) THEN batch[p.batch].known[s] <= next + 1 ELSE next + 1 = p.resume
    BY <1>1, <1>3, <1>4, <2>1 DEF PageIsNext
  <2>3. Staged(<<s, next + 1>>)'
    BY <1>2, <1>5, <1>6, <1>7, <2>2 DEF Staged
  <2>4. PICK m : m = Larger(p.max, Larger(p.cursor[s], Stamps[s][next + 1]))
    OBVIOUS
  <2>5. WalkedTo(p, next, m)'
    BY <1>3, <1>10, <2>1, <2>2, <2>3, <2>4, PageIsWalked
  <2>6. RunningMax' = m
    <3>1. worker'.got # NoItem /\ Stamp(worker'.got) = Stamps[s][next + 1]
      BY <1>1, <1>4, <1>8, <2>2 DEF Stamp
    <3> QED
      BY <1>1, <1>8, <2>1, <2>4, <3>1 DEF RunningMax, ChunkCursor
  <2>7. Remains(p, next, m)'
    <3>1. next <= TopPage(s) /\ next # TopPage(s)
      BY <1>3, <2>1, <2>2, Values DEF TopPage
    <3> QED
      BY <2>1, <2>5, <3>1 DEF Remains
  <2>8. PayloadIsSound(p)'
    BY <1>3, <1>10, PayloadStays
  <2> QED
    BY <1>1, <1>8, <2>1, <2>6, <2>7, <2>8 DEF HandlerOK
<1> QED
  BY <1>2, <1>8, <1>9, <1>10, <1>11, <1>12, <1>13, HandlerGoesOn

(* A batch keeps its number and what it knew when its status or its fetch    *)
(* state is written.                                                         *)
LEMMA BatchWritten ==
    ASSUME TypeOK, NEW b \in Batches, NEW new \in ImportBatches, batch' = [batch EXCEPT ![b] = new],
           new.known = batch[b].known, new.status = "none" <=> batch[b].status = "none"
    PROVE  /\ batch' \in [Batches -> ImportBatches] /\ batch'[b] = new
           /\ \A c \in Batches : /\ c # b => batch'[c] = batch[c]
                                 /\ batch'[c].known = batch[c].known
                                 /\ batch'[c].status = "none" <=> batch[c].status = "none"
BY DEF TypeOK

LEMMA MetaKeeps ==
    ASSUME ImportsInv, UpdateImportBatchSourceMeta
    PROVE  ImportsInv'
<1>1. PICK p, done, new, pc, b :
         /\ p = worker.p /\ b = p.batch /\ done = (worker.next = 0 /\ LastStage)
         /\ new = [batch[b] EXCEPT !.fetch = IF done THEN "ready" ELSE "fetching"]
         /\ pc = IF done THEN "cursor" ELSE "enqueue"
  OBVIOUS
<1>2. /\ worker.pc = "meta" /\ batch' = [batch EXCEPT ![b] = new] /\ Goto(pc)
      /\ UNCHANGED <<arrived, conn, row, rows, work, commit, posted, edits, faults>>
  BY <1>1 DEF UpdateImportBatchSourceMeta, At
<1>3. /\ TypeOK /\ Ledger /\ Offers /\ worker \in Handlers
      /\ p \in Payloads /\ PayloadIsSound(p) /\ b \in Batches /\ p.stage \in Stages
      /\ batch[b].status # "none"
      /\ Remains(p, worker.next, RunningMax)
  BY <1>1, <1>2, InHand DEF HandlerOK
<1>4. /\ new \in ImportBatches /\ new.known = batch[b].known /\ new.status = batch[b].status
      /\ new.fetch = IF done THEN "ready" ELSE "fetching"
  BY <1>1, <1>3 DEF TypeOK, ImportBatches
<1>5. /\ batch' \in [Batches -> ImportBatches] /\ batch'[b] = new
      /\ \A c \in Batches : /\ c # b => batch'[c] = batch[c]
                            /\ batch'[c].known = batch[c].known
                            /\ batch'[c].status = "none" <=> batch[c].status = "none"
  BY <1>2, <1>3, <1>4, BatchWritten
<1>6. pc \in {"cursor", "enqueue"} /\ (pc = "cursor" <=> worker.next = 0 /\ LastStage)
  BY <1>1
<1>7. /\ worker' \in Handlers /\ worker'.pc = pc
      /\ worker'.p = worker.p /\ worker'.attempts = worker.attempts
      /\ worker'.got = worker.got /\ worker'.next = worker.next
  BY <1>2, <1>3, <1>6, TurnFacts
<1>8. TypeOK'
  BY <1>2, <1>3, <1>5, <1>7 DEF TypeOK
<1>9. Onward
  BY <1>2, <1>5 DEF Onward
<1>10. Ledger' /\ Offers'
  BY <1>2, <1>3, <1>5, <1>6, <1>7, LedgerStays, OffersStay
<1>11. HandlerOK'
  <2>1. PICK m, next : m = RunningMax /\ next = worker.next
    OBVIOUS
  <2>2. RunningMax' = m /\ LastStage' = LastStage /\ worker'.next = next
    BY <1>7, <2>1 DEF RunningMax, ChunkCursor, LastStage
  <2>3. PayloadIsSound(p)' /\ Remains(p, next, m)'
    BY <1>1, <1>3, <1>9, <2>1, PayloadStays, RemainsStays
  <2> QED
    BY <1>1, <1>3, <1>6, <1>7, <2>1, <2>2, <2>3 DEF HandlerOK
<1>12. ASSUME NEW c \in Batches, batch'[c].fetch = "ready"
       PROVE  batch[c].fetch = "ready" \/ \A s \in Stages : KnownStaged(c, s, 0)'
  <2>1. CASE c # b
    BY <1>5, <1>12, <2>1
  <2>2. CASE c = b
    <3>1. worker.next = 0 /\ p.stage = Len(Stamps)
      BY <1>1, <1>4, <1>5, <1>12, <2>2 DEF LastStage
    <3>2. \A s \in 1..(p.stage - 1) : KnownStaged(b, s, 0)
      BY <1>1, <1>3 DEF PayloadIsSound
    <3>3. KnownStaged(b, p.stage, 0)
      BY <1>1, <1>3, <3>1 DEF Remains, WalkedTo
    <3>4. \A s \in Stages : s = p.stage \/ s \in 1..(p.stage - 1)
      BY <3>1, Values DEF Stages
    <3>5. \A s \in Stages : KnownStaged(b, s, 0)
      BY <3>2, <3>3, <3>4
    <3> QED
      BY <1>5, <1>9, <2>2, <3>5, KnownStays
  <2> QED
    BY <2>1, <2>2
<1> QED
  BY <1>2, <1>5, <1>6, <1>7, <1>8, <1>9, <1>10, <1>11, <1>12, HandlerGoesOn

(* The running maximum is a time. *)
LEMMA RunningMaxIsTime ==
    ASSUME ImportsInv, worker.pc # "idle"
    PROVE  RunningMax \in Nat
<1>1. PICK c : c = worker.p.cursor[worker.p.stage]
  OBVIOUS
<1>2. c \in Nat /\ worker.p.max \in Nat /\ worker.got \in Items \cup {NoItem}
  BY <1>1, InHand
<1>3. ASSUME worker.got # NoItem PROVE Stamp(worker.got) \in Nat
  <2>1. PICK s \in Stages : \E k \in 1..Len(Stamps[s]) : worker.got = <<s, k>>
    BY <1>2, <1>3, ItemFacts
  <2>2. PICK k \in 1..Len(Stamps[s]) : worker.got = <<s, k>>
    BY <2>1
  <2>3. Stamps[s][k] \in Nat
    BY Values
  <2> QED
    BY <2>2, <2>3 DEF Stamp
<1>4. ChunkCursor \in Nat
  BY <1>1, <1>2, <1>3, LargerFacts DEF ChunkCursor
<1> QED
  BY <1>2, <1>4, LargerFacts DEF RunningMax

(* The cursors of a stage that is walked out pass nothing that is not staged.*)
LEMMA FinalCursorsCover ==
    ASSUME ImportsInv, worker.pc \in {"enqueue", "cursor"}, worker.next = 0
    PROVE  /\ RunningMax \in Nat
           /\ FinalCursors \in [Stages -> Nat]
           /\ \A s \in Stages : Covers(s, FinalCursors[s])
<1>1. PICK p : p = worker.p
  OBVIOUS
<1>2. /\ p \in Payloads /\ PayloadIsSound(p) /\ p.stage \in Stages /\ p.cursor \in [Stages -> Nat]
      /\ WalkedTo(p, 0, RunningMax)
  BY <1>1, InHand DEF HandlerOK, Remains
<1>5. RunningMax \in Nat
  BY RunningMaxIsTime
<1>6. FinalCursors = [p.cursor EXCEPT ![p.stage] = RunningMax]
  BY <1>1 DEF FinalCursors
<1>7. FinalCursors \in [Stages -> Nat]
  BY <1>2, <1>5, <1>6
<1>8. Covers(p.stage, RunningMax)
  BY <1>2, Values DEF WalkedTo, Covers
<1>9. ASSUME NEW s \in Stages PROVE Covers(s, FinalCursors[s])
  <2>1. CASE s = p.stage
    BY <1>2, <1>6, <1>8, <2>1
  <2>2. CASE s # p.stage
    BY <1>2, <1>6, <2>2 DEF PayloadIsSound
  <2> QED
    BY <2>1, <2>2
<1> QED
  BY <1>5, <1>7, <1>9

LEMMA CursorKeeps ==
    ASSUME ImportsInv, UpdateFetchCursor
    PROVE  ImportsInv'
<1>1. /\ worker.pc = "cursor" /\ conn' = [conn EXCEPT !.cursor = FinalCursors] /\ Goto("complete")
      /\ UNCHANGED <<arrived, batch, row, rows, work, commit, posted, edits, faults>>
  BY DEF UpdateFetchCursor, At
<1>2. TypeOK /\ Ledger /\ Offers /\ Held /\ HandlerOK /\ worker \in Handlers /\ worker.next = 0
  BY <1>1, InHand DEF HandlerOK
<1>3. FinalCursors \in [Stages -> Nat] /\ \A s \in Stages : Covers(s, FinalCursors[s])
  BY <1>1, <1>2, FinalCursorsCover
<1>4. /\ worker' \in Handlers /\ worker'.pc = "complete"
      /\ worker'.p = worker.p /\ worker'.attempts = worker.attempts
  BY <1>1, <1>2, TurnFacts
<1>5. conn' \in [cursor: [Stages -> Nat], live: BOOLEAN] /\ conn'.cursor = FinalCursors
  BY <1>1, <1>2, <1>3 DEF TypeOK
<1>6. TypeOK'
  BY <1>1, <1>2, <1>4, <1>5 DEF TypeOK
<1>7. Onward
  BY <1>1 DEF Onward
<1>8. \A s \in Stages : Covers(s, conn.cursor[s])'
  <2>1. SUFFICES ASSUME NEW s \in Stages PROVE Covers(s, conn.cursor[s])'
    OBVIOUS
  <2>2. PICK c : c = FinalCursors[s]
    OBVIOUS
  <2>3. Covers(s, c)'
    BY <1>3, <1>7, <2>2, CoversStays
  <2> QED
    BY <1>5, <2>2, <2>3 DEF Covers
<1>9. HandlerOK'
  BY <1>1, <1>2, <1>4, <1>7, HandlerRests
<1>10. Ledger' /\ Offers'
  BY <1>1, <1>2, <1>4, LedgerStays, OffersStay
<1> QED
  BY <1>1, <1>4, <1>6, <1>7, <1>8, <1>9, <1>10, HandlerGoesOn

(* The continuation says of the walk what the handler has walked.            *)
LEMMA ContinuationIsSound ==
    ASSUME ImportsInv, worker.pc = "enqueue", NEW p, p = worker.p, NEW q, q = Continuation
    PROVE  q \in Payloads /\ q.batch = p.batch /\ PayloadIsSound(q)
<1>1. PICK next, m : next = worker.next /\ m = RunningMax
  OBVIOUS
<1>2. /\ p \in Payloads /\ PayloadIsSound(p) /\ p.stage \in Stages /\ p.batch \in Batches
      /\ p.cursor \in [Stages -> Nat] /\ next \in Nat /\ m \in Nat
      /\ Remains(p, next, m) /\ (next # 0 \/ p.stage # Len(Stamps))
  BY <1>1, InHand, RunningMaxIsTime DEF HandlerOK, LastStage
<1>3. CASE next # 0
  <2>1. q = [p EXCEPT !.resume = next, !.max = m]
    BY <1>1, <1>3 DEF Continuation
  <2>2. /\ q \in Payloads /\ q.batch = p.batch /\ q.stage = p.stage /\ q.cursor = p.cursor
        /\ q.resume = next /\ q.max = m
    BY <1>2, <2>1 DEF Payloads
  <2>3. Remains(q, next, m)
    BY <1>2, <2>2 DEF Remains, WalkedTo
  <2> QED
    BY <1>2, <1>3, <2>2, <2>3 DEF PayloadIsSound
<1>4. CASE next = 0
  <2>1. PICK c : c = FinalCursors
    OBVIOUS
  <2>2. c \in [Stages -> Nat] /\ \A s \in Stages : Covers(s, c[s])
    BY <1>1, <1>4, <2>1, FinalCursorsCover
  <2>3. PICK n, here, t : n = Len(Stamps) /\ here = p.stage /\ t = p.stage + 1
    OBVIOUS
  <2>3a. n \in Nat /\ here \in 1..n /\ here # n
    BY <1>2, <1>4, <2>3, Values DEF Stages
  <2>3b. here \in Nat /\ t \in 1..n /\ t - 1 = here
    BY <2>3, <2>3a
  <2>3c. t \in Stages
    BY <2>3, <2>3b DEF Stages
  <2>4. q = [batch |-> p.batch, stage |-> t, cursor |-> c, resume |-> 0, max |-> 0]
    BY <1>1, <1>4, <2>1, <2>3 DEF Continuation
  <2>5. /\ q \in Payloads /\ q.batch = p.batch /\ q.stage = t /\ q.cursor = c
        /\ q.resume = 0 /\ q.max = 0
    BY <1>2, <2>2, <2>3c, <2>4 DEF Payloads
  <2>6. \A s \in 1..p.stage : KnownStaged(q.batch, s, 0)
    <3>1. \A s \in 1..(p.stage - 1) : KnownStaged(p.batch, s, 0)
      BY <1>2 DEF PayloadIsSound
    <3>2. KnownStaged(p.batch, p.stage, 0)
      BY <1>2, <1>4 DEF Remains, WalkedTo
    <3>3. \A s \in 1..p.stage : s = p.stage \/ s \in 1..(p.stage - 1)
      BY <2>3, <2>3b
    <3> QED
      BY <2>5, <3>1, <3>2, <3>3
  <2>7. q.stage - 1 = p.stage /\ 0 <= Len(Stamps[q.stage])
    BY <2>3, <2>3b, <2>3c, <2>5, Values
  <2> QED
    BY <2>2, <2>5, <2>6, <2>7 DEF PayloadIsSound
<1> QED
  BY <1>3, <1>4

LEMMA EnqueueKeeps ==
    ASSUME ImportsInv, EnqueueContinuation
    PROVE  ImportsInv'
<1>1. PICK p : p = worker.p
  OBVIOUS
<1>2. PICK q : q = Continuation
  OBVIOUS
<1>3. /\ worker.pc = "enqueue" /\ work' = Enqueued(work, q) /\ Goto("complete")
      /\ UNCHANGED <<arrived, conn, batch, row, rows, commit, posted, edits, faults>>
  BY <1>1, <1>2 DEF EnqueueContinuation, At
<1>4. /\ TypeOK /\ Ledger /\ Offers /\ Held /\ Pages /\ HandlerOK /\ worker \in Handlers
      /\ p \in Payloads /\ batch[p.batch].status # "none"
  BY <1>1, <1>3, InHand
<1>5. q \in Payloads /\ q.batch = p.batch /\ PayloadIsSound(q)
  BY <1>1, <1>2, <1>3, ContinuationIsSound
<1>6. /\ work' \subseteq WorkItems
      /\ \A w \in work' : w.attempts <= MaxAttempts + MaxFaults
      /\ Cardinality({w \in work' : w.claimed}) <= 1
      /\ \A v, w \in work' : v.p = w.p => v = w
      /\ \A w \in work' : \/ w \in work
                          \/ w.p = q /\ w.attempts = 0 /\ ~w.claimed
  BY <1>3, <1>4, <1>5, Enqueues
<1>7. /\ worker' \in Handlers /\ worker'.pc = "complete"
      /\ worker'.p = worker.p /\ worker'.attempts = worker.attempts
  BY <1>3, <1>4, TurnFacts
<1>8. TypeOK'
  BY <1>3, <1>4, <1>6, <1>7 DEF TypeOK
<1>9. Onward
  BY <1>3 DEF Onward
<1>10. Held'
  <2>1. BatchesAreNumbered'
    BY <1>3, <1>4 DEF Held, BatchesAreNumbered
  <2>2. ASSUME NEW w \in work'
        PROVE  /\ w.attempts + (IF w.claimed THEN 0 ELSE 1) <= MaxAttempts + faults
               /\ w.claimed => w.p = worker.p /\ w.attempts = worker.attempts
               /\ batch[w.p.batch].status # "none"
    <3>1. CASE w \in work
      BY <1>4, <3>1 DEF Held, WorkIsHeld
    <3>2. CASE w.p = q /\ w.attempts = 0 /\ ~w.claimed
      <4>1. 0 + 1 <= MaxAttempts + faults
        BY <1>4, Values DEF TypeOK
      <4> QED
        BY <1>4, <1>5, <3>2, <4>1
    <3> QED
      BY <1>6, <3>1, <3>2
  <2> QED
    BY <1>1, <1>3, <1>4, <1>6, <1>7, <2>1, <2>2 DEF Held, WorkIsHeld
<1>11. Pages'
  <2>1. \A s \in Stages : arrived[s] <= arrived'[s] /\ arrived'[s] <= Len(Stamps[s])
    BY <1>3, <1>4, PagesByPart DEF TypeOK
  <2>2. HandlerOK'
    BY <1>3, <1>4, <1>7, <1>9, HandlerRests
  <2>3. PayloadIsSound(q)'
    BY <1>4, <1>5, <1>9, PayloadStays
  <2>4. \A w \in work' : (\E v \in work : v.p = w.p) \/ PayloadIsSound(w.p)'
    BY <1>6, <2>3 DEF PayloadIsSound
  <2> QED
    BY <1>3, <1>4, <1>8, <1>9, <2>1, <2>2, <2>4, PagesMove
<1>12. Ledger' /\ Offers'
  BY <1>3, <1>4, <1>7, LedgerStays, OffersStay
<1> QED
  BY <1>8, <1>10, <1>11, <1>12 DEF ImportsInv, Ledger, Offers, Held, Pages

(* A handler lets go of its item, or puts it back with an attempt left.      *)
LEMMA HandlerLeaves ==
    ASSUME ImportsInv, worker.pc # "idle",
           NEW back \in WorkItems, back.p = worker.p, ~back.claimed, back.attempts < MaxAttempts,
           work' \subseteq Finished \cup {back},
           worker' \in Handlers,
           worker'.pc = "idle" \/ (worker'.pc = "mark_status" /\ worker'.p = worker.p),
           faults' \in 0..MaxFaults, faults' >= faults,
           UNCHANGED <<arrived, conn, batch, row, rows, commit, posted, edits>>
    PROVE  ImportsInv'
<1>1. /\ TypeOK /\ Ledger /\ Offers /\ Held /\ Pages /\ HandlerOK
      /\ worker.p \in Payloads /\ batch[worker.p.batch].status # "none"
  BY InHand
<1>2. /\ MaxAttempts \in Nat /\ faults \in Nat /\ faults' \in Nat /\ MaxFaults \in Nat
      /\ back.attempts \in Nat
  BY <1>1, Values DEF TypeOK, WorkItems
<1>3. /\ \A w \in work' : \/ w \in work /\ w.p # worker.p
                          \/ w = back
      /\ \A w \in work : w.claimed => w.p = worker.p
  BY <1>1 DEF Finished, Held, WorkIsHeld
<1>4. \A w \in work' : ~w.claimed
  BY <1>3
<1>5. TypeOK'
  <2>1. {w \in work' : w.claimed} = {}
    BY <1>4
  <2>2. Cardinality({w \in work' : w.claimed}) = 0
    BY <2>1, FS_EmptySet
  <2>3. back.attempts <= MaxAttempts + MaxFaults
    BY <1>2
  <2>4. work' \subseteq WorkItems /\ \A w \in work' : w.attempts <= MaxAttempts + MaxFaults
    BY <1>1, <1>3, <2>3 DEF TypeOK
  <2> QED
    BY <1>1, <2>2, <2>4 DEF TypeOK
<1>6. Onward
  BY DEF Onward
<1>7. Held'
  <2>1. BatchesAreNumbered'
    BY <1>1 DEF Held, BatchesAreNumbered
  <2>2. ASSUME NEW w \in work'
        PROVE  /\ w.attempts + (IF w.claimed THEN 0 ELSE 1) <= MaxAttempts + faults'
               /\ batch[w.p.batch].status # "none"
    <3>1. CASE w \in work
      <4>1. /\ w.attempts \in Nat
            /\ w.attempts + (IF w.claimed THEN 0 ELSE 1) <= MaxAttempts + faults
            /\ batch[w.p.batch].status # "none"
        BY <1>1, <3>1 DEF TypeOK, WorkItems, Held, WorkIsHeld
      <4> QED
        BY <1>2, <4>1
    <3>2. CASE w = back
      BY <1>1, <1>2, <3>2
    <3> QED
      BY <1>3, <3>1, <3>2
  <2>3. \A v, w \in work' : v.p = w.p => v = w
    BY <1>1, <1>3 DEF Held, WorkIsHeld
  <2> QED
    BY <1>1, <1>4, <2>1, <2>2, <2>3 DEF Held, WorkIsHeld
<1>8. Pages'
  <2>1. \A s \in Stages : arrived[s] <= arrived'[s] /\ arrived'[s] <= Len(Stamps[s])
    BY <1>1, PagesByPart DEF TypeOK
  <2>2. HandlerOK'
    BY <1>1, <1>6, HandlerRests
  <2>3. PayloadIsSound(back.p)'
    <3>1. PICK p : p = back.p
      OBVIOUS
    <3>2. PayloadIsSound(p)'
      BY <1>1, <1>6, <3>1, InHand, PayloadStays
    <3> QED
      BY <3>1, <3>2
  <2>4. \A w \in work' : (\E v \in work : v.p = w.p) \/ PayloadIsSound(w.p)'
    BY <1>3, <2>3
  <2> QED
    BY <1>1, <1>5, <1>6, <2>1, <2>2, <2>4, PagesMove
<1>9. Ledger' /\ Offers'
  BY <1>1, LedgerStays, OffersStay
<1> QED
  BY <1>5, <1>7, <1>8, <1>9 DEF ImportsInv, Ledger, Offers, Held, Pages

LEMMA CompleteKeeps ==
    ASSUME ImportsInv, CompleteBackgroundWork
    PROVE  ImportsInv'
<1>1. /\ worker.pc = "complete" /\ work' = Finished /\ worker' = Idle
      /\ UNCHANGED <<arrived, conn, batch, row, rows, commit, posted, edits, faults>>
  BY DEF CompleteBackgroundWork, At
<1>2. PICK back : back = [p |-> worker.p, attempts |-> 0, claimed |-> FALSE]
  OBVIOUS
<1>3. back \in WorkItems /\ back.p = worker.p /\ ~back.claimed /\ back.attempts = 0
  BY <1>1, <1>2, InHand DEF WorkItems
<1>4. worker' \in Handlers /\ worker'.pc = "idle" /\ 0 < MaxAttempts
  BY <1>1, Records, Values DEF Idle
<1>5. faults' \in 0..MaxFaults /\ faults' >= faults
  BY <1>1, InHand, Values DEF TypeOK
<1> QED
  BY <1>1, <1>3, <1>4, <1>5, HandlerLeaves

LEMMA FailsKeeps ==
    ASSUME ImportsInv, HandlerFails
    PROVE  ImportsInv'
<1>1. /\ worker.pc \in {"fetch", "recheck", "dedupe", "stage", "meta", "enqueue", "cursor"}
      /\ Retry \/ FailBackgroundWork
      /\ (faults < MaxFaults /\ faults' = faults + 1) \/ faults' = faults
      /\ UNCHANGED <<arrived, conn, batch, row, rows, commit, posted, edits>>
  BY DEF HandlerFails
<1>2. worker \in Handlers /\ worker.p \in Payloads /\ worker.attempts \in Nat /\ TypeOK
  BY <1>1, InHand DEF Handlers
<1>3. faults' \in 0..MaxFaults /\ faults' >= faults
  <2>1. faults \in 0..MaxFaults /\ MaxFaults \in Nat
    BY <1>2, Values DEF TypeOK
  <2> QED
    BY <1>1, <2>1
<1>4. CASE Retry
  <2>1. PICK back : back = [p |-> worker.p, attempts |-> worker.attempts, claimed |-> FALSE]
    OBVIOUS
  <2>2. /\ back \in WorkItems /\ back.p = worker.p /\ ~back.claimed
        /\ back.attempts = worker.attempts
    BY <1>2, <2>1 DEF WorkItems
  <2>3. work' = Finished \cup {back} /\ worker' = Idle /\ worker.attempts < MaxAttempts
    BY <1>4, <2>1 DEF Retry
  <2>4. worker' \in Handlers /\ worker'.pc = "idle"
    BY <2>3, Records DEF Idle
  <2> QED
    BY <1>1, <1>3, <2>2, <2>3, <2>4, HandlerLeaves
<1>5. CASE FailBackgroundWork
  <2>1. PICK back : back = [p |-> worker.p, attempts |-> 0, claimed |-> FALSE]
    OBVIOUS
  <2>2. back \in WorkItems /\ back.p = worker.p /\ ~back.claimed /\ back.attempts = 0
    BY <1>2, <2>1 DEF WorkItems
  <2>3. work' = Finished /\ Goto("mark_status")
    BY <1>5 DEF FailBackgroundWork
  <2>4. worker' \in Handlers /\ worker'.pc = "mark_status" /\ worker'.p = worker.p
    BY <1>2, <2>3, TurnFacts
  <2>5. 0 < MaxAttempts
    BY Values
  <2> QED
    BY <1>1, <1>3, <2>2, <2>3, <2>4, <2>5, HandlerLeaves
<1> QED
  BY <1>1, <1>4, <1>5

(* The writes after an item failed for good: nothing is in hand any more.    *)
LEMMA HandlerMarks ==
    ASSUME ImportsInv, worker.pc \in {"mark_status", "mark_meta"},
           NEW new \in ImportBatches, batch' = [batch EXCEPT ![worker.p.batch] = new],
           new.known = batch[worker.p.batch].known,
           new.status = "none" <=> batch[worker.p.batch].status = "none",
           new.fetch = "ready" => batch[worker.p.batch].fetch = "ready",
           worker' \in Handlers,
           worker'.pc = "idle" \/ (worker'.pc = "mark_meta" /\ worker'.p = worker.p),
           UNCHANGED <<arrived, conn, row, rows, work, commit, posted, edits, faults>>
    PROVE  ImportsInv'
<1>1. PICK b : b = worker.p.batch
  OBVIOUS
<1>2. /\ TypeOK /\ Ledger /\ Offers /\ Held /\ Pages /\ HandlerOK
      /\ worker.p \in Payloads /\ b \in Batches /\ batch[b].status # "none"
  BY <1>1, InHand
<1>3. /\ batch' \in [Batches -> ImportBatches] /\ batch'[b] = new
      /\ \A c \in Batches : /\ c # b => batch'[c] = batch[c]
                            /\ batch'[c].known = batch[c].known
                            /\ batch'[c].status = "none" <=> batch[c].status = "none"
  BY <1>1, <1>2, BatchWritten
<1>4. TypeOK'
  BY <1>2, <1>3 DEF TypeOK
<1>5. Onward
  BY <1>3 DEF Onward
<1>6. Held'
  <2>1. {c \in Batches : batch'[c].status # "none"} = {c \in Batches : batch[c].status # "none"}
    BY <1>3
  <2>2. BatchesAreNumbered'
    BY <1>2, <2>1 DEF Held, BatchesAreNumbered
  <2>3. \A w \in work : ~w.claimed /\ w.p.batch \in Batches
    BY <1>2 DEF TypeOK, WorkItems, Payloads, Held, WorkIsHeld
  <2> QED
    BY <1>1, <1>2, <1>3, <2>2, <2>3 DEF Held, WorkIsHeld
<1>7. Pages'
  <2>1. \A s \in Stages : arrived[s] <= arrived'[s] /\ arrived'[s] <= Len(Stamps[s])
    BY <1>2, PagesByPart DEF TypeOK
  <2>2. HandlerOK'
    BY <1>2, <1>5, HandlerRests
  <2>3. \A c \in Batches : batch'[c].fetch = "ready" =>
           batch[c].fetch = "ready" /\ batch'[c].known = batch[c].known
    BY <1>1, <1>3
  <2> QED
    BY <1>2, <1>3, <1>4, <1>5, <2>1, <2>2, <2>3, PagesMove
<1>8. Ledger' /\ Offers'
  BY <1>2, <1>3, LedgerStays, OffersStay
<1> QED
  BY <1>4, <1>6, <1>7, <1>8 DEF ImportsInv, Ledger, Offers, Held, Pages

LEMMA MarkStatusKeeps ==
    ASSUME ImportsInv, MarkBatchFailed
    PROVE  ImportsInv'
<1>1. PICK b, new : b = worker.p.batch /\ new = IF batch[b].status = "previewing"
                                               THEN [batch[b] EXCEPT !.status = "failed"] ELSE batch[b]
  OBVIOUS
<1>2. /\ worker.pc = "mark_status"
      /\ UNCHANGED <<arrived, conn, row, rows, work, commit, posted, edits, faults>>
  BY DEF MarkBatchFailed, At
<1>3. TypeOK /\ b \in Batches /\ worker \in Handlers
  BY <1>1, <1>2, InHand
<1>4. /\ new \in ImportBatches /\ new.known = batch[b].known /\ new.fetch = batch[b].fetch
      /\ new.status = "none" <=> batch[b].status = "none"
  BY <1>1, <1>3 DEF TypeOK, ImportBatches, BatchStatus
<1>5. batch' = [batch EXCEPT ![b] = new]
  <2>1. CASE batch[b].status = "previewing"
    BY <1>1, <2>1 DEF MarkBatchFailed
  <2>2. CASE batch[b].status # "previewing"
    BY <1>1, <1>3, <2>2 DEF MarkBatchFailed, TypeOK
  <2> QED
    BY <2>1, <2>2
<1>6. /\ worker' \in Handlers
      /\ worker'.pc = "idle" \/ (worker'.pc = "mark_meta" /\ worker'.p = worker.p)
  <2>1. worker' = Idle \/ Goto("mark_meta")
    BY DEF MarkBatchFailed
  <2>2. CASE worker' = Idle
    BY <2>2, Records DEF Idle
  <2>3. CASE Goto("mark_meta")
    BY <1>3, <2>3, TurnFacts
  <2> QED
    BY <2>1, <2>2, <2>3
<1> QED
  BY <1>1, <1>2, <1>4, <1>5, <1>6, HandlerMarks

LEMMA MarkMetaKeeps ==
    ASSUME ImportsInv, MarkMetaFailed
    PROVE  ImportsInv'
<1>1. PICK b, new : b = worker.p.batch /\ new = [batch[b] EXCEPT !.fetch = "failed"]
  OBVIOUS
<1>2. /\ worker.pc = "mark_meta" /\ batch' = [batch EXCEPT ![b] = new] /\ worker' = Idle
      /\ UNCHANGED <<arrived, conn, row, rows, work, commit, posted, edits, faults>>
  BY <1>1 DEF MarkMetaFailed, At
<1>3. TypeOK /\ b \in Batches
  BY <1>1, <1>2, InHand
<1>4. /\ new \in ImportBatches /\ new.known = batch[b].known /\ new.fetch = "failed"
      /\ new.status = "none" <=> batch[b].status = "none"
  BY <1>1, <1>3 DEF TypeOK, ImportBatches
<1>5. worker' \in Handlers /\ worker'.pc = "idle"
  BY <1>2, Records DEF Idle
<1> QED
  BY <1>1, <1>2, <1>4, <1>5, HandlerMarks

LEMMA ClaimKeeps ==
    ASSUME ImportsInv, Claim
    PROVE  ImportsInv'
<1>0. TypeOK /\ Ledger /\ Offers /\ Held /\ Pages
  BY InvariantByPart
<1>1. PICK w \in work :
         /\ ~w.claimed
         /\ work' = (work \ {w}) \cup {[w EXCEPT !.attempts = w.attempts + 1, !.claimed = TRUE]}
         /\ worker' = [Idle EXCEPT !.pc = "fetch", !.p = w.p, !.attempts = w.attempts + 1]
  BY DEF Claim
<1>2. /\ worker.pc = "idle"
      /\ UNCHANGED <<arrived, conn, batch, row, rows, commit, posted, edits, faults>>
  BY DEF Claim, At
<1>3. PICK p, n : p = w.p /\ n = w.attempts + 1
  OBVIOUS
<1>4. PICK new : new = [w EXCEPT !.attempts = n, !.claimed = TRUE]
  OBVIOUS
<1>5. w \in WorkItems /\ w.attempts \in Nat /\ p \in Payloads
  BY <1>0, <1>3 DEF TypeOK, WorkItems
<1>6. n \in Nat /\ n = w.attempts + 1
  BY <1>3, <1>5
<1>7. new \in WorkItems /\ new.p = p /\ new.attempts = n /\ new.claimed
  BY <1>3, <1>4, <1>5, <1>6 DEF WorkItems
<1>8. /\ worker' \in Handlers /\ worker'.pc = "fetch" /\ worker'.p = p /\ worker'.attempts = n
  <2>1. worker' = [Idle EXCEPT !.pc = "fetch", !.p = p, !.attempts = n]
    BY <1>1, <1>3
  <2> QED
    BY <1>5, <1>6, <2>1, Records DEF Handlers
<1>9. work' = (work \ {w}) \cup {new}
  BY <1>1, <1>3, <1>4
<1>10. \A v \in work : ~v.claimed
  BY <1>0, <1>2 DEF Held, WorkIsHeld
<1>11. n <= MaxAttempts + faults /\ n <= MaxAttempts + MaxFaults
  <2>1. w.attempts + 1 <= MaxAttempts + faults
    BY <1>0, <1>1 DEF Held, WorkIsHeld
  <2>2. faults \in Nat /\ faults <= MaxFaults /\ MaxAttempts \in Nat /\ MaxFaults \in Nat
    BY <1>0, Values DEF TypeOK
  <2> QED
    BY <1>6, <2>1, <2>2
<1>12. TypeOK'
  <2>1. {v \in work' : v.claimed} = {new}
    BY <1>7, <1>9, <1>10
  <2>2. Cardinality({v \in work' : v.claimed}) = 1
    BY <2>1, FS_Singleton
  <2>3. work' \subseteq WorkItems /\ \A v \in work' : v.attempts <= MaxAttempts + MaxFaults
    BY <1>0, <1>7, <1>9, <1>11 DEF TypeOK
  <2> QED
    BY <1>0, <1>2, <1>8, <2>2, <2>3 DEF TypeOK
<1>13. Onward
  BY <1>2 DEF Onward
<1>14. Held'
  <2>1. BatchesAreNumbered'
    BY <1>0, <1>2 DEF Held, BatchesAreNumbered
  <2>2. batch[p.batch].status # "none"
    BY <1>0, <1>3 DEF Held, WorkIsHeld
  <2>3. \A u, v \in work' : u.p = v.p => u = v
    BY <1>0, <1>3, <1>7, <1>9 DEF Held, WorkIsHeld
  <2>4. ASSUME NEW v \in work'
        PROVE  /\ v.attempts + (IF v.claimed THEN 0 ELSE 1) <= MaxAttempts + faults
               /\ v.claimed => v.p = p /\ v.attempts = n
               /\ batch[v.p.batch].status # "none"
    <3>1. CASE v \in work
      BY <1>0, <1>10, <3>1 DEF Held, WorkIsHeld
    <3>2. CASE v = new
      <4>1. n + 0 <= MaxAttempts + faults
        BY <1>6, <1>11
      <4> QED
        BY <1>7, <2>2, <3>2, <4>1
    <3> QED
      BY <1>9, <3>1, <3>2
  <2> QED
    BY <1>2, <1>5, <1>8, <2>1, <2>2, <2>3, <2>4 DEF Held, WorkIsHeld
<1>15. Pages'
  <2>1. \A s \in Stages : arrived[s] <= arrived'[s] /\ arrived'[s] <= Len(Stamps[s])
    BY <1>0, <1>2, PagesByPart DEF TypeOK
  <2>2. PayloadIsSound(p)'
    BY <1>0, <1>3, <1>5, <1>13, PagesByPart, PayloadStays DEF Held, WorkIsHeld
  <2>3. HandlerOK'
    BY <1>8, <2>2 DEF HandlerOK
  <2>4. \A v \in work' : \E u \in work : u.p = v.p
    BY <1>3, <1>7, <1>9
  <2> QED
    BY <1>0, <1>2, <1>12, <1>13, <2>1, <2>3, <2>4, PagesMove
<1>16. Ledger' /\ Offers'
  BY <1>0, <1>2, <1>8, LedgerStays, OffersStay
<1> QED
  BY <1>12, <1>14, <1>15, <1>16 DEF ImportsInv, Ledger, Offers, Held, Pages

(* The process dies: work in hand is free again, requests are gone.          *)
LEMMA CrashKeeps ==
    ASSUME ImportsInv, Crash
    PROVE  ImportsInv'
<1>0. TypeOK /\ Ledger /\ Offers /\ Held /\ Pages
  BY InvariantByPart
<1>1. /\ faults < MaxFaults /\ faults' = faults + 1 /\ worker' = Idle
      /\ commit' = [u \in Committers |-> NoCommit]
      /\ work' = {[w EXCEPT !.claimed = FALSE] : w \in work}
      /\ UNCHANGED <<arrived, conn, batch, row, rows, posted, edits>>
  BY DEF Crash
<1>2. ASSUME NEW v \in work'
      PROVE  \E w \in work : /\ v = [w EXCEPT !.claimed = FALSE]
                             /\ v \in WorkItems /\ v.p = w.p /\ v.attempts = w.attempts
                             /\ ~v.claimed /\ w.attempts \in Nat
  <2>1. PICK w \in work : v = [w EXCEPT !.claimed = FALSE]
    BY <1>1
  <2>2. w \in WorkItems
    BY <1>0 DEF TypeOK
  <2> QED
    BY <2>1, <2>2 DEF WorkItems
<1>3. /\ faults \in Nat /\ faults' \in 0..MaxFaults /\ faults' >= faults /\ MaxAttempts \in Nat
      /\ MaxFaults \in Nat
  <2>1. faults \in 0..MaxFaults /\ MaxFaults \in Nat /\ MaxAttempts \in Nat
    BY <1>0, Values DEF TypeOK
  <2> QED
    BY <1>1, <2>1
<1>4. TypeOK'
  <2>1. {v \in work' : v.claimed} = {}
    BY <1>2
  <2>2. Cardinality({v \in work' : v.claimed}) = 0
    BY <2>1, FS_EmptySet
  <2>3. work' \subseteq WorkItems
    BY <1>2
  <2>4. \A v \in work' : v.attempts <= MaxAttempts + MaxFaults
    BY <1>0, <1>2 DEF TypeOK
  <2>5. worker' \in Handlers /\ commit' \in [Committers -> Commits]
    BY <1>1, Records
  <2> QED
    BY <1>0, <1>1, <1>3, <2>2, <2>3, <2>4, <2>5 DEF TypeOK
<1>5. Onward
  BY <1>1 DEF Onward
<1>6. Held'
  <2>1. BatchesAreNumbered'
    BY <1>0, <1>1 DEF Held, BatchesAreNumbered
  <2>2. ASSUME NEW v \in work'
        PROVE  /\ v.attempts + 1 <= MaxAttempts + faults' /\ ~v.claimed
               /\ batch[v.p.batch].status # "none"
    <3>1. PICK w \in work : /\ v.p = w.p /\ v.attempts = w.attempts
                            /\ ~v.claimed /\ w.attempts \in Nat
      BY <1>2
    <3>2. /\ w.attempts + (IF w.claimed THEN 0 ELSE 1) <= MaxAttempts + faults
          /\ batch[w.p.batch].status # "none"
      BY <1>0 DEF Held, WorkIsHeld
    <3>3. w.attempts <= MaxAttempts + faults
      BY <1>3, <3>1, <3>2
    <3>4. w.attempts + 1 <= MaxAttempts + faults'
      BY <1>1, <1>3, <3>1, <3>3
    <3> QED
      BY <3>1, <3>2, <3>4
  <2>3. ASSUME NEW u \in work', NEW v \in work', u.p = v.p PROVE u = v
    <3>1. PICK x \in work : u = [x EXCEPT !.claimed = FALSE] /\ u.p = x.p
      BY <1>2
    <3>2. PICK y \in work : v = [y EXCEPT !.claimed = FALSE] /\ v.p = y.p
      BY <1>2
    <3>3. x = y
      BY <1>0, <2>3, <3>1, <3>2 DEF Held, WorkIsHeld
    <3> QED
      BY <3>1, <3>2, <3>3
  <2>4. worker'.pc = "idle"
    BY <1>1 DEF Idle
  <2> QED
    BY <1>1, <2>1, <2>2, <2>3, <2>4 DEF Held, WorkIsHeld
<1>7. Pages'
  <2>1. \A s \in Stages : arrived[s] <= arrived'[s] /\ arrived'[s] <= Len(Stamps[s])
    BY <1>0, <1>1, PagesByPart DEF TypeOK
  <2>2. HandlerOK'
    BY <1>1 DEF HandlerOK, Idle
  <2>3. \A v \in work' : \E w \in work : w.p = v.p
    BY <1>2
  <2> QED
    BY <1>0, <1>1, <1>4, <1>5, <2>1, <2>2, <2>3, PagesMove
<1>8. Ledger'
  <2>1. CommitsAreSound'
    BY <1>1 DEF CommitsAreSound, NoCommit
  <2> QED
    BY <1>0, <1>1, <2>1 DEF Ledger, PostedOnce, PostedIsMarked
<1>9. Offers'
  BY <1>0, <1>1, OffersStay DEF Idle
<1> QED
  BY <1>4, <1>6, <1>7, <1>8, <1>9 DEF ImportsInv, Ledger, Offers, Held, Pages

-----------------------------------------------------------------------------
(* The commit requests *)

LEMMA RequestFacts ==
    ASSUME ImportsInv, NEW u \in Committers
    PROVE  /\ TypeOK /\ Ledger
           /\ commit[u] \in Commits
           /\ commit[u].snap \in Snapshots /\ commit[u].seen \in SUBSET Outcomes
           /\ commit[u].pc # "idle" => /\ commit[u].batch \in Batches
                                       /\ batch[commit[u].batch].status # "none"
           /\ DOMAIN commit[u].snap \subseteq 1..rows
           /\ commit[u].pc \in {"skip", "write", "adopt"} => commit[u].cur \in 1..rows
           /\ commit[u].pc = "adopt" => row[commit[u].cur].item \in Identities
           /\ 1..rows \subseteq RowIds
           /\ \A r \in DOMAIN commit[u].snap : commit[u].snap[r] \in StagedRows
<1>1. TypeOK /\ Ledger
  BY InvariantByPart
<1>2. commit[u] \in Commits /\ commit[u].snap \in Snapshots /\ commit[u].seen \in SUBSET Outcomes
  BY <1>1 DEF TypeOK, Commits
<1>3. 1..rows \subseteq RowIds
  BY <1>1, Values DEF TypeOK, RowIds
<1>4. \A r \in DOMAIN commit[u].snap : commit[u].snap[r] \in StagedRows
  <2>1. PICK R \in SUBSET RowIds : commit[u].snap \in [R -> StagedRows]
    BY <1>2 DEF Snapshots
  <2> QED
    BY <2>1
<1> QED
  BY <1>1, <1>2, <1>3, <1>4 DEF Ledger, CommitsAreSound

LEMMA WithoutFacts ==
    ASSUME NEW snap \in Snapshots, NEW r
    PROVE  Without(snap, r) \in Snapshots /\ DOMAIN Without(snap, r) \subseteq DOMAIN snap
<1>1. PICK R \in SUBSET RowIds : snap \in [R -> StagedRows]
  BY DEF Snapshots
<1>2. Without(snap, r) \in [R \ {r} -> StagedRows] /\ R \ {r} \in SUBSET RowIds
  BY <1>1 DEF Without
<1> QED
  BY <1>1, <1>2 DEF Snapshots

(* A request that has counted an outcome goes on with fewer rows.            *)
LEMMA CountedFacts ==
    ASSUME NEW c \in Commits, NEW r, NEW outcome \in Outcomes
    PROVE  /\ Counted(c, r, outcome) \in Commits
           /\ Counted(c, r, outcome).pc = "row"
           /\ Counted(c, r, outcome).batch = c.batch
           /\ DOMAIN Counted(c, r, outcome).snap \subseteq DOMAIN c.snap
<1>1. PICK snap, seen : snap = Without(c.snap, r) /\ seen = c.seen \cup {outcome}
  OBVIOUS
<1>2. c.snap \in Snapshots /\ c.seen \in SUBSET Outcomes
  BY DEF Commits
<1>3. snap \in Snapshots /\ DOMAIN snap \subseteq DOMAIN c.snap /\ seen \in SUBSET Outcomes
  BY <1>1, <1>2, WithoutFacts
<1>4. Counted(c, r, outcome) = [c EXCEPT !.pc = "row", !.cur = 0, !.seen = seen, !.snap = snap]
  BY <1>1 DEF Counted
<1> QED
  BY <1>3, <1>4 DEF Commits

(* A request moves, and with it outcomes, postings or a status.              *)
LEMMA RequestMoves ==
    ASSUME ImportsInv, NEW u \in Committers, NEW new \in Commits,
           commit' = [commit EXCEPT ![u] = new],
           new.pc # "idle" => new.batch \in Batches /\ batch[new.batch].status # "none",
           DOMAIN new.snap \subseteq 1..rows,
           new.pc \in {"skip", "write", "adopt"} => new.cur \in 1..rows,
           new.pc = "adopt" => row[new.cur].item \in Identities,
           UNCHANGED <<arrived, conn, rows, work, worker, edits, faults>>,
           row' \in [RowIds -> StagedRows],
           \A r \in 1..rows : /\ row'[r].item = row[r].item /\ row'[r].batch = row[r].batch
                              /\ row'[r].staged = row[r].staged,
           batch' \in [Batches -> ImportBatches],
           \A b \in Batches : /\ batch'[b].known = batch[b].known /\ batch'[b].fetch = batch[b].fetch
                              /\ batch'[b].status = "none" <=> batch[b].status = "none",
           posted' \in [Items -> Nat], \A i \in Items : posted'[i] >= posted[i],
           PostedOnce', PostedIsMarked'
    PROVE  ImportsInv'
<1>1. TypeOK /\ Ledger
  BY InvariantByPart
<1>2. commit \in [Committers -> Commits] /\ posted \in [Items -> Nat] /\ rows \in 0..MaxRows
  BY <1>1 DEF TypeOK
<1>3. commit' \in [Committers -> Commits] /\ commit'[u] = new
      /\ \A v \in Committers : v # u => commit'[v] = commit[v]
  BY <1>2
<1>4. TypeOK'
  <2>1. \A r \in 1..rows' : row'[r].batch \in Batches /\ row'[r].item \in Items
    BY <1>1 DEF TypeOK
  <2> QED
    BY <1>1, <1>3, <2>1 DEF TypeOK
<1>5. Ledger'
  <2>1. Identities \subseteq Identities'
    BY <1>2 DEF Identities
  <2>2. ASSUME NEW v \in Committers
        PROVE  /\ commit'[v].pc # "idle" => /\ commit'[v].batch \in Batches
                                            /\ batch'[commit'[v].batch].status # "none"
               /\ DOMAIN commit'[v].snap \subseteq 1..rows'
               /\ commit'[v].pc \in {"skip", "write", "adopt"} => commit'[v].cur \in 1..rows'
               /\ commit'[v].pc = "adopt" => row'[commit'[v].cur].item \in Identities'
    <3>1. CASE v = u
      BY <1>3, <2>1, <3>1
    <3>2. CASE v # u
      BY <1>3, <2>1, <3>2, RequestFacts
    <3> QED
      BY <3>1, <3>2
  <2> QED
    BY <2>2 DEF Ledger, CommitsAreSound
<1> QED
  BY <1>4, <1>5, ReviewMoves

(* The steps in which a request only reads.                                  *)
LEMMA RequestReads ==
    ASSUME ImportsInv, NEW u \in Committers, NEW new \in Commits,
           commit' = [commit EXCEPT ![u] = new],
           new.pc # "idle" => new.batch \in Batches /\ batch[new.batch].status # "none",
           DOMAIN new.snap \subseteq 1..rows,
           new.pc \in {"skip", "write", "adopt"} => new.cur \in 1..rows,
           new.pc = "adopt" => row[new.cur].item \in Identities,
           UNCHANGED <<arrived, conn, batch, row, rows, work, worker, posted, edits, faults>>
    PROVE  ImportsInv'
<1>1. TypeOK /\ Ledger
  BY InvariantByPart
<1>2. /\ row' \in [RowIds -> StagedRows] /\ batch' \in [Batches -> ImportBatches]
      /\ posted' \in [Items -> Nat] /\ \A i \in Items : posted'[i] >= posted[i]
  BY <1>1 DEF TypeOK
<1>3. PostedOnce' /\ PostedIsMarked'
  BY <1>1 DEF Ledger, PostedOnce, PostedIsMarked
<1> QED
  BY <1>2, <1>3, RequestMoves

LEMMA OpenKeeps ==
    ASSUME ImportsInv, NEW u \in Committers, NEW b \in Batches, OpenCommit(u, b)
    PROVE  ImportsInv'
<1>1. PICK new : new = [NoCommit EXCEPT !.pc = "list", !.batch = b]
  OBVIOUS
<1>2. /\ Reviewable(batch[b].status) /\ commit' = [commit EXCEPT ![u] = new]
      /\ UNCHANGED <<arrived, conn, batch, row, rows, work, worker, posted, edits, faults>>
  BY <1>1 DEF OpenCommit
<1>3. new \in Commits /\ new.pc = "list" /\ new.batch = b /\ DOMAIN new.snap = {}
  <2>1. NoCommit.snap = [r \in {} |-> NoRow] /\ DOMAIN NoCommit.snap = {}
    BY DEF NoCommit
  <2>2. new.snap = NoCommit.snap
    BY <1>1, Records DEF Commits
  <2> QED
    BY <1>1, <2>1, <2>2, Records DEF Commits
<1>4. batch[b].status # "none"
  BY <1>2 DEF Reviewable
<1> QED
  BY <1>2, <1>3, <1>4, RequestReads

LEMMA ListKeeps ==
    ASSUME ImportsInv, NEW u \in Committers, ListRows(u)
    PROVE  ImportsInv'
<1>1. PICK c, snap, new : /\ c = commit[u] /\ snap = [r \in RowsOf(c.batch) |-> row[r]]
                          /\ new = [c EXCEPT !.pc = "row", !.snap = snap]
  OBVIOUS
<1>2. /\ c.pc = "list" /\ commit' = [commit EXCEPT ![u] = new]
      /\ UNCHANGED <<arrived, conn, batch, row, rows, work, worker, posted, edits, faults>>
  BY <1>1 DEF ListRows
<1>3. /\ TypeOK /\ c \in Commits /\ 1..rows \subseteq RowIds
      /\ c.batch \in Batches /\ batch[c.batch].status # "none"
  BY <1>1, <1>2, RequestFacts
<1>4. snap \in Snapshots /\ DOMAIN snap \subseteq 1..rows
  <2>1. RowsOf(c.batch) \subseteq 1..rows /\ RowsOf(c.batch) \in SUBSET RowIds
    BY <1>3 DEF RowsOf
  <2>2. snap \in [RowsOf(c.batch) -> StagedRows]
    BY <1>1, <1>3, <2>1 DEF TypeOK
  <2> QED
    BY <2>1, <2>2 DEF Snapshots
<1>5. new \in Commits /\ new.pc = "row" /\ new.batch = c.batch /\ new.snap = snap
  BY <1>1, <1>3, <1>4 DEF Commits
<1> QED
  BY <1>2, <1>3, <1>4, <1>5, RequestReads

LEMMA TakeKeeps ==
    ASSUME ImportsInv, NEW u \in Committers, TakeRow(u)
    PROVE  ImportsInv'
<1>1. PICK c : c = commit[u]
  OBVIOUS
<1>2. /\ c.pc = "row"
      /\ UNCHANGED <<arrived, conn, batch, row, rows, work, worker, posted, edits, faults>>
  BY <1>1 DEF TakeRow
<1>3. PICK r \in DOMAIN c.snap, pc \in {"skip", "write"} :
         commit' = [commit EXCEPT ![u] = [c EXCEPT !.cur = r, !.pc = pc]]
  <2>1. PICK r \in DOMAIN c.snap :
           commit' = [commit EXCEPT ![u].cur = r, ![u].pc =
              IF c.snap[r].dedupe \in {"duplicate", "excluded"} \/ c.snap[r].item \in Identities
              THEN "skip" ELSE "write"]
    BY <1>1 DEF TakeRow
  <2>2. PICK pc : pc = IF c.snap[r].dedupe \in {"duplicate", "excluded"} \/ c.snap[r].item \in Identities
                       THEN "skip" ELSE "write"
    OBVIOUS
  <2>3. commit' = [commit EXCEPT ![u] = [c EXCEPT !.cur = r, !.pc = pc]]
    BY <1>1, <2>1, <2>2
  <2> QED
    BY <2>2, <2>3
<1>4. PICK new : new = [c EXCEPT !.cur = r, !.pc = pc]
  OBVIOUS
<1>5. /\ c \in Commits /\ c.batch \in Batches /\ batch[c.batch].status # "none"
      /\ DOMAIN c.snap \subseteq 1..rows /\ 1..rows \subseteq RowIds
  BY <1>1, <1>2, RequestFacts
<1>6. /\ new \in Commits /\ new.pc = pc /\ new.cur = r /\ new.batch = c.batch /\ new.snap = c.snap
  BY <1>4, <1>5 DEF Commits
<1> QED
  BY <1>2, <1>3, <1>4, <1>5, <1>6, RequestReads

LEMMA SettledKeeps ==
    ASSUME ImportsInv, NEW u \in Committers, CountSettled(u)
    PROVE  ImportsInv'
<1>1. PICK c : c = commit[u]
  OBVIOUS
<1>2. /\ c.pc = "row"
      /\ UNCHANGED <<arrived, conn, batch, row, rows, work, worker, posted, edits, faults>>
  BY <1>1 DEF CountSettled
<1>3. PICK r \in DOMAIN c.snap : commit' = [commit EXCEPT ![u] = Counted(c, r, c.snap[r].status)]
  BY <1>1 DEF CountSettled
<1>4. /\ c \in Commits /\ c.batch \in Batches /\ batch[c.batch].status # "none"
      /\ DOMAIN c.snap \subseteq 1..rows /\ c.snap[r] \in StagedRows
  BY <1>1, <1>2, RequestFacts
<1>5. PICK o, new : o = c.snap[r].status /\ new = Counted(c, r, o)
  OBVIOUS
<1>6. o \in Outcomes
  BY <1>4, <1>5 DEF StagedRows
<1>7. /\ new \in Commits /\ new.pc = "row" /\ new.batch = c.batch
      /\ DOMAIN new.snap \subseteq DOMAIN c.snap
  BY <1>4, <1>5, <1>6, CountedFacts
<1> QED
  BY <1>2, <1>3, <1>4, <1>5, <1>7, RequestReads

(* An outcome is written on a row, with the posting it stands for.           *)
LEMMA OutcomeKeeps ==
    ASSUME ImportsInv, NEW u \in Committers, commit[u].pc \in {"skip", "write", "adopt"},
           NEW r, r = commit[u].cur, NEW status \in Outcomes, NEW outcome \in Outcomes, Done(u, outcome),
           row' = [row EXCEPT ![r] = [row[r] EXCEPT !.status = status]],
           posted' \in [Items -> Nat], \A i \in Items : posted'[i] >= posted[i],
           PostedOnce',
           \A i \in Items : posted'[i] > 0 <=> posted[i] > 0 \/ (status = "committed" /\ i = row[r].item),
           row[r].status = "committed" => status = "committed",
           UNCHANGED <<arrived, conn, batch, rows, work, worker, edits, faults>>
    PROVE  ImportsInv'
<1>1. PICK c, new : c = commit[u] /\ new = Counted(c, r, outcome)
  OBVIOUS
<1>2. /\ TypeOK /\ Ledger /\ c \in Commits /\ c.batch \in Batches /\ batch[c.batch].status # "none"
      /\ DOMAIN c.snap \subseteq 1..rows /\ r \in 1..rows /\ 1..rows \subseteq RowIds
  BY <1>1, RequestFacts
<1>3. /\ new \in Commits /\ new.pc = "row" /\ new.batch = c.batch
      /\ DOMAIN new.snap \subseteq DOMAIN c.snap
  BY <1>1, <1>2, CountedFacts
<1>4. commit' = [commit EXCEPT ![u] = new]
  BY <1>1 DEF Done
<1>5. PICK settled : settled = [row[r] EXCEPT !.status = status]
  OBVIOUS
<1>6. row[r] \in StagedRows
  BY <1>2 DEF TypeOK
<1>7. /\ settled \in StagedRows /\ settled.item = row[r].item /\ settled.batch = row[r].batch
      /\ settled.staged = row[r].staged /\ settled.status = status
  BY <1>5, <1>6 DEF StagedRows
<1>8. /\ row' \in [RowIds -> StagedRows]
      /\ \A q \in 1..rows : /\ row'[q].item = row[q].item /\ row'[q].batch = row[q].batch
                            /\ row'[q].staged = row[q].staged
      /\ \A q \in 1..rows : q # r => row'[q] = row[q]
      /\ row'[r].status = status
  <2>1. row' = [row EXCEPT ![r] = settled]
    BY <1>5
  <2> QED
    BY <1>2, <1>7, <2>1, RowOutcome
<1>9. PostedIsMarked'
  <2>1. ASSUME NEW i \in Items
        PROVE  posted'[i] > 0 <=> \E q \in 1..rows : row'[q].item = i /\ row'[q].status = "committed"
    <3>1. posted[i] > 0 <=> \E q \in 1..rows : row[q].item = i /\ row[q].status = "committed"
      BY <1>2 DEF Ledger, PostedIsMarked
    <3>2. (\E q \in 1..rows : row'[q].item = i /\ row'[q].status = "committed")
             <=> \/ \E q \in 1..rows : row[q].item = i /\ row[q].status = "committed"
                 \/ row[r].item = i /\ status = "committed"
      BY <1>2, <1>8
    <3> QED
      BY <3>1, <3>2
  <2> QED
    BY <2>1 DEF PostedIsMarked
<1>10. batch' \in [Batches -> ImportBatches]
  BY <1>2 DEF TypeOK
<1> QED
  BY <1>2, <1>3, <1>4, <1>8, <1>9, <1>10, RequestMoves

(* A request counts what it found settled. *)
LEMMA DoneKeeps ==
    ASSUME ImportsInv, NEW u \in Committers, commit[u].pc # "idle",
           NEW outcome \in Outcomes, Done(u, outcome),
           UNCHANGED <<arrived, conn, batch, row, rows, work, worker, posted, edits, faults>>
    PROVE  ImportsInv'
<1>1. PICK c, new : c = commit[u] /\ new = Counted(c, c.cur, outcome)
  OBVIOUS
<1>2. /\ c \in Commits /\ c.batch \in Batches /\ batch[c.batch].status # "none"
      /\ DOMAIN c.snap \subseteq 1..rows
  BY <1>1, RequestFacts
<1>3. /\ new \in Commits /\ new.pc = "row" /\ new.batch = c.batch
      /\ DOMAIN new.snap \subseteq DOMAIN c.snap
  BY <1>1, <1>2, CountedFacts
<1>4. commit' = [commit EXCEPT ![u] = new]
  BY <1>1 DEF Done
<1> QED
  BY <1>2, <1>3, <1>4, RequestReads

LEMMA AbortKeeps ==
    ASSUME ImportsInv, NEW u \in Committers, Abort(u),
           UNCHANGED <<arrived, conn, batch, row, rows, work, worker, posted, edits, faults>>
    PROVE  ImportsInv'
<1>1. NoCommit \in Commits /\ NoCommit.pc = "idle" /\ DOMAIN NoCommit.snap = {}
  BY Records DEF NoCommit
<1>2. commit' = [commit EXCEPT ![u] = NoCommit]
  BY DEF Abort
<1>3. PICK new : new = NoCommit
  OBVIOUS
<1> QED
  BY <1>1, <1>2, <1>3, RequestReads

LEMMA RecordKeeps ==
    ASSUME ImportsInv, NEW u \in Committers, commit[u].pc \in {"skip", "write"},
           NEW status \in {"skipped", "failed", "pending"}, Record(u, commit[u].cur, status)
    PROVE  ImportsInv'
<1>1. PICK r : r = commit[u].cur
  OBVIOUS
<1>2. TypeOK /\ Ledger /\ {"committed", status} \subseteq Outcomes
  BY RequestFacts DEF Outcomes
<1>3. UNCHANGED <<arrived, conn, batch, rows, work, worker, posted, edits, faults>>
  BY DEF Record
<1>4. CASE row[r].status = "committed"
  BY <1>1, <1>2, <1>3, <1>4, DoneKeeps DEF Record
<1>5. CASE row[r].status # "committed" /\ ~BatchOpen(r)
  BY <1>1, <1>3, <1>5, AbortKeeps DEF Record
<1>6. CASE row[r].status # "committed" /\ BatchOpen(r)
  <2>1. row' = [row EXCEPT ![r] = [row[r] EXCEPT !.status = status]] /\ Done(u, status)
    BY <1>1, <1>6 DEF Record
  <2>2. posted' \in [Items -> Nat] /\ \A i \in Items : posted'[i] >= posted[i]
    BY <1>2, <1>3 DEF TypeOK
  <2>3. PostedOnce'
    BY <1>2, <1>3 DEF Ledger, PostedOnce
  <2> QED
    BY <1>1, <1>2, <1>3, <1>6, <2>1, <2>2, <2>3, OutcomeKeeps
<1> QED
  BY <1>4, <1>5, <1>6

LEMMA EffectsKeeps ==
    ASSUME ImportsInv, NEW u \in Committers, CommitImportedEffects(u)
    PROVE  ImportsInv'
<1>1. PICK c, r, i : c = commit[u] /\ r = c.cur /\ i = row[r].item
  OBVIOUS
<1>2. /\ c.pc = "write"
      /\ UNCHANGED <<arrived, conn, batch, rows, work, worker, edits, faults>>
  BY <1>1 DEF CommitImportedEffects
<1>3. /\ TypeOK /\ Ledger /\ c \in Commits /\ r \in 1..rows
      /\ c.batch \in Batches /\ batch[c.batch].status # "none" /\ DOMAIN c.snap \subseteq 1..rows
  BY <1>1, <1>2, RequestFacts
<1>4. i \in Items /\ "committed" \in Outcomes
  BY <1>1, <1>3 DEF TypeOK, Outcomes
<1>5. CASE i \in Identities
  <2>1. PICK new : new = [c EXCEPT !.pc = "adopt"]
    OBVIOUS
  <2>2. commit' = [commit EXCEPT ![u] = new] /\ UNCHANGED <<row, posted>>
    BY <1>1, <1>5, <2>1 DEF CommitImportedEffects, Conflict
  <2>3. /\ new \in Commits /\ new.pc = "adopt" /\ new.cur = r /\ new.batch = c.batch
        /\ new.snap = c.snap
    BY <1>1, <1>3, <2>1 DEF Commits
  <2> QED
    BY <1>1, <1>2, <1>3, <1>5, <2>2, <2>3, RequestReads
<1>6. CASE i \notin Identities /\ ~BatchOpen(r)
  BY <1>1, <1>2, <1>6, AbortKeeps DEF CommitImportedEffects, Conflict
<1>7. CASE i \notin Identities /\ BatchOpen(r)
  <2>1. /\ posted' = [posted EXCEPT ![i] = posted[i] + 1]
        /\ row' = [row EXCEPT ![r] = [row[r] EXCEPT !.status = "committed"]]
        /\ Done(u, "committed")
    BY <1>1, <1>7 DEF CommitImportedEffects, Conflict
  <2>2. posted \in [Items -> Nat] /\ posted[i] = 0
    BY <1>3, <1>4, <1>7 DEF TypeOK, Identities
  <2>3. /\ posted' \in [Items -> Nat] /\ posted'[i] = 1
        /\ \A j \in Items : j # i => posted'[j] = posted[j]
    BY <1>4, <2>1, <2>2
  <2>4. /\ \A j \in Items : posted'[j] >= posted[j]
        /\ \A j \in Items : posted'[j] > 0 <=> posted[j] > 0 \/ j = i
    BY <2>2, <2>3
  <2>5. PostedOnce'
    BY <1>3, <2>3 DEF Ledger, PostedOnce
  <2> QED
    BY <1>1, <1>2, <1>4, <2>1, <2>3, <2>4, <2>5, OutcomeKeeps
<1> QED
  BY <1>5, <1>6, <1>7

LEMMA AdoptKeeps ==
    ASSUME ImportsInv, NEW u \in Committers, Adopt(u)
    PROVE  ImportsInv'
<1>1. PICK r : r = commit[u].cur
  OBVIOUS
<1>2. /\ commit[u].pc = "adopt" /\ Done(u, "committed")
      /\ UNCHANGED <<arrived, conn, batch, rows, work, worker, posted, edits, faults>>
  BY DEF Adopt
<1>3. /\ TypeOK /\ Ledger /\ r \in 1..rows /\ row[r].item \in Identities /\ "committed" \in Outcomes
  BY <1>1, <1>2, RequestFacts DEF Outcomes
<1>4. CASE row[r].status \in {"pending", "failed"} /\ BatchOpen(r)
  <2>1. row' = [row EXCEPT ![r] = [row[r] EXCEPT !.status = "committed"]]
    BY <1>1, <1>4 DEF Adopt
  <2>2. posted' \in [Items -> Nat] /\ \A i \in Items : posted'[i] >= posted[i]
    BY <1>2, <1>3 DEF TypeOK
  <2>3. PostedOnce'
    BY <1>2, <1>3 DEF Ledger, PostedOnce
  <2>4. \A i \in Items : posted'[i] > 0 <=> posted[i] > 0 \/ i = row[r].item
    BY <1>2, <1>3 DEF Identities
  <2> QED
    BY <1>1, <1>2, <1>3, <2>1, <2>2, <2>3, <2>4, OutcomeKeeps
<1>5. CASE ~(row[r].status \in {"pending", "failed"} /\ BatchOpen(r))
  <2>1. row' = row
    BY <1>1, <1>5 DEF Adopt
  <2> QED
    BY <1>2, <1>3, <2>1, DoneKeeps
<1> QED
  BY <1>4, <1>5

LEMMA FinishKeeps ==
    ASSUME ImportsInv, NEW u \in Committers, FinishCommit(u)
    PROVE  ImportsInv'
<1>1. PICK b, status, new :
         /\ b = commit[u].batch
         /\ status = IF batch[b].status = "discarded" THEN batch[b].status ELSE FinalStatus(commit[u].seen)
         /\ new = [batch[b] EXCEPT !.status = status]
  OBVIOUS
<1>2. /\ commit[u].pc = "row" /\ commit' = [commit EXCEPT ![u] = NoCommit]
      /\ UNCHANGED <<arrived, conn, row, rows, work, worker, posted, edits, faults>>
  BY DEF FinishCommit, Abort
<1>3. /\ TypeOK /\ Ledger /\ b \in Batches /\ batch[b].status # "none"
  BY <1>1, <1>2, RequestFacts
<1>4. FinalStatus(commit[u].seen) \in {"committed", "partially_committed", "failed"}
  <2>1. CASE "pending" \in commit[u].seen
    BY <2>1 DEF FinalStatus
  <2>2. CASE "pending" \notin commit[u].seen /\ "failed" \in commit[u].seen
    BY <2>2 DEF FinalStatus
  <2>3. CASE "pending" \notin commit[u].seen /\ "failed" \notin commit[u].seen
    BY <2>3 DEF FinalStatus
  <2> QED
    BY <2>1, <2>2, <2>3
<1>5. status \in BatchStatus \ {"none"}
  BY <1>1, <1>3, <1>4 DEF BatchStatus
<1>6. /\ new \in ImportBatches /\ new.known = batch[b].known /\ new.fetch = batch[b].fetch
      /\ new.status # "none"
  BY <1>1, <1>3, <1>5 DEF TypeOK, ImportBatches
<1>7. batch' = [batch EXCEPT ![b] = new]
  <2>1. CASE batch[b].status = "discarded"
    <3>1. new = batch[b]
      BY <1>1, <1>3, <2>1 DEF TypeOK, ImportBatches
    <3>2. batch' = batch
      BY <1>1, <2>1 DEF FinishCommit
    <3> QED
      BY <1>3, <3>1, <3>2 DEF TypeOK
  <2>2. CASE batch[b].status # "discarded"
    BY <1>1, <2>2 DEF FinishCommit
  <2> QED
    BY <2>1, <2>2
<1>8. /\ batch' \in [Batches -> ImportBatches] /\ batch'[b] = new
      /\ \A c \in Batches : /\ c # b => batch'[c] = batch[c]
                            /\ batch'[c].known = batch[c].known
                            /\ batch'[c].status = "none" <=> batch[c].status = "none"
  BY <1>3, <1>6, <1>7, BatchWritten
<1>9. \A c \in Batches : batch'[c].fetch = batch[c].fetch
  BY <1>6, <1>8
<1>10. /\ row' \in [RowIds -> StagedRows]
       /\ posted' \in [Items -> Nat] /\ \A i \in Items : posted'[i] >= posted[i]
  BY <1>2, <1>3 DEF TypeOK
<1>11. PostedOnce' /\ PostedIsMarked'
  BY <1>2, <1>3 DEF Ledger, PostedOnce, PostedIsMarked
<1>12. PICK none : none = NoCommit
  OBVIOUS
<1>13. none \in Commits /\ none.pc = "idle" /\ DOMAIN none.snap = {}
  BY <1>12, Records DEF NoCommit
<1> QED
  BY <1>2, <1>8, <1>9, <1>10, <1>11, <1>12, <1>13, RequestMoves

-----------------------------------------------------------------------------
(* The theorems *)

LEMMA StepKeeps ==
    ASSUME ImportsInv, [Next]_vars
    PROVE  ImportsInv'
<1>1. ASSUME NEW s \in Stages, Arrive(s) PROVE ImportsInv'
  BY <1>1, ArriveKeeps
<1>2. ASSUME NEW incremental \in BOOLEAN, StartOnlineImportBatch(incremental) PROVE ImportsInv'
  BY <1>2, StartKeeps
<1>3. ASSUME NEW b \in Batches, DiscardImportBatch(b) PROVE ImportsInv'
  BY <1>3, DiscardKeeps
<1>4. ASSUME NEW r \in RowIds, NEW d \in {"new", "excluded"}, PatchImportStagedRow(r, d) PROVE ImportsInv'
  BY <1>4, PatchKeeps
<1>5. CASE DeleteImportConnection
  BY <1>5, DeleteKeeps
<1>6. CASE WorkerStep
  BY <1>6, ClaimKeeps, FetchKeeps, ThrottledKeeps, BatchClosedKeeps, RecheckKeeps, DedupeKeeps, InsertKeeps,
     MetaKeeps, EnqueueKeeps, CursorKeeps, CompleteKeeps, FailsKeeps, MarkStatusKeeps, MarkMetaKeeps DEF WorkerStep
<1>7. ASSUME NEW u \in Committers, CommitStep(u) PROVE ImportsInv'
  <2>1. ASSUME NEW b \in Batches, OpenCommit(u, b) PROVE ImportsInv'
    BY <2>1, OpenKeeps
  <2>2. CASE SkipRow(u)
    BY <2>2, RecordKeeps DEF SkipRow
  <2>3. CASE FailRow(u)
    BY <2>3, RecordKeeps DEF FailRow
  <2>4. CASE HoldRow(u)
    BY <2>4, RecordKeeps DEF HoldRow
  <2> QED
    BY <1>7, <2>1, <2>2, <2>3, <2>4, ListKeeps, TakeKeeps, SettledKeeps, EffectsKeeps, AdoptKeeps,
       FinishKeeps DEF CommitStep
<1>8. CASE Crash
  BY <1>8, CrashKeeps
<1>9. CASE UNCHANGED vars
  <2>1. TypeOK /\ Ledger
    BY InvariantByPart
  <2>2. UNCHANGED <<arrived, conn, batch, row, rows, work, worker, commit, posted, edits, faults>>
    BY <1>9 DEF vars
  <2>3. TypeOK'
    BY <2>1, <2>2 DEF TypeOK
  <2>4. Ledger'
    BY <2>1, <2>2, LedgerStays
  <2> QED
    BY <2>2, <2>3, <2>4, ReviewMoves
<1> QED
  BY <1>1, <1>2, <1>3, <1>4, <1>5, <1>6, <1>7, <1>8, <1>9 DEF Next

(* The invariant of the import: what is in hand, what is staged and what is  *)
(* posted agree after every step of the worker, the owner and the commits.   *)
THEOREM ImportsInvariance == Spec => []ImportsInv
<1>1. ImportsInv /\ [Next]_vars => ImportsInv'
  BY StepKeeps
<1> QED
  BY <1>1, InitSound, PTL DEF Spec

(* An item becomes at most one ledger transaction, whatever overlaps         *)
(* (CommitImportedEffects, the identity of an imported item).                *)
THEOREM OnePostingPerItem == Spec => []PostedOnce
<1>1. ImportsInv => PostedOnce
  BY DEF ImportsInv
<1> QED
  BY <1>1, ImportsInvariance, PTL

(* Rows are marked for the items that are posted and for no others           *)
(* (recordImportStagedRowTerminal, resolveConcurrentImportCommit).           *)
THEOREM ReviewAgreesWithLedger == Spec => []ReviewIsSound
<1>1. ImportsInv => ReviewIsSound
  BY DEF ImportsInv, ReviewIsSound
<1> QED
  BY <1>1, ImportsInvariance, PTL

(* A batch offers an item as new once, however often its page is read        *)
(* (stageParseResult).                                                       *)
THEOREM NewIsOfferedOnce == Spec => []OfferedOnce
<1>1. ImportsInv => OfferedOnce
  BY DEF ImportsInv
<1> QED
  BY <1>1, ImportsInvariance, PTL

(* Neither a fetch that ended nor the cursor the next one starts from has    *)
(* passed an item that is not staged (fetchPaginated, UpdateFetchCursor).    *)
THEOREM NothingIsLeftOut == Spec => []NothingIsSkipped
<1>1. ASSUME ImportsInv PROVE NothingIsSkipped
  <2>1. TypeOK /\ Pages
    BY <1>1, InvariantByPart
  <2>2. ASSUME NEW s \in Stages, NEW k \in 1..arrived[s], Stamps[s][k] < conn.cursor[s]
        PROVE  Staged(<<s, k>>)
    <3>1. arrived[s] \in Nat /\ arrived[s] <= Len(Stamps[s]) /\ Len(Stamps[s]) \in Nat
      BY <2>1, Values, PagesByPart DEF TypeOK
    <3>2. k \in 1..Len(Stamps[s])
      BY <3>1
    <3> QED
      BY <2>1, <2>2, <3>2, PagesByPart DEF Covers
  <2> QED
    BY <2>1, <2>2 DEF NothingIsSkipped, CursorIsCovered, Pages
<1> QED
  BY <1>1, ImportsInvariance, PTL

(* Only a row that is open and not committed gets an outcome. *)
LEMMA OutcomeStays ==
    ASSUME ImportsInv, [Next]_vars, NEW r \in 1..rows,
           batch[row[r].batch].status = "discarded" \/ row[r].status = "committed"
    PROVE  row'[r].status = row[r].status
<1>1. /\ TypeOK /\ row \in [RowIds -> StagedRows] /\ 1..rows \subseteq RowIds
  BY Values, InvariantByPart DEF TypeOK, RowIds
<1>2. ASSUME NEW q \in 1..rows, NEW status,
             row' = [row EXCEPT ![q] = [row[q] EXCEPT !.status = status]],
             BatchOpen(q) /\ (row[q].status # "committed" \/ status = "committed")
      PROVE  row'[r].status = row[r].status
  <2>1. CASE q = r
    <3>1. row[q].status = "committed" /\ status = "committed"
      BY <1>2, <2>1 DEF BatchOpen
    <3>2. row'[q].status = status
      BY <1>1, <1>2 DEF StagedRows
    <3> QED
      BY <2>1, <3>1, <3>2
  <2>2. CASE q # r
    BY <1>1, <1>2, <2>2
  <2> QED
    BY <2>1, <2>2
<1>3. ASSUME NEW q \in RowIds, NEW d \in {"new", "excluded"}, PatchImportStagedRow(q, d)
      PROVE  row'[r].status = row[r].status
  <2>1. /\ q \in 1..rows /\ row[q].status # "committed" /\ batch[row[q].batch].status # "discarded"
        /\ row' = [row EXCEPT ![q] = [row[q] EXCEPT !.dedupe = d, !.status = "pending"]]
    BY <1>3 DEF PatchImportStagedRow, Reviewable
  <2>2. q # r
    BY <2>1
  <2> QED
    BY <1>1, <2>1, <2>2
<1>4. CASE WorkerStep
  <2>1. CASE InsertImportStagedRows
    <3>1. \E new : row' = [row EXCEPT ![rows + 1] = new]
      BY <2>1 DEF InsertImportStagedRows
    <3>2. r # rows + 1
      BY <1>1 DEF TypeOK
    <3> QED
      BY <1>1, <3>1, <3>2
  <2>2. CASE row' = row
    BY <2>2
  <2> QED
    BY <1>4, <2>1, <2>2 DEF WorkerStep, Claim, Fetch, Throttled, BatchClosed, Recheck, DedupeStatus,
       UpdateImportBatchSourceMeta, EnqueueContinuation, UpdateFetchCursor, CompleteBackgroundWork,
       HandlerFails, MarkBatchFailed, MarkMetaFailed
<1>5. ASSUME NEW u \in Committers, CommitStep(u)
      PROVE  row'[r].status = row[r].status
  <2>1. ASSUME NEW status, commit[u].pc \in {"skip", "write"}, Record(u, commit[u].cur, status)
        PROVE  row'[r].status = row[r].status
    <3>1. commit[u].cur \in 1..rows
      BY <2>1, RequestFacts
    <3>2. \/ row' = row
          \/ /\ row' = [row EXCEPT ![commit[u].cur] = [row[commit[u].cur] EXCEPT !.status = status]]
             /\ BatchOpen(commit[u].cur) /\ row[commit[u].cur].status # "committed"
      BY <2>1 DEF Record
    <3> QED
      BY <1>2, <3>1, <3>2
  <2>2. CASE CommitImportedEffects(u)
    <3>1. commit[u].cur \in 1..rows
      BY <2>2, RequestFacts DEF CommitImportedEffects
    <3>2. \/ row' = row
          \/ /\ row' = [row EXCEPT ![commit[u].cur] = [row[commit[u].cur] EXCEPT !.status = "committed"]]
             /\ BatchOpen(commit[u].cur)
      BY <2>2 DEF CommitImportedEffects
    <3> QED
      BY <1>2, <3>1, <3>2
  <2>3. CASE Adopt(u)
    <3>1. commit[u].cur \in 1..rows
      BY <2>3, RequestFacts DEF Adopt
    <3>2. \/ row' = row
          \/ /\ row' = [row EXCEPT ![commit[u].cur] = [row[commit[u].cur] EXCEPT !.status = "committed"]]
             /\ BatchOpen(commit[u].cur)
      BY <2>3 DEF Adopt
    <3> QED
      BY <1>2, <3>1, <3>2
  <2>4. SkipRow(u) \/ FailRow(u) \/ HoldRow(u) => row'[r].status = row[r].status
    BY <2>1 DEF SkipRow, FailRow, HoldRow
  <2> QED
    BY <1>5, <2>2, <2>3, <2>4 DEF CommitStep, OpenCommit, ListRows, TakeRow, CountSettled, FinishCommit
<1>6. ASSUME row' = row PROVE row'[r].status = row[r].status
  BY <1>6
<1>7. CASE \/ \E s \in Stages : Arrive(s)
           \/ \E incremental \in BOOLEAN : StartOnlineImportBatch(incremental)
           \/ \E b \in Batches : DiscardImportBatch(b)
           \/ DeleteImportConnection \/ Crash \/ UNCHANGED vars
  BY <1>7 DEF Arrive, StartOnlineImportBatch, DiscardImportBatch, DeleteImportConnection, Crash, vars
<1> QED
  BY <1>3, <1>4, <1>5, <1>7 DEF Next

(* A discard wins over a commit under way, and what is committed stays so    *)
(* (DiscardImportBatch, recordImportStagedRowTerminal).                      *)
THEOREM SettledOutcomesStand == Spec => OutcomesStand
<1>1. ImportsInv /\ [Next]_vars =>
         [\A r \in 1..rows :
             batch[row[r].batch].status = "discarded" \/ row[r].status = "committed"
             => row'[r].status = row[r].status]_vars
  BY OutcomeStays
<1> QED
  BY <1>1, ImportsInvariance, PTL DEF Spec, OutcomesStand
=============================================================================
