---------------------------- MODULE RecurringProofs ----------------------------
(***************************************************************************)
(* For any templates, schedules, sweeps and requests of the owner: a date  *)
(* has one draft exactly when its row says so, the watermark passes over   *)
(* no date that is not recorded, drafts are made from the template as it   *)
(* is, decided dates stay and no write undoes a later one.                 *)
(*                                                                         *)
(* Every transaction compares the revision of the template it was read     *)
(* from.  So the argument is about what a snapshot knows: it is not newer  *)
(* than the template, and as long as the revision stands the template is   *)
(* still what was read, and every date of an opened window that has no row *)
(* is still on the list.  A step takes a template forward in its           *)
(* revisions and a date out of "none", so snapshots of others stay sound.  *)
(*                                                                         *)
(* The last part is about the rules behind the schedules.  For every rule  *)
(* that validates, whatever its frequency, interval and anchor, the series *)
(* begins on the anchor or later and every step of it is a day or more     *)
(* (SeriesAscends), so a rule names a day at most once and the walk comes  *)
(* to an end for every window (WalkStops).  Daily and weekly series step   *)
(* by whole days; a monthly or yearly one steps by months and clamps its   *)
(* day in each, and the first of a later month is behind the last day of   *)
(* an earlier one, by a day for every month between them, over leap years  *)
(* and century years.                                                      *)
(***************************************************************************)
EXTENDS Recurring, RecurrenceRules, FiniteSetTheorems, SequenceTheorems, WellFoundedInduction, TLAPS

-----------------------------------------------------------------------------
(* The parts of the invariant: of one template, one sweep, one request *)

TemplateOK(t) ==
    /\ template[t].revision = 0 => template[t] = Absent
    /\ template[t].revision # 0 => template[t].schedule \in Schedules
    /\ template[t].postings <= template[t].revision
    /\ base[t].revision <= template[t].revision

DatesOK(t) ==
    /\ \A d \in Days :
          Len(drafts[t][d]) = IF occurrence[t][d].status = "generated" THEN 1 ELSE 0
    /\ template[t] # Absent =>
          \A d \in DatesOf[template[t].schedule] :
              d \in base[t].from..(template[t].from - 1) => occurrence[t][d].status # "none"
    /\ \A d \in Days : occurrence[t][d].status = "none" => occurrence[t][d] = NoRow

EntryOK(g, i) ==
    /\ Known(sweep[g].list[i].row, sweep[g].list[i].id)
    /\ sweep[g].pc # "postings" => SamePostings(sweep[g].list[i].row, sweep[g].list[i].id)
    /\ i > 1 \/ sweep[g].pc # "making" => SameRow(sweep[g].list[i].row, sweep[g].list[i].id)

SweepOK(g) ==
    /\ \A i \in DOMAIN sweep[g].list : EntryOK(g, i)
    /\ sweep[g].pc = "making" => WindowIsListed(g)

RequestOK(u) ==
    user[u].pc # "idle" =>
        /\ Known(user[u].row, user[u].id) /\ user[u].what \in Requests
        /\ user[u].pc # "postings" => SamePostings(user[u].row, user[u].id)
        /\ user[u].what \in Edits \/ user[u].pc # "write" => SameRow(user[u].row, user[u].id)
        /\ user[u].what \in Reviews => user[u].date \in Days
        /\ user[u].pc = "write" /\ user[u].what = "retry" => user[u].seen.status = "blocked"

(* The invariant by its parts. *)
LEMMA InvariantByPart ==
    RecurringInv <=> /\ TypeOK
                     /\ \A t \in Ids : TemplateOK(t) /\ DatesOK(t)
                     /\ \A g \in Generators : SweepOK(g)
                     /\ \A u \in Users : RequestOK(u)
BY DEF RecurringInv, OneDraftPerDate, NothingPassedOver, UnrecordedIsBlank, TemplatesAreSound, SweepsAreSound,
       RequestsAreSound, TemplateOK, DatesOK, EntryOK, SweepOK, RequestOK

-----------------------------------------------------------------------------
(* Values *)

(* The constants, and the records the model begins with. *)
LEMMA Values ==
    /\ \A s \in Schedules : DatesOf[s] \subseteq Days /\ DatesOf[s] \subseteq Nat
                            /\ StartsOn[s] \in Nat
    /\ Days \subseteq Nat
    /\ \A t \in Ids : Lead[t] \in Nat
    /\ WindowDays \in Nat \ {0} /\ TickCap \in Nat \ {0}
    /\ MaxDay \in Nat /\ MaxFaults \in Nat
    /\ IsFiniteSet(Ids)
BY RecurringAssumption DEF RecurringAssumption, Days, Ids

LEMMA Records ==
    /\ Absent \in Rows
    /\ NoRow \in Marks
    /\ NoSweep \in Sweeps
    /\ NoRequest \in OwnerRequests
<1>1. Absent \in Rows
  BY DEF Absent, Rows
<1>2. NoRow \in Marks
  BY DEF NoRow, Marks
<1>3. << >> \in Seq([id: Ids, row: Rows]) /\ 0 \in 0..TickCap
  BY Values, EmptySeq
<1>4. NoSweep \in Sweeps
  BY <1>3 DEF NoSweep, Sweeps
<1>5. NoRequest \in OwnerRequests
  BY <1>1, <1>2 DEF NoRequest, OwnerRequests
<1> QED
  BY <1>1, <1>2, <1>4, <1>5

(* The later and the sooner of two days are days. *)
LEMMA LaterSooner ==
    ASSUME NEW a \in Nat, NEW b \in Nat
    PROVE  /\ Later(a, b) \in Nat /\ Later(a, b) >= a /\ Later(a, b) >= b
           /\ Sooner(a, b) \in Nat
BY DEF Later, Sooner

-----------------------------------------------------------------------------
(* Steps *)

(* Templates go forward in their revisions, dates do not go back to "none". *)
Forward ==
    /\ \A t \in Ids : \/ template'[t] = template[t]
                      \/ /\ template'[t].revision \in Nat
                         /\ template'[t].revision > template[t].revision
    /\ \A t \in Ids, d \in Days :
          occurrence'[t][d].status = "none" => occurrence[t][d].status = "none"

(* A snapshot stays what it is while templates go forward. *)
LEMMA SnapshotStays ==
    ASSUME TypeOK, Forward, NEW row \in Rows, NEW t \in Ids, Known(row, t)
    PROVE  /\ Known(row, t)'
           /\ SamePostings(row, t) => SamePostings(row, t)'
           /\ SameRow(row, t) => SameRow(row, t)'
<1>1. template[t].revision \in Nat /\ row.revision \in Nat
  BY DEF TypeOK, Rows
<1>2. CASE template'[t] = template[t]
  BY <1>2 DEF Known, SamePostings, SameRow
<1>3. CASE template'[t].revision \in Nat /\ template'[t].revision > template[t].revision
  <2>1. row.revision \in 1..template'[t].revision /\ row.revision # template'[t].revision
    BY <1>1, <1>3 DEF Known
  <2> QED
    BY <2>1 DEF Known, SamePostings, SameRow
<1> QED
  BY <1>2, <1>3 DEF Forward

(* The entries of a sweep's list are snapshots. *)
LEMMA Entries ==
    ASSUME TypeOK, NEW g \in Generators
    PROVE  /\ sweep[g] \in Sweeps
           /\ sweep[g].list \in Seq([id: Ids, row: Rows])
           /\ Len(sweep[g].list) \in Nat
           /\ DOMAIN sweep[g].list = 1..Len(sweep[g].list)
           /\ \A i \in DOMAIN sweep[g].list :
                 sweep[g].list[i].row \in Rows /\ sweep[g].list[i].id \in Ids
<1>1. sweep[g] \in Sweeps /\ sweep[g].list \in Seq([id: Ids, row: Rows])
  BY DEF TypeOK, Sweeps
<1>2. Len(sweep[g].list) \in Nat /\ DOMAIN sweep[g].list = 1..Len(sweep[g].list)
  BY <1>1, LenProperties
<1>3. \A i \in DOMAIN sweep[g].list : sweep[g].list[i] \in [id: Ids, row: Rows]
  BY <1>1, <1>2, ElementOfSeq
<1> QED
  BY <1>1, <1>2, <1>3

(* The template at work is the first on the list. *)
LEMMA AtWork ==
    ASSUME TypeOK, NEW g \in Generators, sweep[g].list # << >>
    PROVE  /\ At(g) = sweep[g].list[1] /\ 1 \in DOMAIN sweep[g].list
           /\ At(g).id \in Ids /\ At(g).row \in Rows
<1>1. /\ sweep[g].list \in Seq([id: Ids, row: Rows])
      /\ DOMAIN sweep[g].list = 1..Len(sweep[g].list)
  BY Entries
<1>2. Len(sweep[g].list) \in Nat \ {0}
  BY <1>1, EmptySeq
<1>3. At(g) = sweep[g].list[1]
  BY <1>1 DEF At
<1> QED
  BY <1>1, <1>2, <1>3, Entries

(* An entry of a list stays what it is while templates go forward. *)
LEMMA EntryStays ==
    ASSUME RecurringInv, Forward, NEW g \in Generators, NEW i \in DOMAIN sweep[g].list,
           NEW row, row = sweep[g].list[i].row, NEW t, t = sweep[g].list[i].id
    PROVE  /\ row \in Rows /\ t \in Ids
           /\ Known(row, t)'
           /\ sweep[g].pc # "postings" => SamePostings(row, t)'
           /\ i > 1 \/ sweep[g].pc # "making" => SameRow(row, t)'
<1>0. TypeOK /\ SweepOK(g)
  BY InvariantByPart
<1>1. row \in Rows /\ t \in Ids
  BY <1>0, Entries
<1>2. /\ Known(row, t)
      /\ sweep[g].pc # "postings" => SamePostings(row, t)
      /\ i > 1 \/ sweep[g].pc # "making" => SameRow(row, t)
  BY <1>0 DEF SweepOK, EntryOK
<1> QED
  BY <1>0, <1>1, <1>2, SnapshotStays

(* What an entry has to be after a step. *)
LEMMA EntryHolds ==
    ASSUME NEW g, NEW i, NEW row, NEW t,
           sweep'[g].list[i].row = row, sweep'[g].list[i].id = t,
           Known(row, t)',
           sweep'[g].pc # "postings" => SamePostings(row, t)',
           i > 1 \/ sweep'[g].pc # "making" => SameRow(row, t)'
    PROVE  EntryOK(g, i)'
BY DEF EntryOK, Known, SamePostings, SameRow

(* A sweep that does not move stays sound. *)
LEMMA SweepStays ==
    ASSUME RecurringInv, Forward, NEW g \in Generators, sweep'[g] = sweep[g]
    PROVE  SweepOK(g)'
<1>0. TypeOK /\ SweepOK(g) /\ \A t \in Ids : TemplateOK(t)
  BY InvariantByPart
<1>2. ASSUME NEW i \in DOMAIN sweep[g].list PROVE EntryOK(g, i)'
  <2>1. PICK row, t : row = sweep[g].list[i].row /\ t = sweep[g].list[i].id
    OBVIOUS
  <2>2. /\ Known(row, t)'
        /\ sweep[g].pc # "postings" => SamePostings(row, t)'
        /\ i > 1 \/ sweep[g].pc # "making" => SameRow(row, t)'
    BY <2>1, EntryStays
  <2> QED
    BY <2>1, <2>2, EntryHolds
<1>3. ASSUME sweep[g].pc = "making" PROVE WindowIsListed(g)'
  <2>1. WindowIsListed(g) /\ sweep[g].list # << >>
    BY <1>0, <1>3 DEF SweepOK, WindowIsListed
  <2>2. PICK t : t = At(g).id
    OBVIOUS
  <2>3. t \in Ids /\ 1 \in DOMAIN sweep[g].list /\ At(g) = sweep[g].list[1]
    BY <1>0, <2>1, <2>2, AtWork
  <2>4. template[t].revision \in Nat /\ At(g).row.revision \in 1..template[t].revision
    BY <1>0, <2>2, <2>3 DEF SweepOK, EntryOK, Known, TypeOK, Rows
  <2>5. At(g)' = At(g)
    BY DEF At
  <2>6. CASE template'[t] = template[t]
    <3>1. PICK D : D = DatesOf[template[t].schedule]
      OBVIOUS
    <3>2. D \subseteq Days
      BY <1>0, <2>3, <2>4, <3>1, Values DEF TemplateOK
    <3>3. ASSUME At(g).row.revision = template[t].revision
          PROVE  /\ sweep[g].due \subseteq {d \in D : d >= template[t].from}
                 /\ \A d \in D : d \in template[t].from..sweep[g].end
                                  /\ occurrence'[t][d].status = "none" => d \in sweep[g].due
      BY <2>1, <2>2, <2>3, <3>1, <3>2, <3>3 DEF WindowIsListed, Forward
    <3> QED
      BY <2>1, <2>2, <2>5, <2>6, <3>1, <3>3 DEF WindowIsListed
  <2>7. CASE template'[t].revision \in Nat /\ template'[t].revision > template[t].revision
    BY <2>1, <2>2, <2>4, <2>5, <2>7 DEF WindowIsListed
  <2> QED
    BY <2>3, <2>6, <2>7 DEF Forward
<1> QED
  BY <1>2, <1>3 DEF SweepOK

(* A request that does not move stays sound. *)
LEMMA RequestStays ==
    ASSUME RecurringInv, Forward, NEW u \in Users, user'[u] = user[u]
    PROVE  RequestOK(u)'
<1>0. TypeOK /\ RequestOK(u)
  BY InvariantByPart
<1>1. PICK row, t : row = user[u].row /\ t = user[u].id
  OBVIOUS
<1>2. row \in Rows
  BY <1>0, <1>1 DEF TypeOK, OwnerRequests
<1>3. ASSUME user[u].pc # "idle"
      PROVE  /\ Known(row, t)'
             /\ SamePostings(row, t) => SamePostings(row, t)'
             /\ SameRow(row, t) => SameRow(row, t)'
  <2>1. Known(row, t) /\ t \in Ids
    BY <1>0, <1>1, <1>3 DEF RequestOK, Known
  <2> QED
    BY <1>0, <1>2, <2>1, SnapshotStays
<1>4. /\ Known(user[u].row, user[u].id)' <=> Known(row, t)'
      /\ SamePostings(user[u].row, user[u].id)' <=> SamePostings(row, t)'
      /\ SameRow(user[u].row, user[u].id)' <=> SameRow(row, t)'
  BY <1>1 DEF Known, SamePostings, SameRow
<1> QED
  BY <1>0, <1>1, <1>3, <1>4 DEF RequestOK

(* The steps that move one sweep or one request and write nothing else keep  *)
(* the invariant when what moved is sound.                                   *)
LEMMA StepKeepsInv ==
    ASSUME RecurringInv, TypeOK', Forward,
           \A t \in Ids : TemplateOK(t)' /\ DatesOK(t)',
           \A g \in Generators : sweep'[g] = sweep[g] \/ SweepOK(g)',
           \A u \in Users : user'[u] = user[u] \/ RequestOK(u)'
    PROVE  RecurringInv'
<1>1. \A g \in Generators : SweepOK(g)'
  BY SweepStays
<1>2. \A u \in Users : RequestOK(u)'
  BY RequestStays
<1> QED
  BY <1>1, <1>2 DEF RecurringInv, OneDraftPerDate, NothingPassedOver, UnrecordedIsBlank, TemplatesAreSound,
       SweepsAreSound, RequestsAreSound, TemplateOK, DatesOK, EntryOK, SweepOK, RequestOK

(* Nothing but a sweep or a request moves: the table is as it was.           *)
LEMMA TableStays ==
    ASSUME RecurringInv, UNCHANGED <<template, occurrence, drafts, base>>
    PROVE  Forward /\ \A t \in Ids : TemplateOK(t)' /\ DatesOK(t)'
<1>1. \A t \in Ids : TemplateOK(t) /\ DatesOK(t)
  BY InvariantByPart
<1>2. Absent' = Absent /\ NoRow' = NoRow
  BY DEF Absent, NoRow
<1> QED
  BY <1>1, <1>2 DEF Forward, TemplateOK, DatesOK

LEMMA SweepMoves ==
    ASSUME RecurringInv, NEW g \in Generators, NEW new \in Sweeps,
           sweep' = [sweep EXCEPT ![g] = new], SweepOK(g)',
           UNCHANGED <<template, occurrence, drafts, base, user, today>>,
           faults' \in 0..MaxFaults
    PROVE  RecurringInv'
<1>0. TypeOK
  BY InvariantByPart
<1>1. Forward /\ \A t \in Ids : TemplateOK(t)' /\ DatesOK(t)'
  BY TableStays
<1>2. TypeOK'
  BY <1>0 DEF TypeOK
<1>3. \A h \in Generators : sweep'[h] = sweep[h] \/ SweepOK(h)'
  BY <1>0 DEF TypeOK
<1> QED
  BY <1>1, <1>2, <1>3, StepKeepsInv

LEMMA RequestMoves ==
    ASSUME RecurringInv, NEW u \in Users, NEW new \in OwnerRequests,
           user' = [user EXCEPT ![u] = new], RequestOK(u)',
           UNCHANGED <<template, occurrence, drafts, base, sweep, today, faults>>
    PROVE  RecurringInv'
<1>0. TypeOK
  BY InvariantByPart
<1>1. Forward /\ \A t \in Ids : TemplateOK(t)' /\ DatesOK(t)'
  BY TableStays
<1>2. TypeOK'
  BY <1>0 DEF TypeOK
<1>3. \A v \in Users : user'[v] = user[v] \/ RequestOK(v)'
  BY <1>0 DEF TypeOK
<1> QED
  BY <1>1, <1>2, <1>3, StepKeepsInv

(* A sweep, or a request, that is over knows nothing.                        *)
LEMMA IdleIsSound ==
    /\ \A g \in Generators : sweep'[g] = NoSweep => SweepOK(g)'
    /\ \A u \in Users : user'[u] = NoRequest => RequestOK(u)'
BY DEF NoSweep, NoRequest, SweepOK, RequestOK

-----------------------------------------------------------------------------
(* The sweeps *)

(* The next template: what is left of the list stays known. *)
LEMMA NextTemplateIsSound ==
    ASSUME RecurringInv, Forward, NEW g \in Generators,
           sweep[g].list # << >>, sweep[g].pc \in {"open", "making"}
    PROVE  /\ NextTemplate(g) \in Sweeps
           /\ sweep'[g] = NextTemplate(g) => SweepOK(g)'
<1>0. TypeOK
  BY InvariantByPart
<1> DEFINE L == sweep[g].list
<1>1. L \in Seq([id: Ids, row: Rows]) /\ sweep[g] \in Sweeps
      /\ Len(L) \in Nat /\ DOMAIN L = 1..Len(L)
  BY <1>0, Entries
<1>2. /\ Tail(L) \in Seq([id: Ids, row: Rows])
      /\ Len(Tail(L)) = Len(L) - 1
      /\ \A i \in 1..Len(Tail(L)) : Tail(L)[i] = L[i + 1]
  BY <1>1, HeadTailProperties
<1>3. DOMAIN Tail(L) = 1..Len(Tail(L))
  BY <1>2, LenProperties
<1>4. NextTemplate(g) \in Sweeps
  BY <1>1, <1>2 DEF NextTemplate, Sweeps
<1>5. NextTemplate(g).list = Tail(L) /\ NextTemplate(g).pc = "open"
  BY <1>1 DEF NextTemplate, Sweeps
<1> HIDE DEF L
<1>6. ASSUME sweep'[g] = NextTemplate(g), NEW i \in DOMAIN Tail(L)
      PROVE  EntryOK(g, i)'
  <2>1. i \in Nat /\ i + 1 \in DOMAIN L /\ i + 1 > 1 /\ Tail(L)[i] = L[i + 1]
    BY <1>1, <1>2, <1>3
  <2>2. PICK row, t : row = L[i + 1].row /\ t = L[i + 1].id
    OBVIOUS
  <2>3. Known(row, t)' /\ SamePostings(row, t)' /\ SameRow(row, t)'
    BY <2>1, <2>2, EntryStays DEF L
  <2>4. sweep'[g].list[i].row = row /\ sweep'[g].list[i].id = t
    BY <1>5, <1>6, <2>1, <2>2
  <2> QED
    BY <2>3, <2>4, EntryHolds
<1>7. ASSUME sweep'[g] = NextTemplate(g) PROVE SweepOK(g)'
  BY <1>5, <1>6, <1>7 DEF SweepOK
<1> QED
  BY <1>4, <1>7

(* A date that has a row leaves the list of its window. *)
LEMMA DateLeavesList ==
    ASSUME RecurringInv, Forward, NEW g \in Generators, sweep[g].pc = "making",
           NEW d, NEW m \in 0..TickCap,
           template' = template,
           occurrence'[At(g).id][d].status # "none",
           sweep'[g] = [sweep[g] EXCEPT !.due = @ \ {d}, !.made = m]
    PROVE  sweep'[g] \in Sweeps /\ SweepOK(g)'
<1>0. TypeOK /\ SweepOK(g) /\ \A t \in Ids : TemplateOK(t)
  BY InvariantByPart
<1>1. sweep[g] \in Sweeps
  BY <1>0 DEF TypeOK
<1>2. /\ sweep'[g] \in Sweeps
      /\ sweep'[g].list = sweep[g].list /\ sweep'[g].pc = "making"
      /\ sweep'[g].due = sweep[g].due \ {d} /\ sweep'[g].end = sweep[g].end
  BY <1>1 DEF Sweeps
<1>3. ASSUME NEW i \in DOMAIN sweep[g].list PROVE EntryOK(g, i)'
  <2>1. PICK row, t : row = sweep[g].list[i].row /\ t = sweep[g].list[i].id
    OBVIOUS
  <2>2. /\ Known(row, t)' /\ SamePostings(row, t)'
        /\ i > 1 => SameRow(row, t)'
    BY <2>1, EntryStays
  <2> QED
    BY <1>2, <2>1, <2>2, EntryHolds
<1>4. WindowIsListed(g)'
  <2>1. WindowIsListed(g) /\ sweep[g].list # << >>
    BY <1>0 DEF SweepOK, WindowIsListed
  <2>2. PICK t, D : t = At(g).id /\ D = DatesOf[template[t].schedule]
    OBVIOUS
  <2>3. t \in Ids /\ 1 \in DOMAIN sweep[g].list /\ At(g) = sweep[g].list[1]
    BY <1>0, <2>1, <2>2, AtWork
  <2>4. template[t].revision \in Nat /\ At(g).row.revision \in 1..template[t].revision
    BY <1>0, <2>2, <2>3 DEF SweepOK, EntryOK, Known, TypeOK, Rows
  <2>5. D \subseteq Days
    <3>1. template[t].revision # 0
      BY <2>4
    <3>2. template[t].schedule \in Schedules
      BY <1>0, <2>3, <3>1 DEF TemplateOK
    <3> QED
      BY <2>2, <3>2, Values
  <2>6. At(g)' = At(g)
    BY <1>2 DEF At
  <2>7. ASSUME At(g).row.revision = template[t].revision
        PROVE  /\ sweep'[g].due \subseteq {e \in D : e >= template[t].from}
               /\ \A e \in D : e \in template[t].from..sweep[g].end
                                /\ occurrence'[t][e].status = "none" => e \in sweep'[g].due
    BY <1>2, <2>1, <2>2, <2>3, <2>5, <2>7 DEF WindowIsListed, Forward
  <2> QED
    BY <1>2, <2>1, <2>2, <2>6, <2>7 DEF WindowIsListed
<1> QED
  BY <1>2, <1>3, <1>4 DEF SweepOK

LEMMA BeginSweepStep ==
    ASSUME RecurringInv, NEW g \in Generators, BeginSweep(g)
    PROVE  RecurringInv'
<1> DEFINE new == [NoSweep EXCEPT !.pc = "list", !.day = today]
<1>0. TypeOK
  BY InvariantByPart
<1>1. new \in Sweeps /\ new.list = << >> /\ new.pc = "list"
  <2>1. today \in Nat
    BY <1>0, Values DEF TypeOK
  <2>2. new = [NoSweep EXCEPT !.pc = "list", !.day = today]
    OBVIOUS
  <2> HIDE DEF new
  <2>3. new = [pc |-> "list", day |-> today, list |-> << >>, due |-> {}, end |-> 0, made |-> 0]
    BY <2>2 DEF NoSweep
  <2> QED
    BY <2>1, <2>3, Values, EmptySeq DEF Sweeps
<1>2. sweep' = [sweep EXCEPT ![g] = new] /\ sweep'[g] = new
  BY <1>0 DEF BeginSweep, TypeOK
<1>3. SweepOK(g)'
  <2>1. sweep'[g].list = << >> /\ sweep'[g].pc = "list"
    BY <1>1, <1>2
  <2> QED
    BY <2>1 DEF SweepOK
<1> HIDE DEF new
<1> QED
  BY <1>0, <1>1, <1>2, <1>3, SweepMoves DEF BeginSweep, TypeOK

(* Every sweep that ends or is lost forgets all it knew. *)
LEMMA SweepEndsStep ==
    ASSUME RecurringInv, NEW g \in Generators, CapReached(g) \/ EndSweep(g) \/ LoseSweep(g)
    PROVE  RecurringInv'
<1>0. TypeOK
  BY InvariantByPart
<1>1. sweep' = [sweep EXCEPT ![g] = NoSweep] /\ sweep'[g] = NoSweep
  BY <1>0 DEF CapReached, EndSweep, LoseSweep, TypeOK
<1>2. faults' \in 0..MaxFaults
  BY <1>0, Values DEF CapReached, EndSweep, LoseSweep, TypeOK
<1>3. UNCHANGED <<template, occurrence, drafts, base, user, today>>
  BY DEF CapReached, EndSweep, LoseSweep
<1> QED
  BY <1>1, <1>2, <1>3, Records, IdleIsSound, SweepMoves

(* A list of ids is a sequence of them. *)
LEMMA OrderedIds ==
    ASSUME NEW ids \in SUBSET Ids, NEW list \in InOrder(ids)
    PROVE  list \in Seq(ids)
<1>1. IsFiniteSet(ids) /\ Cardinality(ids) \in Nat
  BY Values, FS_Subset, FS_CardinalityType
<1>2. list \in [1..Cardinality(ids) -> ids]
  BY DEF InOrder
<1> QED
  BY <1>1, <1>2, SeqDef

LEMMA ReadTemplatesStep ==
    ASSUME RecurringInv, NEW g \in Generators, ReadTemplates(g)
    PROVE  RecurringInv'
<1>0. TypeOK /\ \A t \in Ids : TemplateOK(t)
  BY InvariantByPart
<1> DEFINE stored == {t \in Ids : template[t] # Absent}
           live == {t \in stored : ~template[t].archived}
           listed(ids) == [i \in DOMAIN ids |-> [id |-> ids[i], row |-> template[ids[i]]]]
           new(ids) == [sweep[g] EXCEPT !.pc = "postings", !.list = listed(ids)]
<1>1. PICK ids \in Seq(stored) : sweep' = [sweep EXCEPT ![g] = new(ids)]
  <2>1. PICK ids \in IF g \in Schedulers THEN InOrder(live) ELSE {<<t>> : t \in stored} :
           sweep' = [sweep EXCEPT ![g].pc = "postings", ![g].list = listed(ids)]
    BY DEF ReadTemplates
  <2>2. sweep' = [sweep EXCEPT ![g] = new(ids)]
    BY <2>1, <1>0 DEF TypeOK
  <2>3. ids \in Seq(stored)
    <3>1. CASE ids \in InOrder(live)
      <4>1. ids \in Seq(live)
        BY <3>1, OrderedIds
      <4> QED
        BY <4>1
    <3>2. CASE ids \in {<<t>> : t \in stored}
      <4>1. PICK t \in stored : ids = <<t>>
        BY <3>2
      <4> QED
        BY <4>1
    <3> QED
      BY <2>1, <3>1, <3>2
  <2> QED
    BY <2>2, <2>3
<1>2. Len(ids) \in Nat /\ DOMAIN ids = 1..Len(ids) /\ \A i \in DOMAIN ids : ids[i] \in stored
  BY <1>1, LenProperties, ElementOfSeq
<1>3. listed(ids) \in Seq([id: Ids, row: Rows])
  <2>1. \A i \in DOMAIN ids : listed(ids)[i] \in [id: Ids, row: Rows]
    BY <1>0, <1>2 DEF TypeOK
  <2> QED
    BY <1>2, <2>1, SeqDef
<1>4. new(ids) \in Sweeps /\ new(ids).list = listed(ids) /\ new(ids).pc = "postings"
  BY <1>0, <1>3 DEF TypeOK, Sweeps
<1>5. sweep'[g] = new(ids) /\ UNCHANGED <<template, occurrence, drafts, base, user, today, faults>>
  BY <1>0, <1>1 DEF TypeOK, ReadTemplates
<1>6. ASSUME NEW i \in DOMAIN ids PROVE EntryOK(g, i)'
  <2>1. PICK t : t = ids[i]
    OBVIOUS
  <2>2. t \in Ids /\ template[t] # Absent
    BY <1>2, <2>1
  <2>3. template[t].revision \in Nat /\ template[t].revision # 0
    BY <1>0, <2>2 DEF TypeOK, Rows, TemplateOK
  <2>4. Known(template[t], t) /\ SameRow(template[t], t)
    BY <1>0, <2>2, <2>3 DEF Known, SameRow, TemplateOK
  <2>5. listed(ids)[i].row = template[t] /\ listed(ids)[i].id = t
    BY <2>1
  <2>6. sweep'[g].list[i].row = template[t] /\ sweep'[g].list[i].id = t /\ sweep'[g].pc = "postings"
    BY <1>4, <1>5, <2>5
  <2>7. Known(template[t], t)' /\ SameRow(template[t], t)'
    BY <1>5, <2>4 DEF Known, SameRow
  <2>8. PICK row : row = template[t]
    OBVIOUS
  <2>9. Known(row, t)' /\ SameRow(row, t)'
    BY <1>5, <2>4, <2>8 DEF Known, SameRow
  <2> QED
    BY <2>6, <2>8, <2>9, EntryHolds
<1>7. SweepOK(g)'
  BY <1>4, <1>5, <1>6 DEF SweepOK
<1> HIDE DEF new, listed, stored
<1> QED
  BY <1>0, <1>1, <1>4, <1>5, <1>7, SweepMoves DEF TypeOK

LEMMA ReadPostingsStep ==
    ASSUME RecurringInv, NEW g \in Generators, ReadPostings(g)
    PROVE  RecurringInv'
<1>0. TypeOK
  BY InvariantByPart
<1> DEFINE L == sweep[g].list
           full == [i \in DOMAIN L |-> [L[i] EXCEPT !.row.postings = template[L[i].id].postings]]
           new == [sweep[g] EXCEPT !.pc = "open", !.list = full]
<1>1. /\ L \in Seq([id: Ids, row: Rows]) /\ sweep[g] \in Sweeps
      /\ Len(L) \in Nat /\ DOMAIN L = 1..Len(L)
      /\ \A i \in DOMAIN L : L[i] \in [id: Ids, row: Rows]
  BY <1>0, Entries, ElementOfSeq
<1>2. \A t \in Ids : template[t].postings \in Nat
  BY <1>0 DEF TypeOK, Rows
<1>3. \A i \in DOMAIN L : full[i] \in [id: Ids, row: Rows]
  <2>1. ASSUME NEW e \in [id: Ids, row: Rows]
        PROVE  [e EXCEPT !.row.postings = template[e.id].postings] \in [id: Ids, row: Rows]
    BY <1>2 DEF Rows
  <2>2. \A i \in DOMAIN L :
           full[i] = [L[i] EXCEPT !.row.postings = template[L[i].id].postings]
    OBVIOUS
  <2> HIDE DEF full, L
  <2> QED
    BY <1>1, <2>1, <2>2
<1>4. full \in Seq([id: Ids, row: Rows])
  <2>1. full \in [DOMAIN L -> [id: Ids, row: Rows]]
    BY <1>3
  <2> HIDE DEF full, L
  <2> QED
    BY <1>1, <2>1, SeqDef
<1>5. new \in Sweeps /\ new.list = full /\ new.pc = "open"
  BY <1>1, <1>4 DEF Sweeps
<1>6. /\ sweep' = [sweep EXCEPT ![g] = new] /\ sweep'[g] = new
      /\ UNCHANGED <<template, occurrence, drafts, base, user, today, faults>>
  BY <1>0 DEF TypeOK, ReadPostings
<1>7. Forward
  BY <1>6, TableStays
<1>8. ASSUME NEW i \in DOMAIN L PROVE EntryOK(g, i)'
  <2>1. PICK row, t : row = L[i].row /\ t = L[i].id
    OBVIOUS
  <2>2. row \in Rows /\ t \in Ids /\ Known(row, t)' /\ SameRow(row, t)'
    BY <1>7, <2>1, EntryStays DEF ReadPostings
  <2>3. PICK now : now = [row EXCEPT !.postings = template[t].postings]
    OBVIOUS
  <2>4. Known(now, t)' /\ SamePostings(now, t)' /\ SameRow(now, t)'
    BY <1>6, <2>2, <2>3 DEF Known, SameRow, SamePostings, Rows
  <2>5. full[i].row = now /\ full[i].id = t
    BY <1>1, <2>1, <2>3
  <2>6. sweep'[g].list[i].row = now /\ sweep'[g].list[i].id = t
    BY <1>5, <1>6, <2>5
  <2> QED
    BY <2>4, <2>6, EntryHolds
<1>9. SweepOK(g)'
  BY <1>5, <1>6, <1>8 DEF SweepOK
<1> HIDE DEF new
<1> QED
  BY <1>0, <1>5, <1>6, <1>9, SweepMoves DEF TypeOK

LEMMA SkipTemplateStep ==
    ASSUME RecurringInv, NEW g \in Generators, SkipTemplate(g)
    PROVE  RecurringInv'
<1>0. TypeOK
  BY InvariantByPart
<1>1. /\ sweep[g].pc = "open" /\ sweep[g].list # << >>
      /\ sweep' = [sweep EXCEPT ![g] = NextTemplate(g)]
      /\ UNCHANGED <<template, occurrence, drafts, base, user, today, faults>>
  BY DEF SkipTemplate
<1>2. Forward
  BY <1>1, TableStays
<1>3. sweep'[g] = NextTemplate(g)
  BY <1>0, <1>1 DEF TypeOK
<1> QED
  BY <1>0, <1>1, <1>2, <1>3, NextTemplateIsSound, SweepMoves DEF TypeOK

(* Another head for a list. *)
LEMMA NewHead ==
    ASSUME NEW S, NEW L \in Seq(S), L # << >>, NEW e \in S
    PROVE  /\ <<e>> \o Tail(L) \in Seq(S)
           /\ DOMAIN (<<e>> \o Tail(L)) = DOMAIN L
           /\ (<<e>> \o Tail(L))[1] = e
           /\ \A i \in DOMAIN L : i > 1 => (<<e>> \o Tail(L))[i] = L[i]
           /\ <<e>> \o Tail(L) # << >>
<1>1. Len(L) \in Nat \ {0} /\ DOMAIN L = 1..Len(L)
  BY EmptySeq, LenProperties
<1>2. /\ Tail(L) \in Seq(S) /\ Len(Tail(L)) = Len(L) - 1
      /\ \A i \in 1..Len(Tail(L)) : Tail(L)[i] = L[i + 1]
  BY HeadTailProperties
<1>3. <<e>> \in Seq(S) /\ Len(<<e>>) = 1 /\ <<e>>[1] = e
  OBVIOUS
<1>4. PICK M : M = <<e>> \o Tail(L)
  OBVIOUS
<1>5. M \in Seq(S) /\ Len(M) = Len(L) /\ DOMAIN M = DOMAIN L
  <2>1. M \in Seq(S) /\ Len(M) = 1 + (Len(L) - 1)
    BY <1>2, <1>3, <1>4, ConcatProperties
  <2> QED
    BY <1>1, <2>1, LenProperties
<1>6. \A i \in 1..Len(M) : M[i] = IF i <= 1 THEN <<e>>[i] ELSE Tail(L)[i - 1]
  BY <1>2, <1>3, <1>4, ConcatProperties
<1>7. M[1] = e
  BY <1>1, <1>3, <1>5, <1>6
<1>8. ASSUME NEW i \in DOMAIN L, i > 1 PROVE M[i] = L[i]
  <2>1. i \in 1..Len(M) /\ i - 1 \in 1..Len(Tail(L)) /\ (i - 1) + 1 = i /\ ~(i <= 1)
    BY <1>1, <1>2, <1>5, <1>8
  <2>2. M[i] = Tail(L)[i - 1]
    BY <1>6, <2>1
  <2> QED
    BY <1>2, <2>1, <2>2
<1>9. M # << >>
  BY <1>1, <1>5, EmptySeq
<1> QED
  BY <1>4, <1>5, <1>7, <1>8, <1>9

LEMMA OpenTemplateStep ==
    ASSUME RecurringInv, NEW g \in Generators, OpenTemplate(g)
    PROVE  RecurringInv'
<1>0. TypeOK /\ SweepOK(g)
  BY InvariantByPart
<1>1. sweep[g].pc = "open" /\ sweep[g].list # << >>
      /\ UNCHANGED <<template, occurrence, drafts, base, user, today, faults>>
  BY DEF OpenTemplate
<1>2. PICK t, row : t = At(g).id /\ row = At(g).row
  OBVIOUS
<1>3. t \in Ids /\ row \in Rows /\ 1 \in DOMAIN sweep[g].list /\ At(g) = sweep[g].list[1]
  BY <1>0, <1>1, <1>2, AtWork
<1>4. Known(row, t) /\ SamePostings(row, t) /\ SameRow(row, t)
  BY <1>0, <1>1, <1>2, <1>3 DEF SweepOK, EntryOK
<1> DEFINE L == sweep[g].list
           e == [id |-> t, row |-> Captured(row)]
           list == <<e>> \o Tail(L)
           end == WindowEnd(g)
           due == {d \in DatesOf[row.schedule] :
                      d \in row.from..end /\ occurrence[t][d].status = "none"}
           new == [sweep[g] EXCEPT !.pc = "making", !.end = end, !.list = list, !.due = due]
<1>5. sweep' = [sweep EXCEPT ![g] = new] /\ sweep'[g] = new
  BY <1>0, <1>2 DEF OpenTemplate, TypeOK
<1>6. sweep[g] \in Sweeps /\ L \in Seq([id: Ids, row: Rows])
  BY <1>0, Entries
<1>7. /\ Captured(row) \in Rows /\ Captured(row).revision = row.revision
      /\ Captured(row).postings = row.postings
  BY <1>3 DEF Captured, Absent, Rows
<1>8. e \in [id: Ids, row: Rows] /\ e.id = t /\ e.row = Captured(row)
  BY <1>3, <1>7
<1>9. end \in Nat
  <2>1. PICK a, b, w : a = sweep[g].day + Lead[t] /\ b = row.from /\ w = WindowDays
    OBVIOUS
  <2>2. a \in Nat /\ b \in Nat /\ w \in Nat /\ w # 0
    <3>1. Lead[t] \in Nat /\ WindowDays \in Nat /\ WindowDays # 0
      BY <1>3, Values
    <3>2. sweep[g].day \in Nat
      BY <1>6 DEF Sweeps
    <3>3. row.from \in Nat
      BY <1>3 DEF Rows
    <3> QED
      BY <2>1, <3>1, <3>2, <3>3
  <2>3. b + w - 1 \in Nat
    BY <2>2
  <2>4. end = Sooner(a, b + w - 1)
    BY <1>2, <2>1 DEF WindowEnd
  <2> QED
    BY <2>2, <2>3, <2>4, LaterSooner
<1>10. row.schedule \in Schedules /\ due \subseteq Days
  BY <1>4, Values DEF SameRow
<1>11. /\ list \in Seq([id: Ids, row: Rows]) /\ DOMAIN list = DOMAIN L
       /\ list[1] = e /\ list # << >>
       /\ \A i \in DOMAIN L : i > 1 => list[i] = L[i]
  <2> HIDE DEF L, e
  <2> QED
    BY <1>1, <1>6, <1>8, NewHead DEF L
<1> HIDE DEF list, end, due
<1>12. /\ new \in Sweeps /\ new.list = list /\ new.pc = "making"
       /\ new.end = end /\ new.due = due
  BY <1>6, <1>9, <1>10, <1>11 DEF Sweeps
<1> HIDE DEF new
<1>13. Forward
  BY <1>1, TableStays
<1>14. ASSUME NEW i \in DOMAIN L PROVE EntryOK(g, i)'
  <2>1. CASE i = 1
    <3>1. PICK c : c = Captured(row)
      OBVIOUS
    <3>2. c \in Rows /\ c.revision = row.revision /\ c.postings = row.postings
      BY <1>7, <3>1
    <3>3. Known(c, t)' /\ SamePostings(c, t)'
      BY <1>1, <1>4, <3>2 DEF Known, SamePostings
    <3>4. /\ sweep'[g].list[i].row = c /\ sweep'[g].list[i].id = t
          /\ sweep'[g].pc = "making"
      BY <1>5, <1>8, <1>11, <1>12, <2>1, <3>1
    <3>5. ~(i > 1)
      BY <2>1
    <3> QED
      BY <3>3, <3>4, <3>5, EntryHolds
  <2>2. CASE i # 1
    <3>1. i > 1
      <4>1. i \in Nat /\ i >= 1
        BY <1>0, Entries
      <4> QED
        BY <2>2, <4>1
    <3>2. PICK r, k : r = L[i].row /\ k = L[i].id
      OBVIOUS
    <3>3. Known(r, k)' /\ SamePostings(r, k)' /\ SameRow(r, k)'
      BY <1>1, <1>13, <3>2, EntryStays
    <3>4. sweep'[g].list[i].row = r /\ sweep'[g].list[i].id = k
      BY <1>5, <1>11, <1>12, <3>1, <3>2
    <3> QED
      BY <3>3, <3>4, EntryHolds
  <2> QED
    BY <2>1, <2>2
<1>15. WindowIsListed(g)'
  <2>1. sweep'[g].list = list /\ sweep'[g].due = due /\ sweep'[g].end = end
    BY <1>5, <1>12
  <2>2. At(g)' = e
    <3>1. At(g)' = Head(list)
      BY <2>1 DEF At
    <3> QED
      BY <1>11, <3>1
  <2>3. At(g)'.id = t /\ At(g)'.row.revision = row.revision
    BY <1>7, <1>8, <2>2
  <2>4. ASSUME row.revision = template[t].revision
        PROVE  /\ due \subseteq {d \in DatesOf[template[t].schedule] : d >= template[t].from}
               /\ \A d \in DatesOf[template[t].schedule] :
                     d \in template[t].from..end /\ occurrence[t][d].status = "none" => d \in due
    <3>1. row.schedule = template[t].schedule /\ row.from = template[t].from
      BY <1>4, <2>4 DEF SameRow
    <3>2. row.from \in Nat /\ DatesOf[row.schedule] \subseteq Nat
      BY <1>3, <1>10, Values DEF Rows
    <3> QED
      BY <1>9, <3>1, <3>2 DEF due
  <2> QED
    BY <1>1, <1>11, <2>1, <2>3, <2>4 DEF WindowIsListed
<1>16. SweepOK(g)'
  <2>1. DOMAIN sweep'[g].list = DOMAIN L
    BY <1>5, <1>11, <1>12
  <2> QED
    BY <1>14, <1>15, <2>1 DEF SweepOK
<1> QED
  BY <1>0, <1>1, <1>5, <1>12, <1>16, SweepMoves DEF TypeOK

(* Some day of a set of days is the first. *)
LEMMA LeastDay ==
    ASSUME NEW T, T \subseteq Nat, T # {}
    PROVE  \E x \in T : \A y \in T : x <= y
<1>1. \E x \in T : \A y \in T : ~(<<y, x>> \in OpToRel(<, Nat))
  BY NatLessThanWellFounded, WFMin, Zenon
<1>2. PICK x \in T : \A y \in T : ~(<<y, x>> \in OpToRel(<, Nat))
  BY <1>1
<1>3. ASSUME NEW y \in T PROVE x <= y
  <2>1. <<y, x>> \in Nat \X Nat /\ ~(y < x)
    BY <1>2 DEF OpToRel
  <2> QED
    BY <2>1
<1> QED
  BY <1>3

(* Another status of a date that is not decided, with its draft if it is     *)
(* generated, keeps the table sound.                                         *)
LEMMA DateIsWritten ==
    ASSUME RecurringInv, NEW t \in Ids, NEW d \in Days, NEW mark \in Marks, NEW postings \in Nat,
           occurrence[t][d].status \in {"none", "blocked"}, mark.status # "none",
           occurrence' = [occurrence EXCEPT ![t][d] = mark],
           drafts' = IF mark.status = "generated"
                     THEN [drafts EXCEPT ![t][d] = Append(@, postings)] ELSE drafts,
           UNCHANGED <<template, base>>
    PROVE  /\ Forward
           /\ occurrence' \in [Ids -> [Days -> Marks]]
           /\ drafts' \in [Ids -> [Days -> Seq(Nat)]]
           /\ \A k \in Ids : TemplateOK(k)' /\ DatesOK(k)'
           /\ occurrence'[t][d] = mark
<1>0. TypeOK /\ \A k \in Ids : TemplateOK(k) /\ DatesOK(k)
  BY InvariantByPart
<1>1. /\ occurrence \in [Ids -> [Days -> Marks]]
      /\ drafts \in [Ids -> [Days -> Seq(Nat)]]
      /\ drafts[t][d] \in Seq(Nat)
      /\ Append(drafts[t][d], postings) \in Seq(Nat)
      /\ Len(Append(drafts[t][d], postings)) = Len(drafts[t][d]) + 1
  BY <1>0, AppendProperties DEF TypeOK
<1>2. occurrence' \in [Ids -> [Days -> Marks]] /\ drafts' \in [Ids -> [Days -> Seq(Nat)]]
  BY <1>1
<1>3. /\ occurrence'[t][d] = mark
      /\ drafts'[t][d] = IF mark.status = "generated"
                         THEN Append(drafts[t][d], postings) ELSE drafts[t][d]
      /\ \A k \in Ids, e \in Days : k # t \/ e # d =>
            occurrence'[k][e] = occurrence[k][e] /\ drafts'[k][e] = drafts[k][e]
  BY <1>1
<1>4. Forward
  BY <1>3 DEF Forward
<1>5. Absent' = Absent /\ NoRow' = NoRow
  BY DEF Absent, NoRow
<1>6. \A k \in Ids : TemplateOK(k)'
  BY <1>0, <1>5 DEF TemplateOK
<1>7. ASSUME NEW k \in Ids, NEW e \in Days
      PROVE  /\ Len(drafts'[k][e]) = IF occurrence'[k][e].status = "generated" THEN 1 ELSE 0
             /\ occurrence'[k][e].status = "none" => occurrence'[k][e] = NoRow
  <2>1. /\ Len(drafts[k][e]) = IF occurrence[k][e].status = "generated" THEN 1 ELSE 0
        /\ occurrence[k][e].status = "none" => occurrence[k][e] = NoRow
    BY <1>0 DEF DatesOK
  <2>2. CASE k = t /\ e = d
    BY <1>1, <1>3, <2>1, <2>2
  <2>3. CASE k # t \/ e # d
    BY <1>3, <2>1, <2>3
  <2> QED
    BY <2>2, <2>3
<1>8. ASSUME NEW k \in Ids, template[k] # Absent,
             NEW e \in DatesOf[template[k].schedule], e \in base[k].from..(template[k].from - 1)
      PROVE  occurrence'[k][e].status # "none"
  <2>1. occurrence[k][e].status # "none"
    BY <1>0, <1>8 DEF DatesOK
  <2>2. template[k].schedule \in Schedules
    BY <1>0, <1>8 DEF TemplateOK
  <2>3. e \in Days
    BY <2>2, Values
  <2> QED
    BY <1>4, <2>1, <2>3 DEF Forward
<1>9. \A k \in Ids : DatesOK(k)'
  BY <1>5, <1>7, <1>8 DEF DatesOK
<1> QED
  BY <1>2, <1>3, <1>4, <1>6, <1>9

LEMMA MaterializeIsSound ==
    ASSUME RecurringInv, NEW t \in Ids, NEW d \in Days, NEW row \in Rows, NEW valid \in BOOLEAN,
           occurrence[t][d].status \in {"none", "blocked"},
           Materialize(t, d, row, valid), UNCHANGED <<template, base>>
    PROVE  /\ Forward
           /\ occurrence' \in [Ids -> [Days -> Marks]]
           /\ drafts' \in [Ids -> [Days -> Seq(Nat)]]
           /\ \A k \in Ids : TemplateOK(k)' /\ DatesOK(k)'
           /\ occurrence'[t][d].status # "none"
<1>0. TypeOK
  BY InvariantByPart
<1> DEFINE mark == [status |-> IF valid THEN "generated" ELSE "blocked",
                    audit |-> occurrence[t][d].audit + 1]
<1>1. mark \in Marks /\ mark.status # "none" /\ (mark.status = "generated" <=> valid)
  BY <1>0 DEF TypeOK, Marks
<1>2. row.postings \in Nat
  BY DEF Rows
<1>3. occurrence' = [occurrence EXCEPT ![t][d] = mark]
  BY <1>0 DEF Materialize, TypeOK
<1>4. drafts' = IF mark.status = "generated"
                THEN [drafts EXCEPT ![t][d] = Append(@, row.postings)] ELSE drafts
  BY <1>1 DEF Materialize
<1> HIDE DEF mark
<1> QED
  BY <1>1, <1>2, <1>3, <1>4, DateIsWritten

LEMMA MakeOccurrenceStep ==
    ASSUME RecurringInv, NEW g \in Generators, NEW valid \in BOOLEAN, MakeOccurrence(g, valid)
    PROVE  RecurringInv'
<1>0. TypeOK /\ SweepOK(g)
  BY InvariantByPart
<1>1. /\ sweep[g].pc = "making" /\ sweep[g].due # {} /\ ~Capped(g)
      /\ UNCHANGED <<template, base, user, today, faults>>
  BY DEF MakeOccurrence
<1>2. PICK t, d, row : t = At(g).id /\ d = First(g) /\ row = At(g).row
  OBVIOUS
<1>3. sweep[g].list # << >> /\ t \in Ids /\ row \in Rows /\ sweep[g] \in Sweeps
  BY <1>0, <1>1, <1>2, AtWork DEF SweepOK, WindowIsListed, TypeOK
<1>4. d \in sweep[g].due /\ d \in Days /\ d \in Nat
  <2>1. sweep[g].due \subseteq Days
    BY <1>3 DEF Sweeps
  <2>2. \E e \in sweep[g].due : \A f \in sweep[g].due : e <= f
    BY <1>1, <2>1, Values, LeastDay
  <2>3. d \in sweep[g].due
    BY <1>2, <2>2 DEF First
  <2> QED
    BY <2>1, <2>3, Values
<1>5. CASE ~GenerationGuard(t, row)
  <2>1. sweep' = [sweep EXCEPT ![g] = NextTemplate(g)] /\ UNCHANGED <<occurrence, drafts>>
    BY <1>2, <1>5 DEF MakeOccurrence
  <2>2. Forward
    BY <1>1, <2>1, TableStays
  <2>3. sweep'[g] = NextTemplate(g)
    BY <1>0, <2>1 DEF TypeOK
  <2> QED
    BY <1>0, <1>1, <1>3, <2>1, <2>2, <2>3, NextTemplateIsSound, SweepMoves DEF TypeOK
<1> DEFINE new(m) == [sweep[g] EXCEPT !.due = @ \ {d}, !.made = m]
<1>6. sweep[g].made \in 0..TickCap
  BY <1>3 DEF Sweeps
<1>7. CASE GenerationGuard(t, row) /\ ~OccurrenceGuard(t, d, NoRow)
  <2>1. /\ sweep' = [sweep EXCEPT ![g].due = @ \ {d}]
        /\ UNCHANGED <<occurrence, drafts>>
    BY <1>2, <1>7 DEF MakeOccurrence
  <2>2. Forward
    BY <1>1, <2>1, TableStays
  <2>3. [sweep[g] EXCEPT !.due = @ \ {d}] = new(sweep[g].made)
    BY <1>3 DEF Sweeps
  <2>4. sweep' = [sweep EXCEPT ![g] = new(sweep[g].made)] /\ sweep'[g] = new(sweep[g].made)
    BY <1>0, <2>1, <2>3 DEF TypeOK
  <2>5. occurrence[t][d].status # "none"
    BY <1>3, <1>4, <1>7, InvariantByPart DEF OccurrenceGuard, DatesOK, NoRow
  <2>6. sweep'[g] \in Sweeps /\ SweepOK(g)'
    BY <1>1, <1>2, <1>6, <2>1, <2>2, <2>4, <2>5, DateLeavesList
  <2>7. PICK n : n = new(sweep[g].made)
    OBVIOUS
  <2> QED
    BY <1>0, <1>1, <2>1, <2>4, <2>6, <2>7, SweepMoves DEF TypeOK
<1>8. CASE GenerationGuard(t, row) /\ OccurrenceGuard(t, d, NoRow)
  <2>1. /\ Materialize(t, d, row, valid)
        /\ sweep' = [sweep EXCEPT ![g].due = @ \ {d}, ![g].made = @ + 1]
    BY <1>2, <1>8 DEF MakeOccurrence
  <2>2. sweep[g].made + 1 \in 0..TickCap
    BY <1>1, <1>6, Values DEF Capped
  <2>3. occurrence[t][d].status = "none"
    BY <1>8 DEF OccurrenceGuard, NoRow
  <2>4. /\ Forward
        /\ occurrence' \in [Ids -> [Days -> Marks]]
        /\ drafts' \in [Ids -> [Days -> Seq(Nat)]]
        /\ \A k \in Ids : TemplateOK(k)' /\ DatesOK(k)'
        /\ occurrence'[t][d].status # "none"
    BY <1>1, <1>3, <1>4, <2>1, <2>3, MaterializeIsSound
  <2>5. PICK n : n = new(sweep[g].made + 1)
    OBVIOUS
  <2>6. sweep' = [sweep EXCEPT ![g] = n] /\ sweep'[g] = n
    BY <1>0, <1>3, <2>1, <2>5 DEF TypeOK, Sweeps
  <2>7. sweep'[g] \in Sweeps /\ SweepOK(g)'
    BY <1>1, <1>2, <2>2, <2>4, <2>5, <2>6, DateLeavesList
  <2>8. TypeOK'
    BY <1>0, <1>1, <2>4, <2>6, <2>7 DEF TypeOK
  <2>9. \A h \in Generators : sweep'[h] = sweep[h] \/ SweepOK(h)'
    BY <1>0, <2>6, <2>7 DEF TypeOK
  <2> QED
    BY <1>1, <2>4, <2>8, <2>9, StepKeepsInv
<1> QED
  BY <1>5, <1>7, <1>8

(* A later revision of a template keeps the table sound when every date its  *)
(* watermark is past has a row.                                              *)
LEMMA TemplateIsWritten ==
    ASSUME RecurringInv, NEW t \in Ids, NEW row \in Rows, NEW b \in [from: Nat, revision: Nat],
           row.revision > template[t].revision, row.schedule \in Schedules,
           row.postings <= row.revision, b.revision <= row.revision,
           \A d \in DatesOf[row.schedule] :
               d \in b.from..(row.from - 1) => occurrence[t][d].status # "none",
           template' = [template EXCEPT ![t] = row],
           base' = [base EXCEPT ![t] = b],
           UNCHANGED <<occurrence, drafts>>
    PROVE  /\ Forward
           /\ template' \in [Ids -> Rows]
           /\ base' \in [Ids -> [from: Nat, revision: Nat]]
           /\ \A k \in Ids : TemplateOK(k)' /\ DatesOK(k)'
<1>0. TypeOK /\ \A k \in Ids : TemplateOK(k) /\ DatesOK(k)
  BY InvariantByPart
<1>1. /\ template' \in [Ids -> Rows] /\ base' \in [Ids -> [from: Nat, revision: Nat]]
      /\ template'[t] = row /\ base'[t] = b
      /\ \A k \in Ids : k # t => template'[k] = template[k] /\ base'[k] = base[k]
  BY <1>0 DEF TypeOK
<1>2. row.revision \in Nat /\ template[t].revision \in Nat
  BY <1>0 DEF TypeOK, Rows
<1>3. Forward
  BY <1>1, <1>2 DEF Forward
<1>4. Absent' = Absent /\ NoRow' = NoRow
  BY DEF Absent, NoRow
<1>5. ASSUME NEW k \in Ids PROVE TemplateOK(k)' /\ DatesOK(k)'
  <2>1. CASE k = t
    <3>1. TemplateOK(t)'
      BY <1>1, <1>2 DEF TemplateOK
    <3>2. DatesOK(t)'
      BY <1>0, <1>1, <1>4 DEF DatesOK
    <3> QED
      BY <2>1, <3>1, <3>2
  <2>2. CASE k # t
    BY <1>0, <1>1, <1>4, <2>2 DEF TemplateOK, DatesOK
  <2> QED
    BY <2>1, <2>2
<1> QED
  BY <1>1, <1>3, <1>5

LEMMA AdvanceWatermarkStep ==
    ASSUME RecurringInv, NEW g \in Generators, AdvanceWatermark(g)
    PROVE  RecurringInv'
<1>0. TypeOK /\ SweepOK(g) /\ \A k \in Ids : TemplateOK(k) /\ DatesOK(k)
  BY InvariantByPart
<1>1. /\ sweep[g].pc = "making" /\ sweep[g].due = {}
      /\ sweep' = [sweep EXCEPT ![g] = NextTemplate(g)]
      /\ UNCHANGED <<occurrence, drafts, base, user, today, faults>>
  BY DEF AdvanceWatermark
<1>2. PICK t, row, through : t = At(g).id /\ row = At(g).row /\ through = sweep[g].end + 1
  OBVIOUS
<1>3. /\ sweep[g].list # << >> /\ t \in Ids /\ row \in Rows /\ sweep[g] \in Sweeps
      /\ WindowIsListed(g)
  BY <1>0, <1>1, <1>2, AtWork DEF SweepOK, WindowIsListed, TypeOK
<1>4. sweep'[g] = NextTemplate(g)
  BY <1>0, <1>1 DEF TypeOK
<1>5. CASE template' = template
  <2>1. Forward
    BY <1>1, <1>5, TableStays
  <2>2. NextTemplate(g) \in Sweeps /\ SweepOK(g)'
    BY <1>1, <1>3, <1>4, <2>1, NextTemplateIsSound
  <2> QED
    BY <1>0, <1>1, <1>5, <2>2, SweepMoves DEF TypeOK
<1>6. CASE template' # template
  <2>1. /\ GenerationGuard(t, row) /\ template[t].from < through
        /\ template' = [template EXCEPT ![t].from = through, ![t].revision = @ + 1]
    BY <1>2, <1>6 DEF AdvanceWatermark, Advanced
  <2> DEFINE next == [template[t] EXCEPT !.from = through, !.revision = template[t].revision + 1]
  <2>2. template[t] \in Rows /\ template[t].revision \in Nat /\ base[t] \in [from: Nat, revision: Nat]
    BY <1>0, <1>3 DEF TypeOK, Rows
  <2>3. through \in Nat /\ sweep[g].end \in Nat /\ through - 1 = sweep[g].end
    BY <1>2, <1>3 DEF Sweeps
  <2>4. /\ next \in Rows /\ next.from = through /\ next.revision = template[t].revision + 1
        /\ next.schedule = template[t].schedule /\ next.postings = template[t].postings
    <3>1. PICK old, new : old = template[t] /\ new = next
      OBVIOUS
    <3>2. new = [old EXCEPT !.from = through, !.revision = old.revision + 1]
      BY <3>1
    <3> HIDE DEF next
    <3>3. old \in Rows /\ through \in Nat
      BY <2>2, <2>3, <3>1
    <3>4. new \in Rows
      <4>1. PICK n : n = old.revision + 1
        OBVIOUS
      <4>2. n \in Nat
        BY <3>3, <4>1 DEF Rows
      <4>3. new = [old EXCEPT !.from = through, !.revision = n]
        BY <3>2, <4>1
      <4> QED
        BY <3>3, <4>2, <4>3 DEF Rows
    <3>5. /\ new.from = through /\ new.revision = old.revision + 1
          /\ new.schedule = old.schedule /\ new.postings = old.postings
      BY <3>2, <3>3 DEF Rows
    <3> QED
      BY <3>1, <3>4, <3>5
  <2>5. template[t].revision # 0
    BY <1>0, <1>2, <1>3, <2>1 DEF SweepOK, EntryOK, Known, AtWork, GenerationGuard, TemplateOK, Absent
  <2>6. /\ next.schedule \in Schedules
        /\ template[t].postings <= template[t].revision /\ base[t].revision <= template[t].revision
    BY <1>0, <1>3, <2>4, <2>5 DEF TemplateOK
  <2>7. ASSUME NEW d \in DatesOf[next.schedule], d \in base[t].from..(through - 1)
        PROVE  occurrence[t][d].status # "none"
    <3>1. d \in Nat
      BY <2>6, Values
    <3>2. template[t] # Absent
      BY <2>5 DEF Absent
    <3>3. template[t].from \in Nat /\ base[t].from \in Nat
      BY <2>2 DEF Rows
    <3>4. CASE d < template[t].from
      <4>1. d \in base[t].from..(template[t].from - 1)
        BY <2>3, <2>7, <3>1, <3>3, <3>4
      <4> QED
        BY <1>0, <1>3, <2>4, <3>2, <4>1 DEF DatesOK
    <3>5. CASE ~(d < template[t].from)
      <4>1. d \in template[t].from..sweep[g].end
        BY <2>3, <2>7, <3>1, <3>3, <3>5
      <4>2. At(g).row.revision = template[t].revision
        BY <1>2, <2>1 DEF GenerationGuard
      <4> QED
        BY <1>1, <1>2, <1>3, <2>4, <4>1, <4>2 DEF WindowIsListed
    <3> QED
      BY <3>4, <3>5
  <2>8. base' = [base EXCEPT ![t] = base[t]]
    <3>1. base \in [Ids -> [from: Nat, revision: Nat]] /\ base' = base
      BY <1>0, <1>1 DEF TypeOK
    <3> HIDE DEF next
    <3> QED
      BY <1>3, <3>1
  <2>9. template' = [template EXCEPT ![t] = next]
    BY <1>0, <1>3, <2>1 DEF TypeOK, Rows
  <2>10. template[t].postings \in Nat /\ base[t].revision \in Nat
    BY <2>2 DEF Rows
  <2>11. next.revision > template[t].revision /\ next.postings <= next.revision /\ base[t].revision <= next.revision
    BY <2>2, <2>4, <2>6, <2>10
  <2> HIDE DEF next
  <2>12. /\ Forward /\ template' \in [Ids -> Rows]
         /\ \A k \in Ids : TemplateOK(k)' /\ DatesOK(k)'
    <3>1. PICK row1, b : row1 = next /\ b = base[t]
      OBVIOUS
    <3>2. /\ row1 \in Rows /\ b \in [from: Nat, revision: Nat]
          /\ row1.revision > template[t].revision /\ row1.schedule \in Schedules
          /\ row1.postings <= row1.revision /\ b.revision <= row1.revision
      BY <2>2, <2>4, <2>6, <2>11, <3>1
    <3>3. \A d \in DatesOf[row1.schedule] :
             d \in b.from..(row1.from - 1) => occurrence[t][d].status # "none"
      BY <2>4, <2>7, <3>1
    <3>4. template' = [template EXCEPT ![t] = row1] /\ base' = [base EXCEPT ![t] = b]
      BY <2>8, <2>9, <3>1
    <3> QED
      BY <1>1, <1>3, <3>2, <3>3, <3>4, TemplateIsWritten
  <2>13. NextTemplate(g) \in Sweeps /\ SweepOK(g)'
    BY <1>1, <1>3, <1>4, <2>12, NextTemplateIsSound
  <2>14. TypeOK'
    BY <1>0, <1>1, <2>12, <2>13 DEF TypeOK
  <2>15. \A h \in Generators : sweep'[h] = sweep[h] \/ SweepOK(h)'
    BY <1>0, <1>1, <2>13 DEF TypeOK
  <2> QED
    BY <1>1, <2>12, <2>14, <2>15, StepKeepsInv
<1> QED
  BY <1>5, <1>6

-----------------------------------------------------------------------------
(* The owner *)

LEMMA BeginRequestStep ==
    ASSUME RecurringInv, NEW u \in Users, NEW t \in Ids, NEW what \in Requests, NEW d \in Days \cup {0},
           what \in Reviews => d \in Days, BeginRequest(u, t, what, d)
    PROVE  RecurringInv'
<1>0. TypeOK /\ TemplateOK(t)
  BY InvariantByPart
<1> DEFINE new == [NoRequest EXCEPT !.pc = "postings", !.what = what, !.id = t, !.date = d,
                                    !.row = template[t]]
<1>1. /\ user' = [user EXCEPT ![u] = new] /\ template[t] # Absent
      /\ UNCHANGED <<template, occurrence, drafts, base, sweep, today, faults>>
  BY DEF BeginRequest
<1>2. template[t] \in Rows /\ template[t].revision \in Nat /\ template[t].revision # 0
  BY <1>0, <1>1 DEF TypeOK, Rows, TemplateOK
<1>3. new = [pc |-> "postings", what |-> what, id |-> t, date |-> d, row |-> template[t],
             seen |-> NoRow, day |-> 0]
  <2>1. new = [NoRequest EXCEPT !.pc = "postings", !.what = what, !.id = t, !.date = d,
                                !.row = template[t]]
    OBVIOUS
  <2> HIDE DEF new
  <2> QED
    BY <2>1 DEF NoRequest
<1>4. new \in OwnerRequests
  BY <1>2, <1>3, Records DEF OwnerRequests
<1>5. user'[u] = new
  BY <1>0, <1>1 DEF TypeOK
<1>6. /\ user'[u].pc = "postings" /\ user'[u].what = what /\ user'[u].id = t
      /\ user'[u].date = d /\ user'[u].row = template[t]
  BY <1>3, <1>5
<1> HIDE DEF new
<1>7. Known(template[t], t)' /\ SameRow(template[t], t)'
  BY <1>0, <1>1, <1>2 DEF Known, SameRow, TemplateOK
<1>8. RequestOK(u)'
  BY <1>1, <1>6, <1>7 DEF RequestOK, Known, SameRow
<1> QED
  BY <1>1, <1>4, <1>8, RequestMoves

LEMMA RequestPostingsStep ==
    ASSUME RecurringInv, NEW u \in Users, RequestPostings(u)
    PROVE  RecurringInv'
<1>0. TypeOK /\ RequestOK(u)
  BY InvariantByPart
<1>1. PICK r, t : r = user[u] /\ t = user[u].id
  OBVIOUS
<1>2. r \in OwnerRequests /\ r.row \in Rows /\ r.pc = "postings"
  BY <1>0, <1>1 DEF TypeOK, OwnerRequests, RequestPostings
<1>3. /\ Known(r.row, t) /\ SameRow(r.row, t) /\ r.what \in Requests
      /\ r.what \in Reviews => r.date \in Days
  BY <1>0, <1>1, <1>2 DEF RequestOK
<1> DEFINE now == [r.row EXCEPT !.postings = template[t].postings]
           new == [r EXCEPT !.pc = IF r.what \in Edits THEN "write" ELSE "occurrence",
                            !.row = now,
                            !.day = IF r.what \in Edits THEN today ELSE 0]
<1>4. /\ user' = [user EXCEPT ![u] = new] /\ user'[u] = new
      /\ UNCHANGED <<template, occurrence, drafts, base, sweep, today, faults>>
  BY <1>0, <1>1 DEF TypeOK, RequestPostings, OwnerRequests
<1>5. t \in Ids /\ template[t].postings \in Nat /\ today \in Nat
  BY <1>0, <1>3, Values DEF Known, TypeOK, Rows
<1>6. /\ now \in Rows /\ now.revision = r.row.revision /\ now.postings = template[t].postings
      /\ now.schedule = r.row.schedule /\ now.enabled = r.row.enabled
      /\ now.archived = r.row.archived /\ now.from = r.row.from
  BY <1>2, <1>5 DEF Rows
<1>7. Known(now, t)' /\ SamePostings(now, t)' /\ SameRow(now, t)'
  BY <1>3, <1>4, <1>6 DEF Known, SamePostings, SameRow
<1> HIDE DEF now
<1>8. /\ new \in OwnerRequests /\ new.row = now /\ new.id = t /\ new.what = r.what /\ new.date = r.date
      /\ new.pc = IF r.what \in Edits THEN "write" ELSE "occurrence"
  BY <1>1, <1>2, <1>5, <1>6 DEF OwnerRequests
<1> HIDE DEF new
<1>9. RequestOK(u)'
  <2>1. PICK n : n = new
    OBVIOUS
  <2>2. /\ user'[u] = n /\ n.row = now /\ n.id = t /\ n.what = r.what /\ n.date = r.date
        /\ n.pc = IF r.what \in Edits THEN "write" ELSE "occurrence"
    BY <1>4, <1>8, <2>1
  <2>3. PICK row : row = now
    OBVIOUS
  <2>4. row = n.row /\ t = n.id /\ Known(row, t)' /\ SamePostings(row, t)' /\ SameRow(row, t)'
    BY <1>4, <1>3, <1>6, <2>2, <2>3 DEF Known, SamePostings, SameRow
  <2>5. /\ Edits' = Edits /\ Reviews' = Reviews
        /\ n.pc = "write" => n.what \in Edits
    BY <2>2 DEF Edits, Reviews
  <2>6. n.what = "retry" => n.what \notin Edits
    BY DEF Edits
  <2> QED
    BY <1>3, <2>2, <2>4, <2>5, <2>6 DEF RequestOK, Known, SamePostings, SameRow
<1> QED
  BY <1>4, <1>8, <1>9, RequestMoves

LEMMA RequestOccurrenceStep ==
    ASSUME RecurringInv, NEW u \in Users, RequestOccurrence(u)
    PROVE  RecurringInv'
<1>0. TypeOK /\ RequestOK(u)
  BY InvariantByPart
<1>1. PICK r, t, seen : r = user[u] /\ t = user[u].id /\ seen = occurrence[user[u].id][user[u].date]
  OBVIOUS
<1>2. r \in OwnerRequests /\ r.row \in Rows /\ r.pc = "occurrence"
  BY <1>0, <1>1 DEF TypeOK, OwnerRequests, RequestOccurrence
<1>3. /\ Known(r.row, t) /\ SamePostings(r.row, t) /\ SameRow(r.row, t) /\ r.what \in Requests
      /\ r.what \in Reviews => r.date \in Days
  BY <1>0, <1>1, <1>2 DEF RequestOK
<1>4. UNCHANGED <<template, occurrence, drafts, base, sweep, today, faults>>
  BY DEF RequestOccurrence
<1>5. CASE ~(Acceptable(r.what, r.row, r.date, seen) /\ seen.audit < MaxAudit)
  <2>1. user' = [user EXCEPT ![u] = NoRequest] /\ user'[u] = NoRequest
    BY <1>0, <1>1, <1>5 DEF RequestOccurrence, TypeOK
  <2> QED
    BY <1>4, <2>1, Records, IdleIsSound, RequestMoves
<1>6. CASE Acceptable(r.what, r.row, r.date, seen) /\ seen.audit < MaxAudit
  <2> DEFINE new == [r EXCEPT !.pc = "write", !.seen = seen, !.row = Captured(r.row)]
  <2>1. user' = [user EXCEPT ![u] = new] /\ user'[u] = new
    <3>1. user' = [user EXCEPT ![u] =
                      [user[u] EXCEPT !.pc = "write", !.seen = seen, !.row = Captured(user[u].row)]]
      BY <1>1, <1>6 DEF RequestOccurrence
    <3>2. user \in [Users -> OwnerRequests]
      BY <1>0 DEF TypeOK
    <3> QED
      BY <1>1, <3>1, <3>2
  <2>2. r.what \in {"skip", "retry"} /\ r.what \in Reviews
    BY <1>3, <1>6 DEF Acceptable, Reviews, Edits
  <2>3. t \in Ids /\ r.date \in Days /\ seen \in Marks
    BY <1>0, <1>1, <1>3, <2>2 DEF Known, TypeOK
  <2>4. PICK c : c = Captured(r.row)
    OBVIOUS
  <2>5. c \in Rows /\ c.revision = r.row.revision /\ c.postings = r.row.postings
    BY <1>2, <2>4 DEF Captured, Absent, Rows
  <2>6. Known(c, t)' /\ SamePostings(c, t)'
    BY <1>3, <1>4, <2>5 DEF Known, SamePostings
  <2>7. /\ new \in OwnerRequests /\ new.row = c /\ new.id = t /\ new.what = r.what
        /\ new.date = r.date /\ new.pc = "write" /\ new.seen = seen
    BY <1>1, <1>2, <2>3, <2>4, <2>5 DEF OwnerRequests
  <2>8. r.what = "retry" => seen.status = "blocked"
    BY <1>6 DEF Acceptable
  <2>9. r.what \notin Edits
    BY <2>2 DEF Edits
  <2> HIDE DEF new
  <2>10. RequestOK(u)'
    BY <1>3, <1>4, <2>1, <2>3, <2>6, <2>7, <2>8, <2>9 DEF RequestOK, Known, SamePostings, Edits
  <2> QED
    BY <1>4, <2>1, <2>7, <2>10, RequestMoves
<1> QED
  BY <1>5, <1>6

LEMMA DropRequestStep ==
    ASSUME RecurringInv, NEW u \in Users, DropRequest(u)
    PROVE  RecurringInv'
<1>0. TypeOK
  BY InvariantByPart
<1>1. /\ user' = [user EXCEPT ![u] = NoRequest] /\ user'[u] = NoRequest
      /\ UNCHANGED <<template, occurrence, drafts, base, sweep, today, faults>>
  BY <1>0 DEF DropRequest, TypeOK
<1> QED
  BY <1>1, Records, IdleIsSound, RequestMoves

LEMMA SkipOccurrenceStep ==
    ASSUME RecurringInv, NEW u \in Users, SkipOccurrence(u)
    PROVE  RecurringInv'
<1>0. TypeOK /\ RequestOK(u)
  BY InvariantByPart
<1>1. /\ user[u].pc = "write" /\ user[u].what = "skip"
      /\ user' = [user EXCEPT ![u] = NoRequest]
      /\ UNCHANGED <<template, drafts, base, sweep, today, faults>>
  BY DEF SkipOccurrence
<1>2. PICK t, d : t = user[u].id /\ d = user[u].date
  OBVIOUS
<1>3. "skip" \in Requests /\ t \in Ids
  BY <1>0, <1>1, <1>2 DEF RequestOK, Known
<1>4. d \in Days
  BY <1>0, <1>1, <1>2, <1>3 DEF RequestOK, Reviews, Edits
<1>5. user'[u] = NoRequest
  BY <1>0, <1>1 DEF TypeOK
<1>6. CASE occurrence' = occurrence
  BY <1>1, <1>5, <1>6, Records, IdleIsSound, RequestMoves
<1>7. CASE occurrence' # occurrence
  <2> DEFINE mark == [status |-> "skipped", audit |-> occurrence[t][d].audit + 1]
  <2>1. /\ OccurrenceGuard(t, d, user[u].seen)
        /\ occurrence' = [occurrence EXCEPT ![t][d] = [status |-> "skipped", audit |-> @.audit + 1]]
    BY <1>2, <1>7 DEF SkipOccurrence
  <2>2. occurrence[t][d].status \in {"none", "blocked"} /\ occurrence[t][d] \in Marks
    BY <1>0, <1>3, <1>4, <2>1 DEF OccurrenceGuard, TypeOK
  <2>3. mark \in Marks /\ mark.status = "skipped"
    BY <2>2 DEF Marks
  <2>4. occurrence' = [occurrence EXCEPT ![t][d] = mark]
    BY <1>0, <1>3, <1>4, <2>1 DEF TypeOK
  <2> HIDE DEF mark
  <2>5. /\ Forward
        /\ occurrence' \in [Ids -> [Days -> Marks]]
        /\ \A k \in Ids : TemplateOK(k)' /\ DatesOK(k)'
    BY <1>1, <1>3, <1>4, <2>2, <2>3, <2>4, DateIsWritten
  <2>6. TypeOK'
    BY <1>0, <1>1, <2>5, Records DEF TypeOK
  <2>7. \A v \in Users : user'[v] = user[v] \/ RequestOK(v)'
    BY <1>0, <1>1, <1>5, IdleIsSound DEF TypeOK
  <2> QED
    BY <1>1, <2>5, <2>6, <2>7, StepKeepsInv
<1> QED
  BY <1>6, <1>7

LEMMA RetryOccurrenceStep ==
    ASSUME RecurringInv, NEW u \in Users, NEW valid \in BOOLEAN, RetryOccurrence(u, valid)
    PROVE  RecurringInv'
<1>0. TypeOK /\ RequestOK(u)
  BY InvariantByPart
<1>1. /\ user[u].pc = "write" /\ user[u].what = "retry"
      /\ user' = [user EXCEPT ![u] = NoRequest]
      /\ UNCHANGED <<template, base, sweep, today, faults>>
  BY DEF RetryOccurrence
<1>2. PICK t, d, row : t = user[u].id /\ d = user[u].date /\ row = user[u].row
  OBVIOUS
<1>3. "retry" \in Requests /\ t \in Ids /\ row \in Rows /\ user[u].seen.status = "blocked"
  BY <1>0, <1>1, <1>2 DEF RequestOK, Known, TypeOK, OwnerRequests
<1>4. d \in Days
  BY <1>0, <1>1, <1>2, <1>3 DEF RequestOK, Reviews, Edits
<1>5. user'[u] = NoRequest
  BY <1>0, <1>1 DEF TypeOK
<1>6. CASE ~(GenerationGuard(t, row) /\ OccurrenceGuard(t, d, user[u].seen))
  <2>1. UNCHANGED <<occurrence, drafts>>
    BY <1>2, <1>6 DEF RetryOccurrence
  <2> QED
    BY <1>1, <1>5, <2>1, Records, IdleIsSound, RequestMoves
<1>7. CASE GenerationGuard(t, row) /\ OccurrenceGuard(t, d, user[u].seen)
  <2>1. Materialize(t, d, row, valid)
    BY <1>2, <1>7 DEF RetryOccurrence
  <2>2. occurrence[t][d].status \in {"none", "blocked"}
    BY <1>7 DEF OccurrenceGuard
  <2>3. /\ Forward
        /\ occurrence' \in [Ids -> [Days -> Marks]]
        /\ drafts' \in [Ids -> [Days -> Seq(Nat)]]
        /\ \A k \in Ids : TemplateOK(k)' /\ DatesOK(k)'
    BY <1>1, <1>3, <1>4, <2>1, <2>2, MaterializeIsSound
  <2>4. TypeOK'
    BY <1>0, <1>1, <2>3, Records DEF TypeOK
  <2>5. \A v \in Users : user'[v] = user[v] \/ RequestOK(v)'
    BY <1>0, <1>1, <1>5, IdleIsSound DEF TypeOK
  <2> QED
    BY <1>1, <2>3, <2>4, <2>5, StepKeepsInv
<1> QED
  BY <1>6, <1>7

(* The record an edit writes back. *)
LEMMA PatchedRow ==
    ASSUME RecurringInv, NEW u \in Users, user[u].pc = "write", user[u].what \in Edits,
           NEW row, row = user[u].row, NEW t, t = user[u].id,
           template[t].revision = row.revision
    PROVE  /\ t \in Ids /\ Patched(u) \in Rows
           /\ Patched(u).revision = template[t].revision + 1
           /\ Patched(u).schedule \in Schedules
           /\ Patched(u).postings <= Patched(u).revision
           /\ Patched(u).postings >= template[t].postings
           /\ user[u].what \notin Schedules =>
                 Patched(u).schedule = template[t].schedule /\ Patched(u).from = template[t].from
<1>0. TypeOK /\ RequestOK(u) /\ \A k \in Ids : TemplateOK(k)
  BY InvariantByPart
<1>1. user[u] \in OwnerRequests /\ row \in Rows /\ user[u].what \in Requests
  BY <1>0 DEF TypeOK, OwnerRequests, RequestOK
<1>2. t \in Ids /\ SamePostings(row, t) /\ SameRow(row, t)
  BY <1>0 DEF RequestOK, Known
<1>3. PICK p, day, what : p = Patched(u) /\ day = user[u].day /\ what = user[u].what
  OBVIOUS
<1>4. /\ row.revision \in Nat /\ row.postings \in Nat /\ row.from \in Nat
      /\ row.enabled \in BOOLEAN /\ row.postings = template[t].postings
      /\ row.schedule \in Schedules /\ row.schedule = template[t].schedule
      /\ row.from = template[t].from /\ day \in Nat
  BY <1>1, <1>2, <1>3 DEF Rows, SamePostings, SameRow, OwnerRequests
<1>5. row.postings <= row.revision
  BY <1>0, <1>2, <1>4 DEF TemplateOK
<1>6. what \in Schedules => Later(day, StartsOn[what]) \in Nat
  BY <1>4, Values, LaterSooner
<1>7. p = [revision |-> row.revision + 1,
           enabled |-> IF what = "pause" THEN FALSE ELSE IF what = "enable" THEN TRUE ELSE row.enabled,
           archived |-> FALSE,
           schedule |-> IF what \in Schedules THEN what ELSE row.schedule,
           from |-> IF what \in Schedules THEN Later(day, StartsOn[what]) ELSE row.from,
           postings |-> IF what = "postings" THEN row.revision + 1 ELSE row.postings]
  BY <1>3 DEF Patched
<1>8. /\ p.revision = row.revision + 1
      /\ p.schedule = IF what \in Schedules THEN what ELSE row.schedule
      /\ p.from = IF what \in Schedules THEN Later(day, StartsOn[what]) ELSE row.from
      /\ p.postings = IF what = "postings" THEN row.revision + 1 ELSE row.postings
  BY <1>7
<1>9. p \in Rows
  <2>1. PICK r, e, s, f, n : /\ r = p.revision /\ e = p.enabled /\ s = p.schedule
                             /\ f = p.from /\ n = p.postings
    OBVIOUS
  <2>2. r \in Nat /\ s \in Schedules /\ f \in Nat /\ n \in Nat
    BY <1>4, <1>6, <1>8, <2>1
  <2>3. e \in BOOLEAN
    BY <1>4, <1>7, <2>1
  <2>4. p = [revision |-> r, enabled |-> e, archived |-> FALSE, schedule |-> s, from |-> f, postings |-> n]
    BY <1>7, <2>1
  <2> QED
    BY <2>2, <2>3, <2>4 DEF Rows
<1>10. p.postings <= p.revision /\ p.postings >= template[t].postings
  BY <1>4, <1>5, <1>8
<1> QED
  BY <1>2, <1>3, <1>4, <1>8, <1>9, <1>10

LEMMA UpdateTemplateStep ==
    ASSUME RecurringInv, NEW u \in Users, UpdateTemplate(u)
    PROVE  RecurringInv'
<1>0. TypeOK /\ RequestOK(u) /\ \A k \in Ids : TemplateOK(k) /\ DatesOK(k)
  BY InvariantByPart
<1>1. /\ user[u].pc = "write" /\ user[u].what \in Edits
      /\ user' = [user EXCEPT ![u] = NoRequest]
      /\ UNCHANGED <<occurrence, drafts, sweep, today, faults>>
  BY DEF UpdateTemplate
<1>2. user'[u] = NoRequest
  BY <1>0, <1>1 DEF TypeOK
<1>3. PICK t, row, p : t = user[u].id /\ row = user[u].row /\ p = Patched(u)
  OBVIOUS
<1>4. CASE ~UpdateGuard(t, row)
  <2>1. UNCHANGED <<template, base>>
    BY <1>3, <1>4 DEF UpdateTemplate
  <2> QED
    BY <1>1, <1>2, <2>1, Records, IdleIsSound, RequestMoves
<1>5. CASE UpdateGuard(t, row)
  <2>1. /\ template' = [template EXCEPT ![t] = p]
        /\ base' = IF user[u].what \in Schedules
                   THEN [base EXCEPT ![t] = [from |-> p.from, revision |-> p.revision]] ELSE base
    BY <1>3, <1>5 DEF UpdateTemplate
  <2>2. /\ t \in Ids /\ p \in Rows /\ p.revision = template[t].revision + 1
        /\ p.schedule \in Schedules /\ p.postings <= p.revision
        /\ user[u].what \notin Schedules =>
              p.schedule = template[t].schedule /\ p.from = template[t].from
    BY <1>1, <1>3, <1>5, PatchedRow DEF UpdateGuard
  <2>3. /\ base[t] \in [from: Nat, revision: Nat] /\ base \in [Ids -> [from: Nat, revision: Nat]]
        /\ template[t].revision \in Nat /\ base[t].revision <= template[t].revision
        /\ p.from \in Nat /\ p.revision \in Nat
    BY <1>0, <2>2 DEF TypeOK, Rows, TemplateOK
  <2>4. PICK b : b = IF user[u].what \in Schedules
                     THEN [from |-> p.from, revision |-> p.revision] ELSE base[t]
    OBVIOUS
  <2>5. /\ b \in [from: Nat, revision: Nat] /\ b.revision <= p.revision
        /\ base' = [base EXCEPT ![t] = b]
    <3>1. CASE user[u].what \in Schedules
      BY <2>1, <2>3, <2>4, <3>1
    <3>2. CASE user[u].what \notin Schedules
      <4>1. b = base[t] /\ base' = base
        BY <2>1, <2>4, <3>2
      <4>2. PICK m, n, q : m = b.revision /\ n = template[t].revision /\ q = p.revision
        OBVIOUS
      <4>3. m \in Nat /\ n \in Nat /\ m <= n /\ q = n + 1
        BY <2>2, <2>3, <4>1, <4>2
      <4> QED
        BY <2>2, <2>3, <4>1, <4>2, <4>3
    <3> QED
      BY <3>1, <3>2
  <2>6. p.revision > template[t].revision
    BY <2>2, <2>3
  <2>7. template[t] # Absent
    <3>1. template[t].revision # 0
      BY <1>0, <1>1, <1>3, <2>3 DEF RequestOK, Known
    <3> QED
      BY <3>1 DEF Absent
  <2>8. ASSUME NEW d \in DatesOf[p.schedule], d \in b.from..(p.from - 1)
        PROVE  occurrence[t][d].status # "none"
    <3>1. CASE user[u].what \in Schedules
      <4>1. b.from = p.from /\ p.from \in Nat
        BY <2>3, <2>4, <3>1
      <4> QED
        BY <2>8, <4>1
    <3>2. CASE user[u].what \notin Schedules
      BY <1>0, <2>2, <2>4, <2>7, <2>8, <3>2 DEF DatesOK
    <3> QED
      BY <3>1, <3>2
  <2>9. /\ Forward
        /\ template' \in [Ids -> Rows]
        /\ base' \in [Ids -> [from: Nat, revision: Nat]]
        /\ \A k \in Ids : TemplateOK(k)' /\ DatesOK(k)'
    BY <1>1, <2>1, <2>2, <2>5, <2>6, <2>8, TemplateIsWritten
  <2>10. TypeOK'
    BY <1>0, <1>1, <2>9, Records DEF TypeOK
  <2>11. \A v \in Users : user'[v] = user[v] \/ RequestOK(v)'
    BY <1>0, <1>1, <1>2, IdleIsSound DEF TypeOK
  <2> QED
    BY <1>1, <2>9, <2>10, <2>11, StepKeepsInv
<1> QED
  BY <1>4, <1>5

LEMMA CreateTemplateStep ==
    ASSUME RecurringInv, NEW t \in Ids, NEW s \in Schedules, CreateTemplate(t, s)
    PROVE  RecurringInv'
<1>0. TypeOK
  BY InvariantByPart
<1>1. PICK from : from = Later(today, StartsOn[s])
  OBVIOUS
<1>2. /\ template[t] = Absent
      /\ template' = [template EXCEPT ![t] =
            [revision |-> 1, enabled |-> TRUE, archived |-> FALSE,
             schedule |-> s, from |-> from, postings |-> 1]]
      /\ base' = [base EXCEPT ![t] = [from |-> from, revision |-> 1]]
      /\ UNCHANGED <<occurrence, drafts, sweep, user, today, faults>>
  BY <1>1 DEF CreateTemplate
<1>3. from \in Nat
  <2>1. today \in Nat /\ StartsOn[s] \in Nat
    BY <1>0, Values DEF TypeOK
  <2> QED
    BY <1>1, <2>1, LaterSooner
<1>4. PICK row, b : /\ row = [revision |-> 1, enabled |-> TRUE, archived |-> FALSE,
                              schedule |-> s, from |-> from, postings |-> 1]
                    /\ b = [from |-> from, revision |-> 1]
  OBVIOUS
<1>5. /\ row \in Rows /\ b \in [from: Nat, revision: Nat] /\ row.revision = 1 /\ row.postings = 1
      /\ row.schedule = s /\ row.from = from /\ b.from = from /\ b.revision = 1
  BY <1>3, <1>4 DEF Rows
<1>6. template[t].revision = 0
  BY <1>2 DEF Absent
<1>7. \A d \in DatesOf[row.schedule] :
         d \in b.from..(row.from - 1) => occurrence[t][d].status # "none"
  BY <1>3, <1>5
<1>8. template' = [template EXCEPT ![t] = row] /\ base' = [base EXCEPT ![t] = b]
  BY <1>2, <1>4
<1>9. /\ Forward
      /\ template' \in [Ids -> Rows]
      /\ base' \in [Ids -> [from: Nat, revision: Nat]]
      /\ \A k \in Ids : TemplateOK(k)' /\ DatesOK(k)'
  <2>1. /\ row.revision > template[t].revision /\ row.postings <= row.revision
        /\ b.revision <= row.revision /\ row.schedule \in Schedules
    BY <1>5, <1>6
  <2>2. UNCHANGED <<occurrence, drafts>> /\ row \in Rows /\ b \in [from: Nat, revision: Nat]
    BY <1>2, <1>5
  <2> QED
    BY <1>7, <1>8, <2>1, <2>2, TemplateIsWritten
<1>10. TypeOK'
  BY <1>0, <1>2, <1>9 DEF TypeOK
<1> QED
  BY <1>2, <1>9, <1>10, StepKeepsInv

LEMMA ArchiveTemplateStep ==
    ASSUME RecurringInv, NEW t \in Ids, ArchiveTemplate(t)
    PROVE  RecurringInv'
<1>0. TypeOK /\ TemplateOK(t) /\ DatesOK(t)
  BY InvariantByPart
<1>1. PICK old : old = template[t]
  OBVIOUS
<1>2. old \in Rows /\ old.revision \in Nat /\ template \in [Ids -> Rows]
      /\ base \in [Ids -> [from: Nat, revision: Nat]]
  BY <1>0, <1>1 DEF TypeOK, Rows
<1>3. PICK n : n = old.revision + 1
  OBVIOUS
<1>4. PICK row : row = [old EXCEPT !.archived = TRUE, !.enabled = FALSE, !.revision = n]
  OBVIOUS
<1>5. /\ template' = [template EXCEPT ![t] = row] /\ old # Absent
      /\ UNCHANGED <<occurrence, drafts, base, sweep, user, today, faults>>
  BY <1>1, <1>2, <1>3, <1>4 DEF ArchiveTemplate
<1>6. n \in Nat /\ n > old.revision
  BY <1>2, <1>3
<1>7. /\ row \in Rows /\ row.revision = n /\ row.postings = old.postings
      /\ row.schedule = old.schedule /\ row.from = old.from
  BY <1>2, <1>4, <1>6 DEF Rows
<1>8. /\ old.schedule \in Schedules /\ old.postings <= old.revision
      /\ base[t].revision <= old.revision
  BY <1>0, <1>1, <1>5 DEF TemplateOK
<1>9. row.postings <= row.revision /\ base[t].revision <= row.revision
  <2>1. old.postings \in Nat /\ base[t].revision \in Nat
    BY <1>2 DEF Rows
  <2> QED
    BY <1>2, <1>6, <1>7, <1>8, <2>1
<1>10. \A d \in DatesOf[row.schedule] :
          d \in base[t].from..(row.from - 1) => occurrence[t][d].status # "none"
  BY <1>0, <1>1, <1>5, <1>7 DEF DatesOK
<1>11. PICK b : b = base[t]
  OBVIOUS
<1>12. b \in [from: Nat, revision: Nat] /\ base' = [base EXCEPT ![t] = b]
  BY <1>2, <1>5, <1>11
<1>13. /\ Forward
       /\ template' \in [Ids -> Rows]
       /\ \A k \in Ids : TemplateOK(k)' /\ DatesOK(k)'
  BY <1>1, <1>5, <1>6, <1>7, <1>8, <1>9, <1>10, <1>11, <1>12, TemplateIsWritten
<1>14. TypeOK'
  BY <1>0, <1>5, <1>13 DEF TypeOK
<1> QED
  BY <1>5, <1>13, <1>14, StepKeepsInv

(* The local date moves on, or back. *)
LEMMA DayStep ==
    ASSUME RecurringInv, NewDay \/ ChangeTimeZone
    PROVE  RecurringInv'
<1>0. TypeOK
  BY InvariantByPart
<1>1. UNCHANGED <<template, occurrence, drafts, base, sweep, user, faults>>
  BY DEF NewDay, ChangeTimeZone
<1>2. today' \in 0..MaxDay
  BY <1>0, Values DEF NewDay, ChangeTimeZone, TypeOK
<1>3. TypeOK'
  BY <1>0, <1>1, <1>2 DEF TypeOK
<1> QED
  BY <1>1, <1>3, TableStays, StepKeepsInv

-----------------------------------------------------------------------------
(* The invariant *)

LEMMA InitSound == Init => RecurringInv
<1> SUFFICES ASSUME Init PROVE RecurringInv
  OBVIOUS
<1>1. TypeOK
  <2>1. << >> \in Seq(Nat) /\ 0 \in 0..MaxDay /\ 0 \in 0..MaxFaults
    BY Values, EmptySeq
  <2>2. [t \in Ids |-> [from |-> 0, revision |-> 0]] \in [Ids -> [from: Nat, revision: Nat]]
    OBVIOUS
  <2> QED
    BY <2>1, <2>2, Records DEF Init, TypeOK
<1>2. ASSUME NEW t \in Ids PROVE TemplateOK(t) /\ DatesOK(t)
  <2>1. template[t] = Absent /\ base[t].revision = 0
        /\ \A d \in Days : drafts[t][d] = << >> /\ occurrence[t][d] = NoRow
    BY DEF Init
  <2>2. TemplateOK(t)
    BY <2>1 DEF TemplateOK, Absent
  <2>3. Len(<< >>) = 0 /\ NoRow.status = "none"
    BY DEF NoRow
  <2>4. DatesOK(t)
    BY <2>1, <2>3 DEF DatesOK
  <2> QED
    BY <2>2, <2>4
<1>3. ASSUME NEW g \in Generators PROVE SweepOK(g)
  <2>1. sweep[g] = NoSweep
    BY DEF Init
  <2>2. sweep[g].list = << >> /\ sweep[g].pc = "idle"
    BY <2>1 DEF NoSweep
  <2> QED
    BY <2>2 DEF SweepOK
<1>4. ASSUME NEW u \in Users PROVE RequestOK(u)
  <2>1. user[u].pc = "idle"
    BY DEF Init, NoRequest
  <2> QED
    BY <2>1 DEF RequestOK
<1> QED
  BY <1>1, <1>2, <1>3, <1>4, InvariantByPart

LEMMA NextSound ==
    ASSUME RecurringInv, [Next]_vars
    PROVE  RecurringInv'
<1>1. ASSUME NEW g \in Generators, SweepStep(g) \/ LoseSweep(g)
      PROVE  RecurringInv'
  BY <1>1, BeginSweepStep, ReadTemplatesStep, ReadPostingsStep, SkipTemplateStep, OpenTemplateStep,
     SweepEndsStep, AdvanceWatermarkStep, MakeOccurrenceStep DEF SweepStep
<1>2. ASSUME NEW u \in Users, Request(u) PROVE RecurringInv'
  <2>1. ASSUME NEW t \in Ids, NEW what \in Edits, BeginRequest(u, t, what, 0)
        PROVE  RecurringInv'
    <3>1. what \in Requests /\ what \notin Reviews
      BY DEF Edits, Reviews
    <3> QED
      BY <2>1, <3>1, BeginRequestStep
  <2>2. ASSUME NEW t \in Ids, NEW d \in Days, NEW what \in Reviews, BeginRequest(u, t, what, d)
        PROVE  RecurringInv'
    <3>1. what \in Requests
      BY DEF Reviews
    <3> QED
      BY <2>2, <3>1, BeginRequestStep
  <2> QED
    BY <1>2, <2>1, <2>2, RequestPostingsStep, RequestOccurrenceStep, SkipOccurrenceStep,
       RetryOccurrenceStep, UpdateTemplateStep, DropRequestStep DEF Request
<1>3. CASE UNCHANGED vars
  <2>1. TypeOK'
    BY <1>3, InvariantByPart DEF vars, TypeOK
  <2> QED
    BY <1>3, <2>1, TableStays, StepKeepsInv DEF vars
<1> QED
  BY <1>1, <1>2, <1>3, CreateTemplateStep, ArchiveTemplateStep, DayStep DEF Next

(* In every state, whatever sweeps and requests overlap: the tables are      *)
(* sound, and every snapshot knows what RecurringInv says of it              *)
(* (recurring_generation.go, recurring_review.go, recurring.go).             *)
THEOREM RecurringInvariance == Spec => []RecurringInv
<1>1. RecurringInv /\ [Next]_vars => RecurringInv'
  BY NextSound
<1> QED
  BY <1>1, InitSound, PTL DEF Spec

(* A date has one draft exactly when its row says so, whatever sweeps,       *)
(* retries and skips of it overlap (recurring_generation.go).                *)
THEOREM OccurrencesStaySound == Spec => []OccurrencesAreSound
<1>1. RecurringInv => OccurrencesAreSound
  BY DEF RecurringInv, OccurrencesAreSound
<1> QED
  BY <1>1, RecurringInvariance, PTL

(* The watermark passes over no date of the schedule that has no row,        *)
(* whatever caps, faults and edits interrupt the sweeps                      *)
(* (AdvanceRecurringGeneration).                                             *)
THEOREM NothingIsPassedOver == Spec => []NothingPassedOver
<1>1. RecurringInv => NothingPassedOver
  BY DEF RecurringInv
<1> QED
  BY <1>1, RecurringInvariance, PTL

-----------------------------------------------------------------------------
(* What a step may do *)

(* A draft made, or blocked, at one date of a template as it stands. *)
Makes(t, d, row, valid) ==
    /\ Materialize(t, d, row, valid) /\ template' = template
    /\ GenerationGuard(t, row) /\ row.postings = template[t].postings
    /\ occurrence[t][d].status \in {"none", "blocked"}
    /\ occurrence[t][d].status = "none" =>
          d \in DatesOf[template[t].schedule] /\ d >= template[t].from

Skips(t, d, mark) ==
    /\ occurrence' = [occurrence EXCEPT ![t][d] = mark]
    /\ drafts' = drafts
    /\ occurrence[t][d].status \in {"none", "blocked"}

(* The sweeps that write the table do it from a snapshot that is up to date. *)
LEMMA SweepWrites ==
    ASSUME RecurringInv, NEW g \in Generators, NEW valid \in BOOLEAN, MakeOccurrence(g, valid)
    PROVE  \/ UNCHANGED <<occurrence, drafts>>
           \/ \E t \in Ids, d \in Days, row \in Rows : Makes(t, d, row, valid)
<1>0. TypeOK /\ SweepOK(g)
  BY InvariantByPart
<1>1. sweep[g].pc = "making" /\ sweep[g].due # {} /\ template' = template
  BY DEF MakeOccurrence
<1>2. PICK t, d, row : t = At(g).id /\ d = First(g) /\ row = At(g).row
  OBVIOUS
<1>3. /\ sweep[g].list # << >> /\ t \in Ids /\ row \in Rows /\ sweep[g] \in Sweeps
      /\ WindowIsListed(g) /\ At(g) = sweep[g].list[1] /\ 1 \in DOMAIN sweep[g].list
  BY <1>0, <1>1, <1>2, AtWork DEF SweepOK, WindowIsListed, TypeOK
<1>4. d \in sweep[g].due /\ d \in Days
  <2>1. sweep[g].due \subseteq Days
    BY <1>3 DEF Sweeps
  <2>2. \E e \in sweep[g].due : \A f \in sweep[g].due : e <= f
    BY <1>1, <2>1, Values, LeastDay
  <2> QED
    BY <1>2, <2>1, <2>2 DEF First
<1>5. SUFFICES ASSUME ~UNCHANGED <<occurrence, drafts>>
               PROVE  Makes(t, d, row, valid)
  BY <1>3, <1>4
<1>6. GenerationGuard(t, row) /\ OccurrenceGuard(t, d, NoRow) /\ Materialize(t, d, row, valid)
  BY <1>2, <1>5 DEF MakeOccurrence
<1>7. row.postings = template[t].postings
  BY <1>0, <1>1, <1>2, <1>3, <1>6 DEF SweepOK, EntryOK, SamePostings, GenerationGuard
<1>8. d \in DatesOf[template[t].schedule] /\ d >= template[t].from
  BY <1>2, <1>3, <1>4, <1>6 DEF WindowIsListed, GenerationGuard
<1> QED
  BY <1>1, <1>6, <1>7, <1>8 DEF Makes, OccurrenceGuard

(* So do the requests. *)
LEMMA RequestWrites ==
    ASSUME RecurringInv, NEW u \in Users,
           SkipOccurrence(u) \/ \E valid \in BOOLEAN : RetryOccurrence(u, valid)
    PROVE  \/ UNCHANGED <<occurrence, drafts>>
           \/ \E t \in Ids, d \in Days, row \in Rows, valid \in BOOLEAN : Makes(t, d, row, valid)
           \/ \E t \in Ids, d \in Days : \E mark : Skips(t, d, mark)
<1>0. TypeOK /\ RequestOK(u)
  BY InvariantByPart
<1>1. PICK t, d, row : t = user[u].id /\ d = user[u].date /\ row = user[u].row
  OBVIOUS
<1>2. /\ user[u].pc = "write" /\ user[u].what \in {"skip", "retry"}
  BY DEF SkipOccurrence, RetryOccurrence
<1>3. /\ t \in Ids /\ d \in Days /\ row \in Rows /\ SamePostings(row, t)
  <2>1. Known(row, t) /\ SamePostings(row, t) /\ user[u].what \in Requests
    BY <1>0, <1>1, <1>2 DEF RequestOK
  <2>2. user[u].what \in Reviews
    BY <1>2, <2>1 DEF Reviews, Edits
  <2>3. d \in Days
    BY <1>0, <1>1, <1>2, <2>2 DEF RequestOK
  <2>4. row \in Rows
    BY <1>0, <1>1 DEF TypeOK, OwnerRequests
  <2> QED
    BY <2>1, <2>3, <2>4 DEF Known
<1>4. CASE SkipOccurrence(u)
  <2>1. drafts' = drafts
    BY <1>4 DEF SkipOccurrence
  <2>2. CASE occurrence' = occurrence
    BY <2>1, <2>2
  <2>3. CASE occurrence' # occurrence
    <3>1. /\ OccurrenceGuard(t, d, user[u].seen)
          /\ occurrence' = [occurrence EXCEPT ![t][d] =
                              [status |-> "skipped", audit |-> @.audit + 1]]
      BY <1>1, <1>4, <2>3 DEF SkipOccurrence
    <3>2. PICK mark : mark = [status |-> "skipped", audit |-> occurrence[t][d].audit + 1]
      OBVIOUS
    <3>3. Skips(t, d, mark)
      BY <2>1, <3>1, <3>2 DEF Skips, OccurrenceGuard
    <3> QED
      BY <1>3, <3>3
  <2> QED
    BY <2>2, <2>3
<1>5. ASSUME NEW valid \in BOOLEAN, RetryOccurrence(u, valid)
      PROVE  \/ UNCHANGED <<occurrence, drafts>>
             \/ Makes(t, d, row, valid)
  <2>1. CASE ~(GenerationGuard(t, row) /\ OccurrenceGuard(t, d, user[u].seen))
    BY <1>1, <1>5, <2>1 DEF RetryOccurrence
  <2>2. CASE GenerationGuard(t, row) /\ OccurrenceGuard(t, d, user[u].seen)
    <3>1. /\ Materialize(t, d, row, valid) /\ template' = template
          /\ user[u].pc = "write" /\ user[u].what = "retry"
      BY <1>1, <1>5, <2>2 DEF RetryOccurrence
    <3>2. user[u].seen.status = "blocked"
      BY <1>0, <3>1 DEF RequestOK
    <3>3. row.postings = template[t].postings
      BY <1>3, <2>2 DEF SamePostings, GenerationGuard
    <3> QED
      BY <2>2, <3>1, <3>2, <3>3 DEF Makes, OccurrenceGuard
  <2> QED
    BY <2>1, <2>2
<1> QED
  BY <1>3, <1>4, <1>5

(* Nothing else does. *)
LEMMA TableWrites ==
    ASSUME RecurringInv, [Next]_vars
    PROVE  \/ UNCHANGED <<occurrence, drafts>>
           \/ \E t \in Ids, d \in Days, row \in Rows, valid \in BOOLEAN : Makes(t, d, row, valid)
           \/ \E t \in Ids, d \in Days : \E mark : Skips(t, d, mark)
<1>1. ASSUME NEW g \in Generators, SweepStep(g) \/ LoseSweep(g),
             ~(\E valid \in BOOLEAN : MakeOccurrence(g, valid))
      PROVE  UNCHANGED <<occurrence, drafts>>
  BY <1>1 DEF SweepStep, LoseSweep, BeginSweep, ReadTemplates, ReadPostings, SkipTemplate, OpenTemplate,
     CapReached, AdvanceWatermark, EndSweep
<1>2. ASSUME NEW u \in Users, Request(u),
             ~(SkipOccurrence(u) \/ \E valid \in BOOLEAN : RetryOccurrence(u, valid))
      PROVE  UNCHANGED <<occurrence, drafts>>
  BY <1>2 DEF Request, BeginRequest, RequestPostings, RequestOccurrence, UpdateTemplate, DropRequest
<1>3. CASE UNCHANGED vars
  BY <1>3 DEF vars
<1>4. ASSUME NEW t \in Ids, ArchiveTemplate(t) \/ \E s \in Schedules : CreateTemplate(t, s)
      PROVE  UNCHANGED <<occurrence, drafts>>
  BY <1>4 DEF ArchiveTemplate, CreateTemplate
<1>5. CASE NewDay \/ ChangeTimeZone
  BY <1>5 DEF NewDay, ChangeTimeZone
<1>6. ASSUME NEW g \in Generators, SweepStep(g) \/ LoseSweep(g)
      PROVE  \/ UNCHANGED <<occurrence, drafts>>
             \/ \E t \in Ids, d \in Days, row \in Rows, valid \in BOOLEAN : Makes(t, d, row, valid)
  BY <1>1, <1>6, SweepWrites
<1>7. ASSUME NEW u \in Users, Request(u)
      PROVE  \/ UNCHANGED <<occurrence, drafts>>
             \/ \E t \in Ids, d \in Days, row \in Rows, valid \in BOOLEAN : Makes(t, d, row, valid)
             \/ \E t \in Ids, d \in Days : \E mark : Skips(t, d, mark)
  BY <1>2, <1>7, RequestWrites
<1> QED
  BY <1>3, <1>4, <1>5, <1>6, <1>7 DEF Next

(* A generated or a skipped date is final: only a blocked attempt is retried *)
(* or skipped (guardRecurringOccurrence).                                    *)
THEOREM DecidedDatesStay == Spec => DecidedDatesAreFinal
<1>1. ASSUME RecurringInv, [Next]_vars, NEW t \in Ids, NEW d \in Days,
             occurrence[t][d].status \in {"generated", "skipped"}
      PROVE  occurrence'[t][d] = occurrence[t][d]
  <2>0. occurrence \in [Ids -> [Days -> Marks]]
    BY <1>1, InvariantByPart DEF TypeOK
  <2>1. SUFFICES ASSUME occurrence' # occurrence PROVE occurrence'[t][d] = occurrence[t][d]
    OBVIOUS
  <2> DEFINE Rewrites(c, f) ==
               /\ occurrence[c][f].status \in {"none", "blocked"}
               /\ \E mark : occurrence' = [occurrence EXCEPT ![c][f] = mark]
  <2>2. PICK k \in Ids, e \in Days : Rewrites(k, e)
    <3>1. ASSUME NEW c \in Ids, NEW f \in Days, NEW row \in Rows, NEW valid \in BOOLEAN,
                 Makes(c, f, row, valid)
          PROVE  Rewrites(c, f)
      BY <3>1 DEF Makes, Materialize
    <3>2. ASSUME NEW c \in Ids, NEW f \in Days, \E mark : Skips(c, f, mark)
          PROVE  Rewrites(c, f)
      BY <3>2 DEF Skips
    <3> HIDE DEF Rewrites
    <3> QED
      BY <1>1, <2>1, <3>1, <3>2, TableWrites
  <2>3. PICK mark : occurrence' = [occurrence EXCEPT ![k][e] = mark]
    BY <2>2
  <2>4. k # t \/ e # d
    BY <1>1, <2>2
  <2> QED
    BY <2>0, <2>3, <2>4
<1>2. RecurringInv /\ [Next]_vars =>
         [\A t \in Ids, d \in Days :
             occurrence[t][d].status \in {"generated", "skipped"} =>
                 occurrence'[t][d] = occurrence[t][d]]_vars
  BY <1>1
<1> QED
  BY <1>2, RecurringInvariance, PTL DEF Spec, DecidedDatesAreFinal

(* A draft is made from the template as it is at that moment, for a date of  *)
(* its schedule that has not been passed (materializeRecurringOccurrence).   *)
THEOREM DraftsKeepToTemplate == Spec => DraftsFollowTemplate
<1>1. ASSUME RecurringInv, [Next]_vars, NEW t \in Ids, NEW d \in Days, drafts'[t][d] # drafts[t][d]
      PROVE  /\ template[t].enabled /\ ~template[t].archived
             /\ Last(drafts'[t][d]) = template[t].postings
             /\ occurrence[t][d].status = "none" =>
                   d \in DatesOf[template[t].schedule] /\ d >= template[t].from
  <2>0. /\ drafts \in [Ids -> [Days -> Seq(Nat)]] /\ drafts[t][d] \in Seq(Nat)
        /\ template \in [Ids -> Rows]
    BY <1>1, InvariantByPart DEF TypeOK
  <2>1. PICK k \in Ids, e \in Days, row \in Rows, valid \in BOOLEAN : Makes(k, e, row, valid)
    BY <1>1, TableWrites DEF Skips
  <2>2. drafts' = [drafts EXCEPT ![k][e] = Append(@, row.postings)]
    BY <1>1, <2>1 DEF Makes, Materialize
  <2>3. k = t /\ e = d /\ drafts'[t][d] = Append(drafts[t][d], row.postings)
    BY <1>1, <2>0, <2>2
  <2>4. row.postings \in Nat
    BY DEF Rows
  <2>5. Last(drafts'[t][d]) = row.postings
    <3>1. PICK x, y : x = drafts[t][d] /\ y = row.postings
      OBVIOUS
    <3>2. Append(x, y)[Len(Append(x, y))] = y
      BY <2>0, <2>4, <3>1, AppendProperties
    <3> QED
      BY <2>3, <3>1, <3>2 DEF Last
  <2> QED
    BY <2>1, <2>3, <2>5 DEF Makes, GenerationGuard
<1>2. RecurringInv /\ [Next]_vars =>
         [\A t \in Ids, d \in Days : drafts'[t][d] # drafts[t][d] =>
             /\ template[t].enabled /\ ~template[t].archived
             /\ Last(drafts'[t][d]) = template[t].postings
             /\ occurrence[t][d].status = "none" =>
                   d \in DatesOf[template[t].schedule] /\ d >= template[t].from]_vars
  BY <1>1
<1> QED
  BY <1>2, RecurringInvariance, PTL DEF Spec, DraftsFollowTemplate

(* What no write of a template may undo. *)
Kept(t) ==
    /\ template'[t].postings >= template[t].postings
    /\ template[t].archived => template'[t].archived
    /\ template'[t].from < template[t].from => base'[t] # base[t]

LEMMA UnchangedIsKept ==
    ASSUME RecurringInv, NEW t \in Ids, template'[t] = template[t]
    PROVE  Kept(t)
<1>1. template[t].postings \in Nat /\ template[t].from \in Nat
  BY InvariantByPart DEF TypeOK, Rows
<1> QED
  BY <1>1 DEF Kept

LEMMA AdvanceKeeps ==
    ASSUME RecurringInv, NEW g \in Generators, AdvanceWatermark(g), NEW t \in Ids
    PROVE  Kept(t)
<1>0. TypeOK
  BY InvariantByPart
<1>1. SUFFICES ASSUME template'[t] # template[t] PROVE Kept(t)
  BY UnchangedIsKept
<1>2. PICK k, through : k = At(g).id /\ through = sweep[g].end + 1
  OBVIOUS
<1>3. /\ template[k].from < through
      /\ template' = [template EXCEPT ![k].from = through, ![k].revision = @ + 1]
  BY <1>1, <1>2 DEF AdvanceWatermark, Advanced
<1>4. template \in [Ids -> Rows] /\ template[t].postings \in Nat /\ template[t].from \in Nat
  BY <1>0 DEF TypeOK, Rows
<1>5. through \in Nat
  <2>1. sweep[g].end \in Nat
    BY <1>0 DEF TypeOK, Sweeps
  <2> QED
    BY <1>2, <2>1
<1>6. k = t
  BY <1>1, <1>3, <1>4
<1>7. /\ template'[t].postings = template[t].postings
      /\ template'[t].archived = template[t].archived
      /\ template'[t].from = through
  BY <1>3, <1>4, <1>6 DEF Rows
<1> QED
  BY <1>3, <1>4, <1>5, <1>6, <1>7 DEF Kept

LEMMA UpdateKeeps ==
    ASSUME RecurringInv, NEW u \in Users, UpdateTemplate(u), NEW t \in Ids
    PROVE  Kept(t)
<1>0. TypeOK /\ TemplateOK(t)
  BY InvariantByPart
<1>1. SUFFICES ASSUME template'[t] # template[t] PROVE Kept(t)
  BY UnchangedIsKept
<1>2. PICK k, row, p : k = user[u].id /\ row = user[u].row /\ p = Patched(u)
  OBVIOUS
<1>3. /\ UpdateGuard(k, row) /\ template' = [template EXCEPT ![k] = p]
      /\ base' = IF user[u].what \in Schedules
                 THEN [base EXCEPT ![k] = [from |-> p.from, revision |-> p.revision]] ELSE base
      /\ user[u].pc = "write" /\ user[u].what \in Edits
  BY <1>1, <1>2 DEF UpdateTemplate
<1>4. /\ template \in [Ids -> Rows] /\ base \in [Ids -> [from: Nat, revision: Nat]]
      /\ template[t].from \in Nat /\ template[t].revision \in Nat
      /\ base[t].revision \in Nat /\ base[t].revision <= template[t].revision
  BY <1>0 DEF TypeOK, Rows, TemplateOK
<1>5. k = t
  BY <1>1, <1>3, <1>4
<1>6. /\ p.revision = template[t].revision + 1 /\ p.postings >= template[t].postings
      /\ user[u].what \notin Schedules => p.from = template[t].from
  <2>1. template[k].revision = row.revision
    BY <1>3 DEF UpdateGuard
  <2>2. /\ Patched(u).revision = template[k].revision + 1
        /\ Patched(u).postings >= template[k].postings
        /\ user[u].what \notin Schedules => Patched(u).from = template[k].from
    BY <1>2, <1>3, <2>1, PatchedRow
  <2> QED
    BY <1>2, <1>5, <2>2
<1>7. template'[t] = p /\ ~template[t].archived
  BY <1>3, <1>4, <1>5 DEF UpdateGuard
<1>8. user[u].what \in Schedules => base'[t] # base[t]
  <2>1. ASSUME user[u].what \in Schedules PROVE base'[t].revision = template[t].revision + 1
    BY <1>3, <1>4, <1>5, <1>6, <2>1
  <2> QED
    BY <1>4, <2>1
<1> QED
  BY <1>4, <1>6, <1>7, <1>8 DEF Kept

LEMMA CreateOrArchiveKeeps ==
    ASSUME RecurringInv, NEW k \in Ids, NEW t \in Ids,
           ArchiveTemplate(k) \/ \E s \in Schedules : CreateTemplate(k, s)
    PROVE  Kept(t)
<1>0. TypeOK
  BY InvariantByPart
<1>1. SUFFICES ASSUME template'[t] # template[t] PROVE Kept(t)
  BY UnchangedIsKept
<1>2. /\ template \in [Ids -> Rows] /\ template[t].postings \in Nat /\ template[t].from \in Nat
  BY <1>0 DEF TypeOK, Rows
<1>3. CASE ArchiveTemplate(k)
  <2>1. template' = [template EXCEPT ![k].archived = TRUE, ![k].enabled = FALSE, ![k].revision = @ + 1]
    BY <1>3 DEF ArchiveTemplate
  <2>2. k = t
    BY <1>1, <1>2, <2>1
  <2>3. /\ template'[t].postings = template[t].postings /\ template'[t].archived
        /\ template'[t].from = template[t].from
    BY <1>2, <2>1, <2>2 DEF Rows
  <2> QED
    BY <1>2, <2>3 DEF Kept
<1>4. ASSUME NEW s \in Schedules, CreateTemplate(k, s) PROVE Kept(t)
  <2>1. PICK from : from = Later(today, StartsOn[s])
    OBVIOUS
  <2>2. /\ template[k] = Absent
        /\ template' = [template EXCEPT ![k] =
              [revision |-> 1, enabled |-> TRUE, archived |-> FALSE,
               schedule |-> s, from |-> from, postings |-> 1]]
    BY <1>4, <2>1 DEF CreateTemplate
  <2>3. k = t
    BY <1>1, <1>2, <2>2
  <2>4. from \in Nat
    <3>1. today \in Nat /\ StartsOn[s] \in Nat
      BY <1>0, Values DEF TypeOK
    <3> QED
      BY <2>1, <3>1, LaterSooner
  <2>5. /\ template'[t].postings = 1 /\ template[t].postings = 0
        /\ ~template[t].archived /\ template'[t].from = from /\ template[t].from = 0
    BY <1>2, <2>2, <2>3 DEF Absent
  <2> QED
    BY <2>4, <2>5 DEF Kept
<1> QED
  BY <1>3, <1>4

(* No write of a stale snapshot undoes a later one: postings are not put     *)
(* back, an archived template stays so, and the watermark goes back only     *)
(* with a new schedule (UpdateRecurringTemplate, AdvanceRecurringGeneration).*)
THEOREM NoUpdateIsLost == Spec => NoLostUpdate
<1>1. ASSUME RecurringInv, [Next]_vars, NEW t \in Ids PROVE Kept(t)
  <2>1. ASSUME NEW g \in Generators, SweepStep(g) \/ LoseSweep(g) PROVE Kept(t)
    <3>1. AdvanceWatermark(g) \/ template' = template
      BY <2>1 DEF SweepStep, LoseSweep, BeginSweep, ReadTemplates, ReadPostings, SkipTemplate,
         OpenTemplate, CapReached, EndSweep, MakeOccurrence
    <3> QED
      BY <1>1, <3>1, AdvanceKeeps, UnchangedIsKept
  <2>2. ASSUME NEW u \in Users, Request(u) PROVE Kept(t)
    <3>1. UpdateTemplate(u) \/ template' = template
      BY <2>2 DEF Request, BeginRequest, RequestPostings, RequestOccurrence, SkipOccurrence,
         RetryOccurrence, DropRequest
    <3> QED
      BY <1>1, <3>1, UpdateKeeps, UnchangedIsKept
  <2>3. CASE NewDay \/ ChangeTimeZone \/ UNCHANGED vars
    BY <1>1, <2>3, UnchangedIsKept DEF NewDay, ChangeTimeZone, vars
  <2> QED
    BY <1>1, <2>1, <2>2, <2>3, CreateOrArchiveKeeps DEF Next
<1>2. RecurringInv /\ [Next]_vars =>
         [\A t \in Ids :
             /\ template'[t].postings >= template[t].postings
             /\ template[t].archived => template'[t].archived
             /\ template'[t].from < template[t].from => base'[t] # base[t]]_vars
  BY <1>1 DEF Kept
<1> QED
  BY <1>2, RecurringInvariance, PTL DEF Spec, NoLostUpdate

-----------------------------------------------------------------------------
(* The calendar *)

(* The leap days of the first u years. *)
LeapDays(u) == u \div 4 - u \div 100 + u \div 400

(* The days of a year before its month k, counted from 0. *)
DaysInto(k, leap) == DaysBefore[k + 1] + (IF k > 1 /\ leap THEN 1 ELSE 0)

(* The days of month k of a year. *)
LengthOf(k, leap) ==
    IF k = 1 THEN IF leap THEN 29 ELSE 28 ELSE IF k \in {3, 5, 8, 10} THEN 30 ELSE 31

(* A month number is a year and a month of it. *)
LEMMA MonthSplit ==
    ASSUME NEW m \in Nat
    PROVE  /\ m \div 12 \in Nat
           /\ m % 12 \in 0..11
           /\ m = 12 * (m \div 12) + (m % 12)
OBVIOUS

(* A leap year adds a leap day, and no year takes one away. *)
LEMMA LeapDaysGrow ==
    ASSUME NEW y \in Nat \ {0}, NEW z \in Nat, y <= z
    PROVE  LeapDays(z) >= LeapDays(y - 1) + (IF IsLeap(y) THEN 1 ELSE 0)
<1>1. LeapDays(y) = LeapDays(y - 1) + (IF IsLeap(y) THEN 1 ELSE 0)
  BY DEF LeapDays, IsLeap
<1>2. LeapDays(z) >= LeapDays(y)
  BY DEF LeapDays
<1> QED
  BY <1>1, <1>2 DEF LeapDays

(* The table of the days before a month. *)
LEMMA DaysBeforeTable ==
    /\ DaysBefore[1] = 0 /\ DaysBefore[2] = 31 /\ DaysBefore[3] = 59
    /\ DaysBefore[4] = 90 /\ DaysBefore[5] = 120 /\ DaysBefore[6] = 151
    /\ DaysBefore[7] = 181 /\ DaysBefore[8] = 212 /\ DaysBefore[9] = 243
    /\ DaysBefore[10] = 273 /\ DaysBefore[11] = 304 /\ DaysBefore[12] = 334
BY DEF DaysBefore

(* Within a year a later month begins behind the last day of an earlier one, *)
(* and the year ends behind that of every month.                             *)
LEMMA WithinYear ==
    ASSUME NEW j \in 0..11, NEW leap \in BOOLEAN
    PROVE  /\ LengthOf(j, leap) \in 28..31
           /\ DaysInto(j, leap) \in Nat /\ DaysInto(j, leap) >= j
           /\ DaysInto(j, leap) + LengthOf(j, leap) + (11 - j)
                 <= 365 + (IF leap THEN 1 ELSE 0)
           /\ \A k \in (j + 1)..11 :
                 DaysInto(k, leap) >= DaysInto(j, leap) + LengthOf(j, leap) + (k - j - 1)
<1>1. \A k \in 0..11 :
         DaysInto(k, leap) = IF k = 0 THEN 0 ELSE IF k = 1 THEN 31
                             ELSE (IF leap THEN 1 ELSE 0)
                                  + (IF k = 2 THEN 59 ELSE IF k = 3 THEN 90
                                     ELSE IF k = 4 THEN 120 ELSE IF k = 5 THEN 151
                                     ELSE IF k = 6 THEN 181 ELSE IF k = 7 THEN 212
                                     ELSE IF k = 8 THEN 243 ELSE IF k = 9 THEN 273
                                     ELSE IF k = 10 THEN 304 ELSE 334)
  <2>1. ASSUME NEW k \in 0..11
        PROVE  k \in {0, 1, 2, 3, 4, 5, 6, 7, 8, 9, 10, 11}
    OBVIOUS
  <2> QED
    BY <2>1, DaysBeforeTable DEF DaysInto
<1> QED
  BY <1>1 DEF LengthOf

(* The calendar by year and month of the year. *)
LEMMA FirstOfSplit ==
    ASSUME NEW m \in Nat, m >= 12
    PROVE  /\ FirstOf(m) = 365 * (m \div 12 - 1) + LeapDays(m \div 12 - 1)
                           + DaysInto(m % 12, IsLeap(m \div 12)) + 1
           /\ daysInMonth(m) = LengthOf(m % 12, IsLeap(m \div 12))
<1>1. m % 12 \in 0..11 /\ m \div 12 \in Nat
  BY MonthSplit
<1>2. daysInMonth(m) = LengthOf(m % 12, IsLeap(m \div 12))
  BY <1>1 DEF daysInMonth, LengthOf, MonthIn
<1>3. FirstOf(m) = 365 * (m \div 12 - 1) + LeapDays(m \div 12 - 1)
                           + DaysInto(m % 12, IsLeap(m \div 12)) + 1
  <2>1. MonthIn(m) > 2 <=> m % 12 > 1
    BY <1>1 DEF MonthIn
  <2>2. DaysBefore[MonthIn(m)] \in Int
    BY <1>1, DaysBeforeTable DEF MonthIn
  <2> QED
    BY <1>1, <2>1, <2>2 DEF FirstOf, LeapDays, DaysInto, MonthIn
<1> QED
  BY <1>2, <1>3

(* The first of a later month is behind the last day of an earlier one, by a *)
(* day more for every month between them.                                    *)
LEMMA LaterMonths ==
    ASSUME NEW m \in Nat, NEW n \in Nat, 12 <= m, m < n
    PROVE  /\ FirstOf(m) \in Int /\ FirstOf(n) \in Int /\ daysInMonth(m) \in 28..31
           /\ FirstOf(n) >= FirstOf(m) + daysInMonth(m) + (n - m - 1)
<1> DEFINE y == m \div 12
           z == n \div 12
           j == m % 12
           k == n % 12
<1>1. /\ y \in Nat \ {0} /\ j \in 0..11 /\ m = 12 * y + j
      /\ z \in Nat \ {0} /\ k \in 0..11 /\ n = 12 * z + k
      /\ y <= z
  BY MonthSplit
<1>2. /\ FirstOf(m) = 365 * (y - 1) + LeapDays(y - 1) + DaysInto(j, IsLeap(y)) + 1
      /\ FirstOf(n) = 365 * (z - 1) + LeapDays(z - 1) + DaysInto(k, IsLeap(z)) + 1
      /\ daysInMonth(m) = LengthOf(j, IsLeap(y))
  <2>1. m >= 12 /\ n >= 12
    OBVIOUS
  <2> QED
    BY <2>1, FirstOfSplit, Zenon
<1>3. LeapDays(y - 1) \in Int /\ LeapDays(z - 1) \in Int
  BY <1>1 DEF LeapDays
<1>4. IsLeap(y) \in BOOLEAN /\ IsLeap(z) \in BOOLEAN
  BY DEF IsLeap
<1>5. /\ LengthOf(j, IsLeap(y)) \in 28..31
      /\ DaysInto(j, IsLeap(y)) \in Nat
      /\ DaysInto(k, IsLeap(z)) \in Nat /\ DaysInto(k, IsLeap(z)) >= k
      /\ DaysInto(j, IsLeap(y)) + LengthOf(j, IsLeap(y)) + (11 - j)
            <= 365 + (IF IsLeap(y) THEN 1 ELSE 0)
  BY <1>1, <1>4, WithinYear
<1> HIDE DEF y, z, j, k
<1>6. FirstOf(n) >= FirstOf(m) + daysInMonth(m) + (n - m - 1)
  <2>1. CASE y = z
    <3>1. k \in (j + 1)..11
      BY <1>1, <2>1
    <3>2. DaysInto(k, IsLeap(z)) >= DaysInto(j, IsLeap(y)) + LengthOf(j, IsLeap(y)) + (k - j - 1)
      BY <1>1, <1>4, <2>1, <3>1, WithinYear
    <3> QED
      BY <1>1, <1>2, <1>3, <1>5, <2>1, <3>2
  <2>2. CASE y < z
    <3>1. LeapDays(z - 1) >= LeapDays(y - 1) + (IF IsLeap(y) THEN 1 ELSE 0)
      BY <1>1, <2>2, LeapDaysGrow
    <3>2. PICK d : d = IF IsLeap(y) THEN 1 ELSE 0
      OBVIOUS
    <3> QED
      BY <1>1, <1>2, <1>3, <1>5, <2>2, <3>1, <3>2
  <2> QED
    BY <1>1, <2>1, <2>2
<1> QED
  BY <1>1, <1>2, <1>3, <1>5, <1>6

-----------------------------------------------------------------------------
(* The series *)

(* A clamped day is a day of its month. *)
LEMMA ClampedIsInMonth ==
    ASSUME NEW spec, spec.day \in 0..31, NEW m \in Nat, m >= 12
    PROVE  /\ clampToMonth(m, spec) \in Int
           /\ FirstOf(m) <= clampToMonth(m, spec)
           /\ clampToMonth(m, spec) <= FirstOf(m) + daysInMonth(m) - 1
<1>1. FirstOf(m) \in Int /\ daysInMonth(m) \in 28..31
  <2>1. m + 1 \in Nat /\ m < m + 1
    OBVIOUS
  <2> QED
    BY <2>1, LaterMonths
<1>2. PICK d : d = IF spec.day = 0 \/ spec.day > daysInMonth(m) THEN daysInMonth(m) ELSE spec.day
  OBVIOUS
<1>3. d \in 1..daysInMonth(m)
  BY <1>1, <1>2
<1>4. clampToMonth(m, spec) = FirstOf(m) + d - 1
  BY <1>2 DEF clampToMonth, Date
<1> QED
  BY <1>1, <1>3, <1>4

(* Clamped dates keep the order of their months, a day apart for each. *)
LEMMA ClampedAscends ==
    ASSUME NEW spec, spec.day \in 0..31,
           NEW m \in Nat, NEW n \in Nat, m >= 12, m < n
    PROVE  clampToMonth(n, spec) >= clampToMonth(m, spec) + (n - m)
<1>1. n >= 12
  OBVIOUS
<1>2. /\ FirstOf(m) \in Int /\ FirstOf(n) \in Int /\ daysInMonth(m) \in 28..31
      /\ FirstOf(n) >= FirstOf(m) + daysInMonth(m) + (n - m - 1)
  BY LaterMonths
<1>3. /\ clampToMonth(m, spec) \in Int /\ clampToMonth(n, spec) \in Int
      /\ clampToMonth(m, spec) <= FirstOf(m) + daysInMonth(m) - 1
      /\ FirstOf(n) <= clampToMonth(n, spec)
  BY <1>1, ClampedIsInMonth
<1> QED
  BY <1>2, <1>3

(* A later index is at least as many intervals later. *)
LEMMA IntervalsAdd ==
    ASSUME NEW p \in Nat \ {0}, NEW i \in Nat, NEW j \in Nat, i < j
    PROVE  /\ i * p \in Nat /\ j * p \in Nat
           /\ j * p >= i * p + (j - i)
<1>1. i * p \in Nat /\ j * p \in Nat /\ (j - i) * p \in Nat
  OBVIOUS
<1>2. j * p = i * p + (j - i) * p
  OBVIOUS
<1>3. PICK q \in Nat : p = q + 1
  <2>1. p - 1 \in Nat /\ p = (p - 1) + 1
    OBVIOUS
  <2> QED
    BY <2>1
<1>4. (j - i) * p = (j - i) * q + (j - i) /\ (j - i) * q \in Nat
  BY <1>3
<1> QED
  BY <1>1, <1>2, <1>4

(* Validate, condition by condition. *)
LEMMA ValidateChecks ==
    ASSUME NEW spec, Validate(spec)
    PROVE  /\ spec.frequency \in {"daily", "weekly", "monthly", "yearly"}
           /\ spec.interval \in Nat \ {0}
           /\ spec.startMonth \in 12..LastMonth
           /\ spec.startDay \in 1..daysInMonth(spec.startMonth)
           /\ spec.frequency = "weekly" => spec.weekday \in 0..6
           /\ spec.frequency \in {"monthly", "yearly"} => spec.day \in 0..31
           /\ spec.frequency = "yearly" => spec.month \in 1..12
BY Zenon DEF Validate

(* What Validate says of the fields the arithmetic needs. *)
LEMMA ValidatedFields ==
    ASSUME NEW spec, Validate(spec)
    PROVE  /\ spec.interval \in Nat \ {0}
           /\ spec.startMonth \in Nat /\ spec.startMonth >= 12
           /\ FirstOf(spec.startMonth) \in Int
           /\ Anchor(spec) \in Int
           /\ Anchor(spec) <= FirstOf(spec.startMonth) + daysInMonth(spec.startMonth) - 1
           /\ spec.frequency \in {"monthly", "yearly"} =>
                 /\ spec.day \in 0..31
                 /\ MonthStep(spec) \in Nat \ {0}
                 /\ AnchorMonth(spec) \in Nat /\ AnchorMonth(spec) >= 12
                 /\ AnchorMonth(spec) + MonthStep(spec) > spec.startMonth
                 /\ OriginMonth(spec) \in Nat /\ OriginMonth(spec) >= 12
<1> DEFINE m == spec.startMonth
<1>1. spec.interval \in Nat \ {0} /\ m \in Nat /\ m >= 12
  <2>1. LastMonth \in Int
    BY DEF LastMonth
  <2> QED
    BY <2>1, ValidateChecks
<1>2. FirstOf(m) \in Int /\ daysInMonth(m) \in 28..31
  <2>1. m + 1 \in Nat /\ m < m + 1
    BY <1>1
  <2> QED
    BY <1>1, <2>1, LaterMonths
<1>3. Anchor(spec) \in Int /\ Anchor(spec) <= FirstOf(m) + daysInMonth(m) - 1
  <2>1. spec.startDay \in 1..daysInMonth(m)
    BY ValidateChecks
  <2> QED
    BY <1>2, <2>1 DEF Anchor, Date
<1>4. ASSUME spec.frequency \in {"monthly", "yearly"}
      PROVE  /\ spec.day \in 0..31
             /\ MonthStep(spec) \in Nat \ {0}
             /\ AnchorMonth(spec) \in Nat /\ AnchorMonth(spec) >= 12
             /\ AnchorMonth(spec) + MonthStep(spec) > m
  <2>1. spec.day \in 0..31
    BY <1>4, ValidateChecks
  <2>2. CASE spec.frequency = "monthly"
    <3>1. MonthStep(spec) = spec.interval /\ AnchorMonth(spec) = m
      BY <2>2 DEF MonthStep, AnchorMonth
    <3> QED
      BY <1>1, <2>1, <3>1
  <2>3. CASE spec.frequency = "yearly"
    <3>1. MonthStep(spec) = 12 * spec.interval
          /\ AnchorMonth(spec) = 12 * (m \div 12) + spec.month - 1
      BY <2>3 DEF MonthStep, AnchorMonth
    <3>2. spec.month \in 1..12
      BY <2>3, ValidateChecks
    <3>3. PICK y \in Nat, k \in 0..11 : y = m \div 12 /\ m = 12 * y + k
      BY <1>1, MonthSplit
    <3>4. y >= 1
      BY <1>1, <3>3
    <3>5. MonthStep(spec) = 12 * spec.interval /\ AnchorMonth(spec) = 12 * y + spec.month - 1
      BY <3>1, <3>3
    <3>6. PICK p \in 1..12, q \in Nat : /\ p = spec.month /\ q >= 12
                                         /\ q = 12 * spec.interval
      BY <1>1, <3>2
    <3>7. MonthStep(spec) = q /\ AnchorMonth(spec) = 12 * y + p - 1
      BY <3>5, <3>6
    <3>8. /\ 12 * y + p - 1 \in Nat /\ 12 * y + p - 1 >= 12
          /\ (12 * y + p - 1) + q > 12 * y + k
          /\ q \in Nat \ {0}
      BY <3>4, <3>6
    <3> QED
      BY <2>1, <3>3, <3>7, <3>8
  <2> QED
    BY <1>4, <2>2, <2>3
<1>5. ASSUME spec.frequency \in {"monthly", "yearly"}
      PROVE  OriginMonth(spec) \in Nat /\ OriginMonth(spec) >= 12
  BY <1>4, <1>5 DEF OriginMonth
<1> QED
  BY <1>1, <1>2, <1>3, <1>4, <1>5

(* The origin of a series is on its anchor or behind it: a series whose      *)
(* nominal day has passed in the anchor's month begins an interval later.    *)
LEMMA OriginIsOnAnchor ==
    ASSUME NEW spec, Validate(spec)
    PROVE  at(spec, 0) \in Int /\ at(spec, 0) >= Anchor(spec)
<1>1. /\ spec.interval \in Nat \ {0}
      /\ spec.startMonth \in Nat /\ spec.startMonth >= 12
      /\ Anchor(spec) \in Int
      /\ Anchor(spec) <= FirstOf(spec.startMonth) + daysInMonth(spec.startMonth) - 1
  BY ValidatedFields
<1>2. CASE spec.frequency = "daily"
  BY <1>1, <1>2 DEF at
<1>3. CASE spec.frequency = "weekly"
  <2>1. spec.weekday \in 0..6
    BY <1>3, ValidateChecks
  <2>2. (spec.weekday - Weekday(Anchor(spec)) + 7) % 7 \in Nat
    BY <1>1, <2>1 DEF Weekday
  <2>3. at(spec, 0) = WeeklyOrigin(spec)
    BY <1>1, <1>3, <2>1, <2>2 DEF at, WeeklyOrigin
  <2> QED
    BY <1>1, <2>2, <2>3 DEF WeeklyOrigin
<1>4. CASE spec.frequency \in {"monthly", "yearly"}
  <2>0. /\ spec.day \in 0..31
        /\ MonthStep(spec) \in Nat \ {0}
        /\ AnchorMonth(spec) \in Nat /\ AnchorMonth(spec) >= 12
        /\ AnchorMonth(spec) + MonthStep(spec) > spec.startMonth
        /\ OriginMonth(spec) \in Nat /\ OriginMonth(spec) >= 12
    BY <1>4, ValidatedFields
  <2>1. at(spec, 0) = clampToMonth(OriginMonth(spec), spec)
    BY <1>4, <2>0 DEF at
  <2>2. clampToMonth(OriginMonth(spec), spec) \in Int
    BY <2>0, ClampedIsInMonth
  <2>3. CASE clampToMonth(AnchorMonth(spec), spec) < Anchor(spec)
    <3>1. OriginMonth(spec) = AnchorMonth(spec) + MonthStep(spec)
      BY <2>3 DEF OriginMonth
    <3>2. FirstOf(OriginMonth(spec)) <= clampToMonth(OriginMonth(spec), spec)
      BY <2>0, ClampedIsInMonth
    <3>3. /\ FirstOf(spec.startMonth) \in Int /\ FirstOf(OriginMonth(spec)) \in Int
          /\ daysInMonth(spec.startMonth) \in 28..31
          /\ FirstOf(OriginMonth(spec))
                >= FirstOf(spec.startMonth) + daysInMonth(spec.startMonth)
                   + (OriginMonth(spec) - spec.startMonth - 1)
      BY <1>1, <2>0, <3>1, LaterMonths
    <3> QED
      BY <1>1, <2>0, <2>1, <2>2, <3>1, <3>2, <3>3
  <2>4. CASE ~(clampToMonth(AnchorMonth(spec), spec) < Anchor(spec))
    <3>1. OriginMonth(spec) = AnchorMonth(spec)
      BY <2>4 DEF OriginMonth
    <3> QED
      BY <1>1, <2>1, <2>2, <2>4, <3>1
  <2> QED
    BY <2>3, <2>4
<1> QED
  BY <1>2, <1>3, <1>4, ValidateChecks

(* Every step of a series is a day or more: no index lands on the date of    *)
(* an earlier one, also when the origin was shifted or a day was clamped.    *)
THEOREM SeriesAscends ==
    ASSUME NEW spec, Validate(spec), NEW i \in Nat, NEW j \in Nat, i < j
    PROVE  /\ at(spec, i) \in Int
           /\ at(spec, j) >= at(spec, i) + (j - i)
<1>1. spec.interval \in Nat \ {0} /\ Anchor(spec) \in Int
  BY ValidatedFields
<1>2. CASE spec.frequency = "daily"
  <2>1. /\ i * spec.interval \in Nat /\ j * spec.interval \in Nat
        /\ j * spec.interval >= i * spec.interval + (j - i)
    BY <1>1, IntervalsAdd
  <2>2. /\ at(spec, i) = Anchor(spec) + i * spec.interval
        /\ at(spec, j) = Anchor(spec) + j * spec.interval
    BY <1>2 DEF at
  <2> QED
    BY <1>1, <2>1, <2>2
<1>3. CASE spec.frequency = "weekly"
  <2>1. /\ i * spec.interval \in Nat /\ j * spec.interval \in Nat
        /\ j * spec.interval >= i * spec.interval + (j - i)
    BY <1>1, IntervalsAdd
  <2>2. /\ at(spec, i) = WeeklyOrigin(spec) + 7 * (i * spec.interval)
        /\ at(spec, j) = WeeklyOrigin(spec) + 7 * (j * spec.interval)
    <3>1. /\ 7 * i * spec.interval = 7 * (i * spec.interval)
          /\ 7 * j * spec.interval = 7 * (j * spec.interval)
      BY <1>1
    <3> QED
      BY <1>3, <3>1 DEF at
  <2>3. WeeklyOrigin(spec) \in Int
    <3>1. spec.weekday \in 0..6
      BY <1>3, ValidateChecks
    <3> QED
      BY <1>1, <3>1 DEF WeeklyOrigin, Weekday
  <2> QED
    BY <2>1, <2>2, <2>3
<1>4. CASE spec.frequency \in {"monthly", "yearly"}
  <2>0. /\ spec.day \in 0..31
        /\ MonthStep(spec) \in Nat \ {0}
        /\ OriginMonth(spec) \in Nat /\ OriginMonth(spec) >= 12
    BY <1>4, ValidatedFields
  <2>1. /\ i * MonthStep(spec) \in Nat /\ j * MonthStep(spec) \in Nat
        /\ j * MonthStep(spec) >= i * MonthStep(spec) + (j - i)
    BY <2>0, IntervalsAdd
  <2>2. PICK m, n : m = OriginMonth(spec) + i * MonthStep(spec)
                    /\ n = OriginMonth(spec) + j * MonthStep(spec)
    OBVIOUS
  <2>3. m \in Nat /\ n \in Nat /\ m >= 12 /\ m < n /\ n - m >= j - i
    BY <2>0, <2>1, <2>2
  <2>4. at(spec, i) = clampToMonth(m, spec) /\ at(spec, j) = clampToMonth(n, spec)
    BY <1>4, <2>2 DEF at
  <2>5. /\ clampToMonth(m, spec) \in Int /\ clampToMonth(n, spec) \in Int
        /\ clampToMonth(n, spec) >= clampToMonth(m, spec) + (n - m)
    BY <2>0, <2>3, ClampedIsInMonth, ClampedAscends
  <2> QED
    BY <2>3, <2>4, <2>5
<1> QED
  BY <1>2, <1>3, <1>4, ValidateChecks

(* A rule names a day at most once, so that a draft per template and date is *)
(* all that a rule asks for.                                                 *)
THEOREM DaysAreNamedOnce ==
    ASSUME NEW spec, Validate(spec), NEW i \in Nat, NEW j \in Nat, at(spec, i) = at(spec, j)
    PROVE  i = j
<1>1. ASSUME NEW p \in Nat, NEW q \in Nat, p < q PROVE at(spec, p) # at(spec, q)
  <2>1. at(spec, p) \in Int /\ at(spec, q) >= at(spec, p) + (q - p)
    BY <1>1, SeriesAscends
  <2> QED
    BY <1>1, <2>1
<1> QED
  BY <1>1

(* A set of natural numbers has a least one. *)
LEMMA LeastNatural ==
    ASSUME NEW T, T \subseteq Nat, T # {}
    PROVE  \E x \in T : \A y \in T : x <= y
<1>1. \E x \in T : \A y \in T : ~(<<y, x>> \in OpToRel(<, Nat))
  BY NatLessThanWellFounded, WFMin, Zenon
<1>2. PICK x \in T : \A y \in T : ~(<<y, x>> \in OpToRel(<, Nat))
  BY <1>1
<1>3. ASSUME NEW y \in T PROVE x <= y
  <2>1. <<y, x>> \in Nat \X Nat /\ ~(y < x)
    BY <1>2 DEF OpToRel
  <2> QED
    BY <2>1
<1> QED
  BY <1>3

(* The walk ends whatever the visitor waits for: of the indexes that Stop    *)
(* looks at, one ends the series or is behind the last date asked for, and   *)
(* the walk stops at the first of them.                                      *)
THEOREM WalkStops ==
    ASSUME NEW spec, Validate(spec), NEW last \in Int
    PROVE  /\ Stop(spec, last) \in Nat
           /\ Ended(spec, Stop(spec, last)) \/ at(spec, Stop(spec, last)) > last
           /\ \A i \in Nat : i < Stop(spec, last) => ~Ended(spec, i) /\ at(spec, i) <= last
<1> DEFINE bound == IF last < Anchor(spec) THEN 0 ELSE last - Anchor(spec) + 1
           Stops == {i \in 0..bound : Ended(spec, i) \/ at(spec, i) > last}
<1>1. Anchor(spec) \in Int /\ at(spec, 0) \in Int /\ at(spec, 0) >= Anchor(spec)
  BY ValidatedFields, OriginIsOnAnchor
<1>2. bound \in Nat
  BY <1>1
<1>3. \A i \in Nat : at(spec, i) \in Int
  <2>1. ASSUME NEW i \in Nat PROVE at(spec, i) \in Int
    <3>1. i + 1 \in Nat /\ i < i + 1
      OBVIOUS
    <3> QED
      BY <3>1, SeriesAscends
  <2> QED
    BY <2>1
<1>4. at(spec, bound) > last
  <2>1. CASE bound = 0
    BY <1>1, <2>1
  <2>2. CASE bound # 0
    <3>1. 0 \in Nat /\ 0 < bound
      BY <1>2, <2>2
    <3>2. at(spec, bound) >= at(spec, 0) + (bound - 0)
      BY <1>2, <3>1, SeriesAscends
    <3> QED
      BY <1>1, <1>2, <1>3, <2>2, <3>2
  <2> QED
    BY <2>1, <2>2
<1>5. Stops \subseteq Nat /\ bound \in Stops
  BY <1>2, <1>4
<1> HIDE DEF Stops
<1>6. PICK least \in Stops : \A i \in Stops : least <= i
  BY <1>5, LeastNatural
<1>7. Stop(spec, last) \in Stops /\ \A i \in Stops : Stop(spec, last) <= i
  BY <1>6 DEF Stop, Stops, Min
<1>8. Stop(spec, last) \in 0..bound
  BY <1>7 DEF Stops
<1>9. ASSUME NEW i \in Nat, i < Stop(spec, last)
      PROVE  ~Ended(spec, i) /\ at(spec, i) <= last
  <2>1. i \in 0..bound /\ ~(Stop(spec, last) <= i)
    BY <1>2, <1>8, <1>9
  <2>2. i \notin Stops
    BY <1>7, <2>1
  <2> QED
    BY <1>3, <2>1, <2>2 DEF Stops
<1> QED
  BY <1>2, <1>7, <1>8, <1>9 DEF Stops

(* A series that has ended does not come back: behind its last date, its end *)
(* or its count there are later dates only.                                  *)
LEMMA EndedStays ==
    ASSUME NEW spec, Validate(spec), NEW i \in Nat, NEW j \in Nat, i <= j, Ended(spec, i)
    PROVE  Ended(spec, j)
<1>1. CASE i = j
  BY <1>1
<1>2. CASE i < j
  <2>1. at(spec, i) \in Int /\ at(spec, j) >= at(spec, i) + (j - i) /\ at(spec, j) \in Int
    <3>1. j + 1 \in Nat /\ j < j + 1
      OBVIOUS
    <3> QED
      BY <1>2, <3>1, SeriesAscends
  <2>2. LastDate \in Int
    <3>1. LastMonth \in Nat /\ LastMonth >= 12
      BY DEF LastMonth
    <3>2. LastMonth + 1 \in Nat /\ LastMonth < LastMonth + 1
      BY <3>1
    <3>3. FirstOf(LastMonth + 1) \in Int
      BY <3>1, <3>2, LaterMonths
    <3> QED
      BY <3>3 DEF LastDate
  <2>3. spec.max \in Nat /\ (spec.ends = 0 \/ spec.ends \in Anchor(spec)..LastDate)
    BY Zenon DEF Validate
  <2>4. spec.ends \in Int
    BY <2>2, <2>3, ValidatedFields
  <2>5. CASE spec.max > 0 /\ i >= spec.max
    BY <1>2, <2>3, <2>5 DEF Ended
  <2>6. CASE at(spec, i) > LastDate
    BY <1>2, <2>1, <2>2, <2>6 DEF Ended
  <2>7. CASE spec.ends # 0 /\ at(spec, i) > spec.ends
    BY <1>2, <2>1, <2>4, <2>7 DEF Ended
  <2> QED
    BY <2>5, <2>6, <2>7 DEF Ended
<1> QED
  BY <1>1, <1>2

(* "Next returns the first occurrence strictly after the given date,         *)
(* reporting false when the series ends first": no date of the series lies   *)
(* between, and none is left when it reports that there is none.             *)
THEOREM NextIsFirst ==
    ASSUME NEW spec, Validate(spec), NEW after \in Int
    PROVE  \/ /\ NextAfter(spec, after) = NoDate
              /\ \A j \in Nat : ~Ended(spec, j) => at(spec, j) <= after
           \/ \E i \in Nat :
                 /\ NextAfter(spec, after) = at(spec, i)
                 /\ ~Ended(spec, i) /\ at(spec, i) > after
                 /\ \A j \in Nat : at(spec, j) > after => at(spec, j) >= at(spec, i)
<1>1. PICK i : i = Stop(spec, after)
  OBVIOUS
<1>2. /\ i \in Nat
      /\ Ended(spec, i) \/ at(spec, i) > after
      /\ \A j \in Nat : j < i => ~Ended(spec, j) /\ at(spec, j) <= after
  BY <1>1, WalkStops
<1>3. NextAfter(spec, after) = IF Ended(spec, i) THEN NoDate ELSE at(spec, i)
  BY <1>1 DEF NextAfter
<1>4. \A j \in Nat : at(spec, j) \in Int
  <2>1. ASSUME NEW j \in Nat PROVE at(spec, j) \in Int
    <3>1. j + 1 \in Nat /\ j < j + 1
      OBVIOUS
    <3> QED
      BY <3>1, SeriesAscends
  <2> QED
    BY <2>1
<1>5. CASE Ended(spec, i)
  <2>1. ASSUME NEW j \in Nat, ~Ended(spec, j) PROVE at(spec, j) <= after
    <3>1. j < i
      BY <1>2, <1>5, <2>1, EndedStays
    <3> QED
      BY <1>2, <3>1
  <2> QED
    BY <1>3, <1>5, <2>1
<1>6. CASE ~Ended(spec, i)
  <2>1. ASSUME NEW j \in Nat, at(spec, j) > after PROVE at(spec, j) >= at(spec, i)
    <3>1. ~(at(spec, j) <= after)
      BY <1>4, <2>1
    <3>2. i <= j
      BY <1>2, <3>1
    <3>3. CASE i = j
      BY <1>4, <3>3
    <3>4. CASE i < j
      <4>1. at(spec, j) >= at(spec, i) + (j - i)
        BY <1>2, <3>4, SeriesAscends
      <4> QED
        BY <1>2, <1>4, <3>4, <4>1
    <3> QED
      BY <1>2, <3>2, <3>3, <3>4
  <2> QED
    BY <1>2, <1>3, <1>6, <2>1
<1> QED
  BY <1>5, <1>6
=============================================================================
