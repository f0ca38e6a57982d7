------------------------------ MODULE Recurring ------------------------------
(***************************************************************************)
(* Recurring transactions: templates with a schedule and a watermark       *)
(* (generate_from), the sweeps that turn due dates into drafts (the        *)
(* scheduler and the run-now endpoint), the owner's edits of a template    *)
(* and reviews of single dates (internal/app/recurring*.go over            *)
(* internal/db/recurring*.go).                                             *)
(*                                                                         *)
(* Every service call reads in queries of its own and writes in one        *)
(* transaction that checks what it read; a template's row and its postings *)
(* are two queries.  A date is a day number, a schedule the set of its     *)
(* dates, the postings a number that every edit of them renews.            *)
(***************************************************************************)
EXTENDS Integers, Sequences, FiniteSets, SequencesExt

CONSTANTS Templates,   \* template ids, in the order of ListTemplates
          Schedules,   \* recurrence rules
          DatesOf,     \* recur.Occurrences: the dates of each rule
          StartsOn,    \* the first day of each rule
          Lead,        \* lead_days of each template
          WindowDays,  \* recur.MaxOccurrencesPerWindow
          TickCap,     \* maxOccurrencesPerTick
          Schedulers,  \* sweeps of the scheduler, over all templates
          RunNow,      \* sweeps of the run-now endpoint, over one template
          Users,       \* concurrent requests of the owner
          Requests,    \* the kinds of request they make
          MaxDay,      \* bound: last day of the clock
          MaxRevision, \* bound: no edit of a template beyond this revision
          MaxAudit,    \* bound: writes of one occurrence
          MaxFaults    \* bound: sweeps that die or meet an infrastructure error

ASSUME RecurringAssumption ==
    /\ IsFiniteSet(Range(Templates))
    /\ DatesOf \in [Schedules -> SUBSET Nat]
    /\ StartsOn \in [Schedules -> Nat]
    /\ Lead \in [Range(Templates) -> Nat]
    /\ WindowDays \in Nat \ {0}
    /\ TickCap \in Nat \ {0}
    /\ Requests \subseteq {"skip", "retry", "pause", "enable", "postings"} \cup Schedules
    /\ {MaxDay, MaxRevision, MaxAudit, MaxFaults} \subseteq Nat

VARIABLES template,    \* recurring_templates with their postings
          occurrence,  \* recurring_occurrences, per template and date
          drafts,      \* the postings of the drafts made for each date
          base,        \* per template: the watermark its schedule began with
          sweep,       \* per generator: its snapshot and how far it is
          user,        \* per request of the owner: what it has read
          today,       \* the owner's local date
          faults       \* sweeps lost so far

vars == <<template, occurrence, drafts, base, sweep, user, today, faults>>

Generators == Schedulers \cup RunNow
Ids == Range(Templates)
Days == UNION {DatesOf[s] : s \in Schedules}

Later(a, b) == IF a > b THEN a ELSE b
Sooner(a, b) == IF a < b THEN a ELSE b

Absent == [revision |-> 0, enabled |-> FALSE, archived |-> FALSE,
           schedule |-> "none", from |-> 0, postings |-> 0]
NoRow == [status |-> "none", audit |-> 0]
NoSweep == [pc |-> "idle", day |-> 0, list |-> << >>, due |-> {}, end |-> 0, made |-> 0]
NoRequest == [pc |-> "idle", what |-> "none", id |-> "none", date |-> 0, row |-> Absent,
              seen |-> NoRow, day |-> 0]

Init ==
    /\ template = [t \in Ids |-> Absent]
    /\ occurrence = [t \in Ids |-> [d \in Days |-> NoRow]]
    /\ drafts = [t \in Ids |-> [d \in Days |-> << >>]]
    /\ base = [t \in Ids |-> [from |-> 0, revision |-> 0]]
    /\ sweep = [g \in Generators |-> NoSweep]
    /\ user = [u \in Users |-> NoRequest]
    /\ today = 0
    /\ faults = 0

(* CreateTemplate: nothing before today is backfilled. *)
CreateTemplate(t, s) ==
    /\ template[t] = Absent
    /\ LET from == Later(today, StartsOn[s]) IN
       /\ template' = [template EXCEPT ![t] =
             [revision |-> 1, enabled |-> TRUE, archived |-> FALSE,
              schedule |-> s, from |-> from, postings |-> 1]]
       /\ base' = [base EXCEPT ![t] = [from |-> from, revision |-> 1]]
    /\ UNCHANGED <<occurrence, drafts, sweep, user, today, faults>>

-----------------------------------------------------------------------------
(* What the writing transactions check of the template they were read from. *)

(* Mutant: the captured revision is not compared. *)
AnyRevision(t, row) == template[t].enabled /\ ~template[t].archived

(* guardRecurringGeneration. *)
GenerationGuard(t, row) ==
    /\ template[t].revision = row.revision
    /\ template[t].enabled /\ ~template[t].archived

(* Mutant: only the status is compared, not the attempt that was read. *)
AnyBlockedAttempt(t, d, seen) ==
    IF seen = NoRow THEN occurrence[t][d] = NoRow
                    ELSE occurrence[t][d].status \in {"blocked", "generated"}

(* Mutant: the row for the date is not looked up, nor is it unique. *)
OccurrenceUnguarded(t, d, seen) == TRUE

(* guardRecurringOccurrence: the date is still free, or still at the blocked *)
(* attempt the caller read.                                                  *)
OccurrenceGuard(t, d, seen) ==
    occurrence[t][d] = seen /\ seen.status \in {"none", "blocked"}

(* materializeRecurringOccurrence: draft and row in one transaction, or the  *)
(* row of a date that failed validation.                                     *)
Materialize(t, d, row, valid) ==
    /\ occurrence' = [occurrence EXCEPT ![t][d] =
          [status |-> IF valid THEN "generated" ELSE "blocked", audit |-> @.audit + 1]]
    /\ drafts' = IF valid THEN [drafts EXCEPT ![t][d] = Append(@, row.postings)] ELSE drafts

-----------------------------------------------------------------------------
(* GenerateDue.  The snapshot is a list of template rows with their ids; the *)
(* head of the list is the template at work.                                 *)

BeginSweep(g) ==
    /\ sweep[g].pc = "idle"
    /\ sweep' = [sweep EXCEPT ![g] = [NoSweep EXCEPT !.pc = "list", !.day = today]]
    /\ UNCHANGED <<template, occurrence, drafts, base, user, today, faults>>

Position(t) == CHOOSE i \in DOMAIN Templates : Templates[i] = t

(* Some templates in the order of ListTemplates. *)
InOrder(ids) ==
    {list \in [1..Cardinality(ids) -> ids] :
        \A i, j \in DOMAIN list : i < j => Position(list[i]) < Position(list[j])}

(* The rows of all unarchived templates, or of the one run-now asks for. *)
ReadTemplates(g) ==
    /\ sweep[g].pc = "list"
    /\ LET Read(t) == [id |-> t, row |-> template[t]]
           stored == {t \in Ids : template[t] # Absent}
           lists == IF g \in Schedulers THEN InOrder({t \in stored : ~template[t].archived})
                    ELSE {<<t>> : t \in stored}
       IN \E ids \in lists :
             sweep' = [sweep EXCEPT ![g].pc = "postings",
                                    ![g].list = [i \in DOMAIN ids |-> Read(ids[i])]]
    /\ UNCHANGED <<template, occurrence, drafts, base, user, today, faults>>

ReadPostings(g) ==
    /\ sweep[g].pc = "postings"
    /\ sweep' = [sweep EXCEPT ![g].pc = "open",
          ![g].list = [i \in DOMAIN @ |->
              [@[i] EXCEPT !.row.postings = template[sweep[g].list[i].id].postings]]]
    /\ UNCHANGED <<template, occurrence, drafts, base, user, today, faults>>

(* What is still used of a row once the dates have been enumerated. *)
Captured(row) == [Absent EXCEPT !.revision = row.revision, !.postings = row.postings]

At(g) == Head(sweep[g].list)

(* The last day this sweep looks at for the template at work. *)
WindowEnd(g) ==
    Sooner(sweep[g].day + Lead[At(g).id], At(g).row.from + WindowDays - 1)

NextTemplate(g) == [sweep[g] EXCEPT !.pc = "open", !.list = Tail(@), !.due = {}, !.end = 0]

(* Mutant: a template with nothing to do ends the sweep. *)
SkipEndsSweep(g) ==
    /\ sweep[g].pc = "open" /\ sweep[g].list # << >>
    /\ LET row == At(g).row IN
       ~row.enabled \/ row.archived \/ row.from > sweep[g].day + Lead[At(g).id]
    /\ sweep' = [sweep EXCEPT ![g] = NoSweep]
    /\ UNCHANGED <<template, occurrence, drafts, base, user, today, faults>>

SkipTemplate(g) ==
    /\ sweep[g].pc = "open" /\ sweep[g].list # << >>
    /\ LET row == At(g).row IN
       ~row.enabled \/ row.archived \/ row.from > sweep[g].day + Lead[At(g).id]
    /\ sweep' = [sweep EXCEPT ![g] = NextTemplate(g)]
    /\ UNCHANGED <<template, occurrence, drafts, base, user, today, faults>>

(* The dates of the window that have no row yet. *)
OpenTemplate(g) ==
    /\ sweep[g].pc = "open" /\ sweep[g].list # << >>
    /\ LET row == At(g).row IN
       /\ row.enabled /\ ~row.archived /\ row.from <= sweep[g].day + Lead[At(g).id]
       /\ sweep' = [sweep EXCEPT ![g].pc = "making", ![g].end = WindowEnd(g),
             ![g].list = <<[id |-> At(g).id, row |-> Captured(row)]>> \o Tail(@),
             ![g].due = {d \in DatesOf[row.schedule] :
                            /\ d \in row.from..WindowEnd(g)
                            /\ occurrence[At(g).id][d].status = "none"}]
    /\ UNCHANGED <<template, occurrence, drafts, base, user, today, faults>>

(* The sweep has done its share of dates. *)
Capped(g) == sweep[g].made >= TickCap

First(g) == CHOOSE d \in sweep[g].due : \A e \in sweep[g].due : d <= e

(* One date: made or blocked, found taken, or given up with the template     *)
(* because it was edited meanwhile.                                          *)
MakeOccurrence(g, valid) ==
    /\ sweep[g].pc = "making" /\ sweep[g].due # {} /\ ~Capped(g)
    /\ LET t == At(g).id
           d == First(g)
       IN \/ /\ ~GenerationGuard(t, At(g).row)
             /\ sweep' = [sweep EXCEPT ![g] = NextTemplate(g)]
             /\ UNCHANGED <<occurrence, drafts>>
          \/ /\ GenerationGuard(t, At(g).row)
             /\ ~OccurrenceGuard(t, d, NoRow)
             /\ sweep' = [sweep EXCEPT ![g].due = @ \ {d}]
             /\ UNCHANGED <<occurrence, drafts>>
          \/ /\ GenerationGuard(t, At(g).row)
             /\ OccurrenceGuard(t, d, NoRow)
             /\ Materialize(t, d, At(g).row, valid)
             /\ sweep' = [sweep EXCEPT ![g].due = @ \ {d}, ![g].made = @ + 1]
    /\ UNCHANGED <<template, base, user, today, faults>>

(* Mutant: the cap ends the work on the template, not the sweep. *)
CapClosesWindow(g) ==
    /\ sweep[g].pc = "making" /\ sweep[g].due # {} /\ Capped(g)
    /\ sweep' = [sweep EXCEPT ![g].due = {}]
    /\ UNCHANGED <<template, occurrence, drafts, base, user, today, faults>>

CapReached(g) ==
    /\ sweep[g].pc = "making" /\ sweep[g].due # {} /\ Capped(g)
    /\ sweep' = [sweep EXCEPT ![g] = NoSweep]
    /\ UNCHANGED <<template, occurrence, drafts, base, user, today, faults>>

(* Mutant: the watermark moves without a new revision. *)
AdvanceSameRevision(t, through) ==
    [template EXCEPT ![t].from = Later(@, through)]

(* AdvanceRecurringGeneration, when its guard holds. *)
Advanced(t, through) ==
    IF template[t].from < through
    THEN [template EXCEPT ![t].from = through, ![t].revision = @ + 1]
    ELSE template

AdvanceWatermark(g) ==
    /\ sweep[g].pc = "making" /\ sweep[g].due = {}
    /\ LET t == At(g).id IN
       template' = IF GenerationGuard(t, At(g).row)
                   THEN Advanced(t, sweep[g].end + 1) ELSE template
    /\ sweep' = [sweep EXCEPT ![g] = NextTemplate(g)]
    /\ UNCHANGED <<occurrence, drafts, base, user, today, faults>>

EndSweep(g) ==
    /\ sweep[g].pc = "open" /\ sweep[g].list = << >>
    /\ sweep' = [sweep EXCEPT ![g] = NoSweep]
    /\ UNCHANGED <<template, occurrence, drafts, base, user, today, faults>>

(* The process dies, or a query or transaction fails: GenerateDue returns. *)
LoseSweep(g) ==
    /\ sweep[g].pc # "idle" /\ faults < MaxFaults
    /\ sweep' = [sweep EXCEPT ![g] = NoSweep]
    /\ faults' = faults + 1
    /\ UNCHANGED <<template, occurrence, drafts, base, user, today>>

-----------------------------------------------------------------------------
(* The owner's requests: an edit, a skip or a retry. *)

Edits == Requests \ {"skip", "retry"}
Reviews == Requests \ Edits

BeginRequest(u, t, what, d) ==
    /\ user[u].pc = "idle" /\ template[t] # Absent
    /\ what \in Edits => ~template[t].archived /\ template[t].revision < MaxRevision
    /\ user' = [user EXCEPT ![u] = [NoRequest EXCEPT !.pc = "postings", !.what = what,
                   !.id = t, !.date = d, !.row = template[t]]]
    /\ UNCHANGED <<template, occurrence, drafts, base, sweep, today, faults>>

(* The postings, and for an edit the local date. *)
RequestPostings(u) ==
    /\ user[u].pc = "postings"
    /\ user' = [user EXCEPT ![u].pc = IF user[u].what \in Edits THEN "write" ELSE "occurrence",
                            ![u].row.postings = template[user[u].id].postings,
                            ![u].day = IF user[u].what \in Edits THEN today ELSE 0]
    /\ UNCHANGED <<template, occurrence, drafts, base, sweep, today, faults>>

(* What a skip or a retry asks of what it has read. *)
Acceptable(what, row, d, seen) ==
    \/ what = "skip" /\ seen.status = "blocked"
    \/ what = "skip" /\ seen = NoRow /\ ~row.archived /\ d >= row.from
          /\ d \in DatesOf[row.schedule]
    \/ what = "retry" /\ seen.status = "blocked" /\ row.enabled /\ ~row.archived

(* reviewOccurrence and the checks before the write. *)
RequestOccurrence(u) ==
    /\ user[u].pc = "occurrence"
    /\ LET seen == occurrence[user[u].id][user[u].date] IN
       user' = [user EXCEPT ![u] =
          IF Acceptable(user[u].what, user[u].row, user[u].date, seen) /\ seen.audit < MaxAudit
          THEN [user[u] EXCEPT !.pc = "write", !.seen = seen, !.row = Captured(user[u].row)]
          ELSE NoRequest]
    /\ UNCHANGED <<template, occurrence, drafts, base, sweep, today, faults>>

SkipOccurrence(u) ==
    /\ user[u].pc = "write" /\ user[u].what = "skip"
    /\ LET t == user[u].id
           d == user[u].date
       IN occurrence' = IF /\ template[t].revision = user[u].row.revision
                           /\ OccurrenceGuard(t, d, user[u].seen)
                        THEN [occurrence EXCEPT ![t][d] =
                                [status |-> "skipped", audit |-> @.audit + 1]]
                        ELSE occurrence
    /\ user' = [user EXCEPT ![u] = NoRequest]
    /\ UNCHANGED <<template, drafts, base, sweep, today, faults>>

RetryOccurrence(u, valid) ==
    /\ user[u].pc = "write" /\ user[u].what = "retry"
    /\ LET t == user[u].id
           d == user[u].date
       IN IF GenerationGuard(t, user[u].row) /\ OccurrenceGuard(t, d, user[u].seen)
          THEN Materialize(t, d, user[u].row, valid)
          ELSE UNCHANGED <<occurrence, drafts>>
    /\ user' = [user EXCEPT ![u] = NoRequest]
    /\ UNCHANGED <<template, base, sweep, today, faults>>

(* The merged record UpdateTemplate writes back, all of it. *)
Patched(u) ==
    LET row == user[u].row
        what == user[u].what
    IN [revision |-> row.revision + 1,
        enabled |-> IF what = "pause" THEN FALSE ELSE IF what = "enable" THEN TRUE ELSE row.enabled,
        archived |-> FALSE,
        schedule |-> IF what \in Schedules THEN what ELSE row.schedule,
        from |-> IF what \in Schedules THEN Later(user[u].day, StartsOn[what]) ELSE row.from,
        postings |-> IF what = "postings" THEN row.revision + 1 ELSE row.postings]

(* The checks of UpdateRecurringTemplate. *)
UpdateGuard(t, row) == ~template[t].archived /\ template[t].revision = row.revision

UpdateTemplate(u) ==
    /\ user[u].pc = "write" /\ user[u].what \in Edits
    /\ LET t == user[u].id IN
       IF UpdateGuard(t, user[u].row)
       THEN /\ template' = [template EXCEPT ![t] = Patched(u)]
            /\ base' = IF user[u].what \in Schedules
                       THEN [base EXCEPT ![t] = [from |-> Patched(u).from,
                                                 revision |-> Patched(u).revision]]
                       ELSE base
       ELSE UNCHANGED <<template, base>>
    /\ user' = [user EXCEPT ![u] = NoRequest]
    /\ UNCHANGED <<occurrence, drafts, sweep, today, faults>>

(* A request fails its validation, is cancelled, or dies with the process. *)
DropRequest(u) ==
    /\ user[u].pc # "idle"
    /\ user' = [user EXCEPT ![u] = NoRequest]
    /\ UNCHANGED <<template, occurrence, drafts, base, sweep, today, faults>>

(* ArchiveTemplate looks at the template inside its transaction. *)
ArchiveTemplate(t) ==
    /\ template[t] # Absent /\ ~template[t].archived /\ template[t].revision < MaxRevision
    /\ template' = [template EXCEPT ![t].archived = TRUE, ![t].enabled = FALSE,
                                    ![t].revision = @ + 1]
    /\ UNCHANGED <<occurrence, drafts, base, sweep, user, today, faults>>

NewDay ==
    /\ today < MaxDay
    /\ today' = today + 1
    /\ UNCHANGED <<template, occurrence, drafts, base, sweep, user, faults>>

(* Another time zone in the preferences: the local date may step back. *)
ChangeTimeZone ==
    /\ today > 0
    /\ today' = today - 1
    /\ UNCHANGED <<template, occurrence, drafts, base, sweep, user, faults>>

SweepStep(g) ==
    \/ BeginSweep(g) \/ ReadTemplates(g) \/ ReadPostings(g) \/ SkipTemplate(g)
    \/ OpenTemplate(g) \/ CapReached(g) \/ AdvanceWatermark(g) \/ EndSweep(g)
    \/ \E valid \in BOOLEAN : MakeOccurrence(g, valid)

Request(u) ==
    \/ \E t \in Ids : \E what \in Edits : BeginRequest(u, t, what, 0)
    \/ \E t \in Ids, d \in Days : \E what \in Reviews : BeginRequest(u, t, what, d)
    \/ RequestPostings(u) \/ RequestOccurrence(u) \/ SkipOccurrence(u)
    \/ \E valid \in BOOLEAN : RetryOccurrence(u, valid)
    \/ UpdateTemplate(u) \/ DropRequest(u)

Next ==
    \/ \E g \in Generators : SweepStep(g) \/ LoseSweep(g)
    \/ \E u \in Users : Request(u)
    \/ \E t \in Ids : \E s \in Schedules : CreateTemplate(t, s)
    \/ \E t \in Ids : ArchiveTemplate(t)
    \/ NewDay \/ ChangeTimeZone

Spec == Init /\ [][Next]_vars

(* The scheduler sweeps at start and every minute; a sweep runs to its end. *)
FairSpec == Spec /\ \A g \in Schedulers : WF_vars(SweepStep(g))

-----------------------------------------------------------------------------
Rows == [revision: Nat, enabled: BOOLEAN, archived: BOOLEAN,
         schedule: Schedules \cup {"none"}, from: Nat, postings: Nat]

Marks == [status: {"none", "generated", "blocked", "skipped"}, audit: Nat]

Sweeps == [pc: {"idle", "list", "postings", "open", "making"}, day: Nat,
           list: Seq([id: Ids, row: Rows]), due: SUBSET Days, end: Nat, made: 0..TickCap]

OwnerRequests == [pc: {"idle", "postings", "occurrence", "write"}, what: Requests \cup {"none"},
                  id: Ids \cup {"none"}, date: Days \cup {0}, row: Rows, seen: Marks, day: Nat]

(* Templates, occurrences and the snapshots of sweeps and requests are well  *)
(* formed: a sweep only has dates of the schedules at hand.                  *)
TypeOK ==
    /\ template \in [Ids -> Rows]
    /\ occurrence \in [Ids -> [Days -> Marks]]
    /\ drafts \in [Ids -> [Days -> Seq(Nat)]]
    /\ base \in [Ids -> [from: Nat, revision: Nat]]
    /\ sweep \in [Generators -> Sweeps]
    /\ user \in [Users -> OwnerRequests]
    /\ today \in 0..MaxDay /\ faults \in 0..MaxFaults

(* A date has at most one draft, and has one exactly when its row says so,   *)
(* whatever sweeps, retries and skips of it overlap.                         *)
OneDraftPerDate ==
    \A t \in Ids, d \in Days :
        Len(drafts[t][d]) = IF occurrence[t][d].status = "generated" THEN 1 ELSE 0

(* The occurrence table is well formed and agrees with the drafts.           *)
OccurrencesAreSound == TypeOK /\ OneDraftPerDate

(* "A date left unrecorded by a crash or a per-tick cap holds the watermark  *)
(* where it is": every date of the schedule between the day it began and the *)
(* watermark has been dealt with.                                            *)
NothingPassedOver ==
    \A t \in Ids : template[t] # Absent =>
        \A d \in DatesOf[template[t].schedule] :
            d \in base[t].from..(template[t].from - 1) => occurrence[t][d].status # "none"

(* A stored template has a schedule, and a revision that no edit of its      *)
(* postings and no change of its schedule is ahead of.                       *)
TemplatesAreSound ==
    \A t \in Ids :
        /\ template[t].revision = 0 => template[t] = Absent
        /\ template[t].revision # 0 => template[t].schedule \in Schedules
        /\ template[t].postings <= template[t].revision
        /\ base[t].revision <= template[t].revision

(* A date without a row has not been written. *)
UnrecordedIsBlank ==
    \A t \in Ids, d \in Days : occurrence[t][d].status = "none" => occurrence[t][d] = NoRow

(* A row that was read of a template is not newer than the template, and     *)
(* while its revision stands neither its postings, nor the rest of it, have  *)
(* changed.                                                                  *)
Known(row, t) == t \in Ids /\ row.revision \in 1..template[t].revision

SamePostings(row, t) ==
    row.revision = template[t].revision => row.postings = template[t].postings

SameRow(row, t) ==
    /\ row.schedule \in Schedules
    /\ row.revision = template[t].revision =>
          /\ row.enabled = template[t].enabled /\ row.archived = template[t].archived
          /\ row.schedule = template[t].schedule /\ row.from = template[t].from

(* The window of a template that has not changed since: its dates are on the *)
(* list until they have a row.                                               *)
WindowIsListed(g) ==
    LET t == At(g).id IN
    /\ sweep[g].list # << >>
    /\ At(g).row.revision = template[t].revision =>
          /\ sweep[g].due \subseteq {d \in DatesOf[template[t].schedule] : d >= template[t].from}
          /\ \A d \in DatesOf[template[t].schedule] :
                d \in template[t].from..sweep[g].end /\ occurrence[t][d].status = "none"
                    => d \in sweep[g].due

SweepsAreSound ==
    \A g \in Generators :
        /\ \A i \in DOMAIN sweep[g].list :
              LET e == sweep[g].list[i] IN
              /\ Known(e.row, e.id)
              /\ sweep[g].pc # "postings" => SamePostings(e.row, e.id)
              /\ i > 1 \/ sweep[g].pc # "making" => SameRow(e.row, e.id)
        /\ sweep[g].pc = "making" => WindowIsListed(g)

RequestsAreSound ==
    \A u \in Users : LET r == user[u] IN r.pc # "idle" =>
        /\ Known(r.row, r.id) /\ r.what \in Requests
        /\ r.pc # "postings" => SamePostings(r.row, r.id)
        /\ r.what \in Edits \/ r.pc # "write" => SameRow(r.row, r.id)
        /\ r.what \in Reviews => r.date \in Days
        /\ r.pc = "write" /\ r.what = "retry" => r.seen.status = "blocked"

(* The inductive invariant. *)
RecurringInv ==
    /\ TypeOK
    /\ OneDraftPerDate
    /\ NothingPassedOver
    /\ UnrecordedIsBlank
    /\ TemplatesAreSound
    /\ SweepsAreSound
    /\ RequestsAreSound

(* A draft is made from the template as it is at that moment, never from a   *)
(* snapshot an edit, a pause or an archive has overtaken; a date that was    *)
(* not recorded before is a date of the present schedule.                    *)
DraftsFollowTemplate ==
    [][\A t \in Ids, d \in Days : drafts'[t][d] # drafts[t][d] =>
          /\ template[t].enabled /\ ~template[t].archived
          /\ Last(drafts'[t][d]) = template[t].postings
          /\ occurrence[t][d].status = "none" =>
                d \in DatesOf[template[t].schedule] /\ d >= template[t].from]_vars

(* A generated or a skipped date is final: only a blocked attempt is retried *)
(* or skipped, and only the attempt the owner saw.                           *)
DecidedDatesAreFinal ==
    [][\A t \in Ids, d \in Days :
          occurrence[t][d].status \in {"generated", "skipped"} =>
              occurrence'[t][d] = occurrence[t][d]]_vars

(* No write of a stale snapshot undoes a later one: postings are never put   *)
(* back, an archived template stays so, and the watermark goes back only     *)
(* when the schedule is edited.                                              *)
NoLostUpdate ==
    [][\A t \in Ids :
          /\ template'[t].postings >= template[t].postings
          /\ template[t].archived => template'[t].archived
          /\ template'[t].from < template[t].from => base'[t] # base[t]]_vars

Due(t, d) ==
    /\ template[t].enabled /\ ~template[t].archived
    /\ d \in DatesOf[template[t].schedule]
    /\ d \in template[t].from..(today + Lead[t])
    /\ occurrence[t][d].status = "none"

(* A due date is recorded, unless the template is edited or the local date   *)
(* steps back: caps, windows, other templates, conflicts and a lost sweep    *)
(* only delay it.                                                            *)
DueIsRecorded == \A t \in Ids, d \in Days : Due(t, d) ~> ~Due(t, d)

=============================================================================
