----------------------------- MODULE MCRecurring -----------------------------
(* A daily schedule and one that begins a day later; templates lead by a day. *)
EXTENDS Recurring, RecurrenceRules

Month(year, month) == 12 * year + month - 1

(* A rule that starts on a day, does not end, and has a frequency's fields. *)
Rule(frequency, interval, day, month, weekday, start) ==
    [frequency |-> frequency, interval |-> interval, day |-> day, month |-> month,
     weekday |-> weekday, startMonth |-> start[1], startDay |-> start[2], ends |-> 0, max |-> 0]

Epoch == Date(Month(2024, 2), 28)
RuleOf == [daily |-> Rule("daily", 1, 0, 1, 0, <<Month(2024, 2), 28>>),
           odd   |-> Rule("yearly", 1, 0, 2, 0, <<Month(2024, 2), 29>>)]

MCOne == <<"rent">>
MCTwo == <<"rent", "wage">>
DaysOf(rule) == {d - Epoch : d \in Range(Occurrences(rule, Epoch, Epoch + 1))}
DailyDates == DaysOf(RuleOf.daily)
OddDates == DaysOf(RuleOf.odd)
DailyStart == Anchor(RuleOf.daily) - Epoch
OddStart == Anchor(RuleOf.odd) - Epoch
MCDatesOf == [s \in Schedules |-> IF s = "daily" THEN DailyDates ELSE OddDates]
MCStartsOn == [s \in Schedules |-> IF s = "daily" THEN DailyStart ELSE OddStart]
MCLead == [t \in Ids |-> 1]
UserSymmetry == Permutations(Users)

-----------------------------------------------------------------------------
(* The rules to try: around short months, leap years and the last year     *)
Starts == {<<Month(2023, 12), 31>>, <<Month(2024, 2), 29>>, <<Month(2025, 3), 15>>, <<Month(9999, 11), 30>>}

Rules ==
    {Rule("daily", i, 0, 1, 0, s) : i \in {1, 3}, s \in Starts}
    \cup {Rule("weekly", i, 0, 1, w, s) : i \in {1, 2}, w \in 0..6, s \in Starts}
    \cup {Rule("monthly", i, d, 1, 0, s) : i \in {1, 2}, d \in {0, 15, 30, 31}, s \in Starts}
    \cup {Rule("yearly", i, d, m, 0, s) : i \in {1, 2}, d \in {0, 29, 31}, m \in {2, 11}, s \in Starts}

Bounded(rule) ==
    {rule, [rule EXCEPT !.max = 2], [rule EXCEPT !.ends = Anchor(rule) + 60]}

Horizon(rule) == rule.startMonth + (IF rule.frequency = "yearly" THEN 37
                                    ELSE IF rule.frequency = "monthly" THEN 14 ELSE 4)

(* recur.Occurrences and recur.Next against the rule read date by date.    *)
EnumerationIsRight == \A rule \in Rules : \A r \in Bounded(rule) : Validate(r) => KeepsRule(r, Horizon(r))

DatesSaid == {n - Epoch : n \in UNION {Named(RuleOf[s], Month(2024, 3)) : s \in Schedules}}

(* A date gets a draft only when a rule of the owner names it, read date   *)
(* by date; and recur.Occurrences and recur.Next agree with that reading   *)
(* for every rule tried, whatever the window.                              *)
RulesAreKept ==
    /\ EnumerationIsRight
    /\ \A t \in Ids, d \in Days : drafts[t][d] # << >> => d \in DatesSaid
=============================================================================
