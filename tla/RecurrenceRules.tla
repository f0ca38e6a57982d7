---------------------------- MODULE RecurrenceRules ----------------------------
(***************************************************************************)
(* Recurrence rules: which dates a template's schedule names               *)
(* (internal/recur/schedule.go).  A date is its day number, day 1 being    *)
(* 0001-01-01, a month its number 12 * year + (month - 1).  A rule is a    *)
(* record of ScheduleSpec's fields; day = 0 stands for LastDayOfMonth,     *)
(* ends = 0 and max = 0 for none.                                          *)
(***************************************************************************)
EXTENDS Integers, Sequences, FiniteSets, SequencesExt, FiniteSetsExt

CONSTANT MaxOccurrencesPerWindow  \* most dates of one enumeration

-----------------------------------------------------------------------------
(* The calendar of package time, years 1 to 9999 *)

IsLeap(y) == y % 4 = 0 /\ (y % 100 # 0 \/ y % 400 = 0)

MonthIn(m) == (m % 12) + 1

daysInMonth(m) ==
    IF MonthIn(m) = 2 THEN IF IsLeap(m \div 12) THEN 29 ELSE 28
    ELSE IF MonthIn(m) \in {4, 6, 9, 11} THEN 30 ELSE 31

DaysBefore == <<0, 31, 59, 90, 120, 151, 181, 212, 243, 273, 304, 334>>

FirstOf(m) ==
    LET y == m \div 12
    IN  365 * (y - 1) + (y - 1) \div 4 - (y - 1) \div 100 + (y - 1) \div 400
        + DaysBefore[MonthIn(m)] + (IF MonthIn(m) > 2 /\ IsLeap(y) THEN 1 ELSE 0) + 1

Date(m, day) == FirstOf(m) + day - 1

Weekday(date) == date % 7  \* 0 is Sunday

LastMonth == 12 * 10000 - 1  \* December 9999

LastDate == FirstOf(LastMonth + 1) - 1

-----------------------------------------------------------------------------
(* The series: its origin, resolved once, and an offset from it *)

Anchor(spec) == Date(spec.startMonth, spec.startDay)

clampToMonth(m, spec) ==
    Date(m, IF spec.day = 0 \/ spec.day > daysInMonth(m) THEN daysInMonth(m) ELSE spec.day)

MonthStep(spec) == IF spec.frequency = "yearly" THEN 12 * spec.interval ELSE spec.interval

(* The month of the anchor, or the rule's month in the anchor's year.      *)
AnchorMonth(spec) ==
    IF spec.frequency = "yearly" THEN 12 * (spec.startMonth \div 12) + spec.month - 1
    ELSE spec.startMonth

(* The origin of a monthly or yearly series: a whole interval later when   *)
(* the anchor is past the nominal day.                                     *)
OriginMonth(spec) ==
    IF clampToMonth(AnchorMonth(spec), spec) < Anchor(spec)
    THEN AnchorMonth(spec) + MonthStep(spec) ELSE AnchorMonth(spec)

WeeklyOrigin(spec) == Anchor(spec) + ((spec.weekday - Weekday(Anchor(spec)) + 7) % 7)

(* Mutant: only the first occurrence is shifted, not the origin. *)
FirstShifted(spec, index) ==
    CASE spec.frequency = "daily"  -> Anchor(spec) + index * spec.interval
      [] spec.frequency = "weekly" -> WeeklyOrigin(spec) + 7 * index * spec.interval
      [] OTHER -> IF index = 0 THEN clampToMonth(OriginMonth(spec), spec)
                  ELSE clampToMonth(AnchorMonth(spec) + index * MonthStep(spec), spec)

at(spec, index) ==
    CASE spec.frequency = "daily"  -> Anchor(spec) + index * spec.interval
      [] spec.frequency = "weekly" -> WeeklyOrigin(spec) + 7 * index * spec.interval
      [] OTHER -> clampToMonth(OriginMonth(spec) + index * MonthStep(spec), spec)

(* Validate: the rules that may be saved.  A date that parses is a day of    *)
(* its month in the years 1 to 9999.                                         *)
Validate(spec) ==
    /\ spec.frequency \in {"daily", "weekly", "monthly", "yearly"}
    /\ spec.interval \in Nat \ {0}
    /\ spec.startMonth \in 12..LastMonth
    /\ spec.startDay \in 1..daysInMonth(spec.startMonth)
    /\ spec.ends = 0 \/ spec.ends \in Anchor(spec)..LastDate
    /\ spec.max \in Nat
    /\ spec.frequency = "weekly" => spec.weekday \in 0..6
    /\ spec.frequency \in {"monthly", "yearly"} => spec.day \in 0..31
    /\ spec.frequency = "yearly" => spec.month \in 1..12

-----------------------------------------------------------------------------
(* walk: from the origin until the visitor stops or the series ends *)

Ended(spec, index) ==
    \/ spec.max > 0 /\ index >= spec.max
    \/ at(spec, index) > LastDate
    \/ spec.ends # 0 /\ at(spec, index) > spec.ends

(* The first index that is not visited when the visitor stops behind last. *)
(* Every step of a series is a day or more, so one is found in the range.  *)
Stop(spec, last) ==
    Min({i \in 0..(IF last < Anchor(spec) THEN 0 ELSE last - Anchor(spec) + 1) :
           Ended(spec, i) \/ at(spec, i) > last})

(* The dates of the window, in the order they are appended. *)
Occurrences(spec, from, to) ==
    LET walked == [i \in 1..Stop(spec, to) |-> at(spec, i - 1)]
    IN  IF to < from THEN << >> ELSE SelectSeq(walked, LAMBDA date : date >= from)

WindowTooWide(spec, from, to) == Len(Occurrences(spec, from, to)) > MaxOccurrencesPerWindow

NoDate == 0

NextAfter(spec, after) ==
    LET i == Stop(spec, after)
    IN  IF Ended(spec, i) THEN NoDate ELSE at(spec, i)

-----------------------------------------------------------------------------
(* What a rule says, date by date and without a series: the day fits, and  *)
(* a whole number of intervals lies between its period and the anchor's.   *)

(* The nominal day, or the last one of a month that does not reach it.     *)
NominalDay(spec, m, day) ==
    \/ day = spec.day
    \/ day = daysInMonth(m) /\ (spec.day = 0 \/ day < spec.day)

Says(spec, m, day) ==
    LET since == Date(m, day) - Anchor(spec)
    IN  CASE spec.frequency = "daily"   -> since % spec.interval = 0
          [] spec.frequency = "weekly"  -> /\ Weekday(Date(m, day)) = spec.weekday
                                           /\ (since \div 7) % spec.interval = 0
          [] spec.frequency = "monthly" -> /\ NominalDay(spec, m, day)
                                           /\ (m - spec.startMonth) % spec.interval = 0
          [] spec.frequency = "yearly"  -> /\ NominalDay(spec, m, day)
                                           /\ MonthIn(m) = spec.month
                                           /\ (m \div 12 - spec.startMonth \div 12) % spec.interval = 0

(* The dates a rule names among those of the months up to last. *)
Named(spec, last) ==
    LET days == UNION {{<<m, day>> : day \in 1..daysInMonth(m)} : m \in spec.startMonth..last}
        said == {Date(d[1], d[2]) : d \in {e \in days : Says(spec, e[1], e[2])}}
        open == {n \in said : n >= Anchor(spec) /\ n <= LastDate /\ (spec.ends = 0 \/ n <= spec.ends)}
    IN  IF spec.max = 0 THEN open
        ELSE {n \in open : Cardinality({k \in open : k < n}) < spec.max}

(* Whatever window is asked for, the enumeration returns the dates in it   *)
(* that the rule names, ascending and each once, NextAfter the first one   *)
(* behind a date, and a window of as many days as the cap is never too     *)
(* wide, which the generator and the forecast rely on.  A short month      *)
(* clamps one date, it does not move the later ones.                       *)
KeepsRule(spec, last) ==
    LET named == Named(spec, last)
        end   == FirstOf(last + 1) - 1
        froms == {Anchor(spec) - 1, Anchor(spec), Anchor(spec) + 40}
    IN  \A from \in froms :
          /\ \A to \in {from - 1, from, from + 30, end} :
                LET dates == Occurrences(spec, from, to)
                IN  /\ Range(dates) = {n \in named : from <= n /\ n <= to}
                    /\ \A i \in 2..Len(dates) : dates[i - 1] < dates[i]
          /\ LET later == {n \in named : n > from}
             IN  later # {} => NextAfter(spec, from) = Min(later)
          /\ ~WindowTooWide(spec, from, from + MaxOccurrencesPerWindow - 1)
=============================================================================
