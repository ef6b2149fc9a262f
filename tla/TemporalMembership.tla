--------------------------- MODULE TemporalMembership ---------------------------
(***************************************************************************)
(* What is known about a time, and whether it lies in a queried range.     *)
(* Instants are natural numbers, DayLen of them to a day; the user's       *)
(* midnight is ZoneOffset later than that of UTC.  A time has a form:      *)
(*   minute     an instant                 from: the instant               *)
(*   day        a date                     from: the day                   *)
(*   approx, dayPeriod                     from: the day                   *)
(*   period     an explicit interval       from, to: instants              *)
(*   window     a month or a year          from, to: its days, inclusive   *)
(*   recurring  a recurrence                                               *)
(*   past, ongoing, planned                no calendar, only its relation  *)
(*   unknown                               to the present, or nothing      *)
(***************************************************************************)
EXTENDS Integers

CONSTANTS
  DayLen, ZoneOffset,
  WindowDays,  \* how many days a month or a year has
  Horizon      \* bound on the instants

ASSUME ZoneAssumption == DayLen \in Nat \ {0} /\ ZoneOffset \in 0 .. DayLen - 1
ASSUME WindowAssumption == WindowDays \in Nat \ {0}

NoTime == -1
CalendarForms == {"minute", "day", "approx", "dayPeriod", "period", "recurring"}
TimeForms == CalendarForms \cup {"window", "past", "ongoing", "planned", "unknown"}

Time(form, from, to) == [form |-> form, from |-> from, to |-> to]
Unknown == Time("unknown", 0, 0)

LocalMidnight(d) == d * DayLen + ZoneOffset
UtcMidnight(d)   == d * DayLen
LocalDay(i)      == (i - ZoneOffset) \div DayLen
Start            == LocalMidnight(0)  \* the first instant

-----------------------------------------------------------------------------
(* Faulty variants of definitions below, for mutation runs.                *)

\* Ranges that touch the window are taken to hold it.
OverlapIsMatch(from, to, a, b) ==
  IF to <= a \/ from >= b THEN "no_match" ELSE "match"

-----------------------------------------------------------------------------
\* What TemporalResolver makes of the words for an instant, in a given form.
Told(form, i) ==
  CASE form = "minute" -> {Time(form, i, i)}
    [] form \in {"day", "approx", "dayPeriod"} -> {Time(form, LocalDay(i), LocalDay(i))}
    [] form = "period" -> {Time(form, j, j + DayLen) :
                             j \in {k \in Start .. i : k + DayLen > i}}
    [] form = "window" -> LET first == WindowDays * (LocalDay(i) \div WindowDays)
                          IN {Time(form, first, first + WindowDays - 1)}
    [] OTHER -> {Time(form, 0, 0)}

HasAnchor(t) == t.form \in CalendarForms

\* A point to sort by; a day stands for its midnight, a period for its start.
TemporalInstant(t) ==
  CASE t.form \in {"minute", "period"} -> t.from
    [] t.form \in {"day", "approx", "dayPeriod"} -> LocalMidnight(t.from)
    [] OTHER -> NoTime

\* occurrence_possible_window: half-open, or nothing.
PossibleWindow(t) ==
  CASE t.form = "day"    -> <<LocalMidnight(t.from), LocalMidnight(t.from + 1)>>
    [] t.form = "window" -> <<LocalMidnight(t.from), LocalMidnight(t.to + 1)>>
    [] t.form = "period" /\ t.from < t.to -> <<t.from, t.to>>
    [] OTHER -> <<>>

CoarseMembership(from, to, a, b) ==
  IF from >= a /\ to <= b THEN "match"
  ELSE IF to <= a \/ from >= b THEN "no_match" ELSE "unknown"

\* range_membership of an occurrence, observation or assertion in [a, b).
RangeMembership(t, a, b) ==
  LET window == PossibleWindow(t) IN
  IF t.form = "minute" THEN IF a <= t.from /\ t.from < b THEN "match" ELSE "no_match"
  ELSE IF window = <<>> THEN "unknown"
  ELSE CoarseMembership(window[1], window[2], a, b)

\* validity_interval_membership: match only if the whole range is covered.
ValidityMembership(start, end, a, b, open) ==
  IF start = NoTime /\ end = NoTime THEN "unknown"
  ELSE IF (end # NoTime /\ a >= end) \/ (start # NoTime /\ b <= start) THEN "no_match"
  ELSE IF start # NoTime /\ end # NoTime
    THEN IF start <= a /\ end >= b THEN "match" ELSE "unknown"
  ELSE IF start # NoTime /\ open /\ start <= a THEN "match" ELSE "unknown"

\* relation_calendar_start and relation_calendar_endpoint: dates in UTC.
CalendarStart(t) ==
  CASE t.form = "minute" -> t.from
    [] t.form \in {"day", "approx", "dayPeriod", "window"} -> UtcMidnight(t.from)
    [] OTHER -> NoTime
CalendarEndpoint(t) ==
  CASE t.form = "minute" -> t.from
    [] t.form \in {"day", "approx", "dayPeriod", "window"} -> UtcMidnight(t.to)
    [] OTHER -> NoTime

TerminationCalendarKnown(t) == HasAnchor(t) \/ t.form = "window"

\* The instants, out of a set of them, at which it may have happened.
Possible(t, instants) ==
  {i \in instants :
     CASE t.form = "minute" -> i = t.from
       [] t.form \in {"day", "dayPeriod", "window"} -> LocalDay(i) \in t.from .. t.to
       [] t.form = "period" -> t.from <= i /\ i < t.to
       [] OTHER -> TRUE}
===============================================================================
