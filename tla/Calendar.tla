------------------------------ MODULE Calendar ------------------------------
(***************************************************************************)
(* The daily webinar's calendar (src/internal/campaigns/recurrence.go and    *)
(* src/pkg/timex/timex.go): pure functions from a campaign's settings and an  *)
(* instant to the webinar a contact belongs to.                               *)
(*                                                                          *)
(* An instant is a number of hours; a day has DayLength of them.  A zone is   *)
(* its offset before and after its one change; one the program does not know  *)
(* counts as UTC where it must have one.  time.Date is modelled as Go   *)
(* computes it: the offset is looked up at the wall-clock time read as UTC,    *)
(* and again at the instant that gives.                                        *)
(***************************************************************************)
EXTENDS Integers, Sequences, FiniteSets

CONSTANTS DayLength, NoDay, NoTime

ASSUME CalendarAssumption ==
  /\ DayLength \in Nat \ {0}
  /\ NoDay \notin Int /\ NoTime \notin Int

-----------------------------------------------------------------------------
Offset(zone, t) == IF t < zone.change THEN zone.before ELSE zone.after

\* time.Date, for a number of hours on the wall since day 0.
Date(zone, wall) ==
  LET guess == Offset(zone, wall) IN
  IF guess = 0 THEN wall ELSE wall - Offset(zone, wall - guess)

\* Time.In(loc): what the clock on the wall shows, and its day.
Wall(zone, t) == t + Offset(zone, t)
Day(zone, t) == Wall(zone, t) \div DayLength
StartOfDay(zone, t) == Date(zone, Day(zone, t) * DayLength)
AddDay(zone, t) == Date(zone, Wall(zone, t) + DayLength)

-----------------------------------------------------------------------------
\* A series begins on its own day, or on that of the event in the date field.
RecurrenceOf(c) ==
  [enabled |-> c.daily, clock |-> c.clock, zone |-> c.zone,
   start |-> IF c.start = NoDay /\ c.event # NoTime THEN Day(c.zone, c.event) ELSE c.start]

\* Recurrence.Validate
Valid(r) == r.enabled => r.zone.known /\ r.clock # NoTime

\* Mutant: the day is the day in UTC.
FirstDayInUTC(r, from) ==
  LET today == Date(r.zone, (from \div DayLength) * DayLength) IN
  IF r.start # NoDay /\ today < Date(r.zone, r.start * DayLength)
  THEN Date(r.zone, r.start * DayLength) ELSE today

\* The first day to look at: today, or the first of the series.
FirstDay(r, from) ==
  LET today == StartOfDay(r.zone, from) IN
  IF r.start # NoDay /\ today < Date(r.zone, r.start * DayLength)
  THEN Date(r.zone, r.start * DayLength) ELSE today

Occurrence(r, day) == Date(r.zone, Day(r.zone, day) * DayLength + r.clock)

Candidates(r, from) ==
  LET one == FirstDay(r, from)
      two == AddDay(r.zone, one)
  IN <<Occurrence(r, one), Occurrence(r, two), Occurrence(r, AddDay(r.zone, two))>>

NextOccurrenceAfter(r, from) ==
  LET at == Candidates(r, from)
      coming == {i \in DOMAIN at : at[i] >= from}
  IN IF ~r.enabled \/ ~Valid(r) \/ coming = {} THEN NoTime
     ELSE at[CHOOSE i \in coming : \A j \in coming : i <= j]

\* An occurrence claims who arrives until its last step is due.
OccurrenceFor(r, now, tail) == NextOccurrenceAfter(r, now - (IF tail < 0 THEN 0 ELSE tail))

\* The panel's preview.
NextOccurrence(c, now) == NextOccurrenceAfter(RecurrenceOf(c), now)

Either(next, event) == IF next # NoTime THEN next ELSE event

PreviewAnchor(c, now) == Either(NextOccurrence(c, now), c.event)

-----------------------------------------------------------------------------
(***************************************************************************)
(* What the calendar should say: the earliest occurrence on any day of the    *)
(* series that is not before the instant.                                     *)
(***************************************************************************)
Series(r, days) == {Date(r.zone, d * DayLength + r.clock) :
                      d \in {d \in days : r.start = NoDay \/ d >= r.start}}

Earliest(S) == CHOOSE t \in S : \A u \in S : t <= u

NextInSeries(r, from, days) == Earliest({t \in Series(r, days) : t >= from})

\* Go moves a time on the wall that a change skips: an hour on, or, west of
\* Greenwich, an hour back.  No day loses its midnight or its webinar that way.
KeepsDays(zone, clock, days) ==
  \A d \in days : \A hour \in {0, clock} : Day(zone, Date(zone, d * DayLength + hour)) = d
=============================================================================
