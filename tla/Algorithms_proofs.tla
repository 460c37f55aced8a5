-------------------------- MODULE Algorithms_proofs --------------------------
(***************************************************************************)
(* Theorems about the pure functions, for inputs of any size: the calendar of *)
(* a webinar series, the forms that set it, the checklist of a campaign, the  *)
(* search for a keyword, the statuses reported of a message.                  *)
(*                                                                          *)
(* Nothing here is proved by an induction scheme: where a recursion or a      *)
(* chain of neighbours has to be followed, the least counterexample is taken, *)
(* which a finite set has (MinimalSet, LeastOf).                              *)
(***************************************************************************)
EXTENDS Forms, Notifications, FiniteSetTheorems, TLAPS

-----------------------------------------------------------------------------
(***************************************************************************)
(* Days.                                                                      *)
(***************************************************************************)
\* A day has its hours, and no two days share one.
LEMMA HoursOfDay ==
  ASSUME NEW w \in Int
  PROVE  /\ w \div DayLength \in Int
         /\ (w \div DayLength) * DayLength <= w
         /\ w < (w \div DayLength) * DayLength + DayLength
         /\ w % DayLength = w - (w \div DayLength) * DayLength
BY CalendarAssumption

LEMMA DayOfHour ==
  ASSUME NEW d \in Int, NEW h \in 0..(DayLength - 1)
  PROVE  (d * DayLength + h) \div DayLength = d
BY CalendarAssumption

\* A zone is less than a day off, and changes once.
Zone ==
  [known : BOOLEAN, before : {n \in Int : -DayLength < n /\ n < DayLength},
   after : {n \in Int : -DayLength < n /\ n < DayLength}, change : Int]

LEMMA ZoneTypes ==
  ASSUME NEW z \in Zone, NEW t \in Int
  PROVE  /\ Offset(z, t) \in {z.before, z.after} /\ z.before \in Int /\ z.after \in Int
         /\ -DayLength < Offset(z, t) /\ Offset(z, t) < DayLength
         /\ z.change \in Int /\ Date(z, t) \in Int /\ Wall(z, t) \in Int
BY CalendarAssumption DEF Zone, Offset, Date, Wall

\* What the clock shows of a moment that was read off a clock is that moment, be
\* it in the hours that a change skips or repeats.
LEMMA DateSettles ==
  ASSUME NEW z \in Zone, NEW w \in Int
  PROVE  Date(z, Wall(z, Date(z, w))) = Date(z, w)
BY ZoneTypes DEF Date, Wall, Offset

\* A midnight that a change moved is not moved again the day after.
LEMMA DayAfter ==
  ASSUME NEW z \in Zone, NEW w \in Int, Wall(z, Date(z, w)) > w
  PROVE  LET next == Wall(z, Date(z, w)) + DayLength IN Wall(z, Date(z, next)) = next
BY ZoneTypes, CalendarAssumption DEF Date, Wall, Offset, Zone

-----------------------------------------------------------------------------
(***************************************************************************)
(* The series.                                                                *)
(***************************************************************************)
\* No change puts anybody back into the day before.
DaysGoOn(z) == \A t, u \in Int : t <= u => Day(z, t) <= Day(z, u)

\* The settings of a daily series that is switched on.
Settings ==
  [enabled : {TRUE}, clock : 0..(DayLength - 1), zone : {z \in Zone : z.known}, start : Int \cup {NoDay}]

\* The webinar of a day.
Webinar(r, d) == Date(r.zone, d * DayLength + r.clock)

LEMMA SettingTypes ==
  ASSUME NEW r \in Settings
  PROVE  /\ r.zone \in Zone /\ r.clock \in Int /\ 0 <= r.clock /\ r.clock < DayLength
         /\ r.clock # NoTime /\ Valid(r) /\ (r.start # NoDay => r.start \in Int)
         /\ \A d \in Int : Webinar(r, d) \in Int
<1>1. r.zone \in Zone /\ r.clock \in Int /\ 0 <= r.clock /\ r.clock < DayLength /\ r.clock # NoTime
  BY CalendarAssumption DEF Settings
<1>2. \A d \in Int : d * DayLength + r.clock \in Int
  BY <1>1, CalendarAssumption
<1>3. \A d \in Int : Webinar(r, d) \in Int
  BY <1>1, <1>2, ZoneTypes DEF Webinar
<1>4. QED
  BY <1>1, <1>3 DEF Settings, Valid

\* Where days go on, of two moments the one of the earlier day is the earlier.
LEMMA EarlierDay ==
  ASSUME NEW z \in Zone, DaysGoOn(z), NEW t \in Int, NEW u \in Int, Day(z, t) < Day(z, u)
  PROVE  t < u
<1>1. Day(z, t) \in Int /\ Day(z, u) \in Int
  BY ZoneTypes, HoursOfDay DEF Day
<1>2. QED
  BY <1>1 DEF DaysGoOn

\* Webinars come one a day, in the order of their days.
LEMMA OneADay ==
  ASSUME NEW r \in Settings, KeepsDays(r.zone, r.clock, Int), DaysGoOn(r.zone)
  PROVE  /\ \A d \in Int : Day(r.zone, Webinar(r, d)) = d
         /\ \A c, d \in Int : c < d => Webinar(r, c) < Webinar(r, d)
<1>1. \A d \in Int : Day(r.zone, Webinar(r, d)) = d
  BY DEF KeepsDays, Webinar
<1>2. QED
  BY <1>1, SettingTypes, EarlierDay

\* The search begins on the day it is asked on, or on the first of the series.
FirstLook(r, from) ==
  IF r.start # NoDay /\ Day(r.zone, from) < r.start THEN r.start ELSE Day(r.zone, from)

LEMMA MidnightOf ==
  ASSUME NEW r \in Settings, KeepsDays(r.zone, r.clock, Int), NEW d \in Int
  PROVE  Date(r.zone, d * DayLength) \in Int /\ Day(r.zone, Date(r.zone, d * DayLength)) = d
<1>1. d * DayLength + 0 = d * DayLength /\ d * DayLength \in Int
  BY CalendarAssumption
<1>2. QED
  BY <1>1, SettingTypes, ZoneTypes DEF KeepsDays

LEMMA FirstDayIs ==
  ASSUME NEW r \in Settings, KeepsDays(r.zone, r.clock, Int), DaysGoOn(r.zone), NEW from \in Int
  PROVE  /\ FirstLook(r, from) \in Int
         /\ FirstDay(r, from) = Date(r.zone, FirstLook(r, from) * DayLength)
<1> DEFINE today == Day(r.zone, from)
<1>1. today \in Int /\ (r.start # NoDay => r.start \in Int)
  BY SettingTypes, ZoneTypes, HoursOfDay DEF Day
<1>2. ASSUME r.start # NoDay
      PROVE  Date(r.zone, today * DayLength) < Date(r.zone, r.start * DayLength) <=> today < r.start
  <2> DEFINE m == Date(r.zone, today * DayLength)
             first == Date(r.zone, r.start * DayLength)
  <2>1. Day(r.zone, m) = today /\ Day(r.zone, first) = r.start /\ m \in Int /\ first \in Int
    BY <1>1, <1>2, MidnightOf
  <2>2. today = r.start => m = first
    OBVIOUS
  <2> HIDE DEF m, first
  <2>3. (today < r.start => m < first) /\ (r.start < today => first < m)
    BY <2>1, SettingTypes, EarlierDay
  <2>4. m < first <=> today < r.start
    BY <1>1, <1>2, <2>1, <2>2, <2>3
  <2>5. QED
    BY <2>4 DEF m, first
<1>3. QED
  BY <1>1, <1>2 DEF FirstDay, FirstLook, StartOfDay

\* A day is added on the clock on the wall.
LEMMA DayAdded ==
  ASSUME NEW r \in Settings, KeepsDays(r.zone, r.clock, Int), NEW d \in Int, NEW t \in Int,
         Day(r.zone, t) = d, t = Date(r.zone, d * DayLength)
  PROVE  Day(r.zone, AddDay(r.zone, t)) = d + 1
<1> DEFINE o == d * DayLength
           next == Wall(r.zone, t) + DayLength
<1>0. DayLength \in Int /\ 0 < DayLength /\ o \in Int /\ o + DayLength = (d + 1) * DayLength
  BY CalendarAssumption
<1>1. Wall(r.zone, t) \in Int /\ o <= Wall(r.zone, t) /\ Wall(r.zone, t) < o + DayLength
  BY SettingTypes, ZoneTypes, HoursOfDay DEF Day
<1>2. next \in Int /\ AddDay(r.zone, t) = Date(r.zone, next)
  BY <1>0, <1>1 DEF AddDay
<1>3. CASE Wall(r.zone, t) = o
  <2>1. AddDay(r.zone, t) = Date(r.zone, (d + 1) * DayLength)
    BY <1>0, <1>2, <1>3
  <2>2. QED
    BY <2>1, MidnightOf
<1>4. CASE Wall(r.zone, t) > o
  <2>1. Wall(r.zone, AddDay(r.zone, t)) = next
    BY <1>0, <1>2, <1>4, SettingTypes, DayAfter
  <2>2. next = (d + 1) * DayLength + (Wall(r.zone, t) - o)
    BY <1>0, <1>1
  <2>3. Wall(r.zone, t) - o \in 0..(DayLength - 1)
    BY <1>0, <1>1
  <2>4. next \div DayLength = d + 1
    BY <2>2, <2>3, DayOfHour
  <2>5. QED
    BY <2>1, <2>4 DEF Day
<1>5. QED
  BY <1>0, <1>1, <1>3, <1>4

\* The first two webinars looked at are those of two days on end.
LEMMA CandidatesAre ==
  ASSUME NEW r \in Settings, KeepsDays(r.zone, r.clock, Int), DaysGoOn(r.zone), NEW from \in Int
  PROVE  LET f == FirstLook(r, from) IN
         /\ DOMAIN Candidates(r, from) = {1, 2, 3}
         /\ Candidates(r, from)[1] = Webinar(r, f)
         /\ Candidates(r, from)[2] = Webinar(r, f + 1)
<1> DEFINE f == FirstLook(r, from)
           one == FirstDay(r, from)
           two == AddDay(r.zone, one)
<1>1. f \in Int /\ one = Date(r.zone, f * DayLength)
  BY FirstDayIs
<1>2. one \in Int /\ Day(r.zone, one) = f
  BY <1>1, MidnightOf
<1>3. Day(r.zone, two) = f + 1
  BY <1>1, <1>2, DayAdded
<1>4. Occurrence(r, one) = Webinar(r, f) /\ Occurrence(r, two) = Webinar(r, f + 1)
  BY <1>2, <1>3 DEF Occurrence, Webinar
<1>5. Candidates(r, from) = <<Occurrence(r, one), Occurrence(r, two), Occurrence(r, AddDay(r.zone, two))>>
  BY DEF Candidates
<1>6. QED
  BY <1>4, <1>5

LEMMA EarliestIs ==
  ASSUME NEW S \in SUBSET Int, NEW t \in S, \A u \in S : t <= u
  PROVE  Earliest(S) = t
<1>1. \A u \in S : (\A v \in S : u <= v) => u = t
  OBVIOUS
<1>2. QED
  BY <1>1, Zenon DEF Earliest

\* The search finds a webinar on its first day or on the next.
LEMMA TwoDaysSuffice ==
  ASSUME NEW r \in Settings, KeepsDays(r.zone, r.clock, Int), DaysGoOn(r.zone), NEW from \in Int
  PROVE  LET f == FirstLook(r, from) IN
         /\ Webinar(r, f + 1) >= from
         /\ NextOccurrenceAfter(r, from) = Webinar(r, IF Webinar(r, f) >= from THEN f ELSE f + 1)
<1> DEFINE f == FirstLook(r, from)
           at == Candidates(r, from)
           coming == {i \in DOMAIN at : at[i] >= from}
<1>1. f \in Int /\ Day(r.zone, from) <= f
  BY FirstDayIs, SettingTypes, ZoneTypes, HoursOfDay DEF FirstLook, Day
<1>2. Webinar(r, f + 1) >= from
  <2>1. Day(r.zone, from) < Day(r.zone, Webinar(r, f + 1))
    <3> DEFINE today == Day(r.zone, from)
    <3>1. today \in Int
      BY SettingTypes, ZoneTypes, HoursOfDay DEF Day
    <3>2. f + 1 \in Int
      BY <1>1
    <3>3. Day(r.zone, Webinar(r, f + 1)) = f + 1
      BY <3>2, OneADay
    <3>4. today < f + 1
      <4> HIDE DEF f, today
      <4>1. f \in Int /\ today <= f
        BY <1>1 DEF today
      <4>2. QED
        BY <3>1, <4>1
    <3>5. QED
      BY <3>3, <3>4
  <2>2. QED
    BY <1>1, <2>1, SettingTypes, EarlierDay
<1>3. DOMAIN at = {1, 2, 3} /\ at[1] = Webinar(r, f) /\ at[2] = Webinar(r, f + 1)
  BY CandidatesAre
<1>4. NextOccurrenceAfter(r, from) =
        IF coming = {} THEN NoTime ELSE at[CHOOSE i \in coming : \A j \in coming : i <= j]
  <2>1. r.enabled /\ Valid(r)
    BY SettingTypes DEF Settings
  <2>2. NextOccurrenceAfter(r, from) =
          IF ~r.enabled \/ ~Valid(r) \/ coming = {} THEN NoTime
          ELSE at[CHOOSE i \in coming : \A j \in coming : i <= j]
    BY Zenon DEF NextOccurrenceAfter
  <2> HIDE DEF coming, at
  <2>3. CASE coming = {}
    BY <2>1, <2>2, <2>3, Zenon
  <2>4. CASE coming # {}
    BY <2>1, <2>2, <2>4, Zenon
  <2>5. QED
    BY <2>3, <2>4
<1> HIDE DEF f
<1>5. CASE Webinar(r, f) >= from
  <2>1. 1 \in coming /\ \A j \in coming : 1 <= j
    BY <1>3, <1>5
  <2>2. (CHOOSE i \in coming : \A j \in coming : i <= j) = 1
    BY <1>3, <2>1
  <2>3. QED
    BY <1>2, <1>3, <1>4, <1>5, <2>1, <2>2 DEF f
<1>6. CASE ~(Webinar(r, f) >= from)
  <2>1. 2 \in coming /\ \A j \in coming : 2 <= j
    BY <1>2, <1>3, <1>6
  <2>2. (CHOOSE i \in coming : \A j \in coming : i <= j) = 2
    BY <1>3, <2>1
  <2>3. QED
    BY <1>2, <1>3, <1>4, <1>6, <2>1, <2>2 DEF f
<1>7. QED
  BY <1>5, <1>6

\* A contact is given the earliest webinar of the whole series that is not before
\* the moment asked about, in every zone whose change moves no midnight and no
\* webinar to another day and puts nobody back into the day before
\* (NextOccurrenceAfter, whose loop stops after a few days).
THEOREM NextIsEarliest ==
  ASSUME NEW r \in Settings, KeepsDays(r.zone, r.clock, Int), DaysGoOn(r.zone), NEW from \in Int
  PROVE  NextOccurrenceAfter(r, from) = NextInSeries(r, from, Int)
<1> DEFINE f == FirstLook(r, from)
           S == {t \in Series(r, Int) : t >= from}
           d == IF Webinar(r, f) >= from THEN f ELSE f + 1
<1>1. f \in Int /\ Day(r.zone, from) <= f /\ (r.start # NoDay => r.start \in Int /\ r.start <= f)
  BY FirstDayIs, SettingTypes, ZoneTypes, HoursOfDay DEF FirstLook, Day
<1>2. d \in Int /\ f <= d /\ Webinar(r, d) >= from /\ Webinar(r, d) \in Int
  BY <1>1, TwoDaysSuffice, SettingTypes
<1>3. Webinar(r, d) \in S
  BY <1>1, <1>2 DEF Series, Webinar
<1>4. ASSUME NEW u \in S
      PROVE  Webinar(r, d) <= u
  <2>1. PICK e \in Int : u = Webinar(r, e) /\ (r.start # NoDay => e >= r.start) /\ u >= from
    BY DEF Series, Webinar
  <2>2. f <= e
    <3>1. Day(r.zone, from) <= e
      BY <2>1, OneADay, SettingTypes DEF DaysGoOn
    <3>2. QED
      BY <2>1, <3>1, SettingTypes DEF FirstLook
  <2>3. d <= e
    BY <1>1, <1>2, <2>1, <2>2
  <2>4. QED
    BY <1>2, <2>1, <2>3, OneADay, SettingTypes
<1>5. S \in SUBSET Int
  BY SettingTypes DEF Series, Webinar
<1>6. Earliest(S) = Webinar(r, d)
  BY <1>3, <1>4, <1>5, EarliestIs
<1>7. QED
  BY <1>6, TwoDaysSuffice DEF NextInSeries

\* It is the same webinar as long as none begins.
THEOREM NextStays ==
  ASSUME NEW r \in Settings, KeepsDays(r.zone, r.clock, Int), DaysGoOn(r.zone),
         NEW from \in Int, NEW later \in Int, from <= later,
         \A t \in Series(r, Int) : ~(from <= t /\ t < later)
  PROVE  NextOccurrenceAfter(r, later) = NextOccurrenceAfter(r, from)
<1>1. Series(r, Int) \in SUBSET Int
  BY SettingTypes DEF Series, Webinar
<1>2. {t \in Series(r, Int) : t >= from} = {t \in Series(r, Int) : t >= later}
  BY <1>1
<1>3. QED
  BY <1>2, NextIsEarliest DEF NextInSeries

-----------------------------------------------------------------------------
(***************************************************************************)
(* The campaign form.                                                         *)
(***************************************************************************)
Hours == 0..(DayLength - 1)

Form(in) ==
  /\ in.zone \in Zone
  /\ in.day \in Int \cup {NoDay} /\ in.seriesDay \in Int \cup {NoDay}
  /\ in.clock \in Hours \cup {NoTime} /\ in.seriesClock \in Hours \cup {NoTime}
  /\ in.daily \in BOOLEAN

\* What is checked before a form is saved.
Accepted(in, now) ==
  /\ in.zone.known
  /\ ~(in.limit # NoLimit /\ in.limit < 1)
  /\ in.daily => Valid(SeriesTyped(in, now))

LEMMA AcceptedIs ==
  ASSUME NEW in, NEW now, ToCampaign(in, now) # Refused
  PROVE  Accepted(in, now)
BY Zenon DEF ToCampaign, Accepted

\* A form that passes is saved as it says.
LEMMA SavedAs ==
  ASSUME NEW in, NEW now, Accepted(in, now)
  PROVE  LET c == ToCampaign(in, now)  a == ApplyRecurrence(in, now) IN
         /\ c.zone = in.zone /\ c.daily = in.daily /\ c.limit = in.limit
         /\ c.clock = a.clock /\ c.start = a.start /\ c.event = a.event
<1>1. ToCampaign(in, now) =
        [clock |-> ApplyRecurrence(in, now).clock, start |-> ApplyRecurrence(in, now).start,
         event |-> ApplyRecurrence(in, now).event,
         zone |-> in.zone, daily |-> in.daily, limit |-> in.limit,
         attempts |-> IF in.attempts \in 1..20 THEN in.attempts ELSE 5,
         words |-> UnsubscribeWords(in.words)]
  <2>1. ~(~in.zone.known \/ (in.limit # NoLimit /\ in.limit < 1)
            \/ (in.daily /\ ~Valid(SeriesTyped(in, now))))
    BY Zenon DEF Accepted
  <2>2. QED
    BY <2>1, Zenon DEF ToCampaign
<1> DEFINE c == ToCampaign(in, now)
<1>2. c.zone = in.zone /\ c.daily = in.daily /\ c.limit = in.limit
  BY <1>1
<1>3. /\ c.clock = ApplyRecurrence(in, now).clock
      /\ c.start = ApplyRecurrence(in, now).start
      /\ c.event = ApplyRecurrence(in, now).event
  BY <1>1
<1>4. QED
  BY <1>2, <1>3, Zenon

\* The series that is saved, and its first webinar as the event.
LEMMA SeriesSaved ==
  ASSUME NEW in, Form(in), NEW now \in Int, Accepted(in, now), in.daily
  PROVE  LET c == ToCampaign(in, now) IN
         /\ c.clock = SeriesTyped(in, now).clock /\ c.start = SeriesTyped(in, now).start
         /\ c.clock \in Hours /\ c.start \in Int /\ c.event \in Int
         /\ c.event = Date(c.zone, c.start * DayLength + c.clock)
         /\ RecurrenceOf(c) \in Settings
         /\ RecurrenceOf(c).zone = c.zone /\ RecurrenceOf(c).clock = c.clock
         /\ RecurrenceOf(c).start = c.start
<1> DEFINE c == ToCampaign(in, now)
           s == SeriesTyped(in, now)
<1>1. s.clock # NoTime /\ in.zone.known /\ in.zone \in Zone
  BY DEF Accepted, Valid, SeriesTyped, Form
<1>2. s.clock \in Hours /\ s.start \in Int
  BY <1>1, ZoneTypes, HoursOfDay, CalendarAssumption DEF SeriesTyped, Form, Day, Hours
<1>3. /\ c.zone = in.zone /\ c.daily = in.daily
      /\ c.clock = s.clock /\ c.start = s.start /\ c.event = Parse(s.start, s.clock, in.zone)
  <2>1. ApplyRecurrence(in, now) =
          [clock |-> s.clock, start |-> s.start, event |-> Parse(s.start, s.clock, in.zone)]
    BY Zenon DEF ApplyRecurrence
  <2>2. /\ ApplyRecurrence(in, now).clock = s.clock
        /\ ApplyRecurrence(in, now).start = s.start
        /\ ApplyRecurrence(in, now).event = Parse(s.start, s.clock, in.zone)
    BY <2>1
  <2>3. QED
    BY <2>2, SavedAs, Zenon
<1>4. s.start * DayLength + s.clock \in Int /\ NoTime \notin Int /\ NoDay \notin Int
  BY <1>2, CalendarAssumption DEF Hours
<1>5. c.event = Date(c.zone, c.start * DayLength + c.clock) /\ c.event \in Int
  BY <1>1, <1>3, <1>4, ZoneTypes DEF Parse
<1>6. RecurrenceOf(c) = [enabled |-> c.daily, clock |-> c.clock, zone |-> c.zone, start |-> c.start]
  BY <1>2, <1>3, <1>4 DEF RecurrenceOf
<1>7. c.daily = TRUE
  BY <1>3 DEF Form
<1> HIDE DEF c, s
<1>8. RecurrenceOf(c) \in Settings
  BY <1>1, <1>2, <1>3, <1>6, <1>7 DEF Settings, Hours
<1>9. /\ RecurrenceOf(c).zone = c.zone /\ RecurrenceOf(c).clock = c.clock
      /\ RecurrenceOf(c).start = c.start
  BY <1>6
<1>10. QED
  BY <1>2, <1>3, <1>5, <1>8, <1>9 DEF c, s

\* Without a series the event is what was typed, or nothing.
LEMMA EventSaved ==
  ASSUME NEW in, Form(in), NEW now \in Int, Accepted(in, now), ~in.daily
  PROVE  LET c == ToCampaign(in, now) IN
         /\ c.daily = FALSE /\ c.clock = NoTime /\ c.start = NoDay
         /\ c.event = IF in.day = NoDay THEN NoTime ELSE Parse(in.day, in.clock, in.zone)
BY SavedAs DEF ApplyRecurrence, Form

\* What the panel shows of a moment that was typed is what was typed.
LEMMA ShownIsTyped ==
  ASSUME NEW z \in Zone, NEW w \in Int
  PROVE  LET t == Date(z, w) IN
         t \in Int /\ Clock(z, t) \in Hours /\ Day(z, t) \in Int /\ Parse(Day(z, t), Clock(z, t), z) = t
<1> DEFINE t == Date(z, w)
           shown == Wall(z, t)
<1>1. t \in Int /\ shown \in Int
  BY ZoneTypes
<1> HIDE DEF t, shown
<1>2. /\ shown \div DayLength \in Int /\ shown % DayLength \in Hours
      /\ (shown \div DayLength) * DayLength + (shown % DayLength) = shown
  BY <1>1, HoursOfDay, CalendarAssumption DEF Hours
<1>3. Clock(z, t) = shown % DayLength /\ Day(z, t) = shown \div DayLength
  BY DEF Clock, Day, shown
<1>4. Clock(z, t) # NoTime
  BY <1>2, <1>3, CalendarAssumption DEF Hours
<1>5. Parse(Day(z, t), Clock(z, t), z) = Date(z, shown)
  BY <1>2, <1>3, <1>4 DEF Parse
<1>6. Date(z, shown) = t
  BY DateSettles DEF t, shown
<1>7. QED
  BY <1>1, <1>2, <1>3, <1>5, <1>6 DEF t

-----------------------------------------------------------------------------
(***************************************************************************)
(* A form that is opened and saved.                                           *)
(***************************************************************************)
\* No change of the campaign's zone moves one of its days or its webinars.
ZoneKeepsSeries(c) == KeepsDays(c.zone, c.clock, Int) /\ DaysGoOn(c.zone)

\* What the series was saved with is what the calendar finds: its first webinar
\* is the event (toCampaign, applyRecurrence).
THEOREM EventIsFirst ==
  ASSUME NEW in, Form(in), NEW now \in Int, ToCampaign(in, now) # Refused, in.daily,
         ZoneKeepsSeries(ToCampaign(in, now))
  PROVE  LET c == ToCampaign(in, now) IN c.event = Earliest(Series(RecurrenceOf(c), Int))
<1> DEFINE c == ToCampaign(in, now)
           r == RecurrenceOf(c)
<1>1. /\ r \in Settings /\ r.zone = c.zone /\ r.clock = c.clock /\ r.start = c.start
      /\ c.event = Date(c.zone, c.start * DayLength + c.clock) /\ c.start \in Int
  BY AcceptedIs, SeriesSaved
<1>2. KeepsDays(r.zone, r.clock, Int) /\ DaysGoOn(r.zone)
  BY <1>1 DEF ZoneKeepsSeries
<1> HIDE DEF c, r
<1>3. c.event = Webinar(r, r.start) /\ r.start # NoDay
  BY <1>1, CalendarAssumption DEF Webinar
<1>4. c.event \in Series(r, Int)
  BY <1>1, <1>3 DEF Series, Webinar
<1>5. ASSUME NEW u \in Series(r, Int)
      PROVE  c.event <= u
  <2>1. PICK d \in Int : u = Webinar(r, d) /\ d >= r.start
    BY <1>3 DEF Series, Webinar
  <2>2. Webinar(r, d) \in Int /\ Webinar(r, r.start) \in Int
    BY <1>1, SettingTypes
  <2>3. r.start < d => Webinar(r, r.start) < Webinar(r, d)
    BY <1>1, <1>2, OneADay
  <2>4. QED
    BY <1>1, <1>3, <2>1, <2>2, <2>3
<1>6. Series(r, Int) \in SUBSET Int
  BY <1>1, SettingTypes DEF Series, Webinar
<1>7. c.event = Earliest(Series(r, Int))
  BY <1>4, <1>5, <1>6, EarliestIs
<1>8. QED
  BY <1>7 DEF c, r

\* A campaign whose form is opened and saved again, in its own zone and at any
\* later time, keeps its event and its series, and nobody is moved (toCampaign,
\* and the comparison that Update makes).
THEOREM OpeningDisturbsNobody ==
  ASSUME NEW in, Form(in), NEW now \in Int, NEW later \in Int,
         ToCampaign(in, now) # Refused, in.daily => ZoneKeepsSeries(ToCampaign(in, now))
  PROVE  LET c == ToCampaign(in, now)  opened == ToCampaign(FormOf(c, c.zone), later) IN
         /\ Accepted(FormOf(c, c.zone), later) /\ ~Disturbs(c, opened)
         /\ \A setting \in {"daily", "clock", "start", "zone", "event", "limit"} :
               opened[setting] = c[setting]
<1> DEFINE c == ToCampaign(in, now)
           form == FormOf(c, c.zone)
           opened == ToCampaign(form, later)
<1>0. Accepted(in, now)
  BY AcceptedIs
<1>1. in.zone \in Zone /\ c.zone = in.zone /\ c.daily = in.daily /\ c.limit = in.limit
  BY <1>0, SavedAs DEF Form
<1>2. /\ form.zone = c.zone /\ form.daily = c.daily /\ form.limit = c.limit
      /\ form.day = ShownDay(c, c.zone) /\ form.clock = ShownClock(c, c.zone)
      /\ form.seriesClock = c.clock /\ (c.daily => form.seriesDay = ShownDay(c, c.zone))
  BY DEF FormOf
<1>3. CASE in.daily
  <2>1. /\ c.clock \in Hours /\ c.start \in Int /\ c.event \in Int
        /\ c.event = Date(c.zone, c.start * DayLength + c.clock)
    BY <1>0, <1>3, SeriesSaved
  <2>2. Day(c.zone, c.event) = c.start
    BY <1>3, <2>1 DEF ZoneKeepsSeries, KeepsDays
  <2>3. c.event # NoTime /\ c.clock # NoTime /\ c.start # NoDay
    BY <2>1, CalendarAssumption DEF Hours
  <2>4. form.seriesDay = c.start
    BY <1>1, <1>2, <1>3, <2>2, <2>3 DEF ShownDay
  <2> HIDE DEF c, form
  <2>5. SeriesTyped(form, later) =
          [enabled |-> TRUE, zone |-> c.zone, clock |-> c.clock, start |-> c.start]
    BY <1>2, <2>3, <2>4 DEF SeriesTyped
  <2>6. Accepted(form, later)
    BY <1>0, <1>1, <1>2, <2>3, <2>5 DEF Accepted, Valid
  <2>7. ApplyRecurrence(form, later) = [clock |-> c.clock, start |-> c.start, event |-> c.event]
    <3>1. form.daily
      BY <1>1, <1>2, <1>3
    <3>2. Parse(c.start, c.clock, c.zone) = c.event
      BY <2>1, <2>3 DEF Parse
    <3>3. QED
      BY <1>2, <2>5, <3>1, <3>2 DEF ApplyRecurrence
  <2>8. /\ opened.clock = c.clock /\ opened.start = c.start /\ opened.event = c.event
        /\ opened.zone = c.zone /\ opened.daily = c.daily /\ opened.limit = c.limit
    BY <1>2, <2>6, <2>7, SavedAs
  <2>9. QED
    BY <2>6, <2>8 DEF Disturbs, RecurrenceChanged, SameInstant, c, form
<1>4. CASE ~in.daily
  <2>1. /\ c.clock = NoTime /\ c.start = NoDay
        /\ c.event = IF in.day = NoDay THEN NoTime ELSE Parse(in.day, in.clock, in.zone)
    BY <1>0, <1>4, EventSaved
  <2>2. c.event # NoTime => /\ Day(c.zone, c.event) # NoDay
                            /\ Parse(Day(c.zone, c.event), Clock(c.zone, c.event), c.zone) = c.event
    <3>1. SUFFICES ASSUME c.event # NoTime
                   PROVE  /\ Day(c.zone, c.event) # NoDay
                          /\ Parse(Day(c.zone, c.event), Clock(c.zone, c.event), c.zone) = c.event
      OBVIOUS
    <3> DEFINE w == in.day * DayLength + (IF in.clock = NoTime THEN 0 ELSE in.clock)
    <3>2. w \in Int /\ c.event = Date(c.zone, w)
      BY <1>1, <2>1, <3>1, CalendarAssumption DEF Form, Parse, Hours
    <3> HIDE DEF c, w
    <3>3. QED
      BY <1>1, <3>2, ShownIsTyped, CalendarAssumption
  <2> HIDE DEF c, form
  <2>3. Accepted(form, later)
    BY <1>0, <1>1, <1>2, <1>4 DEF Accepted
  <2>4. ApplyRecurrence(form, later) = [clock |-> NoTime, start |-> NoDay, event |-> c.event]
    BY <1>1, <1>2, <1>4, <2>2 DEF ApplyRecurrence, ShownDay, ShownClock
  <2>5. /\ opened.clock = c.clock /\ opened.start = c.start /\ opened.event = c.event
        /\ opened.zone = c.zone /\ opened.daily = c.daily /\ opened.limit = c.limit
    BY <1>2, <2>1, <2>3, <2>4, SavedAs
  <2>6. QED
    BY <2>3, <2>5 DEF Disturbs, RecurrenceChanged, SameInstant, c, form
<1>5. QED
  BY <1>3, <1>4

-----------------------------------------------------------------------------
(***************************************************************************)
(* The moment of a step.                                                      *)
(***************************************************************************)
\* The webinar of the preview: of the series, or the event.
LEMMA AnchorIs ==
  ASSUME NEW in, Form(in), NEW at \in Int, ToCampaign(in, at) # Refused, NEW now \in Int,
         in.daily => ZoneKeepsSeries(ToCampaign(in, at))
  PROVE  LET c == ToCampaign(in, at)  r == RecurrenceOf(c) IN
         IF in.daily
         THEN /\ r \in Settings /\ KeepsDays(r.zone, r.clock, Int) /\ DaysGoOn(r.zone)
              /\ PreviewAnchor(c, now) = NextOccurrenceAfter(r, now)
              /\ PreviewAnchor(c, now) \in Series(r, Int) /\ PreviewAnchor(c, now) \in Int
         ELSE /\ \A from : NextOccurrenceAfter(r, from) = NoTime
              /\ PreviewAnchor(c, now) = c.event
              /\ c.event \in Int \cup {NoTime}
<1> DEFINE c == ToCampaign(in, at)
           r == RecurrenceOf(c)
<1>0. Accepted(in, at)
  BY AcceptedIs
<1>1. CASE in.daily
  <2>1. r \in Settings /\ r.zone = c.zone /\ r.clock = c.clock /\ r.start = c.start /\ c.start \in Int
    BY <1>0, <1>1, SeriesSaved
  <2>2. KeepsDays(r.zone, r.clock, Int) /\ DaysGoOn(r.zone)
    BY <1>1, <2>1 DEF ZoneKeepsSeries
  <2> DEFINE f == FirstLook(r, now)
             d == IF Webinar(r, f) >= now THEN f ELSE f + 1
  <2>3. NextOccurrenceAfter(r, now) = Webinar(r, d)
    BY <2>1, <2>2, TwoDaysSuffice
  <2>4. f \in Int /\ (r.start # NoDay => r.start <= f)
    BY <2>1, <2>2, FirstDayIs, SettingTypes, ZoneTypes, HoursOfDay DEF FirstLook, Day
  <2>5. d \in Int /\ (r.start # NoDay => r.start <= d)
    BY <2>1, <2>4, CalendarAssumption
  <2>6. Webinar(r, d) \in Series(r, Int) /\ Webinar(r, d) \in Int
    BY <2>1, <2>5, SettingTypes DEF Series, Webinar
  <2>7. PreviewAnchor(c, now) = NextOccurrenceAfter(r, now)
    BY <2>3, <2>6, CalendarAssumption DEF PreviewAnchor, NextOccurrence, Either
  <2>8. QED
    BY <1>1, <2>1, <2>2, <2>3, <2>6, <2>7
<1>2. CASE ~in.daily
  <2>1. c.daily = FALSE /\ c.event = IF in.day = NoDay THEN NoTime ELSE Parse(in.day, in.clock, in.zone)
    BY <1>0, <1>2, EventSaved
  <2>2. r.enabled = FALSE
    BY <2>1 DEF RecurrenceOf
  <2>3. \A from : NextOccurrenceAfter(r, from) = NoTime
    BY <2>2, Zenon DEF NextOccurrenceAfter
  <2>4. PreviewAnchor(c, now) = c.event
    BY <2>3 DEF PreviewAnchor, NextOccurrence, Either
  <2>5. c.event \in Int \cup {NoTime}
    <3> DEFINE w == in.day * DayLength + (IF in.clock = NoTime THEN 0 ELSE in.clock)
    <3>1. in.day # NoDay => w \in Int
      BY CalendarAssumption DEF Form, Hours
    <3>2. in.day # NoDay => Parse(in.day, in.clock, in.zone) = Date(in.zone, w)
      BY DEF Parse
    <3> HIDE DEF w, c
    <3>3. QED
      BY <2>1, <3>1, <3>2, ZoneTypes DEF Form
  <2>6. QED
    BY <1>2, <2>3, <2>4, <2>5
<1>3. QED
  BY <1>1, <1>2

\* A moment typed for a step is the moment the panel shows of it until the next
\* webinar begins (toInput, Preview).
THEOREM TypedIsShown ==
  ASSUME NEW in, Form(in), NEW at \in Int, ToCampaign(in, at) # Refused,
         in.daily => ZoneKeepsSeries(ToCampaign(in, at)),
         NEW now \in Int, NEW later \in Int, now <= later,
         in.daily => \A t \in Series(RecurrenceOf(ToCampaign(in, at)), Int) : ~(now <= t /\ t < later),
         NEW day \in Int, NEW clock \in Hours \cup {NoTime},
         NEW step, step.kind # "ON_TRIGGER",
         step.offset = OffsetTyped(ToCampaign(in, at), now, day, clock), step.offset # Refused
  PROVE  LET c == ToCampaign(in, at) IN
         PreviewRow(PreviewAnchor(c, later), step).shown = Parse(day, clock, c.zone)
<1> DEFINE c == ToCampaign(in, at)
           anchor == PreviewAnchor(c, now)
           typed == Parse(day, clock, c.zone)
<1>1. c.zone \in Zone
  BY AcceptedIs, SavedAs DEF Form
<1>2. typed \in Int
  <2> DEFINE w == day * DayLength + (IF clock = NoTime THEN 0 ELSE clock)
  <2>1. w \in Int
    BY CalendarAssumption DEF Hours
  <2>2. typed = Date(c.zone, w)
    BY DEF Parse
  <2> HIDE DEF w, c, typed
  <2>3. QED
    BY <1>1, <2>1, <2>2, ZoneTypes
<1>3. anchor # NoTime /\ step.offset = typed - anchor
  BY DEF OffsetTyped, Distance
<1>4. anchor \in Int
  BY <1>3, AnchorIs
<1>5. PreviewAnchor(c, later) = anchor
  BY AnchorIs, NextStays
<1>6. PreviewRow(anchor, step).shown = anchor + step.offset
  BY <1>3 DEF PreviewRow
<1>7. QED
  BY <1>2, <1>3, <1>4, <1>5, <1>6

\* It is the moment the step leaves for whoever writes while the webinar that was
\* shown claims who arrives, and no earlier one does (toInput,
\* occurrenceFor).
THEOREM TypedIsSent ==
  ASSUME NEW in, Form(in), NEW at \in Int, ToCampaign(in, at) # Refused,
         in.daily => ZoneKeepsSeries(ToCampaign(in, at)),
         NEW now \in Int, NEW later \in Int, NEW tail \in Nat,
         NEW day \in Int, NEW clock \in Hours \cup {NoTime},
         OffsetTyped(ToCampaign(in, at), now, day, clock) # Refused,
         LET c == ToCampaign(in, at)  anchor == PreviewAnchor(c, now) IN
         in.daily => /\ anchor >= later - tail
                     /\ \A t \in Series(RecurrenceOf(c), Int) : t < anchor => t < later - tail
  PROVE  LET c == ToCampaign(in, at) IN
         EventAnchor(c, OccurrenceFor(RecurrenceOf(c), later, tail)) + OffsetTyped(c, now, day, clock)
           = Parse(day, clock, c.zone)
<1> DEFINE c == ToCampaign(in, at)
           r == RecurrenceOf(c)
           anchor == PreviewAnchor(c, now)
           typed == Parse(day, clock, c.zone)
<1>1. c.zone \in Zone
  BY AcceptedIs, SavedAs DEF Form
<1>2. typed \in Int
  <2> DEFINE w == day * DayLength + (IF clock = NoTime THEN 0 ELSE clock)
  <2>1. w \in Int
    BY CalendarAssumption DEF Hours
  <2>2. typed = Date(c.zone, w)
    BY DEF Parse
  <2> HIDE DEF w, c, typed
  <2>3. QED
    BY <1>1, <2>1, <2>2, ZoneTypes
<1>3. anchor # NoTime /\ OffsetTyped(c, now, day, clock) = typed - anchor
  BY DEF OffsetTyped, Distance
<1>4. anchor \in Int
  BY <1>3, AnchorIs
<1>5. OccurrenceFor(r, later, tail) = NextOccurrenceAfter(r, later - tail)
  BY DEF OccurrenceFor
<1>6. EventAnchor(c, OccurrenceFor(r, later, tail)) = anchor
  <2>1. CASE in.daily
    <3> DEFINE S == {t \in Series(r, Int) : t >= later - tail}
    <3>1. /\ r \in Settings /\ KeepsDays(r.zone, r.clock, Int) /\ DaysGoOn(r.zone)
          /\ anchor \in Series(r, Int)
      BY <2>1, AnchorIs
    <3>2. NextOccurrenceAfter(r, later - tail) = Earliest(S)
      BY <3>1, NextIsEarliest DEF NextInSeries
    <3>3. S \in SUBSET Int
      BY <3>1, SettingTypes DEF Series, Webinar
    <3>4. anchor \in S /\ \A u \in S : anchor <= u
      BY <1>4, <2>1, <3>1, <3>3
    <3> HIDE DEF S, c, r, anchor
    <3>5. Earliest(S) = anchor
      BY <3>3, <3>4, EarliestIs
    <3>6. QED
      BY <1>3, <1>5, <3>2, <3>5 DEF EventAnchor, Either
  <2>2. CASE ~in.daily
    BY <1>5, <2>2, AnchorIs DEF EventAnchor, Either
  <2>3. QED
    BY <2>1, <2>2
<1>7. QED
  BY <1>2, <1>3, <1>4, <1>6

-----------------------------------------------------------------------------
(***************************************************************************)
(* The least counterexample, in place of an induction.                        *)
(***************************************************************************)
\* Of sets of elements of a finite set, one has none of the others inside it.
LEMMA MinimalSet ==
  ASSUME NEW S, IsFiniteSet(S), NEW T \in SUBSET (SUBSET S), T # {}
  PROVE  \E x \in T : \A y \in T : y \subseteq x => y = x
<1>1. IsWellFoundedOn(StrictSubsetOrdering(S), FiniteSubsetsOf(S))
  BY FS_StrictSubsetOrderingWellFounded
<1>2. FiniteSubsetsOf(S) = SUBSET S
  BY FS_FiniteSubsetsOfFinite
<1>3. PICK x \in T : \A y \in T : ~(<<y, x>> \in StrictSubsetOrdering(S))
  BY <1>1, <1>2, WFMin
<1>4. QED
  BY <1>3 DEF StrictSubsetOrdering

-----------------------------------------------------------------------------
(***************************************************************************)
(* The checklist.                                                             *)
(***************************************************************************)
\* The elements of T between two others, in the order of the keys.
Between(T, key, i, j) == {m \in T : Precedes(key, i, m) /\ Precedes(key, m, j)}

LEMMA PrecedesIsOrder ==
  ASSUME NEW T, T \in SUBSET Int, NEW key, \A k \in T : key[k] \in Int
  PROVE  /\ \A i, j, k \in T : Precedes(key, i, j) /\ Precedes(key, j, k) => Precedes(key, i, k)
         /\ \A i \in T : ~Precedes(key, i, i)
         /\ \A i, j \in T : i # j => Precedes(key, i, j) \/ Precedes(key, j, i)
BY DEF Precedes

\* Whatever goes wrong between two steps, in a way that a step in between would
\* share with one of them, goes wrong between two neighbours.
LEMMA NeighboursSuffice ==
  ASSUME NEW T, IsFiniteSet(T), NEW Bad \in SUBSET (T \X T), Bad # {},
         NEW key, T \in SUBSET Int, \A k \in T : key[k] \in Int,
         \A p \in Bad : Precedes(key, p[1], p[2]),
         \A p \in Bad : \A k \in Between(T, key, p[1], p[2]) :
            <<p[1], k>> \in Bad \/ <<k, p[2]>> \in Bad
  PROVE  \E p \in Bad : Between(T, key, p[1], p[2]) = {}
<1> DEFINE Gaps == {Between(T, key, p[1], p[2]) : p \in Bad}
<1>1. Gaps \in SUBSET (SUBSET T) /\ Gaps # {}
  BY DEF Between
<1> HIDE DEF Gaps
<1>2. PICK g \in Gaps : \A y \in Gaps : y \subseteq g => y = g
  <2>1. IsFiniteSet(T) /\ Gaps \in SUBSET (SUBSET T) /\ Gaps # {}
    BY <1>1
  <2>2. \E x \in Gaps : \A y \in Gaps : y \subseteq x => y = x
    BY ONLY <2>1, MinimalSet, SMT
  <2>3. QED
    BY <2>2
<1>3. PICK p \in Bad : g = Between(T, key, p[1], p[2])
  BY <1>2 DEF Gaps
<1>4. p[1] \in T /\ p[2] \in T /\ Precedes(key, p[1], p[2])
  OBVIOUS
<1>5. ASSUME NEW k \in g
      PROVE  FALSE
  <2>1. k \in T /\ Precedes(key, p[1], k) /\ Precedes(key, k, p[2])
    BY <1>3 DEF Between
  <2>2. CASE <<p[1], k>> \in Bad
    <3>1. Between(T, key, p[1], k) \in Gaps
      BY <2>2 DEF Gaps
    <3>2. Between(T, key, p[1], k) \subseteq g
      <4>1. SUFFICES ASSUME NEW x \in Between(T, key, p[1], k)
                     PROVE  x \in g
        OBVIOUS
      <4>2. x \in T /\ Precedes(key, p[1], x) /\ Precedes(key, x, k)
        BY <4>1 DEF Between
      <4>3. Precedes(key, x, p[2])
        <5> DEFINE j == p[2]
        <5>1. j \in T /\ Precedes(key, k, j)
          BY <1>4, <2>1
        <5> HIDE DEF j
        <5>2. Precedes(key, x, j)
          BY <5>1, <2>1, <4>2, PrecedesIsOrder
        <5>3. QED
          BY <5>2 DEF j
      <4>4. QED
        BY <1>3, <4>2, <4>3 DEF Between
    <3>3. k \notin Between(T, key, p[1], k)
      BY <2>1, PrecedesIsOrder DEF Between
    <3>4. QED
      BY <1>2, <3>1, <3>2, <3>3
  <2>3. CASE <<k, p[2]>> \in Bad
    <3>1. Between(T, key, k, p[2]) \in Gaps
      BY <2>3 DEF Gaps
    <3>2. Between(T, key, k, p[2]) \subseteq g
      BY <1>3, <1>4, <2>1, PrecedesIsOrder DEF Between
    <3>3. k \notin Between(T, key, k, p[2])
      BY <2>1, PrecedesIsOrder DEF Between
    <3>4. QED
      BY <1>2, <3>1, <3>2, <3>3
  <2>4. QED
    BY <1>3, <2>2, <2>3
<1>6. QED
  BY <1>3, <1>5

\* The steps of a campaign, as the checklist reads them.
Checked(c) ==
  /\ IsFiniteSet(DOMAIN c.steps) /\ DOMAIN c.steps \in SUBSET Int
  /\ \A i \in DOMAIN c.steps :
        /\ c.steps[i].faults \in SUBSET {"template", "media", "archived"}
        /\ c.steps[i].offset \in Int /\ c.steps[i].order \in Int

\* A warning of a kind the other checks do not give comes from the order of sending.
LEMMA OnlyConflictsWarn ==
  ASSUME NEW c, Checked(c), NEW now, NEW field \in {"order", "moment"}
  PROVE  (\E p \in Validate(c, now) : p.field = field)
           <=> \E p \in ScheduleConflicts(c, now) : p.field = field
<1>1. ASSUME NEW p \in StepProblems(c)
      PROVE  p.field # field
  <2>1. PICK i \in Enabled(c) :
           \/ \E fault \in c.steps[i].faults : p = Problem(fault, i, TRUE)
           \/ p = Problem("offset", i, TRUE)
    BY DEF StepProblems, IfSo
  <2>2. c.steps[i].faults \in SUBSET {"template", "media", "archived"}
    BY <2>1 DEF Checked, Enabled
  <2>3. QED
    BY <2>1, <2>2 DEF Problem
<1>2. ASSUME NEW condition, NEW name \in {"timezone", "triggers", "steps", "event", "special", "past", "link"},
             NEW blocking, NEW p \in IfSo(condition, Problem(name, 0, blocking))
      PROVE  p.field # field
  BY <1>2 DEF IfSo, Problem
<1>3. ASSUME NEW p \in Validate(c, now), p.field = field
      PROVE  p \in ScheduleConflicts(c, now)
  BY <1>1, <1>2, <1>3, Zenon DEF Validate
<1>4. ASSUME NEW p \in ScheduleConflicts(c, now)
      PROVE  p \in Validate(c, now)
  BY <1>4 DEF Validate
<1>5. QED
  BY <1>3, <1>4

\* Two steps against their order are enough for two neighbours against it.
LEMMA NeighboursContradict ==
  ASSUME NEW T \in SUBSET Int, IsFiniteSet(T), NEW key, NEW at,
         \A k \in T : key[k] \in Int /\ at[k] \in Int,
         NEW a \in T, NEW b \in T, Precedes(key, a, b), at[b] < at[a]
  PROVE  \E i, j \in T : /\ Precedes(key, i, j) /\ at[j] < at[i]
                         /\ ~\E k \in T : Precedes(key, i, k) /\ Precedes(key, k, j)
<1> DEFINE Bad == {p \in T \X T : Precedes(key, p[1], p[2]) /\ at[p[2]] < at[p[1]]}
<1>1. <<a, b>> \in Bad
  OBVIOUS
<1>2. \A p \in Bad : \A k \in Between(T, key, p[1], p[2]) : <<p[1], k>> \in Bad \/ <<k, p[2]>> \in Bad
  <2>1. SUFFICES ASSUME NEW p \in Bad, NEW k \in Between(T, key, p[1], p[2])
                 PROVE  <<p[1], k>> \in Bad \/ <<k, p[2]>> \in Bad
    OBVIOUS
  <2> DEFINE i == p[1]
             j == p[2]
  <2>2. i \in T /\ j \in T /\ at[j] < at[i]
    OBVIOUS
  <2>3. k \in T /\ Precedes(key, i, k) /\ Precedes(key, k, j)
    BY DEF Between
  <2>4. \/ at[k] < at[i]
        \/ at[j] < at[k]
    <3> HIDE DEF i, j
    <3>1. QED
      BY <2>2, <2>3
  <2>5. QED
    BY <2>2, <2>3, <2>4
<1>3. Bad \in SUBSET (T \X T) /\ \A p \in Bad : Precedes(key, p[1], p[2])
  OBVIOUS
<1>4. \E p \in Bad : Between(T, key, p[1], p[2]) = {}
  <2> HIDE DEF Bad
  <2>1. QED
    BY <1>1, <1>2, <1>3, NeighboursSuffice
<1>5. PICK p \in Bad : Between(T, key, p[1], p[2]) = {}
  BY <1>4
<1>6. QED
  BY <1>5 DEF Between

\* And two at one moment, for two neighbours in the order of the moments.
LEMMA NeighboursMeet ==
  ASSUME NEW T \in SUBSET Int, IsFiniteSet(T), NEW at,
         \A k \in T : at[k] \in Int,
         NEW a \in T, NEW b \in T, a # b, at[a] = at[b]
  PROVE  \E i, j \in T : /\ Precedes(at, i, j) /\ at[j] = at[i]
                         /\ ~\E k \in T : Precedes(at, i, k) /\ Precedes(at, k, j)
<1> DEFINE Bad == {p \in T \X T : Precedes(at, p[1], p[2]) /\ at[p[2]] = at[p[1]]}
<1>1. Bad # {}
  <2>1. <<a, b>> \in Bad \/ <<b, a>> \in Bad
    BY PrecedesIsOrder
  <2>2. QED
    BY <2>1
<1>2. \A p \in Bad : \A k \in Between(T, at, p[1], p[2]) : <<p[1], k>> \in Bad \/ <<k, p[2]>> \in Bad
  <2>1. SUFFICES ASSUME NEW p \in Bad, NEW k \in Between(T, at, p[1], p[2])
                 PROVE  <<p[1], k>> \in Bad \/ <<k, p[2]>> \in Bad
    OBVIOUS
  <2> DEFINE i == p[1]
             j == p[2]
  <2>2. i \in T /\ j \in T /\ at[j] = at[i]
    OBVIOUS
  <2>3. k \in T /\ Precedes(at, i, k) /\ Precedes(at, k, j)
    BY DEF Between
  <2>4. at[k] = at[i]
    <3> HIDE DEF i, j
    <3>1. QED
      BY <2>2, <2>3 DEF Precedes
  <2>5. QED
    BY <2>2, <2>3, <2>4
<1>3. Bad \in SUBSET (T \X T) /\ \A p \in Bad : Precedes(at, p[1], p[2])
  OBVIOUS
<1>4. \E p \in Bad : Between(T, at, p[1], p[2]) = {}
  <2> HIDE DEF Bad
  <2>1. QED
    BY <1>1, <1>2, <1>3, NeighboursSuffice
<1>5. PICK p \in Bad : Between(T, at, p[1], p[2]) = {}
  BY <1>4
<1>6. QED
  BY <1>5 DEF Between

\* The checklist looks at neighbours only, and yet misses nothing: where the
\* campaign's webinar is known, it warns of the order just when some two steps are
\* sent against their order, however far apart they are, and of the moment just
\* when some two come at one (Validate, scheduleConflicts).
THEOREM ChecklistFindsEverything ==
  ASSUME NEW c, Checked(c), NEW now, PreviewAnchor(c, now) \in Int
  PROVE  LET index == [i \in DOMAIN c.steps |-> c.steps[i].order] IN
         /\ (\E p \in Validate(c, now) : p.field = "order") <=>
              \E i, j \in Timed(c) : Precedes(index, i, j) /\ c.steps[j].offset < c.steps[i].offset
         /\ (\E p \in Validate(c, now) : p.field = "moment") <=>
              \E i, j \in Timed(c) : i # j /\ c.steps[i].offset = c.steps[j].offset
<1> DEFINE T == Timed(c)
           D == DOMAIN c.steps
           anchor == PreviewAnchor(c, now)
           off == [i \in D |-> c.steps[i].offset]
           index == [i \in D |-> c.steps[i].order]
           runAt == [i \in D |-> anchor + c.steps[i].offset]
           after(i, j) == Precedes(index, i, j) /\ runAt[j] < runAt[i]
           none(key, i, j) == ~\E k \in T : Precedes(key, i, k) /\ Precedes(key, k, j)
<1>1. T \in SUBSET Int /\ IsFiniteSet(T) /\ T \subseteq D
  BY FS_Subset DEF Timed, Enabled, Checked
<1>2. anchor \in Int /\ anchor # NoTime
  BY CalendarAssumption
<1>3. \A k \in T : /\ index[k] \in Int /\ runAt[k] \in Int /\ off[k] \in Int
                   /\ runAt[k] = anchor + off[k] /\ off[k] = c.steps[k].offset
  <2>1. SUFFICES ASSUME NEW k \in T
                 PROVE  /\ index[k] \in Int /\ runAt[k] \in Int /\ off[k] \in Int
                        /\ runAt[k] = anchor + off[k] /\ off[k] = c.steps[k].offset
    OBVIOUS
  <2>2. k \in D
    BY <1>1
  <2>3. c.steps[k].offset \in Int /\ c.steps[k].order \in Int
    BY <2>2 DEF Checked
  <2>4. index[k] = c.steps[k].order /\ runAt[k] = anchor + c.steps[k].offset /\ off[k] = c.steps[k].offset
    BY <2>2
  <2> HIDE DEF anchor, index, runAt, off, T, D
  <2>5. QED
    BY <1>2, <2>3, <2>4
<1>4. ScheduleConflicts(c, now) =
        {Problem("order", j, FALSE) : j \in {j \in T :
             \E i \in T : Follows(c, index, i, j) /\ runAt[j] < runAt[i]}}
          \cup {Problem("moment", j, FALSE) : j \in {j \in T :
             \E i \in T : Follows(c, runAt, i, j) /\ runAt[j] = runAt[i]}}
  BY <1>2, Zenon DEF ScheduleConflicts
<1>5. (\E p \in Validate(c, now) : p.field = "order")
        <=> \E i, j \in T : Follows(c, index, i, j) /\ runAt[j] < runAt[i]
  <2>1. (\E p \in Validate(c, now) : p.field = "order") <=> \E p \in ScheduleConflicts(c, now) : p.field = "order"
    BY OnlyConflictsWarn
  <2> HIDE DEF anchor, index, runAt, off, T, D
  <2>2. ASSUME NEW p \in ScheduleConflicts(c, now), p.field = "order"
        PROVE  \E i, j \in T : Follows(c, index, i, j) /\ runAt[j] < runAt[i]
    <3>1. CASE \E j \in T : p = Problem("order", j, FALSE) /\ \E i \in T : Follows(c, index, i, j) /\ runAt[j] < runAt[i]
      BY <3>1
    <3>2. CASE \E j \in T : p = Problem("moment", j, FALSE)
      BY <2>2, <3>2 DEF Problem
    <3>3. QED
      BY <1>4, <3>1, <3>2, Zenon
  <2>3. ASSUME NEW i \in T, NEW j \in T, Follows(c, index, i, j) /\ runAt[j] < runAt[i]
        PROVE  \E p \in ScheduleConflicts(c, now) : p.field = "order"
    <3>1. Problem("order", j, FALSE) \in ScheduleConflicts(c, now)
      BY <1>4, <2>3, Zenon
    <3>2. QED
      BY <3>1 DEF Problem
  <2>4. QED
    BY <2>1, <2>2, <2>3
<1>6. (\E p \in Validate(c, now) : p.field = "moment")
        <=> \E i, j \in T : Follows(c, runAt, i, j) /\ runAt[j] = runAt[i]
  <2>1. (\E p \in Validate(c, now) : p.field = "moment") <=> \E p \in ScheduleConflicts(c, now) : p.field = "moment"
    BY OnlyConflictsWarn
  <2> HIDE DEF anchor, index, runAt, off, T, D
  <2>2. ASSUME NEW p \in ScheduleConflicts(c, now), p.field = "moment"
        PROVE  \E i, j \in T : Follows(c, runAt, i, j) /\ runAt[j] = runAt[i]
    <3>1. CASE \E j \in T : p = Problem("moment", j, FALSE) /\ \E i \in T : Follows(c, runAt, i, j) /\ runAt[j] = runAt[i]
      BY <3>1
    <3>2. CASE \E j \in T : p = Problem("order", j, FALSE)
      BY <2>2, <3>2 DEF Problem
    <3>3. QED
      BY <1>4, <3>1, <3>2, Zenon
  <2>3. ASSUME NEW i \in T, NEW j \in T, Follows(c, runAt, i, j) /\ runAt[j] = runAt[i]
        PROVE  \E p \in ScheduleConflicts(c, now) : p.field = "moment"
    <3>1. Problem("moment", j, FALSE) \in ScheduleConflicts(c, now)
      BY <1>4, <2>3, Zenon
    <3>2. QED
      BY <3>1 DEF Problem
  <2>4. QED
    BY <2>1, <2>2, <2>3
<1>7. ASSUME NEW key, NEW i \in T, NEW j \in T
      PROVE  Follows(c, key, i, j) <=> Precedes(key, i, j) /\ ~\E k \in T : Precedes(key, i, k) /\ Precedes(key, k, j)
  BY <1>7 DEF Follows
<1>8. (\E i, j \in T : Follows(c, index, i, j) /\ runAt[j] < runAt[i])
        <=> \E i, j \in T : Precedes(index, i, j) /\ c.steps[j].offset < c.steps[i].offset
  <2> HIDE DEF anchor, index, runAt, off, T, D
  <2>1. \A i, j \in T : runAt[j] < runAt[i] <=> off[j] < off[i]
    BY <1>2, <1>3
  <2>2. ASSUME NEW a \in T, NEW b \in T, Precedes(index, a, b), runAt[b] < runAt[a]
        PROVE  \E i, j \in T : Follows(c, index, i, j) /\ runAt[j] < runAt[i]
    <3>1. PICK i \in T, j \in T : /\ Precedes(index, i, j) /\ runAt[j] < runAt[i]
                                  /\ ~\E k \in T : Precedes(index, i, k) /\ Precedes(index, k, j)
      BY <1>1, <1>3, <2>2, NeighboursContradict
    <3>2. QED
      BY <1>7, <3>1
  <2>3. QED
    BY <1>3, <1>7, <2>1, <2>2
<1>9. (\E i, j \in T : Follows(c, runAt, i, j) /\ runAt[j] = runAt[i])
        <=> \E i, j \in T : i # j /\ c.steps[i].offset = c.steps[j].offset
  <2> HIDE DEF anchor, index, runAt, off, T, D
  <2>1. ASSUME NEW i \in T, NEW j \in T
        PROVE  runAt[j] = runAt[i] <=> off[j] = off[i]
    <3> DEFINE x == off[i]
               y == off[j]
    <3>1. x \in Int /\ y \in Int /\ runAt[i] = anchor + x /\ runAt[j] = anchor + y
      BY <1>3
    <3> HIDE DEF x, y
    <3>2. anchor + y = anchor + x <=> y = x
      BY <1>2, <3>1
    <3>3. QED
      BY <3>1, <3>2 DEF x, y
  <2>2. ASSUME NEW a \in T, NEW b \in T, a # b, runAt[a] = runAt[b]
        PROVE  \E i, j \in T : Follows(c, runAt, i, j) /\ runAt[j] = runAt[i]
    <3>1. PICK i \in T, j \in T : /\ Precedes(runAt, i, j) /\ runAt[j] = runAt[i]
                                  /\ ~\E k \in T : Precedes(runAt, i, k) /\ Precedes(runAt, k, j)
      BY <1>1, <1>3, <2>2, NeighboursMeet
    <3>2. QED
      BY <1>7, <3>1
  <2>3. \A i, j \in T : Precedes(runAt, i, j) => i # j
    BY <1>1, <1>3 DEF Precedes
  <2>4. QED
    BY <1>3, <1>7, <2>1, <2>2, <2>3
<1>10. QED
  BY <1>5, <1>6, <1>8, <1>9
-----------------------------------------------------------------------------
(***************************************************************************)
(* The search for a keyword.                                                  *)
(***************************************************************************)
\* The least number of a set, when it has one below which there are few.
LEMMA LeastOf ==
  ASSUME NEW S \in SUBSET Int, NEW low \in Int, NEW high \in Int,
         S \subseteq low..high, S # {}
  PROVE  \E m \in S : \A i \in S : m <= i
<1> DEFINE all == low..high
           upto(m) == low..m
           U == {upto(m) : m \in S}
<1>1. IsFiniteSet(all)
  BY FS_Interval
<1>2. U \in SUBSET (SUBSET all) /\ U # {}
  <2>1. ASSUME NEW m \in S
        PROVE  upto(m) \in SUBSET all
    <3>1. m \in Int /\ m <= high
      OBVIOUS
    <3>2. QED
      BY <3>1
  <2>2. QED
    BY <2>1
<1>3. PICK g \in U : \A y \in U : y \subseteq g => y = g
  <2> HIDE DEF U, all
  <2>1. \E x \in U : \A y \in U : y \subseteq x => y = x
    BY ONLY <1>1, <1>2, MinimalSet, SMT
  <2>2. QED
    BY <2>1
<1>4. PICK m \in S : g = upto(m)
  BY <1>3
<1>5. ASSUME NEW i \in S
      PROVE  m <= i
  <2>1. SUFFICES ASSUME i < m
                 PROVE  FALSE
    OBVIOUS
  <2>2. upto(i) \in U /\ upto(i) \subseteq g
    BY <1>4, <2>1
  <2>3. upto(i) = upto(m)
    BY <1>3, <1>4, <2>2
  <2>4. m \in upto(m) /\ m \notin upto(i)
    BY <2>1
  <2>5. QED
    BY <2>3, <2>4
<1>6. QED
  BY <1>5

\* And the greatest.
LEMMA GreatestOf ==
  ASSUME NEW S \in SUBSET Int, NEW low \in Int, NEW high \in Int,
         S \subseteq low..high, S # {}
  PROVE  \E m \in S : \A i \in S : i <= m
<1> DEFINE R == {0 - i : i \in S}
           from == 0 - high
           to == 0 - low
<1>1. R \in SUBSET Int /\ R # {} /\ from \in Int /\ to \in Int
  <2>1. R \in SUBSET Int
    <3>1. \A i \in S : 0 - i \in Int
      OBVIOUS
    <3>2. QED
      BY <3>1
  <2>2. PICK i \in S : TRUE
    OBVIOUS
  <2>3. 0 - i \in R
    OBVIOUS
  <2>4. QED
    BY <2>1, <2>3
<1>2. R \subseteq from..to
  <2>1. ASSUME NEW i \in S
        PROVE  0 - i \in from..to
    <3>1. i \in Int /\ low <= i /\ i <= high
      OBVIOUS
    <3>2. QED
      BY <3>1
  <2>2. QED
    BY <2>1
<1>3. PICK r \in R : \A i \in R : r <= i
  <2> HIDE DEF R, from, to
  <2>1. QED
    BY <1>1, <1>2, LeastOf
<1>4. PICK m \in S : r = 0 - m
  BY <1>3
<1>5. ASSUME NEW i \in S
      PROVE  i <= m
  <2>1. 0 - i \in R
    OBVIOUS
  <2>2. r <= 0 - i
    BY <1>3, <2>1
  <2>3. QED
    BY <1>4, <2>2
<1>6. QED
  BY <1>5

\* A whole word at place i.
WordAt(s, kw, i) ==
  /\ Occurs(kw, s, i)
  /\ i = 1 \/ ~WordRune(s[i - 1])
  /\ i + Len(kw) > Len(s) \/ ~WordRune(s[i + Len(kw)])

LEMMA WordAtIs ==
  ASSUME NEW s, Len(s) \in Nat, NEW kw, Len(kw) \in Nat, NEW i \in Int
  PROVE  WordAt(s, kw, i) <=> /\ Occurs(kw, s, i)
                              /\ StartsOnBoundary(s, i) /\ EndsOnBoundary(s, i + Len(kw) - 1)
<1> DEFINE n == i + Len(kw)
<1>1. n \in Int /\ (n - 1) + 1 = n /\ (n - 1 >= Len(s) <=> n > Len(s))
  OBVIOUS
<1>2. (i + Len(kw) - 1) = n - 1
  OBVIOUS
<1> HIDE DEF n
<1>3. EndsOnBoundary(s, n - 1) <=> n > Len(s) \/ ~WordRune(s[n])
  BY <1>1 DEF EndsOnBoundary
<1>4. QED
  BY <1>2, <1>3 DEF WordAt, StartsOnBoundary, n

\* CONTAINS, which goes on from one occurrence into the next, finds a keyword just
\* when it stands somewhere as whole words, whatever the text and the keyword
\* (Matches).
THEOREM ContainsFindsWholeWords ==
  ASSUME NEW s, Len(s) \in Nat, NEW kw, Len(kw) \in Nat
  PROVE  ContainsWord(s, kw) <=> \E i \in 1..Len(s) : WordAt(s, kw, i)
<1> DEFINE N == Len(s)
           at(from) == {i \in from..N : Occurs(kw, s, i)}
           first(from) == CHOOSE i \in at(from) : \A j \in at(from) : i <= j
           whole(i) == StartsOnBoundary(s, i) /\ EndsOnBoundary(s, i + Len(kw) - 1)
           body(f, from) == at(from) # {} /\ (whole(first(from)) \/ f[first(from) + 1])
           found == CHOOSE f : f = [from \in 1..(N + 1) |-> body(f, from)]
           there(from) == \E i \in from..N : Occurs(kw, s, i) /\ whole(i)
           w == [from \in 1..(N + 1) |-> there(from)]
<1>1. ContainsWord(s, kw) = found[1]
  BY DEF ContainsWord
<1>2. ASSUME NEW from \in 1..(N + 1), at(from) # {}
      PROVE  /\ first(from) \in at(from) /\ first(from) \in from..N
             /\ \A j \in at(from) : first(from) <= j
             /\ first(from) + 1 \in 1..(N + 1) /\ from < first(from) + 1
  <2>1. \E i \in at(from) : \A j \in at(from) : i <= j
    <3> DEFINE A == at(from)
    <3>1. A \in SUBSET Int /\ A \subseteq from..N /\ A # {} /\ from \in Int /\ N \in Int
      BY <1>2
    <3> HIDE DEF A
    <3>2. \E i \in A : \A j \in A : i <= j
      BY <3>1, LeastOf
    <3>3. QED
      BY <3>2 DEF A
  <2>2. first(from) \in at(from) /\ \A j \in at(from) : first(from) <= j
    BY <2>1, Zenon
  <2>3. first(from) \in from..N
    BY <2>2
  <2> HIDE DEF first
  <2>4. first(from) + 1 \in 1..(N + 1) /\ from < first(from) + 1
    BY <2>3
  <2>5. QED
    BY <2>2, <2>3, <2>4
<1>3. ASSUME NEW from \in 1..(N + 1)
      PROVE  there(from) <=> at(from) # {} /\ (whole(first(from)) \/ there(first(from) + 1))
  <2>1. CASE at(from) = {}
    <3> HIDE DEF first, whole
    <3>1. QED
      BY <2>1
  <2>2. CASE at(from) # {}
    <3> DEFINE o == first(from)
    <3>1. o \in at(from) /\ o \in from..N /\ \A j \in at(from) : o <= j
      BY <1>2, <2>2
    <3> HIDE DEF o, whole, first
    <3>2. ASSUME NEW i \in from..N, Occurs(kw, s, i), whole(i)
          PROVE  whole(o) \/ there(o + 1)
      <4>1. i \in at(from) /\ o <= i
        BY <3>1, <3>2
      <4>2. i = o \/ i \in (o + 1)..N
        BY <3>1, <4>1
      <4>3. QED
        BY <3>2, <4>2
    <3>3. ASSUME whole(o)
          PROVE  there(from)
      BY <3>1, <3>3
    <3>4. ASSUME there(o + 1)
          PROVE  there(from)
      <4>1. PICK i \in (o + 1)..N : Occurs(kw, s, i) /\ whole(i)
        BY <3>4
      <4>2. i \in from..N
        BY <3>1
      <4>3. QED
        BY <4>1, <4>2
    <3>5. there(from) <=> whole(o) \/ there(o + 1)
      BY <3>2, <3>3, <3>4
    <3>6. QED
      BY <2>2, <3>5 DEF o
  <2>3. QED
    BY <2>1, <2>2
<1>4. ASSUME NEW from \in 1..(N + 1)
      PROVE  there(from) <=> body(w, from)
  <2>1. CASE at(from) = {}
    <3> HIDE DEF there, whole, first, at, w
    <3>1. QED
      BY <1>3, <2>1, Zenon
  <2>2. CASE at(from) # {}
    <3> DEFINE next == first(from) + 1
    <3>1. next \in 1..(N + 1)
      BY <1>2, <2>2
    <3>2. w[next] <=> there(next)
      <4> HIDE DEF next, at, first, whole
      <4>1. QED
        BY <3>1, Zenon
    <3> HIDE DEF there, whole, first, at, next, w
    <3>3. there(from) <=> whole(first(from)) \/ there(next)
      BY <1>3, <2>2, Zenon DEF next
    <3>4. QED
      BY <2>2, <3>2, <3>3, Zenon DEF next
  <2>3. QED
    BY <2>1, <2>2
<1>5. w = [from \in 1..(N + 1) |-> body(w, from)]
  <2> HIDE DEF whole, first, at
  <2>1. ASSUME NEW from \in 1..(N + 1)
        PROVE  there(from) = body(w, from)
    <3> HIDE DEF w
    <3>1. QED
      BY <1>4, Zenon
  <2> HIDE DEF there
  <2>2. QED
    BY <2>1, Zenon
<1>6. found = [from \in 1..(N + 1) |-> body(found, from)]
  <2> HIDE DEF whole, first, at, w, body
  <2>1. QED
    BY <1>5, Zenon
<1>7. \A from \in 1..(N + 1) : found[from] = w[from]
  <2> DEFINE Wrong == {from \in 1..(N + 1) : found[from] # w[from]}
  <2>1. SUFFICES Wrong = {}
    BY Zenon
  <2>2. SUFFICES ASSUME Wrong # {}
                 PROVE  FALSE
    OBVIOUS
  <2>3. Wrong \in SUBSET Int /\ Wrong \subseteq 1..(N + 1) /\ N + 1 \in Int
    <3> HIDE DEF found, w
    <3>1. QED
      OBVIOUS
  <2>4. PICK from \in Wrong : \A i \in Wrong : i <= from
    <3> HIDE DEF Wrong, found, w, there, at, first, whole, body
    <3>1. Wrong \in SUBSET Int /\ 1 \in Int
      BY <2>3
    <3>2. QED
      BY <2>2, <2>3, <3>1, GreatestOf, Zenon
  <2>5. from \in 1..(N + 1) /\ found[from] # w[from]
    BY <2>4, Zenon
  <2>6. CASE at(from) = {}
    <3> HIDE DEF whole, first, at, w, found, Wrong
    <3>1. found[from] = FALSE /\ w[from] = FALSE
      BY <1>5, <1>6, <2>5, <2>6, Zenon
    <3>2. QED
      BY <2>5, <3>1
  <2>7. CASE at(from) # {}
    <3> DEFINE next == first(from) + 1
    <3>1. next \in 1..(N + 1) /\ from < next
      BY <1>2, <2>5, <2>7
    <3> HIDE DEF whole, first, at, w, found, next
    <3>2. next \notin Wrong
      <4> HIDE DEF Wrong
      <4>1. QED
        BY <2>3, <2>4, <3>1
    <3>3. found[next] = w[next]
      BY <3>1, <3>2, Zenon
    <3>4. found[from] = body(found, from) /\ w[from] = body(w, from)
      <4> HIDE DEF body
      <4>1. QED
        BY <1>5, <1>6, <2>5, Zenon
    <3>5. body(found, from) = body(w, from)
      BY <3>3, Zenon DEF next
    <3>6. QED
      BY <2>5, <3>4, <3>5, Zenon
  <2>8. QED
    BY <2>6, <2>7
<1>8. found[1] = there(1)
  <2>1. 1 \in 1..(N + 1)
    OBVIOUS
  <2> HIDE DEF found, there
  <2>2. QED
    BY <1>7, <2>1, Zenon
<1>9. there(1) <=> \E i \in 1..N : WordAt(s, kw, i)
  BY WordAtIs
<1>10. QED
  <2> HIDE DEF found, there
  <2>1. QED
    BY <1>1, <1>8, <1>9
-----------------------------------------------------------------------------
(***************************************************************************)
(* The statuses reported of a message.                                        *)
(***************************************************************************)
Reported == {"", "SENT", "DELIVERED", "READ", "FAILED"}
Rows == [status : {"SENT", "DELIVERED", "READ", "FAILED"}, delivered : Nat, read : Nat]

\* What may be said of row r after the first n of the statuses.
Sums(statuses, n, r) ==
  /\ r \in Rows
  /\ r.status = "SENT" \/ \E m \in 1..n : statuses[m] = r.status
  /\ \A m \in 1..n : Rank(statuses[m]) <= Rank(r.status)
  /\ r.delivered # 0 => r.delivered \in 1..n /\ statuses[r.delivered] \in {"DELIVERED", "READ"}
  /\ r.read # 0 => r.read \in 1..n /\ statuses[r.read] = "READ" /\ r.delivered \in 1..r.read
  /\ r.status \in {"DELIVERED", "READ"} => r.delivered # 0
  /\ r.status = "READ" => r.read # 0
  /\ \A m \in 1..n :
       /\ statuses[m] \in {"DELIVERED", "READ"} =>
            r.delivered \in 1..m \/ \E l \in 1..(m - 1) : statuses[l] = "FAILED"
       /\ statuses[m] = "READ" =>
            r.read \in 1..m \/ \E l \in 1..(m - 1) : statuses[l] = "FAILED"

LEMMA RankIs ==
  /\ Rank("") = 0 /\ Rank("SENT") = 1 /\ Rank("DELIVERED") = 2
  /\ Rank("READ") = 3 /\ Rank("FAILED") = 4
BY DEF Rank

LEMMA RankTypes ==
  ASSUME NEW x \in Reported
  PROVE  Rank(x) \in Nat
BY DEF Rank, Reported

\* What the ranks say of two statuses.
LEMMA RanksCompared ==
  ASSUME NEW s \in Reported, NEW t \in Reported
  PROVE  /\ s = "" => Rank(s) <= Rank(t)
         /\ ~(Rank(s) <= Rank(t)) => Rank(t) <= Rank(s)
         /\ Rank(s) <= Rank(t) /\ s = "DELIVERED" => t # "" /\ t # "SENT"
         /\ Rank(s) <= Rank(t) /\ s = "READ" => t # "" /\ t # "SENT" /\ t # "DELIVERED"
<1> DEFINE high == Rank(s)
           low == Rank(t)
<1>1. high \in Nat /\ low \in Nat
  BY RankTypes
<1>2. /\ s = "" => high = 0
      /\ s = "DELIVERED" => high = 2
      /\ s = "READ" => high = 3
  BY RankIs
<1>3. /\ t = "" => low = 0
      /\ t = "SENT" => low = 1
      /\ t = "DELIVERED" => low = 2
  BY RankIs
<1> HIDE DEF high, low
<1>4. high = 0 => high <= low
  BY <1>1
<1>5. ~(high <= low) => low <= high
  BY <1>1
<1>6. high = 2 => ~(high <= 0) /\ ~(high <= 1)
  BY <1>1
<1>7. high = 3 => ~(high <= 0) /\ ~(high <= 1) /\ ~(high <= 2)
  BY <1>1
<1>8. QED
  BY <1>2, <1>3, <1>4, <1>5, <1>6, <1>7, Zenon DEF high, low

LEMMA StatusAdded ==
  ASSUME NEW statuses, NEW n \in Nat, n > 0, \A m \in 1..n : statuses[m] \in Reported,
         NEW r, Sums(statuses, n - 1, r)
  PROVE  Sums(statuses, n, ApplyStatus(r, statuses[n], n))
<1> DEFINE s == statuses[n]
           q == ApplyStatus(r, s, n)
           t == r.status
           high == Rank(s)
           low == Rank(t)
<1>1. /\ s \in Reported /\ r \in Rows /\ t \in {"SENT", "DELIVERED", "READ", "FAILED"}
      /\ r.delivered \in Nat /\ r.read \in Nat
  <2>1. n \in 1..n
    OBVIOUS
  <2>2. s \in Reported
    BY <2>1
  <2>3. r \in Rows
    BY DEF Sums
  <2>4. QED
    BY <2>2, <2>3 DEF Rows
<1>a. /\ high \in Nat /\ low \in Nat
      /\ s = "" => high <= low
      /\ ~(high <= low) => low <= high
      /\ high <= low /\ s \in {"DELIVERED", "READ"} => t \in {"DELIVERED", "READ", "FAILED"}
      /\ high <= low /\ s = "READ" => t \in {"READ", "FAILED"}
  <2>1. t \in Reported
    BY <1>1 DEF Reported
  <2>2. high \in Nat /\ low \in Nat
    BY <1>1, <2>1, RankTypes
  <2>3. /\ s = "" => high <= low
        /\ ~(high <= low) => low <= high
        /\ high <= low /\ s = "DELIVERED" => t # "" /\ t # "SENT"
        /\ high <= low /\ s = "READ" => t # "" /\ t # "SENT" /\ t # "DELIVERED"
    <3> HIDE DEF s, t
    <3>1. QED
      BY <1>1, <2>1, RanksCompared, Zenon
  <2> HIDE DEF s, t, high, low
  <2>4. /\ high <= low /\ s \in {"DELIVERED", "READ"} => t \in {"DELIVERED", "READ", "FAILED"}
        /\ high <= low /\ s = "READ" => t \in {"READ", "FAILED"}
    BY <1>1, <2>3, Zenon
  <2>5. QED
    BY <2>2, <2>3, <2>4, Zenon
<1>2. (1..n) = (1..(n - 1)) \cup {n}
  OBVIOUS
<1>3. CASE s = "" \/ Rank(s) <= Rank(r.status)
  <2>1. q = r
    BY <1>3 DEF ApplyStatus
  <2> HIDE DEF q
  <2> HIDE DEF s
  <2>2. high <= low
    <3> HIDE DEF high, low
    <3>1. s = "" \/ high <= low
      BY <1>3 DEF high, low, t
    <3>2. QED
      BY <1>a, <3>1
  <2>x. \A m \in 1..n : Rank(statuses[m]) <= Rank(r.status)
    BY <1>2, <2>2 DEF Sums, s
  <2> HIDE DEF high, low
  <2>3. s \in {"DELIVERED", "READ"} =>
          r.delivered \in 1..n \/ \E l \in 1..(n - 1) : statuses[l] = "FAILED"
    <3>1. SUFFICES ASSUME s \in {"DELIVERED", "READ"}
                   PROVE  r.delivered \in 1..n \/ \E l \in 1..(n - 1) : statuses[l] = "FAILED"
      OBVIOUS
    <3>2. r.status \in {"DELIVERED", "READ", "FAILED"}
      BY <1>a, <2>2, <3>1
    <3>3. QED
      BY <3>2 DEF Sums
  <2>4. s = "READ" => r.read \in 1..n \/ \E l \in 1..(n - 1) : statuses[l] = "FAILED"
    <3>1. SUFFICES ASSUME s = "READ"
                   PROVE  r.read \in 1..n \/ \E l \in 1..(n - 1) : statuses[l] = "FAILED"
      OBVIOUS
    <3>2. r.status \in {"READ", "FAILED"}
      BY <1>a, <2>2, <3>1
    <3>3. QED
      BY <3>2 DEF Sums
  <2>5. Sums(statuses, n, r)
    BY <1>2, <2>x, <2>3, <2>4 DEF Sums, s
  <2>6. QED
    BY <2>1, <2>5 DEF q, s
<1>4. CASE s # "" /\ ~(Rank(s) <= Rank(r.status))
  <2>1. q = [status |-> s,
             delivered |-> IF s \in {"DELIVERED", "READ"} THEN FirstTime(r.delivered, n) ELSE r.delivered,
             read |-> IF s = "READ" THEN FirstTime(r.read, n) ELSE r.read]
    BY <1>4 DEF ApplyStatus
  <2>2. /\ q.status = s
        /\ q.delivered = IF s \in {"DELIVERED", "READ"} THEN FirstTime(r.delivered, n) ELSE r.delivered
        /\ q.read = IF s = "READ" THEN FirstTime(r.read, n) ELSE r.read
    BY <2>1
  <2>3. /\ r.status \in {"SENT", "DELIVERED", "READ", "FAILED"}
        /\ r.delivered \in Nat /\ r.read \in Nat
    BY <1>1 DEF Rows
  <2>4. q.delivered \in Nat /\ q.read \in Nat
    BY <2>2, <2>3 DEF FirstTime
  <2>5. q \in Rows
    BY <1>1, <1>4, <2>1, <2>2, <2>4 DEF Rows, Reported
  <2> HIDE DEF q, s
  <2>6. Rank(r.status) <= Rank(s) /\ Rank(s) \in Nat /\ Rank(r.status) \in Nat
    <3> HIDE DEF high, low
    <3>1. ~(high <= low)
      BY <1>4 DEF high, low, t
    <3>2. low <= high /\ high \in Nat /\ low \in Nat
      BY <1>a, <3>1, Zenon
    <3>3. QED
      BY <3>2 DEF high, low, t
  <2>7. s = statuses[n]
    BY DEF s
  <2>8. \A m \in 1..n : Rank(statuses[m]) <= Rank(q.status)
    <3>1. SUFFICES ASSUME NEW m \in 1..n
                   PROVE  Rank(statuses[m]) <= Rank(s)
      BY <2>2
    <3>3. CASE m = n
      BY <2>6, <2>7, <3>3
    <3>4. CASE m \in 1..(n - 1)
      <4>1. Rank(statuses[m]) <= Rank(r.status)
        BY <3>4 DEF Sums
      <4>2. statuses[m] \in Reported
        BY <3>4
      <4>3. Rank(statuses[m]) \in Nat
        BY <4>2, RankTypes, Zenon
      <4>4. QED
        BY <2>6, <4>1, <4>3
    <3>5. QED
      BY <1>2, <3>3, <3>4
  <2>9. q.delivered # 0 => q.delivered \in 1..n /\ statuses[q.delivered] \in {"DELIVERED", "READ"}
    BY <2>2, <2>3, <2>7 DEF Sums, FirstTime
  <2>10. q.read # 0 => q.read \in 1..n /\ statuses[q.read] = "READ" /\ q.delivered \in 1..q.read
    BY <2>2, <2>3, <2>7 DEF Sums, FirstTime
  <2>11. /\ q.status \in {"DELIVERED", "READ"} => q.delivered # 0
         /\ q.status = "READ" => q.read # 0
    BY <2>2, <2>3 DEF FirstTime
  <2>12. /\ r.delivered # 0 => q.delivered = r.delivered
         /\ r.read # 0 => q.read = r.read
         /\ s \in {"DELIVERED", "READ"} => q.delivered \in 1..n
         /\ s = "READ" => q.read \in 1..n
    BY <2>2, <2>3 DEF Sums, FirstTime
  <2>13. \A m \in 1..n :
       /\ statuses[m] \in {"DELIVERED", "READ"} =>
            q.delivered \in 1..m \/ \E l \in 1..(m - 1) : statuses[l] = "FAILED"
       /\ statuses[m] = "READ" =>
            q.read \in 1..m \/ \E l \in 1..(m - 1) : statuses[l] = "FAILED"
    <3>1. SUFFICES ASSUME NEW m \in 1..n
                   PROVE  /\ statuses[m] \in {"DELIVERED", "READ"} =>
                               q.delivered \in 1..m \/ \E l \in 1..(m - 1) : statuses[l] = "FAILED"
                          /\ statuses[m] = "READ" =>
                               q.read \in 1..m \/ \E l \in 1..(m - 1) : statuses[l] = "FAILED"
      OBVIOUS
    <3>2. CASE m = n
      BY <2>7, <2>12, <3>2
    <3>3. CASE m \in 1..(n - 1)
      <4>1. /\ statuses[m] \in {"DELIVERED", "READ"} =>
                 r.delivered \in 1..m \/ \E l \in 1..(m - 1) : statuses[l] = "FAILED"
            /\ statuses[m] = "READ" =>
                 r.read \in 1..m \/ \E l \in 1..(m - 1) : statuses[l] = "FAILED"
        BY <3>3 DEF Sums
      <4>2. (r.delivered \in 1..m => r.delivered # 0) /\ (r.read \in 1..m => r.read # 0)
        OBVIOUS
      <4>3. QED
        BY <2>12, <4>1, <4>2
    <3>4. QED
      BY <1>2, <3>2, <3>3
  <2>14. q.status = "SENT" \/ \E m \in 1..n : statuses[m] = q.status
    BY <2>2, <2>7
  <2>15. Sums(statuses, n, q)
    BY <2>5, <2>8, <2>9, <2>10, <2>11, <2>13, <2>14 DEF Sums
  <2>16. QED
    BY <2>15 DEF q, s
<1>5. QED
  BY <1>3, <1>4

\* The rows after the first n statuses, one after the other.
LEMMA RowsExist ==
  ASSUME NEW statuses, NEW N \in Nat
  PROVE  \E f : f = [n \in 0..N |-> IF n = 0 THEN Sent ELSE ApplyStatus(f[n - 1], statuses[n], n)]
<1> DEFINE next(r, n) == ApplyStatus(r, statuses[n], n)
           P(k) == \E f : f = [n \in 0..k |-> IF n = 0 THEN Sent ELSE next(f[n - 1], n)]
           K == {k \in 0..N : ~P(k)}
<1>1. SUFFICES K = {}
  <2>1. N \in 0..N
    OBVIOUS
  <2>2. QED
    BY <2>1
<1>2. SUFFICES ASSUME K # {}
               PROVE  FALSE
  OBVIOUS
<1>3. PICK m \in K : \A k \in K : m <= k
  <2>1. K \in SUBSET Int /\ K \subseteq 0..N /\ 0 \in Int /\ N \in Int
    <3> HIDE DEF P
    <3>1. QED
      OBVIOUS
  <2> HIDE DEF K
  <2>2. QED
    BY <1>2, <2>1, LeastOf, Zenon
<1>4. m \in 0..N /\ ~P(m)
  <2> HIDE DEF P
  <2>1. QED
    BY <1>3
<1>5. m # 0
  <2> DEFINE f == [n \in 0..0 |-> Sent]
  <2>1. f = [n \in 0..0 |-> IF n = 0 THEN Sent ELSE next(f[n - 1], n)]
    <3>1. \A n \in 0..0 : n = 0
      OBVIOUS
    <3> HIDE DEF next
    <3>2. QED
      BY <3>1
  <2> HIDE DEF f
  <2>2. P(0)
    BY <2>1
  <2> HIDE DEF P
  <2>3. QED
    BY <1>4, <2>2, Zenon
<1>6. m - 1 \in 0..N /\ m - 1 < m
  BY <1>4, <1>5
<1>7. P(m - 1)
  <2> HIDE DEF P
  <2>1. m - 1 \notin K
    <3>1. ~(m <= m - 1)
      BY <1>6
    <3> HIDE DEF K
    <3>2. QED
      BY <1>3, <3>1, Zenon
  <2>2. QED
    BY <1>6, <2>1, Zenon
<1>8. PICK f : f = [n \in 0..(m - 1) |-> IF n = 0 THEN Sent ELSE next(f[n - 1], n)]
  BY <1>7, Zenon
<1> DEFINE g == [n \in 0..m |-> IF n = m THEN next(f[m - 1], m) ELSE f[n]]
<1>9. ASSUME NEW n \in 0..m
      PROVE  g[n] = IF n = 0 THEN Sent ELSE next(g[n - 1], n)
  <2> HIDE DEF next
  <2>1. CASE n = m
    <3>1. n # 0 /\ n - 1 = m - 1 /\ n - 1 \in 0..m /\ n - 1 # m
      BY <1>6, <2>1, <1>5
    <3>2. g[n] = next(f[m - 1], m) /\ g[n - 1] = f[n - 1]
      BY <2>1, <3>1, Zenon
    <3>3. QED
      BY <2>1, <3>1, <3>2, Zenon
  <2>2. CASE n # m
    <3>1. n \in 0..(m - 1)
      BY <1>4, <2>2
    <3>2. g[n] = f[n]
      BY <2>2, Zenon
    <3>3. f[n] = IF n = 0 THEN Sent ELSE next(f[n - 1], n)
      BY <1>8, <3>1, Zenon
    <3>4. CASE n = 0
      BY <3>2, <3>3, <3>4, Zenon
    <3>5. CASE n # 0
      <4>1. n - 1 \in 0..m /\ n - 1 # m
        BY <3>1, <3>5, <1>4
      <4>2. g[n - 1] = f[n - 1]
        BY <4>1, Zenon
      <4>3. QED
        BY <3>2, <3>3, <3>5, <4>2, Zenon
    <3>6. QED
      BY <3>4, <3>5
  <2>3. QED
    BY <2>1, <2>2
<1>10. g = [n \in 0..m |-> IF n = 0 THEN Sent ELSE next(g[n - 1], n)]
  <2> DEFINE h == [n \in 0..m |-> IF n = 0 THEN Sent ELSE next(g[n - 1], n)]
  <2>1. g = [n \in 0..m |-> g[n]]
    OBVIOUS
  <2> HIDE DEF g, next
  <2>2. QED
    BY <1>9, <2>1, Zenon
<1>11. P(m)
  <2> HIDE DEF g
  <2>1. QED
    BY <1>10, Zenon
<1>12. QED
  BY <1>4, <1>11

\* However many reports come, in whatever order and however often each, a message
\* ends in the furthest status reported of it, which is therefore the same for any
\* order of the same reports; it is delivered when it is first reported delivered or
\* read, read when it is first reported read, unless it had failed before, and never
\* read earlier than delivered (ApplyStatus).
THEOREM StatusesAddUpAlways ==
  ASSUME NEW statuses, Len(statuses) \in Nat, \A m \in 1..Len(statuses) : statuses[m] \in Reported
  PROVE  Sums(statuses, Len(statuses), After(statuses))
<1> DEFINE N == Len(statuses)
           next(r, n) == ApplyStatus(r, statuses[n], n)
           row == CHOOSE f : f = [n \in 0..N |-> IF n = 0 THEN Sent ELSE next(f[n - 1], n)]
           K == {k \in 0..N : ~Sums(statuses, k, row[k])}
<1>1. After(statuses) = row[N]
  BY DEF After
<1>2. row = [n \in 0..N |-> IF n = 0 THEN Sent ELSE next(row[n - 1], n)]
  BY RowsExist, Zenon
<1> HIDE DEF row
<1>3. SUFFICES K = {}
  <2>1. N \in 0..N
    OBVIOUS
  <2>2. QED
    BY <1>1, <2>1, Zenon
<1>4. SUFFICES ASSUME K # {}
               PROVE  FALSE
  OBVIOUS
<1>5. PICK m \in K : \A k \in K : m <= k
  <2>1. K \in SUBSET Int /\ K \subseteq 0..N /\ 0 \in Int /\ N \in Int
    OBVIOUS
  <2> HIDE DEF K
  <2>2. QED
    BY <1>4, <2>1, LeastOf, Zenon
<1>6. m \in 0..N /\ ~Sums(statuses, m, row[m])
  BY <1>5, Zenon
<1>7. CASE m = 0
  <2>1. row[0] = Sent
    BY <1>2, <1>6, <1>7, Zenon
  <2>2. Sums(statuses, 0, Sent)
    BY DEF Sums, Sent, Rows
  <2>3. QED
    BY <1>6, <1>7, <2>1, <2>2, Zenon
<1>8. CASE m # 0
  <2>1. m - 1 \in 0..N /\ m \in Nat /\ m > 0 /\ ~(m <= m - 1) /\ m \in 1..N /\ 1..m \subseteq 1..N
    BY <1>6, <1>8
  <2>2. Sums(statuses, m - 1, row[m - 1])
    <3>1. m - 1 \notin K
      <4> HIDE DEF K
      <4>1. QED
        BY <1>5, <2>1, Zenon
    <3>2. QED
      BY <2>1, <3>1, Zenon
  <2>3. \A k \in 1..m : statuses[k] \in Reported
    BY <2>1, Zenon
  <2>4. Sums(statuses, m, ApplyStatus(row[m - 1], statuses[m], m))
    BY <2>1, <2>2, <2>3, StatusAdded, Zenon
  <2>5. row[m] = ApplyStatus(row[m - 1], statuses[m], m)
    BY <1>2, <1>6, <1>8, Zenon
  <2>6. QED
    BY <1>6, <2>4, <2>5, Zenon
<1>9. QED
  BY <1>7, <1>8
LEMMA RanksApart ==
  /\ Rank("SENT") # Rank("DELIVERED") /\ Rank("SENT") # Rank("READ") /\ Rank("SENT") # Rank("FAILED")
  /\ Rank("DELIVERED") # Rank("READ") /\ Rank("DELIVERED") # Rank("FAILED") /\ Rank("READ") # Rank("FAILED")
  /\ Rank("SENT") <= Rank("SENT") /\ Rank("SENT") <= Rank("DELIVERED")
  /\ Rank("SENT") <= Rank("READ") /\ Rank("SENT") <= Rank("FAILED")
<1>1. 1 # 2 /\ 1 # 3 /\ 1 # 4 /\ 2 # 3 /\ 2 # 4 /\ 3 # 4
  OBVIOUS
<1>2. 1 <= 1 /\ 1 <= 2 /\ 1 <= 3 /\ 1 <= 4
  OBVIOUS
<1>3. QED
  BY <1>1, <1>2, RankIs, Zenon

LEMMA RanksDiffer ==
  ASSUME NEW s, s = "SENT" \/ s = "DELIVERED" \/ s = "READ" \/ s = "FAILED",
         NEW t, t = "SENT" \/ t = "DELIVERED" \/ t = "READ" \/ t = "FAILED"
  PROVE  /\ s # t => Rank(s) # Rank(t)
         /\ Rank("SENT") <= Rank(t)
BY RanksApart, Zenon

\* The same reports in another order, or some of them more often, leave a message
\* with the same status (ApplyStatus).
THEOREM OrderOfReportsDoesNotMatter ==
  ASSUME NEW a, Len(a) \in Nat, \A m \in 1..Len(a) : a[m] \in Reported,
         NEW b, Len(b) \in Nat, \A m \in 1..Len(b) : b[m] \in Reported,
         {a[m] : m \in 1..Len(a)} = {b[m] : m \in 1..Len(b)}
  PROVE  After(a).status = After(b).status
<1> DEFINE told(s) == {s[m] : m \in 1..Len(s)}
           ends(s, t) == /\ t \in {"SENT", "DELIVERED", "READ", "FAILED"}
                         /\ t = "SENT" \/ t \in told(s)
                         /\ Rank("SENT") <= Rank(t) /\ \A u \in told(s) : Rank(u) <= Rank(t)
<1>1. ASSUME NEW s, Len(s) \in Nat, \A m \in 1..Len(s) : s[m] \in Reported
      PROVE  ends(s, After(s).status)
  <2> DEFINE r == After(s)
  <2>1. Sums(s, Len(s), r)
    BY <1>1, StatusesAddUpAlways
  <2> HIDE DEF r
  <2>2. r.status \in {"SENT", "DELIVERED", "READ", "FAILED"}
    BY <2>1 DEF Sums, Rows
  <2>3. Rank("SENT") <= Rank(r.status)
    BY <2>2, RanksDiffer, Zenon
  <2>4. r.status = "SENT" \/ r.status \in told(s)
    BY <2>1 DEF Sums
  <2>5. \A u \in told(s) : Rank(u) <= Rank(r.status)
    BY <2>1 DEF Sums
  <2>6. QED
    BY <2>2, <2>3, <2>4, <2>5 DEF r
<1> DEFINE x == After(a).status
           y == After(b).status
<1>2. ends(a, x) /\ ends(b, y) /\ told(a) = told(b)
  BY <1>1
<1>3. x \in {"SENT", "DELIVERED", "READ", "FAILED"} /\ y \in {"SENT", "DELIVERED", "READ", "FAILED"}
  BY <1>2
<1>4. Rank(x) <= Rank(y) /\ Rank(y) <= Rank(x)
  <2> HIDE DEF x, y, told
  <2>1. QED
    BY <1>2, Zenon
<1>5. Rank(x) = Rank(y)
  <2>1. Rank(x) \in Nat /\ Rank(y) \in Nat
    <3>1. x \in Reported /\ y \in Reported
      BY <1>3 DEF Reported
    <3> HIDE DEF x, y
    <3>2. QED
      BY <3>1, RankTypes, Zenon
  <2> HIDE DEF x, y
  <2>2. QED
    BY <1>4, <2>1
<1>6. QED
  <2> HIDE DEF x, y
  <2>1. x = y
    BY <1>3, <1>5, RanksDiffer, Zenon
  <2>2. QED
    BY <2>1 DEF x, y
=============================================================================
