-------------------------------- MODULE Forms -------------------------------
(***************************************************************************)
(* What an operator types and what is kept of it: the campaign form           *)
(* (SaveInput.toCampaign, applyRecurrence), the step form (stepRequest.toInput, *)
(* StepInput.validate), the preview, and what the panel puts into a form it    *)
(* opens again.  Names, descriptions and links are left out; a date or a clock  *)
(* is typed or it is not.                                                     *)
(***************************************************************************)
EXTENDS Readiness, Wording

CONSTANTS
  Refused,        \* the form comes back with a message
  NoLimit,
  NoZone,         \* the zone of a cutoff, left blank
  Year,           \* bound of an offset
  TriggerDelay    \* config: the least delay after a trigger

ASSUME FormsAssumption == Year \in Nat /\ TriggerDelay \in Nat

\* timex.ParseInLocation: no clock is midnight.
Parse(day, clock, zone) == Date(zone, day * DayLength + (IF clock = NoTime THEN 0 ELSE clock))
Clock(zone, t) == Wall(zone, t) % DayLength

-----------------------------------------------------------------------------
\* Each word once, in its first spelling; none at all is the default.
UnsubscribeWords(typed) ==
  LET kept == Kept(typed, {i \in DOMAIN typed :
                /\ \E k \in DOMAIN typed[i] : ~Blank(typed[i][k])
                /\ \A j \in 1..(i - 1) : Normalize(typed[j]) # Normalize(typed[i])})
  IN IF kept = <<>> THEN <<<<"b", "a">>>> ELSE kept

\* A blank clock or start is that of the event, and a blank event is today.  (The
\* fallback to the campaign's own event is never reached: it comes of the same field.)
SeriesTyped(in, now) ==
  [enabled |-> TRUE, zone |-> in.zone,
   clock |-> IF in.seriesClock # NoTime THEN in.seriesClock ELSE in.clock,
   start |-> IF in.seriesDay # NoDay THEN in.seriesDay
             ELSE IF in.day # NoDay THEN in.day ELSE Day(in.zone, now)]

\* The settings of a series, and its first webinar as the campaign's event.
ApplyRecurrence(in, now) ==
  LET series == SeriesTyped(in, now) IN
  IF in.daily
  THEN [clock |-> series.clock, start |-> series.start, event |-> Parse(series.start, series.clock, in.zone)]
  ELSE [clock |-> NoTime, start |-> NoDay,
        event |-> IF in.day = NoDay THEN NoTime ELSE Parse(in.day, in.clock, in.zone)]

ToCampaign(in, now) ==
  LET series == ApplyRecurrence(in, now) IN
  IF \/ ~in.zone.known
     \/ in.limit # NoLimit /\ in.limit < 1
     \/ in.daily /\ ~Valid(SeriesTyped(in, now))
  THEN Refused
  ELSE [clock |-> series.clock, start |-> series.start, event |-> series.event,
        zone |-> in.zone, daily |-> in.daily, limit |-> in.limit,
        attempts |-> IF in.attempts \in 1..20 THEN in.attempts ELSE 5,
        words |-> UnsubscribeWords(in.words)]

\* The date and the time the edit form shows: in the zone of the panel.  21:00
\* stands in for an event there is not.
ShownDay(c, panel) == IF c.event = NoTime THEN NoDay ELSE Day(panel, c.event)
ShownClock(c, panel) == IF c.event = NoTime THEN DayLength - 1 ELSE Clock(panel, c.event)

\* What it sends when nothing was changed.
FormOf(c, panel) ==
  [zone |-> c.zone, daily |-> c.daily, limit |-> c.limit, attempts |-> c.attempts, words |-> c.words,
   day |-> ShownDay(c, panel), clock |-> ShownClock(c, panel),
   seriesClock |-> c.clock,
   seriesDay |-> IF c.daily THEN ShownDay(c, panel) ELSE NoDay]

RecurrenceChanged(before, after) ==
  \E setting \in {"daily", "clock", "start", "zone"} : before[setting] # after[setting]

SameInstant(a, b) == a = b

\* What saving sets in motion: jobs move, or people who wait are given another webinar.
Disturbs(before, after) ==
  \/ ~SameInstant(before.event, after.event) /\ after.event # NoTime /\ ~before.daily /\ ~after.daily
  \/ after.daily /\ RecurrenceChanged(before, after)

-----------------------------------------------------------------------------
Distance(anchor, at) == IF anchor = NoTime THEN Refused ELSE at - anchor

\* Mutant: the offset is counted from the day the series began.
OffsetFromTheFirst(c, now, day, clock) ==
  Distance(c.event, Parse(day, clock, c.zone))

\* The moment of a step is kept as its distance from the webinar that is coming.
OffsetTyped(c, now, day, clock) ==
  Distance(PreviewAnchor(c, now), Parse(day, clock, c.zone))

\* A step without a date has no cutoff; a blank zone is the campaign's, an unknown one
\* is not accepted.
Cutoff(c, day, clock, zone) ==
  LET named == IF zone = NoZone THEN c.zone ELSE zone
  IN CASE day = NoDay -> NoTime
       [] day # NoDay /\ ~named.known -> Refused
       [] OTHER -> Parse(day, clock, named)

ValidStep(kind, offset, filter, cutoff) ==
  /\ filter => cutoff # NoTime
  /\ offset \in -Year..Year
  /\ kind = "ON_TRIGGER" => offset >= 0

\* How long a webinar has work to do, and whose webinar a contact is given.
StepTail(steps) ==
  LET after == {0} \cup {steps[i].offset : i \in {i \in DOMAIN steps :
                           steps[i].enabled /\ steps[i].kind # "ON_TRIGGER"}}
  IN CHOOSE o \in after : \A other \in after : other <= o

WebinarFor(c, steps, at) == OccurrenceFor(RecurrenceOf(c), at, StepTail(steps))
EventAnchor(c, occurrence) == Either(occurrence, c.event)

-----------------------------------------------------------------------------
\* A row of the preview: when the step is shown to leave, and what it is sorted by.
PreviewRow(anchor, step) ==
  CASE step.kind = "ON_TRIGGER" ->
         [rank |-> 0, key |-> step.offset,
          shown |-> IF step.offset < TriggerDelay THEN TriggerDelay ELSE step.offset]
    [] step.kind # "ON_TRIGGER" /\ anchor # NoTime ->
         [rank |-> 1, key |-> anchor + step.offset, shown |-> anchor + step.offset]
    [] OTHER -> [rank |-> 2, key |-> step.order, shown |-> NoTime]

\* sort.SliceStable by rank, then key.
Above(row, i, j) ==
  \/ row[i].rank < row[j].rank
  \/ row[i].rank = row[j].rank /\ Precedes([k \in DOMAIN row |-> row[k].key], i, j)

Sorted(rows) ==
  CHOOSE order \in Surjection(DOMAIN rows, DOMAIN rows) :
    \A k, l \in DOMAIN rows : k < l => Above(rows, order[k], order[l])

Preview(steps, anchor) == Sorted([i \in DOMAIN steps |-> PreviewRow(anchor, steps[i])])
=============================================================================
