---------------------------- MODULE MC_Algorithms ---------------------------
(***************************************************************************)
(* The pure functions against what they are meant to compute, over small     *)
(* inputs: one step asks one question.                                        *)
(***************************************************************************)
EXTENDS Calendar, Readiness, Backoff, Notifications, Wording, Forms, TLC

CONSTANTS
  NoQuestion,
  Days,                             \* the days a series is followed over
  Reports, Letters, Words, Braces   \* bounds: the lengths of inputs

ASSUME DaysAssumption == Days \subseteq Int

VARIABLES topic, ask

Texts(alphabet, most) == UNION {[1..n -> alphabet] : n \in 0..most}

-----------------------------------------------------------------------------
Asking(about) == topic = about /\ ask = NoQuestion /\ topic' = topic

\* Zones that gain or lose an hour at some moment of the third day, or never do.
Zones == {z \in [known : {TRUE}, before : -2..2, after : -2..2, change : 16..24] :
             z.after - z.before \in -1..1}

AskCalendar ==
  Asking("calendar") /\ \E zone \in Zones, clock \in {0, 1, 7}, start \in {NoDay, 1, 3}, event \in {NoTime, 20},
     now \in 8..31, tail \in {-1, 1} :
       ask' = [now |-> now, tail |-> tail,
               campaign |-> [daily |-> TRUE, clock |-> clock, zone |-> zone, start |-> start, event |-> event]]

AskDelay ==
  Asking("delay") /\ \E base \in -1..9, max \in -1..20, n \in 0..20 :
     ask' = [base |-> base, max |-> max, n |-> n]

\* Reports of one message id from two accounts, each delivered any number of times.
Report == [type : {"outgoingMessageStatus"}, id : {1}, rest : {0},
           status : {"sent", "delivered", "read", "noaccount", "pending"}]

AskStatus ==
  Asking("status") /\ \E got \in Texts({"primary", "secondary"} \X Report, Reports) : ask' = [got |-> got]

Keywords == {Normalize(k) : k \in {<<"A", ":", "-", "b">>, <<"b">>, <<"a", " ", "tab", "b">>}}

AskRoute ==
  Asking("route") /\ \E s \in Texts({"a", "A", ":", "--", " ", "tab", "b"}, Letters), mode \in {"EXACT", "STARTS_WITH", "CONTAINS"},
     keyword \in Keywords :
       ask' = [text |-> s,
               triggers |-> {[campaign |-> 1, mode |-> mode, normalized |-> keyword, age |-> 1],
                             [campaign |-> 2, mode |-> "CONTAINS", normalized |-> <<"a">>, age |-> 2]}]

AskNumber ==
  Asking("number") /\ \E s \in Texts({"7", "0", "+", " "}, 5) : ask' = [text |-> s]

AskMatch ==
  Asking("match") /\ \E s \in Texts({"a", "b", " "}, Words), keyword \in Texts({"a", " "}, 3) :
     ask' = [text |-> s, keyword |-> keyword]

\* Who is written to has a name, perhaps a blank one or one that reads like a template.
Names == {<<"b", " ">>, <<" ">>, <<"{", "{", "a", "}", "}">>}

AskRender ==
  Asking("render") /\ \E s \in Texts({"{", "}", "a", " ", "newline"}, Braces), name \in Names :
     ask' = [text |-> s, name |-> name]

Step == [enabled : {TRUE}, faults : {{}}, kind : {"RELATIVE_TO_EVENT", "ON_TRIGGER"},
         offset : {-1, 0, 1}, order : {1, 2}]

Steps == {<<a, b, c>> : a \in Step, b \in Step, c \in Step}
            \cup {<<[a EXCEPT !.faults = f, !.enabled = e]>> : a \in Step, e \in BOOLEAN, f \in SUBSET {"template", "media", "archived"}}

AskReady ==
  Asking("ready") /\ \E steps \in Steps, daily \in BOOLEAN, event \in {NoTime, 20}, clock \in {NoTime, 4} :
     ask' = [now |-> 17,
             campaign |-> [steps |-> steps, daily |-> daily, event |-> event, clock |-> clock, start |-> NoDay,
                           zone |-> [known |-> TRUE, before |-> 1, after |-> 1, change |-> 0], triggers |-> 1,
                           behavior |-> "CONTINUE", special |-> "none", link |-> "unused"]]

\* A campaign is saved at `now`, a step is typed at once, and somebody writes later.
AskForm ==
  Asking("form") /\ \E zone \in {z \in Zones : z.change \in {17, 20} /\ (z.before # z.after \/ z.change = 17)},
     event \in {<<NoDay, NoTime>>, <<NoDay, 3>>, <<2, NoTime>>, <<1, 6>>, <<2, 0>>},
     series \in {<<FALSE, NoTime, NoDay>>, <<TRUE, NoTime, NoDay>>, <<TRUE, 5, NoDay>>, <<TRUE, 1, 3>>},
     step \in {2, 3} \X {NoTime, 2, 7}, tail \in {0, 4}, now \in {14, 19}, later \in {0, 3, 9} :
       ask' = [now |-> now, later |-> now + later, step |-> step, tail |-> tail,
               in |-> [zone |-> zone, day |-> event[1], clock |-> event[2], limit |-> NoLimit, attempts |-> 0,
                       daily |-> series[1], seriesClock |-> series[2], seriesDay |-> series[3], words |-> <<>>]]

AskSettings ==
  Asking("form") /\ \E attempts \in {0, 1, 20, 21}, limit \in {NoLimit, 0, 1}, words \in UNION {[1..n -> Texts({"a", "A", " "}, 2)] : n \in 0..2} :
     ask' = [now |-> 14, later |-> 14, step |-> <<2, 2>>, tail |-> 0,
             in |-> [zone |-> [known |-> TRUE, before |-> 1, after |-> 1, change |-> 0], day |-> 2, clock |-> 6,
                     limit |-> limit, attempts |-> attempts, words |-> words,
                     daily |-> FALSE, seriesClock |-> NoTime, seriesDay |-> NoDay]]

Init ==
  /\ topic \in {"calendar", "delay", "status", "route", "number", "match", "render", "ready", "form"}
  /\ ask = NoQuestion

Next ==
  \/ AskCalendar \/ AskDelay \/ AskStatus \/ AskRoute \/ AskNumber \/ AskMatch \/ AskRender \/ AskReady
  \/ AskForm \/ AskSettings

On(about) == topic = about /\ ask # NoQuestion

-----------------------------------------------------------------------------
(***************************************************************************)
(* Properties.                                                               *)
(***************************************************************************)
\* A contact is given the earliest webinar of the series that still claims who
\* arrives, across a change of the offset between any two days, as long as the
\* change moves no midnight and no webinar to another day (NextOccurrenceAfter,
\* whose loop says that two days are always enough).
CalendarIsExact ==
  On("calendar") =>
    LET r == RecurrenceOf(ask.campaign)  from == ask.now - (IF ask.tail > 0 THEN ask.tail ELSE 0) IN
    KeepsDays(r.zone, r.clock, Days) =>
       OccurrenceFor(r, ask.now, ask.tail) = NextInSeries(r, from, Days)

\* However often a reply has been tried, it waits no longer than the cap, at least
\* half of the base (or of a cap below it), and nominally no shorter than before:
\* the doubling never overflows (Policy.Delay).
DelaysAreSane ==
  On("delay") =>
    LET p == Default(ask.base, ask.max) IN
    /\ \A d \in Delay(p, ask.n) : d <= p.max /\ 2 * d + 1 >= Lesser(p.base, p.max)
    /\ Nominal(p, ask.n) <= Nominal(p, ask.n + 1)

\* Reports come in any order, repeatedly, and with ids that another account uses
\* too: a message ends in the furthest status reported of it, with a time of delivery
\* and of reading where its status tells of them, and delivered no later than read
\* (ParseWebhook, scopedDedupeKey, ApplyStatus).
Key(report) == ScopedDedupeKey(report[1], report[2])
Fresh(got) == {i \in DOMAIN got : \A j \in 1..(i - 1) : Key(got[j]) # Key(got[i])}

StatusesAddUp ==
  On("status") => \A account \in {"primary", "secondary"} :
    LET own == Kept(ask.got, {i \in Fresh(ask.got) : ask.got[i][1] = account})
        row == After([i \in DOMAIN own |-> Parsed(own[i][2]).status])
        told == {Parsed(ask.got[i][2]).status : i \in {i \in DOMAIN ask.got : ask.got[i][1] = account}}
    IN /\ \A s \in told \cup {"SENT"} : Rank(s) <= Rank(row.status)
       /\ row.status \in told \cup {"SENT"}
       /\ row.read # 0 => row.delivered \in 1..row.read
       /\ row.status \in {"DELIVERED", "READ"} => row.delivered # 0
       /\ row.status = "READ" => row.read # 0

\* Capitals, blanks, look-alikes and invisible characters do not change where a
\* message leads, to a campaign or out of it; but an invisible character between a
\* letter and its mark does.  Nor do the signs in a telephone number change whose
\* it is, and it is its chat's (Normalize, MatchTrigger, IsUnsubscribe, phone).
Route(triggers, s) ==
  IF IsUnsubscribe({<<"b">>, <<"B", "-", "b">>}, s) THEN "stop" ELSE ToString(MatchTrigger(triggers, s))

SpellingDoesNotMatter ==
  /\ On("number") =>
       /\ Phone(ChatID(ask.text)) = Phone(ask.text)
       /\ \A i \in 1..(Len(ask.text) + 1) : Phone(InsertAt(ask.text, i, "-")) = Phone(ask.text)
  /\ On("route") =>
    LET s == ask.text  way == Route(ask.triggers, s)  same(t) == Route(ask.triggers, t) = way IN
    /\ Normalize(Normalize(s)) = Normalize(s)
    /\ same([i \in DOMAIN s |-> FoldLookalike(FoldCase(s[i]))])
    /\ same(<<" ">> \o s \o <<"tab">>)
    /\ \A i \in DOMAIN s : /\ s[i] # ":" => same(InsertAt(s, i, "zwj"))
                           /\ Blank(s[i]) => same(InsertAt(s, i, "tab"))

\* CONTAINS finds a keyword exactly when it stands somewhere as whole words, also
\* where occurrences overlap (Matches).
MatchesWholeWords ==
  On("match") =>
    LET s == Normalize(ask.text)  kw == Normalize(ask.keyword) IN
    Matches(s, kw, "CONTAINS") <=>
       kw # <<>> /\ \E i \in DOMAIN s :
          /\ Occurs(kw, s, i)
          /\ i = 1 \/ ~WordRune(s[i - 1])
          /\ i + Len(kw) > Len(s) \/ ~WordRune(s[i + Len(kw)])

\* No placeholder of a template reaches a customer, whatever its key and the braces
\* around it, nor anything of the gap an empty value leaves: one that is left is of a
\* value that brought a brace, for a value is written as it is and never read, and
\* changes nothing of what becomes of the words around it (Render, tidy).
Contact(name) ==
  [values |-> [key \in {<<"a">>} |-> name], fallback |-> [key \in {<<"a">>, <<"a", "a">>} |-> <<"b">>]]

Holds(s, c) == \E i \in DOMAIN s : s[i] = c

\* A text with a value in every slot.
Slot == "*"
Piece(c, value) == IF c = Slot THEN value ELSE <<c>>

Written(s, value) ==
  LET from[n \in 1..(Len(s) + 1)] ==
        IF n = Len(s) + 1 THEN <<>> ELSE Piece(s[n], value) \o from[n + 1]
  IN from[1]

RenderIsClean ==
  On("render") =>
    LET contact == Contact(ask.name)
        out == Render(ask.text, contact)
    IN
    /\ ~Holds(ask.name, "{") =>
         ~\E i, j \in DOMAIN out : i < j /\ At(out, i, "{") /\ At(out, j, "}")
    /\ Replaced(ask.text, contact) =
         Written(Replaced(ask.text, Contact(<<Slot>>)), Lookup(<<"a">>, contact))
    /\ out # ask.text =>
         ~\E i \in DOMAIN out : At(out, i, " ") \/ (At(out, i, "newline") /\ At(out, i + 1, "newline"))

InOrder(steps, rows, timed) ==
  \A a, b \in DOMAIN rows : a < b /\ {rows[a], rows[b]} \subseteq timed =>
    /\ Precedes([i \in DOMAIN steps |-> steps[i].order], rows[a], rows[b])
    /\ steps[rows[a]].offset # steps[rows[b]].offset

\* The checklist looks at neighbours only, and still warns whenever any two steps
\* are sent against their order, or at one moment; and a campaign it lets pass has
\* a template and a moment for each step.  It has nothing to say of the order just
\* when the preview lists the steps as they are numbered, no two at one moment
\* (Validate, scheduleConflicts, sortPreview).
ChecklistIsComplete ==
  On("ready") =>
    LET c == ask.campaign  problems == Validate(c, ask.now)  anchor == PreviewAnchor(c, ask.now)
        pairs == {p \in Timed(c) \X Timed(c) : p[1] # p[2]}
        warned(field) == \E p \in problems : p.field = field
    IN /\ anchor # NoTime =>
            /\ warned("order") <=> \E p \in pairs :
                  /\ Precedes([i \in DOMAIN c.steps |-> c.steps[i].order], p[1], p[2])
                  /\ c.steps[p[2]].offset < c.steps[p[1]].offset
            /\ warned("moment") <=> \E p \in pairs : c.steps[p[1]].offset = c.steps[p[2]].offset
            /\ ~(warned("order") \/ warned("moment")) <=> InOrder(c.steps, Preview(c.steps, anchor), Timed(c))
       /\ Blocking(problems) = {} => \A i \in Enabled(c) :
             /\ c.steps[i].faults = {}
             /\ IF c.steps[i].kind = "ON_TRIGGER" THEN c.steps[i].offset >= 0 ELSE anchor # NoTime

SeriesIsKept(c, webinars) == c.daily => c.event = Earliest(webinars)

OpenedIsSaved(c, opened) == opened = c /\ ~Disturbs(c, opened)

CutoffIsKept(c, at) ==
  \A zone \in {NoZone, c.zone} : Cutoff(c, Day(c.zone, at), Clock(c.zone, at), zone) = at

\* A step is typed to leave at `typed` when the webinar shown begins at `anchor`.
StepIsKept(c, webinars, typed, anchor) ==
  LET step == [enabled |-> TRUE, kind |-> "RELATIVE_TO_EVENT", offset |-> OffsetTyped(c, ask.now, ask.step[1], ask.step[2])]
      other == [step EXCEPT !.offset = ask.tail]
      claims(t) == t >= ask.later - StepTail(<<step, other>>)
  IN step.offset # Refused /\ ValidStep(step.kind, step.offset, TRUE, typed) =>
       /\ (c.daily => ~\E t \in webinars : ask.now <= t /\ t < ask.later) =>
            PreviewRow(PreviewAnchor(c, ask.later), step).shown = typed
       /\ (c.daily => claims(anchor) /\ ~\E t \in webinars : t < anchor /\ claims(t)) =>
            EventAnchor(c, WebinarFor(c, <<step, other>>, ask.later)) + step.offset = typed

\* A series is saved with its first webinar as the event; a form that is opened and
\* saved again, in the campaign's zone, changes nothing and moves nobody, nor does
\* the cutoff of a step.  A moment typed for a step is the moment shown of it until
\* the next webinar begins, and the moment it leaves for whoever writes while that
\* webinar claims who arrives and no earlier one does (toCampaign, applyRecurrence,
\* toInput, Preview, occurrenceFor).
WhatIsTypedIsSent ==
  On("form") => \A c \in {ToCampaign(ask.in, ask.now)} :
    c # Refused /\ (c.daily => KeepsDays(c.zone, c.clock, Days)) =>
      /\ SeriesIsKept(c, Series(RecurrenceOf(c), Days))
      /\ OpenedIsSaved(c, ToCampaign(FormOf(c, c.zone), ask.later))
      /\ CutoffIsKept(c, Parse(ask.step[1], ask.step[2], c.zone))
      /\ StepIsKept(c, Series(RecurrenceOf(c), Days), Parse(ask.step[1], ask.step[2], c.zone), PreviewAnchor(c, ask.now))
=============================================================================
