----------------------------- MODULE Reconciler -----------------------------
(***************************************************************************)
(* One contact's way through one campaign: how a trigger turns the          *)
(* campaign's steps into jobs (src/internal/campaigns/service.go, plan.go),  *)
(* how reconciliation keeps those jobs in line with steps that operators     *)
(* edit (reconcile.go), and what a restart, a STOP, the workers and the      *)
(* stale sweep do to the same rows meanwhile.                               *)
(*                                                                          *)
(* A pass of the reconciler reads the campaign with its steps, then the      *)
(* enrolment, and writes later, in a transaction that reads again only the   *)
(* jobs.  Several passes may be under way: the periodic one and those that   *)
(* follow an operator's edit.                                               *)
(***************************************************************************)
EXTENDS Integers, FiniteSetsExt

CONSTANTS
  Steps,         \* the steps a campaign may have, numbered by order_index
  Trigger,       \* those of kind ON_TRIGGER; the others are RELATIVE_TO_EVENT
  Greeting,      \* the ON_TRIGGER step that answers the trigger
  Daily,         \* those with include_in_daily_webinar
  MinJoined,     \* MinJoined[s]: the audience cutoff of a step
  Day,           \* ticks from one webinar of a series to the next
  Behaviours,    \* settings of existing_contact_behavior, among "RESTART", "CONTINUE"
  Policies,      \* settings of resume_policy, among "SEND_NEXT_VALID", "SKIP_EXPIRED"
  CatchUp,       \* catch_up_missed_steps
  TriggerDelay,  \* TRIGGER_GREETING_DELAY_MS
  Grace,         \* reconcileGrace, which is also the planner's default grace
  TTL,           \* STALE_JOB_TTL
  Initial,       \* the campaign as activated
  Events,        \* the event starts an operator may choose
  Series,        \* the settings of is_daily_recurring an operator may choose
  Offsets,       \* Offsets[s]: the offsets an operator may give a step
  Passes,        \* passes of the reconciler that may overlap
  MaxOffset,     \* the largest offset that step validation admits, either way
  MaxRuns,       \* bound: restarts stop here
  MaxClock,      \* bound: the clock stops here
  Horizon,       \* bound: contact and operator act until then
  Happens,       \* the kinds of events that happen
  Limit          \* bound: how many events happen

Kinds == {"trigger", "edit", "pause", "close", "consent", "fault"}
Runs == 1..MaxRuns

CampaignStatuses == {"ACTIVE", "PAUSED", "COMPLETED", "ARCHIVED"}
Campaigns == [status: CampaignStatuses, event: Int, recurring: BOOLEAN,
              steps: SUBSET Steps, enabled: SUBSET Steps,
              offset: [Steps -> (-MaxOffset)..MaxOffset]]

\* UNSUBSCRIBED and CANCELLED are both STOPPED.
Enrollments == [status: {"NONE", "ACTIVE", "COMPLETED", "STOPPED"},
                run: Runs, joined: Int, pinned: BOOLEAN, occurrence: Int]

\* SKIP is a CANCELLED row whose reason is one of the "skip:" codes.
Terminal == {"SENT", "FAILED", "CANCELLED", "SKIP"}
Rows == [st: Terminal \cup {"none", "PENDING", "PROCESSING"}, at: Int]

ASSUME ReconcilerAssumption ==
  /\ Steps \subseteq Nat /\ IsFiniteSet(Steps)
  /\ Trigger \subseteq Steps /\ Greeting \in Trigger /\ Daily \subseteq Steps
  /\ MinJoined \in [Steps -> Int]
  /\ Series \subseteq BOOLEAN /\ CatchUp \in BOOLEAN
  /\ Day \in Nat \ {0}
  /\ TriggerDelay \in Nat /\ Grace \in Nat /\ TTL \in Nat
  /\ Initial \in Campaigns
  /\ Events \subseteq Int
  /\ MaxOffset \in Nat /\ Offsets \in [Steps -> SUBSET ((-MaxOffset)..MaxOffset)]
  /\ MaxRuns \in Nat \ {0} /\ MaxClock \in Nat /\ Horizon \in Nat
  /\ Happens \subseteq Kinds /\ Limit \in Nat

VARIABLES
  clock,
  campaign,  \* the campaign's row and its steps' rows
  enrol,     \* the contact's row of campaign_contacts
  job,       \* job[r][s]: the row of scheduled_messages for step s in run r
  backoff,   \* the <<r, s>> whose next_attempt_at is ahead
  optedOut,  \* contact_instance_optouts has the contact, or blocked_at is set
  stopping,  \* the opt-out is written, the enrolment is still to be stopped
  pass,      \* pass[p]: what pass p has read
  spent      \* how many events have happened

vars == <<clock, campaign, enrol, job, backoff, optedOut, stopping, pass, spent>>

NoEnrollment == [status |-> "NONE", run |-> 1, joined |-> 0, pinned |-> FALSE, occurrence |-> 0]
NoPass == [phase |-> "idle", campaign |-> Initial, enrol |-> NoEnrollment, now |-> 0]

\* A terminal row's scheduled_at matters to the panel only.
Row(st) == [st |-> st, at |-> 0]
Pending(t) == [st |-> "PENDING", at |-> t]

TypeOK ==
  /\ clock \in Nat
  /\ campaign \in Campaigns
  /\ enrol \in Enrollments
  /\ job \in [Runs -> [Steps -> Rows]]
  /\ backoff \subseteq Runs \X Steps
  /\ optedOut \in BOOLEAN /\ stopping \in BOOLEAN
  /\ pass \in [Passes -> [phase: {"idle", "campaign", "enrolled", "repair"},
                          campaign: Campaigns, enrol: Enrollments, now: Nat]]
  /\ spent \in Nat

Init ==
  /\ clock = 0
  /\ campaign = Initial
  /\ enrol = NoEnrollment
  /\ job = [r \in Runs |-> [s \in Steps |-> Row("none")]]
  /\ backoff = {}
  /\ optedOut = FALSE /\ stopping = FALSE
  /\ pass = [p \in Passes |-> NoPass]
  /\ spent = 0

Spend(k) == k \in Happens /\ clock <= Horizon /\ spent < Limit /\ spent' = spent + 1

-----------------------------------------------------------------------------
(***************************************************************************)
(* When a step is due.                                                       *)
(***************************************************************************)
AtLeast(x, floor) == IF x < floor THEN floor ELSE x

\* A relative step is measured from the pinned webinar, else from the event.
EventAnchor(c, e) == IF e.pinned THEN e.occurrence ELSE c.event

EligibleFor(s, t) == t >= MinJoined[s]

\* How long a webinar keeps claiming arrivals: its largest offset.
StepTail(c) ==
  LET relative == {s \in c.steps \cap c.enabled : s \notin Trigger}
  IN  Max({0} \cup {c.offset[s] : s \in relative})

\* The first webinar of the series at or after t.
NextOccurrenceAfter(c, t) ==
  IF t <= c.event THEN c.event
  ELSE c.event + Day * ((t - c.event + Day - 1) \div Day)

OccurrenceFor(c, t) == NextOccurrenceAfter(c, t - StepTail(c))

\* The contact received part of the daily sequence in an earlier run.
DailySequenceConsumed(c, J, run) ==
  /\ c.recurring
  /\ \E r \in 1..(run - 1), s \in Daily \cap c.steps : J[r][s].st = "SENT"

Skip == [skip |-> TRUE, at |-> 0]
RunAt(t) == [skip |-> FALSE, at |-> t]

\* What reconciliation wants of step s: a time, or that it be skipped.
ResolveStep(c, e, J, s) ==
  IF \/ c.status \in {"COMPLETED", "ARCHIVED"}
     \/ s \in Daily /\ DailySequenceConsumed(c, J, e.run)
     \/ s \notin c.enabled
     \/ ~EligibleFor(s, e.joined)
  THEN Skip
  ELSE IF s \in Trigger THEN RunAt(e.joined + AtLeast(c.offset[s], TriggerDelay))
  ELSE RunAt(EventAnchor(c, e) + c.offset[s])

\* Mutant: the floor of a trigger delay is forgotten.
FirstPlanEager(c, e, J, s, at, now) ==
  IF \/ s \in Daily /\ DailySequenceConsumed(c, J, e.run)
     \/ s \notin c.enabled
     \/ ~EligibleFor(s, at)
  THEN Skip
  ELSE IF s \in Trigger THEN RunAt(AtLeast(at, now) + c.offset[s])
  ELSE RunAt(EventAnchor(c, e) + c.offset[s])

\* What the planner makes of it for a contact who wrote at time `at`, before catch-up.
FirstPlan(c, e, J, s, at, now) ==
  IF \/ s \in Daily /\ DailySequenceConsumed(c, J, e.run)
     \/ s \notin c.enabled
     \/ ~EligibleFor(s, at)
  THEN Skip
  ELSE IF s \in Trigger THEN RunAt(AtLeast(at, now) + AtLeast(c.offset[s], TriggerDelay))
  ELSE RunAt(EventAnchor(c, e) + c.offset[s])

Missed(c, e, J, at, now) ==
  {s \in c.steps \ Trigger :
      LET first == FirstPlan(c, e, J, s, at, now) IN ~first.skip /\ first.at < now - Grace}

\* Only the last missed step is caught up with, just after the greeting.
BuildPlan(c, e, J, s, at, now, catchUp) ==
  LET missed == Missed(c, e, J, at, now) IN
  IF s \notin missed THEN FirstPlan(c, e, J, s, at, now)
  ELSE IF catchUp /\ s = Max(missed)
       THEN RunAt(AtLeast(AtLeast(at, now) + TriggerDelay + 1, now))
       ELSE Skip

PlannedRow(want) == IF want.skip THEN Row("SKIP") ELSE Pending(want.at)

\* scheduleEnrollment: a row for every step that has none in this run.
Scheduled(c, e, J, at, now) ==
  [J EXCEPT ![e.run] = [s \in Steps |->
      IF s \in c.steps /\ J[e.run][s].st = "none"
      THEN PlannedRow(BuildPlan(c, e, J, s, at, now, CatchUp))
      ELSE J[e.run][s]]]

-----------------------------------------------------------------------------
(***************************************************************************)
(* Reconciliation, as a function of the campaign c, the enrolment e, the     *)
(* jobs J and the time now.                                                  *)
(***************************************************************************)
Applicable(want, now) == ~want.skip /\ want.at >= now - Grace

\* A terminal row is history, save a skip; a PROCESSING one is its worker's.
ReconciledRow(c, e, J, now, s) ==
  LET row == J[e.run][s]
      want == ResolveStep(c, e, J, s)
  IN  CASE row.st = "none" -> IF Applicable(want, now) THEN Pending(want.at) ELSE Row("SKIP")
        [] row.st = "SKIP" -> IF e.status = "ACTIVE" /\ Applicable(want, now)
                              THEN Pending(want.at) ELSE row
        [] row.st = "PENDING" -> PlannedRow(want)
        [] OTHER -> row

ReconciledJobs(c, e, J, now) ==
  [J EXCEPT ![e.run] = [s \in Steps |->
      IF s \in c.steps THEN ReconciledRow(c, e, J, now, s) ELSE J[e.run][s]]]

\* Mutant: only what was sent or skipped counts as finished.
FinishedNarrow(c, J, run) == \A s \in c.steps : J[run][s].st \in {"SENT", "SKIP"}

\* Every step has ended in a state the queue no longer acts on.
Finished(c, J, run) == \A s \in c.steps : J[run][s].st \in Terminal

\* settleEnrollment, after the jobs have become J.
SettledStatus(c, e, J) ==
  IF e.status = "ACTIVE" /\ Finished(c, J, e.run) THEN "COMPLETED"
  ELSE IF e.status = "COMPLETED" /\ ~Finished(c, J, e.run) THEN "ACTIVE"
  ELSE e.status

\* Mutant: a job whose step has moved goes unnoticed.
NeedsRepairUnmoved(c, e, J, now) ==
  /\ e.status \in {"ACTIVE", "COMPLETED"}
  /\ \/ \E s \in c.steps : J[e.run][s].st = "none"
     \/ \E s \in c.steps : J[e.run][s].st = "PENDING" /\ ResolveStep(c, e, J, s).skip
     \/ e.status = "ACTIVE" /\ Finished(c, J, e.run)
     \/ e.status = "COMPLETED" /\ ~Finished(c, J, e.run)

\* Mutant: a skip whose moment has passed asks for a transaction in every pass.
NeedsRepairEager(c, e, J, now) ==
  /\ e.status \in {"ACTIVE", "COMPLETED"}
  /\ \/ \E s \in c.steps :
           LET row == J[e.run][s]
               want == ResolveStep(c, e, J, s)
           IN  \/ row.st = "none"
               \/ row.st = "SKIP" /\ e.status = "ACTIVE" /\ ~want.skip
               \/ row.st = "PENDING" /\ (want.skip \/ row.at # want.at)
     \/ e.status = "ACTIVE" /\ Finished(c, J, e.run)
     \/ e.status = "COMPLETED" /\ ~Finished(c, J, e.run)

\* Whether a pass opens a transaction at all.
NeedsRepair(c, e, J, now) ==
  /\ e.status \in {"ACTIVE", "COMPLETED"}
  /\ \/ \E s \in c.steps :
           LET row == J[e.run][s]
               want == ResolveStep(c, e, J, s)
           IN  \/ row.st = "none"
               \/ row.st = "SKIP" /\ e.status = "ACTIVE" /\ Applicable(want, now)
               \/ row.st = "PENDING" /\ (want.skip \/ row.at # want.at)
     \/ e.status = "ACTIVE" /\ Finished(c, J, e.run)
     \/ e.status = "COMPLETED" /\ ~Finished(c, J, e.run)

-----------------------------------------------------------------------------
(***************************************************************************)
(* The passes.                                                               *)
(***************************************************************************)
Begin(p) ==
  /\ pass[p].phase = "idle"
  /\ campaign.status # "ARCHIVED"
  /\ pass' = [pass EXCEPT ![p] = [NoPass EXCEPT !.phase = "campaign", !.campaign = campaign]]
  /\ UNCHANGED <<clock, campaign, enrol, job, backoff, optedOut, stopping, spent>>

\* Mutant: a completed enrolment is out of reconciliation's sight.
ReadEnrollmentActive(p) ==
  /\ pass[p].phase = "campaign"
  /\ pass' = [pass EXCEPT ![p] =
       IF enrol.status = "ACTIVE" /\ ~optedOut
       THEN [@ EXCEPT !.phase = "enrolled", !.enrol = enrol, !.now = clock]
       ELSE NoPass]
  /\ UNCHANGED <<clock, campaign, enrol, job, backoff, optedOut, stopping, spent>>

\* EnrollmentsForReconcile: who left, or is blocked, is not listed.
ReadEnrollment(p) ==
  /\ pass[p].phase = "campaign"
  /\ pass' = [pass EXCEPT ![p] =
       IF enrol.status \in {"ACTIVE", "COMPLETED"} /\ ~optedOut
       THEN [@ EXCEPT !.phase = "enrolled", !.enrol = enrol, !.now = clock]
       ELSE NoPass]
  /\ UNCHANGED <<clock, campaign, enrol, job, backoff, optedOut, stopping, spent>>

\* The jobs are read without a lock, to tell whether a transaction is called for.
ReadJobs(p) ==
  /\ pass[p].phase = "enrolled"
  /\ pass' = [pass EXCEPT ![p] =
       IF NeedsRepair(@.campaign, @.enrol, job, @.now) THEN [@ EXCEPT !.phase = "repair"] ELSE NoPass]
  /\ UNCHANGED <<clock, campaign, enrol, job, backoff, optedOut, stopping, spent>>

\* The transaction reads the jobs again, but not the campaign and not the enrolment.
Repair(p) ==
  /\ pass[p].phase = "repair"
  /\ LET c == pass[p].campaign
         e == pass[p].enrol
         J == ReconciledJobs(c, e, job, pass[p].now)
         status == SettledStatus(c, e, J)
     IN  /\ job' = J
         /\ enrol' = IF status # e.status THEN [enrol EXCEPT !.status = status] ELSE enrol
         /\ backoff' = {x \in backoff : job[x[1]][x[2]].st = "PENDING"}
  /\ pass' = [pass EXCEPT ![p] = NoPass]
  /\ UNCHANGED <<clock, campaign, optedOut, stopping, spent>>

-----------------------------------------------------------------------------
(***************************************************************************)
(* The contact: triggers, STOP, and being subscribed again.                  *)
(***************************************************************************)
Jobs == Runs \X Steps

\* Mutant: the job in a worker's hands is cancelled with the rest.
CancelledAll(S) ==
  [r \in Runs |-> [s \in Steps |->
     IF <<r, s>> \in S /\ job[r][s].st \in {"PENDING", "PROCESSING"}
     THEN Row("CANCELLED") ELSE job[r][s]]]

\* UPDATE ... SET status = 'CANCELLED' WHERE status = 'PENDING', over the jobs S.
Cancelled(S) ==
  [r \in Runs |-> [s \in Steps |->
     IF <<r, s>> \in S /\ job[r][s].st = "PENDING" THEN Row("CANCELLED") ELSE job[r][s]]]

\* Schedules enrolment e over the jobs J, for a contact who wrote at time `at`.
Schedule(e, J, at) ==
  /\ enrol' = e
  /\ job' = Scheduled(campaign, e, J, at, clock)

Pin(e, at) ==
  IF campaign.recurring
  THEN [e EXCEPT !.pinned = TRUE, !.occurrence = OccurrenceFor(campaign, at)]
  ELSE [e EXCEPT !.pinned = FALSE, !.occurrence = 0]

\* enrolled_at is the database's clock at the statement that writes the row.
Enroll(at, joined) ==
  /\ enrol.status = "NONE"
  /\ Schedule(Pin([enrol EXCEPT !.status = "ACTIVE", !.joined = joined], at), job, at)

Restart(at, joined) ==
  /\ enrol.status # "NONE"
  /\ "RESTART" \in Behaviours
  /\ enrol.run < MaxRuns
  /\ Schedule(Pin([enrol EXCEPT !.status = "ACTIVE", !.run = @ + 1, !.joined = joined], at),
              Cancelled(Jobs), at)

Continue(at) ==
  /\ enrol.status # "NONE"
  /\ "CONTINUE" \in Behaviours
  /\ LET e == [enrol EXCEPT !.status = "ACTIVE"]
     IN  Schedule(IF campaign.recurring /\ ~e.pinned THEN Pin(e, at) ELSE e, job, at)

Arrive(at, joined) == Enroll(at, joined) \/ Restart(at, joined) \/ Continue(at)

\* The planner reads the clock last: it may have ticked since the provider saw the
\* message, and since the database wrote enrolled_at, in either order, as they are
\* clocks of two machines.
Instants == {clock - 1, clock}

HandleTrigger ==
  /\ campaign.status = "ACTIVE" /\ ~optedOut
  /\ Spend("trigger")
  /\ \E at, joined \in Instants : Arrive(at, joined)
  /\ UNCHANGED <<clock, campaign, backoff, optedOut, stopping, pass>>

\* A STOP, an unsubscription or a block: first the opt-out is written ...
OptOut ==
  /\ ~optedOut
  /\ Spend("consent")
  /\ optedOut' = TRUE /\ stopping' = TRUE
  /\ UNCHANGED <<clock, campaign, enrol, job, backoff, pass>>

\* ... then, in another transaction, the enrolment ends and its jobs with it.
StopForContact ==
  /\ stopping
  /\ stopping' = FALSE
  /\ enrol' = IF enrol.status = "ACTIVE" THEN [enrol EXCEPT !.status = "STOPPED"] ELSE enrol
  /\ job' = Cancelled(Jobs)
  /\ UNCHANGED <<clock, campaign, backoff, optedOut, pass, spent>>

Resubscribe ==
  /\ optedOut
  /\ Spend("consent")
  /\ optedOut' = FALSE
  /\ UNCHANGED <<clock, campaign, enrol, job, backoff, stopping, pass>>

-----------------------------------------------------------------------------
(***************************************************************************)
(* The operator.  Every edit is followed by a pass, which Begin starts.       *)
(* DeleteStep is not here: it cannot succeed (see StepDeletion).             *)
(***************************************************************************)
SaveStep(s, offset, on) ==
  /\ offset \in Offsets[s]
  /\ campaign' = [campaign EXCEPT !.steps = @ \cup {s},
                                  !.enabled = IF on THEN @ \cup {s} ELSE @ \ {s},
                                  !.offset[s] = offset]
  /\ UNCHANGED <<clock, enrol, job, backoff, optedOut, stopping, pass>>

AddStep(s) ==
  /\ s \notin campaign.steps
  /\ Spend("edit")
  /\ \E offset \in Offsets[s] : SaveStep(s, offset, TRUE)

UpdateStep(s) ==
  /\ s \in campaign.steps
  /\ Spend("edit")
  /\ \E offset \in Offsets[s], on \in BOOLEAN : SaveStep(s, offset, on)

\* RescheduleCampaign: the pending jobs of relative steps follow the event.
Rescheduled(event) ==
  [r \in Runs |-> [s \in Steps |->
     IF job[r][s].st = "PENDING" /\ s \notin Trigger
     THEN Pending(event + campaign.offset[s]) ELSE job[r][s]]]

\* RebaseFutureOccurrences: who still waits for the webinar follows the series.
Rebased(c) ==
  IF enrol.pinned /\ enrol.occurrence > clock /\ enrol.status \in {"ACTIVE", "COMPLETED"}
  THEN [enrol EXCEPT !.occurrence = OccurrenceFor(c, clock)]
  ELSE enrol

\* Update: the event, or the whole series, moves.
MoveEvent(event, recurring) ==
  /\ event # campaign.event \/ recurring # campaign.recurring
  /\ Spend("edit")
  /\ campaign' = [campaign EXCEPT !.event = event, !.recurring = recurring]
  /\ job' = IF campaign.recurring \/ recurring THEN job ELSE Rescheduled(event)
  /\ enrol' = IF recurring THEN Rebased(campaign') ELSE enrol
  /\ UNCHANGED <<clock, backoff, optedOut, stopping, pass>>

Overdue == {x \in Jobs : job[x[1]][x[2]].st = "PENDING" /\ job[x[1]][x[2]].at < clock - Grace}

\* PullForwardLatestExpired: the contact's most recent overdue jobs.
Latest == {x \in Overdue : \A y \in Overdue : job[y[1]][y[2]].at <= job[x[1]][x[2]].at}

\* The resume policy: the backlog goes, and one message of context may be kept.
SkipExpired ==
  /\ "SKIP_EXPIRED" \in Policies \/ Overdue = {}
  /\ job' = Cancelled(Overdue)
  /\ UNCHANGED backoff

SendNextValid ==
  /\ "SEND_NEXT_VALID" \in Policies
  /\ \E x \in Latest :
        /\ job' = [Cancelled(Overdue) EXCEPT ![x[1]][x[2]] = Pending(clock)]
        /\ backoff' = backoff \ {x}

SetStatus(status) == campaign' = [campaign EXCEPT !.status = status]

\* The status is set whatever it was, ARCHIVED included.
Pause ==
  /\ campaign.status # "PAUSED"
  /\ Spend("pause")
  /\ SetStatus("PAUSED")
  /\ UNCHANGED <<clock, enrol, job, backoff, optedOut, stopping, pass>>

\* A campaign without an enabled step is refused (Validate); an archived one needs one
\* of its triggers back first, which is the operator's to do.
Activate ==
  /\ campaign.status # "ACTIVE" /\ campaign.enabled # {}
  /\ SetStatus("ACTIVE")
  /\ IF campaign.status = "PAUSED" THEN SkipExpired \/ SendNextValid ELSE UNCHANGED <<job, backoff>>
  /\ UNCHANGED <<clock, enrol, optedOut, stopping, pass, spent>>

Close ==
  /\ campaign.status # "COMPLETED"
  /\ Spend("close")
  /\ SetStatus("COMPLETED")
  /\ UNCHANGED <<clock, enrol, job, backoff, optedOut, stopping, pass>>

Archive ==
  /\ campaign.status # "ARCHIVED"
  /\ Spend("close")
  /\ SetStatus("ARCHIVED")
  /\ job' = Cancelled(Jobs)
  /\ UNCHANGED <<clock, enrol, backoff, optedOut, stopping, pass>>

-----------------------------------------------------------------------------
(***************************************************************************)
(* The queue, in outline: Delivery has what happens inside.                  *)
(***************************************************************************)
Put(r, s, row) == job' = [job EXCEPT ![r][s] = row]

\* The contact's earliest due job, when none of theirs is in flight.
Claim(r, s) ==
  /\ job[r][s].st = "PENDING" /\ job[r][s].at <= clock /\ <<r, s>> \notin backoff
  /\ \A x \in Jobs :
        LET other == job[x[1]][x[2]] IN
        /\ other.st # "PROCESSING"
        /\ other.st = "PENDING" /\ x \notin backoff => job[r][s].at <= other.at
  /\ Put(r, s, [st |-> "PROCESSING", at |-> job[r][s].at])
  /\ UNCHANGED <<clock, campaign, enrol, backoff, optedOut, stopping, pass, spent>>

\* The rest of shouldSkip, after the step and its audience.
Refused(s) ==
  \/ enrol.status # "ACTIVE" /\ ~(s = Greeting /\ enrol.status = "COMPLETED")
  \/ optedOut
  \/ campaign.status \in {"COMPLETED", "ARCHIVED"}

Expired(r, s) == s # Greeting /\ clock >= job[r][s].at + TTL

Eligible(r, s) == s \in campaign.enabled /\ EligibleFor(s, enrol.joined)

\* Mutant: the reason of a cancellation is written where its status belongs.
DropReason(r, s) ==
  /\ \/ ~Eligible(r, s) \/ Refused(s)
     \/ campaign.status = "ACTIVE" /\ Expired(r, s)
  /\ Put(r, s, Row(IF s \in campaign.enabled /\ ~Eligible(r, s) THEN "SKIP" ELSE "expired"))
  /\ UNCHANGED <<backoff, spent>>

\* process(): what becomes of the job in hand.
Drop(r, s) ==
  /\ \/ ~Eligible(r, s) \/ Refused(s)
     \/ campaign.status = "ACTIVE" /\ Expired(r, s)
  /\ Put(r, s, Row(IF s \in campaign.enabled /\ ~Eligible(r, s) THEN "SKIP" ELSE "CANCELLED"))
  /\ UNCHANGED <<backoff, spent>>

Hold(r, s) ==
  /\ Eligible(r, s) /\ ~Refused(s) /\ campaign.status = "PAUSED"
  /\ Put(r, s, Pending(job[r][s].at))
  /\ backoff' = backoff \cup {<<r, s>>}
  /\ UNCHANGED spent

Send(r, s) ==
  /\ Eligible(r, s) /\ ~Refused(s) /\ campaign.status = "ACTIVE" /\ ~Expired(r, s)
  /\ \/ Put(r, s, Row("SENT")) /\ UNCHANGED <<backoff, spent>>
     \/ Put(r, s, Row("FAILED")) /\ Spend("fault") /\ UNCHANGED backoff
     \/ /\ Put(r, s, Pending(job[r][s].at))
        /\ backoff' = backoff \cup {<<r, s>>}
        /\ Spend("fault")

Settle(r, s) ==
  /\ job[r][s].st = "PROCESSING"
  /\ Drop(r, s) \/ Hold(r, s) \/ Send(r, s)
  /\ UNCHANGED <<clock, campaign, enrol, optedOut, stopping, pass>>

\* While the campaign is paused a job that comes back is only put off again.
EndBackoff(x) ==
  /\ x \in backoff /\ campaign.status # "PAUSED"
  /\ backoff' = backoff \ {x}
  /\ UNCHANGED <<clock, campaign, enrol, job, optedOut, stopping, pass, spent>>

Stale == {x \in Jobs : x[2] # Greeting /\ job[x[1]][x[2]].st = "PENDING"
                                       /\ job[x[1]][x[2]].at + TTL < clock}

CancelStale ==
  /\ Stale # {}
  /\ job' = Cancelled(Stale)
  /\ UNCHANGED <<clock, campaign, enrol, backoff, optedOut, stopping, pass, spent>>

Tick ==
  /\ clock < MaxClock
  /\ clock' = clock + 1
  /\ UNCHANGED <<campaign, enrol, job, backoff, optedOut, stopping, pass, spent>>

-----------------------------------------------------------------------------
PassStep(p) == Begin(p) \/ ReadEnrollment(p) \/ ReadJobs(p) \/ Repair(p)

Contact == HandleTrigger \/ OptOut \/ StopForContact \/ Resubscribe

Operator ==
  \/ \E s \in Steps : AddStep(s) \/ UpdateStep(s)
  \/ \E event \in Events, recurring \in Series : MoveEvent(event, recurring)
  \/ Pause \/ Activate \/ Close \/ Archive

Queue == (\E r \in Runs, s \in Steps : Claim(r, s) \/ Settle(r, s) \/ EndBackoff(<<r, s>>))
         \/ CancelStale

Next == (\E p \in Passes : PassStep(p)) \/ Contact \/ Operator \/ Queue \/ Tick

\* The periodic pass and the poll loops tick; a failed STOP is retried; time passes.
Fairness ==
  /\ \A p \in Passes : WF_vars(PassStep(p))
  /\ WF_vars(\E r \in Runs, s \in Steps : Claim(r, s))
  /\ WF_vars(\E r \in Runs, s \in Steps : Settle(r, s))
  /\ WF_vars(\E x \in Jobs : EndBackoff(x))
  /\ WF_vars(CancelStale)
  /\ WF_vars(StopForContact)
  /\ WF_vars(Tick)

Spec == Init /\ [][Next]_vars
FairSpec == Spec /\ Fairness

-----------------------------------------------------------------------------
(***************************************************************************)
(* Properties.                                                               *)
(***************************************************************************)
\* What is sent, failed or cancelled stays so, and a job in a worker's hands is
\* changed by that worker alone, whatever pass, edit, restart or STOP comes
\* (reconcile.go, the first three rules of ReconcileEnrollment).
OnlyLiveWorkMoves ==
  [][\A r \in Runs, s \in Steps :
        job'[r][s] # job[r][s] =>
           \/ job[r][s].st \in {"none", "SKIP", "PENDING"}
           \/ job[r][s].st = "PROCESSING" /\ Settle(r, s)]_vars

\* needsRepair mirrors the rules it stands for: whenever it lets a pass end without
\* a transaction, the transaction would have changed nothing.
SilenceIsRight ==
  enrol.status \in {"ACTIVE", "COMPLETED"} /\ ~NeedsRepair(campaign, enrol, job, clock) =>
     LET J == ReconciledJobs(campaign, enrol, job, clock) IN
     J = job /\ SettledStatus(campaign, enrol, J) = enrol.status

\* One pass over a contact who is still in the funnel is enough: a second one,
\* reading what the first has written, has nothing to repair.
OnePassIsEnough ==
  enrol.status = "ACTIVE" =>
     LET J == ReconciledJobs(campaign, enrol, job, clock)
         e == [enrol EXCEPT !.status = SettledStatus(campaign, enrol, J)]
     IN  ~NeedsRepair(campaign, e, J, clock)

\* What the first pass may make of a row that was planned for an arrival at `at`.
Adjusted(kept, planned, s, at, joined) ==
  \/ kept = planned
  \/ /\ EligibleFor(s, at) # EligibleFor(s, joined)
     /\ kept.st = IF EligibleFor(s, joined) THEN "PENDING" ELSE "SKIP"
  \/ /\ s \in Trigger
     /\ kept = [planned EXCEPT !.at = @ - (clock - joined)]
  \/ /\ CatchUp /\ s \notin Trigger
     /\ planned = Pending(clock + TriggerDelay + 1)
     /\ kept.st = "PENDING" /\ kept.at < clock - Grace

\* Planner and reconciler read three clocks: when the provider saw the trigger, when
\* the row was written, and when the plan was made.  Whichever way these fall, the
\* first pass after the plan, whenever it comes, leaves the rows the plan has written
\* as they are, but for three: a trigger step comes forward by the age of the
\* enrolment at the plan, what was caught up with returns to its past moment, and a
\* cutoff between the two arrivals is decided anew (BuildPlan and resolveStep, which
\* reconcile.go:97-99 wants never to disagree).
PlanStands ==
  [][\A at, joined \in Instants :
       campaign.status = "ACTIVE" /\ Arrive(at, joined) =>
         \A s \in campaign.steps, then \in clock..MaxClock :
           job[enrol'.run][s].st = "none" =>
             Adjusted(ReconciledRow(campaign, enrol', job', then, s),
                      job'[enrol'.run][s], s, at, enrol'.joined)]_vars

\* The queue says what the campaign says: every step has its row in this run, a
\* pending job has the step's time, and the enrolment is complete when all is over.
InAgreement ==
  enrol.status \in {"ACTIVE", "COMPLETED"} /\ ~optedOut /\ campaign.status # "ARCHIVED" =>
     /\ \A s \in campaign.steps :
           LET row == job[enrol.run][s]
               want == ResolveStep(campaign, enrol, job, s)
           IN  row.st # "none" /\ (row.st = "PENDING" => ~want.skip /\ row.at = want.at)
     /\ enrol.status = "COMPLETED" <=> Finished(campaign, job, enrol.run)

\* However edits, passes that read too early, restarts and workers interleave, the
\* queue converges on the campaign's definition once they end (main.go, reconcileLoop).
Converges == <>[]InAgreement

\* A contact does not stay in the funnel for ever: while the campaign is neither paused
\* nor archived, every enrolment is at some time not ACTIVE.
EnrollmentsClose ==
  <>[](campaign.status \in {"ACTIVE", "COMPLETED"} /\ ~optedOut) =>
     []<>(enrol.status # "ACTIVE")

\* Claimed, and not so: reconciliation never resurrects who unsubscribed
\* (reconcile.go:200-201); only a new trigger, which needs consent, takes them back.
NeverResurrected ==
  [][enrol.status = "STOPPED" /\ optedOut => enrol'.status # "ACTIVE"]_vars
=============================================================================
