------------------------- MODULE Reconciler_proofs -------------------------
(***************************************************************************)
(* Theorems about Reconciler, for any steps, offsets, policies and number of *)
(* passes and restarts.                                                      *)
(***************************************************************************)
EXTENDS Reconciler, WellFoundedInduction, TLAPS

-----------------------------------------------------------------------------
(***************************************************************************)
(* Type correctness.                                                         *)
(***************************************************************************)
Less == OpToRel(<, Nat)

\* A set of numbers with an upper bound has a maximum.
LEMMA MaxExists ==
  ASSUME NEW bound \in Int, NEW T \in SUBSET Int, T # {}, \A x \in T : x <= bound
  PROVE  Max(T) \in T
<1> DEFINE D == {bound - x : x \in T}
<1>1. D \subseteq Nat /\ D # {}
  <2>1. PICK x \in T : TRUE OBVIOUS
  <2>2. bound - x \in D OBVIOUS
  <2>3. \A y \in D : \E z \in T : y = bound - z OBVIOUS
  <2>4. \A z \in T : bound - z \in Nat OBVIOUS
  <2>5. QED BY <2>2, <2>3, <2>4
<1>2. PICK d \in D : \A y \in D : ~ (<<y, d>> \in Less)
  BY <1>1, NatLessThanWellFounded, WFMin DEF Less
<1>3. \A y \in D : ~ (y < d)
  <2>1. SUFFICES ASSUME NEW y \in D, y < d PROVE FALSE
    OBVIOUS
  <2>2. <<y, d>> \in Less
    BY <1>1, <2>1 DEF Less, OpToRel
  <2>3. QED BY <1>2, <2>2
<1>4. PICK x \in T : d = bound - x
  BY <1>2
<1>5. \A y \in T : x >= y
  <2>1. SUFFICES ASSUME NEW y \in T PROVE x >= y
    OBVIOUS
  <2>2. bound - y \in D
    OBVIOUS
  <2>3. ~ (bound - y < bound - x)
    BY <1>3, <1>4, <2>2
  <2>4. x \in Int /\ y \in Int
    OBVIOUS
  <2>5. QED
    <3> HIDE DEF D
    <3>1. QED BY <2>3, <2>4
<1>6. QED
  BY <1>4, <1>5 DEF Max

\* How long a webinar claims arrivals is a number.
LEMMA TailType ==
  ASSUME NEW c \in Campaigns
  PROVE  StepTail(c) \in Int
<1> DEFINE T == {0} \cup {c.offset[s] : s \in {s \in c.steps \cap c.enabled : s \notin Trigger}}
<1>1. MaxOffset \in Nat
  BY ReconcilerAssumption
<1>2. \A s \in c.steps : c.offset[s] \in (-MaxOffset)..MaxOffset
  BY DEF Campaigns
<1>3. T \in SUBSET Int /\ T # {} /\ \A x \in T : x <= MaxOffset
  <2>1. \A s \in c.steps : c.offset[s] \in Int /\ c.offset[s] <= MaxOffset
    BY <1>1, <1>2
  <2>2. QED BY <1>1, <2>1
<1>4. Max(T) \in T
  <2> HIDE DEF T
  <2>1. MaxOffset \in Int BY <1>1
  <2>2. QED BY <1>3, <2>1, MaxExists
<1>5. QED
  BY <1>3, <1>4 DEF StepTail

\* The webinar that arrivals are pinned to has a time.
LEMMA OccurrenceType ==
  ASSUME NEW c \in Campaigns, NEW t \in Int
  PROVE  OccurrenceFor(c, t) \in Int
<1>1. c.event \in Int /\ Day \in Nat \ {0} /\ t - StepTail(c) \in Int
  BY TailType, ReconcilerAssumption DEF Campaigns
<1>2. QED
  BY <1>1 DEF OccurrenceFor, NextOccurrenceAfter

JobTables == [Runs -> [Steps -> Rows]]
Wants == [skip: BOOLEAN, at: Int]

\* What reconciliation wants of a step is a time or a skip.
LEMMA ResolveType ==
  ASSUME NEW c \in Campaigns, NEW e \in Enrollments, NEW J, NEW s \in Steps
  PROVE  ResolveStep(c, e, J, s) \in Wants
<1>1. /\ c.offset[s] \in Int /\ c.event \in Int
      /\ e.joined \in Int /\ e.occurrence \in Int /\ TriggerDelay \in Int
  BY ReconcilerAssumption DEF Campaigns, Enrollments
<1>2. QED
  BY <1>1 DEF ResolveStep, Wants, Skip, RunAt, AtLeast, EventAnchor

\* What the planner wants of a step is a time or a skip.
LEMMA FirstPlanType ==
  ASSUME NEW c \in Campaigns, NEW e \in Enrollments, NEW J, NEW s \in Steps,
         NEW at \in Int, NEW now \in Int
  PROVE  BuildPlan(c, e, J, s, at, now, CatchUp) \in Wants
<1>1. /\ c.offset[s] \in Int /\ c.event \in Int
      /\ e.occurrence \in Int /\ TriggerDelay \in Int
  BY ReconcilerAssumption DEF Campaigns, Enrollments
<1>2. FirstPlan(c, e, J, s, at, now) \in Wants
  BY <1>1 DEF FirstPlan, Wants, Skip, RunAt, AtLeast, EventAnchor
<1>3. QED
  BY <1>1, <1>2 DEF BuildPlan, Wants, Skip, RunAt, AtLeast

\* The rows that are written are rows of the table.
LEMMA RowTypes ==
  /\ \A st \in Terminal \cup {"none"} : Row(st) \in Rows
  /\ \A t \in Int : Pending(t) \in Rows
  /\ \A want \in Wants : PlannedRow(want) \in Rows
BY DEF Row, Pending, PlannedRow, Rows, Terminal, Wants

\* Scheduling an enrolment leaves a table of jobs.
LEMMA ScheduledType ==
  ASSUME NEW e \in Enrollments, NEW J \in JobTables, NEW at \in Int, TypeOK
  PROVE  Scheduled(campaign, e, J, at, clock) \in JobTables
<1>1. \A s \in Steps : PlannedRow(BuildPlan(campaign, e, J, s, at, clock, CatchUp)) \in Rows
  BY FirstPlanType, RowTypes DEF TypeOK
<1>2. e.run \in Runs
  BY DEF Enrollments
<1>3. QED
  BY <1>1, <1>2 DEF Scheduled, JobTables

\* Reconciling an enrolment leaves a table of jobs.
LEMMA ReconciledType ==
  ASSUME NEW c \in Campaigns, NEW e \in Enrollments, NEW J \in JobTables, NEW now
  PROVE  ReconciledJobs(c, e, J, now) \in JobTables
<1>1. e.run \in Runs
  BY DEF Enrollments
<1>2. ASSUME NEW s \in Steps PROVE ReconciledRow(c, e, J, now, s) \in Rows
  <2>1. J[e.run][s] \in Rows
    BY <1>1 DEF JobTables
  <2>2. ResolveStep(c, e, J, s) \in Wants /\ ResolveStep(c, e, J, s).at \in Int
    BY ResolveType DEF Wants
  <2>3. QED
    BY <2>1, <2>2, RowTypes DEF ReconciledRow, Rows, Terminal
<1>3. QED
  BY <1>1, <1>2 DEF ReconciledJobs, JobTables

\* Cancelling pending jobs leaves a table of jobs.
LEMMA CancelledType ==
  ASSUME TypeOK, NEW S
  PROVE  Cancelled(S) \in JobTables
BY RowTypes DEF TypeOK, Cancelled, JobTables, Terminal

\* Pinning a webinar leaves an enrolment.
LEMMA PinType ==
  ASSUME TypeOK, NEW e \in Enrollments, NEW at \in Int
  PROVE  Pin(e, at) \in Enrollments
<1>1. OccurrenceFor(campaign, at) \in Int
  BY OccurrenceType DEF TypeOK
<1>2. ASSUME NEW o \in Int, NEW b \in BOOLEAN
      PROVE  [e EXCEPT !.pinned = b, !.occurrence = o] \in Enrollments
  BY DEF Enrollments
<1>3. 0 \in Int /\ TRUE \in BOOLEAN /\ FALSE \in BOOLEAN
  OBVIOUS
<1>4. QED
  BY <1>1, <1>2, <1>3, Zenon DEF Pin

\* Settling an enrolment gives it one of its statuses.
LEMMA StatusType ==
  ASSUME NEW e \in Enrollments, NEW st \in {"NONE", "ACTIVE", "COMPLETED", "STOPPED"}
  PROVE  [e EXCEPT !.status = st] \in Enrollments
BY DEF Enrollments

-----------------------------------------------------------------------------
(* One lemma per group of actions. *)
\* The steps of a pass keep the types.
LEMMA PassTypes ==
  ASSUME TypeOK, NEW p \in Passes, PassStep(p)
  PROVE  TypeOK'
<1> USE DEF TypeOK
<1>1. NoPass \in [phase: {"idle", "campaign", "enrolled", "repair"}, campaign: Campaigns,
                  enrol: Enrollments, now: Nat]
  BY ReconcilerAssumption DEF NoPass, NoEnrollment, Enrollments, Runs
<1>2. CASE Begin(p)
  BY <1>1, <1>2 DEF Begin
<1>3. CASE ReadEnrollment(p)
  BY <1>1, <1>3 DEF ReadEnrollment
<1>4. CASE ReadJobs(p)
  BY <1>1, <1>4 DEF ReadJobs
<1>5. CASE Repair(p)
  <2> DEFINE e == pass[p].enrol
             J == ReconciledJobs(pass[p].campaign, e, job, pass[p].now)
             status == SettledStatus(pass[p].campaign, e, J)
  <2>1. pass[p].campaign \in Campaigns /\ e \in Enrollments
    OBVIOUS
  <2>2. J \in JobTables
    BY <2>1, ReconciledType DEF JobTables
  <2>3. status \in {"NONE", "ACTIVE", "COMPLETED", "STOPPED"}
    BY <2>1 DEF SettledStatus, Enrollments
  <2>4. [enrol EXCEPT !.status = status] \in Enrollments
    BY <2>3, StatusType
  <2>5. job' \in JobTables /\ enrol' \in Enrollments /\ backoff' \subseteq Runs \X Steps
    <3> HIDE DEF J, status
    <3>1. /\ job' = J /\ backoff' \subseteq backoff
          /\ enrol' = IF status # e.status THEN [enrol EXCEPT !.status = status] ELSE enrol
      BY <1>5 DEF Repair, J, status
    <3>2. QED BY <2>2, <2>4, <3>1
  <2>6. QED
    BY <1>1, <1>5, <2>5 DEF Repair, JobTables
<1>6. QED
  BY <1>2, <1>3, <1>4, <1>5 DEF PassStep

\* The count of events stays a number.
LEMMA SpendType ==
  ASSUME TypeOK, NEW k, Spend(k)
  PROVE  spent' \in Nat
BY DEF TypeOK, Spend

\* Whatever a trigger does, it schedules a proper enrolment over the jobs left to it.
LEMMA TriggerSchedules ==
  ASSUME TypeOK, NEW at \in Int, NEW joined \in Int, Arrive(at, joined)
  PROVE  \E e \in Enrollments, J \in {job, Cancelled(Jobs)} :
            e.status = "ACTIVE" /\ Schedule(e, J, at)
<1>1. enrol \in Enrollments /\ clock \in Int
  BY DEF TypeOK
<1>2. ASSUME NEW e \in Enrollments, e.status = "ACTIVE"
      PROVE  Pin(e, at) \in Enrollments /\ Pin(e, at).status = "ACTIVE"
  BY <1>2, PinType DEF Pin, Enrollments
<1>3. ASSUME Enroll(at, joined)
      PROVE  \E e \in Enrollments : e.status = "ACTIVE" /\ Schedule(e, job, at)
  <2> DEFINE e == [enrol EXCEPT !.status = "ACTIVE", !.joined = joined]
  <2>1. e \in Enrollments /\ e.status = "ACTIVE"
    BY <1>1 DEF Enrollments
  <2>2. Schedule(Pin(e, at), job, at)
    BY <1>3 DEF Enroll
  <2> HIDE DEF e
  <2>3. QED BY <1>2, <2>1, <2>2
<1>4. ASSUME Restart(at, joined)
      PROVE  \E e \in Enrollments : e.status = "ACTIVE" /\ Schedule(e, Cancelled(Jobs), at)
  <2> DEFINE e == [enrol EXCEPT !.status = "ACTIVE", !.run = @ + 1, !.joined = joined]
  <2>1. enrol.run + 1 \in Runs
    BY <1>1, <1>4, ReconcilerAssumption DEF Enrollments, Restart, Runs
  <2>2. e \in Enrollments /\ e.status = "ACTIVE"
    BY <1>1, <2>1 DEF Enrollments
  <2>3. Schedule(Pin(e, at), Cancelled(Jobs), at)
    BY <1>4 DEF Restart
  <2> HIDE DEF e
  <2>4. QED BY <1>2, <2>2, <2>3
<1>5. ASSUME Continue(at)
      PROVE  \E e \in Enrollments : e.status = "ACTIVE" /\ Schedule(e, job, at)
  <2> DEFINE e == [enrol EXCEPT !.status = "ACTIVE"]
  <2>1. e \in Enrollments /\ e.status = "ACTIVE"
    BY <1>1 DEF Enrollments
  <2>2. Schedule(Pin(e, at), job, at) \/ Schedule(e, job, at)
    BY <1>5 DEF Continue
  <2> HIDE DEF e
  <2>3. QED BY <1>2, <2>1, <2>2
<1>6. QED
  BY <1>3, <1>4, <1>5 DEF Arrive

\* What the contact does keeps the types.
LEMMA ContactTypes ==
  ASSUME TypeOK, Contact
  PROVE  TypeOK'
<1>1. CASE HandleTrigger
  <2>1. PICK at \in Instants, joined \in Instants : Arrive(at, joined)
    BY <1>1 DEF HandleTrigger
  <2>2. at \in Int /\ joined \in Int
    BY <2>1 DEF Instants, TypeOK
  <2>3. PICK e \in Enrollments, J \in {job, Cancelled(Jobs)} : Schedule(e, J, at)
    BY <2>1, <2>2, TriggerSchedules
  <2>4. J \in JobTables
    BY <2>3, CancelledType DEF TypeOK, JobTables
  <2>5. enrol' \in Enrollments /\ job' \in JobTables
    BY <2>2, <2>3, <2>4, ScheduledType DEF Schedule
  <2>6. QED BY <1>1, <2>5, SpendType DEF HandleTrigger, JobTables, TypeOK
<1>2. CASE OptOut
  BY <1>2, SpendType DEF OptOut, TypeOK
<1>3. CASE StopForContact
  BY <1>3, StatusType, CancelledType DEF StopForContact, JobTables, TypeOK
<1>4. CASE Resubscribe
  BY <1>4, SpendType DEF Resubscribe, TypeOK
<1>5. QED
  BY <1>1, <1>2, <1>3, <1>4 DEF Contact

\* A saved step keeps the types.
LEMMA SaveStepTypes ==
  ASSUME TypeOK, NEW s \in Steps, NEW offset \in Offsets[s], NEW on \in BOOLEAN,
         SaveStep(s, offset, on), spent' \in Nat
  PROVE  TypeOK'
<1>1. offset \in (-MaxOffset)..MaxOffset
  BY ReconcilerAssumption
<1>2. campaign' \in Campaigns
  BY <1>1 DEF SaveStep, TypeOK, Campaigns
<1>3. QED
  BY <1>2 DEF SaveStep, TypeOK

\* What the operator does keeps the types.
LEMMA OperatorTypes ==
  ASSUME TypeOK, Operator
  PROVE  TypeOK'
<1>1. CASE \E s \in Steps : AddStep(s) \/ UpdateStep(s)
  BY <1>1, SpendType, SaveStepTypes DEF AddStep, UpdateStep
<1>2. ASSUME NEW event \in Events, NEW recurring \in Series, MoveEvent(event, recurring)
      PROVE  TypeOK'
  <2>1. event \in Int /\ recurring \in BOOLEAN
    BY ReconcilerAssumption
  <2>2. campaign' \in Campaigns
    BY <1>2, <2>1 DEF MoveEvent, TypeOK, Campaigns
  <2>3. Rescheduled(event) \in JobTables
    <3>1. \A s \in Steps : event + campaign.offset[s] \in Int
      BY <2>1 DEF TypeOK, Campaigns
    <3>2. QED BY <3>1, RowTypes DEF Rescheduled, TypeOK, JobTables
  <2>4. Rebased(campaign') \in Enrollments
    <3>1. OccurrenceFor(campaign', clock) \in Int
      BY <2>2, OccurrenceType DEF TypeOK
    <3>2. QED BY <3>1 DEF Rebased, TypeOK, Enrollments
  <2>5. QED
    BY <1>2, <2>2, <2>3, <2>4, SpendType DEF MoveEvent, TypeOK, JobTables
<1>3. ASSUME NEW st \in CampaignStatuses, SetStatus(st)
      PROVE  campaign' \in Campaigns
  BY <1>3 DEF SetStatus, TypeOK, Campaigns
<1>4. CASE Pause
  BY <1>3, <1>4, SpendType DEF Pause, TypeOK, CampaignStatuses
<1>5. CASE Activate
  <2>1. campaign' \in Campaigns
    BY <1>3, <1>5 DEF Activate, CampaignStatuses
  <2>2. job' \in JobTables /\ backoff' \subseteq Runs \X Steps
    <3>1. CASE SkipExpired
      BY <3>1, CancelledType DEF SkipExpired, TypeOK
    <3>2. CASE SendNextValid
      <4>1. Pending(clock) \in Rows
        BY RowTypes DEF TypeOK
      <4>2. PICK x : job' = [Cancelled(Overdue) EXCEPT ![x[1]][x[2]] = Pending(clock)]
                     /\ backoff' = backoff \ {x}
        BY <3>2 DEF SendNextValid
      <4>3. Cancelled(Overdue) \in JobTables
        BY CancelledType
      <4>4. QED BY <4>1, <4>2, <4>3 DEF TypeOK, JobTables
    <3>3. CASE UNCHANGED <<job, backoff>>
      BY <3>3 DEF TypeOK, JobTables
    <3>4. QED BY <1>5, <3>1, <3>2, <3>3 DEF Activate
  <2>3. QED BY <1>5, <2>1, <2>2 DEF Activate, TypeOK, JobTables
<1>6. CASE Close
  BY <1>3, <1>6, SpendType DEF Close, TypeOK, CampaignStatuses
<1>7. CASE Archive
  BY <1>3, <1>7, SpendType, CancelledType DEF Archive, TypeOK, CampaignStatuses, JobTables
<1>8. QED
  BY <1>1, <1>2, <1>4, <1>5, <1>6, <1>7 DEF Operator

\* One rewritten row leaves a table of jobs.
LEMMA PutType ==
  ASSUME TypeOK, NEW r \in Runs, NEW s \in Steps, NEW row \in Rows, Put(r, s, row)
  PROVE  job' \in JobTables
BY DEF TypeOK, Put, JobTables

\* What the queue does keeps the types.
LEMMA QueueTypes ==
  ASSUME TypeOK, Queue
  PROVE  TypeOK'
<1>1. ASSUME NEW r \in Runs, NEW s \in Steps
      PROVE  job[r][s].at \in Int /\ Pending(job[r][s].at) \in Rows
  BY RowTypes DEF TypeOK, Rows
<1>2. ASSUME NEW r \in Runs, NEW s \in Steps, Claim(r, s) PROVE TypeOK'
  <2>1. [st |-> "PROCESSING", at |-> job[r][s].at] \in Rows
    BY <1>1 DEF Rows
  <2>2. QED BY <1>2, <2>1, PutType DEF Claim, TypeOK, JobTables
<1>3. ASSUME NEW r \in Runs, NEW s \in Steps, Settle(r, s) PROVE TypeOK'
  <2>1. CASE Drop(r, s)
    BY <1>3, <2>1, RowTypes, PutType DEF Settle, Drop, TypeOK, JobTables, Terminal
  <2>2. CASE Hold(r, s)
    BY <1>1, <1>3, <2>2, PutType DEF Settle, Hold, TypeOK, JobTables
  <2>3. CASE Send(r, s)
    BY <1>1, <1>3, <2>3, RowTypes, PutType, SpendType
       DEF Settle, Send, TypeOK, JobTables, Terminal
  <2>4. QED BY <1>3, <2>1, <2>2, <2>3 DEF Settle
<1>4. ASSUME NEW x, EndBackoff(x) PROVE TypeOK'
  BY <1>4 DEF EndBackoff, TypeOK
<1>5. CASE CancelStale
  BY <1>5, CancelledType DEF CancelStale, TypeOK, JobTables
<1>6. QED
  BY <1>2, <1>3, <1>4, <1>5 DEF Queue

\* Every reachable state is made of values of the right kinds.
THEOREM TypeCorrect == Spec => []TypeOK
<1>1. Init => TypeOK
  <2>1. NoEnrollment \in Enrollments
    BY ReconcilerAssumption DEF NoEnrollment, Enrollments, Runs
  <2>2. NoPass \in [phase: {"idle", "campaign", "enrolled", "repair"}, campaign: Campaigns,
                    enrol: Enrollments, now: Nat]
    BY <2>1, ReconcilerAssumption DEF NoPass
  <2>3. Row("none") \in Rows
    BY RowTypes
  <2>4. Initial \in Campaigns
    BY ReconcilerAssumption
  <2>5. SUFFICES ASSUME Init PROVE TypeOK
    OBVIOUS
  <2>6. QED
    BY <2>1, <2>2, <2>3, <2>4, <2>5 DEF Init, TypeOK
<1>2. TypeOK /\ [Next]_vars => TypeOK'
  <2>1. ASSUME TypeOK, UNCHANGED vars PROVE TypeOK'
    BY <2>1 DEF TypeOK, vars
  <2>2. ASSUME TypeOK, Tick PROVE TypeOK'
    BY <2>2 DEF TypeOK, Tick
  <2>3. QED
    BY <2>1, <2>2, PassTypes, ContactTypes, OperatorTypes, QueueTypes DEF Next
<1>3. QED
  BY <1>1, <1>2, PTL DEF Spec

-----------------------------------------------------------------------------
(***************************************************************************)
(* History: what is sent, failed or cancelled, or in a worker's hands.        *)
(***************************************************************************)
\* From the jobs J to the jobs K only live rows have changed.
Keeps(J, K) ==
  \A r \in Runs, s \in Steps : K[r][s] # J[r][s] => J[r][s].st \in {"none", "SKIP", "PENDING"}

\* Two changes that touch live rows only, one after the other, touch live rows only.
LEMMA KeepsComposes ==
  ASSUME NEW J, NEW K, NEW L, Keeps(J, K), Keeps(K, L)
  PROVE  Keeps(J, L)
BY DEF Keeps

\* Cancelling touches live rows only.
LEMMA CancelledKeeps ==
  ASSUME NEW S
  PROVE  Keeps(job, Cancelled(S))
BY DEF Keeps, Cancelled

\* Scheduling touches live rows only.
LEMMA ScheduledKeeps ==
  ASSUME NEW c, NEW e \in Enrollments, NEW J \in JobTables, NEW at, NEW now
  PROVE  Keeps(J, Scheduled(c, e, J, at, now))
<1>1. e.run \in Runs
  BY DEF Enrollments
<1>2. QED
  BY <1>1 DEF Keeps, Scheduled, JobTables

\* Reconciling touches live rows only.
LEMMA ReconciledKeeps ==
  ASSUME NEW c, NEW e \in Enrollments, NEW J \in JobTables, NEW now
  PROVE  Keeps(J, ReconciledJobs(c, e, J, now))
<1>1. e.run \in Runs
  BY DEF Enrollments
<1>2. \A s : ReconciledRow(c, e, J, now, s) # J[e.run][s]
               => J[e.run][s].st \in {"none", "SKIP", "PENDING"}
  BY DEF ReconciledRow
<1>3. QED
  BY <1>1, <1>2 DEF Keeps, ReconciledJobs, JobTables

\* What the contact does touches live rows only.
LEMMA ContactKeeps ==
  ASSUME TypeOK, Contact
  PROVE  Keeps(job, job')
<1>1. CASE HandleTrigger
  <2>1. PICK at \in Instants, joined \in Instants : Arrive(at, joined)
    BY <1>1 DEF HandleTrigger
  <2>2. at \in Int /\ joined \in Int
    BY <2>1 DEF Instants, TypeOK
  <2>3. PICK e \in Enrollments, J \in {job, Cancelled(Jobs)} : Schedule(e, J, at)
    BY <2>1, <2>2, TriggerSchedules
  <2>4. J \in JobTables /\ Keeps(job, J)
    BY <2>3, CancelledType, CancelledKeeps DEF TypeOK, JobTables, Keeps
  <2>5. QED BY <2>3, <2>4, ScheduledKeeps, KeepsComposes DEF Schedule
<1>2. CASE OptOut \/ Resubscribe
  BY <1>2 DEF OptOut, Resubscribe, Keeps
<1>3. CASE StopForContact
  BY <1>3, CancelledKeeps DEF StopForContact
<1>4. QED
  BY <1>1, <1>2, <1>3 DEF Contact

\* A pass touches live rows only.
LEMMA PassKeeps ==
  ASSUME TypeOK, NEW p \in Passes, PassStep(p)
  PROVE  Keeps(job, job')
<1>1. CASE Begin(p) \/ ReadEnrollment(p) \/ ReadJobs(p)
  BY <1>1 DEF Begin, ReadEnrollment, ReadJobs, Keeps
<1>2. CASE Repair(p)
  <2>1. pass[p].enrol \in Enrollments /\ job \in JobTables
    BY DEF TypeOK, JobTables
  <2>2. job' = ReconciledJobs(pass[p].campaign, pass[p].enrol, job, pass[p].now)
    BY <1>2 DEF Repair
  <2>3. QED BY <2>1, <2>2, ReconciledKeeps DEF Keeps
<1>3. QED
  BY <1>1, <1>2 DEF PassStep

\* What the operator does touches live rows only.
LEMMA OperatorKeeps ==
  ASSUME TypeOK, Operator
  PROVE  Keeps(job, job')
<1>1. CASE \E s \in Steps : AddStep(s) \/ UpdateStep(s)
  BY <1>1 DEF AddStep, UpdateStep, SaveStep, Keeps
<1>2. CASE \E event \in Events, recurring \in Series : MoveEvent(event, recurring)
  BY <1>2 DEF MoveEvent, Rescheduled, Keeps
<1>3. CASE Pause \/ Close
  BY <1>3 DEF Pause, Close, Keeps
<1>4. CASE Archive
  BY <1>4, CancelledKeeps DEF Archive
<1>5. CASE Activate
  <2>1. CASE SkipExpired
    BY <2>1, CancelledKeeps DEF SkipExpired
  <2>2. CASE SendNextValid
    <3>1. PICK x \in Latest : job' = [Cancelled(Overdue) EXCEPT ![x[1]][x[2]] = Pending(clock)]
      BY <2>2 DEF SendNextValid
    <3>2. x \in Overdue /\ x[1] \in Runs /\ x[2] \in Steps /\ job[x[1]][x[2]].st = "PENDING"
      BY <3>1 DEF Latest, Overdue, Jobs
    <3>3. \A r \in Runs, s \in Steps : job'[r][s] # Cancelled(Overdue)[r][s] => r = x[1] /\ s = x[2]
      BY <3>1, <3>2, CancelledType DEF JobTables
    <3>4. QED BY <3>2, <3>3, CancelledKeeps DEF Keeps
  <2>3. CASE UNCHANGED <<job, backoff>>
    BY <2>3 DEF Keeps
  <2>4. QED BY <1>5, <2>1, <2>2, <2>3 DEF Activate
<1>6. QED
  BY <1>1, <1>2, <1>3, <1>4, <1>5 DEF Operator

\* Nothing but the worker's own verdict changes a job that is not live.
THEOREM HistoryStays == Spec => OnlyLiveWorkMoves
<1> DEFINE Moves == \A r \in Runs, s \in Steps :
                       job'[r][s] # job[r][s] =>
                          \/ job[r][s].st \in {"none", "SKIP", "PENDING"}
                          \/ job[r][s].st = "PROCESSING" /\ Settle(r, s)
<1>1. Keeps(job, job') => Moves
  BY DEF Keeps
<1>2. TypeOK /\ [Next]_vars => Moves
  <2>1. ASSUME TypeOK, NEW r \in Runs, NEW s \in Steps, Claim(r, s) PROVE Keeps(job, job')
    BY <2>1 DEF TypeOK, Claim, Put, Keeps
  <2>2. ASSUME TypeOK, NEW r \in Runs, NEW s \in Steps, Settle(r, s) PROVE Moves
    <3>1. job[r][s].st = "PROCESSING" /\ \E row : Put(r, s, row)
      BY <2>2 DEF Settle, Drop, Hold, Send
    <3>2. \A q \in Runs, t \in Steps : job'[q][t] # job[q][t] => q = r /\ t = s
      BY <2>2, <3>1 DEF TypeOK, Put
    <3>3. QED BY <2>2, <3>1, <3>2
  <2>3. ASSUME NEW x, EndBackoff(x) PROVE Keeps(job, job')
    BY <2>3 DEF EndBackoff, Keeps
  <2>4. ASSUME CancelStale PROVE Keeps(job, job')
    BY <2>4, CancelledKeeps DEF CancelStale
  <2>5. ASSUME Tick \/ UNCHANGED vars PROVE Keeps(job, job')
    BY <2>5 DEF Tick, vars, Keeps
  <2> HIDE DEF Moves
  <2>6. QED
    BY <1>1, <2>1, <2>2, <2>3, <2>4, <2>5, PassKeeps, ContactKeeps, OperatorKeeps
       DEF Next, Queue
<1>3. QED
  BY <1>2, TypeCorrect, PTL DEF Spec, OnlyLiveWorkMoves

-----------------------------------------------------------------------------
(***************************************************************************)
(* The reconciler's decisions.                                               *)
(***************************************************************************)
\* What is wanted of a step does not depend on the jobs of the run at hand, nor on
\* whether the enrolment is open.
LEMMA WantIsStable ==
  ASSUME NEW c, NEW e \in Enrollments, NEW f, NEW J, NEW K, NEW s,
         f.run = e.run, f.joined = e.joined,
         f.pinned = e.pinned, f.occurrence = e.occurrence,
         \A r \in Runs : r # e.run => K[r] = J[r]
  PROVE  ResolveStep(c, f, K, s) = ResolveStep(c, e, J, s)
<1>1. \A r \in 1..(e.run - 1) : r \in Runs /\ r # e.run
  BY ReconcilerAssumption DEF Enrollments, Runs
<1>2. DailySequenceConsumed(c, K, e.run) = DailySequenceConsumed(c, J, e.run)
  BY <1>1 DEF DailySequenceConsumed
<1>3. QED
  BY <1>2 DEF ResolveStep, EventAnchor

\* Where nothing needs repair, the transaction would have changed nothing.
LEMMA SilenceHolds ==
  ASSUME TypeOK
  PROVE  SilenceIsRight
<1> DEFINE J == ReconciledJobs(campaign, enrol, job, clock)
<1>1. SUFFICES ASSUME enrol.status \in {"ACTIVE", "COMPLETED"},
                      ~NeedsRepair(campaign, enrol, job, clock)
               PROVE  J = job /\ SettledStatus(campaign, enrol, J) = enrol.status
  BY DEF SilenceIsRight
<1>2. enrol.run \in Runs /\ job \in JobTables
  BY DEF TypeOK, Enrollments, JobTables
<1>3. ASSUME NEW s \in campaign.steps, s \in Steps
      PROVE  ReconciledRow(campaign, enrol, job, clock, s) = job[enrol.run][s]
  <2>1. job[enrol.run][s] \in Rows
    BY <1>2, <1>3 DEF JobTables
  <2>2. QED
    BY <1>1, <1>3, <2>1 DEF NeedsRepair, ReconciledRow, PlannedRow, Pending, Rows
<1>4. J = job
  BY <1>2, <1>3 DEF ReconciledJobs, JobTables
<1>5. QED
  BY <1>1, <1>4 DEF NeedsRepair, SettledStatus

\* A pass leaves nothing for the next one.
LEMMA OnePassHolds ==
  ASSUME TypeOK
  PROVE  OnePassIsEnough
<1> DEFINE J == ReconciledJobs(campaign, enrol, job, clock)
           st == SettledStatus(campaign, enrol, J)
           e == [enrol EXCEPT !.status = st]
<1>1. SUFFICES ASSUME enrol.status = "ACTIVE"
               PROVE  ~NeedsRepair(campaign, e, J, clock)
  BY DEF OnePassIsEnough
<1>2. enrol \in Enrollments /\ enrol.run \in Runs /\ job \in JobTables
      /\ campaign.steps \subseteq Steps
  BY DEF TypeOK, Enrollments, JobTables, Campaigns
<1>3. st = IF Finished(campaign, J, enrol.run) THEN "COMPLETED" ELSE "ACTIVE"
  BY <1>1 DEF SettledStatus
<1>4. /\ e.status = st /\ e.run = enrol.run /\ e.joined = enrol.joined
      /\ e.pinned = enrol.pinned /\ e.occurrence = enrol.occurrence
  BY <1>2 DEF Enrollments
<1>5. \A r \in Runs : r # enrol.run => J[r] = job[r]
  BY <1>2 DEF ReconciledJobs, JobTables
<1>6. \A s \in campaign.steps : J[enrol.run][s] = ReconciledRow(campaign, enrol, job, clock, s)
  BY <1>2 DEF ReconciledJobs, JobTables
<1> HIDE DEF J, st, e
<1>7. ASSUME NEW s \in campaign.steps
      PROVE  ResolveStep(campaign, e, J, s) = ResolveStep(campaign, enrol, job, s)
  BY <1>2, <1>4, <1>5, WantIsStable
<1>8. ASSUME NEW s \in campaign.steps
      PROVE  LET row == J[enrol.run][s]
                 want == ResolveStep(campaign, enrol, job, s)
             IN  /\ row.st # "none"
                 /\ ~(row.st = "SKIP" /\ Applicable(want, clock))
                 /\ row.st = "PENDING" => ~want.skip /\ row.at = want.at
  <2> DEFINE old == job[enrol.run][s]
             row == J[enrol.run][s]
             want == ResolveStep(campaign, enrol, job, s)
  <2>1. old \in Rows /\ want.skip \in BOOLEAN
    BY <1>2, <1>8, ResolveType DEF JobTables, TypeOK, Wants
  <2>2. row = ReconciledRow(campaign, enrol, job, clock, s)
    BY <1>6, <1>8
  <2>3. /\ old.st \in {"none", "SKIP"} =>
             \/ Applicable(want, clock) /\ row = Pending(want.at)
             \/ ~Applicable(want, clock) /\ row.st = "SKIP"
        /\ old.st = "PENDING" => row = PlannedRow(want)
        /\ old.st \notin {"none", "SKIP", "PENDING"} => row = old
    BY <1>1, <2>2 DEF ReconciledRow, Row
  <2> HIDE DEF old, row, want
  <2>4. QED
    BY <2>1, <2>3 DEF PlannedRow, Pending, Row, Applicable, old, row, want
<1>9. QED
  BY <1>3, <1>4, <1>7, <1>8 DEF NeedsRepair

\* In every reachable state needsRepair is as exact as its two promises say.
THEOREM RepairIsExact == Spec => [](SilenceIsRight /\ OnePassIsEnough)
<1>1. TypeOK => SilenceIsRight /\ OnePassIsEnough
  BY SilenceHolds, OnePassHolds
<1>2. QED
  BY <1>1, TypeCorrect, PTL

\* After any pass that repaired, a second finds nothing to do.
THEOREM OnePassSuffices == Spec => []OnePassIsEnough
BY RepairIsExact, PTL

\* What planner and reconciler see of an arrival, and the row each gives step s: the
\* plan is made at the clock, the pass comes at `then`.
Arrival(e, J, K, s, at, then) ==
  /\ e \in Enrollments /\ e.status = "ACTIVE"
  /\ J \in JobTables /\ K = Scheduled(campaign, e, J, at, clock)
  /\ s \in campaign.steps /\ J[e.run][s].st = "none"
  /\ at \in Int /\ at <= clock /\ then \in Int /\ then >= clock

\* The row that the plan writes, and what the pass wants of it.
LEMMA PlannedAndWanted ==
  ASSUME TypeOK, NEW e, NEW J, NEW K, NEW s, NEW at, NEW then,
         Arrival(e, J, K, s, at, then)
  PROVE  /\ K[e.run][s] = PlannedRow(BuildPlan(campaign, e, J, s, at, clock, CatchUp))
         /\ ResolveStep(campaign, e, K, s) = ResolveStep(campaign, e, J, s)
         /\ s \in Steps /\ e.run \in Runs
<1>1. e.run \in Runs /\ s \in Steps
  BY DEF Arrival, Enrollments, TypeOK, Campaigns
<1>2. K[e.run][s] = PlannedRow(BuildPlan(campaign, e, J, s, at, clock, CatchUp))
  BY <1>1 DEF Arrival, Scheduled, JobTables
<1>3. \A r \in Runs : r # e.run => K[r] = J[r]
  BY <1>1 DEF Arrival, Scheduled, JobTables
<1>4. ResolveStep(campaign, e, K, s) = ResolveStep(campaign, e, J, s)
  BY <1>3, WantIsStable DEF Arrival
<1>5. QED
  BY <1>1, <1>2, <1>4

\* What a pass makes of a row just planned, by what it wants.
LEMMA PassOverPlan ==
  ASSUME NEW c, NEW e, NEW K, NEW s, NEW then, e.status = "ACTIVE"
  PROVE  LET want == ResolveStep(c, e, K, s)
             kept == ReconciledRow(c, e, K, then, s)
             row == K[e.run][s]
         IN  /\ row.st = "PENDING" => kept = PlannedRow(want)
             /\ row.st = "SKIP" =>
                   kept = IF Applicable(want, then) THEN Pending(want.at) ELSE row
BY DEF ReconciledRow

\* What becomes of one row of a plan at the first pass.
LEMMA RowStands ==
  ASSUME TypeOK, campaign.status = "ACTIVE", NEW e, NEW J, NEW K, NEW s, NEW at, NEW then,
         Arrival(e, J, K, s, at, then)
  PROVE  Adjusted(ReconciledRow(campaign, e, K, then, s), K[e.run][s], s, at, e.joined)
<1> DEFINE first == FirstPlan(campaign, e, J, s, at, clock)
           plan == BuildPlan(campaign, e, J, s, at, clock, CatchUp)
           want == ResolveStep(campaign, e, J, s)
           kept == ReconciledRow(campaign, e, K, then, s)
           planned == K[e.run][s]
           missed == s \in Missed(campaign, e, J, at, clock)
           barred == \/ s \in Daily /\ DailySequenceConsumed(campaign, J, e.run)
                     \/ s \notin campaign.enabled
           delay == AtLeast(campaign.offset[s], TriggerDelay)
           moment == EventAnchor(campaign, e) + campaign.offset[s]
<1>1. /\ s \in Steps /\ e \in Enrollments /\ e.joined \in Int /\ e.status = "ACTIVE"
      /\ clock \in Int /\ Grace \in Nat /\ TriggerDelay \in Nat
      /\ delay \in Int /\ moment \in Int
  <2>1. s \in Steps /\ e \in Enrollments /\ campaign.offset[s] \in Int /\ campaign.event \in Int
    BY DEF Arrival, TypeOK, Campaigns
  <2>2. e.joined \in Int /\ e.occurrence \in Int /\ TriggerDelay \in Nat /\ Grace \in Nat
    BY <2>1, ReconcilerAssumption DEF Enrollments
  <2>3. QED BY <2>1, <2>2 DEF Arrival, TypeOK, AtLeast, EventAnchor
<1>2. planned = PlannedRow(plan) /\ ResolveStep(campaign, e, K, s) = want
  BY PlannedAndWanted
<1>3. /\ planned.st = "PENDING" => kept = PlannedRow(want)
      /\ planned.st = "SKIP" => kept = IF Applicable(want, then) THEN Pending(want.at) ELSE planned
  BY <1>1, <1>2, PassOverPlan
<1>4. AtLeast(at, clock) = clock
  BY <1>1 DEF Arrival, AtLeast
<1>5. want = IF barred \/ ~EligibleFor(s, e.joined) THEN Skip
             ELSE IF s \in Trigger THEN RunAt(e.joined + delay) ELSE RunAt(moment)
  BY DEF ResolveStep
<1>6. first = IF barred \/ ~EligibleFor(s, at) THEN Skip
              ELSE IF s \in Trigger THEN RunAt(clock + delay) ELSE RunAt(moment)
  BY <1>4 DEF FirstPlan
<1>7. missed <=> s \notin Trigger /\ ~first.skip /\ first.at < clock - Grace
  BY DEF Missed, Arrival
<1>8. \/ plan = first /\ ~missed
      \/ plan = Skip /\ missed
      \/ plan = RunAt(clock + TriggerDelay + 1) /\ missed /\ CatchUp
  <2>1. AtLeast(AtLeast(at, clock) + TriggerDelay + 1, clock) = clock + TriggerDelay + 1
    <3>1. AtLeast(clock + TriggerDelay + 1, clock) = clock + TriggerDelay + 1
      BY <1>1 DEF AtLeast
    <3>2. QED BY <1>4, <3>1
  <2>2. CASE ~missed
    BY <2>2 DEF BuildPlan
  <2>3. CASE missed
    BY <2>1, <2>3, Zenon DEF BuildPlan
  <2>4. QED BY <2>2, <2>3
<1>9. /\ PlannedRow(Skip) = Row("SKIP") /\ Row("SKIP").st = "SKIP"
      /\ Skip.skip /\ \A now : ~Applicable(Skip, now)
      /\ \A t : /\ PlannedRow(RunAt(t)) = Pending(t) /\ ~RunAt(t).skip /\ RunAt(t).at = t
               /\ Pending(t).st = "PENDING" /\ Pending(t).at = t
  BY DEF PlannedRow, Skip, RunAt, Row, Pending, Applicable
<1> HIDE DEF first, plan, want, kept, planned, missed, barred, delay, moment
<1>10. first = Skip => ~missed
  BY <1>7, <1>9
<1>11. CASE want = Skip
  <2>1. CASE planned.st = "SKIP"
    BY <1>3, <1>9, <1>11, <2>1 DEF Adjusted, kept, planned
  <2>2. CASE planned.st # "SKIP" /\ first = Skip
    BY <1>2, <1>8, <1>9, <1>10, <2>2
  <2>3. CASE planned.st # "SKIP" /\ first # Skip
    <3>1. plan # Skip
      BY <1>2, <1>9, <2>3
    <3>2. planned.st = "PENDING"
      BY <1>2, <1>6, <1>8, <1>9, <2>3, <3>1
    <3>3. kept.st = "SKIP"
      BY <1>3, <1>9, <1>11, <3>2
    <3>4. ~EligibleFor(s, e.joined) /\ EligibleFor(s, at)
      BY <1>5, <1>6, <1>9, <1>11, <2>3
    <3>5. QED BY <3>3, <3>4 DEF Adjusted, kept
  <2>4. QED BY <2>1, <2>2, <2>3
<1>12. CASE want # Skip /\ first = Skip
  <2>1. planned = Row("SKIP")
    BY <1>2, <1>8, <1>9, <1>10, <1>12
  <2>2. EligibleFor(s, e.joined) /\ ~EligibleFor(s, at)
    BY <1>5, <1>6, <1>9, <1>12
  <2>3. kept = planned \/ kept.st = "PENDING"
    BY <1>3, <1>9, <2>1 DEF Pending
  <2>4. QED BY <2>2, <2>3 DEF Adjusted, kept, planned
<1>13. CASE want # Skip /\ first # Skip /\ s \in Trigger
  <2>1. want = RunAt(e.joined + delay) /\ first = RunAt(clock + delay)
    BY <1>5, <1>6, <1>13
  <2>2. planned = Pending(clock + delay)
    BY <1>2, <1>7, <1>8, <1>9, <1>13, <2>1
  <2>3. kept = Pending(e.joined + delay)
    BY <1>3, <1>9, <2>1, <2>2
  <2>4. kept = [planned EXCEPT !.at = @ - (clock - e.joined)]
    <3>1. (clock + delay) - (clock - e.joined) = e.joined + delay
      BY <1>1
    <3>2. QED BY <2>2, <2>3, <3>1 DEF Pending
  <2>5. QED BY <1>13, <2>4 DEF Adjusted, kept, planned
<1>14. CASE want # Skip /\ first # Skip /\ s \notin Trigger
  <2>1. want = RunAt(moment) /\ first = RunAt(moment)
    BY <1>5, <1>6, <1>14
  <2>2. CASE ~missed
    <3>1. planned = Pending(moment)
      BY <1>2, <1>8, <1>9, <2>1, <2>2
    <3>2. QED BY <1>3, <1>9, <2>1, <3>1 DEF Adjusted, kept, planned
  <2>3. CASE missed /\ plan = Skip
    <3>1. moment < clock - Grace
      BY <1>7, <1>9, <2>1, <2>3
    <3>2. ~Applicable(want, then)
      <4>1. then \in Int /\ then >= clock
        BY DEF Arrival
      <4>2. ~(moment >= then - Grace)
        BY <1>1, <3>1, <4>1
      <4>3. QED BY <1>9, <2>1, <4>2 DEF Applicable
    <3>3. planned = Row("SKIP")
      BY <1>2, <1>9, <2>3
    <3>4. QED BY <1>3, <1>9, <3>2, <3>3 DEF Adjusted, kept, planned
  <2>4. CASE missed /\ plan = RunAt(clock + TriggerDelay + 1) /\ CatchUp
    <3>1. moment < clock - Grace
      BY <1>7, <1>9, <2>1, <2>4
    <3>2. planned = Pending(clock + TriggerDelay + 1)
      BY <1>2, <1>9, <2>4
    <3>3. kept = Pending(moment)
      BY <1>3, <1>9, <2>1, <3>2
    <3>4. kept.st = "PENDING" /\ kept.at < clock - Grace
      BY <1>9, <3>1, <3>3
    <3>5. QED BY <1>14, <2>4, <3>2, <3>4 DEF Adjusted, kept, planned
  <2>5. QED BY <1>8, <2>2, <2>3, <2>4
<1>15. QED
  BY <1>11, <1>12, <1>13, <1>14

\* Whatever the three clocks say of an arrival, and whenever the first pass comes, a
\* plan is changed by it in the three ways of Adjusted only.
THEOREM PlanOutlivesThePass == Spec => PlanStands
<1> DEFINE Body == \A at, joined \in Instants :
                     campaign.status = "ACTIVE" /\ Arrive(at, joined) =>
                       \A s \in campaign.steps, then \in clock..MaxClock :
                         job[enrol'.run][s].st = "none" =>
                           Adjusted(ReconciledRow(campaign, enrol', job', then, s),
                                    job'[enrol'.run][s], s, at, enrol'.joined)
<1>1. TypeOK => Body
  <2>1. SUFFICES ASSUME TypeOK, campaign.status = "ACTIVE",
                        NEW at \in Instants, NEW joined \in Instants, Arrive(at, joined),
                        NEW s \in campaign.steps, NEW then \in clock..MaxClock,
                        job[enrol'.run][s].st = "none"
                 PROVE  Adjusted(ReconciledRow(campaign, enrol', job', then, s),
                                 job'[enrol'.run][s], s, at, enrol'.joined)
    OBVIOUS
  <2>2. at \in Int /\ joined \in Int /\ at <= clock /\ then \in Int /\ then >= clock
    BY <2>1, ReconcilerAssumption DEF Instants, TypeOK
  <2>3. PICK e \in Enrollments, J \in {job, Cancelled(Jobs)} :
               e.status = "ACTIVE" /\ Schedule(e, J, at)
    BY <2>1, <2>2, TriggerSchedules
  <2>4. enrol' = e /\ job' = Scheduled(campaign, e, J, at, clock)
    BY <2>3 DEF Schedule
  <2>5. J \in JobTables /\ J[e.run][s].st = "none"
    <3>1. e.run \in Runs /\ s \in Steps
      BY <2>1, <2>3 DEF Enrollments, TypeOK, Campaigns
    <3>2. job[e.run][s].st = "none"
      BY <2>1, <2>4
    <3>3. CASE J = job
      BY <2>1, <3>2, <3>3 DEF TypeOK, JobTables
    <3>4. CASE J = Cancelled(Jobs)
      <4>1. Cancelled(Jobs)[e.run][s] = job[e.run][s]
        BY <3>1, <3>2 DEF Cancelled
      <4>2. Cancelled(Jobs) \in JobTables
        BY <2>1, CancelledType
      <4>3. QED BY <3>2, <3>4, <4>1, <4>2
    <3>5. QED BY <2>3, <3>3, <3>4
  <2>6. Arrival(e, J, job', s, at, then)
    BY <2>1, <2>2, <2>3, <2>4, <2>5 DEF Arrival
  <2>7. QED BY <2>1, <2>4, <2>6, RowStands
<1>2. QED
  BY <1>1, TypeCorrect, PTL DEF PlanStands
=============================================================================
