# A verification of whatsapp-lead-bot

The program is a WhatsApp sales-funnel server: a Go process over one SQLite file.  A customer writes a
trigger phrase, is enrolled in a campaign, and from then on is owed a series of messages: an immediate
reply, then reminders before and after a webinar.  The server must deliver each of them once, in order, in
its window, and never to somebody who unsubscribed, over a provider that times out, a process that is
restarted and operators who press buttons at any moment.

This directory holds TLA+ modules of that system, TLC runs over small instances, and theorems checked by
TLAPS for every instance.  `PROJECT.json` lists the runs, the mutants that show each property can fail, the
map from definitions to source lines, the hazards, the findings and the theorems.  Paths below are relative
to `src/internal/` unless they say otherwise.

## 1. Inventory

| Component | State | Operations | Talks to |
|---|---|---|---|
| Job queue, `scheduler/repository.go`, `lease.go`, `receipt.go` | table `scheduled_messages`: status, `locked_at`, `attempt_count`, `next_attempt_at`, `scheduled_at` | claim, MarkSent, Defer, Retry, Fail, Cancel, ReconcileReceipt, Requeue, ReleaseStale, CancelStale, the pending sweeps; Enqueue, MovePending, ReviveSkipped, SkipPending, Reschedule* | called by workers, planner, panel, inbound |
| Workers, `scheduler/worker.go` | one job in hand per poll loop; a heartbeat goroutine per job | drain, process, retryOrFail, maintenanceLoop | queue, gate, campaigns (read) |
| Gate and router, `outbound/` | per account a slots channel and `nextFree` | Send: choose the account, take a slot, pace, deliver | workers, processors and the panel share them |
| Sender, `messaging/sender.go` | none of its own | Send | message rows, opt-outs, provider |
| Message rows, `conversations/repository.go` | table `messages` | Create, MarkSent, MarkFailed, SuccessfulOutbound, UncertainOutbound, ApplyStatus | sender, notifications |
| Provider client, `whatsapp/greenapi/` | the provider's queue of notifications, outside | send, receive and delete a notification, classify errors, parse | HTTP |
| Planner and reconciler, `campaigns/plan.go`, `reconcile.go` | table `campaign_contacts` | BuildPlan, enrol, reconcileEnrollment, settle, restart, stop | queue |
| Webinar calendar, `campaigns/recurrence.go`, `dailywebinar.go`, `pkg/timex` | none | NextOccurrenceAfter, OccurrenceFor, PreviewAnchor, parsing and showing local time | planner, forms |
| Campaign control, `campaigns/service.go`, `repository.go`, `validate.go` | tables `campaigns`, `campaign_steps`, `campaign_triggers` | save, activate with resume policy, pause, archive, delete, duplicate; steps, triggers; checklist, preview | queue, planner |
| Inbound events, `inbound/` | table `webhook_events` | poll, store, delete, claim in two lanes, process, retry | contacts, campaigns, rows, gate |
| Recovery, `inbound/recovery.go`, `messaging/recovery.go` | the same | by sweep, and by hand from the panel | inbound, queue |
| Templates, `templates/`, `pkg/render`, `pkg/textnorm` | tables of templates and their revisions | create, update, duplicate, delete, resolve, render; normalise and match words | workers, campaigns |
| Media, `media/` | table of media, files on disk | upload, convert, delete | templates |
| Contacts and opt-outs, `contacts/`, `pkg/phone` | tables `contacts`, `contact_instance_optouts` | upsert, OptOutOn, SetOptOut | sender, planner |
| Panel and API, `api/`, `web/` | none | every operation above that a person starts | all |
| The rest | `auth`, `instances`, `storage/sqlite`, `audit`, `analytics`, `exports`, `config`, `seed` | | |

Notifications reach the program by polling only: there is no HTTP endpoint for them, whatever the name of
their table.

**How they interact.**  Everything is shared through SQLite, whose writers are serialised: one statement
(or one explicit transaction) is atomic, and anything may happen between two of them.  Within a process the
poll loops (2 by default) share one `workerID` and a gate per account; each claimed job and each claimed
event has a heartbeat that renews its lease.  There is no lock on a contact: order and exclusion per contact
rest on the claim statement alone.  "Never twice" rests on the rows of `messages`, written before and after
the HTTP request, and on the gate's single slot; for inbound messages, on the unique key of the event, the
checkpoint inside the trigger's transaction, and the same rows again.

**What is hard.**  Two workers on one job, or two processors on one event, after a lapsed lease; crashes between
provider, receipt and verdict; answers lost on the way; STOP and operator actions while a message is in flight;
closing statements that do not look whose attempt they end; budgets that do not apply to an owed reply;
caps that are read early; passes that read without a lock and write later; time arithmetic decided in two
places; a pacing timeline whose places are reserved before the wait and never given back; requests of the
panel that check, and then write; local clocks; text.

**What makes each part correct** is what section 4 lists as properties, at the hazards of `PROJECT.json`.

## 2. Plan

| # | Modules | Say | State |
|---|---|---|---|
| 1 | `MessageLog`, `JobQueue`, `Delivery`, `Outbox` | the two tables, everything that runs over them, and what delivery promises | done, proved |
| 2 | `Reconciler` | enrolment, jobs by step, planner, passes, edits, STOP, restart | done, proved |
| 3 | `StepDeletion` | a statement on the pool inside a transaction | done |
| 4 | `EventTable`, `Inbound`, `InboundPromise` | notifications from the provider's queue to decision and reply, and the promise | done, proved |
| 5 | `Gate` | slots, timeline, cancellation, several accounts | done, proved |
| 6 | `Calendar`, `Forms`, `Readiness`, `Backoff`, `Notifications`, `Wording` | pure functions | done, proved |
| 7 | `Library`, `Authoring` | templates, media, campaigns, steps, words under concurrent requests | done, proved |
| 8 | proofs of 7: files under templates, one campaign per word, history of revisions | | done |
| 9 | proofs of OneInFlight and SentIsHistory where no lease lapses, of the budget, of NoLateCopies | | done |
| 10 | accounts and sessions (`auth`), the limit on active contacts, the audience switch | | left |

`*_proofs` hold the theorems of 1, 2, 4, 5, 6 and 7.

## 3. Modules

### Delivery

`MessageLog` - the outgoing rows of a job and the provider's side of each: `row[j][n]` is the n-th attempt's
status (the rows `Create` inserts, `MarkSent` and `MarkFailed` write; DELIVERED and READ count as SENT, as
`SuccessfulOutbound` counts them), `accepted[j]` the attempts whose copy reached the customer, which no table
knows.  `HasReceipt` and `InDoubt` are the two questions the sender asks.

`JobQueue` - the table of jobs; one operator per SQL statement, with that statement's WHERE as its guard.  The
asymmetry matters: `Cancel`, `ReconcileReceipt` and the sweeps look at the status they overwrite, `MarkSent`,
`Defer`, `Retry` and `Fail` do not (`scheduler/repository.go:469-518`).  `lease` is the age of `locked_at`
seen by `claim` and `ReleaseStale`: none, younger or older than LOCK_TIMEOUT.  `backoff` says that
`next_attempt_at` is ahead.  `attempts` saturates at `LargestBudget`, the larger of the two budgets it is
compared with: the campaign's, 1 to 20, and the 5 of a job that cannot be loaded (worker.go:234).

`Delivery` - one account's delivery path.  A worker is a program counter over `process()` and `Sender.Send`:

| `pc` | code |
|---|---|
| idle | `drain` - claims one job (`Claim`) |
| reconcile | `ReconcileReceipt` (worker.go:223) |
| load | `LoadContext`, shouldSkip, pause, window, cap, template, build (231-317) |
| gate | `Gate.Send` waiting for a slot |
| receipt, uncertain, consent, create | `Sender.Send` before the request (sender.go:119-212) |
| deliver | the HTTP request is on the wire |
| acked, rowfail | the row's SENT or FAILED is being written (214-237) |
| apply | `process()` writes the verdict (worker.go:319-351) |

`verdict` is what `process()` has decided, `tries` the attempt count the claim returned, `ctx` whether the
heartbeat has cancelled the job's context.  Around the workers: `Heartbeat`, `Lapse` and `ReleaseStale`,
`CancelStale`, `Crash` (each request on the wire got through or not), `OptOut` and `StopEnrollments` (two
transactions, as in `handleUnsubscribe`), `CancelJob`, `RequeueJob`, `AnswerByHand`, `Pause`, `Activate` (with
the resume policy SKIP_EXPIRED), `Close`.  `spent` counts disturbances by kind and `Limit` bounds them: it is
the only thing that keeps faults finite.  `late` is a history variable.

`Outbox` - the abstract specification: attempts are opened one at a time, each only when all earlier ones are
written off; copies appear under open attempts only; an acknowledged message is closed for ever.  `Delivery`
implements it with the identity mapping on `row` and `accepted`; everything else is hidden.

### Planner

`Reconciler` - one contact in one campaign, seen from the planner's side.  `campaign` is the campaign's row with
its steps, `enrol` the row of `campaign_contacts`, `job[r][s]` the row of `scheduled_messages` that the unique
key (enrolment, step, run) allows.  A row's `st` is its status; SKIP is CANCELLED with a `skip:` reason, which
is what `ReviveSkipped` asks for, and `backoff` holds the rows whose `next_attempt_at` is ahead.

| Action | Code |
|---|---|
| `HandleTrigger` (`Enroll`, `Restart`, `Continue`) | `handleTrigger` and `applyExistingBehavior`: one transaction that reads the campaign afresh, pins the webinar, runs `BuildPlan` and inserts the rows that are not there |
| `Begin`, `ReadEnrollment`, `ReadJobs`, `Repair` | `ReconcileCampaign`: campaign and steps, then the enrolment, then its jobs, each read without a lock; `needsRepair`; then the transaction, which reads the jobs again and nothing else |
| `OptOut`, `StopForContact` | the two transactions of an unsubscription |
| `AddStep`, `UpdateStep`, `MoveEvent` | the edits; the pass that follows each is one of `Passes`, which may start at any time |
| `Pause`, `Activate`, `Close`, `Archive` | campaign control; `Activate` runs the resume policy |
| `Claim`, `Settle`, `EndBackoff`, `CancelStale` | the queue in outline: what `process()` decides of a claimed job |

`ResolveStep` is the reconciler's idea of a step's time, `FirstPlan` and `BuildPlan` the planner's.  They are
two definitions here because they are two functions there.  They also read different clocks: the provider's timestamp of
the trigger (`at`), the database's `now()` in the statement that writes `enrolled_at` (`joined`) and the planner's own
`time.Now()` (`clock`), the last of the three.  `Instants` lets the first two lie before the third or not.  `PlanStands`
says what the first pass makes of a plan, and `Adjusted` names the three cases in which it is not left as it was.

`StepDeletion` - `InTx` over the connection pool, for the one transaction of `DeleteStep`: who holds how many
connections, who holds SQLite's write lock, and which statement goes through which.  `AddStep` and `UpdateStep`
pass their transaction to every call; `DeleteStep` does not, hence the module, and hence no deletion of a step
in `Reconciler` or `Authoring`.

### Inbound

`EventTable` - the table of notifications: status, attempts, lease, whether it is due, the class of the last
error and the checkpoint (`result`: what was decided, and the greeting's job).  Its operators are the
statements of `inbound/repository.go`: Insert under the unique key, the two lanes of `Claim`, `MarkProcessed`,
`Requeue`, `Defer`, `ReleaseStale`, and the revival by a recovery.

`Inbound` - one account and one contact over it.  The provider's queue is `kind`, `arrived` and `deleted`; the
poller stores a notification (`Ingest`) and then deletes it (`Acknowledge`), which may fail or never come.
A processor is a program counter:

| `pc` | code (`inbound/processor.go`, `campaigns/service.go`) |
|---|---|
| idle | `Claim` from the live or the ready lane |
| start | the incoming row, or the echo of an answer, is recorded (`Record`, `Echo`) |
| optout, stop | `handleUnsubscribe`: the opt-out, then the enrolments and their jobs |
| match | the campaign the word leads to, read outside the transaction |
| decide | `HandleTriggerEvent`: checkpoint, consent, enrolment, restart, in one transaction |
| complete | `completeTriggerReply` looks at the greeting's job |
| gate, check, create, deliver, acked, rowfail | the courtesy reply through gate and sender, as in `Delivery` |
| finish | `handle()` closes, defers or fails the event |

A copy of a reply is a pair of its message and its row; the provider's id of it is told by its echo, and the echo is
looked up by that id (processor.go:651), so an echo is about a copy and `row` says whether its id is stored.
Around them: `Lapse`, `ReleaseStale`, `Heartbeat`, `RecoverRetryable` (the sweep), `Examine` and `Requeue` (the
recovery by hand, which reads before it writes), `Pause` and `Activate`, answers from the phone, `Age` (a
message becomes historical) and `Crash`.  The greeting's job is `ClaimGreeting` and `SettleGreeting`, in outline.

`InboundPromise` - what the path promises: one decision per message, a run of the funnel only by a decision to
enrol or restart, a courtesy reply only to a message decided so and a second copy only after a lost
acknowledgement.  `Inbound` implements it; the mapping reads the decision from the event's checkpoint.

### Gate

`Gate` - the router's choice of an account and, per account, `Gate.Send`: `Call`, `TakeSlot`, `ReadClock` (before
the lock), `Reserve` (under it), `Start` (the wait is over), `Return`, and `Cancel` at any of the waits.  A timer
may fire late and a caller be held up between any two steps.  `starts` and `lost` are history.

### Panel

`Library` - media and templates: rows, files, live content and revisions, and what their foreign keys do.
`Authoring` - the panel's requests over them and over campaigns, steps and trigger words.  A request that reads,
decides and then writes is a program counter with what it read (`ValidateTemplate` and `SaveTemplate`,
`CountUses` and `DeleteTemplate`, `CheckReadiness` and `Activate`, `ReadForCopy` and `Copy`, the three steps of an
upload and of a deletion); one that is one transaction is one action.  `Abandon` cuts any of them off.  `Enrol`,
`Reconcile` and `Send` are the queue as it sees templates: which revision a job records and which one it is
built from.

### Pure functions

`Calendar` - time zones with one change of offset, `time.Date` as Go computes it, and the next webinar.
`Forms` - what the campaign form, the step form and the preview make of a typed date and time, and what the
panel puts into a form it opens again.  `Readiness` - the checklist.  `Backoff` - the delay, with the width of
`time.Duration`.  `Notifications` - what a notification is told apart by, and `ApplyStatus`.  `Wording` -
normalisation, matching, routing, telephone numbers, templates, over an alphabet with one character of each
sort the code tells apart.  `MC_Algorithms` asks them one question per step and compares them with what they are
meant to compute.

### Abstractions

One account and one campaign in `Delivery`, `Reconciler` and `Inbound` (accounts share nothing but the process
and the gates' router, which `Gate` has; jobs of other campaigns of the account differ only in their settings).
In `Delivery` time is a counter of a few ticks against `scheduled_at`, TTL and grace, plus the three-valued lease
and the flag `backoff`; the hour of the sending cap outlasts the run; rendering, media and templates are the outcome
of `Misconfigured`; a step that is disabled or whose audience excludes the contact is one more reason of its
cancel.  SEND_NEXT_VALID, which moves one overdue job to now before the same sweep, is in `Reconciler` only.

In `Reconciler` a tick is a unit of every duration (delay, grace, TTL, offset, day).  A campaign has an event, so
an absent anchor does not occur; days are equally long (`Calendar` has the others).  The campaign's row and its
steps are read by two statements in a row, here by one.  Terminal rows forget their time and `attempt_count` is
left to `Delivery`, so a failure is final at any time.  Not there: drafts, SPECIAL_MESSAGE and IGNORE (in
`Inbound`), the limit on active contacts, sending caps, the lapse of leases.

In `Inbound` a message is its number in order of arrival; `answer` keeps, for each way of answering, the last message
an answer came after, which is all that `answeredSince` compares.  In `Authoring` names, kinds of message,
schedules and audiences are left out, one contact per campaign stands for all, and a reconciliation after an edit
is one of `Reconcile`'s steps, because it runs after the edit has committed and may fail.

## 4. Runs

| Run | Instance | Shows |
|---|---|---|
| core | 2 workers, 1 contact, a reply (job 1) and a reminder (job 2), 4 rows each, budget 2 and 1 of loading, cap out of reach; any three (`Together`) of one failed statement, lost acknowledgement, refusal, crash and STOP and two outages, fair | types, turn, owed reply, budget; history stays; Outbox is implemented; every job settles |
| cap | 2 workers, 2 contacts, 5 jobs, cap 1, one failed statement or one crash or neither | how far the cap is overrun |
| interference | as core with 2 rows each and budget 3 of loading; a lease lapsing under a live worker, two operator actions, STOP | no second copy, SENT over receipts, no late copies |
| reconcile | 3 steps (a greeting, one webinar step, a third to be added), events at 0 and 2, one-off and daily series, 1 pass, 2 runs, any 3 happenings until clock 1, a trigger timed now or a tick ago by each of two clocks, clock to 2, fair | the planner's invariants; history and plans stand; the queue converges; enrolments close |
| inbound | 2 processors, 2 messages, 3 rows each, 2 attempts, SPECIAL_MESSAGE, one disturbance of eleven kinds and a recovery by hand | types; STOP is complete; closed means answered; InboundPromise is implemented |
| inbound_live | 1 processor, RESTART, CONTINUE and SPECIAL_MESSAGE, 3 runs, one failed statement, outage, refusal or crash, fair | every notification is dealt with for good |
| gate | account 1: one slot, a pace of 1 to 2 ticks, its provider answers; account 2: two slots, pace 1, its provider may hang; 3 callers, 4 calls, fair | pace, backlog, and that account 1 flows |
| authoring | 2 requests at once, 4 edits, 3 files, 2 each of templates, campaigns, steps and triggers, one account and one word | files under templates and queue, histories, one campaign per word |
| algorithms | one question per step: 266,000 of them | the pure functions compute what they are meant to |
| cancel, stale, delete | minimal instances with the disturbances they need | what the repository says of itself and the code does not do; see the findings |

**Bounds.**  Two workers are the default and the least number that can race; two jobs of one contact are the least
that can get out of order, and one of each kind reaches both policies.  Four rows are budget 2 plus the attempts
that a crash and a failed statement leave uncounted; in `interference` two rows are the second copy and no more is
needed, because an attempt there fails only by being left in doubt.  The clock's two ticks pass `scheduled_at`,
TTL and grace.  One disturbance of each kind, and three in all, keep their product in reach; more are
covered by the theorems, which bound nothing.  The budget is above the one of loading in `core` and below it in the other runs:
a campaign may choose either.  `core` holds no operator: an operator may do what
OwedReplyRetained, AttemptsBounded and SentIsHistory forbid, by design (requeue) or not (see the findings).  In `cap`
two contacts let two workers pass the check with one place left, and five jobs are more than the bound admits, so that the
property can fail: two leave undisturbed, three with a failed statement, four with a crash, and TLC reaches each of
these numbers.

In `reconcile` three happenings are a trigger and two more (an edit and a restart, a STOP and a new consent, a pause
and a close); `Horizon` stops the contact and the operator one tick before the clock, so that what they left has
time to settle.  One pass at a time suffices for staleness, because edits and triggers come between its reads;
overlapping passes are covered by the theorems.  Two instants for each clock of a trigger are every order of the three clocks, on
either side of a cutoff.  TTL and `TriggerDelay` are 1 and `Grace` 0, the least values that
tell overdue, stale and due apart, and a daily series repeats every 2 ticks.

In `inbound` two messages are a trigger and whatever may come after or before it: a second trigger, a STOP, an
answer from the phone, an echo.  SPECIAL_MESSAGE is the behaviour whose reply the inbound path sends itself;
the others, whose reply is the scheduler's, run in `inbound_live`.  A stall, which gives one event to two
processors, uses the Budget, and the recovery by hand comes on top of it; two attempts are the least that can be
exhausted after a retry.  Three rows are two attempts and one that the recovery adds.  In `gate` four calls are a full slot, a queue
behind it and one cancelled; `Horizon` stops the clock unless somebody waits.  In `authoring` two requests are the least that
can overtake one another, and four edits are enough for upload, save, use and delete.  `algorithms` takes local days of 8
hours, zones from -2 to 2 with one change of an hour on any hour of a day, and texts long enough to hold the longest
keyword with a neighbour, names that are blank, plain or a placeholder themselves; `Width` makes the delay overflow at small numbers.

Deadlock is not checked, because a finished queue with its clock or its budget at the bound has nothing left to do.

**Fairness.**  Weak fairness of a worker's or a processor's own step: the loops tick every second and a statement
returns.  Of the provider's answer: the HTTP client has a timeout.  Of the poller's two steps.  Of a lease lapsing with
nobody to renew it, of the end of a backoff, of the clock and of ageing: time passes.  Of the sweeps: the
maintenance loops tick.  Of `StopEnrollments`: a failed event is retried.  Of the steps of a pass: `reconcileLoop`
(cmd/server/main.go) starts one every interval.  Of the greeting's job in `Inbound`: `Delivery` shows that jobs settle.
None of a fault, of an operator, of a customer or of a cancellation.  In `gate` strong fairness of taking a slot, because Go's
channels queue those who wait, and an answer only from a healthy account's provider.  In `delete` strong
fairness of getting a connection or the lock: the deletion fails under the best of schedulers.

## 5. Findings

Three statements of the repository are refuted by a run each:

1. `cancel`: campaigns/reconcile.go:166-168 "an operator's cancellation stays cancelled"; a worker's closing
   statement may undo it.
2. `stale`: campaigns/reconcile.go:200-201 "Reconciliation must never resurrect them"; a pass that read the
   enrolment before a trigger and a STOP writes ACTIVE over the stopped one, because `SetEnrollmentStatus` looks at the id
   only.  Consent still holds the messages back until the contact subscribes again.
3. `delete`: docs/API.md:496 the step is removed; its DELETE waits for the lock of the transaction it belongs to.

**Observations** made while modelling, which no run is about.  Delivery and planner:

* README.md:523-525 "never hands out a later message before an earlier one": during a backoff of the earlier one it does
  (scheduler/repository.go:321-325).
* README.md:574-575 an owed reply is retained: `ExpirePendingForCampaign`, on resume, drops it.
* campaigns/service.go:939-941 one message of context is moved to now: a pass moves it back, and the stale sweep drops it.
* campaigns/reconcile.go:296-306 an edit is not delivered to yesterday's contacts: an added step reopens yesterday's
  enrolment, and a moved event then revives its skips.
* A lost answer doubles a message without a crash, beside the one case README.md:563-567 counts; two workers pass one
  place of a sending cap, though scheduler/worker.go:388-392 says "nothing is sent silently past the limit".  Under a cap of
  one, `cap` reaches two messages of two contacts undisturbed, three with a failed statement and four with a crash.
  OneCopyUnlessAckLost and CapOverrunBounded bound both.
* campaigns/reconcile.go:97-99 of planner and reconciler "the two must never disagree": they do, because they read different
  clocks.  A greeting or a trigger step is planned from the planner's `now` and reconciled from `enrolled_at`, so the first
  pass pulls it forward by the time between the two; a step whose cutoff lies between the provider's timestamp and
  `enrolled_at` is decided anew; and a step caught up with goes back to its past moment, which reconcile.go:99-101
  calls a matter of enrolment alone.  PlanStands says that nothing else is changed.

Inbound:

* `MarkProcessed` is not fenced (inbound/repository.go:161): a processor that lost its lease and found the campaign
  paused closes an event another is answering.  This is the exception `skipped` in ProcessedIsAnswered.
* A consent failure of a courtesy reply is taken for an outage (processor.go:296): the event fails and is recovered
  for ever.  This is the exception in EveryEventSettles.
* An echo recorded before `MarkSent` takes the provider id, and the receipt fails on the unique key: the
  message is delivered and its event FAILED.
* A status notification that comes before `MarkSent` has stored the provider's id updates no row and is not kept
  (processor.go:708-716).  A FAILED after a READ overrides it.
* outbound/router.go calls an unknown account permanent; `IsRetryable` treats its error as one to retry.

Panel, templates and media:

* The campaign form shows an event's date and time in the panel's zone (src/web/js/format.js:45-65) and the server reads
  them in the campaign's: opening and saving a campaign of another zone moves its event, and with a series the
  webinars assigned.  WhatIsTypedIsSent holds for the campaign's own zone; the step form converts (campaign.js:845).
* A pinned revision whose file is deleted has its file set NULL, and the queued job fails (media/repository.go:82-84 says
  otherwise): the exception in QueueIsSendable.
* Switching a step to another template leaves the version of the old one on its jobs (worker.go:363-368 says otherwise).
* Deleting a template counts steps only: one used as `existing_contact_template_id` goes, and the special reply becomes
  IGNORE without a word.
* An uploaded voice note that is converted leaves its source behind as a row of kind VOICE.
* `handleUpdateStep` does not check that the step belongs to the campaign of the path.  `ReorderSteps` with a repeated
  id leaves a hole in the order.  `UpdateTrigger` lacks the four-letter rule of `AddTrigger`.  `Duplicate` does not copy the
  audience of a step (service.go:1017-1031).
* `SetStatus` ignores `archived_at`, and Activate's checklist runs before its transaction: an Archive in between leaves a campaign
  ACTIVE and archived.  The checklist passes a campaign of greetings only, which the table's CHECK refuses.
* Two owners who demote one another at once leave none (auth/service.go:252-295).

Calendar and text:

* West of Greenwich, in a zone that skips midnight, a series starts a day early and a third day may have to be looked at,
  against campaigns/recurrence.go:112-129.
* A step typed for a time of today after today's webinar has begun is kept as a distance from tomorrow's.
* An invisible character between a letter and its combining mark makes `Normalize` differ from its own repetition;
  two of its look-alike cases are never reached, because NFKC has replaced the character before.
* "8 700 ..." and "+7 700 ..." are two contacts.
* README.md:424-425 "a placeholder never reaches a customer as literal `{{...}}` text": a value is written unescaped
  (render.go:98-101), so a contact whose name is one, or ends what the template opens, is sent it.  RenderIsClean holds for names
  without an opening brace, and of the others says that they are written and not read.

## 6. Theorems

Assumptions are the modules' named ones on the constants; TLC evaluates them in every run.

**`Delivery_proofs`** (`RowsAssumption`, `JobsAssumption`, `AttemptsAssumption`, `DeliveryAssumption`): `TypeCorrect`;
`CopyInvariant`, `NoSecondCopy`, `SentOverReceipt` and `OutboxImplemented`, each under `Slots = 1`, the default
of WHATSAPP_SEND_WORKERS.  With two slots they are false once a lease lapses under a live worker, so that two workers have
one job: the mutant of TakeSlot is that case.  A worker past
`CheckUncertain` acts on two reads (no receipt, no row in doubt) that are no longer protected by anything but the slot.  `CopyInv`
therefore says, beside types: no two workers are inside the gate with one job; if one is at or past the point where it
has checked, its job still has no receipt and no row in doubt but its own; the row in hand is PENDING; a FAILED row
has no copy unless an acknowledgement was lost; a copy sits on a row that was created; two rows that are both
PENDING or SENT are the same row; a verdict "sent" and a SENT job stand over a receipt.  None of the four results is
inductive alone.  Leases and statuses do not appear: with one slot the result does not depend on the queue handing a job to
one worker only.  The steps are proved from `OneSlotOrHolder`, that there is one slot or one holder per job, which the next module
uses for any number of slots.

**`Delivery_queue_proofs`** (the same assumptions; `Workers` and `Contacts` finite and not empty where something is counted):
what the queue gives for any number of slots.  The results hold while the system is `Quiet`: no lease has lapsed under a live worker and no
operator has touched a job (`spent` counts both).  Crashes, failed
statements, timeouts, STOPs and sweeps stay.  That is no weakness of the proof: where a lease lapses two workers do
hold one job, and a requeue does reset its attempts, and TLC shows the properties false there.  `HeldInv`, with `OneInFlightWhileQuiet` and
`SentStaysWhileQuiet`: a leased job has one worker, who has read what it now says; a settled one has none; a contact's jobs are
claimed one at a time because the claim looks for another in flight.  `OwedInv` (`OwedReplyKept`, while the provider refuses nothing
either): an owed reply leaves the queue sent, with its last attempt in doubt, or for the customer's own STOP.  `BudgetInv` (`AttemptsBoundedWhileQuiet`) counts a job's message rows
against the attempts written back, the one in hand, the crashes and the failed statements; the counter's saturation costs nothing,
because it is at the larger budget, whichever that is.  `CapInv` (`CapOverrunWhileQuiet`) counts, beside the SENT
jobs, those whose worker is past the check of the cap, and those that a disturbance left with a receipt and not SENT.  `LateInv` (`LateCopiesBounded`) needs no quiet: who has passed the last check for an opt-out is inside the gate.
`NoSecondCopyWhileQuiet`, `SentOverReceiptWhileQuiet` and `OutboxImplementedWhileQuiet` are the four results of
`Delivery_proofs` with the queue in the place of the slot.

**`Authoring_proofs`** (`TemplateRowAssumption`, `RowAssumption`, `EstablishedAssumption`; a campaign has finitely many steps): `AuthoringTypes`, `TemplatesStaySendable`,
`HistoryStaysComplete`, `QueueStaysSendable` and `WordsStayUnambiguous`, for any number of rows and of requests cut off between
any two of their writes.  Requests read outside the transaction that writes, so each invariant says what of a
request's reading still holds when it writes.  `Keys` is what the foreign keys give; `Files`, that a row's file is on disk until the row is
gone, because the row goes first; `History`, that a template's revisions are complete, end with the live one and name files that have rows; `Index`, that
the unique index and the transaction that takes words over leave one active holder of each.

**`Algorithms_proofs`** (`CalendarAssumption`): pure functions, for inputs of any size.  *Calendar* (`NextIsEarliest`, `NextStays`,
`EventIsFirst`, `OpeningDisturbsNobody`, `TypedIsShown`, `TypedIsSent`): a zone is less than a day off and changes once; no change moves a midnight or
a webinar to another day (`KeepsDays`, over all days) nor anybody back into the day before (`DaysGoOn`: a change of more than a unit
just after midnight does that, and there the calendar does skip a webinar).  Where days go on, webinars come one a day in the
order of their days, so the one after the first day looked at is always ahead; and `DateSettles`, that what the clock shows of a moment
read off a clock is that moment, is what lets a form be opened and saved.  *Checklist* (`ChecklistFindsEverything`): whatever goes wrong between
two steps and is shared with one of them by every step in between goes wrong between two neighbours.  *Words*
(`ContainsFindsWholeWords`) and *statuses* (`StatusesAddUpAlways`, `OrderOfReportsDoesNotMatter`): the recursive functions of the model are shown to exist
and to have the values stated.  No induction scheme can be used, so all three take the least counterexample, which a finite
set has (`MinimalSet`, `LeastOf`).

**`MC_Algorithms_proofs`**: the properties of the run `algorithms` themselves, which put the functions together (a keyword is
normalised before it is looked for, reports are told apart before they are applied), for a question of any size instead of
the run's small ones.  A theorem takes `ask` as the run does and says of which sort it must be; nothing else is assumed but
what follows.

* `CalendarIsExactAlways`, `WhatIsTypedIsSentAlways`: `Days = Int`, so the whole series is looked at where the run looks at
  a week; any zone under `DaysGoOn`, any form, any number of words to unsubscribe by.
* `DelaysAreSaneAlways`: any width of an integer, and a cap that is an integer of that width, as a
  `time.Duration` is.  The code caps the product before it converts it, so what is converted is below half the
  range (`DurationIs`), whatever the product is.
* `MatchesWholeWordsAlways`, `SpellingDoesNotMatterAlways`: any text.  What `Normalize` keeps of a text is a list of
  places, and there is one such list (`ChosenOnce`), so it need not be computed: `Stays` says of a place whether its character
  stays, `Image` what it becomes, `NormalizeIs` that this is what the two passes of the code come to, and two texts whose
  staying places answer one another (`PlacesMove`) read alike.  The hypotheses are the two exceptions of section 5 and of the property:
  no invisible character directly before a combining mark, and a group's id has no number.
* `RenderIsCleanAlways`: a template and a name of any length.  That a value is written and not read compares the loop over a template with
  the name in its context to the same loop with a sign for the name, `Slot`, which the template must not hold
  (`ReplacedIsWritten`): step by step both loops are at one place of the template, and `Written` goes through what they have put together
  (`WrittenJoined`).  The lemma for names without an opening brace, `ReplacedIsBare`: what stands before an opening and what takes the placeholder's place
  open nothing (`Shut`), the rest is `Bare`, and that is passed on along the loop, which is a chain (`ChainIsBare`).  `tidy` brings no
  two braces together (`KeptIsBare`), because a brace ends every run of blanks and of line ends.
* `ReportsAddUpAlways`: any number of reports of one message id.  `ChecklistIsCompleteAlways`: any number of steps; the
  preview's sort is shown to exist and to be what the listing is.

**`Reconciler_proofs`** (`ReconcilerAssumption`): `TypeCorrect`; `HistoryStays`; `RepairIsExact` and `OnePassSuffices`;
`PlanOutlivesThePass`.  For history, `Keeps` says that from one table of jobs to another only rows that are absent, skipped or PENDING have
changed; cancelling, scheduling, reconciling and rescheduling keep it for whatever campaign, enrolment and time they are given,
and it composes.  So the result holds for any number of overlapping passes with whatever they read.  For repair, `WantIsStable`
is the key: what is wanted of a step depends on earlier runs' jobs only, so it is the same before and after the
transaction.  For the planner, `TriggerSchedules` reduces an enrolment, a restart and a continuation to one `Schedule` by an
arbitrary enrolment that is active, and `RowStands` goes through a step's kinds: a webinar step's moment is the anchor's and
depends on no clock, what was missed is missed for any later pass too, and a trigger step's two moments differ by exactly the
clocks they are measured from.  Nothing is assumed of how the clocks lie but that the planner's is not before the provider's.

**`Inbound_proofs`** (`EventsAssumption`, `InboundAssumption`): `TypeCorrect`; `StopComplete` and `AnsweredWhenProcessed`
for any number of slots; `PromiseKept` under `Slots = 1`.  `InboundInv` is inductive: types; `NumbersInv`, that whatever is stored, decided or
answered refers to a message that has arrived; `RowsInv`, that a closed event has been dealt with (`Dealt`) and a receipt counts as
an answer; `PlacesInv`, what a processor has established on its way to where it is.  Being dealt with must survive
everything else that happens: a restart keeps the old run's greeting, a recovery takes back only an
event it reopens, and an opt-out that is complete is final for the contact.  A stale processor is harmless because what it established is
about the event and not about its claim.  For the promise `GateInv` adds what the slot protects: one processor inside; what
reached the customer is on record as sent, in doubt or lost (`CopiesInv`); and what the sender's check found still holds
until the request (`Sending`).  Decisions need no more than the checkpoint's guard.

**`Gate_proofs`** (`GateAssumption`): `TypeCorrect`; `BacklogHolds`; `PaceKept`.  The backlog is bounded because the timeline has no
holes: from any moment on, a place is at most one interval behind the last place before it (`Compact`), whether that is held or
lost, and places that are past may be forgotten.  The pace is a statement about all pairs of sends, and sends are not ordered by their
reservations when timers are late.  The invariant tells for each send the story since (`Story`): who was inside the
gate already at that moment (`Old`, fewer than the slots), how many others have started since (`g`), and that the places held by the others lie
at least as many intervals later as they come after.  A send is either one of `Old`, who each start once, or has waited for its place.

Only model-checked, by TLC on all inputs of the run:

* liveness, which is out of the prover's reach, as is ENABLED;
* the properties of Delivery's queue where leases lapse or operators interfere, as far as they hold there;
* the three runs that expect a violation.

## 7. Not modelled

`PROJECT.json` gives the reason per component.  In short: HTTP and the rest of JSON, ffmpeg, migrations, exports, lists and reports;
sessions and passwords; the registry of accounts, which is read at start-up; upserts, labels and merging of contacts; group chats, calls and media of
incoming messages; the bulk opt-out; names, kinds and button rows of templates.  Left for later: row 10 of the plan.
