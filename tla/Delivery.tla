------------------------------ MODULE Delivery ------------------------------
(***************************************************************************)
(* The delivery path of one WhatsApp account: the scheduler's worker loops  *)
(* (src/internal/scheduler/worker.go), the outbound gate they share          *)
(* (src/internal/outbound/gate.go), the sender behind it                     *)
(* (src/internal/messaging/sender.go), and everything that writes the same   *)
(* two tables at the same time: the lease heartbeats, the maintenance loop,  *)
(* the operator's panel, a customer's STOP, and a crash of the process.      *)
(*                                                                          *)
(* A worker takes one step per database statement or HTTP call, because     *)
(* that is where the others can get in between.                              *)
(***************************************************************************)
EXTENDS JobQueue, FiniteSetsExt

CONSTANTS
  Workers,   \* the poll loops (SCHEDULER_WORKERS)
  Slots,     \* the gate's slots (WHATSAPP_SEND_WORKERS, 1 by default)
  TTL,       \* STALE_JOB_TTL
  Grace,     \* the resume policy's grace
  Cap,       \* max_messages_per_hour; the model's horizon is within the hour
  MaxClock,  \* bound: the clock stops here
  Limit,     \* bound: [Kinds -> Nat], how often each kind of disturbance strikes
  Together   \* bound: how often any of them strikes

Kinds == {"db", "lostack", "outage", "refusal", "stall", "crash", "operator", "stop"}

ASSUME DeliveryAssumption ==
  /\ IsFiniteSet(Workers) /\ Workers # {}
  /\ IsFiniteSet(Contacts) /\ Contacts # {}
  /\ Slots \in Nat \ {0}
  /\ 0 \notin Jobs /\ 0 \notin Rows
  /\ TTL \in Nat /\ Grace \in Nat /\ Cap \in Nat /\ MaxClock \in Nat
  /\ Limit \in [Kinds -> Nat] /\ Together \in Nat

VARIABLES
  pc,        \* pc[w]: the statement worker w executes next
  job,       \* job[w]: the claimed job, 0 when idle
  tries,     \* tries[w]: its attempt_count, as read by the claim
  cur,       \* cur[w]: the message row of this attempt
  ctx,       \* ctx[w]: the job's context has not been cancelled
  verdict,   \* verdict[w]: what process() does with the job at the end
  clock,
  campaign,  \* the campaign's status
  optedOut,  \* contact_instance_optouts
  stopped,   \* contacts whose enrolment is no longer ACTIVE
  answered,  \* contacts an operator has answered by hand
  spent,     \* how often each kind of disturbance has struck
  late       \* history: the copies that reached a contact after its STOP

localVars == <<pc, job, tries, cur, ctx, verdict>>
worldVars == <<clock, campaign, optedOut, stopped, answered>>
vars == <<queueVars, logVars, localVars, worldVars, spent, late>>

GatePhases == {"receipt", "uncertain", "consent", "create", "deliver", "acked", "rowfail"}
Phases == {"idle", "reconcile", "load", "gate", "apply"} \cup GatePhases
Verdicts == {"none", "sent", "cancel", "defer", "fail", "retry", "reload"}

InGate == {w \in Workers : pc[w] \in GatePhases}

LocalTypeOK ==
  /\ pc \in [Workers -> Phases]
  /\ job \in [Workers -> Jobs \cup {0}]
  /\ \A w \in Workers : pc[w] # "idle" => job[w] \in Jobs
  /\ tries \in [Workers -> 0..LargestBudget]
  /\ cur \in [Workers -> Rows \cup {0}]
  /\ \A w \in Workers : pc[w] \in {"deliver", "acked", "rowfail"} => cur[w] \in Rows
  /\ ctx \in [Workers -> BOOLEAN]
  /\ verdict \in [Workers -> Verdicts]

WorldTypeOK ==
  /\ clock \in Nat
  /\ campaign \in {"ACTIVE", "PAUSED", "CLOSED"}
  /\ optedOut \subseteq Contacts
  /\ stopped \subseteq Contacts
  /\ answered \subseteq Contacts
  /\ spent \in [Kinds -> Nat]
  /\ late \subseteq Jobs \X Rows

TypeOK == QueueTypeOK /\ LogTypeOK /\ LocalTypeOK /\ WorldTypeOK

Init ==
  /\ QueueInit
  /\ LogInit
  /\ pc = [w \in Workers |-> "idle"]
  /\ job = [w \in Workers |-> 0]
  /\ tries = [w \in Workers |-> 0]
  /\ cur = [w \in Workers |-> 0]
  /\ ctx = [w \in Workers |-> TRUE]
  /\ verdict = [w \in Workers |-> "none"]
  /\ clock = 0
  /\ campaign = "ACTIVE"
  /\ optedOut = {} /\ stopped = {} /\ answered = {}
  /\ spent = [k \in Kinds |-> 0]
  /\ late = {}

-----------------------------------------------------------------------------
(***************************************************************************)
(* Steps of a worker's control flow.                                        *)
(***************************************************************************)
Struck == SumFunction(spent)

Spend(k) ==
  /\ spent[k] < Limit[k] /\ Struck < Together
  /\ spent' = [spent EXCEPT ![k] = @ + 1]

Running(w, p) == pc[w] = p /\ ctx[w]

Goto(w, p) == pc' = [pc EXCEPT ![w] = p] /\ UNCHANGED <<job, tries, cur, ctx, verdict>>

Decide(w, p, v) ==
  /\ pc' = [pc EXCEPT ![w] = p]
  /\ verdict' = [verdict EXCEPT ![w] = v]
  /\ UNCHANGED <<job, tries, cur, ctx>>

Finish(W) ==
  /\ pc' = [w \in Workers |-> IF w \in W THEN "idle" ELSE pc[w]]
  /\ job' = [w \in Workers |-> IF w \in W THEN 0 ELSE job[w]]
  /\ tries' = [w \in Workers |-> IF w \in W THEN 0 ELSE tries[w]]
  /\ cur' = [w \in Workers |-> IF w \in W THEN 0 ELSE cur[w]]
  /\ ctx' = [w \in Workers |-> IF w \in W THEN TRUE ELSE ctx[w]]
  /\ verdict' = [w \in Workers |-> IF w \in W THEN "none" ELSE verdict[w]]

Arrive(j, n) ==
  /\ Reach(j, n)
  /\ late' = IF ContactOf[j] \in optedOut THEN late \cup {<<j, n>>} ELSE late

-----------------------------------------------------------------------------
(***************************************************************************)
(* process(): from the claim to the gate.                                    *)
(***************************************************************************)
Claim(w) ==
  /\ pc[w] = "idle"
  /\ \E j \in Jobs :
        /\ Claimable(j, clock)
        /\ Lock(j)
        /\ job' = [job EXCEPT ![w] = j]
        /\ tries' = [tries EXCEPT ![w] = attempts[j]]
  /\ pc' = [pc EXCEPT ![w] = "reconcile"]
  /\ UNCHANGED <<logVars, cur, ctx, verdict, worldVars, spent, late>>

\* A receipt left by a crash between the two MarkSent statements closes the job.
Reconcile(w) ==
  /\ Running(w, "reconcile")
  /\ ReconcileReceipt(job[w])
  /\ IF Closable(job[w]) THEN Finish({w}) ELSE Goto(w, "load")
  /\ UNCHANGED <<logVars, worldVars, spent, late>>

Skipped(j) == ContactOf[j] \in optedOut \cup stopped \/ campaign = "CLOSED"

Expired(j) == j \notin Replies /\ clock >= ScheduledAt[j] + TTL

SentJobs == {j \in Jobs : status[j] = "SENT"}

\* Mutant: the message that reaches the cap does not hold the next one.
OverCapLate == Cardinality(SentJobs) > Cap

OverCap == Cardinality(SentJobs) >= Cap

\* What the job's context says: drop it, hold it, or let it through.
Ruling(j) ==
  IF Skipped(j) THEN "cancel"
  ELSE IF campaign = "PAUSED" THEN "defer"
  ELSE IF Expired(j) THEN "cancel"
  ELSE IF OverCap THEN "defer" ELSE "none"

Load(w) ==
  /\ Running(w, "load")
  /\ LET ruling == Ruling(job[w]) IN
     IF ruling = "none" THEN Goto(w, "gate") ELSE Decide(w, "apply", ruling)
  /\ UNCHANGED <<queueVars, logVars, worldVars, spent, late>>

\* The step's template is gone (cancelled) or its message cannot be built (failed).
Misconfigured(w) ==
  /\ Running(w, "load")
  /\ Ruling(job[w]) = "none"
  /\ Spend("refusal")
  /\ \E v \in {"cancel", "fail"} : Decide(w, "apply", v)
  /\ UNCHANGED <<queueVars, logVars, worldVars, late>>

\* Mutant: one slot too many.
TakeSlotOver(w) ==
  /\ Running(w, "gate")
  /\ Cardinality(InGate) <= Slots
  /\ Goto(w, "receipt")
  /\ UNCHANGED <<queueVars, logVars, worldVars, spent, late>>

TakeSlot(w) ==
  /\ Running(w, "gate")
  /\ Cardinality(InGate) < Slots
  /\ Goto(w, "receipt")
  /\ UNCHANGED <<queueVars, logVars, worldVars, spent, late>>

-----------------------------------------------------------------------------
(***************************************************************************)
(* Sender.Send, inside the gate.                                             *)
(***************************************************************************)
CheckReceipt(w) ==
  /\ Running(w, "receipt")
  /\ IF HasReceipt(job[w]) THEN Decide(w, "apply", "sent") ELSE Goto(w, "uncertain")
  /\ UNCHANGED <<queueVars, logVars, worldVars, spent, late>>

\* Mutant: an attempt of unknown outcome does not stop the next one.
CheckUncertainBlind(w) ==
  /\ Running(w, "uncertain")
  /\ Goto(w, "consent")
  /\ UNCHANGED <<queueVars, logVars, worldVars, spent, late>>

CheckUncertain(w) ==
  /\ Running(w, "uncertain")
  /\ IF InDoubt(job[w]) THEN Decide(w, "apply", "fail") ELSE Goto(w, "consent")
  /\ UNCHANGED <<queueVars, logVars, worldVars, spent, late>>

\* Past its window, already answered by hand, or unsubscribed.
Unwanted(j) ==
  \/ Expired(j)
  \/ j \in Replies /\ ContactOf[j] \in answered
  \/ ContactOf[j] \in optedOut

\* Mutant: the consent is not asked for again inside the gate.
CheckConsentOnce(w) ==
  /\ Running(w, "consent")
  /\ Goto(w, "create")
  /\ UNCHANGED <<queueVars, logVars, worldVars, spent, late>>

CheckConsent(w) ==
  /\ Running(w, "consent")
  /\ IF Unwanted(job[w]) THEN Decide(w, "apply", "cancel") ELSE Goto(w, "create")
  /\ UNCHANGED <<queueVars, logVars, worldVars, spent, late>>

\* The history of an old chat does not say whether the reply is still owed.
HistoryUnknown(w) ==
  /\ Running(w, "consent")
  /\ job[w] \in Replies
  /\ Spend("refusal")
  /\ Decide(w, "apply", "fail")
  /\ UNCHANGED <<queueVars, logVars, worldVars, late>>

CreateRow(w) ==
  /\ Running(w, "create")
  /\ \E n \in Rows :
        /\ Unused(job[w], n)
        /\ SetRow(job[w], n, "PENDING")
        /\ cur' = [cur EXCEPT ![w] = n]
  /\ pc' = [pc EXCEPT ![w] = "deliver"]
  /\ UNCHANGED <<queueVars, job, tries, ctx, verdict, worldVars, spent, late>>

Accept(w) ==
  /\ pc[w] = "deliver"
  /\ Arrive(job[w], cur[w])
  /\ Goto(w, "acked")
  /\ UNCHANGED <<queueVars, worldVars, spent>>

\* The provider took the message, but the connection broke, the call timed out
\* or the body could not be read: the client reports a transient error.
LoseAck(w) ==
  /\ pc[w] = "deliver"
  /\ Spend("lostack")
  /\ Arrive(job[w], cur[w])
  /\ Decide(w, "rowfail", "retry")
  /\ UNCHANGED <<queueVars, worldVars>>

\* 5xx, 429 and failed connections are retried; 401, 403 and 466 (the account
\* is unavailable) are retried for an owed reply only; the rest is permanent.
Reject(w) ==
  /\ pc[w] = "deliver"
  /\ \/ Spend("outage") /\ Decide(w, "rowfail", "retry")
     \/ Spend("outage") /\ Decide(w, "rowfail", IF job[w] \in Replies THEN "retry" ELSE "fail")
     \/ Spend("refusal") /\ Decide(w, "rowfail", "fail")
  /\ UNCHANGED <<queueVars, logVars, worldVars, late>>

MarkRowFailed(w) ==
  /\ Running(w, "rowfail")
  /\ SetRow(job[w], cur[w], "FAILED")
  /\ Goto(w, "apply")
  /\ UNCHANGED <<queueVars, worldVars, spent, late>>

\* Mutant: the receipt is not saved before the job is closed.
MarkRowSentLater(w) ==
  /\ pc[w] = "acked"
  /\ Decide(w, "apply", "sent")
  /\ UNCHANGED <<queueVars, logVars, worldVars, spent, late>>

\* Runs under a context of its own, which no cancelled job takes away.
MarkRowSent(w) ==
  /\ pc[w] = "acked"
  /\ SetRow(job[w], cur[w], "SENT")
  /\ Decide(w, "apply", "sent")
  /\ UNCHANGED <<queueVars, worldVars, spent, late>>

-----------------------------------------------------------------------------
(***************************************************************************)
(* process(): what becomes of the job.                                       *)
(***************************************************************************)
\* Mutant: an owed reply has the same budget as any other message.
ExhaustedAlways(w) ==
  tries[w] + 1 >= IF verdict[w] = "reload" THEN LoadAttempts ELSE MaxAttempts

\* Mutant: the attempt under way is not counted.
ExhaustedLate(w) ==
  /\ job[w] \notin Replies
  /\ tries[w] >= IF verdict[w] = "reload" THEN LoadAttempts ELSE MaxAttempts

Exhausted(w) ==
  /\ job[w] \notin Replies
  /\ tries[w] + 1 >= IF verdict[w] = "reload" THEN LoadAttempts ELSE MaxAttempts

RetryOrFail(w) == IF Exhausted(w) THEN Fail(job[w]) ELSE Retry(job[w])

Apply(w) ==
  /\ Running(w, "apply")
  /\ \/ verdict[w] = "sent" /\ MarkSent(job[w])
     \/ verdict[w] = "cancel" /\ Cancel(job[w])
     \/ verdict[w] = "defer" /\ Defer(job[w])
     \/ verdict[w] = "fail" /\ Fail(job[w])
     \/ verdict[w] \in {"retry", "reload"} /\ RetryOrFail(w)
  /\ Finish({w})
  /\ UNCHANGED <<logVars, worldVars, spent, late>>

\* A statement of the worker fails and process() takes its error branch.
DbFails(w) ==
  /\ Spend("db")
  /\ \/ Running(w, "reconcile") /\ Finish({w})
     \/ Running(w, "apply") /\ Finish({w})
     \/ Running(w, "load") /\ \E v \in {"reload", "retry"} : Decide(w, "apply", v)
     \/ Running(w, "load") /\ Ruling(job[w]) = "defer" /\ campaign # "PAUSED" /\ Goto(w, "gate")
     \/ \E p \in {"receipt", "uncertain", "consent", "create"} :
           Running(w, p) /\ Decide(w, "apply", "retry")
     \/ Running(w, "rowfail") /\ Goto(w, "apply")
     \/ pc[w] = "acked" /\ Decide(w, "apply", "fail")
  /\ UNCHANGED <<queueVars, logVars, worldVars, late>>

\* Every 40 seconds: renew the lease, or learn that the job is no longer held.
Heartbeat(w) ==
  /\ pc[w] # "idle" /\ ctx[w]
  /\ \/ /\ status[job[w]] = "PROCESSING" /\ lease[job[w]] = "stale"
        /\ RenewLease(job[w])
        /\ UNCHANGED <<ctx, spent>>
     \/ /\ status[job[w]] # "PROCESSING"
        /\ ctx' = [ctx EXCEPT ![w] = FALSE]
        /\ UNCHANGED <<queueVars, spent>>
     \/ /\ Spend("db")
        /\ ctx' = [ctx EXCEPT ![w] = FALSE]
        /\ UNCHANGED queueVars
  /\ UNCHANGED <<logVars, pc, job, tries, cur, verdict, worldVars, late>>

\* Under a cancelled context every statement fails and so does the one that
\* would have recorded the error; a request in flight may have got through.
Abandon(w) ==
  /\ ~ctx[w] /\ pc[w] \notin {"idle", "acked"}
  /\ \/ UNCHANGED <<logVars, late>>
     \/ pc[w] = "deliver" /\ Arrive(job[w], cur[w])
  /\ Finish({w})
  /\ UNCHANGED <<queueVars, worldVars, spent>>

-----------------------------------------------------------------------------
(***************************************************************************)
(* Everything else that writes the two tables.                               *)
(***************************************************************************)
Held(j) == \E w \in Workers : pc[w] # "idle" /\ job[w] = j

\* Nobody renews the lease of an abandoned job; that of a job in progress lapses
\* only if the process is suspended or the database blocked for LOCK_TIMEOUT.
Lapse(j) ==
  /\ AgeLease(j)
  /\ IF Held(j) THEN Spend("stall") ELSE UNCHANGED spent
  /\ UNCHANGED <<logVars, localVars, worldVars, late>>

\* Mutant: abandoned jobs are not taken back.
ReleaseNothing ==
  /\ FALSE
  /\ UNCHANGED vars

ReleaseStale ==
  /\ ReleaseOrphans
  /\ UNCHANGED <<logVars, localVars, worldVars, spent, late>>

Stale == {j \in Jobs \ Replies : status[j] = "PENDING" /\ ScheduledAt[j] + TTL < clock}

CancelStale ==
  /\ Stale # {}
  /\ CancelPending(Stale)
  /\ UNCHANGED <<logVars, localVars, worldVars, spent, late>>

BackoffElapses(j) ==
  /\ EndBackoff(j)
  /\ UNCHANGED <<logVars, localVars, worldVars, spent, late>>

Tick ==
  /\ clock < MaxClock
  /\ clock' = clock + 1
  /\ UNCHANGED <<queueVars, logVars, localVars, campaign, optedOut, stopped, answered, spent, late>>

OnWire == {<<job[w], cur[w]>> : w \in {v \in Workers : pc[v] = "deliver"}}

\* The process dies and restarts.  Each request on the wire got through or not.
Crash ==
  /\ Spend("crash")
  /\ \E S \in SUBSET OnWire :
        /\ accepted' = [j \in Jobs |-> accepted[j] \cup {n \in Rows : <<j, n>> \in S}]
        /\ late' = late \cup {p \in S : ContactOf[p[1]] \in optedOut}
  /\ Finish(Workers)
  /\ UNCHANGED <<queueVars, row, worldVars>>

\* handleUnsubscribe: the opt-out is one transaction, stopping the enrolments
\* and cancelling what is pending is the next.
OptOut(c) ==
  /\ c \notin optedOut
  /\ Spend("stop")
  /\ optedOut' = optedOut \cup {c}
  /\ UNCHANGED <<queueVars, logVars, localVars, clock, campaign, stopped, answered, late>>

StopEnrollments(c) ==
  /\ c \in optedOut \ stopped
  /\ stopped' = stopped \cup {c}
  /\ CancelPending({j \in Jobs : ContactOf[j] = c})
  /\ UNCHANGED <<logVars, localVars, clock, campaign, optedOut, answered, spent, late>>

CancelJob(j) ==
  /\ status[j] \in {"PENDING", "PROCESSING"}
  /\ Spend("operator")
  /\ Cancel(j)
  /\ UNCHANGED <<logVars, localVars, worldVars, late>>

RequeueJob(j) ==
  /\ Spend("operator")
  /\ Requeue(j)
  /\ UNCHANGED <<logVars, localVars, worldVars, late>>

AnswerByHand(c) ==
  /\ c \notin answered
  /\ Spend("operator")
  /\ answered' = answered \cup {c}
  /\ UNCHANGED <<queueVars, logVars, localVars, clock, campaign, optedOut, stopped, late>>

\* The status is set whatever it was.
Pause ==
  /\ campaign # "PAUSED"
  /\ Spend("operator")
  /\ campaign' = "PAUSED"
  /\ UNCHANGED <<queueVars, logVars, localVars, clock, optedOut, stopped, answered, late>>

\* Activating a paused campaign applies the resume policy: what came due
\* meanwhile is dropped.
Activate ==
  /\ campaign # "ACTIVE"
  /\ campaign' = "ACTIVE"
  /\ IF campaign = "PAUSED"
     THEN CancelPending({j \in Jobs : ScheduledAt[j] + Grace < clock})
     ELSE UNCHANGED queueVars
  /\ UNCHANGED <<logVars, localVars, clock, optedOut, stopped, answered, spent, late>>

\* Archive cancels what is pending; completing a campaign leaves it to the workers.
Close ==
  /\ campaign # "CLOSED"
  /\ Spend("operator")
  /\ campaign' = "CLOSED"
  /\ CancelPending(Jobs) \/ UNCHANGED queueVars
  /\ UNCHANGED <<logVars, localVars, clock, optedOut, stopped, answered, late>>

-----------------------------------------------------------------------------
WorkerStep(w) ==
  \/ Claim(w) \/ Reconcile(w) \/ Load(w) \/ TakeSlot(w)
  \/ CheckReceipt(w) \/ CheckUncertain(w) \/ CheckConsent(w) \/ CreateRow(w)
  \/ MarkRowFailed(w) \/ MarkRowSent(w) \/ Apply(w) \/ Abandon(w)

ProviderAnswers(w) == Accept(w) \/ LoseAck(w) \/ Reject(w)

Fault(w) == Misconfigured(w) \/ HistoryUnknown(w) \/ DbFails(w)

Next ==
  \/ \E w \in Workers : WorkerStep(w) \/ ProviderAnswers(w) \/ Fault(w) \/ Heartbeat(w)
  \/ \E j \in Jobs : Lapse(j) \/ BackoffElapses(j) \/ CancelJob(j) \/ RequeueJob(j)
  \/ \E c \in Contacts : OptOut(c) \/ StopEnrollments(c) \/ AnswerByHand(c)
  \/ ReleaseStale \/ CancelStale \/ Tick \/ Crash \/ Pause \/ Activate \/ Close

Spec == Init /\ [][Next]_vars

\* The poll loops and the maintenance loop keep running, the HTTP client has a
\* timeout, time passes, and an unsubscribe event is retried until it is done.
Fairness ==
  /\ \A w \in Workers : WF_vars(WorkerStep(w)) /\ WF_vars(ProviderAnswers(w))
  /\ \A j \in Jobs : WF_vars(Lapse(j) /\ UNCHANGED spent) /\ WF_vars(BackoffElapses(j))
  /\ \A c \in Contacts : WF_vars(StopEnrollments(c))
  /\ WF_vars(ReleaseStale) /\ WF_vars(CancelStale) /\ WF_vars(Tick)

FairSpec == Spec /\ Fairness

-----------------------------------------------------------------------------
(***************************************************************************)
(* Properties.                                                               *)
(***************************************************************************)
Promise == INSTANCE Outbox

\* Workers, leases, retries, cancels, crashes and all, the two tables behave as
\* Outbox says: an attempt of unknown outcome blocks the next one, and an
\* acknowledged message is never attempted again (Sender.Send).
ImplementsOutbox == Promise!OutboxSpec

\* A customer gets a second copy of a message only if the provider took an
\* attempt and the client reported it as a transient error (client.doRequest).
\* No crash, lapsed lease, failed statement or operator's retry causes one.
OneCopyUnlessAckLost ==
  spent["lostack"] = 0 => \A j \in Jobs : \A m, n \in accepted[j] : m = n

\* A job is SENT only if a message row carries the receipt, however often a slow
\* worker and the one that took its job over write their verdicts.
SentHasReceipt == \A j \in Jobs : status[j] = "SENT" => HasReceipt(j)

\* After a STOP is recorded, the gate lets at most as many copies through as it
\* has slots: those past the consent check at that moment.
NoLateCopies ==
  \A c \in Contacts : Cardinality({p \in late : ContactOf[p[1]] = c}) <= Slots

\* The claim never hands out a second job of a contact while one is in flight.
OneInFlight ==
  \A v, w \in Workers :
     v # w /\ pc[v] # "idle" /\ pc[w] # "idle" => ~SameContact(job[v], job[w])

\* A job that is SENT stays SENT: no retry, cancel or sweep rewrites it.
SentIsHistory ==
  [][\A j \in Jobs : status[j] = "SENT" => status'[j] = "SENT"]_status

\* The reply owed to a trigger message survives outages of any length.  As long as
\* nothing is refused for good, it is given up only if an earlier attempt is in doubt,
\* and dropped only for a STOP, an answer by hand or a closed campaign.
OwedReplyRetained ==
  spent["refusal"] = 0 =>
   \A j \in Replies :
     /\ status[j] = "FAILED" => InDoubt(j)
     /\ status[j] = "CANCELLED" =>
           ContactOf[j] \in optedOut \cup answered \/ campaign = "CLOSED"

\* Other messages are attempted max_send_attempts times; an attempt whose end
\* was not recorded (a crash, a failed statement) is the only one not counted.
AttemptsBounded ==
  \A j \in Jobs \ Replies :
     Cardinality({n \in Rows : row[j][n] # "NONE"})
        <= MaxAttempts + spent["crash"] + spent["db"]

\* overSendingLimit reads the cap before the gate and counts closed jobs only, so "nothing
\* is sent silently past the limit" (worker.go:388-392) is true of one worker alone.  The
\* cap is overrun by the jobs the other workers have in flight at that moment, one per
\* worker and contact, by as many again for every crash, whose receipts are closed
\* later, and by one for every failed statement; by no more than that.
CapOverrunBounded ==
  LET inFlight == Min({Cardinality(Workers), Cardinality(Contacts)}) IN
  Cardinality(SentJobs)
    <= Cap + (inFlight - 1) + inFlight * spent["crash"] + spent["db"]

\* Every job is eventually SENT, FAILED or CANCELLED for good: no crash, lost
\* lease or failed statement leaves one stranded in the queue.
EveryJobSettles == \A j \in Jobs : <>[](status[j] \in Terminal)

-----------------------------------------------------------------------------
(***************************************************************************)
(* What the repository says of itself and the code does not do.              *)
(***************************************************************************)
\* internal/campaigns/reconcile.go:166-168: an operator's cancellation stays
\* cancelled (until an operator requeues the job).
CancelledStays ==
  [][\A j \in Jobs :
       status[j] = "CANCELLED" /\ status'[j] # "CANCELLED"
         => spent'["operator"] > spent["operator"]]_<<status, spent>>
=============================================================================
