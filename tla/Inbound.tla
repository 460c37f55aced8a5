------------------------------ MODULE Inbound ------------------------------
(***************************************************************************)
(* The inbound path of one WhatsApp account and one contact: the provider's  *)
(* queue of notifications, the poller that stores and deletes them           *)
(* (src/internal/inbound/receiver.go), the processors that act on them       *)
(* (processor.go), the trigger transaction (campaigns/service.go), the       *)
(* courtesy reply through gate and sender (messaging/sender.go), and what    *)
(* comes in between: leases that lapse, recovery by sweep and by hand, a     *)
(* paused campaign, answers from the phone, and a crash of the process.      *)
(*                                                                          *)
(* A processor takes one step per transaction, statement or request.         *)
(***************************************************************************)
EXTENDS EventTable, FiniteSets

CONSTANTS
  Processors,   \* the processing loops (NOTIFICATION_WORKERS)
  Rows,         \* bound: the attempts of one courtesy reply
  Slots,        \* the gate's slots (WHATSAPP_SEND_WORKERS)
  MaxRuns,      \* bound: the runs of the enrolment
  Behaviors,    \* what existing_contact_behavior may be
  Faults,       \* the kinds of disturbance that may strike
  Budget        \* bound: how many of them strike

ASSUME InboundAssumption ==
  /\ IsFiniteSet(Processors)
  /\ Rows \subseteq Nat \ {0}
  /\ 0 \notin Events
  /\ Slots \in Nat \ {0} /\ MaxRuns \in Nat \ {0} /\ Budget \in Nat
  /\ Behaviors \subseteq {"RESTART", "CONTINUE", "SPECIAL", "IGNORE"}

VARIABLES
  kind,       \* kind[e]: what notification e is about; "none" before it happens
  about,      \* about[e]: the copy that an "api" echo repeats, as <<message, row>>
  arrived,    \* the notifications that have happened
  deleted,    \* those of them deleted from the provider's queue
  aged,       \* those older than HistoricalReplyAge
  poll,       \* the poller: "idle", or its notification is "stored"
  recorded,   \* the incoming messages with a row in messages
  row,        \* row[e][n]: the n-th courtesy reply to e, as in MessageLog
  accepted,   \* accepted[e]: those that reached the customer
  echoed,     \* the copies that were recorded from their echo
  lost,       \* history: messages with a reply whose acknowledgement was lost
  answer,     \* answer.x: the last notification that precedes an answer of kind x
  skipped,    \* history: triggers that a processor found the campaign paused for
  campaign,   \* the campaign: is it open, and what it does with a known contact
  enrol,      \* the enrolment: status and run
  greet,      \* greet[r]: the job of the greeting of run r
  optedOut,   \* contact_instance_optouts
  proc,       \* proc[p]: the processor's place and what it has read
  review,     \* a recovery by hand between its reading and its transaction
  spent       \* the disturbances so far

queueVars == <<kind, about, arrived, deleted, aged, poll>>
logVars == <<row, accepted>>
messageVars == <<recorded, logVars, echoed, lost, answer, skipped>>
funnelVars == <<campaign, enrol, greet, optedOut>>
vars == <<event, queueVars, messageVars, funnelVars, proc, review, spent>>

Log == INSTANCE MessageLog WITH Jobs <- Events

Triggers == {e \in Events : kind[e] = "trigger"}
Incoming == {e \in Events : kind[e] \in {"trigger", "stop"}}

Copies == Events \X Rows
NoCopy == <<0, 0>>

GatePhases == {"check", "create", "deliver", "acked", "rowfail"}
Phases ==
  {"idle", "start", "optout", "stop", "match", "decide", "complete", "gate", "finish"}
    \cup GatePhases
Verdicts == {"none", "done", "awaiting", "retry", "permanent"}

Idle ==
  [pc |-> "idle", ev |-> 0, tries |-> 0, known |-> FALSE, force |-> "none",
   cur |-> 0, at |-> 0, verdict |-> "none", ctx |-> TRUE]

Processor ==
  [pc      : Phases,
   ev      : Events \cup {0},
   tries   : Nat,       \* attempts, as read by the claim
   known   : BOOLEAN,   \* the claim read a checkpoint
   force   : {"none", "dup", "manual", "checked"},  \* why an enrolment is kept
   cur     : Rows \cup {0},
   at      : Nat,       \* arrived, when the provider acknowledged
   verdict : Verdicts,
   ctx     : BOOLEAN]

GreetStates ==
  {"none", "PENDING", "PROCESSING", "SENT", "ANSWERED", "FAILED", "EXPIRED", "CANCELLED"}
Runs == 0..MaxRuns
NoReview == [ev |-> 0, job |-> 0, decided |-> FALSE]

QueueTypeOK ==
  /\ kind \in [Events -> {"none", "trigger", "stop", "phone", "api"}]
  /\ about \in [Events -> Copies \cup {NoCopy}]
  /\ arrived \in Nat /\ deleted \in Nat /\ aged \in Nat
  /\ poll \in {"idle", "stored"}

MessageTypeOK ==
  /\ recorded \subseteq Events /\ echoed \subseteq Copies
  /\ lost \subseteq Events /\ skipped \subseteq Events
  /\ Log!LogTypeOK
  /\ answer \in [{"journal", "hand", "auto"} -> Nat]

FunnelTypeOK ==
  /\ campaign \in [open : BOOLEAN, existing : Behaviors]
  /\ enrol \in [status : {"none", "ACTIVE", "STOPPED"}, run : Runs]
  /\ greet \in [Runs -> GreetStates]
  /\ optedOut \in BOOLEAN

ProcTypeOK ==
  /\ proc \in [Processors -> Processor]
  /\ \A p \in Processors : proc[p].pc # "idle" => proc[p].ev \in Events
  /\ \A p \in Processors : proc[p].pc \in {"deliver", "acked", "rowfail"} => proc[p].cur \in Rows

TypeOK ==
  /\ EventTypeOK /\ \A e \in Events : event[e].result.job \in Runs
  /\ QueueTypeOK /\ MessageTypeOK /\ FunnelTypeOK /\ ProcTypeOK
  /\ review \in [ev : Events \cup {0}, job : Runs, decided : BOOLEAN]
  /\ review # NoReview => review.ev \in Events
  /\ spent \in Nat

\* The contact is new, or has been through the funnel's greeting before.
Init ==
  /\ EventInit
  /\ kind = [e \in Events |-> "none"] /\ about = [e \in Events |-> NoCopy]
  /\ arrived = 0 /\ deleted = 0 /\ aged = 0 /\ poll = "idle"
  /\ recorded = {} /\ echoed = {} /\ lost = {} /\ skipped = {}
  /\ Log!LogInit
  /\ answer = [x \in {"journal", "hand", "auto"} |-> 0]
  /\ campaign \in [open : {TRUE}, existing : Behaviors]
  /\ enrol \in {[status |-> "none", run |-> 0], [status |-> "ACTIVE", run |-> 1]}
  /\ greet = [r \in Runs |-> IF r = 1 /\ enrol.run = 1 THEN "SENT" ELSE "none"]
  /\ optedOut = FALSE
  /\ proc = [p \in Processors |-> Idle]
  /\ review = NoReview
  /\ spent = 0

-----------------------------------------------------------------------------
(***************************************************************************)
(* Helpers.                                                                  *)
(***************************************************************************)
Spend(k) == k \in Faults /\ spent < Budget /\ spent' = spent + 1

Running(p, phase) == proc[p].pc = phase /\ proc[p].ctx

Goto(p, phase) == proc' = [proc EXCEPT ![p].pc = phase]

Conclude(p, v) == proc' = [proc EXCEPT ![p].pc = "finish", ![p].verdict = v]

Stop(P) == proc' = [p \in Processors |-> IF p \in P THEN Idle ELSE proc[p]]

Later(m, n) == IF m < n THEN n ELSE m

Answered(x, e) == answer[x] >= e
AnswerAt(x, n) == answer' = [answer EXCEPT ![x] = Later(@, n)]

HasAge(e) == e <= aged

\* ReplyHistory.Check: the rows here, then the provider's journal, which may not
\* cover the message.
Checks(e) ==
  IF Answered("hand", e) \/ Answered("auto", e) THEN {"replied"}
  ELSE IF Answered("journal", e) THEN {"replied", "ambiguous"}
  ELSE IF HasAge(e) THEN {"eligible", "ambiguous"} ELSE {"ambiguous"}

\* The journal leaves a message it should cover in doubt only by a disturbance.
Check(e, state) ==
  /\ state \in Checks(e)
  /\ IF state = "ambiguous" /\ Checks(e) # {state} THEN Spend("journal") ELSE UNCHANGED spent

-----------------------------------------------------------------------------
(***************************************************************************)
(* The provider's queue and the poller.                                      *)
(***************************************************************************)
Notify(k, copy) ==
  /\ arrived + 1 \in Events
  /\ arrived' = arrived + 1
  /\ kind' = [kind EXCEPT ![arrived + 1] = k]
  /\ about' = [about EXCEPT ![arrived + 1] = copy]
  /\ UNCHANGED <<deleted, aged, poll>>

\* The contact writes a trigger phrase or a stop word.
Write ==
  /\ \E k \in {"trigger", "stop"} : Notify(k, NoCopy)
  /\ UNCHANGED <<event, messageVars, funnelVars, proc, review, spent>>

\* An operator answers from the phone; the server hears of it by an echo.
PhoneReply ==
  /\ Spend("phone")
  /\ Notify("phone", NoCopy)
  /\ AnswerAt("journal", arrived)
  /\ UNCHANGED <<event, recorded, logVars, echoed, lost, skipped, funnelVars, proc, review>>

Age ==
  /\ aged < arrived
  /\ aged' = aged + 1
  /\ UNCHANGED <<event, kind, about, arrived, deleted, poll, messageVars, funnelVars, proc, review, spent>>

\* Ingest stores the head of the queue, or finds that it is there.
Ingest ==
  /\ poll = "idle" /\ deleted < arrived
  /\ Insert(deleted + 1)
  /\ poll' = "stored"
  /\ UNCHANGED <<kind, about, arrived, deleted, aged, messageVars, funnelVars, proc, review, spent>>

Acknowledge ==
  /\ poll = "stored"
  /\ poll' = "idle"
  /\ deleted' = deleted + 1
  /\ UNCHANGED <<event, kind, about, arrived, aged, messageVars, funnelVars, proc, review, spent>>

\* The head of the queue stays and comes again.
DeleteFails ==
  /\ poll = "stored"
  /\ Spend("delete")
  /\ poll' = "idle"
  /\ UNCHANGED <<event, kind, about, arrived, deleted, aged, messageVars, funnelVars, proc, review>>

-----------------------------------------------------------------------------
(***************************************************************************)
(* handle(): from the claim to the trigger.                                  *)
(***************************************************************************)
Claim(p) ==
  /\ proc[p].pc = "idle"
  /\ \E e \in Events :
        /\ Take(e)
        /\ proc' = [proc EXCEPT ![p] =
             [Idle EXCEPT !.pc = "start", !.ev = e, !.tries = event[e].attempts + 1,
                          !.known = Decided(e),
                          !.force = IF event[e].error = "manual" THEN "manual" ELSE "none"]]
  /\ UNCHANGED <<queueVars, messageVars, funnelVars, review, spent>>

\* handleIncoming: the message's row, unless it is there, and where the text leads.
Record(p) ==
  LET e == proc[p].ev IN
  /\ Running(p, "start") /\ e \in Incoming
  /\ recorded' = recorded \cup {e}
  /\ proc' = [proc EXCEPT
       ![p].force = IF e \in recorded /\ @ = "none" THEN "dup" ELSE @,
       ![p].pc = IF kind[e] = "stop" THEN "optout"
                 ELSE IF proc[p].known THEN "complete" ELSE "match"]
  /\ UNCHANGED <<event, queueVars, logVars, echoed, lost, skipped, answer, funnelVars, review, spent>>

\* A contact who has never written has no row.
Stranger == recorded = {} /\ enrol.run = 0

\* handleOutgoingEcho: a message sent elsewhere becomes a row of its own; one
\* that was sent from here is found by its provider id, once that is recorded.
Echo(p) ==
  LET e == proc[p].ev  copy == about[e] IN
  /\ Running(p, "start") /\ kind[e] \in {"phone", "api"}
  /\ IF Stranger \/ (kind[e] = "api" /\ row[copy[1]][copy[2]] = "SENT")
     THEN UNCHANGED <<echoed, answer>>
     ELSE /\ echoed' = echoed \cup ({copy} \ {NoCopy})
          /\ AnswerAt("hand", e - 1)
  /\ Conclude(p, "done")
  /\ UNCHANGED <<event, queueVars, recorded, logVars, lost, skipped, funnelVars, review, spent>>

\* handleUnsubscribe: the opt-out, and then the enrolments.
OptOut(p) ==
  /\ Running(p, "optout")
  /\ optedOut' = TRUE
  /\ Goto(p, "stop")
  /\ UNCHANGED <<event, queueVars, messageVars, campaign, enrol, greet, review, spent>>

\* Mutant: only the queued messages are cancelled.
StopEnrollmentsHalf(p) ==
  /\ Running(p, "stop")
  /\ greet' = [r \in Runs |-> IF greet[r] = "PENDING" THEN "CANCELLED" ELSE greet[r]]
  /\ Conclude(p, "done")
  /\ UNCHANGED <<event, queueVars, messageVars, campaign, enrol, optedOut, review, spent>>

StopEnrollments(p) ==
  /\ Running(p, "stop")
  /\ enrol' = [enrol EXCEPT !.status = IF @ = "ACTIVE" THEN "STOPPED" ELSE @]
  /\ greet' = [r \in Runs |-> IF greet[r] = "PENDING" THEN "CANCELLED" ELSE greet[r]]
  /\ Conclude(p, "done")
  /\ UNCHANGED <<event, queueVars, messageVars, campaign, optedOut, review, spent>>

\* A paused campaign has no triggers.  An old message, or one recovered by hand,
\* is acted on only if the history shows that nobody has answered it.
Match(p) ==
  LET e == proc[p].ev IN
  /\ Running(p, "match")
  /\ skipped' = IF campaign.open THEN skipped ELSE skipped \cup {e}
  /\ IF ~campaign.open
     THEN Conclude(p, "done") /\ UNCHANGED spent
     ELSE IF ~HasAge(e) /\ proc[p].force # "manual"
     THEN Goto(p, "decide") /\ UNCHANGED spent
     ELSE \E state \in {"replied", "eligible", "ambiguous"} :
            /\ Check(e, state)
            /\ \/ state = "replied" /\ Conclude(p, "done")
               \/ state = "ambiguous" /\ Conclude(p, "permanent")
               \/ /\ state = "eligible"
                  /\ proc' = [proc EXCEPT ![p].pc = "decide", ![p].force = "checked"]
  /\ UNCHANGED <<event, queueVars, recorded, logVars, echoed, lost, answer, funnelVars, review>>

-----------------------------------------------------------------------------
(***************************************************************************)
(* The trigger transaction.                                                  *)
(***************************************************************************)
Result(action, job) == [action |-> action, job |-> job]

\* Mutant: it is given the status of a queued notification.
RecoveredAsEvent(r) == IF greet[r] \in {"FAILED", "EXPIRED"} THEN "RECEIVED" ELSE greet[r]

\* A greeting that failed, or whose window passed, is queued again.
Recovered(r) == IF greet[r] \in {"FAILED", "EXPIRED"} THEN "PENDING" ELSE greet[r]

OpenRun ==
  /\ enrol.run + 1 \in Runs
  /\ enrol' = [status |-> "ACTIVE", run |-> enrol.run + 1]
  /\ greet' = [greet EXCEPT
       ![enrol.run + 1] = "PENDING",
       ![enrol.run] = IF @ = "PENDING" THEN "CANCELLED" ELSE @]

\* What is to be done about a trigger, read inside the transaction.
Ruling(recovery) ==
  IF optedOut THEN "BLOCKED"
  ELSE IF ~campaign.open THEN "IGNORED"
  ELSE IF enrol.run = 0 THEN "ENROLLED"
  ELSE IF recovery \/ campaign.existing = "CONTINUE" THEN "CONTINUED"
  ELSE IF campaign.existing = "RESTART" THEN "RESTARTED"
  ELSE IF campaign.existing = "SPECIAL" THEN "SPECIAL" ELSE "IGNORED"

\* A recovery keeps the enrolment as it is and brings its greeting back.
Continue(recovery) ==
  IF recovery
  THEN /\ greet' = [greet EXCEPT ![enrol.run] = Recovered(enrol.run)]
       /\ UNCHANGED enrol
  ELSE /\ enrol' = [enrol EXCEPT !.status = "ACTIVE"]
       /\ UNCHANGED greet

\* The decision and its checkpoint, for a message that has none.
Enact(e, recovery) ==
  LET action == Ruling(recovery) IN
  \/ /\ action \in {"ENROLLED", "RESTARTED"}
     /\ OpenRun
     /\ Checkpoint(e, Result(action, enrol.run + 1))
  \/ /\ action = "CONTINUED"
     /\ Continue(recovery)
     /\ Checkpoint(e, Result(action, enrol.run))
  \/ /\ action \in {"SPECIAL", "IGNORED", "BLOCKED"}
     /\ UNCHANGED <<enrol, greet>>
     /\ Checkpoint(e, Result(action, 0))

\* Mutant: the checkpoint is not read again inside the transaction.
DecideTwice(p) ==
  /\ Running(p, "decide")
  /\ Enact(proc[p].ev, proc[p].force # "none")
  /\ Goto(p, "complete")
  /\ UNCHANGED <<queueVars, messageVars, campaign, optedOut, review, spent>>

\* handleTrigger.  Two processors may get here with one message.
Decide(p) ==
  LET e == proc[p].ev IN
  /\ Running(p, "decide")
  /\ IF Decided(e) THEN UNCHANGED <<event, enrol, greet>>
     ELSE Enact(e, proc[p].force # "none")
  /\ Goto(p, "complete")
  /\ UNCHANGED <<queueVars, messageVars, campaign, optedOut, review, spent>>

\* Mutant: a greeting in the outbound queue counts as sent.
OutcomeEarly(r) ==
  IF greet[r] \in {"SENT", "ANSWERED", "PENDING"} THEN "done"
  ELSE IF greet[r] = "PROCESSING" THEN "awaiting" ELSE "permanent"

\* InitialReplyOutcome.
Outcome(r) ==
  IF greet[r] \in {"SENT", "ANSWERED"} THEN "done"
  ELSE IF greet[r] \in {"PENDING", "PROCESSING"} THEN "awaiting" ELSE "permanent"

\* completeTriggerReply: the greeting's state, or the courtesy reply.
Complete(p) ==
  LET result == event[proc[p].ev].result IN
  /\ Running(p, "complete")
  /\ IF result.job # 0 THEN Conclude(p, Outcome(result.job))
     ELSE IF result.action # "SPECIAL" \/ Log!HasReceipt(proc[p].ev)
     THEN Conclude(p, "done") ELSE Goto(p, "gate")
  /\ UNCHANGED <<event, queueVars, messageVars, funnelVars, review, spent>>

-----------------------------------------------------------------------------
(***************************************************************************)
(* The courtesy reply: Gate.Send and Sender.Send.                            *)
(***************************************************************************)
InGate == {p \in Processors : proc[p].pc \in GatePhases}

TakeSlot(p) ==
  /\ Running(p, "gate")
  /\ Cardinality(InGate) < Slots
  /\ Goto(p, "check")
  /\ UNCHANGED <<event, queueVars, messageVars, funnelVars, review, spent>>

\* A receipt, an attempt in doubt, an answer by hand since, the history.
CheckReply(p) ==
  LET e == proc[p].ev IN
  /\ Running(p, "check")
  /\ IF Log!HasReceipt(e) THEN Conclude(p, "done") /\ UNCHANGED spent
     ELSE IF Log!InDoubt(e) THEN Conclude(p, "permanent") /\ UNCHANGED spent
     ELSE IF Answered("hand", e) THEN Conclude(p, "done") /\ UNCHANGED spent
     ELSE IF ~HasAge(e) THEN Goto(p, "create") /\ UNCHANGED spent
     ELSE \E state \in {"replied", "eligible", "ambiguous"} :
            /\ Check(e, state)
            /\ \/ state = "replied" /\ Conclude(p, "done")
               \/ state = "ambiguous" /\ Conclude(p, "permanent")
               \/ state = "eligible" /\ Goto(p, "create")
  /\ UNCHANGED <<event, queueVars, messageVars, funnelVars, review>>

\* The consent, then the row.  A refused consent is an error like any other here.
CreateReply(p) ==
  LET e == proc[p].ev IN
  /\ Running(p, "create")
  /\ IF optedOut
     THEN Conclude(p, "retry") /\ UNCHANGED logVars
     ELSE \E n \in Rows :
            /\ Log!Unused(e, n)
            /\ Log!SetRow(e, n, "PENDING")
            /\ proc' = [proc EXCEPT ![p].pc = "deliver", ![p].cur = n]
  /\ UNCHANGED <<event, queueVars, recorded, echoed, lost, skipped, answer, funnelVars, review, spent>>

\* The copy is in the chat, and in the journal; the account may notify of it.
Arrive(e, n) ==
  /\ Log!Reach(e, n)
  /\ AnswerAt("journal", arrived)
  /\ UNCHANGED queueVars \/ Notify("api", <<e, n>>)

Accept(p) ==
  /\ proc[p].pc = "deliver"
  /\ Arrive(proc[p].ev, proc[p].cur)
  /\ proc' = [proc EXCEPT ![p].pc = "acked", ![p].at = arrived]
  /\ UNCHANGED <<event, recorded, echoed, lost, skipped, funnelVars, review, spent>>

LoseAck(p) ==
  /\ proc[p].pc = "deliver"
  /\ Spend("lostack")
  /\ Arrive(proc[p].ev, proc[p].cur)
  /\ lost' = lost \cup {proc[p].ev}
  /\ proc' = [proc EXCEPT ![p].pc = "rowfail", ![p].verdict = "retry"]
  /\ UNCHANGED <<event, recorded, echoed, skipped, funnelVars, review>>

Reject(p) ==
  /\ proc[p].pc = "deliver"
  /\ \E v \in {"retry", "permanent"} :
        /\ Spend(IF v = "retry" THEN "outage" ELSE "refusal")
        /\ proc' = [proc EXCEPT ![p].pc = "rowfail", ![p].verdict = v]
  /\ UNCHANGED <<event, queueVars, messageVars, funnelVars, review>>

MarkReplyFailed(p) ==
  /\ Running(p, "rowfail")
  /\ Log!SetRow(proc[p].ev, proc[p].cur, "FAILED")
  /\ Goto(p, "finish")
  /\ UNCHANGED <<event, queueVars, recorded, echoed, lost, skipped, answer, funnelVars, review, spent>>

\* The provider's id may be taken: its echo came first and made a row of its own.
MarkReplySent(p) ==
  /\ proc[p].pc = "acked"
  /\ IF <<proc[p].ev, proc[p].cur>> \in echoed
     THEN Conclude(p, "permanent") /\ UNCHANGED <<logVars, answer>>
     ELSE /\ Log!SetRow(proc[p].ev, proc[p].cur, "SENT")
          /\ AnswerAt("auto", proc[p].at)
          /\ Conclude(p, "done")
  /\ UNCHANGED <<event, queueVars, recorded, echoed, lost, skipped, funnelVars, review, spent>>

-----------------------------------------------------------------------------
(***************************************************************************)
(* handle(): what becomes of the event; its lease; failures.                 *)
(***************************************************************************)
GiveUp(p) == proc[p].tries >= MaxEventAttempts

Finish(p) ==
  LET e == proc[p].ev  v == proc[p].verdict IN
  /\ Running(p, "finish")
  /\ \/ v = "done" /\ MarkEvent(e, "PROCESSED", "none")
     \/ v = "awaiting" /\ DeferEvent(e, "awaiting")
     \/ v = "permanent" /\ MarkEvent(e, "FAILED", "permanent")
     \/ v = "retry" /\ GiveUp(p) /\ MarkEvent(e, "FAILED", "transient")
     \/ v = "retry" /\ ~GiveUp(p) /\ DeferEvent(e, "transient")
  /\ Stop({p})
  /\ UNCHANGED <<queueVars, messageVars, funnelVars, review, spent>>

\* A statement fails.  An error of the database is one to retry, but an
\* acknowledged reply whose receipt is not saved needs a human.
DbFails(p) ==
  /\ Spend("db")
  /\ \/ \E phase \in {"start", "optout", "stop", "match", "decide", "complete", "check", "create"} :
           Running(p, phase) /\ Conclude(p, "retry")
     \/ Running(p, "rowfail") /\ Goto(p, "finish")
     \/ Running(p, "finish") /\ Stop({p})
     \/ proc[p].pc = "acked" /\ Conclude(p, "permanent")
  /\ UNCHANGED <<event, queueVars, messageVars, funnelVars, review>>

\* keepLease, every minute: renew, or learn that the attempt is not ours.
Heartbeat(p) ==
  LET e == proc[p].ev IN
  /\ proc[p].pc # "idle" /\ proc[p].ctx
  /\ \/ /\ Renewable(e, proc[p].tries) /\ ~event[e].fresh
        /\ Renew(e)
        /\ UNCHANGED <<proc, spent>>
     \/ /\ ~Renewable(e, proc[p].tries)
        /\ proc' = [proc EXCEPT ![p].ctx = FALSE]
        /\ UNCHANGED <<event, spent>>
     \/ /\ Spend("db")
        /\ proc' = [proc EXCEPT ![p].ctx = FALSE]
        /\ UNCHANGED event
  /\ UNCHANGED <<queueVars, messageVars, funnelVars, review>>

\* Under a cancelled context every statement fails; a request in flight may
\* have got through.
Abandon(p) ==
  /\ ~proc[p].ctx /\ proc[p].pc \notin {"idle", "acked"}
  /\ \/ UNCHANGED <<queueVars, logVars, answer>>
     \/ proc[p].pc = "deliver" /\ Arrive(proc[p].ev, proc[p].cur)
  /\ Stop({p})
  /\ UNCHANGED <<event, recorded, echoed, lost, skipped, funnelVars, review, spent>>

-----------------------------------------------------------------------------
(***************************************************************************)
(* Sweeps, time and the crash.                                               *)
(***************************************************************************)
Attended(e) ==
  \E p \in Processors :
     /\ proc[p].pc # "idle" /\ proc[p].ev = e /\ proc[p].ctx
     /\ proc[p].tries = event[e].attempts

\* A lease lapses after five minutes, so its message is that old.  One that is
\* attended lapses only if the process is suspended or the database blocked.
Lapse(e) ==
  /\ HasAge(e)
  /\ Expire(e)
  /\ IF Attended(e) THEN Spend("stall") ELSE UNCHANGED spent
  /\ UNCHANGED <<queueVars, messageVars, funnelVars, proc, review>>

ReleaseStale ==
  /\ Abandoned # {}
  /\ ReleaseAbandoned
  /\ UNCHANGED <<queueVars, messageVars, funnelVars, proc, review, spent>>

\* Mutant: what was given up stays given up.
RecoverNothing ==
  /\ FALSE
  /\ UNCHANGED vars

RecoverRetryable ==
  /\ Exhausted(Incoming) # {}
  /\ RecoverExhausted(Incoming)
  /\ UNCHANGED <<queueVars, messageVars, funnelVars, proc, review, spent>>

BackoffElapses(e) ==
  /\ BecomeDue(e)
  /\ UNCHANGED <<queueVars, messageVars, funnelVars, proc, review, spent>>

OnWire == {p \in Processors : proc[p].pc = "deliver"}

\* Each reply on the wire got through or not.
Crash ==
  /\ Spend("crash")
  /\ \E S \in SUBSET OnWire :
        /\ accepted' = [e \in Events |->
             accepted[e] \cup {n \in Rows : \E p \in S : proc[p].ev = e /\ proc[p].cur = n}]
        /\ IF S = {} THEN UNCHANGED answer ELSE AnswerAt("journal", arrived)
  /\ Stop(Processors)
  /\ poll' = "idle"
  /\ review' = NoReview
  /\ UNCHANGED <<event, kind, about, arrived, deleted, aged, recorded, row, echoed, lost, skipped, funnelVars>>

-----------------------------------------------------------------------------
(***************************************************************************)
(* The operator: a pause, and the recovery by hand.                          *)
(***************************************************************************)
Pause ==
  /\ campaign.open
  /\ Spend("pause")
  /\ campaign' = [campaign EXCEPT !.open = FALSE]
  /\ UNCHANGED <<event, queueVars, messageVars, enrol, greet, optedOut, proc, review>>

Activate ==
  /\ ~campaign.open
  /\ campaign' = [campaign EXCEPT !.open = TRUE]
  /\ UNCHANGED <<event, queueVars, messageVars, enrol, greet, optedOut, proc, review, spent>>

\* The greeting that a recovery would bring back.  A message that was never
\* decided on takes the enrolment's, whose run it may have nothing to do with.
GreetingOf(e) ==
  IF Decided(e) THEN event[e].result.job ELSE IF e \in recorded THEN enrol.run ELSE 0

\* recoveryEligibility, for a closed event; the history is asked last.
Recoverable(e) ==
  /\ e \in Triggers /\ event[e].status \in {"PROCESSED", "FAILED"}
  /\ campaign.open
  /\ IF Decided(e)
     THEN event[e].result.action = "SPECIAL" \/ event[e].result.job # 0
     ELSE GreetingOf(e) # 0 => /\ \A r \in Runs : greet[r] # "SENT"
                               /\ enrol.status = "ACTIVE"
  /\ greet[GreetingOf(e)] \notin {"SENT", "ANSWERED", "CANCELLED"}
  /\ ~Log!HasReceipt(e) /\ ~Log!InDoubt(e)
  /\ ~optedOut
  /\ "eligible" \in Checks(e)

\* RequeueRecovery reads all that first ...  A recovery by hand needs a
\* disturbance to be of use, so it comes on top of the Budget, as the last.
Examine(e) ==
  /\ "recovery" \in Faults /\ spent <= Budget /\ spent' = Budget + 1
  /\ review = NoReview
  /\ Recoverable(e)
  /\ review' = [ev |-> e, job |-> GreetingOf(e), decided |-> Decided(e)]
  /\ UNCHANGED <<event, queueVars, messageVars, funnelVars, proc>>

\* ... and then compares and sets, if no answer has been recorded meanwhile.
Requeue ==
  LET e == review.ev IN
  /\ review # NoReview
  /\ review' = NoReview
  /\ IF /\ event[e].status \in {"PROCESSED", "FAILED"}
        /\ ~Log!HasReceipt(e) /\ greet[review.job] # "SENT"
        /\ ~Answered("hand", e) /\ ~Answered("auto", e)
     THEN /\ Put(e, Revive(e, "manual"))
          /\ greet' = IF review.decided /\ review.job # 0
                      THEN [greet EXCEPT ![review.job] = Recovered(review.job)] ELSE greet
     ELSE UNCHANGED <<event, greet>>
  /\ UNCHANGED <<queueVars, messageVars, campaign, enrol, optedOut, proc, spent>>

-----------------------------------------------------------------------------
(***************************************************************************)
(* The greeting's job, in outline: Delivery has the detail.                  *)
(***************************************************************************)
ClaimGreeting(r) ==
  /\ greet[r] = "PENDING"
  /\ greet' = [greet EXCEPT ![r] = "PROCESSING"]
  /\ UNCHANGED <<event, queueVars, messageVars, campaign, enrol, optedOut, proc, review, spent>>

\* The message a greeting answers: the first whose checkpoint names the job.
Asked(r) == {e \in Events : event[e].result.job = r}

\* Sent, unless it has been answered or the contact has left; a failure, or a
\* window that has passed, is a disturbance.
SettleGreeting(r) ==
  /\ greet[r] = "PROCESSING"
  /\ \/ /\ greet' = [greet EXCEPT ![r] = "SENT"]
        /\ answer' = [answer EXCEPT !["journal"] = arrived, !["auto"] = arrived]
        /\ UNCHANGED spent
     \/ /\ \E e \in Oldest(Asked(r)) : Answered("hand", e) \/ (HasAge(e) /\ Answered("journal", e))
        /\ greet' = [greet EXCEPT ![r] = "ANSWERED"]
        /\ UNCHANGED <<answer, spent>>
     \/ /\ optedOut
        /\ greet' = [greet EXCEPT ![r] = "CANCELLED"]
        /\ UNCHANGED <<answer, spent>>
     \/ /\ Spend("refusal")
        /\ \E s \in {"FAILED", "EXPIRED"} : greet' = [greet EXCEPT ![r] = s]
        /\ UNCHANGED answer
  /\ UNCHANGED <<event, queueVars, recorded, logVars, echoed, lost, skipped, campaign, enrol, optedOut, proc, review>>

-----------------------------------------------------------------------------
ProcessorStep(p) ==
  \/ Claim(p) \/ Record(p) \/ Echo(p) \/ OptOut(p) \/ StopEnrollments(p) \/ Match(p)
  \/ Decide(p) \/ Complete(p) \/ TakeSlot(p) \/ CheckReply(p) \/ CreateReply(p)
  \/ MarkReplyFailed(p) \/ MarkReplySent(p) \/ Finish(p) \/ Abandon(p)

Next ==
  \/ Write \/ PhoneReply \/ Age \/ Ingest \/ Acknowledge \/ DeleteFails
  \/ \E p \in Processors :
        ProcessorStep(p) \/ Accept(p) \/ LoseAck(p) \/ Reject(p) \/ DbFails(p) \/ Heartbeat(p)
  \/ \E e \in Events : Lapse(e) \/ BackoffElapses(e) \/ Examine(e)
  \/ ReleaseStale \/ RecoverRetryable \/ Crash \/ Pause \/ Activate \/ Requeue
  \/ \E r \in Runs : ClaimGreeting(r) \/ SettleGreeting(r)

Spec == Init /\ [][Next]_vars

\* The loops tick, the poller polls, requests return, time passes and the
\* scheduler delivers.
Fairness ==
  /\ \A p \in Processors : WF_vars(ProcessorStep(p)) /\ WF_vars(Accept(p))
  /\ \A e \in Events : WF_vars(Lapse(e) /\ UNCHANGED spent) /\ WF_vars(BackoffElapses(e))
  /\ WF_vars(Ingest) /\ WF_vars(Acknowledge) /\ WF_vars(Age)
  /\ WF_vars(ReleaseStale) /\ WF_vars(RecoverRetryable)
  /\ \A r \in Runs : WF_vars(ClaimGreeting(r)) /\ WF_vars(SettleGreeting(r))

FairSpec == Spec /\ Fairness

-----------------------------------------------------------------------------
(***************************************************************************)
(* Properties.                                                               *)
(***************************************************************************)
Promise == INSTANCE InboundPromise WITH
  Messages <- Events,
  Decisions <- [action : Actions, job : Runs],
  decision <- [e \in Events |-> event[e].result],
  run <- enrol.run,
  copies <- accepted

\* Redelivered notifications, two processors on one message, recoveries and
\* crashes, and still the two tables behave as InboundPromise says: one decision
\* per message, one run per decision, one courtesy reply unless an
\* acknowledgement was lost (HandleTriggerEvent, Sender.Send).
KeepsPromise == Promise!PromiseSpec

\* Once a stop word has been dealt with the enrolment is stopped for good,
\* whatever earlier or later trigger was being processed beside it
\* (handleUnsubscribe, and the look at the opt-out inside the transaction).
StopIsComplete ==
  (\E e \in Events : kind[e] = "stop" /\ event[e].status = "PROCESSED")
     => optedOut /\ enrol.status # "ACTIVE"

\* A trigger message that is owed a reply is PROCESSED only when its greeting or
\* its courtesy reply has been sent, or some other answer has followed it.  The
\* statement that closes an event does not look whose attempt it is, and still a
\* processor that has lost its lease cannot close it early, unless it is one that
\* found the campaign paused (completeTriggerReply, MarkProcessed).
Owes(result) == result.job # 0 \/ result.action = "SPECIAL"

ProcessedIsAnswered ==
  \A e \in Triggers \ skipped :
     event[e].status = "PROCESSED" /\ Owes(event[e].result) =>
        \/ greet[event[e].result.job] \in {"SENT", "ANSWERED"}
        \/ \E x \in DOMAIN answer : Answered(x, e)

\* Every notification is stored and dealt with for good, across a failed
\* statement, a lost lease and a crash; but for a courtesy reply to a contact who
\* has left meanwhile: handle() takes a consent failure for one to retry, so that
\* event is given up and recovered for ever.
Settled(e) ==
  \/ event[e].status = "PROCESSED"
  \/ event[e].status = "FAILED" /\ (event[e].error = "permanent" \/ e \notin Incoming)

EveryEventSettles ==
  \A e \in Events :
     <>[](arrived >= e => Settled(e) \/ (optedOut /\ event[e].result.action = "SPECIAL"))

=============================================================================
