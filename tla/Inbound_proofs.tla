--------------------------- MODULE Inbound_proofs ---------------------------
(***************************************************************************)
(* Theorems about Inbound, for any number of notifications, processors,      *)
(* attempts and disturbances of every kind.                                   *)
(***************************************************************************)
EXTENDS Inbound, FiniteSetTheorems, TLAPS

-----------------------------------------------------------------------------
(***************************************************************************)
(* Type correctness.                                                         *)
(***************************************************************************)
\* What TypeOK says of the rows of webhook_events.
EventsOK == EventTypeOK /\ \A e \in Events : event[e].result.job \in Runs

\* A row that is put back with fields of their types keeps the table's types.
LEMMA PutTypes ==
  ASSUME EventsOK, NEW e, NEW r \in EventRow, r.result.job \in Runs, Put(e, r)
  PROVE  EventsOK'
BY DEF EventsOK, EventTypeOK, Put

\* A notification that is stored.
LEMMA InsertTypes ==
  ASSUME EventsOK, NEW e, Insert(e)
  PROVE  EventsOK'
<1>0. Undecided \in Results /\ Undecided.job \in Runs
  BY InboundAssumption DEF Undecided, Results, Runs
<1>1. /\ [NoRow EXCEPT !.status = "RECEIVED"] \in EventRow
      /\ [NoRow EXCEPT !.status = "RECEIVED"].result = Undecided
  <2> HIDE DEF Undecided
  <2>1. QED
    BY <1>0 DEF NoRow, EventRow, EventStatuses, Errors
<1>2. CASE UNCHANGED event
  BY <1>2 DEF EventsOK, EventTypeOK
<1>3. QED
  BY <1>0, <1>1, <1>2, PutTypes DEF Insert

\* So does every statement on one row but the checkpoint.
LEMMA StatementTypes ==
  ASSUME EventsOK, NEW e \in Events,
         \/ Take(e) \/ Renew(e) \/ Expire(e) \/ BecomeDue(e)
         \/ \E s \in EventStatuses, x \in Errors : MarkEvent(e, s, x)
         \/ \E x \in Errors : DeferEvent(e, x)
         \/ \E x \in Errors : Put(e, Revive(e, x))
         \/ UNCHANGED event
  PROVE  EventsOK'
<1>0. event[e] \in EventRow /\ event[e].result.job \in Runs
  BY DEF EventsOK, EventTypeOK
<1>1. CASE UNCHANGED event
  BY <1>1 DEF EventsOK, EventTypeOK
<1>3. CASE Take(e)
  <2> DEFINE r == [event[e] EXCEPT !.status = "PROCESSING", !.attempts = @ + 1, !.fresh = TRUE]
  <2>0. event[e].attempts + 1 \in Nat
    BY <1>0 DEF EventRow
  <2>1. r \in EventRow /\ r.result = event[e].result
    BY <1>0, <2>0 DEF EventRow, EventStatuses
  <2>2. QED
    BY <1>0, <1>3, <2>1, PutTypes DEF Take
<1>2. CASE Renew(e) \/ Expire(e) \/ BecomeDue(e)
  <2>1. \A x \in BOOLEAN : /\ [event[e] EXCEPT !.fresh = x] \in EventRow
                            /\ [event[e] EXCEPT !.due = x] \in EventRow
                            /\ [event[e] EXCEPT !.fresh = x].result = event[e].result
                            /\ [event[e] EXCEPT !.due = x].result = event[e].result
    BY <1>0 DEF EventRow
  <2>2. QED
    BY <1>0, <1>2, <2>1, PutTypes DEF Renew, Expire, BecomeDue
<1>4. CASE \E s \in EventStatuses, x \in Errors : MarkEvent(e, s, x)
  BY <1>0, <1>1, <1>4, PutTypes DEF MarkEvent, EventRow
<1>5. CASE \E x \in Errors : DeferEvent(e, x)
  <2>1. PICK x \in Errors : DeferEvent(e, x)
    BY <1>5
  <2> DEFINE n == IF x = "awaiting" /\ event[e].attempts > 0 THEN event[e].attempts - 1
                                                            ELSE event[e].attempts
  <2>2. n \in Nat
    BY <1>0 DEF EventRow
  <2> HIDE DEF n
  <2> DEFINE r == [event[e] EXCEPT !.status = "RECEIVED", !.error = x, !.due = FALSE,
                                    !.fresh = TRUE, !.attempts = n]
  <2>3. r \in EventRow /\ r.result = event[e].result
    BY <1>0, <2>2 DEF EventRow, EventStatuses
  <2>4. Put(e, r) \/ UNCHANGED event
    BY <2>1 DEF DeferEvent, n
  <2>5. QED
    BY <1>0, <1>1, <2>3, <2>4, PutTypes
<1>6. CASE \E x \in Errors : Put(e, Revive(e, x))
  <2>1. \A x \in Errors : Revive(e, x) \in EventRow /\ Revive(e, x).result = event[e].result
    BY <1>0 DEF Revive, EventRow, EventStatuses
  <2>2. QED
    BY <1>0, <1>6, <2>1, PutTypes
<1>7. QED
  BY <1>1, <1>2, <1>3, <1>4, <1>5, <1>6

\* The sweeps write many rows at once.
LEMMA SweepTypes ==
  ASSUME EventsOK, ReleaseAbandoned \/ \E C \in SUBSET Events : RecoverExhausted(C)
  PROVE  EventsOK'
<1>1. \A e \in Events : /\ [event[e] EXCEPT !.status = "RECEIVED", !.fresh = TRUE] \in EventRow
                        /\ Revive(e, event[e].error) \in EventRow
                        /\ Revive(e, event[e].error).result = event[e].result
  BY DEF EventsOK, EventTypeOK, Revive, EventRow, EventStatuses
<1>2. CASE ReleaseAbandoned
  BY <1>1, <1>2 DEF EventsOK, EventTypeOK, ReleaseAbandoned, EventRow
<1>3. CASE \E C \in SUBSET Events : RecoverExhausted(C)
  BY <1>1, <1>3 DEF EventsOK, EventTypeOK, RecoverExhausted
<1>4. QED
  BY <1>2, <1>3

\* The checkpoint names a run.
LEMMA CheckpointTypes ==
  ASSUME EventsOK, NEW e \in Events, NEW a \in Actions, NEW r \in Runs, Checkpoint(e, Result(a, r))
  PROVE  EventsOK'
<1>1. [event[e] EXCEPT !.result = Result(a, r)] \in EventRow
  BY InboundAssumption DEF EventsOK, EventTypeOK, EventRow, Result, Results, Runs
<1>2. [event[e] EXCEPT !.result = Result(a, r)].result.job \in Runs
  BY DEF EventsOK, EventTypeOK, EventRow, Result
<1>3. QED
  BY <1>1, <1>2, PutTypes DEF Checkpoint

\* The decision is one of the trigger transaction's actions, on a run of the
\* enrolment.
LEMMA EnactTypes ==
  ASSUME TypeOK, NEW e \in Events, NEW b \in BOOLEAN, Enact(e, b)
  PROVE  EventsOK' /\ enrol' \in [status : {"none", "ACTIVE", "STOPPED"}, run : Runs]
         /\ greet' \in [Runs -> GreetStates]
<1>1. EventsOK /\ 0 \in Runs /\ enrol.run \in Runs
  BY InboundAssumption DEF TypeOK, EventsOK, FunnelTypeOK, Runs
<1>2. \A r \in Runs : Recovered(r) \in GreetStates
  BY DEF TypeOK, FunnelTypeOK, Recovered, GreetStates
<1>3. CASE OpenRun /\ \E a \in {"ENROLLED", "RESTARTED"} : Checkpoint(e, Result(a, enrol.run + 1))
  <2>1. enrol.run + 1 \in Runs
    BY <1>3 DEF OpenRun
  <2>2. EventsOK'
    BY <1>1, <1>3, <2>1, CheckpointTypes DEF Actions
  <2>3. QED
    BY <1>3, <2>1, <2>2 DEF OpenRun, TypeOK, FunnelTypeOK, GreetStates
<1>4. CASE Continue(b) /\ Checkpoint(e, Result("CONTINUED", enrol.run))
  <2>1. EventsOK'
    BY <1>1, <1>4, CheckpointTypes DEF Actions
  <2>2. QED
    BY <1>1, <1>2, <1>4, <2>1 DEF Continue, TypeOK, FunnelTypeOK
<1>5. CASE /\ UNCHANGED <<enrol, greet>>
           /\ \E a \in {"SPECIAL", "IGNORED", "BLOCKED"} : Checkpoint(e, Result(a, 0))
  <2>1. EventsOK'
    BY <1>1, <1>5, CheckpointTypes DEF Actions
  <2>2. QED
    BY <1>5, <2>1 DEF TypeOK, FunnelTypeOK
<1>6. QED
  BY <1>3, <1>4, <1>5 DEF Enact

\* Who is at work holds a notification.
LEMMA HeldEvent ==
  ASSUME TypeOK, NEW p \in Processors, proc[p].pc # "idle"
  PROVE  proc[p].ev \in Events /\ proc[p] \in Processor
BY DEF TypeOK, ProcTypeOK

\* The rows of webhook_events stay well typed.
LEMMA EventsNext ==
  ASSUME TypeOK, Next
  PROVE  EventsOK'
<1>0. EventsOK
  BY DEF TypeOK, EventsOK
<1>1. CASE \E p \in Processors : Claim(p) \/ Finish(p) \/ Heartbeat(p)
  <2>1. PICK p \in Processors : Claim(p) \/ Finish(p) \/ Heartbeat(p)
    BY <1>1
  <2>2. CASE Claim(p)
    BY <1>0, <2>2, StatementTypes DEF Claim
  <2>3. CASE Finish(p)
    BY <1>0, <2>3, HeldEvent, StatementTypes DEF Finish, Running, EventStatuses, Errors
  <2>4. CASE Heartbeat(p)
    BY <1>0, <2>4, HeldEvent, StatementTypes DEF Heartbeat
  <2>5. QED
    BY <2>1, <2>2, <2>3, <2>4
<1>2. CASE \E p \in Processors : Decide(p)
  <2>1. PICK p \in Processors : Decide(p)
    BY <1>2
  <2>2. proc[p].ev \in Events /\ (proc[p].force # "none") \in BOOLEAN
    BY <2>1, HeldEvent DEF Decide, Running
  <2>3. CASE UNCHANGED event
    BY <1>0, <2>3 DEF EventsOK, EventTypeOK
  <2>4. QED
    BY <2>1, <2>2, <2>3, EnactTypes DEF Decide
<1>3. CASE Ingest
  BY <1>0, <1>3, InsertTypes DEF Ingest
<1>4. CASE \E e \in Events : Lapse(e) \/ BackoffElapses(e)
  BY <1>0, <1>4, StatementTypes DEF Lapse, BackoffElapses
<1>5. CASE ReleaseStale \/ RecoverRetryable
  BY <1>0, <1>5, SweepTypes DEF ReleaseStale, RecoverRetryable, Incoming
<1>6. CASE Requeue
  <2>1. review.ev \in Events
    BY <1>6 DEF Requeue, TypeOK
  <2>2. "manual" \in Errors
    BY DEF Errors
  <2>3. QED
    BY <1>0, <1>6, <2>1, <2>2, StatementTypes DEF Requeue
<1>7. CASE UNCHANGED event
  BY <1>0, <1>7 DEF EventsOK, EventTypeOK
<1>8. ASSUME NEW p \in Processors,
             ProcessorStep(p) \/ Accept(p) \/ LoseAck(p) \/ Reject(p) \/ DbFails(p) \/ Heartbeat(p)
      PROVE  Claim(p) \/ Finish(p) \/ Heartbeat(p) \/ Decide(p) \/ UNCHANGED event
  BY <1>8
  DEF ProcessorStep, Record, Echo, OptOut, StopEnrollments, Match, Complete, TakeSlot, CheckReply,
      CreateReply, MarkReplyFailed, MarkReplySent, Abandon, Accept, LoseAck, Reject, DbFails
<1>9. ASSUME \/ Write \/ PhoneReply \/ Age \/ Acknowledge \/ DeleteFails \/ Crash \/ Pause \/ Activate
             \/ \E e \in Events : Examine(e)
             \/ \E r \in Runs : ClaimGreeting(r) \/ SettleGreeting(r)
      PROVE  UNCHANGED event
  BY <1>9
  DEF Write, PhoneReply, Age, Acknowledge, DeleteFails, Examine, Crash, Pause, Activate,
      ClaimGreeting, SettleGreeting
<1>10. QED
  BY <1>1, <1>2, <1>3, <1>4, <1>5, <1>6, <1>7, <1>8, <1>9 DEF Next

\* The next notification takes its number.
LEMMA NotifyTypes ==
  ASSUME QueueTypeOK, NEW k \in {"trigger", "stop", "phone", "api"}, NEW copy \in Copies \cup {NoCopy},
         Notify(k, copy)
  PROVE  QueueTypeOK'
BY DEF QueueTypeOK, Notify

\* The provider's queue and the poller.
LEMMA QueueNext ==
  ASSUME TypeOK, Next
  PROVE  QueueTypeOK'
<1>0. QueueTypeOK
  BY DEF TypeOK
<1>1. CASE Write \/ PhoneReply
  BY <1>0, <1>1, NotifyTypes DEF Write, PhoneReply
<1>2. CASE Age \/ Ingest \/ Acknowledge \/ DeleteFails
  BY <1>0, <1>2 DEF QueueTypeOK, Age, Ingest, Acknowledge, DeleteFails
<1>3. CASE \E p \in Processors : Accept(p) \/ LoseAck(p) \/ Abandon(p)
  <2>1. PICK p \in Processors : Accept(p) \/ LoseAck(p) \/ Abandon(p)
    BY <1>3
  <2> DEFINE copy == <<proc[p].ev, proc[p].cur>>
  <2>2. UNCHANGED queueVars \/ (proc[p].pc = "deliver" /\ Notify("api", copy))
    BY <2>1 DEF Accept, LoseAck, Abandon, Arrive
  <2>3. CASE Notify("api", copy) /\ proc[p].pc = "deliver"
    <3>1. proc[p].ev \in Events /\ proc[p].cur \in Rows
      BY <2>3 DEF TypeOK, ProcTypeOK
    <3>2. copy \in Copies
      BY <3>1 DEF Copies
    <3> HIDE DEF copy
    <3>3. QED
      BY <1>0, <2>3, <3>2, NotifyTypes
  <2>4. QED
    BY <1>0, <2>2, <2>3 DEF queueVars, QueueTypeOK
<1>4. CASE Crash
  BY <1>0, <1>4 DEF Crash, QueueTypeOK
<1>5. CASE UNCHANGED queueVars
  BY <1>0, <1>5 DEF queueVars, QueueTypeOK
<1>6. QED
  <2>1. ASSUME NEW p \in Processors,
               ProcessorStep(p) \/ Accept(p) \/ LoseAck(p) \/ Reject(p) \/ DbFails(p) \/ Heartbeat(p)
        PROVE  Accept(p) \/ LoseAck(p) \/ Abandon(p) \/ UNCHANGED queueVars
    BY <2>1
    DEF ProcessorStep, Claim, Record, Echo, OptOut, StopEnrollments, Match, Decide, Complete,
        TakeSlot, CheckReply, CreateReply, MarkReplyFailed, MarkReplySent, Finish, Reject, DbFails,
        Heartbeat
  <2>2. QED
    BY <1>1, <1>2, <1>3, <1>4, <1>5, <2>1
    DEF Next, Lapse, BackoffElapses, Examine, ReleaseStale, RecoverRetryable, Pause, Activate,
        Requeue, ClaimGreeting, SettleGreeting

\* Answers are numbers of notifications.
AnswerOK == answer \in [{"journal", "hand", "auto"} -> Nat]

LEMMA AnswerTypes ==
  ASSUME AnswerOK, NEW x \in {"journal", "hand", "auto"}, NEW n \in Nat,
         AnswerAt(x, n) \/ UNCHANGED answer
  PROVE  AnswerOK'
BY DEF AnswerOK, AnswerAt, Later

\* A row of messages is written, or a copy arrives.
LEMMA LogTypes ==
  ASSUME Log!LogTypeOK, NEW e \in Events, NEW n \in Rows, NEW s \in Log!RowStates,
         Log!SetRow(e, n, s) \/ Log!Reach(e, n)
  PROVE  Log!LogTypeOK'
BY DEF Log!LogTypeOK, Log!SetRow, Log!Reach

\* The rows of messages, and what is remembered of them.
LEMMA MessageNext ==
  ASSUME TypeOK, Next
  PROVE  MessageTypeOK'
<1>0. /\ MessageTypeOK /\ AnswerOK /\ Log!LogTypeOK /\ arrived \in Nat
      /\ \A p \in Processors : proc[p] \in Processor
      /\ \A p \in Processors : proc[p].pc # "idle" => proc[p].ev \in Events
      /\ \A p \in Processors : proc[p].pc \in {"deliver", "acked", "rowfail"} => proc[p].cur \in Rows
  BY DEF TypeOK, MessageTypeOK, AnswerOK, QueueTypeOK, ProcTypeOK
<1>1. CASE PhoneReply
  BY <1>0, <1>1, AnswerTypes DEF PhoneReply, MessageTypeOK, AnswerOK, logVars, Log!LogTypeOK
<1>2. CASE \E p \in Processors : Record(p) \/ Match(p)
  BY <1>0, <1>2 DEF Record, Match, Running, MessageTypeOK, logVars, Log!LogTypeOK
<1>3. CASE \E p \in Processors : Echo(p)
  <2>1. PICK p \in Processors : Echo(p)
    BY <1>3
  <2>0. proc[p].ev \in Events
    BY <1>0, <2>1 DEF Echo, Running
  <2>2. proc[p].ev - 1 \in Nat /\ about[proc[p].ev] \in Copies \cup {NoCopy}
    <3>1. \A e \in Events : e \in Nat /\ e # 0
      BY EventsAssumption, InboundAssumption
    <3>2. about[proc[p].ev] \in Copies \cup {NoCopy}
      BY <2>0 DEF TypeOK, QueueTypeOK
    <3>3. QED
      BY <2>0, <3>1, <3>2
  <2>3. AnswerOK'
    BY <1>0, <2>1, <2>2, AnswerTypes DEF Echo
  <2>4. echoed' \subseteq Copies
    BY <1>0, <2>1, <2>2 DEF Echo, MessageTypeOK
  <2>5. QED
    BY <1>0, <2>1, <2>3, <2>4 DEF Echo, MessageTypeOK, AnswerOK, logVars, Log!LogTypeOK
<1>4. CASE \E p \in Processors : CreateReply(p)
  BY <1>0, <1>4, LogTypes DEF CreateReply, Running, MessageTypeOK, logVars, Log!LogTypeOK, Log!RowStates
<1>5. CASE \E p \in Processors : MarkReplyFailed(p) \/ MarkReplySent(p)
  <2>1. PICK p \in Processors : MarkReplyFailed(p) \/ MarkReplySent(p)
    BY <1>5
  <2>2. proc[p].ev \in Events /\ proc[p].cur \in Rows /\ proc[p].at \in Nat
    BY <1>0, <2>1 DEF MarkReplyFailed, MarkReplySent, Running, Processor
  <2>3. Log!LogTypeOK'
    BY <1>0, <2>1, <2>2, LogTypes DEF MarkReplyFailed, MarkReplySent, logVars, Log!LogTypeOK, Log!RowStates
  <2>4. AnswerOK'
    BY <1>0, <2>1, <2>2, AnswerTypes DEF MarkReplyFailed, MarkReplySent
  <2>5. QED
    BY <1>0, <2>1, <2>3, <2>4 DEF MarkReplyFailed, MarkReplySent, MessageTypeOK, AnswerOK
<1>6. CASE \E p \in Processors : Accept(p) \/ LoseAck(p) \/ Abandon(p)
  <2>1. PICK p \in Processors : Accept(p) \/ LoseAck(p) \/ Abandon(p)
    BY <1>6
  <2>2. \/ UNCHANGED <<logVars, answer>>
        \/ /\ proc[p].pc = "deliver" /\ Log!Reach(proc[p].ev, proc[p].cur)
           /\ AnswerAt("journal", arrived)
    BY <2>1 DEF Accept, LoseAck, Abandon, Arrive
  <2>3. Log!LogTypeOK'
    BY <1>0, <2>2, LogTypes DEF logVars, Log!LogTypeOK, Log!RowStates
  <2>4. AnswerOK'
    BY <1>0, <2>2, AnswerTypes
  <2>5. lost' \subseteq Events /\ UNCHANGED <<recorded, echoed, skipped>>
    BY <1>0, <2>1 DEF Accept, LoseAck, Abandon, MessageTypeOK
  <2>6. QED
    BY <1>0, <2>3, <2>4, <2>5 DEF MessageTypeOK, AnswerOK
<1>7. CASE Crash
  <2>1. AnswerOK'
    BY <1>0, <1>7, AnswerTypes DEF Crash
  <2>2. Log!LogTypeOK'
    BY <1>0, <1>7 DEF Crash, Log!LogTypeOK
  <2>3. QED
    BY <1>0, <1>7, <2>1, <2>2 DEF Crash, MessageTypeOK, AnswerOK
<1>8. CASE \E r \in Runs : SettleGreeting(r)
  BY <1>0, <1>8 DEF SettleGreeting, MessageTypeOK, AnswerOK, logVars, Log!LogTypeOK
<1>9. CASE UNCHANGED messageVars
  BY <1>0, <1>9 DEF messageVars, logVars, MessageTypeOK, Log!LogTypeOK
<1>10. QED
  BY <1>1, <1>2, <1>3, <1>4, <1>5, <1>6, <1>7, <1>8, <1>9
  DEF Next, ProcessorStep, Write, Age, Ingest, Acknowledge, DeleteFails, Claim, OptOut,
      StopEnrollments, Decide, Complete, TakeSlot, CheckReply, Finish, Reject, DbFails, Heartbeat,
      Lapse, BackoffElapses, Examine, ReleaseStale, RecoverRetryable, Pause, Activate, Requeue,
      ClaimGreeting

\* The funnel: the campaign, the enrolment, its greetings and the opt-out.
LEMMA FunnelNext ==
  ASSUME TypeOK, Next
  PROVE  FunnelTypeOK'
<1>0. FunnelTypeOK
  BY DEF TypeOK
<1>1. \A r \in Runs : Recovered(r) \in GreetStates
  BY <1>0 DEF FunnelTypeOK, Recovered, GreetStates
<1>2. CASE \E p \in Processors : Decide(p)
  <2>1. PICK p \in Processors : Decide(p)
    BY <1>2
  <2>2. proc[p].ev \in Events /\ (proc[p].force # "none") \in BOOLEAN
    BY <2>1, HeldEvent DEF Decide, Running
  <2>3. CASE UNCHANGED <<event, enrol, greet>>
    BY <1>0, <2>1, <2>3 DEF Decide, FunnelTypeOK
  <2>4. CASE Enact(proc[p].ev, proc[p].force # "none")
    BY <1>0, <2>1, <2>2, <2>4, EnactTypes DEF Decide, FunnelTypeOK
  <2>5. QED
    BY <2>1, <2>3, <2>4 DEF Decide
<1>3. CASE \E p \in Processors : OptOut(p) \/ StopEnrollments(p)
  BY <1>0, <1>3 DEF OptOut, StopEnrollments, FunnelTypeOK, GreetStates
<1>4. CASE Pause \/ Activate
  BY <1>0, <1>4 DEF Pause, Activate, FunnelTypeOK
<1>5. CASE Requeue
  <2>1. greet' \in [Runs -> GreetStates]
    BY <1>0, <1>1, <1>5 DEF Requeue, FunnelTypeOK, TypeOK
  <2>2. QED
    BY <1>0, <1>5, <2>1 DEF Requeue, FunnelTypeOK
<1>6. CASE \E r \in Runs : ClaimGreeting(r) \/ SettleGreeting(r)
  BY <1>0, <1>6 DEF ClaimGreeting, SettleGreeting, FunnelTypeOK, GreetStates
<1>7. CASE UNCHANGED funnelVars
  BY <1>0, <1>7 DEF funnelVars, FunnelTypeOK
<1>8. QED
  <2>1. ASSUME NEW p \in Processors,
               ProcessorStep(p) \/ Accept(p) \/ LoseAck(p) \/ Reject(p) \/ DbFails(p) \/ Heartbeat(p)
        PROVE  Decide(p) \/ OptOut(p) \/ StopEnrollments(p) \/ UNCHANGED funnelVars
    BY <2>1
    DEF ProcessorStep, Claim, Record, Echo, Match, Complete, TakeSlot, CheckReply, CreateReply,
        MarkReplyFailed, MarkReplySent, Finish, Abandon, Accept, LoseAck, Reject, DbFails, Heartbeat
  <2>2. QED
    BY <1>2, <1>3, <1>4, <1>5, <1>6, <1>7, <2>1
    DEF Next, Write, PhoneReply, Age, Ingest, Acknowledge, DeleteFails, Lapse, BackoffElapses,
        Examine, ReleaseStale, RecoverRetryable, Crash

\* A processor takes a step of its own.
LEMMA SetProcTypes ==
  ASSUME ProcTypeOK, NEW p \in Processors, NEW r \in Processor,
         r.pc # "idle" => r.ev \in Events,
         r.pc \in {"deliver", "acked", "rowfail"} => r.cur \in Rows,
         proc' = [proc EXCEPT ![p] = r]
  PROVE  ProcTypeOK'
BY DEF ProcTypeOK

LEMMA GotoTypes ==
  ASSUME ProcTypeOK, NEW p \in Processors, proc[p].pc # "idle",
         \/ \E phase \in Phases \ {"deliver", "acked", "rowfail"} : Goto(p, phase)
         \/ \E v \in Verdicts : Conclude(p, v)
  PROVE  ProcTypeOK'
<1>0. proc[p] \in Processor /\ proc[p].ev \in Events
  BY DEF ProcTypeOK
<1>1. CASE \E phase \in Phases \ {"deliver", "acked", "rowfail"} : Goto(p, phase)
  <2>1. PICK phase \in Phases \ {"deliver", "acked", "rowfail"} : Goto(p, phase)
    BY <1>1
  <2> DEFINE r == [proc[p] EXCEPT !.pc = phase]
  <2>2. r \in Processor /\ r.ev = proc[p].ev /\ r.pc = phase
    BY <1>0 DEF Processor
  <2>3. proc' = [proc EXCEPT ![p] = r]
    BY <2>1 DEF Goto
  <2> HIDE DEF r
  <2>4. QED
    BY <1>0, <2>1, <2>2, <2>3, SetProcTypes
<1>2. CASE \E v \in Verdicts : Conclude(p, v)
  <2>1. PICK v \in Verdicts : Conclude(p, v)
    BY <1>2
  <2> DEFINE r == [proc[p] EXCEPT !.pc = "finish", !.verdict = v]
  <2>2. r \in Processor /\ r.ev = proc[p].ev /\ r.pc = "finish"
    BY <1>0 DEF Processor, Phases
  <2>3. proc' = [proc EXCEPT ![p] = r]
    BY <2>1 DEF Conclude, ProcTypeOK
  <2> HIDE DEF r
  <2>4. QED
    BY <1>0, <2>2, <2>3, SetProcTypes
<1>3. QED
  BY <1>1, <1>2

\* Nobody comes to hold a notification by letting one go.
LEMMA StopTypes ==
  ASSUME ProcTypeOK, NEW P, Stop(P)
  PROVE  ProcTypeOK'
<1>1. Idle \in Processor /\ Idle.pc = "idle"
  BY DEF Idle, Processor, Phases, Verdicts
<1>2. QED
  BY <1>1 DEF ProcTypeOK, Stop

\* The processors.
LEMMA ProcNext ==
  ASSUME TypeOK, Next
  PROVE  ProcTypeOK'
<1>0. ProcTypeOK
  BY DEF TypeOK
<1>1. ASSUME NEW p \in Processors,
             ProcessorStep(p) \/ Accept(p) \/ LoseAck(p) \/ Reject(p) \/ DbFails(p) \/ Heartbeat(p)
      PROVE  ProcTypeOK'
  <2>0. proc[p] \in Processor
    BY <1>0 DEF ProcTypeOK
  <2>1. CASE Claim(p)
    <3>1. PICK e \in Events : proc' = [proc EXCEPT ![p] =
             [Idle EXCEPT !.pc = "start", !.ev = e, !.tries = event[e].attempts + 1,
                          !.known = Decided(e),
                          !.force = IF event[e].error = "manual" THEN "manual" ELSE "none"]]
      BY <2>1 DEF Claim
    <3>2. event[e].attempts + 1 \in Nat /\ Decided(e) \in BOOLEAN
      BY DEF TypeOK, EventTypeOK, EventRow, Decided
    <3> DEFINE r == [Idle EXCEPT !.pc = "start", !.ev = e, !.tries = event[e].attempts + 1,
                          !.known = Decided(e),
                          !.force = IF event[e].error = "manual" THEN "manual" ELSE "none"]
    <3>3. r \in Processor /\ r.ev = e /\ r.pc = "start"
      <4> HIDE DEF Decided
      <4>1. QED
        BY <3>2 DEF Processor, Idle, Phases, Verdicts
    <3>4. proc' = [proc EXCEPT ![p] = r]
      BY <3>1
    <3> HIDE DEF r
    <3>5. QED
      BY <1>0, <3>3, <3>4, SetProcTypes
  <2>2. CASE Record(p)
    <3> DEFINE e == proc[p].ev
    <3> DEFINE r == [proc[p] EXCEPT
                       !.force = IF e \in recorded /\ @ = "none" THEN "dup" ELSE @,
                       !.pc = IF kind[e] = "stop" THEN "optout"
                              ELSE IF proc[p].known THEN "complete" ELSE "match"]
    <3>1. proc' = [proc EXCEPT ![p] = r]
      BY <1>0, <2>2 DEF Record, ProcTypeOK
    <3>2. r \in Processor /\ r.ev = e /\ r.pc \notin {"deliver", "acked", "rowfail"}
      BY <2>0 DEF Processor, Phases
    <3>3. e \in Events
      BY <2>2, HeldEvent DEF Record, Running
    <3> HIDE DEF r
    <3>4. QED
      BY <1>0, <3>1, <3>2, <3>3, SetProcTypes
  <2>3. CASE Match(p)
    <3>0. proc[p].pc # "idle" /\ proc[p].ev \in Events
      BY <2>3, HeldEvent DEF Match, Running
    <3>1. CASE proc' = [proc EXCEPT ![p].pc = "decide", ![p].force = "checked"]
      <4> DEFINE r == [proc[p] EXCEPT !.pc = "decide", !.force = "checked"]
      <4>1. r \in Processor /\ r.ev = proc[p].ev /\ r.pc = "decide"
        BY <2>0 DEF Processor, Phases
      <4>2. proc' = [proc EXCEPT ![p] = r]
        BY <1>0, <3>1 DEF ProcTypeOK
      <4> HIDE DEF r
      <4>3. QED
        BY <1>0, <3>0, <4>1, <4>2, SetProcTypes
    <3>2. CASE Goto(p, "decide") \/ \E v \in {"done", "permanent"} : Conclude(p, v)
      BY <1>0, <3>0, <3>2, GotoTypes DEF Phases, Verdicts
    <3>3. QED
      BY <2>3, <3>1, <3>2 DEF Match
  <2>4. CASE CreateReply(p)
    <3>0. proc[p].pc # "idle" /\ proc[p].ev \in Events
      BY <2>4, HeldEvent DEF CreateReply, Running
    <3>1. CASE \E n \in Rows : proc' = [proc EXCEPT ![p].pc = "deliver", ![p].cur = n]
      <4>1. PICK n \in Rows : proc' = [proc EXCEPT ![p].pc = "deliver", ![p].cur = n]
        BY <3>1
      <4> DEFINE r == [proc[p] EXCEPT !.pc = "deliver", !.cur = n]
      <4>2. r \in Processor /\ r.ev = proc[p].ev /\ r.cur \in Rows
        BY <2>0 DEF Processor, Phases, GatePhases
      <4>3. proc' = [proc EXCEPT ![p] = r]
        BY <1>0, <4>1 DEF ProcTypeOK
      <4> HIDE DEF r
      <4>4. QED
        BY <1>0, <3>0, <4>2, <4>3, SetProcTypes
    <3>2. CASE Conclude(p, "retry")
      BY <1>0, <3>0, <3>2, GotoTypes DEF Verdicts
    <3>3. QED
      BY <2>4, <3>1, <3>2 DEF CreateReply
  <2>5. CASE Accept(p)
    <3> DEFINE r == [proc[p] EXCEPT !.pc = "acked", !.at = arrived]
    <3>1. proc' = [proc EXCEPT ![p] = r]
      BY <1>0, <2>5 DEF Accept, ProcTypeOK
    <3>2. r \in Processor /\ r.ev = proc[p].ev /\ r.cur = proc[p].cur
      BY <2>0 DEF Processor, Phases, GatePhases, TypeOK, QueueTypeOK
    <3>3. r.ev \in Events /\ r.cur \in Rows
      BY <1>0, <2>5, <3>2 DEF Accept, ProcTypeOK
    <3> HIDE DEF r
    <3>4. QED
      BY <1>0, <3>1, <3>2, <3>3, SetProcTypes
  <2>6. CASE \E v \in Verdicts : /\ proc[p].pc = "deliver"
                                 /\ proc' = [proc EXCEPT ![p].pc = "rowfail", ![p].verdict = v]
    <3>1. PICK v \in Verdicts : proc' = [proc EXCEPT ![p].pc = "rowfail", ![p].verdict = v]
      BY <2>6
    <3> DEFINE r == [proc[p] EXCEPT !.pc = "rowfail", !.verdict = v]
    <3>2. proc' = [proc EXCEPT ![p] = r]
      BY <1>0, <3>1 DEF ProcTypeOK
    <3>3. r \in Processor /\ r.ev = proc[p].ev /\ r.cur = proc[p].cur
      BY <2>0 DEF Processor, Phases, GatePhases
    <3>4. r.ev \in Events /\ r.cur \in Rows
      BY <1>0, <2>6, <3>3 DEF ProcTypeOK
    <3> HIDE DEF r
    <3>5. QED
      BY <1>0, <3>2, <3>3, <3>4, SetProcTypes
  <2>7. CASE proc' = [proc EXCEPT ![p].ctx = FALSE]
    <3> DEFINE r == [proc[p] EXCEPT !.ctx = FALSE]
    <3>1. proc' = [proc EXCEPT ![p] = r]
      BY <1>0, <2>7 DEF ProcTypeOK
    <3>2. r \in Processor /\ r.ev = proc[p].ev /\ r.cur = proc[p].cur /\ r.pc = proc[p].pc
      BY <2>0 DEF Processor
    <3> HIDE DEF r
    <3>3. QED
      BY <1>0, <3>1, <3>2, SetProcTypes DEF ProcTypeOK
  <2>8. CASE \/ \E phase \in Phases \ {"deliver", "acked", "rowfail"} : Goto(p, phase)
             \/ \E v \in Verdicts : Conclude(p, v)
    <3>1. CASE proc[p].pc # "idle"
      BY <1>0, <2>8, <3>1, GotoTypes
    <3>2. QED
      BY <1>1, <2>1, <3>1
      DEF ProcessorStep, Record, Echo, OptOut, StopEnrollments, Match, Decide, Complete, TakeSlot,
          CheckReply, CreateReply, MarkReplyFailed, MarkReplySent, Finish, Abandon, Accept,
          LoseAck, Reject, DbFails, Heartbeat, Running
  <2>9. CASE Stop({p}) \/ UNCHANGED proc
    BY <1>0, <2>9, StopTypes DEF ProcTypeOK
  <2>10. QED
    <3>1. CASE LoseAck(p) \/ Reject(p)
      BY <2>6, <3>1 DEF LoseAck, Reject, Verdicts
    <3>2. CASE Heartbeat(p)
      BY <2>7, <2>9, <3>2 DEF Heartbeat
    <3>3. CASE DbFails(p)
      BY <2>8, <2>9, <3>3 DEF DbFails, Phases, Verdicts
    <3>4. CASE Complete(p)
      BY <2>8, <3>4 DEF Complete, Outcome, Phases, Verdicts
    <3>5. CASE Echo(p) \/ OptOut(p) \/ StopEnrollments(p) \/ Decide(p) \/ TakeSlot(p) \/ CheckReply(p)
      BY <2>8, <3>5
      DEF Echo, OptOut, StopEnrollments, Decide, TakeSlot, CheckReply, Phases, GatePhases, Verdicts
    <3>6. CASE MarkReplyFailed(p) \/ MarkReplySent(p)
      BY <2>8, <3>6 DEF MarkReplyFailed, MarkReplySent, Phases, Verdicts
    <3>7. CASE Finish(p) \/ Abandon(p)
      BY <2>9, <3>7 DEF Finish, Abandon
    <3>8. QED
      BY <1>1, <2>1, <2>2, <2>3, <2>4, <2>5, <3>1, <3>2, <3>3, <3>4, <3>5, <3>6, <3>7
      DEF ProcessorStep
<1>2. CASE Crash
  BY <1>0, <1>2, StopTypes DEF Crash
<1>3. CASE UNCHANGED proc
  BY <1>0, <1>3 DEF ProcTypeOK
<1>4. QED
  BY <1>1, <1>2, <1>3
  DEF Next, Write, PhoneReply, Age, Ingest, Acknowledge, DeleteFails, Lapse, BackoffElapses,
      Examine, ReleaseStale, RecoverRetryable, Pause, Activate, Requeue, ClaimGreeting,
      SettleGreeting

\* The recovery by hand and the count of disturbances.
ReviewOK ==
  /\ review \in [ev : Events \cup {0}, job : Runs, decided : BOOLEAN]
  /\ review # NoReview => review.ev \in Events
  /\ spent \in Nat

LEMMA ReviewNext ==
  ASSUME TypeOK, Next
  PROVE  ReviewOK'
<1>0. ReviewOK /\ Budget + 1 \in Nat /\ spent + 1 \in Nat
  BY InboundAssumption DEF TypeOK, ReviewOK
<1>1. CASE \E e \in Events : Examine(e)
  <2>1. PICK e \in Events : Examine(e)
    BY <1>1
  <2>2. GreetingOf(e) \in Runs /\ Decided(e) \in BOOLEAN
    BY InboundAssumption DEF GreetingOf, Decided, TypeOK, FunnelTypeOK, Runs
  <2>3. QED
    BY <1>0, <2>1, <2>2 DEF Examine, ReviewOK
<1>2. CASE Crash \/ Requeue
  <2>1. review' = NoReview /\ spent' \in {spent, spent + 1}
    BY <1>2 DEF Crash, Requeue, Spend
  <2>2. 0 \in Runs
    BY InboundAssumption DEF Runs
  <2>3. QED
    BY <1>0, <2>1, <2>2 DEF NoReview, ReviewOK
<1>3. CASE UNCHANGED review /\ (UNCHANGED spent \/ \E k \in Faults : Spend(k))
  BY <1>0, <1>3 DEF Spend, ReviewOK
<1>4. QED
  <2>1. ASSUME NEW p \in Processors,
               ProcessorStep(p) \/ Accept(p) \/ LoseAck(p) \/ Reject(p) \/ DbFails(p) \/ Heartbeat(p)
        PROVE  UNCHANGED review /\ (UNCHANGED spent \/ \E k \in Faults : Spend(k))
    <3>1. CASE ProcessorStep(p)
      BY <3>1
      DEF ProcessorStep, Claim, Record, Echo, OptOut, StopEnrollments, Match, Decide, Complete,
          TakeSlot, CheckReply, CreateReply, MarkReplyFailed, MarkReplySent, Finish, Abandon,
          Check, Spend
    <3>2. CASE Accept(p) \/ LoseAck(p) \/ Reject(p) \/ DbFails(p) \/ Heartbeat(p)
      BY <3>2 DEF Accept, LoseAck, Reject, DbFails, Heartbeat, Spend
    <3>3. QED
      BY <2>1, <3>1, <3>2
  <2>2. CASE \E e \in Events : Lapse(e) \/ BackoffElapses(e)
    BY <1>3, <2>2 DEF Lapse, BackoffElapses, Spend
  <2>3. CASE \E r \in Runs : ClaimGreeting(r) \/ SettleGreeting(r)
    BY <1>3, <2>3 DEF ClaimGreeting, SettleGreeting, Spend
  <2>4. QED
    BY <1>1, <1>2, <1>3, <2>1, <2>2, <2>3
    DEF Next, Write, PhoneReply, Age, Ingest, Acknowledge, DeleteFails, ReleaseStale,
        RecoverRetryable, Pause, Activate, Spend

LEMMA InitType ==
  ASSUME Init
  PROVE  TypeOK
<1>1. Undecided \in Results /\ Undecided.job \in Runs /\ 0 \in Runs
  BY InboundAssumption DEF Undecided, Results, Runs
<1>2. EventsOK
  <2> HIDE DEF Undecided
  <2>1. NoRow \in EventRow /\ NoRow.result = Undecided
    BY <1>1 DEF NoRow, EventRow, EventStatuses, Errors
  <2>2. QED
    BY <1>1, <2>1 DEF Init, EventInit, EventsOK, EventTypeOK
<1>3. QueueTypeOK /\ MessageTypeOK
  BY DEF Init, QueueTypeOK, MessageTypeOK, Log!LogInit, Log!LogTypeOK, Log!RowStates
<1>4. FunnelTypeOK
  <2>1. 0 \in Runs /\ 1 \in Runs
    BY InboundAssumption DEF Runs
  <2>2. enrol \in [status : {"none", "ACTIVE", "STOPPED"}, run : Runs]
    BY <2>1 DEF Init
  <2>3. greet \in [Runs -> GreetStates]
    BY DEF Init, GreetStates
  <2>4. campaign \in [open : BOOLEAN, existing : Behaviors] /\ optedOut \in BOOLEAN
    BY DEF Init
  <2>5. QED
    BY <2>2, <2>3, <2>4 DEF FunnelTypeOK
<1>5. ProcTypeOK
  BY DEF Init, ProcTypeOK, Idle, Processor, Phases, Verdicts
<1>6. QED
  BY <1>1, <1>2, <1>3, <1>4, <1>5 DEF Init, TypeOK, EventsOK, NoReview

\* No step takes a variable out of its type, and who is at work holds a
\* notification (the loops and tables of src/internal/inbound).
THEOREM TypeCorrect == Spec => []TypeOK
<1>1. TypeOK /\ [Next]_vars => TypeOK'
  <2> SUFFICES ASSUME TypeOK, [Next]_vars PROVE TypeOK'
    OBVIOUS
  <2>1. CASE Next
    BY <2>1, EventsNext, QueueNext, MessageNext, FunnelNext, ProcNext, ReviewNext
    DEF TypeOK, EventsOK, ReviewOK
  <2>2. CASE UNCHANGED vars
    BY <2>2
    DEF vars, queueVars, messageVars, logVars, funnelVars, TypeOK, EventTypeOK, QueueTypeOK,
        MessageTypeOK, Log!LogTypeOK, FunnelTypeOK, ProcTypeOK
  <2>3. QED
    BY <2>1, <2>2
<1>2. QED
  BY <1>1, InitType, PTL DEF Spec

-----------------------------------------------------------------------------
(***************************************************************************)
(* What a processor has found stays found: the invariant.                    *)
(***************************************************************************)
Gone == optedOut /\ enrol.status # "ACTIVE"

\* Nothing is owed for message e any more, or the campaign was found paused.
Good(e) ==
  \/ e \in skipped
  \/ \E x \in {"journal", "hand", "auto"} : Answered(x, e)
  \/ Decided(e) /\ (~Owes(event[e].result) \/ greet[event[e].result.job] \in {"SENT", "ANSWERED"})

Dealt(e) == (kind[e] = "stop" => Gone) /\ (kind[e] = "trigger" => Good(e))

\* Numbers: what is stored has happened, and so has what answers precede.
NumbersInv ==
  /\ deleted <= arrived /\ (poll = "stored" => deleted < arrived)
  /\ \A e \in Events : kind[e] # "none" <=> e <= arrived
  /\ \A e \in Events : Stored(e) => e <= arrived
  /\ \A e \in Events : Decided(e) => Stored(e)
  /\ \A x \in {"journal", "hand", "auto"} : answer[x] <= arrived

\* Rows: what is closed has been dealt with, and a receipt is an answer.
RowsInv ==
  /\ \A e \in Events : event[e].status = "PROCESSED" => Dealt(e)
  /\ \A e \in Events : Log!HasReceipt(e) => Answered("auto", e)
  /\ \A r \in Runs : r > enrol.run => greet[r] = "none"

\* A processor: where it is and what has been established on the way.
Place(p) ==
  LET e == proc[p].ev  pc == proc[p].pc IN
  pc # "idle" =>
    /\ Stored(e)
    /\ proc[p].known \/ pc \in {"complete", "gate"} \cup GatePhases => Decided(e)
    /\ kind[e] = "stop" => pc \in {"start", "optout", "stop", "finish"}
    /\ pc \in {"optout", "stop"} => kind[e] = "stop"
    /\ pc = "stop" => optedOut
    /\ pc = "rowfail" => proc[p].verdict # "done"
    /\ pc = "acked" => e <= proc[p].at
    /\ proc[p].at <= arrived
    /\ pc = "finish" /\ proc[p].verdict = "done" => Dealt(e)

PlacesInv == \A p \in Processors : Place(p)

InboundInv == TypeOK /\ NumbersInv /\ RowsInv /\ PlacesInv

-----------------------------------------------------------------------------
(***************************************************************************)
(* What no step undoes.                                                      *)
(***************************************************************************)
\* A statement that leaves every decision and keeps every row.
KeepsRows ==
  \A d \in Events :
     /\ event'[d].result = event[d].result
     /\ Stored(d) => Stored(d)'
     /\ Stored(d)' => Stored(d) \/ d <= arrived

\* A statement that closes no row.
ClosesNothing ==
  \A d \in Events : event'[d].status = "PROCESSED" => event[d].status = "PROCESSED"

LEMMA PutKeeps ==
  ASSUME TypeOK, NEW e \in Events, NEW r, (Put(e, r) /\ Stored(e)) \/ UNCHANGED event,
         r.result = event[e].result, r.status # "NONE"
  PROVE  KeepsRows /\ (r.status # "PROCESSED" => ClosesNothing)
BY DEF TypeOK, EventTypeOK, Put, KeepsRows, Stored, ClosesNothing

LEMMA StatementKeeps ==
  ASSUME TypeOK, NEW e \in Events,
         \/ Take(e) \/ (Renew(e) /\ Stored(e)) \/ Expire(e) \/ (BecomeDue(e) /\ Stored(e))
         \/ \E x \in Errors : MarkEvent(e, "FAILED", x)
         \/ \E x \in Errors : DeferEvent(e, x)
         \/ Stored(e) /\ \E x \in Errors : Put(e, Revive(e, x))
         \/ UNCHANGED event
  PROVE  KeepsRows /\ ClosesNothing
<1>0. event[e] \in EventRow
  BY DEF TypeOK, EventTypeOK
<1>1. CASE UNCHANGED event
  BY <1>1 DEF KeepsRows, ClosesNothing, Stored
<1>2. CASE Take(e)
  <2> DEFINE r == [event[e] EXCEPT !.status = "PROCESSING", !.attempts = @ + 1, !.fresh = TRUE]
  <2>1. r.result = event[e].result /\ r.status = "PROCESSING"
    BY <1>0 DEF EventRow
  <2>2. Put(e, r) /\ Stored(e)
    BY <1>2 DEF Take, Claimable, LiveLane, ReadyLane, Oldest, Queued, Stored
  <2> HIDE DEF r
  <2>3. QED
    BY <2>1, <2>2, PutKeeps
<1>3. CASE ((Renew(e) \/ BecomeDue(e)) /\ Stored(e)) \/ Expire(e)
  <2>1. PICK r \in {[event[e] EXCEPT !.fresh = TRUE], [event[e] EXCEPT !.fresh = FALSE],
                    [event[e] EXCEPT !.due = TRUE]} : Put(e, r)
    BY <1>3 DEF Renew, Expire, BecomeDue
  <2>2. r.result = event[e].result /\ r.status = event[e].status
    BY <1>0 DEF EventRow
  <2>3. Stored(e)
    BY <1>3 DEF Expire, Held, Stored
  <2>4. KeepsRows
    BY <2>1, <2>2, <2>3, PutKeeps DEF Stored
  <2>5. ClosesNothing
    BY <2>1, <2>2 DEF ClosesNothing, Put, TypeOK, EventTypeOK
  <2>6. QED
    BY <2>4, <2>5
<1>4. CASE \E x \in Errors : MarkEvent(e, "FAILED", x)
  <2>1. PICK x \in Errors : MarkEvent(e, "FAILED", x)
    BY <1>4
  <2> DEFINE r == [event[e] EXCEPT !.status = "FAILED", !.error = x, !.fresh = TRUE]
  <2>2. r.result = event[e].result /\ r.status = "FAILED"
    BY <1>0 DEF EventRow
  <2>3. (Put(e, r) /\ Stored(e)) \/ UNCHANGED event
    BY <2>1 DEF MarkEvent, Held, Stored
  <2> HIDE DEF r
  <2>4. QED
    BY <2>2, <2>3, PutKeeps
<1>5. CASE \E x \in Errors : DeferEvent(e, x)
  <2>1. PICK x \in Errors : DeferEvent(e, x)
    BY <1>5
  <2> DEFINE r == [event[e] EXCEPT
                 !.status = "RECEIVED", !.error = x, !.due = FALSE, !.fresh = TRUE,
                 !.attempts = IF x = "awaiting" /\ @ > 0 THEN @ - 1 ELSE @]
  <2>2. r.result = event[e].result /\ r.status = "RECEIVED"
    BY <1>0 DEF EventRow
  <2>3. (Put(e, r) /\ Stored(e)) \/ UNCHANGED event
    BY <2>1 DEF DeferEvent, Held, Stored
  <2> HIDE DEF r
  <2>4. QED
    BY <2>2, <2>3, PutKeeps
<1>6. CASE Stored(e) /\ \E x \in Errors : Put(e, Revive(e, x))
  <2>1. PICK x \in Errors : Put(e, Revive(e, x)) /\ Stored(e)
    BY <1>6
  <2>2. Revive(e, x).result = event[e].result /\ Revive(e, x).status = "RECEIVED"
    BY <1>0 DEF Revive, EventRow
  <2>3. QED
    BY <2>1, <2>2, PutKeeps
<1>7. QED
  BY <1>1, <1>2, <1>3, <1>4, <1>5, <1>6

LEMMA SweepKeeps ==
  ASSUME TypeOK, ReleaseAbandoned \/ \E C \in SUBSET Events : RecoverExhausted(C)
  PROVE  KeepsRows /\ ClosesNothing
<1>1. \A e \in Events :
        LET r == [event[e] EXCEPT !.status = "RECEIVED", !.fresh = TRUE]
            v == Revive(e, event[e].error)
        IN  /\ r.result = event[e].result /\ r.status = "RECEIVED"
            /\ v.result = event[e].result /\ v.status = "RECEIVED"
  BY DEF TypeOK, EventTypeOK, Revive, EventRow
<1>2. CASE ReleaseAbandoned
  BY <1>1, <1>2 DEF ReleaseAbandoned, Abandoned, Held, KeepsRows, ClosesNothing, Stored
<1>3. CASE \E C \in SUBSET Events : RecoverExhausted(C)
  BY <1>1, <1>3 DEF RecoverExhausted, Exhausted, KeepsRows, ClosesNothing, Stored
<1>4. QED
  BY <1>2, <1>3

\* A processor that closes its event.
LEMMA FinishKeeps ==
  ASSUME TypeOK, NEW p \in Processors, Finish(p)
  PROVE  /\ KeepsRows
         /\ \A d \in Events : event'[d].status = "PROCESSED" =>
              event[d].status = "PROCESSED" \/ (d = proc[p].ev /\ proc[p].verdict = "done")
<1> DEFINE e == proc[p].ev
<1>0. e \in Events /\ event[e] \in EventRow
  BY HeldEvent DEF Finish, Running, TypeOK, EventTypeOK
<1>1. CASE proc[p].verdict = "done" /\ MarkEvent(e, "PROCESSED", "none")
  <2> DEFINE r == [event[e] EXCEPT !.status = "PROCESSED", !.error = "none", !.fresh = TRUE]
  <2>1. r.result = event[e].result /\ r.status = "PROCESSED"
    BY <1>0 DEF EventRow
  <2>2. (Put(e, r) /\ Stored(e)) \/ UNCHANGED event
    BY <1>1 DEF MarkEvent, Held, Stored
  <2> HIDE DEF r
  <2>3. KeepsRows
    BY <1>0, <2>1, <2>2, PutKeeps
  <2>4. QED
    BY <1>0, <1>1, <2>2, <2>3 DEF Put, TypeOK, EventTypeOK
<1>2. CASE \/ \E x \in Errors : DeferEvent(e, x)
           \/ \E x \in Errors : MarkEvent(e, "FAILED", x)
  BY <1>0, <1>2, StatementKeeps DEF ClosesNothing
<1>3. QED
  BY <1>1, <1>2 DEF Finish, Errors

\* A notification that is stored has happened.
LEMMA InsertKeeps ==
  ASSUME TypeOK, NumbersInv, Ingest
  PROVE  KeepsRows /\ ClosesNothing
<1> DEFINE e == deleted + 1
<1>1. CASE UNCHANGED event
  BY <1>1 DEF KeepsRows, ClosesNothing, Stored
<1>2. CASE ~Stored(e) /\ Put(e, [NoRow EXCEPT !.status = "RECEIVED"])
  <2> DEFINE r == [NoRow EXCEPT !.status = "RECEIVED"]
  <2>1. r.result = Undecided /\ r.status = "RECEIVED"
    BY DEF NoRow
  <2>2. e <= arrived
    BY DEF Ingest, TypeOK, QueueTypeOK
  <2>3. event' = [event EXCEPT ![e] = r]
    BY <1>2 DEF Put
  <2>4. e \in Events => event[e].result = Undecided
    BY <1>2 DEF NumbersInv, Decided
  <2> HIDE DEF r
  <2>5. QED
    BY <1>2, <2>1, <2>2, <2>3, <2>4 DEF TypeOK, EventTypeOK, KeepsRows, ClosesNothing, Stored
<1>3. QED
  BY <1>1, <1>2 DEF Ingest, Insert

\* The decision on a message that has none.
Deciding(p) == Decide(p) /\ ~Decided(proc[p].ev) /\ Enact(proc[p].ev, proc[p].force # "none")

LEMMA DecidingKeeps ==
  ASSUME TypeOK, NEW p \in Processors, Deciding(p)
  PROVE  LET e == proc[p].ev IN
         /\ e \in Events
         /\ \A d \in Events : event'[d].status = event[d].status
         /\ \A d \in Events \ {e} : event'[d].result = event[d].result
         /\ \/ /\ event'[e].result \in [action : {"ENROLLED", "RESTARTED"}, job : {enrol.run + 1}]
               /\ OpenRun /\ ~optedOut
            \/ /\ event'[e].result = Result("CONTINUED", enrol.run)
               /\ Continue(proc[p].force # "none") /\ ~optedOut
            \/ /\ event'[e].result \in [action : {"SPECIAL", "IGNORED", "BLOCKED"}, job : {0}]
               /\ UNCHANGED <<enrol, greet>>
<1> DEFINE e == proc[p].ev
<1>1. e \in Events
  BY HeldEvent DEF Deciding, Decide, Running
<1>2. PICK r \in [action : {"ENROLLED", "RESTARTED"}, job : {enrol.run + 1}]
               \cup {Result("CONTINUED", enrol.run)}
               \cup [action : {"SPECIAL", "IGNORED", "BLOCKED"}, job : {0}] :
        /\ Checkpoint(e, r)
        /\ r.action \in {"ENROLLED", "RESTARTED"} => OpenRun /\ ~optedOut
        /\ r.action = "CONTINUED" => Continue(proc[p].force # "none") /\ ~optedOut
        /\ r.action \in {"SPECIAL", "IGNORED", "BLOCKED"} => UNCHANGED <<enrol, greet>>
  BY DEF Deciding, Enact, Result, Ruling
<1>3. \A d \in Events : /\ event'[d].status = event[d].status
                        /\ event'[d].result = IF d = e THEN r ELSE event[d].result
  BY <1>1, <1>2 DEF Checkpoint, Put, TypeOK, EventTypeOK, EventRow
<1>4. QED
  BY <1>1, <1>2, <1>3 DEF Result

\* What a step does to the rows of webhook_events.
LEMMA EventsStep ==
  ASSUME InboundInv, Next
  PROVE  /\ KeepsRows \/ \E p \in Processors : Deciding(p)
         /\ \A d \in Events : event'[d].status = "PROCESSED" =>
              \/ event[d].status = "PROCESSED"
              \/ \E p \in Processors : Finish(p) /\ d = proc[p].ev /\ proc[p].verdict = "done"
<1>0. TypeOK /\ NumbersInv /\ PlacesInv
  BY DEF InboundInv
<1>1. CASE UNCHANGED event
  BY <1>1 DEF KeepsRows, Stored
<1>2. CASE \E p \in Processors : Claim(p) \/ Finish(p) \/ Heartbeat(p)
  <2>1. PICK p \in Processors : Claim(p) \/ Finish(p) \/ Heartbeat(p)
    BY <1>2
  <2>2. CASE Claim(p)
    <3>1. PICK e \in Events : Take(e)
      BY <2>2 DEF Claim
    <3>2. KeepsRows /\ ClosesNothing
      BY <1>0, <3>1, StatementKeeps
    <3>3. QED
      BY <3>2 DEF ClosesNothing
  <2>3. CASE Finish(p)
    BY <1>0, <2>3, FinishKeeps
  <2>4. CASE Heartbeat(p)
    <3>1. proc[p].ev \in Events /\ Stored(proc[p].ev)
      BY <1>0, <2>4, HeldEvent DEF Heartbeat, PlacesInv, Place
    <3>2. Renew(proc[p].ev) \/ UNCHANGED event
      BY <2>4 DEF Heartbeat
    <3>3. QED
      BY <1>0, <3>1, <3>2, StatementKeeps DEF ClosesNothing
  <2>5. QED
    BY <2>1, <2>2, <2>3, <2>4
<1>3. CASE \E p \in Processors : Decide(p)
  <2>1. PICK p \in Processors : Decide(p)
    BY <1>3
  <2>2. CASE UNCHANGED event
    BY <1>1, <2>2
  <2>3. CASE Deciding(p)
    BY <1>0, <2>3, DecidingKeeps
  <2>4. QED
    BY <2>1, <2>2, <2>3 DEF Decide, Deciding
<1>4. CASE Ingest
  BY <1>0, <1>4, InsertKeeps DEF ClosesNothing
<1>5. CASE \E e \in Events : Lapse(e) \/ BackoffElapses(e)
  <2>1. PICK e \in Events : Lapse(e) \/ BackoffElapses(e)
    BY <1>5
  <2>2. CASE Lapse(e)
    <3>1. KeepsRows /\ ClosesNothing
      BY <1>0, <2>2, StatementKeeps DEF Lapse
    <3>2. QED
      BY <3>1 DEF ClosesNothing
  <2>3. CASE BackoffElapses(e)
    <3>1. CASE Stored(e)
      BY <1>0, <2>3, <3>1, StatementKeeps DEF BackoffElapses, ClosesNothing
    <3>2. CASE ~Stored(e)
      BY <1>0, <2>3, <3>2
      DEF BackoffElapses, BecomeDue, Put, KeepsRows, Stored, TypeOK, EventTypeOK, EventRow
    <3>3. QED
      BY <3>1, <3>2
  <2>4. QED
    BY <2>1, <2>2, <2>3
<1>6. CASE ReleaseStale \/ RecoverRetryable
  BY <1>0, <1>6, SweepKeeps DEF ReleaseStale, RecoverRetryable, Incoming, ClosesNothing
<1>7. CASE Requeue
  <2>1. review.ev \in Events
    BY <1>0, <1>7 DEF Requeue, TypeOK
  <2>2. (Stored(review.ev) /\ Put(review.ev, Revive(review.ev, "manual"))) \/ UNCHANGED event
    BY <1>7 DEF Requeue, Stored
  <2>3. "manual" \in Errors
    BY DEF Errors
  <2>4. QED
    BY <1>0, <2>1, <2>2, <2>3, StatementKeeps DEF ClosesNothing
<1>8. QED
  BY <1>1, <1>2, <1>3, <1>4, <1>5, <1>6, <1>7
  DEF Next, ProcessorStep, Write, PhoneReply, Age, Acknowledge, DeleteFails, Record, Echo, OptOut,
      StopEnrollments, Match, Complete, TakeSlot, CheckReply, CreateReply, MarkReplyFailed,
      MarkReplySent, Abandon, Accept, LoseAck, Reject, DbFails, Examine, Crash, Pause, Activate,
      ClaimGreeting, SettleGreeting

\* Which step changes what, for the variables that only grow.
LEMMA OtherSteps ==
  ASSUME TypeOK, Next
  PROVE  /\ \/ arrived' = arrived /\ UNCHANGED kind
            \/ /\ arrived + 1 \in Events /\ arrived' = arrived + 1
               /\ \E k \in {"trigger", "stop", "phone", "api"} : kind' = [kind EXCEPT ![arrived + 1] = k]
         /\ skipped \subseteq skipped'
         /\ optedOut => optedOut'
<1>0. skipped \subseteq Events
  BY DEF TypeOK, MessageTypeOK
<1>1. ASSUME NEW p \in Processors, ProcessorStep(p)
      PROVE  skipped \subseteq skipped' /\ (optedOut => optedOut')
  <2>1. CASE Match(p)
    <3>1. skipped' = skipped \/ skipped' = skipped \cup {proc[p].ev}
      BY <2>1 DEF Match
    <3>2. optedOut' = optedOut
      BY <2>1 DEF Match, funnelVars
    <3>3. QED
      BY <3>1, <3>2
  <2>2. CASE OptOut(p)
    BY <2>2 DEF OptOut, messageVars
  <2>3. CASE UNCHANGED <<skipped, optedOut>>
    BY <2>3
  <2>4. QED
    BY <1>1, <2>1, <2>2, <2>3
    DEF ProcessorStep, Claim, Record, Echo, StopEnrollments, Decide, Complete, TakeSlot,
        CheckReply, CreateReply, MarkReplyFailed, MarkReplySent, Finish, Abandon, funnelVars,
        messageVars
<1>2. ASSUME NEW p \in Processors,
             Accept(p) \/ LoseAck(p) \/ Reject(p) \/ DbFails(p) \/ Heartbeat(p)
      PROVE  skipped \subseteq skipped' /\ (optedOut => optedOut')
  BY <1>2 DEF Accept, LoseAck, Reject, DbFails, Heartbeat, funnelVars, messageVars
<1>3. skipped \subseteq skipped' /\ (optedOut => optedOut')
  BY <1>1, <1>2
  DEF Next, Write, PhoneReply, Age, Ingest, Acknowledge, DeleteFails, Lapse, BackoffElapses,
      Examine, ReleaseStale, RecoverRetryable, Crash, Pause, Activate, Requeue, ClaimGreeting,
      SettleGreeting, funnelVars, messageVars
<1>4. ASSUME NEW p \in Processors, ProcessorStep(p)
      PROVE  Abandon(p) \/ (UNCHANGED <<kind, arrived>>)
  BY <1>4
  DEF ProcessorStep, Claim, Record, Echo, OptOut, StopEnrollments, Match, Decide, Complete,
      TakeSlot, CheckReply, CreateReply, MarkReplyFailed, MarkReplySent, Finish, queueVars
<1>5. ASSUME NEW p \in Processors,
             Abandon(p) \/ Accept(p) \/ LoseAck(p) \/ Reject(p) \/ DbFails(p) \/ Heartbeat(p)
      PROVE  UNCHANGED <<kind, arrived>> \/ Notify("api", <<proc[p].ev, proc[p].cur>>)
  BY <1>5 DEF Abandon, Accept, LoseAck, Reject, DbFails, Heartbeat, Arrive, queueVars
<1>6. UNCHANGED <<kind, arrived>> \/ \E k \in {"trigger", "stop", "phone", "api"} : \E e : Notify(k, e)
  BY <1>4, <1>5
  DEF Next, Write, PhoneReply, Age, Ingest, Acknowledge, DeleteFails, Lapse, BackoffElapses,
      Examine, ReleaseStale, RecoverRetryable, Crash, Pause, Activate, Requeue, ClaimGreeting,
      SettleGreeting, queueVars
<1>7. QED
  BY <1>3, <1>6 DEF Notify

\* Answers: never taken back, never ahead of what has happened.
LEMMA AnswersStep ==
  ASSUME InboundInv, Next
  PROVE  \A x \in {"journal", "hand", "auto"} : answer[x] <= answer'[x] /\ answer'[x] <= arrived'
<1>0. /\ answer \in [{"journal", "hand", "auto"} -> Nat] /\ arrived \in Nat /\ arrived' \in Nat
      /\ \A x \in {"journal", "hand", "auto"} : answer[x] <= arrived
      /\ arrived <= arrived'
  BY OtherSteps DEF InboundInv, TypeOK, MessageTypeOK, QueueTypeOK, NumbersInv
<1>1. CASE UNCHANGED answer
  BY <1>0, <1>1
<1>2. CASE \E x \in {"journal", "hand", "auto"}, n \in Nat : AnswerAt(x, n) /\ n <= arrived
  BY <1>0, <1>2 DEF AnswerAt, Later
<1>3. CASE \E p \in Processors : Echo(p) \/ MarkReplySent(p) \/ Accept(p) \/ LoseAck(p) \/ Abandon(p)
  <2>1. PICK p \in Processors : Echo(p) \/ MarkReplySent(p) \/ Accept(p) \/ LoseAck(p) \/ Abandon(p)
    BY <1>3
  <2>2. CASE Echo(p)
    <3>1. proc[p].ev \in Events /\ proc[p].ev <= arrived
      BY <2>2, HeldEvent DEF Echo, Running, InboundInv, PlacesInv, Place, NumbersInv
    <3>2. proc[p].ev - 1 \in Nat /\ proc[p].ev - 1 <= arrived
      <4>1. \A e \in Events : e \in Nat /\ e # 0
        BY EventsAssumption, InboundAssumption
      <4>2. QED
        BY <1>0, <3>1, <4>1
    <3>3. QED
      BY <1>1, <1>2, <2>2, <3>2 DEF Echo
  <2>3. CASE MarkReplySent(p)
    <3>1. proc[p].at \in Nat /\ proc[p].at <= arrived
      BY <2>3, HeldEvent DEF MarkReplySent, InboundInv, PlacesInv, Place, Processor
    <3>2. QED
      BY <1>1, <1>2, <2>3, <3>1 DEF MarkReplySent
  <2>4. CASE Accept(p) \/ LoseAck(p) \/ Abandon(p)
    BY <1>0, <1>1, <1>2, <2>4 DEF Accept, LoseAck, Abandon, Arrive
  <2>5. QED
    BY <2>1, <2>2, <2>3, <2>4
<1>4. CASE PhoneReply \/ Crash
  BY <1>0, <1>1, <1>2, <1>4 DEF PhoneReply, Crash
<1>5. CASE \E r \in Runs : SettleGreeting(r)
  BY <1>0, <1>5 DEF SettleGreeting
<1>6. QED
  <2>1. ASSUME NEW p \in Processors, ProcessorStep(p)
        PROVE  UNCHANGED answer \/ Echo(p) \/ MarkReplySent(p) \/ Abandon(p)
    BY <2>1
    DEF ProcessorStep, Claim, Record, OptOut, StopEnrollments, Match, Decide, Complete,
        TakeSlot, CheckReply, CreateReply, MarkReplyFailed, Finish, messageVars
  <2>2. ASSUME NEW p \in Processors, Reject(p) \/ DbFails(p) \/ Heartbeat(p)
        PROVE  UNCHANGED answer
    BY <2>2 DEF Reject, DbFails, Heartbeat, messageVars
  <2>3. QED
    BY <1>1, <1>3, <1>4, <1>5, <2>1, <2>2
    DEF Next, Write, Age, Ingest, Acknowledge, DeleteFails, Lapse, BackoffElapses, Examine,
        ReleaseStale, RecoverRetryable, Pause, Activate, Requeue, ClaimGreeting, messageVars

\* The enrolment and its greetings: what was sent stays sent, no run beyond the
\* last has a greeting, and a contact who has left does not come back.
LEMMA FunnelStep ==
  ASSUME InboundInv, Next
  PROVE  /\ \A r \in Runs : greet[r] \in {"SENT", "ANSWERED"} => greet'[r] = greet[r]
         /\ \A r \in Runs : r > enrol'.run => greet'[r] = "none"
         /\ Gone => Gone'
<1>0. /\ greet \in [Runs -> GreetStates] /\ enrol.run \in Runs
      /\ enrol \in [status : {"none", "ACTIVE", "STOPPED"}, run : Runs]
      /\ \A r \in Runs : r > enrol.run => greet[r] = "none"
      /\ optedOut => optedOut'
  BY OtherSteps DEF InboundInv, TypeOK, FunnelTypeOK, RowsInv
<1>1. CASE UNCHANGED <<greet, enrol>>
  BY <1>0, <1>1 DEF Gone
<1>2. CASE \E p \in Processors : Deciding(p)
  <2>1. PICK p \in Processors : Deciding(p)
    BY <1>2
  <2>2. CASE OpenRun /\ ~optedOut
    <3>1. enrol.run \in Nat /\ enrol'.run = enrol.run + 1
      BY <1>0, <2>2 DEF OpenRun, Runs
    <3>2. greet' = [greet EXCEPT
       ![enrol.run + 1] = "PENDING",
       ![enrol.run] = IF @ = "PENDING" THEN "CANCELLED" ELSE @]
      BY <2>2 DEF OpenRun
    <3>3. enrol.run + 1 \in Runs /\ greet[enrol.run + 1] = "none"
      BY <1>0, <2>2, <3>1 DEF OpenRun
    <3>4. QED
      BY <1>0, <2>2, <3>1, <3>2, <3>3 DEF Gone, Runs
  <2>3. CASE Continue(proc[p].force # "none") /\ ~optedOut
    <3>1. enrol'.run = enrol.run
      BY <1>0, <2>3 DEF Continue
    <3>2. greet' = greet \/ greet' = [greet EXCEPT ![enrol.run] = Recovered(enrol.run)]
      BY <2>3 DEF Continue
    <3>3. QED
      BY <1>0, <2>3, <3>1, <3>2 DEF Gone, Recovered
  <2>4. QED
    BY <1>1, <2>1, <2>2, <2>3, DecidingKeeps DEF InboundInv
<1>3. CASE \E p \in Processors : StopEnrollments(p)
  BY <1>0, <1>3 DEF StopEnrollments, Gone
<1>4. CASE Requeue
  <2>1. enrol' = enrol
    BY <1>4 DEF Requeue
  <2>2. greet' = greet \/ greet' = [greet EXCEPT ![review.job] = Recovered(review.job)]
    BY <1>4 DEF Requeue
  <2>3. QED
    BY <1>0, <2>1, <2>2 DEF Gone, Recovered
<1>5. CASE \E r \in Runs : ClaimGreeting(r) \/ SettleGreeting(r)
  BY <1>0, <1>5 DEF ClaimGreeting, SettleGreeting, Gone
<1>6. QED
  <2>1. ASSUME NEW p \in Processors,
               ProcessorStep(p) \/ Accept(p) \/ LoseAck(p) \/ Reject(p) \/ DbFails(p) \/ Heartbeat(p)
        PROVE  Deciding(p) \/ StopEnrollments(p) \/ UNCHANGED <<greet, enrol>>
    BY <2>1
    DEF ProcessorStep, Claim, Record, Echo, OptOut, Match, Decide, Deciding, Complete, TakeSlot,
        CheckReply, CreateReply, MarkReplyFailed, MarkReplySent, Finish, Abandon, Accept, LoseAck,
        Reject, DbFails, Heartbeat, funnelVars
  <2>2. QED
    BY <1>1, <1>2, <1>3, <1>4, <1>5, <2>1
    DEF Next, Write, PhoneReply, Age, Ingest, Acknowledge, DeleteFails, Lapse, BackoffElapses,
        Examine, ReleaseStale, RecoverRetryable, Crash, Pause, Activate, funnelVars

\* What has been established about a message stays so.
LEMMA MessageStep ==
  ASSUME InboundInv, Next, NEW e \in Events
  PROVE  /\ Stored(e) => Stored(e)' /\ kind'[e] = kind[e]
         /\ Decided(e) => Decided(e)' /\ event'[e].result = event[e].result
         /\ \A x \in {"journal", "hand", "auto"} : Answered(x, e) => Answered(x, e)'
         /\ Good(e) => Good(e)'
         /\ Stored(e) /\ Dealt(e) => Dealt(e)'
<1>0. /\ kind \in [Events -> {"none", "trigger", "stop", "phone", "api"}]
      /\ arrived \in Nat /\ e \in Nat
      /\ answer \in [{"journal", "hand", "auto"} -> Nat]
      /\ answer' \in [{"journal", "hand", "auto"} -> Nat]
      /\ Stored(e) => e <= arrived
      /\ event[e].result.job \in Runs
  BY EventsAssumption, MessageNext
  DEF InboundInv, TypeOK, QueueTypeOK, MessageTypeOK, NumbersInv
<1>1. Stored(e) => Stored(e)'
  BY EventsStep, DecidingKeeps DEF InboundInv, KeepsRows, Stored
<1>2. Stored(e) => kind'[e] = kind[e]
  BY <1>0, OtherSteps DEF InboundInv
<1>3. Decided(e) => event'[e].result = event[e].result
  BY EventsStep, DecidingKeeps DEF InboundInv, KeepsRows, Deciding
<1>4. Decided(e) => Decided(e)'
  BY <1>3 DEF Decided
<1>5. \A x \in {"journal", "hand", "auto"} : Answered(x, e) => Answered(x, e)'
  BY <1>0, AnswersStep DEF Answered
<1>6. Good(e) => Good(e)'
  <2>1. skipped \subseteq skipped'
    BY OtherSteps DEF InboundInv
  <2>2. ASSUME Decided(e), greet[event[e].result.job] \in {"SENT", "ANSWERED"}
        PROVE  greet'[event'[e].result.job] \in {"SENT", "ANSWERED"}
    BY <1>0, <1>3, <2>2, FunnelStep
  <2>3. QED
    BY <1>3, <1>4, <1>5, <2>1, <2>2 DEF Good
<1>7. Stored(e) /\ Dealt(e) => Dealt(e)'
  BY <1>2, <1>6, FunnelStep DEF Dealt
<1>8. QED
  BY <1>1, <1>2, <1>3, <1>4, <1>5, <1>6, <1>7

LEMMA NumbersNext ==
  ASSUME InboundInv, Next
  PROVE  NumbersInv'
<1>0. /\ arrived \in Nat /\ deleted \in Nat /\ NumbersInv
      /\ kind \in [Events -> {"none", "trigger", "stop", "phone", "api"}]
      /\ \A e \in Events : e \in Nat
  BY EventsAssumption DEF InboundInv, TypeOK, QueueTypeOK
<1>1. arrived' \in Nat /\ arrived <= arrived'
  BY <1>0, OtherSteps DEF InboundInv
<1>2. deleted' <= arrived' /\ (poll' = "stored" => deleted' < arrived')
  <2>1. CASE Ingest
    BY <1>0, <1>1, <2>1 DEF NumbersInv, Ingest
  <2>2. CASE Acknowledge
    BY <1>0, <1>1, <2>2 DEF NumbersInv, Acknowledge
  <2>3. CASE deleted' = deleted /\ poll' \in {poll, "idle"}
    BY <1>0, <1>1, <2>3 DEF NumbersInv
  <2>4. ASSUME NEW p \in Processors, ProcessorStep(p)
        PROVE  Abandon(p) \/ (UNCHANGED <<deleted, poll>>)
    BY <2>4
    DEF ProcessorStep, Claim, Record, Echo, OptOut, StopEnrollments, Match, Decide, Complete,
        TakeSlot, CheckReply, CreateReply, MarkReplyFailed, MarkReplySent, Finish, queueVars
  <2>5. ASSUME NEW p \in Processors,
               Abandon(p) \/ Accept(p) \/ LoseAck(p) \/ Reject(p) \/ DbFails(p) \/ Heartbeat(p)
        PROVE  UNCHANGED <<deleted, poll>>
    BY <2>5 DEF Abandon, Accept, LoseAck, Reject, DbFails, Heartbeat, Arrive, Notify, queueVars
  <2>6. QED
    BY <2>1, <2>2, <2>3, <2>4, <2>5
    DEF Next, Write, PhoneReply, Notify, Age, DeleteFails, Lapse, BackoffElapses,
        Examine, ReleaseStale, RecoverRetryable, Crash, Pause, Activate, Requeue, ClaimGreeting,
        SettleGreeting, queueVars
<1>3. \A e \in Events : kind'[e] # "none" <=> e <= arrived'
  <2>1. CASE arrived' = arrived /\ UNCHANGED kind
    BY <1>0, <2>1 DEF NumbersInv
  <2>2. CASE /\ arrived + 1 \in Events /\ arrived' = arrived + 1
             /\ \E k \in {"trigger", "stop", "phone", "api"} : kind' = [kind EXCEPT ![arrived + 1] = k]
    BY <1>0, <2>2 DEF NumbersInv
  <2>3. QED
    BY <2>1, <2>2, OtherSteps DEF InboundInv
<1>4. \A e \in Events : Stored(e)' => e <= arrived'
  BY <1>0, <1>1, EventsStep, DecidingKeeps DEF InboundInv, NumbersInv, KeepsRows, Stored
<1>5. \A e \in Events : Decided(e)' => Stored(e)'
  <2>1. ASSUME NEW p \in Processors, Deciding(p), NEW e \in Events, Decided(e)'
        PROVE  Stored(e)'
    <3>1. Stored(proc[p].ev)
      BY <2>1 DEF Deciding, Decide, Running, InboundInv, PlacesInv, Place
    <3>2. Stored(e)
      BY <1>0, <2>1, <3>1, DecidingKeeps DEF InboundInv, NumbersInv, Decided
    <3>3. QED
      BY <2>1, <3>2, MessageStep
  <2>2. CASE KeepsRows
    BY <1>0, <2>2 DEF NumbersInv, KeepsRows, Decided
  <2>3. QED
    BY <2>1, <2>2, EventsStep
<1>6. QED
  BY <1>2, <1>3, <1>4, <1>5, AnswersStep DEF NumbersInv

\* A receipt is written with its answer.
LEMMA ReceiptStep ==
  ASSUME InboundInv, Next, NEW e \in Events, Log!HasReceipt(e)'
  PROVE  Answered("auto", e)'
<1>0. /\ row \in [Events -> [Rows -> Log!RowStates]] /\ e \in Nat
      /\ answer \in [{"journal", "hand", "auto"} -> Nat]
  BY EventsAssumption DEF InboundInv, TypeOK, MessageTypeOK, Log!LogTypeOK
<1>1. CASE Log!HasReceipt(e)
  BY <1>1, MessageStep DEF InboundInv, RowsInv
<1>2. CASE \E p \in Processors : MarkReplySent(p) /\ proc[p].ev = e
  <2>1. PICK p \in Processors : MarkReplySent(p) /\ proc[p].ev = e
    BY <1>2
  <2>2. proc[p].at \in Nat /\ e <= proc[p].at
    BY <2>1, HeldEvent DEF MarkReplySent, InboundInv, PlacesInv, Place, Processor
  <2>3. CASE AnswerAt("auto", proc[p].at)
    BY <1>0, <2>2, <2>3 DEF AnswerAt, Later, Answered
  <2>4. CASE UNCHANGED logVars
    BY <1>1, <2>4 DEF logVars, Log!HasReceipt
  <2>5. QED
    BY <2>1, <2>3, <2>4 DEF MarkReplySent
<1>3. CASE \A n \in Rows : row'[e][n] = "SENT" => row[e][n] = "SENT"
  BY <1>1, <1>3 DEF Log!HasReceipt
<1>4. QED
  <2>1. ASSUME NEW p \in Processors, ProcessorStep(p)
        PROVE  \/ MarkReplySent(p) /\ proc[p].ev = e
               \/ \A n \in Rows : row'[e][n] = "SENT" => row[e][n] = "SENT"
    <3>1. CASE MarkReplySent(p)
      BY <1>0, <3>1 DEF MarkReplySent, Log!SetRow, logVars
    <3>2. CASE CreateReply(p) \/ MarkReplyFailed(p)
      <4>1. \/ UNCHANGED row
            \/ \E d, n : \E st \in {"PENDING", "FAILED"} : row' = [row EXCEPT ![d][n] = st]
        BY <3>2 DEF CreateReply, MarkReplyFailed, Log!SetRow, logVars
      <4>2. QED
        BY <1>0, <4>1
    <3>3. CASE Abandon(p)
      BY <3>3 DEF Abandon, Arrive, Log!Reach, logVars
    <3>4. CASE UNCHANGED row
      BY <3>4
    <3>5. QED
      BY <2>1, <3>1, <3>2, <3>3, <3>4
      DEF ProcessorStep, Claim, Record, Echo, OptOut, StopEnrollments, Match, Decide, Complete,
          TakeSlot, CheckReply, Finish, messageVars, logVars
  <2>2. ASSUME NEW p \in Processors,
               Accept(p) \/ LoseAck(p) \/ Reject(p) \/ DbFails(p) \/ Heartbeat(p)
        PROVE  UNCHANGED row
    BY <2>2
    DEF Accept, LoseAck, Reject, DbFails, Heartbeat, Arrive, Log!Reach, messageVars, logVars
  <2>3. CASE UNCHANGED row
    BY <1>3, <2>3
  <2>4. QED
    BY <1>2, <1>3, <2>1, <2>2, <2>3
    DEF Next, Write, PhoneReply, Age, Ingest, Acknowledge, DeleteFails, Lapse, BackoffElapses,
        Examine, ReleaseStale, RecoverRetryable, Crash, Pause, Activate, Requeue, ClaimGreeting,
        SettleGreeting, messageVars, logVars

LEMMA RowsNext ==
  ASSUME InboundInv, Next
  PROVE  RowsInv'
<1>1. ASSUME NEW e \in Events, event'[e].status = "PROCESSED"
      PROVE  Dealt(e)'
  <2>1. Stored(e) /\ Dealt(e)
    <3>1. CASE event[e].status = "PROCESSED"
      BY <3>1 DEF InboundInv, RowsInv, Stored
    <3>2. CASE \E p \in Processors : Finish(p) /\ e = proc[p].ev /\ proc[p].verdict = "done"
      BY <3>2 DEF Finish, Running, InboundInv, PlacesInv, Place
    <3>3. QED
      BY <1>1, <3>1, <3>2, EventsStep
  <2>2. QED
    BY <2>1, MessageStep
<1>2. QED
  BY <1>1, ReceiptStep, FunnelStep DEF RowsInv

-----------------------------------------------------------------------------
(***************************************************************************)
(* The processors' places.                                                   *)
(***************************************************************************)
LEMMA PlaceKept ==
  ASSUME InboundInv, Next, NEW p \in Processors, proc'[p].pc = "idle" \/ proc'[p] = proc[p]
  PROVE  Place(p)'
<1>1. CASE proc'[p].pc = "idle"
  BY <1>1 DEF Place
<1>2. CASE proc'[p] = proc[p] /\ proc[p].pc # "idle"
  <2>1. proc[p].ev \in Events /\ proc[p] \in Processor /\ Place(p)
    BY <1>2, HeldEvent DEF InboundInv, PlacesInv
  <2>2. Stored(proc[p].ev)
    BY <1>2, <2>1 DEF Place
  <2>3. /\ arrived \in Nat /\ arrived <= arrived' /\ arrived' \in Nat /\ (optedOut => optedOut')
    BY OtherSteps DEF InboundInv, TypeOK, QueueTypeOK
  <2>4. proc[p].at \in Nat
    BY <2>1 DEF Processor
  <2>5. proc[p].at <= arrived'
    BY <1>2, <2>1, <2>3, <2>4 DEF Place
  <2>6. QED
    BY <1>2, <2>1, <2>2, <2>3, <2>5, MessageStep DEF Place
<1>3. QED
  BY <1>1, <1>2

\* A processor that goes on with its event, at a new place.
LEMMA PlaceMoves ==
  ASSUME InboundInv, Next, NEW p \in Processors, NEW e \in Events,
         proc[p].pc # "idle", proc[p].ev = e,
         proc'[p].ev = e, proc'[p].known = proc[p].known,
         proc'[p].at = proc[p].at \/ proc'[p].at = arrived,
         proc'[p].pc \in {"complete", "gate"} \cup GatePhases => Decided(e)',
         kind[e] = "stop" => proc'[p].pc \in {"start", "optout", "stop", "finish"},
         proc'[p].pc \in {"optout", "stop"} => kind[e] = "stop",
         proc'[p].pc = "stop" => optedOut',
         proc'[p].pc = "rowfail" => proc'[p].verdict # "done",
         proc'[p].pc = "acked" => e <= proc'[p].at,
         proc'[p].pc = "finish" /\ proc'[p].verdict = "done" => Dealt(e)'
  PROVE  Place(p)'
<1>1. proc[p] \in Processor /\ Place(p)
  BY HeldEvent DEF InboundInv, PlacesInv
<1>2. Stored(e)
  BY <1>1 DEF Place
<1>3. arrived \in Nat /\ arrived <= arrived' /\ arrived' \in Nat
  BY OtherSteps DEF InboundInv, TypeOK, QueueTypeOK
<1>4. proc[p].at \in Nat /\ proc[p].at <= arrived
  BY <1>1 DEF Processor, Place
<1>5. proc'[p].at <= arrived'
  BY <1>3, <1>4
<1>6. proc[p].known => Decided(e)'
  BY <1>1, MessageStep DEF Place
<1>7. kind'[e] = kind[e] /\ Stored(e)'
  BY <1>2, MessageStep
<1>8. QED
  BY <1>5, <1>6, <1>7 DEF Place

\* What a processor holds besides its place and its verdict.
Holds(p) == [ev |-> proc[p].ev, known |-> proc[p].known, at |-> proc[p].at]

LEMMA Moved ==
  ASSUME ProcTypeOK, NEW p \in Processors
  PROVE  /\ \A phase : Goto(p, phase) => /\ proc'[p].pc = phase
                                         /\ proc'[p].verdict = proc[p].verdict
                                         /\ Holds(p)' = Holds(p)
         /\ \A v : Conclude(p, v) => /\ proc'[p].pc = "finish" /\ proc'[p].verdict = v
                                     /\ Holds(p)' = Holds(p)
<1>1. proc[p] \in Processor /\ p \in DOMAIN proc
  BY DEF ProcTypeOK
<1>2. ASSUME NEW phase, Goto(p, phase)
      PROVE  /\ proc'[p].pc = phase /\ proc'[p].verdict = proc[p].verdict
             /\ Holds(p)' = Holds(p)
  <2>1. proc'[p] = [proc[p] EXCEPT !.pc = phase]
    BY <1>1, <1>2 DEF Goto
  <2>2. QED
    BY <1>1, <2>1 DEF Processor, Holds
<1>3. ASSUME NEW v, Conclude(p, v)
      PROVE  /\ proc'[p].pc = "finish" /\ proc'[p].verdict = v
             /\ Holds(p)' = Holds(p)
  <2>1. proc'[p] = [proc[p] EXCEPT !.pc = "finish", !.verdict = v]
    BY <1>1, <1>3 DEF Conclude, ProcTypeOK
  <2>2. QED
    BY <1>1, <2>1 DEF Processor, Holds
<1>4. QED
  BY <1>2, <1>3

\* Two ways to go on: to another phase, and to an end.
LEMMA GotoPlace ==
  ASSUME InboundInv, Next, NEW p \in Processors, NEW e \in Events,
         proc[p].pc # "idle", proc[p].ev = e, kind[e] # "stop",
         NEW phase \in {"decide", "complete", "gate", "check", "create"}, Goto(p, phase),
         phase # "decide" => Decided(e)'
  PROVE  Place(p)'
<1>1. proc'[p].pc = phase /\ Holds(p)' = Holds(p)
  BY Moved DEF InboundInv, TypeOK
<1>2. phase # "decide" <=> phase \in {"complete", "gate"} \cup GatePhases
  BY DEF GatePhases
<1>3. proc'[p].ev = e /\ proc'[p].known = proc[p].known /\ proc'[p].at = proc[p].at
  BY <1>1 DEF Holds
<1>4. QED
  BY <1>1, <1>2, <1>3, PlaceMoves

LEMMA ConcludePlace ==
  ASSUME InboundInv, Next, NEW p \in Processors, NEW e \in Events,
         proc[p].pc # "idle", proc[p].ev = e,
         NEW v \in Verdicts, Conclude(p, v), v = "done" => Dealt(e) \/ Dealt(e)'
  PROVE  Place(p)'
<1>1. proc'[p].pc = "finish" /\ proc'[p].verdict = v /\ Holds(p)' = Holds(p)
  BY Moved DEF InboundInv, TypeOK
<1>2. Stored(e)
  BY DEF InboundInv, PlacesInv, Place
<1>3. v = "done" => Dealt(e)'
  BY <1>2, MessageStep
<1>4. QED
  BY <1>1, <1>3, PlaceMoves DEF Holds, GatePhases

\* The history found an answer to the message.
LEMMA CheckAnswers ==
  ASSUME NEW e \in Events, Check(e, "replied")
  PROVE  Good(e)
BY DEF Check, Checks, Good

\* One lemma for each step of handle() ...
LEMMA ClaimPlace ==
  ASSUME InboundInv, Next, NEW p \in Processors, Claim(p)
  PROVE  Place(p)'
<1>1. PICK d \in Events : /\ Take(d)
                          /\ proc'[p].pc = "start" /\ proc'[p].ev = d /\ proc'[p].at = 0
                          /\ proc'[p].known = Decided(d)
  BY DEF Claim, InboundInv, TypeOK, ProcTypeOK, Idle
<1>2. Stored(d)
  BY <1>1 DEF Take, Claimable, LiveLane, ReadyLane, Oldest, Queued, Stored
<1>3. Stored(d)' /\ (Decided(d) => Decided(d)')
  BY <1>2, MessageStep
<1>4. 0 <= arrived'
  BY OtherSteps DEF InboundInv, TypeOK, QueueTypeOK
<1>5. QED
  BY <1>1, <1>3, <1>4 DEF Place, GatePhases

LEMMA RecordPlace ==
  ASSUME InboundInv, Next, NEW p \in Processors, Record(p)
  PROVE  Place(p)'
<1>1. PICK e \in Events : e = proc[p].ev /\ proc[p].pc # "idle" /\ proc[p] \in Processor
  BY HeldEvent DEF Record, Running, InboundInv
<1>2. /\ proc'[p].pc = IF kind[e] = "stop" THEN "optout"
                       ELSE IF proc[p].known THEN "complete" ELSE "match"
      /\ Holds(p)' = Holds(p)
  <2>1. proc'[p] = [proc[p] EXCEPT
          !.force = IF e \in recorded /\ @ = "none" THEN "dup" ELSE @,
          !.pc = IF kind[e] = "stop" THEN "optout"
                 ELSE IF proc[p].known THEN "complete" ELSE "match"]
    BY <1>1 DEF Record, InboundInv, TypeOK, ProcTypeOK
  <2>2. QED
    BY <1>1, <2>1 DEF Processor, Holds
<1>3. proc[p].known => Decided(e)'
  BY <1>1, MessageStep DEF InboundInv, PlacesInv, Place
<1>4. QED
  BY <1>1, <1>2, <1>3, PlaceMoves DEF Holds, GatePhases

LEMMA StopPlace ==
  ASSUME InboundInv, Next, NEW p \in Processors, Echo(p) \/ OptOut(p) \/ StopEnrollments(p)
  PROVE  Place(p)'
<1>1. PICK e \in Events : e = proc[p].ev /\ proc[p].pc # "idle" /\ Place(p)
  BY HeldEvent DEF Echo, OptOut, StopEnrollments, Running, InboundInv, PlacesInv
<1>2. CASE Echo(p)
  <2>1. Conclude(p, "done") /\ Dealt(e)
    BY <1>1, <1>2 DEF Echo, Dealt
  <2>2. QED
    BY <1>1, <2>1, ConcludePlace DEF Verdicts
<1>3. CASE OptOut(p)
  <2>1. kind[e] = "stop" /\ optedOut'
    BY <1>1, <1>3 DEF OptOut, Running, Place
  <2>2. proc'[p].pc = "stop" /\ Holds(p)' = Holds(p)
    BY <1>3, Moved DEF OptOut, InboundInv, TypeOK
  <2>3. QED
    BY <1>1, <2>1, <2>2, PlaceMoves DEF Holds, GatePhases
<1>4. CASE StopEnrollments(p)
  <2>1. Conclude(p, "done") /\ kind[e] = "stop" /\ optedOut /\ Stored(e)
    BY <1>1, <1>4 DEF StopEnrollments, Running, Place
  <2>2. enrol'.status # "ACTIVE" /\ optedOut'
    BY <1>4, <2>1, OtherSteps DEF StopEnrollments, InboundInv, TypeOK, FunnelTypeOK
  <2>3. kind'[e] = "stop"
    BY <2>1, MessageStep
  <2>4. Dealt(e)'
    BY <2>2, <2>3 DEF Dealt, Gone
  <2>5. QED
    BY <1>1, <2>1, <2>4, ConcludePlace DEF Verdicts
<1>5. QED
  BY <1>2, <1>3, <1>4

LEMMA MatchPlace ==
  ASSUME InboundInv, Next, NEW p \in Processors, Match(p)
  PROVE  Place(p)'
<1>1. PICK e \in Events : /\ e = proc[p].ev /\ proc[p].pc # "idle" /\ proc[p] \in Processor
                          /\ Stored(e) /\ kind[e] # "stop"
  BY HeldEvent DEF Match, Running, InboundInv, PlacesInv, Place
<1>2. CASE ~campaign.open
  <2>1. Conclude(p, "done") /\ e \in skipped'
    BY <1>1, <1>2 DEF Match
  <2>2. Dealt(e)'
    BY <1>1, <2>1, MessageStep DEF Dealt, Good
  <2>3. QED
    BY <1>1, <2>1, <2>2, ConcludePlace DEF Verdicts
<1>3. CASE campaign.open
  <2>1. CASE Goto(p, "decide")
    BY <1>1, <2>1, GotoPlace
  <2>2. CASE proc' = [proc EXCEPT ![p].pc = "decide", ![p].force = "checked"]
    <3>1. proc'[p] = [proc[p] EXCEPT !.pc = "decide", !.force = "checked"]
      BY <2>2 DEF InboundInv, TypeOK, ProcTypeOK
    <3>2. proc'[p].pc = "decide" /\ Holds(p)' = Holds(p)
      BY <1>1, <3>1 DEF Processor, Holds
    <3>3. QED
      BY <1>1, <3>2, PlaceMoves DEF Holds, GatePhases
  <2>3. CASE Conclude(p, "permanent")
    BY <1>1, <2>3, ConcludePlace DEF Verdicts
  <2>4. CASE Check(e, "replied") /\ Conclude(p, "done")
    <3>1. Dealt(e)
      BY <1>1, <2>4, CheckAnswers DEF Dealt
    <3>2. QED
      BY <1>1, <2>4, <3>1, ConcludePlace DEF Verdicts
  <2>5. QED
    BY <1>1, <1>3, <2>1, <2>2, <2>3, <2>4 DEF Match
<1>4. QED
  BY <1>2, <1>3

LEMMA DecidePlace ==
  ASSUME InboundInv, Next, NEW p \in Processors, Decide(p) \/ Complete(p)
  PROVE  Place(p)'
<1>1. PICK e \in Events : /\ e = proc[p].ev /\ proc[p].pc # "idle"
                          /\ Stored(e) /\ kind[e] # "stop"
                          /\ proc[p].pc = "complete" => Decided(e)
  BY HeldEvent DEF Decide, Complete, Running, InboundInv, PlacesInv, Place
<1>2. CASE Decide(p)
  <2>1. CASE Decided(e)
    BY <1>1, <1>2, <2>1, MessageStep, GotoPlace DEF Decide
  <2>2. CASE Deciding(p)
    <3>1. event'[e].result.action # "NONE"
      BY <1>1, <2>2, DecidingKeeps DEF Result, InboundInv
    <3>2. Decided(e)'
      BY <3>1 DEF Decided, Undecided
    <3>3. QED
      BY <1>1, <1>2, <3>2, GotoPlace DEF Decide
  <2>3. QED
    BY <1>1, <1>2, <2>1, <2>2 DEF Decide, Deciding
<1>3. CASE Complete(p)
  <2>0. Decided(e) /\ Decided(e)'
    BY <1>1, <1>3, MessageStep DEF Complete, Running
  <2>1. CASE Goto(p, "gate")
    BY <1>1, <2>0, <2>1, GotoPlace
  <2>2. CASE \E v \in {"awaiting", "permanent"} : Conclude(p, v)
    BY <1>1, <2>2, ConcludePlace DEF Verdicts
  <2>3. CASE Conclude(p, "done") /\ Good(e)
    BY <1>1, <2>3, ConcludePlace DEF Verdicts, Dealt
  <2>4. CASE event[e].result.job # 0
    BY <1>1, <1>3, <2>0, <2>2, <2>3, <2>4 DEF Complete, Outcome, Good
  <2>5. CASE event[e].result.job = 0 /\ (event[e].result.action # "SPECIAL" \/ Log!HasReceipt(e))
    <3>1. Good(e)
      BY <2>0, <2>5 DEF InboundInv, RowsInv, Good, Owes
    <3>2. QED
      BY <1>1, <1>3, <2>3, <2>5, <3>1 DEF Complete
  <2>6. QED
    BY <1>1, <1>3, <2>1, <2>4, <2>5 DEF Complete
<1>4. QED
  BY <1>2, <1>3

\* ... and for each step of Sender.Send.
LEMMA SendPlace ==
  ASSUME InboundInv, Next, NEW p \in Processors,
         \/ TakeSlot(p) \/ CheckReply(p) \/ CreateReply(p) \/ Accept(p) \/ LoseAck(p) \/ Reject(p)
         \/ MarkReplyFailed(p) \/ MarkReplySent(p)
  PROVE  Place(p)'
<1>1. PICK e \in Events : /\ e = proc[p].ev /\ proc[p].pc # "idle" /\ proc[p] \in Processor
                          /\ Place(p) /\ Stored(e) /\ kind[e] # "stop" /\ Decided(e) /\ Decided(e)'
  <2>1. proc[p].pc \in {"gate"} \cup GatePhases
    BY DEF TakeSlot, CheckReply, CreateReply, Accept, LoseAck, Reject, MarkReplyFailed,
           MarkReplySent, Running, GatePhases
  <2>2. PICK e \in Events : e = proc[p].ev /\ proc[p].pc # "idle" /\ proc[p] \in Processor
    BY <2>1, HeldEvent DEF GatePhases, InboundInv
  <2>3. Place(p) /\ Stored(e) /\ kind[e] # "stop" /\ Decided(e)
    BY <2>1, <2>2 DEF InboundInv, PlacesInv, Place, GatePhases
  <2>4. QED
    BY <2>2, <2>3, MessageStep
<1>2. ProcTypeOK
  BY DEF InboundInv, TypeOK
<1>3. CASE \E phase \in {"check", "create"} : Goto(p, phase)
  BY <1>1, <1>3, GotoPlace
<1>4. CASE \E v \in {"retry", "permanent"} : Conclude(p, v)
  BY <1>1, <1>4, ConcludePlace DEF Verdicts
<1>5. CASE Conclude(p, "done") /\ (Good(e) \/ Answered("auto", e)')
  <2>1. Dealt(e) \/ Dealt(e)'
    BY <1>1, <1>5, MessageStep DEF Dealt, Good
  <2>2. QED
    BY <1>1, <1>5, <2>1, ConcludePlace DEF Verdicts
<1>6. CASE CheckReply(p)
  <2>1. Log!HasReceipt(e) \/ Answered("hand", e) \/ Check(e, "replied") => Good(e)
    BY CheckAnswers DEF InboundInv, RowsInv, Good
  <2>2. QED
    BY <1>1, <1>3, <1>4, <1>5, <1>6, <2>1 DEF CheckReply
<1>7. CASE CreateReply(p)
  <2>1. CASE \E n \in Rows : proc' = [proc EXCEPT ![p].pc = "deliver", ![p].cur = n]
    <3>1. PICK n \in Rows : proc'[p] = [proc[p] EXCEPT !.pc = "deliver", !.cur = n]
      BY <1>2, <2>1 DEF ProcTypeOK
    <3>2. proc'[p].pc = "deliver" /\ Holds(p)' = Holds(p)
      BY <1>1, <3>1 DEF Processor, Holds
    <3>3. QED
      BY <1>1, <3>2, PlaceMoves DEF Holds
  <2>2. QED
    BY <1>4, <1>7, <2>1 DEF CreateReply
<1>8. CASE Accept(p)
  <2>1. proc'[p] = [proc[p] EXCEPT !.pc = "acked", !.at = arrived]
    BY <1>2, <1>8 DEF Accept, ProcTypeOK
  <2>2. /\ proc'[p].pc = "acked" /\ proc'[p].ev = e /\ proc'[p].known = proc[p].known
        /\ proc'[p].at = arrived
    BY <1>1, <2>1 DEF Processor
  <2>3. e <= arrived
    BY <1>1 DEF InboundInv, NumbersInv
  <2>4. QED
    BY <1>1, <2>2, <2>3, PlaceMoves
<1>9. CASE LoseAck(p) \/ Reject(p)
  <2>1. PICK v \in {"retry", "permanent"} :
           proc'[p] = [proc[p] EXCEPT !.pc = "rowfail", !.verdict = v]
    BY <1>2, <1>9 DEF LoseAck, Reject, ProcTypeOK
  <2>2. proc'[p].pc = "rowfail" /\ proc'[p].verdict = v /\ Holds(p)' = Holds(p)
    BY <1>1, <2>1 DEF Processor, Holds
  <2>3. QED
    BY <1>1, <2>2, PlaceMoves DEF Holds
<1>10. CASE MarkReplyFailed(p)
  <2>1. proc[p].verdict # "done"
    BY <1>1, <1>10 DEF MarkReplyFailed, Running, Place
  <2>2. proc'[p].pc = "finish" /\ proc'[p].verdict # "done" /\ Holds(p)' = Holds(p)
    BY <1>2, <1>10, <2>1, Moved DEF MarkReplyFailed
  <2>3. QED
    BY <1>1, <2>2, PlaceMoves DEF Holds, GatePhases
<1>11. CASE MarkReplySent(p)
  <2>1. CASE Conclude(p, "done") /\ AnswerAt("auto", proc[p].at)
    <3>1. e <= proc[p].at /\ proc[p].at \in Nat /\ e \in Nat
      BY <1>1, <1>11, EventsAssumption DEF MarkReplySent, Place, Processor
    <3>2. Answered("auto", e)'
      BY <2>1, <3>1 DEF AnswerAt, Later, Answered, InboundInv, TypeOK, MessageTypeOK
    <3>3. QED
      BY <1>5, <2>1, <3>2
  <2>2. QED
    BY <1>4, <1>11, <2>1 DEF MarkReplySent
<1>12. QED
  BY <1>3, <1>6, <1>7, <1>8, <1>9, <1>10, <1>11 DEF TakeSlot

\* A failed statement.
LEMMA DbFailsPlace ==
  ASSUME InboundInv, Next, NEW p \in Processors, DbFails(p)
  PROVE  Place(p)'
<1>1. CASE proc[p].pc = "idle"
  BY <1>1 DEF DbFails, Running
<1>2. CASE proc[p].pc # "idle"
  <2>1. PICK e \in Events : e = proc[p].ev /\ Place(p)
    BY <1>2, HeldEvent DEF InboundInv, PlacesInv
  <2>2. CASE \E v \in {"retry", "permanent"} : Conclude(p, v)
    BY <1>2, <2>1, <2>2, ConcludePlace DEF Verdicts
  <2>3. CASE Running(p, "rowfail") /\ Goto(p, "finish")
    <3>1. proc[p].verdict # "done"
      BY <2>1, <2>3 DEF Running, Place
    <3>2. proc'[p].pc = "finish" /\ proc'[p].verdict # "done" /\ Holds(p)' = Holds(p)
      BY <2>3, <3>1, Moved DEF InboundInv, TypeOK
    <3>3. QED
      BY <1>2, <2>1, <3>2, PlaceMoves DEF Holds, GatePhases
  <2>4. CASE Stop({p})
    <3>1. proc'[p].pc = "idle"
      BY <2>4 DEF Stop, Idle
    <3>2. QED
      BY <3>1, PlaceKept
  <2>5. QED
    BY <2>2, <2>3, <2>4 DEF DbFails
<1>3. QED
  BY <1>1, <1>2

\* A processor under a cancelled context, or none.
LEMMA HeartbeatPlace ==
  ASSUME InboundInv, Next, NEW p \in Processors, Heartbeat(p) \/ Finish(p) \/ Abandon(p)
  PROVE  Place(p)'
<1>1. CASE Stop({p})
  <2>1. proc'[p].pc = "idle"
    BY <1>1 DEF Stop, Idle
  <2>2. QED
    BY <2>1, PlaceKept
<1>2. CASE UNCHANGED proc
  BY <1>2, PlaceKept
<1>3. CASE proc' = [proc EXCEPT ![p].ctx = FALSE] /\ proc[p].pc # "idle"
  <2>1. PICK e \in Events : /\ e = proc[p].ev /\ proc[p] \in Processor /\ Place(p)
                            /\ Stored(e)
    BY <1>3, HeldEvent DEF InboundInv, PlacesInv, Place
  <2>2. proc'[p] = [proc[p] EXCEPT !.ctx = FALSE]
    BY <1>3 DEF InboundInv, TypeOK, ProcTypeOK
  <2>3. /\ proc'[p].pc = proc[p].pc /\ proc'[p].verdict = proc[p].verdict
        /\ Holds(p)' = Holds(p)
    BY <2>1, <2>2 DEF Processor, Holds
  <2>4. /\ Decided(e) => Decided(e)'
        /\ Dealt(e) => Dealt(e)'
        /\ optedOut => optedOut'
    BY <2>1, MessageStep, OtherSteps DEF InboundInv
  <2>5. QED
    BY <1>3, <2>1, <2>3, <2>4, PlaceMoves DEF Holds, Place
<1>4. QED
  BY <1>1, <1>2, <1>3 DEF Heartbeat, Finish, Abandon

LEMMA PlacesNext ==
  ASSUME InboundInv, Next
  PROVE  PlacesInv'
<1>0. ProcTypeOK
  BY DEF InboundInv, TypeOK
<1>1. ASSUME NEW q \in Processors,
             ProcessorStep(q) \/ Accept(q) \/ LoseAck(q) \/ Reject(q) \/ DbFails(q) \/ Heartbeat(q)
      PROVE  PlacesInv'
  <2>1. \A p \in Processors \ {q} : proc'[p] = proc[p]
    BY <1>0, <1>1
    DEF ProcTypeOK, ProcessorStep, Claim, Record, Echo, OptOut, StopEnrollments, Match, Decide,
        Complete, TakeSlot, CheckReply, CreateReply, MarkReplyFailed, MarkReplySent, Finish,
        Abandon, Accept, LoseAck, Reject, DbFails, Heartbeat, Goto, Conclude, Stop
  <2>2. Place(q)'
    BY <1>1, ClaimPlace, RecordPlace, StopPlace, MatchPlace, DecidePlace, SendPlace, DbFailsPlace,
       HeartbeatPlace
    DEF ProcessorStep
  <2>3. QED
    BY <2>1, <2>2, PlaceKept DEF PlacesInv
<1>2. CASE Crash
  <2>1. \A p \in Processors : proc'[p].pc = "idle"
    BY <1>2 DEF Crash, Stop, Idle
  <2>2. QED
    BY <2>1, PlaceKept DEF PlacesInv
<1>3. CASE UNCHANGED proc
  BY <1>3, PlaceKept DEF PlacesInv
<1>4. QED
  BY <1>1, <1>2, <1>3
  DEF Next, Write, PhoneReply, Age, Ingest, Acknowledge, DeleteFails, Lapse, BackoffElapses,
      Examine, ReleaseStale, RecoverRetryable, Pause, Activate, Requeue, ClaimGreeting,
      SettleGreeting

LEMMA InvariantNext ==
  ASSUME InboundInv, [Next]_vars
  PROVE  InboundInv'
<1>1. CASE Next
  <2>1. TypeOK'
    BY <1>1, EventsNext, QueueNext, MessageNext, FunnelNext, ProcNext, ReviewNext
    DEF InboundInv, TypeOK, EventsOK, ReviewOK
  <2>2. QED
    BY <1>1, <2>1, NumbersNext, RowsNext, PlacesNext DEF InboundInv
<1>2. CASE UNCHANGED vars
  BY <1>2
  DEF vars, queueVars, messageVars, logVars, funnelVars, InboundInv, TypeOK, EventTypeOK,
      QueueTypeOK, MessageTypeOK, Log!LogTypeOK, FunnelTypeOK, ProcTypeOK, NumbersInv, RowsInv,
      PlacesInv, Place, Dealt, Good, Gone, Stored, Decided, Answered, Log!HasReceipt
<1>3. QED
  BY <1>1, <1>2

LEMMA InvariantInit ==
  ASSUME Init
  PROVE  InboundInv
<1>1. TypeOK
  BY InitType
<1>2. NumbersInv
  BY EventsAssumption, InboundAssumption
  DEF Init, NumbersInv, EventInit, NoRow, Stored, Decided
<1>3. RowsInv
  BY DEF Init, RowsInv, EventInit, NoRow, Log!LogInit, Log!HasReceipt, Runs
<1>4. PlacesInv
  BY DEF Init, PlacesInv, Place, Idle
<1>5. QED
  BY <1>1, <1>2, <1>3, <1>4 DEF InboundInv

LEMMA Invariant == Spec => []InboundInv
BY InvariantInit, InvariantNext, PTL DEF Spec

\* Once a stop word has been dealt with, the enrolment stays stopped
\* (handleUnsubscribe and HandleTriggerEvent, for any number of processors).
THEOREM StopComplete == Spec => []StopIsComplete
<1>1. InboundInv => StopIsComplete
  BY DEF InboundInv, RowsInv, Dealt, Gone, StopIsComplete
<1>2. QED
  BY <1>1, Invariant, PTL

\* A trigger message that is owed a reply is closed only when it has been
\* answered, although the statement that closes it does not ask whose attempt it
\* is (completeTriggerReply, MarkProcessed).
THEOREM AnsweredWhenProcessed == Spec => []ProcessedIsAnswered
<1>1. InboundInv => ProcessedIsAnswered
  <2> SUFFICES ASSUME InboundInv, NEW e \in Triggers \ skipped,
                      event[e].status = "PROCESSED", Owes(event[e].result)
               PROVE  \/ greet[event[e].result.job] \in {"SENT", "ANSWERED"}
                      \/ \E x \in DOMAIN answer : Answered(x, e)
    BY DEF ProcessedIsAnswered
  <2>1. Good(e)
    BY DEF InboundInv, RowsInv, Dealt, Triggers
  <2>2. DOMAIN answer = {"journal", "hand", "auto"}
    BY DEF InboundInv, TypeOK, MessageTypeOK
  <2>3. QED
    BY <2>1, <2>2 DEF Good
<1>2. QED
  BY <1>1, Invariant, PTL

-----------------------------------------------------------------------------
(***************************************************************************)
(* The copies of the courtesy reply, with one slot.                          *)
(***************************************************************************)
\* A reply to e may be tried (again).
Fresh(e) == accepted[e] = {} \/ e \in lost

\* A processor on its way to a reply.
Sending(p) ==
  LET e == proc[p].ev  pc == proc[p].pc IN
    /\ pc \in {"gate"} \cup GatePhases => event[e].result.action = "SPECIAL"
    /\ pc \in {"create", "deliver", "rowfail"} => Fresh(e)
    /\ pc = "deliver" => row[e][proc[p].cur] = "PENDING"

\* What reached the customer is on record: as sent, as in doubt, or as lost.
CopiesInv == \A e \in Events : Fresh(e) \/ Log!HasReceipt(e) \/ Log!InDoubt(e)

AloneInv == \A p, q \in Processors : proc[p].pc \in GatePhases /\ proc[q].pc \in GatePhases => p = q

GateInv == CopiesInv /\ AloneInv /\ \A p \in Processors : Sending(p)

\* The gate's slot is free only if no other processor is inside.
LEMMA SlotFree ==
  ASSUME Slots = 1, Cardinality(InGate) < Slots
  PROVE  \A p \in Processors : proc[p].pc \notin GatePhases
<1>1. IsFiniteSet(InGate)
  BY InboundAssumption, FS_Subset DEF InGate
<1>2. Cardinality(InGate) = 0
  BY <1>1, FS_CardinalityType
<1>3. InGate = {}
  BY <1>1, <1>2, FS_EmptySet
<1>4. QED
  BY <1>3 DEF InGate

\* The steps that touch the rows of messages or the chat.
Logging(p) ==
  CreateReply(p) \/ Accept(p) \/ LoseAck(p) \/ MarkReplyFailed(p) \/ MarkReplySent(p) \/ Abandon(p)

LEMMA LogStep ==
  ASSUME TypeOK, Next
  PROVE  /\ UNCHANGED <<row, accepted>> \/ (\E p \in Processors : Logging(p)) \/ Crash
         /\ \A e \in lost : e \in lost'
         /\ \A p \in Processors : Logging(p) /\ proc[p].pc \notin GatePhases => UNCHANGED <<row, accepted>>
<1>1. ASSUME NEW p \in Processors, ProcessorStep(p)
      PROVE  Logging(p) \/ UNCHANGED <<row, accepted, lost>>
  BY <1>1
  DEF ProcessorStep, Logging, Claim, Record, Echo, OptOut, StopEnrollments, Match, Decide, Complete,
      TakeSlot, CheckReply, Finish, messageVars, logVars
<1>2. ASSUME NEW p \in Processors, Reject(p) \/ DbFails(p) \/ Heartbeat(p)
      PROVE  UNCHANGED <<row, accepted, lost>>
  BY <1>2 DEF Reject, DbFails, Heartbeat, messageVars, logVars
<1>3. ASSUME NEW p \in Processors, Logging(p)
      PROVE  /\ \A e \in lost : e \in lost'
             /\ proc[p].pc \notin GatePhases => UNCHANGED <<row, accepted>>
  BY <1>3
  DEF Logging, CreateReply, Accept, LoseAck, MarkReplyFailed, MarkReplySent, Abandon, Running,
      GatePhases, logVars
<1>4. CASE UNCHANGED <<row, accepted, lost>>
  BY <1>3, <1>4
<1>5. CASE Crash
  BY <1>3, <1>5 DEF Crash
<1>6. CASE \E p \in Processors : Logging(p)
  BY <1>3, <1>6
<1>7. QED
  BY <1>1, <1>2, <1>4, <1>5, <1>6
  DEF Next, Logging, Write, PhoneReply, Age, Ingest, Acknowledge, DeleteFails, Lapse, BackoffElapses,
      Examine, ReleaseStale, RecoverRetryable, Pause, Activate, Requeue, ClaimGreeting,
      SettleGreeting, messageVars, logVars

\* The copy arrives of a reply whose row is PENDING.
LEMMA CopiesNext ==
  ASSUME InboundInv, GateInv, Next
  PROVE  CopiesInv'
<1>0. /\ row \in [Events -> [Rows -> Log!RowStates]]
      /\ accepted \in [Events -> SUBSET Rows]
      /\ ProcTypeOK /\ TypeOK /\ CopiesInv
      /\ \A e \in lost : e \in lost'
  BY LogStep DEF InboundInv, TypeOK, MessageTypeOK, Log!LogTypeOK, GateInv
<1>1. CASE UNCHANGED <<row, accepted>>
  BY <1>0, <1>1 DEF CopiesInv, Fresh, Log!HasReceipt, Log!InDoubt
<1>2. ASSUME NEW p \in Processors, Logging(p)
      PROVE  CopiesInv'
  <2>0. CASE UNCHANGED <<row, accepted>>
    BY <1>1, <2>0
  <2>1. CASE proc[p].pc \in GatePhases
    <3>1. PICK d \in Events : d = proc[p].ev /\ proc[p].pc # "idle" /\ Sending(p)
      BY <2>1, HeldEvent DEF GatePhases, InboundInv, GateInv
    <3>2. CASE CreateReply(p) /\ \E n \in Rows : Log!Unused(d, n) /\ Log!SetRow(d, n, "PENDING")
      <4>1. PICK n \in Rows : row[d][n] = "NONE" /\ Log!SetRow(d, n, "PENDING")
        BY <3>2 DEF Log!Unused
      <4>2. \A e \in Events, m \in Rows : row[e][m] \in {"SENT", "PENDING"} => row'[e][m] = row[e][m]
        BY <1>0, <4>1 DEF Log!SetRow
      <4>3. accepted' = accepted
        BY <4>1 DEF Log!SetRow
      <4>4. QED
        BY <1>0, <4>2, <4>3 DEF CopiesInv, Fresh, Log!HasReceipt, Log!InDoubt
    <3>3. CASE MarkReplyFailed(p)
      <4>1. Fresh(d) /\ Log!SetRow(d, proc[p].cur, "FAILED")
        BY <3>1, <3>3 DEF MarkReplyFailed, Running, Sending
      <4>2. accepted' = accepted /\ \A e \in Events \ {d} : row'[e] = row[e]
        BY <1>0, <4>1 DEF Log!SetRow
      <4>3. QED
        BY <1>0, <4>1, <4>2 DEF CopiesInv, Fresh, Log!HasReceipt, Log!InDoubt
    <3>4. CASE MarkReplySent(p) /\ Log!SetRow(d, proc[p].cur, "SENT")
      <4>1. proc[p].cur \in Rows
        BY <1>0, <3>4 DEF MarkReplySent, ProcTypeOK
      <4>2. accepted' = accepted /\ row'[d][proc[p].cur] = "SENT" /\ \A e \in Events \ {d} : row'[e] = row[e]
        BY <1>0, <3>4, <4>1 DEF Log!SetRow
      <4>3. QED
        BY <1>0, <4>1, <4>2 DEF CopiesInv, Fresh, Log!HasReceipt, Log!InDoubt
    <3>5. CASE proc[p].pc = "deliver" /\ Log!Reach(d, proc[p].cur)
      <4>1. proc[p].cur \in Rows /\ row[d][proc[p].cur] = "PENDING"
        BY <1>0, <3>1, <3>5 DEF ProcTypeOK, Sending
      <4>2. row' = row /\ \A e \in Events \ {d} : accepted'[e] = accepted[e]
        BY <1>0, <3>5 DEF Log!Reach
      <4>3. QED
        BY <1>0, <4>1, <4>2 DEF CopiesInv, Fresh, Log!HasReceipt, Log!InDoubt
    <3>6. QED
      BY <1>2, <2>0, <3>1, <3>2, <3>3, <3>4, <3>5
      DEF Logging, CreateReply, Accept, LoseAck, MarkReplyFailed, MarkReplySent, Abandon, Arrive, logVars
  <2>2. QED
    BY <1>0, <1>2, <2>0, <2>1, LogStep
<1>3. CASE Crash
  <2>1. PICK S \in SUBSET OnWire : accepted' = [e \in Events |->
             accepted[e] \cup {n \in Rows : \E p \in S : proc[p].ev = e /\ proc[p].cur = n}]
    BY <1>3 DEF Crash
  <2>2. ASSUME NEW e \in Events PROVE accepted'[e] = accepted[e] \/ Log!InDoubt(e)
    <3>1. CASE \E p \in S : proc[p].ev = e
      BY <1>0, <3>1 DEF OnWire, GateInv, Sending, ProcTypeOK, Log!InDoubt
    <3>2. CASE ~\E p \in S : proc[p].ev = e
      BY <2>1, <3>2
    <3>3. QED
      BY <3>1, <3>2
  <2>3. row' = row
    BY <1>3 DEF Crash
  <2>4. QED
    BY <1>0, <2>2, <2>3 DEF CopiesInv, Fresh, Log!HasReceipt, Log!InDoubt
<1>4. QED
  BY <1>1, <1>2, <1>3, <1>0, LogStep

\* A processor that stays where it is, or that is at no reply.
LEMMA SendingKept ==
  ASSUME InboundInv, GateInv, Next, NEW p \in Processors,
         proc'[p] = proc[p] \/ proc'[p].pc \notin {"gate"} \cup GatePhases,
         proc[p].pc \in GatePhases /\ proc'[p] = proc[p] => UNCHANGED <<row, accepted>>
  PROVE  Sending(p)'
<1>1. CASE proc'[p].pc \notin {"gate"} \cup GatePhases
  BY <1>1 DEF Sending, GatePhases
<1>2. CASE proc'[p] = proc[p] /\ proc[p].pc \in {"gate"} \cup GatePhases
  <2>1. PICK e \in Events : e = proc[p].ev /\ Sending(p)
    BY <1>2, HeldEvent DEF InboundInv, GateInv, GatePhases
  <2>2. event'[e].result.action = "SPECIAL"
    <3>1. event[e].result.action = "SPECIAL"
      BY <1>2, <2>1 DEF Sending
    <3>2. Decided(e)
      BY <3>1 DEF Decided, Undecided
    <3>3. QED
      BY <3>1, <3>2, MessageStep
  <2>3. \A d \in lost : d \in lost'
    BY LogStep DEF InboundInv
  <2>4. QED
    BY <1>2, <2>1, <2>2, <2>3 DEF Sending, Fresh, GatePhases
<1>3. QED
  BY <1>1, <1>2

\* A step of a processor that is at a reply, or comes to one.
LEMMA SendingMoves ==
  ASSUME InboundInv, GateInv, Next, NEW p \in Processors,
         \/ Complete(p) \/ TakeSlot(p) \/ CheckReply(p) \/ CreateReply(p) \/ Accept(p)
         \/ LoseAck(p) \/ Reject(p) \/ MarkReplyFailed(p) \/ MarkReplySent(p)
         \/ DbFails(p) \/ Heartbeat(p)
  PROVE  Sending(p)'
<1>0. CASE proc[p].pc = "idle"
  BY <1>0 DEF Complete, TakeSlot, CheckReply, CreateReply, Accept, LoseAck, Reject, MarkReplyFailed,
              MarkReplySent, DbFails, Heartbeat, Running
<1> SUFFICES ASSUME proc[p].pc # "idle" PROVE Sending(p)'
  BY <1>0
<1>1. PICK e \in Events : /\ e = proc[p].ev /\ proc[p] \in Processor /\ Sending(p) /\ Place(p)
  BY HeldEvent DEF InboundInv, GateInv, PlacesInv
<1>2. ProcTypeOK
  BY DEF InboundInv, TypeOK
<1>3. event[e].result.action = "SPECIAL" => event'[e].result.action = "SPECIAL"
  BY MessageStep DEF Decided, Undecided
<1>4. CASE proc'[p].pc \notin {"gate"} \cup GatePhases
  BY <1>4, SendingKept DEF GatePhases
<1>5. CASE \E v : Conclude(p, v)
  BY <1>2, <1>4, <1>5, Moved DEF GatePhases
<1>6. CASE Complete(p) /\ Goto(p, "gate")
  <2>1. proc'[p].pc = "gate" /\ proc'[p].ev = e
    BY <1>1, <1>2, <1>6, Moved DEF Holds
  <2>2. event[e].result.action = "SPECIAL"
    BY <1>1, <1>2, <1>6, <2>1, Moved DEF Complete
  <2>3. QED
    BY <1>3, <2>1, <2>2 DEF Sending
<1>7. CASE TakeSlot(p)
  <2>1. proc'[p].pc = "check" /\ proc'[p].ev = e
    BY <1>1, <1>2, <1>7, Moved DEF TakeSlot, Holds
  <2>2. event[e].result.action = "SPECIAL"
    BY <1>1, <1>7 DEF TakeSlot, Running, Sending
  <2>3. QED
    BY <1>3, <2>1, <2>2 DEF Sending
<1>8. CASE CheckReply(p) /\ Goto(p, "create")
  <2>1. proc'[p].pc = "create" /\ proc'[p].ev = e /\ proc[p].pc = "check"
    BY <1>1, <1>2, <1>8, Moved DEF CheckReply, Running, Holds
  <2>2. event[e].result.action = "SPECIAL"
    BY <1>1, <2>1 DEF Sending, GatePhases
  <2>3. ~Log!HasReceipt(e) /\ ~Log!InDoubt(e) /\ UNCHANGED <<accepted, lost>>
    BY <1>1, <1>2, <1>8, <2>1, Moved DEF CheckReply, messageVars, logVars
  <2>4. accepted'[e] = {} \/ e \in lost'
    BY <2>3 DEF GateInv, CopiesInv, Fresh
  <2>5. QED
    BY <1>3, <2>1, <2>2, <2>4 DEF Sending, Fresh
<1>9. CASE CreateReply(p) /\ \E n \in Rows : /\ Log!SetRow(e, n, "PENDING")
                                             /\ proc' = [proc EXCEPT ![p].pc = "deliver", ![p].cur = n]
  <2>1. PICK n \in Rows : /\ Log!SetRow(e, n, "PENDING")
                          /\ proc' = [proc EXCEPT ![p].pc = "deliver", ![p].cur = n]
    BY <1>9
  <2>2. proc'[p] = [proc[p] EXCEPT !.pc = "deliver", !.cur = n]
    BY <1>2, <2>1 DEF ProcTypeOK
  <2>3. proc'[p].pc = "deliver" /\ proc'[p].ev = e /\ proc'[p].cur = n
    BY <1>1, <2>2 DEF Processor
  <2>4. event[e].result.action = "SPECIAL" /\ Fresh(e)
    BY <1>1, <1>9 DEF CreateReply, Running, Sending, GatePhases
  <2>5. accepted' = accepted /\ lost' = lost /\ row'[e][n] = "PENDING"
    BY <1>9, <2>1 DEF CreateReply, Log!SetRow, InboundInv, TypeOK, MessageTypeOK, Log!LogTypeOK
  <2>6. QED
    BY <1>3, <2>3, <2>4, <2>5 DEF Sending, Fresh
<1>10. CASE Accept(p)
  <2>1. proc'[p] = [proc[p] EXCEPT !.pc = "acked", !.at = arrived]
    BY <1>2, <1>10 DEF Accept, ProcTypeOK
  <2>2. proc'[p].pc = "acked" /\ proc'[p].ev = e
    BY <1>1, <2>1 DEF Processor
  <2>3. event[e].result.action = "SPECIAL"
    BY <1>1, <1>10 DEF Accept, Sending, GatePhases
  <2>4. QED
    BY <1>3, <2>2, <2>3 DEF Sending
<1>11. CASE LoseAck(p) \/ Reject(p)
  <2>1. PICK v : proc'[p] = [proc[p] EXCEPT !.pc = "rowfail", !.verdict = v]
    BY <1>2, <1>11 DEF LoseAck, Reject, ProcTypeOK
  <2>2. proc'[p].pc = "rowfail" /\ proc'[p].ev = e
    BY <1>1, <2>1 DEF Processor
  <2>3. event[e].result.action = "SPECIAL" /\ Fresh(e)
    BY <1>1, <1>11 DEF LoseAck, Reject, Sending, GatePhases
  <2>4. accepted'[e] = {} \/ e \in lost'
    <3>1. CASE LoseAck(p)
      BY <1>1, <3>1 DEF LoseAck
    <3>2. CASE Reject(p)
      BY <2>3, <3>2 DEF Reject, Fresh, messageVars, logVars
    <3>3. QED
      BY <1>11, <3>1, <3>2
  <2>5. QED
    BY <1>3, <2>2, <2>3, <2>4 DEF Sending, Fresh
<1>12. CASE MarkReplyFailed(p) \/ Goto(p, "finish")
  BY <1>2, <1>4, <1>12, Moved DEF MarkReplyFailed, GatePhases
<1>13. CASE Heartbeat(p)
  <2>1. CASE UNCHANGED proc
    BY <1>13, <2>1, SendingKept DEF Heartbeat, messageVars, logVars
  <2>2. CASE proc' = [proc EXCEPT ![p].ctx = FALSE]
    <3>1. proc'[p] = [proc[p] EXCEPT !.ctx = FALSE]
      BY <1>2, <2>2 DEF ProcTypeOK
    <3>2. proc'[p].pc = proc[p].pc /\ proc'[p].ev = e /\ proc'[p].cur = proc[p].cur
      BY <1>1, <3>1 DEF Processor
    <3>3. UNCHANGED <<row, accepted, lost>>
      BY <1>13 DEF Heartbeat, messageVars, logVars
    <3>4. QED
      BY <1>1, <1>3, <3>2, <3>3 DEF Sending, Fresh
  <2>3. QED
    BY <1>13, <2>1, <2>2 DEF Heartbeat
<1>14. CASE Stop({p})
  <2>1. proc'[p].pc = "idle"
    BY <1>14 DEF Stop, Idle
  <2>2. QED
    BY <1>4, <2>1 DEF GatePhases
<1>15. QED
  <2>1. CASE Complete(p)
    BY <1>5, <1>6, <2>1 DEF Complete
  <2>2. CASE CheckReply(p)
    BY <1>5, <1>8, <2>2 DEF CheckReply
  <2>3. CASE CreateReply(p)
    BY <1>1, <1>5, <1>9, <2>3 DEF CreateReply
  <2>4. CASE MarkReplySent(p)
    BY <1>5, <2>4 DEF MarkReplySent
  <2>5. CASE DbFails(p)
    BY <1>5, <1>12, <1>14, <2>5 DEF DbFails
  <2>6. QED
    BY <1>7, <1>10, <1>11, <1>12, <1>13, <2>1, <2>2, <2>3, <2>4, <2>5

\* The steps that lead to no reply, and those that lead no further in.
Outside(p) ==
  \/ Claim(p) \/ Record(p) \/ Echo(p) \/ OptOut(p) \/ StopEnrollments(p) \/ Match(p)
  \/ Decide(p) \/ Finish(p) \/ Abandon(p)

LEMMA OutsideStays ==
  ASSUME TypeOK, NEW p \in Processors, Outside(p)
  PROVE  proc'[p].pc \notin {"gate"} \cup GatePhases
<1>0. ProcTypeOK /\ proc[p] \in Processor
  BY DEF TypeOK, ProcTypeOK
<1>1. CASE Claim(p)
  <2>1. proc'[p].pc = "start"
    BY <1>0, <1>1 DEF Claim, ProcTypeOK, Idle
  <2>2. QED
    BY <2>1 DEF GatePhases
<1>2. CASE Record(p)
  <2>1. proc'[p].pc \in {"optout", "complete", "match"}
    BY <1>0, <1>2 DEF Record, ProcTypeOK, Processor
  <2>2. QED
    BY <2>1 DEF GatePhases
<1>3. CASE Match(p)
  <2>1. CASE proc' = [proc EXCEPT ![p].pc = "decide", ![p].force = "checked"]
    <3>1. proc'[p].pc = "decide"
      BY <1>0, <2>1 DEF ProcTypeOK, Processor
    <3>2. QED
      BY <3>1 DEF GatePhases
  <2>2. CASE Goto(p, "decide") \/ \E v : Conclude(p, v)
    BY <1>0, <2>2, Moved DEF GatePhases
  <2>3. QED
    BY <1>3, <2>1, <2>2 DEF Match
<1>4. CASE Goto(p, "stop") \/ Goto(p, "complete") \/ \E v : Conclude(p, v)
  BY <1>0, <1>4, Moved DEF GatePhases
<1>5. CASE Stop({p})
  BY <1>5 DEF Stop, Idle, GatePhases
<1>6. QED
  BY <1>1, <1>2, <1>3, <1>4, <1>5
  DEF Outside, Echo, OptOut, StopEnrollments, Decide, Finish, Abandon

LEMMA InsideStays ==
  ASSUME TypeOK, NEW p \in Processors, proc'[p].pc \in GatePhases,
         \/ Complete(p) \/ CheckReply(p) \/ CreateReply(p) \/ Accept(p) \/ LoseAck(p) \/ Reject(p)
         \/ MarkReplyFailed(p) \/ MarkReplySent(p) \/ DbFails(p) \/ Heartbeat(p)
  PROVE  proc[p].pc \in GatePhases
<1>0. ProcTypeOK /\ proc[p] \in Processor
  BY DEF TypeOK, ProcTypeOK
<1>1. CASE CheckReply(p) \/ CreateReply(p) \/ Accept(p) \/ LoseAck(p) \/ Reject(p)
           \/ MarkReplyFailed(p) \/ MarkReplySent(p)
  BY <1>1
  DEF CheckReply, CreateReply, Accept, LoseAck, Reject, MarkReplyFailed, MarkReplySent, Running,
      GatePhases
<1>2. CASE Goto(p, "gate") \/ Goto(p, "finish") \/ Stop({p}) \/ \E v : Conclude(p, v)
  BY <1>0, <1>2, Moved DEF GatePhases, Stop, Idle
<1>3. CASE Heartbeat(p)
  <2>1. proc'[p].pc = proc[p].pc
    BY <1>0, <1>3 DEF Heartbeat, ProcTypeOK, Processor
  <2>2. QED
    BY <2>1
<1>4. QED
  BY <1>1, <1>2, <1>3 DEF Complete, DbFails

LEMMA GateNext ==
  ASSUME Slots = 1, InboundInv, GateInv, Next
  PROVE  GateInv'
<1>0. ProcTypeOK /\ AloneInv /\ CopiesInv'
  BY CopiesNext DEF InboundInv, TypeOK, GateInv
<1>1. ASSUME NEW q \in Processors,
             ProcessorStep(q) \/ Accept(q) \/ LoseAck(q) \/ Reject(q) \/ DbFails(q) \/ Heartbeat(q)
      PROVE  AloneInv' /\ \A p \in Processors : Sending(p)'
  <2>1. \A p \in Processors \ {q} : proc'[p] = proc[p]
    BY <1>0, <1>1
    DEF ProcTypeOK, ProcessorStep, Claim, Record, Echo, OptOut, StopEnrollments, Match, Decide,
        Complete, TakeSlot, CheckReply, CreateReply, MarkReplyFailed, MarkReplySent, Finish,
        Abandon, Accept, LoseAck, Reject, DbFails, Heartbeat, Goto, Conclude, Stop
  <2>2. \/ proc'[q].pc \in GatePhases => proc[q].pc \in GatePhases
        \/ TakeSlot(q)
    BY <1>1, OutsideStays, InsideStays DEF InboundInv, ProcessorStep, Outside
  <2>3. AloneInv'
    BY <1>0, <2>1, <2>2, SlotFree DEF AloneInv, TakeSlot
  <2>4. Sending(q)'
    <3>1. CASE Outside(q)
      BY <3>1, OutsideStays, SendingKept DEF InboundInv, GatePhases
    <3>2. QED
      BY <1>1, <3>1, SendingMoves DEF ProcessorStep, Outside
  <2>5. ASSUME NEW p \in Processors \ {q} PROVE Sending(p)'
    <3>1. proc'[p] = proc[p]
      BY <2>1
    <3>2. proc[p].pc \in GatePhases => UNCHANGED <<row, accepted>>
      <4>1. CASE Logging(q)
        BY <1>0, <4>1, LogStep DEF AloneInv, InboundInv
      <4>2. CASE ~Logging(q)
        BY <1>1, <4>2
        DEF ProcessorStep, Logging, Claim, Record, Echo, OptOut, StopEnrollments, Match, Decide,
            Complete, TakeSlot, CheckReply, Finish, Reject, DbFails, Heartbeat, messageVars, logVars
      <4>3. QED
        BY <4>1, <4>2
    <3>3. QED
      BY <3>1, <3>2, SendingKept
  <2>6. QED
    BY <2>3, <2>4, <2>5
<1>2. CASE Crash
  <2>1. \A p \in Processors : proc'[p].pc = "idle"
    BY <1>2 DEF Crash, Stop, Idle
  <2>2. QED
    BY <1>0, <2>1, SendingKept DEF GateInv, AloneInv, GatePhases
<1>3. CASE UNCHANGED <<proc, row, accepted>>
  BY <1>0, <1>3, SendingKept DEF GateInv, AloneInv
<1>4. QED
  BY <1>0, <1>1, <1>2, <1>3
  DEF GateInv, Next, Write, PhoneReply, Age, Ingest, Acknowledge, DeleteFails, Lapse,
      BackoffElapses, Examine, ReleaseStale, RecoverRetryable, Pause, Activate, Requeue,
      ClaimGreeting, SettleGreeting, messageVars, logVars

LEMMA GateInvariant ==
  ASSUME Slots = 1
  PROVE  Spec => []GateInv
<1>1. Init => GateInv
  BY DEF Init, GateInv, CopiesInv, AloneInv, Sending, Fresh, Log!LogInit, Idle, GatePhases
<1>2. InboundInv /\ GateInv /\ [Next]_vars => GateInv'
  <2>1. ASSUME InboundInv, GateInv, UNCHANGED vars
        PROVE  GateInv'
    BY <2>1
    DEF vars, messageVars, logVars, GateInv, CopiesInv, AloneInv, Sending, Fresh, Log!HasReceipt,
        Log!InDoubt
  <2>2. QED
    BY <2>1, GateNext
<1>3. QED
  BY <1>1, <1>2, Invariant, PTL DEF Spec

-----------------------------------------------------------------------------
(***************************************************************************)
(* The refinement.                                                           *)
(***************************************************************************)
\* One more decision.
LEMMA DecidePromise ==
  ASSUME InboundInv, NEW p \in Processors, Deciding(p)
  PROVE  \E m \in Events, d \in [action : Actions, job : Runs] : Promise!Decide(m, d)
<1>1. PICK e \in Events : e = proc[p].ev
  BY DecidingKeeps DEF InboundInv
<1>2. PICK r \in [action : Actions, job : Runs] :
        /\ event'[e].result = r
        /\ enrol'.run = IF Promise!Opens(r) THEN enrol.run + 1 ELSE enrol.run
  <2>0. enrol.run \in Runs /\ 0 \in Runs /\ enrol \in [status : {"none", "ACTIVE", "STOPPED"}, run : Runs]
    BY InboundAssumption DEF InboundInv, TypeOK, FunnelTypeOK, Runs
  <2>1. CASE /\ event'[e].result \in [action : {"ENROLLED", "RESTARTED"}, job : {enrol.run + 1}]
             /\ OpenRun
    BY <2>0, <2>1 DEF OpenRun, Actions, Promise!Opens
  <2>2. CASE event'[e].result = Result("CONTINUED", enrol.run) /\ Continue(proc[p].force # "none")
    BY <2>0, <2>2 DEF Continue, Result, Actions, Promise!Opens
  <2>3. CASE /\ event'[e].result \in [action : {"SPECIAL", "IGNORED", "BLOCKED"}, job : {0}]
             /\ UNCHANGED <<enrol, greet>>
    BY <2>0, <2>3 DEF Actions, Promise!Opens
  <2>4. QED
    BY <1>1, <2>1, <2>2, <2>3, DecidingKeeps DEF InboundInv
<1>3. \A d \in Events : event'[d].result = IF d = e THEN r ELSE event[d].result
  BY <1>1, <1>2, DecidingKeeps DEF InboundInv
<1>4. event[e].result = Undecided
  BY <1>1 DEF Deciding, Decided
<1>5. UNCHANGED <<accepted, lost>>
  BY DEF Deciding, Decide, messageVars, logVars
<1>6. Promise!Decide(e, r)
  BY <1>2, <1>3, <1>4, <1>5 DEF Promise!Decide
<1>7. QED
  BY <1>6

\* A reply, or nothing: at most one more copy of each, of what is decided so.
LEMMA ReplyPromise ==
  ASSUME InboundInv, GateInv, Next, ~\E p \in Processors : Deciding(p)
  PROVE  Promise!Reply
<1>0. /\ accepted \in [Events -> SUBSET Rows]
      /\ ProcTypeOK /\ (\A e \in lost : e \in lost')
  BY LogStep DEF InboundInv, TypeOK, MessageTypeOK, Log!LogTypeOK
<1>1. \A e \in Events : event'[e].result = event[e].result
  BY EventsStep DEF KeepsRows
<1>2. enrol'.run = enrol.run
  <2>0. enrol \in [status : {"none", "ACTIVE", "STOPPED"}, run : Runs]
    BY DEF InboundInv, TypeOK, FunnelTypeOK
  <2>1. ASSUME NEW p \in Processors,
               ProcessorStep(p) \/ Accept(p) \/ LoseAck(p) \/ Reject(p) \/ DbFails(p) \/ Heartbeat(p)
        PROVE  Deciding(p) \/ StopEnrollments(p) \/ UNCHANGED enrol
    BY <2>1
    DEF ProcessorStep, Claim, Record, Echo, OptOut, Match, Decide, Deciding, Complete, TakeSlot,
        CheckReply, CreateReply, MarkReplyFailed, MarkReplySent, Finish, Abandon, Accept, LoseAck,
        Reject, DbFails, Heartbeat, funnelVars
  <2>2. UNCHANGED enrol \/ \E p \in Processors : StopEnrollments(p)
    BY <2>1
    DEF Next, Write, PhoneReply, Age, Ingest, Acknowledge, DeleteFails, Lapse, BackoffElapses,
        Examine, ReleaseStale, RecoverRetryable, Crash, Pause, Activate, Requeue, ClaimGreeting,
        SettleGreeting, funnelVars
  <2>3. QED
    BY <2>0, <2>2 DEF StopEnrollments
<1>3. \A e \in Events : accepted'[e] # accepted[e] =>
         \E p \in Processors : /\ proc[p].pc = "deliver" /\ proc[p].ev = e
                               /\ accepted'[e] = accepted[e] \cup {proc[p].cur}
  <2>1. ASSUME NEW p \in Processors, proc[p].pc = "deliver", Log!Reach(proc[p].ev, proc[p].cur),
               NEW e \in Events, accepted'[e] # accepted[e]
        PROVE  proc[p].ev = e /\ accepted'[e] = accepted[e] \cup {proc[p].cur}
    BY <1>0, <2>1 DEF Log!Reach
  <2>2. ASSUME NEW p \in Processors, Logging(p)
        PROVE  UNCHANGED accepted \/ (proc[p].pc = "deliver" /\ Log!Reach(proc[p].ev, proc[p].cur))
    BY <2>2
    DEF Logging, CreateReply, Accept, LoseAck, MarkReplyFailed, MarkReplySent, Abandon, Arrive,
        Log!SetRow, logVars
  <2>3. CASE Crash
    <3>1. PICK S \in SUBSET OnWire : accepted' = [e \in Events |->
               accepted[e] \cup {n \in Rows : \E p \in S : proc[p].ev = e /\ proc[p].cur = n}]
      BY <2>3 DEF Crash
    <3>2. \A p, q \in S : p = q
      BY DEF OnWire, GateInv, AloneInv, GatePhases
    <3>3. ASSUME NEW e \in Events, accepted'[e] # accepted[e]
          PROVE  \E p \in Processors : /\ proc[p].pc = "deliver" /\ proc[p].ev = e
                                       /\ accepted'[e] = accepted[e] \cup {proc[p].cur}
      <4>1. accepted'[e] =
              accepted[e] \cup {n \in Rows : \E p \in S : proc[p].ev = e /\ proc[p].cur = n}
        BY <3>1
      <4>2. PICK p \in S : proc[p].ev = e
        BY <3>3, <4>1
      <4>3. p \in Processors /\ proc[p].pc = "deliver" /\ proc[p].cur \in Rows
        BY <1>0 DEF OnWire, ProcTypeOK
      <4>4. {n \in Rows : \E q \in S : proc[q].ev = e /\ proc[q].cur = n} = {proc[p].cur}
        BY <3>2, <4>2, <4>3
      <4>5. QED
        BY <4>1, <4>2, <4>3, <4>4
    <3>4. QED
      BY <3>3
  <2>4. QED
    BY <2>1, <2>2, <2>3, LogStep DEF InboundInv
<1>4. ASSUME NEW m \in Events, accepted'[m] # accepted[m]
      PROVE  /\ accepted[m] \subseteq accepted'[m]
             /\ accepted[m] = {} \/ m \in lost
             /\ event[m].result.action = "SPECIAL"
             /\ \A x, y \in accepted'[m] \ accepted[m] : x = y
  <2>1. PICK p \in Processors : /\ proc[p].pc = "deliver" /\ proc[p].ev = m
                                /\ accepted'[m] = accepted[m] \cup {proc[p].cur}
    BY <1>3, <1>4
  <2>2. QED
    BY <2>1 DEF GateInv, Sending, Fresh, GatePhases
<1>5. QED
  BY <1>0, <1>1, <1>2, <1>4 DEF Promise!Reply

\* With the default of one slot, the inbound path does what InboundPromise says,
\* whatever is redelivered, recovered, stalled or cut off (HandleTriggerEvent and
\* Sender.Send): one decision per message, one run per decision, one courtesy
\* reply unless an acknowledgement was lost.
THEOREM PromiseKept ==
  ASSUME Slots = 1
  PROVE  Spec => KeepsPromise
<1>1. Init => Promise!PromiseInit
  BY DEF Init, EventInit, NoRow, Log!LogInit, Promise!PromiseInit
<1>2. InboundInv /\ GateInv /\ [Next]_vars => [Promise!PromiseNext]_(Promise!promiseVars)
  <2>1. ASSUME InboundInv, GateInv, Next
        PROVE  Promise!PromiseNext
    BY <2>1, DecidePromise, ReplyPromise DEF Promise!PromiseNext
  <2>2. ASSUME UNCHANGED vars
        PROVE  UNCHANGED Promise!promiseVars
    BY <2>2 DEF vars, messageVars, logVars, funnelVars, Promise!promiseVars
  <2>3. QED
    BY <2>1, <2>2
<1>3. QED
  BY <1>1, <1>2, Invariant, GateInvariant, PTL DEF Spec, KeepsPromise, Promise!PromiseSpec
=============================================================================
