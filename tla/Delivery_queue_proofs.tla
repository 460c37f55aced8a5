------------------------- MODULE Delivery_queue_proofs -------------------------
(***************************************************************************)
(* Theorems about Delivery's queue, for any number of jobs, contacts,        *)
(* workers, rows and slots: what holds as long as no lease lapses under a     *)
(* working process and no operator interferes, however often the process      *)
(* crashes, statements fail, acknowledgements are lost and customers leave.   *)
(***************************************************************************)
EXTENDS Delivery_proofs

\* No worker has lost its lease to the clock, and no operator has interfered.
Quiet == spent["stall"] = 0 /\ spent["operator"] = 0

-----------------------------------------------------------------------------
(***************************************************************************)
(* What a step may touch.                                                     *)
(***************************************************************************)
OwnStep(w) == WorkerStep(w) \/ ProviderAnswers(w) \/ Fault(w) \/ Heartbeat(w)

WorldStep ==
  \/ \E j \in Jobs : Lapse(j) \/ BackoffElapses(j) \/ CancelJob(j) \/ RequeueJob(j)
  \/ \E c \in Contacts : OptOut(c) \/ StopEnrollments(c) \/ AnswerByHand(c)
  \/ ReleaseStale \/ CancelStale \/ Tick \/ Pause \/ Activate \/ Close

\* The job's row in the queue and its message rows stay as they are.
Untouched(j) ==
  status'[j] = status[j] /\ lease'[j] = lease[j] /\ attempts'[j] = attempts[j] /\ row'[j] = row[j]

\* Every step is a worker's, the world's, or a crash.
LEMMA StepKinds ==
  ASSUME Next
  PROVE  (\E w \in Workers : OwnStep(w)) \/ WorldStep \/ Crash
BY Zenon DEF Next, OwnStep, WorldStep

\* A step counts at most one disturbance.
LEMMA StepSpends ==
  ASSUME Next
  PROVE  UNCHANGED spent \/ \E k \in Kinds : Spend(k)
<1>1. CASE \E w \in Workers : OwnStep(w)
  <2>1. PICK w \in Workers : OwnStep(w)
    BY <1>1
  <2>2. CASE WorkerStep(w)
    BY <2>2 DEF WorkerStep, Claim, Reconcile, Load, TakeSlot, CheckReceipt, CheckUncertain,
       CheckConsent, CreateRow, MarkRowFailed, MarkRowSent, Apply, Abandon
  <2>3. CASE ProviderAnswers(w) \/ Fault(w) \/ Heartbeat(w)
    BY <2>3 DEF ProviderAnswers, Accept, LoseAck, Reject, Fault, Misconfigured, HistoryUnknown,
       DbFails, Heartbeat, Kinds
  <2>4. QED
    BY <2>1, <2>2, <2>3 DEF OwnStep
<1>2. CASE WorldStep
  BY <1>2 DEF WorldStep, Lapse, BackoffElapses, CancelJob, RequeueJob, OptOut, StopEnrollments,
     AnswerByHand, ReleaseStale, CancelStale, Tick, Pause, Activate, Close, Kinds
<1>3. CASE Crash
  BY <1>3 DEF Crash, Kinds
<1>4. QED
  BY <1>1, <1>2, <1>3, StepKinds

\* The counts of disturbances only grow.
LEMMA SpentGrows ==
  ASSUME TypeOK, [Next]_vars, NEW k \in Kinds
  PROVE  spent[k] \in Nat /\ spent'[k] \in Nat /\ spent[k] <= spent'[k]
<1>1. spent \in [Kinds -> Nat]
  BY DEF TypeOK, WorldTypeOK
<1>2. UNCHANGED spent \/ \E i \in Kinds : Spend(i)
  BY StepSpends DEF vars
<1>3. QED
  BY <1>1, <1>2 DEF Spend

\* What is quiet afterwards was quiet before.
LEMMA QuietBefore ==
  ASSUME TypeOK, [Next]_vars, Quiet'
  PROVE  Quiet
<1>1. spent["stall"] \in Nat /\ spent["stall"] <= spent'["stall"]
  BY SpentGrows DEF Kinds
<1>2. spent["operator"] \in Nat /\ spent["operator"] <= spent'["operator"]
  BY SpentGrows DEF Kinds
<1>3. QED
  BY <1>1, <1>2 DEF Quiet

\* A worker's step moves no other worker.
LEMMA OthersStill ==
  ASSUME TypeOK, NEW w \in Workers, OwnStep(w), NEW v \in Workers \ {w}
  PROVE  /\ pc'[v] = pc[v] /\ job'[v] = job[v] /\ tries'[v] = tries[v]
         /\ cur'[v] = cur[v] /\ ctx'[v] = ctx[v] /\ verdict'[v] = verdict[v]
<1> USE DEF TypeOK, LocalTypeOK
<1>1. CASE WorkerStep(w)
  BY <1>1 DEF WorkerStep, Claim, Reconcile, Load, TakeSlot, CheckReceipt, CheckUncertain,
     CheckConsent, CreateRow, MarkRowFailed, MarkRowSent, Apply, Abandon, Goto, Decide, Finish
<1>2. CASE ProviderAnswers(w) \/ Heartbeat(w)
  BY <1>2 DEF ProviderAnswers, Accept, LoseAck, Reject, Heartbeat, Goto, Decide
<1>3. CASE Fault(w)
  BY <1>3 DEF Fault, Misconfigured, HistoryUnknown, DbFails, Goto, Decide, Finish
<1>4. QED
  BY <1>1, <1>2, <1>3 DEF OwnStep

\* A statement about one job touches the row of no other.
LEMMA StatementTouches ==
  ASSUME TypeOK, NEW i, NEW j \in Jobs \ {i},
         \/ MarkSent(i) \/ Defer(i) \/ Retry(i) \/ Fail(i) \/ Cancel(i) \/ ReconcileReceipt(i)
         \/ RenewLease(i) \/ UNCHANGED queueVars
  PROVE  status'[j] = status[j] /\ lease'[j] = lease[j] /\ attempts'[j] = attempts[j]
BY DEF TypeOK, QueueTypeOK, MarkSent, Defer, Retry, Fail, Cancel, ReconcileReceipt, RenewLease,
   Write, queueVars

\* A worker that holds a job touches no other job.
LEMMA OwnJobOnly ==
  ASSUME TypeOK, NEW w \in Workers, OwnStep(w), pc[w] # "idle", NEW j \in Jobs \ {job[w]}
  PROVE  Untouched(j)
<1> USE DEF TypeOK
<1>1. row'[j] = row[j]
  <2>1. \/ UNCHANGED row
        \/ \E n \in Rows, s \in RowStates : SetRow(job[w], n, s)
    <3>1. CASE CreateRow(w)
      BY <3>1 DEF CreateRow, RowStates
    <3>2. CASE MarkRowFailed(w) \/ MarkRowSent(w)
      BY <3>2 DEF MarkRowFailed, MarkRowSent, Running, RowStates, LocalTypeOK
    <3>3. CASE Abandon(w) \/ Accept(w) \/ LoseAck(w)
      BY <3>3 DEF Abandon, Accept, LoseAck, Arrive, Reach, logVars
    <3>4. CASE UNCHANGED logVars
      BY <3>4 DEF logVars
    <3>5. QED
      BY <3>1, <3>2, <3>3, <3>4 DEF OwnStep, WorkerStep, ProviderAnswers, Fault, Claim, Reconcile,
         Load, TakeSlot, CheckReceipt, CheckUncertain, CheckConsent, Apply, Reject, Misconfigured,
         HistoryUnknown, DbFails, Heartbeat
  <2>2. QED
    BY <2>1 DEF SetRow, LogTypeOK
<1>2. \/ MarkSent(job[w]) \/ Defer(job[w]) \/ Retry(job[w]) \/ Fail(job[w]) \/ Cancel(job[w])
      \/ ReconcileReceipt(job[w]) \/ RenewLease(job[w]) \/ UNCHANGED queueVars
  <2>1. CASE Reconcile(w) \/ Apply(w) \/ Heartbeat(w)
    BY <2>1 DEF Reconcile, Apply, RetryOrFail, Heartbeat
  <2>2. CASE UNCHANGED queueVars
    BY <2>2
  <2>3. QED
    BY <2>1, <2>2 DEF OwnStep, WorkerStep, ProviderAnswers, Fault, Claim,
       Load, TakeSlot, CheckReceipt, CheckUncertain, CheckConsent, CreateRow, MarkRowFailed,
       MarkRowSent, Abandon, Accept, LoseAck, Reject, Misconfigured, HistoryUnknown, DbFails
<1>3. QED
  BY <1>1, <1>2, StatementTouches DEF Untouched

-----------------------------------------------------------------------------
(***************************************************************************)
(* Claims are exclusive.                                                      *)
(*                                                                           *)
(* Whoever works on a job holds it: PROCESSING under a live lease, with the   *)
(* attempt count the claim has read.  A live lease keeps every other job of   *)
(* the contact from being claimed.                                            *)
(***************************************************************************)
Holds(w) ==
  /\ status[job[w]] = "PROCESSING" /\ lease[job[w]] = "live"
  /\ tries[w] = attempts[job[w]]

Exclusive ==
  /\ \A w \in Workers : IF pc[w] = "idle" THEN ctx[w] ELSE Holds(w)
  /\ OneInFlight

\* The campaign is on, and enrolments stop only after a STOP.
Undisturbed == campaign = "ACTIVE" /\ answered = {} /\ stopped \subseteq optedOut

HeldInv == Quiet => Exclusive /\ Undisturbed

\* The queue and the workers start undisturbed.
LEMMA HeldInit == Init => HeldInv
BY DEF Init, HeldInv, Exclusive, Undisturbed, OneInFlight

\* Workers that keep their jobs, on rows that stay, keep them to themselves.
LEMMA HeldKept ==
  ASSUME TypeOK, Exclusive,
         \A v \in Workers :
            IF pc'[v] = "idle" THEN ctx'[v]
            ELSE /\ pc[v] # "idle" /\ job'[v] = job[v] /\ tries'[v] = tries[v]
                 /\ status'[job[v]] = status[job[v]] /\ lease'[job[v]] = lease[job[v]]
                 /\ attempts'[job[v]] = attempts[job[v]]
  PROVE  Exclusive'
<1>1. OneInFlight'
  BY DEF Exclusive, OneInFlight, SameContact
<1>2. \A v \in Workers : IF pc'[v] = "idle" THEN ctx'[v] ELSE Holds(v)'
  BY DEF Exclusive, Holds
<1>3. QED
  BY <1>1, <1>2 DEF Exclusive

\* Two workers never hold the same job.
LEMMA DifferentJobs ==
  ASSUME TypeOK, Exclusive, NEW v \in Workers, NEW w \in Workers,
         v # w, pc[v] # "idle", pc[w] # "idle"
  PROVE  job[v] \in Jobs \ {job[w]}
BY DEF TypeOK, LocalTypeOK, Exclusive, OneInFlight, SameContact

\* The claim: the contact has no job in flight, so the claimer is alone with it.
LEMMA HeldClaim ==
  ASSUME TypeOK, Exclusive, NEW w \in Workers, Claim(w)
  PROVE  Exclusive'
<1> USE DEF TypeOK, LocalTypeOK, QueueTypeOK
<1>1. PICK i \in Jobs : /\ Claimable(i, clock) /\ Lock(i)
                        /\ job' = [job EXCEPT ![w] = i] /\ tries' = [tries EXCEPT ![w] = attempts[i]]
  BY DEF Claim
<1>2. ~Busy(ContactOf[i]) /\ status[i] = "PENDING"
  BY <1>1 DEF Claimable, Eligible, Due
<1>3. pc' = [pc EXCEPT ![w] = "reconcile"] /\ UNCHANGED ctx
  BY DEF Claim
<1>4. \A v \in Workers : pc[v] # "idle" => job[v] # i /\ ~SameContact(job[v], i) /\ ~SameContact(i, job[v])
  BY <1>2 DEF Exclusive, Holds, Busy, SameContact
<1>5. \A v \in Workers : IF pc'[v] = "idle" THEN ctx'[v] ELSE Holds(v)'
  <2>1. SUFFICES ASSUME NEW v \in Workers PROVE IF pc'[v] = "idle" THEN ctx'[v] ELSE Holds(v)'
    OBVIOUS
  <2>2. CASE v = w
    BY <1>1, <1>3, <2>2 DEF Lock, Holds
  <2>3. CASE v # w
    BY <1>1, <1>3, <1>4, <2>3 DEF Exclusive, Lock, Holds
  <2>4. QED
    BY <2>2, <2>3
<1>6. OneInFlight'
  BY <1>1, <1>3, <1>4 DEF Exclusive, OneInFlight, SameContact
<1>7. QED
  BY <1>5, <1>6 DEF Exclusive

\* A worker's next statement: it stays on its job without touching the queue, or
\* it leaves the job.
LEMMA HeldOwn ==
  ASSUME TypeOK, Exclusive, NEW w \in Workers, OwnStep(w), ~Claim(w)
  PROVE  Exclusive'
<1> USE DEF TypeOK, LocalTypeOK
<1>1. pc[w] # "idle"
  BY DEF OwnStep, WorkerStep, ProviderAnswers, Fault, Reconcile, Load, TakeSlot, CheckReceipt,
     CheckUncertain, CheckConsent, CreateRow, MarkRowFailed, MarkRowSent, Apply, Abandon, Accept,
     LoseAck, Reject, Misconfigured, HistoryUnknown, DbFails, Heartbeat, Running
<1>2. \/ pc'[w] = "idle" /\ ctx'[w]
      \/ pc'[w] # "idle" /\ job'[w] = job[w] /\ tries'[w] = tries[w] /\ UNCHANGED queueVars
  <2>1. CASE Finish({w})
    BY <2>1 DEF Finish
  <2>2. CASE pc'[w] # "idle" /\ UNCHANGED <<queueVars, job, tries>>
    BY <2>2
  <2>3. CASE Reconcile(w) \/ Apply(w) \/ Abandon(w)
    BY <2>1, <2>2, <2>3 DEF Reconcile, ReconcileReceipt, Apply, Abandon, Goto
  <2>4. CASE Heartbeat(w)
    <3>1. lease[job[w]] = "live" /\ status[job[w]] = "PROCESSING"
      BY <1>1 DEF Exclusive, Holds
    <3>2. QED
      BY <1>1, <2>2, <2>4, <3>1 DEF Heartbeat
  <2>5. CASE DbFails(w)
    BY <2>1, <2>2, <2>5 DEF DbFails, Goto, Decide
  <2>6. CASE Misconfigured(w) \/ HistoryUnknown(w) \/ ProviderAnswers(w)
    BY <2>2, <2>6 DEF Misconfigured, HistoryUnknown, ProviderAnswers, Accept, LoseAck, Reject,
       Goto, Decide
  <2>7. CASE \/ Load(w) \/ TakeSlot(w) \/ CheckReceipt(w) \/ CheckUncertain(w) \/ CheckConsent(w)
             \/ CreateRow(w) \/ MarkRowFailed(w) \/ MarkRowSent(w)
    BY <2>2, <2>7 DEF Load, TakeSlot, CheckReceipt, CheckUncertain, CheckConsent, CreateRow,
       MarkRowFailed, MarkRowSent, Goto, Decide
  <2>8. QED
    BY <2>3, <2>4, <2>5, <2>6, <2>7 DEF OwnStep, WorkerStep, Fault
<1>3. ASSUME NEW v \in Workers
      PROVE  IF pc'[v] = "idle" THEN ctx'[v]
             ELSE /\ pc[v] # "idle" /\ job'[v] = job[v] /\ tries'[v] = tries[v]
                  /\ status'[job[v]] = status[job[v]] /\ lease'[job[v]] = lease[job[v]]
                  /\ attempts'[job[v]] = attempts[job[v]]
  <2>1. CASE v = w
    BY <1>1, <1>2, <2>1 DEF queueVars
  <2>2. CASE v # w /\ pc[v] = "idle"
    BY <2>2, OthersStill DEF Exclusive
  <2>3. CASE v # w /\ pc[v] # "idle"
    <3>1. Untouched(job[v])
      BY <1>1, <2>3, DifferentJobs, OwnJobOnly
    <3>2. QED
      BY <2>3, <3>1, OthersStill DEF Untouched
  <2>4. QED
    BY <2>1, <2>2, <2>3
<1>4. QED
  BY <1>3, HeldKept

\* While nothing interferes, the others cancel what is pending and take back what
\* is stale; the rows of the jobs in progress, the messages and the campaign stay.
LEMMA QuietWorld ==
  ASSUME TypeOK, Quiet', Exclusive, Undisturbed, WorldStep
  PROVE  /\ UNCHANGED <<logVars, localVars, campaign, answered, late>>
         /\ \/ UNCHANGED <<optedOut, stopped>>
            \/ \E c \in Contacts : OptOut(c) \/ StopEnrollments(c)
         /\ attempts' = attempts
         /\ \A w \in Workers : pc[w] # "idle" => Untouched(job[w])
         /\ \A j \in Jobs :
               \/ status'[j] = status[j]
               \/ status[j] = "PENDING" /\ status'[j] = "CANCELLED"
               \/ status[j] = "PROCESSING" /\ status'[j] = "PENDING"
<1> USE DEF TypeOK
<1>0. /\ ~Spend("stall") /\ ~Spend("operator")
      /\ spent \in [Kinds -> Nat]
  BY DEF Spend, Quiet, WorldTypeOK, Kinds
<1>1. \A w \in Workers : pc[w] # "idle" =>
         job[w] \in Jobs /\ status[job[w]] = "PROCESSING" /\ lease[job[w]] = "live"
  BY DEF Exclusive, Holds, LocalTypeOK
<1>2. CASE \E j \in Jobs : Lapse(j) \/ BackoffElapses(j) \/ CancelJob(j) \/ RequeueJob(j)
  <2>1. PICK j \in Jobs : Lapse(j) \/ BackoffElapses(j)
    BY <1>0, <1>2 DEF CancelJob, RequeueJob
  <2>2. CASE Lapse(j)
    <3>1. \A w \in Workers : pc[w] # "idle" => job[w] # j
      BY <1>0, <2>2 DEF Lapse, Held
    <3>2. QED
      BY <1>1, <2>2, <3>1 DEF Lapse, AgeLease, Untouched, logVars, worldVars, QueueTypeOK
  <2>3. CASE BackoffElapses(j)
    BY <1>1, <2>3 DEF BackoffElapses, EndBackoff, Untouched, logVars, worldVars
  <2>4. QED
    BY <2>1, <2>2, <2>3
<1>3. CASE \E c \in Contacts : OptOut(c) \/ StopEnrollments(c) \/ AnswerByHand(c)
  <2>1. PICK c \in Contacts : OptOut(c) \/ StopEnrollments(c)
    BY <1>0, <1>3 DEF AnswerByHand
  <2>2. CASE OptOut(c)
    BY <1>1, <2>2 DEF OptOut, Untouched, logVars, queueVars
  <2>3. CASE StopEnrollments(c)
    BY <1>1, <2>3 DEF StopEnrollments, CancelPending, Untouched, logVars, QueueTypeOK
  <2>4. QED
    BY <2>1, <2>2, <2>3
<1>4. CASE ReleaseStale
  BY <1>1, <1>4 DEF ReleaseStale, ReleaseOrphans, Orphans, Untouched, logVars, worldVars, QueueTypeOK
<1>5. CASE CancelStale
  BY <1>1, <1>5 DEF CancelStale, CancelPending, Untouched, logVars, worldVars, QueueTypeOK
<1>6. CASE Tick
  BY <1>1, <1>6 DEF Tick, Untouched, logVars, queueVars
<1>7. ~Pause /\ ~Activate /\ ~Close
  BY <1>0 DEF Pause, Activate, Close, Undisturbed
<1>8. QED
  BY <1>2, <1>3, <1>4, <1>5, <1>6, <1>7 DEF WorldStep

\* Every step leaves what is held to its holder, as long as nothing interferes.
LEMMA HeldNext == TypeOK /\ HeldInv /\ [Next]_vars => HeldInv'
<1>1. SUFFICES ASSUME TypeOK, Exclusive, Undisturbed, Quiet', [Next]_vars
               PROVE  Exclusive' /\ Undisturbed'
  BY QuietBefore DEF HeldInv
<1> USE <1>1
<1>2. CASE \E w \in Workers : OwnStep(w)
  <2>1. PICK w \in Workers : OwnStep(w)
    BY <1>2
  <2>2. Exclusive'
    BY <2>1, HeldClaim, HeldOwn
  <2>3. UNCHANGED worldVars
    BY <2>1 DEF OwnStep, WorkerStep, ProviderAnswers, Fault, Claim, Reconcile, Load, TakeSlot,
       CheckReceipt, CheckUncertain, CheckConsent, CreateRow, MarkRowFailed, MarkRowSent, Apply,
       Abandon, Accept, LoseAck, Reject, Misconfigured, HistoryUnknown, DbFails, Heartbeat
  <2>4. QED
    BY <2>2, <2>3 DEF Undisturbed, worldVars
<1>3. CASE WorldStep
  <2>1. Exclusive'
    <3>1. ASSUME NEW v \in Workers
          PROVE  IF pc'[v] = "idle" THEN ctx'[v]
                 ELSE /\ pc[v] # "idle" /\ job'[v] = job[v] /\ tries'[v] = tries[v]
                      /\ status'[job[v]] = status[job[v]] /\ lease'[job[v]] = lease[job[v]]
                      /\ attempts'[job[v]] = attempts[job[v]]
      BY <1>3, QuietWorld DEF localVars, Untouched, Exclusive
    <3>2. QED
      BY <3>1, HeldKept
  <2>2. Undisturbed'
    <3>1. stopped' \subseteq optedOut'
      BY <1>3, QuietWorld DEF Undisturbed, OptOut, StopEnrollments
    <3>2. QED
      BY <1>3, <3>1, QuietWorld DEF Undisturbed
  <2>3. QED
    BY <2>1, <2>2
<1>4. CASE Crash
  <2>1. \A v \in Workers : pc'[v] = "idle" /\ ctx'[v]
    BY <1>4 DEF Crash, Finish
  <2>2. Exclusive'
    BY <2>1, HeldKept
  <2>3. QED
    BY <1>4, <2>2 DEF Crash, Undisturbed, worldVars
<1>5. CASE UNCHANGED vars
  <2>1. Exclusive'
    BY <1>5, HeldKept DEF vars, localVars, queueVars, Exclusive
  <2>2. QED
    BY <1>5, <2>1 DEF Undisturbed, vars, worldVars
<1>6. QED
  BY <1>2, <1>3, <1>4, <1>5, StepKinds

\* Whoever works on a job holds it, throughout, as long as nothing interferes.
THEOREM HeldInvariant == Spec => []HeldInv
<1>1. TypeOK /\ HeldInv /\ [Next]_vars => HeldInv'
  BY HeldNext
<1>2. QED
  BY <1>1, HeldInit, TypeCorrect, PTL DEF Spec

\* Until a lease lapses under a working process, or an operator interferes, the
\* claim never hands out a second job of a contact while one is in flight.
THEOREM OneInFlightWhileQuiet == Spec => [](Quiet => OneInFlight)
<1>1. HeldInv => (Quiet => OneInFlight)
  BY DEF HeldInv, Exclusive
<1>2. QED
  BY <1>1, HeldInvariant, PTL

-----------------------------------------------------------------------------
(***************************************************************************)
(* What is SENT stays SENT.                                                   *)
(***************************************************************************)
\* A worker touches a job that nobody works on only to claim it.
LEMMA RestTouched ==
  ASSUME TypeOK, Exclusive, NEW w \in Workers, OwnStep(w),
         NEW j \in Jobs, status[j] # "PROCESSING"
  PROVE  \/ Untouched(j)
         \/ /\ status[j] = "PENDING" /\ status'[j] = "PROCESSING"
            /\ row'[j] = row[j] /\ attempts'[j] = attempts[j]
<1>1. CASE pc[w] # "idle"
  BY <1>1, OwnJobOnly DEF Exclusive, Holds
<1>2. CASE pc[w] = "idle"
  <2>1. Claim(w)
    BY <1>2 DEF OwnStep, WorkerStep, ProviderAnswers, Fault, Reconcile, Load, TakeSlot, CheckReceipt,
       CheckUncertain, CheckConsent, CreateRow, MarkRowFailed, MarkRowSent, Apply, Abandon, Accept,
       LoseAck, Reject, Misconfigured, HistoryUnknown, DbFails, Heartbeat, Running, TypeOK,
       LocalTypeOK, Exclusive
  <2>2. PICK i \in Jobs : status[i] = "PENDING" /\ Lock(i)
    BY <2>1 DEF Claim, Claimable, Eligible, Due
  <2>3. QED
    BY <2>1, <2>2 DEF Claim, Lock, Untouched, logVars, TypeOK, QueueTypeOK
<1>3. QED
  BY <1>1, <1>2

\* No step without interference rewrites a job that is SENT.
LEMMA SentStep ==
  ASSUME TypeOK, HeldInv, [Next]_vars, Quiet', NEW j \in Jobs, status[j] = "SENT"
  PROVE  status'[j] = "SENT"
<1>0. Exclusive /\ Undisturbed
  BY QuietBefore DEF HeldInv
<1>1. CASE \E w \in Workers : OwnStep(w)
  BY <1>0, <1>1, RestTouched DEF Untouched
<1>2. CASE WorldStep
  BY <1>0, <1>2, QuietWorld
<1>3. CASE Crash \/ UNCHANGED vars
  BY <1>3 DEF Crash, vars, queueVars
<1>4. QED
  BY <1>1, <1>2, <1>3, StepKinds

\* Each kind of disturbance strikes at most as often as its limit says.
LEMMA LimitInvariant == Spec => [](\A k \in Kinds : spent[k] <= Limit[k])
<1>1. Init => \A k \in Kinds : spent[k] <= Limit[k]
  BY DeliveryAssumption DEF Init
<1>2. TypeOK /\ (\A k \in Kinds : spent[k] <= Limit[k]) /\ [Next]_vars
         => (\A k \in Kinds : spent[k] <= Limit[k])'
  <2>1. SUFFICES ASSUME TypeOK, \A k \in Kinds : spent[k] <= Limit[k], [Next]_vars, NEW k \in Kinds
                 PROVE  spent'[k] <= Limit[k]
    OBVIOUS
  <2>2. UNCHANGED spent \/ \E i \in Kinds : Spend(i)
    BY <2>1, StepSpends DEF vars
  <2>3. CASE UNCHANGED spent
    BY <2>1, <2>3
  <2>4. CASE \E i \in Kinds : Spend(i)
    <3>1. PICK i \in Kinds : Spend(i)
      BY <2>4
    <3>2. spent[i] \in Nat /\ Limit[i] \in Nat
      BY <2>1, DeliveryAssumption DEF TypeOK, WorldTypeOK
    <3>3. spent'[k] = IF k = i THEN spent[i] + 1 ELSE spent[k]
      BY <2>1, <3>1 DEF Spend, TypeOK, WorldTypeOK
    <3>4. QED
      BY <2>1, <3>1, <3>2, <3>3 DEF Spend
  <2>5. QED
    BY <2>2, <2>3, <2>4
<1>3. QED
  BY <1>1, <1>2, TypeCorrect, PTL DEF Spec

\* Without stalls and without an operator, a SENT job stays SENT: the statements
\* that look at no status never meet one.
THEOREM SentStaysWhileQuiet ==
  ASSUME Limit["stall"] = 0, Limit["operator"] = 0
  PROVE  Spec => SentIsHistory
<1>1. TypeOK /\ (\A k \in Kinds : spent[k] <= Limit[k]) => Quiet
  BY DEF TypeOK, WorldTypeOK, Kinds, Quiet
<1>2. TypeOK /\ HeldInv /\ [Next]_vars /\ Quiet'
         => [\A j \in Jobs : status[j] = "SENT" => status'[j] = "SENT"]_status
  BY SentStep
<1>3. QED
  BY <1>1, <1>2, HeldInvariant, LimitInvariant, TypeCorrect, PTL DEF Spec, SentIsHistory

-----------------------------------------------------------------------------
(***************************************************************************)
(* The reply owed to a trigger message.                                       *)
(***************************************************************************)
\* From the request to the record of its outcome the attempt's row is PENDING,
\* and the client has reported a failure if there is one to record.
RowInHand ==
  \A w \in Workers :
     /\ pc[w] \in {"deliver", "acked", "rowfail"} => row[job[w]][cur[w]] = "PENDING"
     /\ pc[w] = "rowfail" => verdict[w] \in {"retry", "fail"}

RowInv == Quiet => RowInHand

\* A step of another worker leaves the row in hand alone.
LEMMA RowOfOthers ==
  ASSUME TypeOK, Exclusive, RowInHand, NEW w \in Workers, OwnStep(w), NEW v \in Workers \ {w}
  PROVE  /\ pc'[v] \in {"deliver", "acked", "rowfail"} => row'[job'[v]][cur'[v]] = "PENDING"
         /\ pc'[v] = "rowfail" => verdict'[v] \in {"retry", "fail"}
<1>1. CASE pc[v] = "idle"
  BY <1>1, OthersStill
<1>2. CASE pc[v] # "idle" /\ pc[w] # "idle"
  BY <1>2, OthersStill, DifferentJobs, OwnJobOnly DEF RowInHand, Untouched
<1>3. CASE pc[v] # "idle" /\ pc[w] = "idle"
  <2>1. job[v] \in Jobs /\ status[job[v]] = "PROCESSING"
    BY <1>3 DEF Exclusive, Holds, TypeOK, LocalTypeOK
  <2>2. UNCHANGED row
    BY <1>3 DEF OwnStep, WorkerStep, ProviderAnswers, Fault, Claim, Reconcile, Load, TakeSlot,
       CheckReceipt, CheckUncertain, CheckConsent, CreateRow, MarkRowFailed, MarkRowSent, Apply,
       Abandon, Accept, LoseAck, Reject, Misconfigured, HistoryUnknown, DbFails, Heartbeat, Running,
       logVars
  <2>3. QED
    BY <1>3, <2>2, OthersStill DEF RowInHand
<1>4. QED
  BY <1>1, <1>2, <1>3

\* The worker's own step keeps its row in hand.
LEMMA RowOfOwn ==
  ASSUME TypeOK, RowInHand, NEW w \in Workers, OwnStep(w)
  PROVE  /\ pc'[w] \in {"deliver", "acked", "rowfail"} => row'[job'[w]][cur'[w]] = "PENDING"
         /\ pc'[w] = "rowfail" => verdict'[w] \in {"retry", "fail"}
<1> USE DEF TypeOK, LocalTypeOK
<1>1. CASE CreateRow(w)
  <2>1. job[w] \in Jobs
    BY <1>1 DEF CreateRow, Running
  <2>2. PICK n \in Rows : row' = [row EXCEPT ![job[w]][n] = "PENDING"] /\ cur' = [cur EXCEPT ![w] = n]
    BY <1>1 DEF CreateRow, SetRow
  <2>3. QED
    BY <1>1, <2>1, <2>2 DEF CreateRow, LogTypeOK
<1>2. CASE Accept(w) \/ LoseAck(w) \/ Reject(w)
  BY <1>2 DEF Accept, LoseAck, Reject, Arrive, Reach, Goto, Decide, RowInHand, logVars
<1>3. CASE Heartbeat(w)
  BY <1>3 DEF Heartbeat, RowInHand, logVars
<1>4. CASE Apply(w) \/ Abandon(w) \/ Reconcile(w)
  BY <1>4 DEF Apply, Abandon, Reconcile, Finish, Goto
<1>5. CASE DbFails(w)
  BY <1>5 DEF DbFails, Finish, Goto, Decide
<1>6. CASE Misconfigured(w) \/ HistoryUnknown(w) \/ Claim(w)
  BY <1>6 DEF Misconfigured, HistoryUnknown, Claim, Decide
<1>7. CASE \/ Load(w) \/ TakeSlot(w) \/ CheckReceipt(w) \/ CheckUncertain(w) \/ CheckConsent(w)
           \/ MarkRowFailed(w) \/ MarkRowSent(w)
  BY <1>7 DEF Load, TakeSlot, CheckReceipt, CheckUncertain, CheckConsent, MarkRowFailed,
     MarkRowSent, Goto, Decide
<1>8. QED
  BY <1>1, <1>2, <1>3, <1>4, <1>5, <1>6, <1>7 DEF OwnStep, WorkerStep, ProviderAnswers, Fault

\* Every step keeps the rows in hand.
LEMMA RowNext == TypeOK /\ HeldInv /\ RowInv /\ [Next]_vars => RowInv'
<1>1. SUFFICES ASSUME TypeOK, Exclusive, Undisturbed, RowInHand, Quiet', [Next]_vars
               PROVE  RowInHand'
  BY QuietBefore DEF HeldInv, RowInv
<1> USE <1>1
<1>2. CASE \E w \in Workers : OwnStep(w)
  <2>1. PICK w \in Workers : OwnStep(w)
    BY <1>2
  <2>2. SUFFICES ASSUME NEW v \in Workers
                 PROVE /\ pc'[v] \in {"deliver", "acked", "rowfail"} => row'[job'[v]][cur'[v]] = "PENDING"
                       /\ pc'[v] = "rowfail" => verdict'[v] \in {"retry", "fail"}
    BY DEF RowInHand
  <2>3. QED
    BY <2>1, RowOfOwn, RowOfOthers
<1>3. CASE WorldStep \/ UNCHANGED vars
  <2>1. UNCHANGED <<logVars, localVars>>
    BY <1>3, QuietWorld DEF vars
  <2>2. QED
    BY <2>1 DEF RowInHand, logVars, localVars
<1>4. CASE Crash
  BY <1>4 DEF Crash, Finish, RowInHand
<1>5. QED
  BY <1>2, <1>3, <1>4, StepKinds

\* From the request to the record of its outcome the row is PENDING, throughout.
LEMMA RowInvariant == Spec => []RowInv
<1>1. Init => RowInv
  BY DEF Init, RowInv, RowInHand
<1>2. TypeOK /\ HeldInv /\ RowInv /\ [Next]_vars => RowInv'
  BY RowNext
<1>3. QED
  BY <1>1, <1>2, TypeCorrect, HeldInvariant, PTL DEF Spec

\* Nothing has been refused: by the provider, for want of a template or a history.
Unrefused == Quiet /\ spent["refusal"] = 0

\* What process() may decide about an owed reply.
VerdictOnReply(w) ==
  /\ pc[w] = "rowfail" => verdict[w] = "retry"
  /\ pc[w] = "apply" /\ verdict[w] = "fail" => InDoubt(job[w])
  /\ pc[w] = "apply" /\ verdict[w] = "cancel" => ContactOf[job[w]] \in optedOut

FateOfReply(j) ==
  /\ status[j] = "FAILED" => InDoubt(j)
  /\ status[j] = "CANCELLED" => ContactOf[j] \in optedOut

Owed ==
  /\ \A w \in Workers : job[w] \in Replies => VerdictOnReply(w)
  /\ \A j \in Replies : FateOfReply(j)

OwedInv == Unrefused => Owed

\* A worker's step decides about an owed reply as the invariant says.
LEMMA OwedVerdict ==
  ASSUME TypeOK, Exclusive, Undisturbed, RowInHand, Owed, NEW w \in Workers, OwnStep(w),
         ~Spend("refusal"), job'[w] \in Replies
  PROVE  VerdictOnReply(w)'
<1> USE DEF TypeOK, LocalTypeOK
<1>1. CASE Claim(w)
  BY <1>1 DEF Claim, VerdictOnReply
<1>2. CASE Finish({w})
  BY <1>2, JobsAssumption, DeliveryAssumption DEF Finish
<1>3. CASE Load(w)
  <2>1. Ruling(job[w]) = "cancel" => ContactOf[job[w]] \in optedOut
    BY <1>3 DEF Load, Ruling, Skipped, Expired, Undisturbed, Decide, Goto
  <2>2. \/ pc'[w] = "gate"
        \/ pc'[w] = "apply" /\ verdict'[w] = Ruling(job[w])
    BY <1>3 DEF Load, Running, Decide, Goto
  <2>3. Ruling(job[w]) # "fail" /\ job' = job /\ optedOut' = optedOut
    BY <1>3 DEF Load, Ruling, Decide, Goto, worldVars
  <2>4. QED
    BY <2>1, <2>2, <2>3 DEF VerdictOnReply
<1>4. CASE TakeSlot(w) \/ CheckReceipt(w) \/ CheckUncertain(w)
  BY <1>4 DEF TakeSlot, CheckReceipt, CheckUncertain, Running, Goto, Decide, VerdictOnReply, InDoubt,
     logVars
<1>5. CASE CheckConsent(w)
  BY <1>5 DEF CheckConsent, Unwanted, Expired, Undisturbed, Running, Goto, Decide, VerdictOnReply,
     worldVars
<1>6. CASE CreateRow(w) \/ Accept(w)
  BY <1>6 DEF CreateRow, Accept, Running, Goto, VerdictOnReply
<1>7. CASE LoseAck(w) \/ Reject(w)
  BY <1>7 DEF LoseAck, Reject, Decide, VerdictOnReply
<1>8. CASE MarkRowFailed(w) \/ MarkRowSent(w)
  BY <1>8 DEF MarkRowFailed, MarkRowSent, Running, Goto, Decide, Owed, VerdictOnReply
<1>9. CASE Heartbeat(w)
  BY <1>9 DEF Heartbeat, Owed, VerdictOnReply, InDoubt, logVars, worldVars
<1>10. CASE DbFails(w)
  <2>1. UNCHANGED <<row, optedOut>>
    BY <1>10 DEF DbFails, logVars, worldVars
  <2>2. pc[w] = "acked" => InDoubt(job[w])
    BY DEF RowInHand, InDoubt
  <2>3. \/ Finish({w})
        \/ \E v \in {"retry", "reload"} : Decide(w, "apply", v)
        \/ Goto(w, "gate")
        \/ pc[w] = "rowfail" /\ Goto(w, "apply")
        \/ pc[w] = "acked" /\ Decide(w, "apply", "fail")
    BY <1>10 DEF DbFails, Running
  <2>4. CASE \/ \E v \in {"retry", "reload"} : Decide(w, "apply", v)
             \/ Goto(w, "gate")
    BY <2>4 DEF Decide, Goto, VerdictOnReply
  <2>5. CASE pc[w] = "rowfail" /\ Goto(w, "apply")
    BY <2>5 DEF Goto, VerdictOnReply, Owed
  <2>6. CASE pc[w] = "acked" /\ Decide(w, "apply", "fail")
    BY <2>1, <2>2, <2>6 DEF Decide, VerdictOnReply, InDoubt
  <2>7. QED
    BY <1>2, <2>3, <2>4, <2>5, <2>6
<1>11. CASE Reconcile(w)
  BY <1>2, <1>11 DEF Reconcile, Goto, VerdictOnReply
<1>12. CASE Apply(w) \/ Abandon(w)
  BY <1>2, <1>12 DEF Apply, Abandon
<1>13. ~Misconfigured(w) /\ ~HistoryUnknown(w)
  BY DEF Misconfigured, HistoryUnknown
<1>14. QED
  BY <1>1, <1>3, <1>4, <1>5, <1>6, <1>7, <1>8, <1>9, <1>10, <1>11, <1>12, <1>13
  DEF OwnStep, WorkerStep, ProviderAnswers, Fault

\* A worker leaves an owed reply neither failed nor cancelled but for the reasons named.
LEMMA OwedFate ==
  ASSUME TypeOK, Exclusive, Undisturbed, Owed, NEW w \in Workers, OwnStep(w), NEW j \in Replies
  PROVE  FateOfReply(j)'
<1> USE DEF TypeOK, QueueTypeOK
<1>0. j \in Jobs /\ optedOut' = optedOut
  BY JobsAssumption DEF OwnStep, WorkerStep, ProviderAnswers, Fault, Claim, Reconcile, Load, TakeSlot,
     CheckReceipt, CheckUncertain, CheckConsent, CreateRow, MarkRowFailed, MarkRowSent, Apply,
     Abandon, Accept, LoseAck, Reject, Misconfigured, HistoryUnknown, DbFails, Heartbeat, worldVars
<1>1. CASE status[j] # "PROCESSING"
  BY <1>0, <1>1, RestTouched DEF Owed, FateOfReply, Untouched, InDoubt
<1>2. CASE status[j] = "PROCESSING" /\ status'[j] = "PROCESSING"
  BY <1>2 DEF FateOfReply
<1>3. CASE status[j] = "PROCESSING" /\ status'[j] # "PROCESSING"
  <2>1. pc[w] # "idle" /\ job[w] = j /\ (Apply(w) \/ Reconcile(w))
    <3>1. ~UNCHANGED status
      BY <1>3
    <3>2. Claim(w) \/ Apply(w) \/ Reconcile(w)
      BY <3>1 DEF OwnStep, WorkerStep, ProviderAnswers, Fault, Load, TakeSlot, CheckReceipt,
         CheckUncertain, CheckConsent, CreateRow, MarkRowFailed, MarkRowSent, Abandon, Accept,
         LoseAck, Reject, Misconfigured, HistoryUnknown, DbFails, Heartbeat, RenewLease, queueVars
    <3>3. ~Claim(w)
      BY <1>0, <1>3 DEF Claim, Lock
    <3>4. pc[w] # "idle"
      BY <3>2, <3>3 DEF Apply, Reconcile, Running
    <3>5. job[w] = j
      BY <1>0, <1>3, <3>4, OwnJobOnly DEF Untouched
    <3>6. QED
      BY <3>2, <3>3, <3>4, <3>5
  <2>2. CASE Reconcile(w)
    BY <1>0, <1>3, <2>1, <2>2 DEF Reconcile, ReconcileReceipt, Write, queueVars, FateOfReply
  <2>3. CASE Apply(w)
    <3>1. ~Exhausted(w) /\ VerdictOnReply(w) /\ UNCHANGED row
      BY <2>1, <2>3 DEF Exhausted, Owed, Apply, logVars
    <3>2. \/ verdict[w] = "cancel" /\ Cancel(j)
          \/ verdict[w] = "fail" /\ Fail(j)
          \/ MarkSent(j) \/ Defer(j) \/ Retry(j)
      BY <2>1, <2>3, <3>1 DEF Apply, RetryOrFail
    <3>3. CASE verdict[w] = "cancel" /\ Cancel(j)
      BY <1>0, <1>3, <2>1, <2>3, <3>1, <3>3 DEF Apply, Running, Cancel, Write, VerdictOnReply, FateOfReply
    <3>4. CASE verdict[w] = "fail" /\ Fail(j)
      BY <1>0, <2>1, <2>3, <3>1, <3>4 DEF Apply, Running, Fail, Write, VerdictOnReply, FateOfReply, InDoubt
    <3>5. CASE MarkSent(j) \/ Defer(j) \/ Retry(j)
      BY <1>0, <3>5 DEF MarkSent, Defer, Retry, Write, FateOfReply
    <3>6. QED
      BY <3>2, <3>3, <3>4, <3>5
  <2>4. QED
    BY <2>1, <2>2, <2>3
<1>4. QED
  BY <1>1, <1>2, <1>3

\* Every step keeps the fates of the owed replies within the reasons named.
LEMMA OwedNext == TypeOK /\ HeldInv /\ RowInv /\ OwedInv /\ [Next]_vars => OwedInv'
<1>1. SUFFICES ASSUME TypeOK, Exclusive, Undisturbed, RowInHand, Owed, Unrefused', [Next]_vars
               PROVE  Owed'
  <2>1. ASSUME TypeOK, HeldInv, RowInv, OwedInv, [Next]_vars, Unrefused'
        PROVE  Exclusive /\ Undisturbed /\ RowInHand /\ Owed
    <3>1. Quiet
      BY <2>1, QuietBefore DEF Unrefused
    <3>2. spent["refusal"] = 0
      <4>1. spent["refusal"] \in Nat /\ spent["refusal"] <= spent'["refusal"]
        BY <2>1, SpentGrows DEF Kinds
      <4>2. QED
        BY <2>1, <4>1 DEF Unrefused
    <3>3. QED
      BY <2>1, <3>1, <3>2 DEF HeldInv, RowInv, OwedInv, Unrefused
  <2>2. QED
    BY <2>1 DEF OwedInv
<1> USE <1>1
<1>2. CASE \E w \in Workers : OwnStep(w)
  <2>1. PICK w \in Workers : OwnStep(w)
    BY <1>2
  <2>2. ~Spend("refusal")
    BY DEF Spend, Unrefused, TypeOK, WorldTypeOK, Kinds
  <2>3. ASSUME NEW v \in Workers, job'[v] \in Replies
        PROVE  VerdictOnReply(v)'
    <3>1. CASE v = w
      BY <2>1, <2>2, <2>3, <3>1, OwedVerdict
    <3>2. CASE v # w
      <4>1. VerdictOnReply(v)
        BY <2>1, <2>3, <3>2, OthersStill DEF Owed
      <4>2. pc[v] = "apply" => row'[job[v]] = row[job[v]]
        <5>1. SUFFICES ASSUME pc[v] = "apply" PROVE row'[job[v]] = row[job[v]]
          OBVIOUS
        <5>2. CASE pc[w] # "idle"
          BY <2>1, <3>2, <5>1, <5>2, DifferentJobs, OwnJobOnly DEF Untouched
        <5>3. CASE pc[w] = "idle"
          BY <2>1, <5>3 DEF OwnStep, WorkerStep, ProviderAnswers, Fault, Claim, Reconcile, Load,
             TakeSlot, CheckReceipt, CheckUncertain, CheckConsent, CreateRow, MarkRowFailed,
             MarkRowSent, Apply, Abandon, Accept, LoseAck, Reject, Misconfigured, HistoryUnknown,
             DbFails, Heartbeat, Running, logVars
        <5>4. QED
          BY <5>2, <5>3
      <4>3. optedOut' = optedOut
        BY <2>1 DEF OwnStep, WorkerStep, ProviderAnswers, Fault, Claim, Reconcile, Load,
           TakeSlot, CheckReceipt, CheckUncertain, CheckConsent, CreateRow, MarkRowFailed,
           MarkRowSent, Apply, Abandon, Accept, LoseAck, Reject, Misconfigured, HistoryUnknown,
           DbFails, Heartbeat, worldVars
      <4>4. QED
        BY <2>1, <3>2, <4>1, <4>2, <4>3, OthersStill DEF VerdictOnReply, InDoubt
    <3>3. QED
      BY <3>1, <3>2
  <2>4. \A j \in Replies : FateOfReply(j)'
    BY <2>1, OwedFate
  <2>5. QED
    BY <2>3, <2>4 DEF Owed
<1>3. CASE WorldStep
  <2>1. UNCHANGED <<logVars, localVars>> /\ optedOut \subseteq optedOut'
    BY <1>3, QuietWorld DEF OptOut, StopEnrollments, Unrefused
  <2>2. \A w \in Workers : job'[w] \in Replies => VerdictOnReply(w)'
    BY <2>1 DEF Owed, VerdictOnReply, InDoubt, logVars, localVars
  <2>3. ASSUME NEW j \in Replies
        PROVE  FateOfReply(j)'
    <3>1. j \in Jobs
      BY JobsAssumption
    <3>2. CASE status'[j] = status[j]
      BY <2>1, <3>2 DEF Owed, FateOfReply, InDoubt, logVars
    <3>3. CASE status'[j] = "PENDING"
      BY <3>3 DEF FateOfReply
    <3>4. CASE status[j] = "PENDING" /\ status'[j] = "CANCELLED"
      <4>1. \E c \in Contacts : StopEnrollments(c) /\ ContactOf[j] = c
        <5>1. ~CancelStale
          BY <3>1, <3>4 DEF CancelStale, CancelPending, Stale
        <5>2. ~ReleaseStale
          BY <3>1, <3>4 DEF ReleaseStale, ReleaseOrphans
        <5>3. ~Pause /\ ~Activate /\ ~Close
          BY DEF Pause, Activate, Close, Spend, Unrefused, Quiet, Undisturbed, TypeOK, WorldTypeOK, Kinds
        <5>4. ~(\E i \in Jobs : Lapse(i) \/ BackoffElapses(i) \/ CancelJob(i) \/ RequeueJob(i))
          BY <3>1, <3>4 DEF Lapse, AgeLease, BackoffElapses, EndBackoff, CancelJob, RequeueJob, Spend,
             Unrefused, Quiet, TypeOK, WorldTypeOK, Kinds
        <5>5. ~Tick /\ \A c \in Contacts : ~OptOut(c) /\ ~AnswerByHand(c)
          BY <3>1, <3>4 DEF Tick, OptOut, AnswerByHand, queueVars
        <5>6. PICK c \in Contacts : StopEnrollments(c)
          BY <1>3, <5>1, <5>2, <5>3, <5>4, <5>5 DEF WorldStep
        <5>7. QED
          BY <3>1, <3>4, <5>6 DEF StopEnrollments, CancelPending
      <4>2. QED
        BY <3>4, <4>1 DEF StopEnrollments, FateOfReply
    <3>5. QED
      BY <1>3, <3>1, <3>2, <3>3, <3>4, QuietWorld DEF Unrefused
  <2>4. QED
    BY <2>2, <2>3 DEF Owed
<1>4. CASE Crash
  <2>1. UNCHANGED <<queueVars, row, worldVars>> /\ \A w \in Workers : job'[w] = 0
    BY <1>4 DEF Crash, Finish
  <2>2. 0 \notin Replies
    BY JobsAssumption, DeliveryAssumption
  <2>3. QED
    BY <2>1, <2>2 DEF Owed, FateOfReply, InDoubt, queueVars, worldVars
<1>5. CASE UNCHANGED vars
  BY <1>5 DEF vars, queueVars, logVars, localVars, worldVars, Owed, VerdictOnReply, FateOfReply, InDoubt
<1>6. QED
  BY <1>2, <1>3, <1>4, <1>5, StepKinds

\* The reply owed to a trigger message survives outages, crashes and failed
\* statements: it is given up only when an attempt of it is in doubt, and dropped
\* only for a STOP.
THEOREM OwedReplyKept == Spec => [](Unrefused => OwedReplyRetained)
<1>1. Init => OwedInv
  BY JobsAssumption, DeliveryAssumption DEF Init, QueueInit, OwedInv, Owed, FateOfReply, VerdictOnReply
<1>2. TypeOK /\ HeldInv /\ RowInv /\ OwedInv /\ [Next]_vars => OwedInv'
  BY OwedNext
<1>3. OwedInv => (Unrefused => OwedReplyRetained)
  BY DEF OwedInv, Owed, FateOfReply, OwedReplyRetained
<1>4. QED
  BY <1>1, <1>2, <1>3, TypeCorrect, HeldInvariant, RowInvariant, PTL DEF Spec

-----------------------------------------------------------------------------
(***************************************************************************)
(* The budget of attempts.                                                    *)
(*                                                                           *)
(* A row is written before the request, and the attempt is counted when the   *)
(* job is written back.  In between the worker's job has one row more than    *)
(* its count allows; a crash or a failed statement in between leaves it so.   *)
(***************************************************************************)
Attempts(j) == {n \in Rows : row[j][n] # "NONE"}

\* The attempts counted so far, less the last one of the budget: it closes the job.
Low(j) == IF attempts[j] < MaxAttempts THEN attempts[j] ELSE MaxAttempts - 1

\* The worker has written a row whose attempt it is still able to count.
Trying(w) ==
  /\ ctx[w]
  /\ \/ pc[w] \in {"deliver", "acked", "rowfail"}
     \/ pc[w] = "apply" /\ verdict[w] \in {"sent", "fail", "retry"}

Tried(j) == \E w \in Workers : job[w] = j /\ Trying(w)

Open(j) == status[j] \in {"PENDING", "PROCESSING"}

Allowance(j) == IF ~Open(j) THEN MaxAttempts ELSE IF Tried(j) THEN Low(j) + 1 ELSE Low(j)

Uncounted == spent["crash"] + spent["db"]

Within(j) == IsFiniteSet(Attempts(j)) /\ Cardinality(Attempts(j)) <= Allowance(j) + Uncounted

BudgetInv == Quiet => \A j \in Jobs \ Replies : Within(j)

\* The allowance is a number, and never above the budget.
LEMMA AllowanceType ==
  ASSUME TypeOK, NEW j \in Jobs
  PROVE  /\ Low(j) \in Nat /\ Low(j) + 1 <= MaxAttempts
         /\ Allowance(j) \in Nat /\ Allowance(j) <= MaxAttempts
         /\ Uncounted \in Nat
<1>1. attempts[j] \in Nat
  BY AttemptsAssumption DEF TypeOK, QueueTypeOK
<1>2. Low(j) \in Nat /\ Low(j) + 1 <= MaxAttempts
  BY <1>1, AttemptsAssumption DEF Low
<1>3. Allowance(j) \in Nat /\ Allowance(j) <= MaxAttempts
  BY <1>2, AttemptsAssumption DEF Allowance
<1>4. Uncounted \in Nat
  BY DEF TypeOK, WorldTypeOK, Uncounted, Kinds
<1>5. QED
  BY <1>2, <1>3, <1>4

\* What was not counted stays so.
LEMMA UncountedGrows ==
  ASSUME TypeOK, [Next]_vars
  PROVE  /\ Uncounted \in Nat /\ Uncounted' \in Nat /\ Uncounted <= Uncounted'
         /\ Spend("crash") \/ Spend("db") => Uncounted' = Uncounted + 1
<1>1. /\ spent["crash"] \in Nat /\ spent'["crash"] \in Nat /\ spent["crash"] <= spent'["crash"]
      /\ spent["db"] \in Nat /\ spent'["db"] \in Nat /\ spent["db"] <= spent'["db"]
  BY SpentGrows DEF Kinds
<1>2. Uncounted \in Nat /\ Uncounted' \in Nat /\ Uncounted <= Uncounted'
  BY <1>1 DEF Uncounted
<1>3. Spend("crash") \/ Spend("db") => Uncounted' = Uncounted + 1
  BY <1>1 DEF Uncounted, Spend, TypeOK, WorldTypeOK, Kinds
<1>4. QED
  BY <1>2, <1>3

\* A job stays within its budget if no row is added, no attempt counted, and a
\* worker's attempt is forgotten only with the job closed or the disturbance counted.
LEMMA WithinKept ==
  ASSUME TypeOK, TypeOK', [Next]_vars, NEW j \in Jobs, Within(j),
         Attempts(j)' = Attempts(j), attempts'[j] = attempts[j],
         Open(j)' => Open(j),
         Tried(j) /\ Open(j)' => Tried(j)' \/ Spend("crash") \/ Spend("db")
  PROVE  Within(j)'
<1>1. Low(j)' = Low(j)
  BY DEF Low
<1>2. Uncounted \in Nat /\ Uncounted' \in Nat /\ Uncounted <= Uncounted'
  BY UncountedGrows
<1>3. Allowance(j)' \in Nat /\ Allowance(j) \in Nat
  BY <1>1, AllowanceType, AttemptsAssumption DEF Allowance
<1>4. Allowance(j) + Uncounted <= Allowance(j)' + Uncounted'
  <2>1. CASE ~Open(j)'
    <3>1. Allowance(j)' = MaxAttempts /\ Allowance(j) <= MaxAttempts
      BY <2>1, AllowanceType DEF Allowance
    <3>2. QED
      BY <1>2, <1>3, <3>1
  <2>2. CASE Open(j)' /\ ~(Tried(j) /\ ~Tried(j)')
    <3>1. Allowance(j) <= Allowance(j)'
      BY <1>1, <2>2, AllowanceType DEF Allowance
    <3>2. QED
      BY <1>2, <1>3, <3>1
  <2>3. CASE Open(j)' /\ Tried(j) /\ ~Tried(j)'
    <3>1. Uncounted' = Uncounted + 1
      BY <2>3, UncountedGrows
    <3>2. Allowance(j) = Low(j) + 1 /\ Allowance(j)' = Low(j)
      BY <1>1, <2>3 DEF Allowance
    <3>3. QED
      BY <1>2, <1>3, <3>1, <3>2, AllowanceType
  <2>4. QED
    BY <2>1, <2>2, <2>3
<1>5. Cardinality(Attempts(j)) \in Nat
  BY FS_CardinalityType DEF Within
<1>6. Cardinality(Attempts(j)') <= Allowance(j)' + Uncounted'
  BY <1>2, <1>3, <1>4, <1>5 DEF Within
<1>7. QED
  BY <1>6 DEF Within

\* A closed job has room for all the attempts its allowance ever gave it.
LEMMA WithinClosed ==
  ASSUME TypeOK, NEW j \in Jobs, Within(j), ~Open(j)', Attempts(j)' = Attempts(j), UNCHANGED spent
  PROVE  Within(j)'
<1>1. Allowance(j)' = MaxAttempts /\ Uncounted' = Uncounted
  BY DEF Allowance, Uncounted
<1>2. Cardinality(Attempts(j)) \in Nat /\ Cardinality(Attempts(j)) <= Allowance(j) + Uncounted
  BY FS_CardinalityType DEF Within
<1>3. Cardinality(Attempts(j)) <= MaxAttempts + Uncounted
  BY <1>2, AllowanceType, AttemptsAssumption
<1>4. QED
  BY <1>1, <1>3 DEF Within

\* A step that is not its holder's leaves a job within its budget.
LEMMA BudgetOfOthers ==
  ASSUME TypeOK, TypeOK', Exclusive, [Next]_vars, NEW w \in Workers, OwnStep(w),
         NEW j \in Jobs, Within(j), pc[w] = "idle" \/ job[w] # j
  PROVE  Within(j)'
<1>1. row'[j] = row[j] /\ attempts'[j] = attempts[j] /\ (Open(j)' => Open(j))
  <2>1. CASE pc[w] # "idle"
    BY <2>1, OwnJobOnly DEF Untouched, Open
  <2>2. CASE pc[w] = "idle"
    <3>1. Claim(w)
      BY <2>2 DEF OwnStep, WorkerStep, ProviderAnswers, Fault, Reconcile, Load, TakeSlot, CheckReceipt,
         CheckUncertain, CheckConsent, CreateRow, MarkRowFailed, MarkRowSent, Apply, Abandon, Accept,
         LoseAck, Reject, Misconfigured, HistoryUnknown, DbFails, Heartbeat, Running, TypeOK,
         LocalTypeOK, Exclusive
    <3>2. PICK i \in Jobs : status[i] = "PENDING" /\ Lock(i)
      BY <3>1 DEF Claim, Claimable, Eligible, Due
    <3>3. QED
      BY <3>1, <3>2 DEF Claim, Lock, Open, logVars, TypeOK, QueueTypeOK
  <2>3. QED
    BY <2>1, <2>2
<1>2. Attempts(j)' = Attempts(j)
  BY <1>1 DEF Attempts
<1>3. Tried(j) => Tried(j)'
  <2>1. SUFFICES ASSUME NEW v \in Workers, job[v] = j, Trying(v)
                 PROVE  job'[v] = j /\ Trying(v)'
    BY DEF Tried
  <2>2. v # w
    BY <2>1 DEF Trying
  <2>3. QED
    BY <2>1, <2>2, OthersStill DEF Trying
<1>4. QED
  BY <1>1, <1>2, <1>3, WithinKept

\* The row of a new attempt: the count allows it.
LEMMA BudgetCreate ==
  ASSUME TypeOK, Exclusive, NEW w \in Workers, CreateRow(w),
         NEW j \in Jobs, job[w] = j, Within(j)
  PROVE  Within(j)'
<1> USE DEF TypeOK, LocalTypeOK
<1>1. j \in Jobs /\ pc[w] = "create" /\ ctx[w]
  BY DEF CreateRow, Running
<1>2. PICK n \in Rows : row' = [row EXCEPT ![j][n] = "PENDING"]
  BY DEF CreateRow, SetRow
<1>3. UNCHANGED <<queueVars, spent, ctx, job>> /\ pc'[w] = "deliver"
  BY DEF CreateRow
<1>4. Attempts(j)' = Attempts(j) \cup {n}
  BY <1>1, <1>2, <1>3 DEF Attempts, LogTypeOK
<1>5. IsFiniteSet(Attempts(j)') /\ Cardinality(Attempts(j)') <= Cardinality(Attempts(j)) + 1
  <2>1. IsFiniteSet(Attempts(j))
    BY DEF Within
  <2>2. Cardinality(Attempts(j)) \in Nat
    BY <2>1, FS_CardinalityType
  <2>3. /\ IsFiniteSet(Attempts(j) \cup {n})
        /\ Cardinality(Attempts(j) \cup {n}) <= Cardinality(Attempts(j)) + 1
    <3> DEFINE A == Attempts(j)
    <3> HIDE DEF A
    <3>1. /\ IsFiniteSet(A \cup {n})
          /\ Cardinality(A \cup {n}) = Cardinality(A) \/ Cardinality(A \cup {n}) = Cardinality(A) + 1
      BY <2>1, FS_AddElement DEF A
    <3>2. QED
      BY <2>2, <3>1 DEF A
  <2>4. QED
    BY <1>4, <2>3, Zenon
<1>6. Allowance(j) = Low(j)
  <2>1. ASSUME NEW v \in Workers, job[v] = j
        PROVE  ~Trying(v)
    BY <1>1, <2>1, DifferentJobs DEF Trying
  <2>2. Open(j)
    BY <1>1 DEF Exclusive, Holds, Open
  <2>3. QED
    BY <2>1, <2>2 DEF Allowance, Tried
<1>7. Allowance(j)' = Low(j) + 1
  <2>1. Tried(j)'
    BY <1>1, <1>3 DEF Tried, Trying
  <2>2. Open(j)' /\ Low(j)' = Low(j)
    BY <1>1, <1>3 DEF Exclusive, Holds, Open, Low, queueVars
  <2>3. QED
    BY <2>1, <2>2 DEF Allowance
<1>8. Low(j) \in Nat /\ Uncounted \in Nat /\ Uncounted' = Uncounted
  BY <1>1, <1>3, AllowanceType DEF Uncounted
<1>9. Cardinality(Attempts(j)) \in Nat /\ Cardinality(Attempts(j)') \in Nat
  BY <1>5, FS_CardinalityType DEF Within
<1>10. Cardinality(Attempts(j)) <= Low(j) + Uncounted
  BY <1>6 DEF Within
<1>11. Cardinality(Attempts(j)') <= Low(j) + 1 + Uncounted
  BY <1>5, <1>8, <1>9, <1>10
<1>12. QED
  BY <1>5, <1>7, <1>8, <1>11 DEF Within

\* The job is written back: the attempt is counted, and the last one closes it.
LEMMA BudgetApply ==
  ASSUME TypeOK, TypeOK', Exclusive, [Next]_vars, NEW w \in Workers, Apply(w),
         NEW j \in Jobs \ Replies, job[w] = j, Within(j)
  PROVE  Within(j)'
<1> USE DEF TypeOK, LocalTypeOK, QueueTypeOK
<1>1. j \in Jobs /\ pc[w] = "apply" /\ ctx[w] /\ tries[w] = attempts[j] /\ Open(j)
  BY DEF Apply, Running, Exclusive, Holds, Open
<1>2. UNCHANGED <<row, spent>> /\ Finish({w})
  BY DEF Apply, logVars
<1>3. Attempts(j)' = Attempts(j)
  BY <1>2 DEF Attempts
<1>4. CASE ~Open(j)'
  BY <1>1, <1>2, <1>3, <1>4, WithinClosed
<1>5. CASE Open(j)'
  <2>1. \/ verdict[w] = "defer" /\ Defer(j)
        \/ verdict[w] = "retry" /\ ~Exhausted(w) /\ Retry(j)
        \/ verdict[w] = "reload" /\ Retry(j)
    BY <1>1, <1>5 DEF Apply, RetryOrFail, MarkSent, Cancel, Fail, Write, Open
  <2>2. ~Tried(j)'
    <3>1. ASSUME NEW v \in Workers, job'[v] = j, Trying(v)'
          PROVE  FALSE
      <4>1. v # w
        BY <1>2, <3>1 DEF Finish, Trying
      <4>2. job[v] = j /\ Trying(v)
        BY <1>2, <3>1, <4>1 DEF Finish, Trying
      <4>3. QED
        BY <1>1, <4>1, <4>2, DifferentJobs DEF Trying
    <3>2. QED
      BY <3>1 DEF Tried
  <2>3. Allowance(j)' = Low(j)'
    BY <1>5, <2>2 DEF Allowance
  <2>4. Allowance(j) <= Low(j)'
    <3>1. CASE verdict[w] = "retry"
      <4>1. attempts[j] + 1 < MaxAttempts
        BY <1>1, <2>1, <3>1, AttemptsAssumption DEF Exhausted
      <4>2. attempts'[j] = attempts[j] + 1
        BY <1>1, <2>1, <3>1, <4>1, AttemptsAssumption
           DEF Retry, Write, Counted, LargestBudget
      <4>3. Low(j)' = attempts[j] + 1 /\ Low(j) = attempts[j]
        BY <1>1, <4>1, <4>2, AttemptsAssumption DEF Low
      <4>4. Allowance(j) = Low(j) \/ Allowance(j) = Low(j) + 1
        BY <1>1 DEF Allowance
      <4>5. QED
        BY <1>1, <4>3, <4>4, AttemptsAssumption
    <3>2. CASE verdict[w] \in {"defer", "reload"}
      <4>1. Allowance(j) = Low(j)
        <5>1. ASSUME NEW v \in Workers, job[v] = j
              PROVE  ~Trying(v)
          BY <1>1, <3>2, <5>1, DifferentJobs DEF Trying
        <5>2. QED
          BY <1>1, <5>1 DEF Allowance, Tried
      <4>2. attempts'[j] = attempts[j] \/ attempts'[j] = attempts[j] + 1
        BY <1>1, <2>1, <3>2 DEF Defer, Retry, Write, Counted
      <4>3. Low(j) <= Low(j)'
        BY <1>1, <4>2, AttemptsAssumption DEF Low
      <4>4. QED
        BY <4>1, <4>3
    <3>3. QED
      BY <2>1, <3>1, <3>2
  <2>5. Allowance(j) \in Nat /\ Uncounted \in Nat /\ Uncounted' = Uncounted
    BY <1>1, <1>2, AllowanceType DEF Uncounted
  <2>6. Low(j)' \in Nat
    BY <1>1, AttemptsAssumption DEF Low
  <2>7. Cardinality(Attempts(j)) \in Nat
    BY FS_CardinalityType DEF Within
  <2>8. Cardinality(Attempts(j)) <= Low(j)' + Uncounted
    BY <2>4, <2>5, <2>6, <2>7 DEF Within
  <2>9. QED
    BY <1>3, <2>3, <2>5, <2>8 DEF Within
<1>6. QED
  BY <1>4, <1>5

\* The holder's other statements: a row changes hands but none is added, and the
\* attempt in progress stays so, unless a failed statement is counted.
LEMMA BudgetOwn ==
  ASSUME TypeOK, TypeOK', Exclusive, RowInHand, [Next]_vars, NEW w \in Workers, OwnStep(w),
         ~CreateRow(w), ~Apply(w), pc[w] # "idle", NEW j \in Jobs, job[w] = j, Within(j)
  PROVE  Within(j)'
<1> USE DEF TypeOK, LocalTypeOK
<1>1. j \in Jobs /\ Open(j)
  BY DEF Exclusive, Holds, Open
<1>2. Attempts(j)' = Attempts(j)
  <2>1. CASE MarkRowFailed(w) \/ MarkRowSent(w)
    <3>1. PICK s \in {"SENT", "FAILED"} : row' = [row EXCEPT ![j][cur[w]] = s]
      BY <2>1 DEF MarkRowFailed, MarkRowSent, SetRow
    <3>2. cur[w] \in Rows /\ row[j][cur[w]] = "PENDING"
      BY <2>1 DEF MarkRowFailed, MarkRowSent, Running, RowInHand
    <3>3. \A n \in Rows : row'[j][n] = IF n = cur[w] THEN s ELSE row[j][n]
      BY <1>1, <3>1, <3>2 DEF LogTypeOK
    <3>4. QED
      BY <3>2, <3>3 DEF Attempts
  <2>2. CASE UNCHANGED row
    BY <2>2 DEF Attempts
  <2>3. QED
    BY <2>1, <2>2 DEF OwnStep, WorkerStep, ProviderAnswers, Fault, Claim, Reconcile, Load, TakeSlot,
       CheckReceipt, CheckUncertain, CheckConsent, Abandon, Accept, LoseAck, Reject, Misconfigured,
       HistoryUnknown, DbFails, Heartbeat, Arrive, Reach, logVars
<1>3. attempts'[j] = attempts[j]
  BY DEF OwnStep, WorkerStep, ProviderAnswers, Fault, Claim, Reconcile, ReconcileReceipt, Write, Load,
     TakeSlot, CheckReceipt, CheckUncertain, CheckConsent, MarkRowFailed, MarkRowSent, Abandon, Accept,
     LoseAck, Reject, Misconfigured, HistoryUnknown, DbFails, Heartbeat, RenewLease, queueVars,
     QueueTypeOK
<1>4. Trying(w) => (job'[w] = j /\ Trying(w)') \/ Spend("db")
  <2>1. SUFFICES ASSUME Trying(w), ~Spend("db")
                 PROVE  job'[w] = j /\ Trying(w)'
    OBVIOUS
  <2>2. CASE ProviderAnswers(w)
    BY <2>1, <2>2 DEF ProviderAnswers, Accept, LoseAck, Reject, Goto, Decide, Trying
  <2>3. CASE MarkRowFailed(w) \/ MarkRowSent(w)
    BY <2>1, <2>3 DEF MarkRowFailed, MarkRowSent, Running, Goto, Decide, Trying, RowInHand
  <2>4. CASE Heartbeat(w)
    BY <1>1, <2>1, <2>4 DEF Heartbeat, Trying, Exclusive, Holds
  <2>5. QED
    BY <2>1, <2>2, <2>3, <2>4 DEF OwnStep, WorkerStep, Fault, Claim, Reconcile, Load, TakeSlot,
       CheckReceipt, CheckUncertain, CheckConsent, Abandon, Misconfigured, HistoryUnknown, DbFails,
       Running, Trying
<1>5. Tried(j) => Tried(j)' \/ Spend("db")
  <2>1. SUFFICES ASSUME NEW v \in Workers, job[v] = j, Trying(v)
                 PROVE  Tried(j)' \/ Spend("db")
    BY DEF Tried
  <2>2. v = w
    BY <2>1, DifferentJobs DEF Trying
  <2>3. QED
    BY <1>4, <2>1, <2>2 DEF Tried
<1>6. QED
  BY <1>1, <1>2, <1>3, <1>5, WithinKept

\* Every step leaves every job within its budget of attempts.
LEMMA BudgetNext ==
  TypeOK /\ TypeOK' /\ HeldInv /\ RowInv /\ BudgetInv /\ [Next]_vars => BudgetInv'
<1>1. SUFFICES ASSUME TypeOK, TypeOK', Exclusive, Undisturbed, RowInHand, Quiet', [Next]_vars,
                      NEW j \in Jobs, j \notin Replies, Within(j)
               PROVE  Within(j)'
  BY QuietBefore DEF HeldInv, RowInv, BudgetInv
<1> USE <1>1
<1>2. CASE \E w \in Workers : OwnStep(w)
  <2>1. PICK w \in Workers : OwnStep(w)
    BY <1>2
  <2>2. CASE pc[w] = "idle" \/ job[w] # j
    BY <2>1, <2>2, BudgetOfOthers
  <2>3. CASE pc[w] # "idle" /\ job[w] = j
    BY <2>1, <2>3, BudgetCreate, BudgetApply, BudgetOwn
  <2>4. QED
    BY <2>2, <2>3
<1>3. CASE WorldStep
  <2>1. /\ Attempts(j)' = Attempts(j) /\ attempts'[j] = attempts[j]
        /\ UNCHANGED localVars
    BY <1>3, QuietWorld DEF Attempts, logVars
  <2>2. Open(j)' => Open(j)
    BY <1>3, QuietWorld DEF Open
  <2>3. Tried(j) => Tried(j)'
    BY <2>1 DEF Tried, Trying, localVars
  <2>4. QED
    BY <2>1, <2>2, <2>3, WithinKept
<1>4. CASE Crash
  <2>1. Attempts(j)' = Attempts(j) /\ attempts'[j] = attempts[j] /\ (Open(j)' => Open(j)) /\ Spend("crash")
    BY <1>4 DEF Crash, Attempts, Open, queueVars
  <2>2. QED
    BY <2>1, WithinKept
<1>5. CASE UNCHANGED vars
  BY <1>5, WithinKept DEF vars, queueVars, logVars, localVars, Attempts, Open, Tried, Trying
<1>6. QED
  BY <1>2, <1>3, <1>4, <1>5, StepKinds

\* Every job stays within its budget of attempts, throughout.
THEOREM BudgetInvariant == Spec => []BudgetInv
<1>1. Init => BudgetInv
  <2>1. SUFFICES ASSUME Init, NEW j \in Jobs PROVE Within(j)
    BY DEF BudgetInv
  <2>2. Attempts(j) = {}
    BY <2>1 DEF Init, LogInit, Attempts
  <2>3. IsFiniteSet(Attempts(j)) /\ Cardinality(Attempts(j)) = 0
    BY <2>2, FS_EmptySet
  <2>4. Allowance(j) \in Nat /\ Uncounted \in Nat
    BY <2>1, InitType, AllowanceType
  <2>5. QED
    BY <2>3, <2>4 DEF Within
<1>2. TypeOK /\ TypeOK' /\ HeldInv /\ RowInv /\ BudgetInv /\ [Next]_vars => BudgetInv'
  BY BudgetNext
<1>3. QED
  BY <1>1, <1>2, TypeCorrect, HeldInvariant, RowInvariant, PTL DEF Spec

\* As long as nothing interferes, a message that is no owed reply is attempted at
\* most max_send_attempts times, and once more for every crash or failed statement.
THEOREM AttemptsBoundedWhileQuiet == Spec => [](Quiet => AttemptsBounded)
<1>1. TypeOK /\ BudgetInv => (Quiet => AttemptsBounded)
  <2>1. SUFFICES ASSUME TypeOK, NEW j \in Jobs, Within(j)
                 PROVE  Cardinality(Attempts(j)) <= MaxAttempts + spent["crash"] + spent["db"]
    BY DEF BudgetInv, AttemptsBounded, Attempts
  <2>2. Cardinality(Attempts(j)) \in Nat /\ Cardinality(Attempts(j)) <= Allowance(j) + Uncounted
    BY <2>1, FS_CardinalityType DEF Within
  <2>3. Allowance(j) \in Nat /\ Allowance(j) <= MaxAttempts
    BY <2>1, AllowanceType
  <2>4. spent["crash"] \in Nat /\ spent["db"] \in Nat /\ Uncounted = spent["crash"] + spent["db"]
    BY <2>1 DEF TypeOK, WorldTypeOK, Kinds, Uncounted
  <2>5. QED
    BY <2>2, <2>3, <2>4, AttemptsAssumption
<1>2. QED
  BY <1>1, TypeCorrect, BudgetInvariant, PTL

-----------------------------------------------------------------------------
(***************************************************************************)
(* The cap.                                                                   *)
(*                                                                           *)
(* A job is cleared once it has passed the cap's check, or has a receipt that *)
(* closes it without one.  The check counts the SENT jobs only: what it does  *)
(* not see is held by a worker, or left with a receipt by a disturbance.      *)
(***************************************************************************)
AtWork == {w \in Workers : pc[w] # "idle"}

HeldJobs == {job[w] : w \in AtWork}

PastLoad(w) == pc[w] \in {"gate"} \cup GatePhases \/ (pc[w] = "apply" /\ verdict[w] = "sent")

Cleared ==
  {j \in Jobs : status[j] = "SENT" \/ HasReceipt(j) \/ \E w \in Workers : PastLoad(w) /\ job[w] = j}

\* Not SENT, and either a receipt nobody is about to turn into SENT, or a worker
\* that can no longer do it.
Left ==
  {j \in Jobs : /\ status[j] # "SENT"
                /\ \/ HasReceipt(j) /\ j \notin HeldJobs
                   \/ \E w \in AtWork : ~ctx[w] /\ job[w] = j}

InFlight == Min({Cardinality(Workers), Cardinality(Contacts)})

Slack == InFlight * spent["crash"] + spent["db"]

\* Past the reconciliation only a worker about to mark the job SENT has a receipt.
NoReceipt ==
  \A w \in Workers :
     pc[w] \notin {"idle", "reconcile"} /\ ~(pc[w] = "apply" /\ verdict[w] = "sent")
       => ~HasReceipt(job[w])

CapBound ==
  /\ NoReceipt
  /\ IsFiniteSet(Left) /\ Cardinality(Left) <= Slack
  /\ IsFiniteSet(Cleared) /\ Cardinality(Cleared) <= Cap + (InFlight - 1) + Slack

CapInv == Quiet => CapBound

\* At least one job and at most one per worker and per contact is in flight.
LEMMA InFlightType ==
  /\ InFlight \in Nat /\ 1 <= InFlight
  /\ InFlight = Cardinality(Workers) \/ InFlight = Cardinality(Contacts)
<1> DEFINE m == Cardinality(Workers)  n == Cardinality(Contacts)
<1>1. m \in Nat /\ n \in Nat /\ 1 <= m /\ 1 <= n
  <2>1. m \in Nat /\ n \in Nat
    BY DeliveryAssumption, FS_CardinalityType
  <2>2. m # 0 /\ n # 0
    BY DeliveryAssumption, FS_EmptySet
  <2> HIDE DEF m, n
  <2>3. QED
    BY <2>1, <2>2
<1> HIDE DEF m, n
<1>2. \E x \in {m, n} : \A y \in {m, n} : x <= y
  BY <1>1
<1>3. Min({m, n}) \in {m, n}
  BY <1>2 DEF Min
<1>4. QED
  BY <1>1, <1>3 DEF InFlight, m, n

\* The jobs in flight are no more than the workers, and no more than the contacts.
LEMMA HeldBound ==
  ASSUME TypeOK, Exclusive
  PROVE  IsFiniteSet(HeldJobs) /\ Cardinality(HeldJobs) <= InFlight
<1>1. IsFiniteSet(AtWork) /\ Cardinality(AtWork) <= Cardinality(Workers)
  BY DeliveryAssumption, FS_Subset DEF AtWork
<1>2. IsFiniteSet(HeldJobs) /\ Cardinality(HeldJobs) <= Cardinality(AtWork)
  <2> DEFINE f == [w \in AtWork |-> job[w]]
  <2>1. f \in Surjection(AtWork, HeldJobs)
    BY DEF Surjection, HeldJobs
  <2>2. QED
    BY <1>1, <2>1, FS_Surjection
<1>3. Cardinality(HeldJobs) <= Cardinality(Contacts)
  <2> DEFINE f == [j \in HeldJobs |-> ContactOf[j]]
  <2>1. HeldJobs \subseteq Jobs
    BY DEF HeldJobs, AtWork, TypeOK, LocalTypeOK
  <2>2. f \in [HeldJobs -> Contacts]
    BY <2>1, JobsAssumption
  <2>3. \A i, j \in HeldJobs : ContactOf[i] = ContactOf[j] => i = j
    BY DEF HeldJobs, AtWork, Exclusive, OneInFlight, SameContact
  <2>4. f \in Injection(HeldJobs, Contacts)
    BY <2>2, <2>3 DEF Injection, IsInjective
  <2>5. QED
    BY <2>4, DeliveryAssumption, FS_Injection
<1>4. Cardinality(HeldJobs) \in Nat /\ Cardinality(AtWork) \in Nat /\ Cardinality(Workers) \in Nat
  BY <1>1, <1>2, DeliveryAssumption, FS_CardinalityType
<1>5. QED
  BY <1>1, <1>2, <1>3, <1>4, InFlightType

\* What a crash and a failed statement add to the slack.
LEMMA SlackGrows ==
  ASSUME TypeOK, [Next]_vars
  PROVE  /\ Slack \in Nat /\ Slack' \in Nat /\ Slack <= Slack'
         /\ Spend("db") => Slack' = Slack + 1
         /\ Spend("crash") => Slack' = Slack + InFlight
<1> DEFINE c == spent["crash"]  d == spent["db"]  i == InFlight
<1>1. /\ c \in Nat /\ c' \in Nat /\ c <= c'
      /\ d \in Nat /\ d' \in Nat /\ d <= d'
  BY SpentGrows DEF Kinds
<1>2. i \in Nat /\ i' = i
  BY InFlightType DEF InFlight
<1>3. \A a, b \in Nat : i * a \in Nat /\ (a <= b => i * a <= i * b) /\ i * (a + 1) = i * a + i
  <2> HIDE DEF i
  <2>1. \A x, a \in Nat : x * a \in Nat /\ x * (a + 1) = x * a + x
    OBVIOUS
  <2>2. \A x, a, b \in Nat : a <= b => x * a <= x * b
    <3>1. SUFFICES ASSUME NEW x \in Nat, NEW a \in Nat, NEW b \in Nat, a <= b
                   PROVE  x * a <= x * b
      OBVIOUS
    <3>2. b - a \in Nat /\ x * (b - a) \in Nat
      BY <3>1, <2>1
    <3>3. x * b = x * a + x * (b - a)
      BY <3>1
    <3>4. QED
      BY <3>1, <3>2, <3>3, <2>1
  <2>3. QED
    BY <1>2, <2>1, <2>2
<1>4. Spend("db") => c' = c /\ d' = d + 1
  BY DEF Spend, TypeOK, WorldTypeOK, Kinds
<1>5. Spend("crash") => c' = c + 1 /\ d' = d
  BY DEF Spend, TypeOK, WorldTypeOK, Kinds
<1>6. Slack = i * c + d /\ Slack' = i * c' + d'
  BY <1>2 DEF Slack
<1> HIDE DEF c, d, i
<1>7. Slack \in Nat /\ Slack' \in Nat /\ Slack <= Slack'
  <2>1. i * c \in Nat /\ i * c' \in Nat /\ i * c <= i * c'
    BY <1>1, <1>3, Zenon
  <2>2. \A p, q, x, y \in Nat : p <= q /\ x <= y => p + x \in Nat /\ q + y \in Nat /\ p + x <= q + y
    OBVIOUS
  <2>3. QED
    BY <1>1, <1>6, <2>1, <2>2, Zenon
<1>8. Spend("db") => Slack' = Slack + 1
  <2>1. i * c \in Nat
    BY <1>1, <1>3, Zenon
  <2>2. \A p, x \in Nat : p + (x + 1) = p + x + 1
    OBVIOUS
  <2>3. QED
    BY <1>1, <1>4, <1>6, <2>1, <2>2, Zenon
<1>9. Spend("crash") => Slack' = Slack + i
  <2>1. i * c \in Nat /\ i * (c + 1) = i * c + i
    BY <1>1, <1>3, Zenon
  <2>2. \A p, x, y \in Nat : (p + y) + x = (p + x) + y
    OBVIOUS
  <2>3. SUFFICES ASSUME Spend("crash")
                 PROVE  Slack' = Slack + i
    OBVIOUS
  <2>4. Slack' = i * (c + 1) + d
    BY <1>5, <1>6, <2>3, Zenon
  <2>5. Slack' = (i * c + i) + d
    BY <2>1, <2>4, Zenon
  <2>6. (i * c + i) + d = (i * c + d) + i
    BY <1>1, <1>2, <2>1, <2>2, Zenon
  <2>7. QED
    BY <1>6, <2>5, <2>6, Zenon
<1>10. QED
  BY <1>7, <1>8, <1>9 DEF i

\* A receipt appears only where a worker records it.
LEMMA ReceiptAppears ==
  ASSUME TypeOK, RowInHand, NEW w \in Workers, OwnStep(w), NEW j \in Jobs, HasReceipt(j)'
  PROVE  HasReceipt(j) \/ (MarkRowSent(w) /\ job[w] = j)
<1>1. CASE UNCHANGED row
  BY <1>1 DEF HasReceipt
<1>2. CASE MarkRowSent(w)
  BY <1>2, OwnJobOnly DEF MarkRowSent, Untouched, HasReceipt
<1>3. CASE CreateRow(w) \/ MarkRowFailed(w)
  <2>1. PICK n \in Rows \cup {cur[w]}, s \in {"PENDING", "FAILED"} : row' = [row EXCEPT ![job[w]][n] = s]
    BY <1>3 DEF CreateRow, MarkRowFailed, SetRow
  <2>2. \A m \in Rows : row'[j][m] = "SENT" => row[j][m] = "SENT"
    BY <2>1 DEF TypeOK, LogTypeOK
  <2>3. QED
    BY <2>2 DEF HasReceipt
<1>4. QED
  BY <1>1, <1>2, <1>3 DEF OwnStep, WorkerStep, ProviderAnswers, Fault, Claim, Reconcile, Load, TakeSlot,
     CheckReceipt, CheckUncertain, CheckConsent, Apply, Abandon, Accept, LoseAck, Reject,
     Misconfigured, HistoryUnknown, DbFails, Heartbeat, Arrive, Reach, logVars

\* A worker's step keeps receipts to those about to mark their jobs SENT.
LEMMA NoReceiptOwn ==
  ASSUME TypeOK, Exclusive, RowInHand, NoReceipt, NEW w \in Workers, OwnStep(w)
  PROVE  NoReceipt'
<1> USE DEF TypeOK, LocalTypeOK
<1> DEFINE Clean(v) == pc[v] \notin {"idle", "reconcile"} /\ ~(pc[v] = "apply" /\ verdict[v] = "sent")
<1>1. SUFFICES ASSUME NEW v \in Workers, Clean(v)'
               PROVE  ~HasReceipt(job[v])'
  BY DEF NoReceipt
<1>2. CASE v # w
  <2>1. Clean(v) /\ job'[v] = job[v] /\ job[v] \in Jobs
    BY <1>1, <1>2, OthersStill
  <2>2. ~HasReceipt(job[v])
    BY <2>1 DEF NoReceipt
  <2>3. CASE pc[w] # "idle"
    <3>1. job[v] # job[w]
      BY <1>2, <2>1, <2>3, DifferentJobs
    <3>2. QED
      BY <2>1, <2>2, <3>1, ReceiptAppears DEF HasReceipt
  <2>4. CASE pc[w] = "idle"
    BY <2>1, <2>2, <2>4, ReceiptAppears DEF HasReceipt, MarkRowSent
  <2>5. QED
    BY <2>3, <2>4
<1>3. CASE v = w
  <2>1. pc[w] # "idle"
    BY <1>1, <1>3 DEF OwnStep, WorkerStep, ProviderAnswers, Fault, Claim, Reconcile, Load, TakeSlot, CheckReceipt,
       CheckUncertain, CheckConsent, CreateRow, MarkRowFailed, MarkRowSent, Apply, Abandon, Accept,
       LoseAck, Reject, Misconfigured, HistoryUnknown, DbFails, Heartbeat, Running
  <2>2. /\ job'[w] = job[w] /\ ~MarkRowSent(w)
        /\ Clean(w) \/ (Reconcile(w) /\ ~Closable(job[w]))
    <3>1. CASE Finish({w})
      BY <1>1, <1>3, <3>1 DEF Finish
    <3>2. CASE Reconcile(w)
      BY <1>1, <1>3, <3>1, <3>2 DEF Reconcile, Goto, MarkRowSent, Running
    <3>3. CASE MarkRowSent(w)
      BY <1>1, <1>3, <3>3 DEF MarkRowSent, Decide
    <3>4. CASE Apply(w) \/ Abandon(w)
      BY <3>1, <3>4 DEF Apply, Abandon
    <3>5. CASE Heartbeat(w)
      BY <1>1, <1>3, <3>5 DEF Heartbeat, MarkRowSent, SetRow, RowInHand, LogTypeOK, logVars
    <3>6. CASE DbFails(w)
      BY <1>1, <1>3, <2>1, <3>1, <3>6 DEF DbFails, Running, Goto, Decide, MarkRowSent
    <3>7. CASE Misconfigured(w) \/ HistoryUnknown(w) \/ ProviderAnswers(w)
      BY <1>1, <1>3, <3>7 DEF Misconfigured, HistoryUnknown, ProviderAnswers, Accept, LoseAck, Reject,
         Running, Goto, Decide, MarkRowSent
    <3>8. CASE \/ Load(w) \/ TakeSlot(w) \/ CheckReceipt(w) \/ CheckUncertain(w) \/ CheckConsent(w)
               \/ CreateRow(w) \/ MarkRowFailed(w)
      BY <1>1, <1>3, <3>8 DEF Load, TakeSlot, CheckReceipt, CheckUncertain, CheckConsent, CreateRow,
         MarkRowFailed, Running, Goto, Decide, MarkRowSent
    <3>9. ~Claim(w)
      BY <2>1 DEF Claim
    <3>10. QED
      BY <3>2, <3>3, <3>4, <3>5, <3>6, <3>7, <3>8, <3>9 DEF OwnStep, WorkerStep, Fault
  <2>3. ~HasReceipt(job[w])
    BY <2>1, <2>2 DEF NoReceipt, Closable, Exclusive, Holds, Reconcile, Running
  <2>4. QED
    BY <1>3, <2>1, <2>2, <2>3, ReceiptAppears DEF HasReceipt
<1>4. QED
  BY <1>2, <1>3

\* A worker leaves a job with a receipt behind only when a statement fails.
LEMMA LeftOwn ==
  ASSUME TypeOK, Exclusive, RowInHand, NoReceipt, NEW w \in Workers, OwnStep(w)
  PROVE  Left' \subseteq Left \/ (Spend("db") /\ Left' \subseteq Left \cup {job[w]})
<1> USE DEF TypeOK, LocalTypeOK
<1>1. SUFFICES ASSUME NEW j \in Jobs, j \in Left', j \notin Left
               PROVE  Spend("db") /\ j = job[w]
  BY DEF Left
<1>2. status'[j] # "SENT"
  BY <1>1 DEF Left
<1>3. CASE pc[w] = "idle"
  <2>1. Claim(w)
    BY <1>3 DEF OwnStep, WorkerStep, ProviderAnswers, Fault, Reconcile, Load, TakeSlot, CheckReceipt,
       CheckUncertain, CheckConsent, CreateRow, MarkRowFailed, MarkRowSent, Apply, Abandon, Accept,
       LoseAck, Reject, Misconfigured, HistoryUnknown, DbFails, Heartbeat, Running, Exclusive
  <2>2. PICK i \in Jobs : status[i] = "PENDING" /\ Lock(i) /\ job' = [job EXCEPT ![w] = i]
    BY <2>1 DEF Claim, Claimable, Eligible, Due
  <2>3. UNCHANGED <<row, ctx>> /\ pc' = [pc EXCEPT ![w] = "reconcile"] /\ ctx[w]
    BY <1>3, <2>1 DEF Claim, logVars, Exclusive
  <2>4. \A v \in AtWork : v \in AtWork' /\ job'[v] = job[v] /\ status[job[v]] = "PROCESSING"
    BY <1>3, <2>2, <2>3 DEF AtWork, Exclusive, Holds
  <2>5. CASE HasReceipt(j)' /\ j \notin HeldJobs'
    <3>1. HasReceipt(j) /\ j \notin HeldJobs
      BY <2>3, <2>4, <2>5 DEF HasReceipt, HeldJobs
    <3>2. status[j] # "SENT"
      BY <1>2, <2>2 DEF Lock, QueueTypeOK
    <3>3. QED
      BY <1>1, <3>1, <3>2 DEF Left
  <2>6. CASE \E v \in AtWork' : ~ctx'[v] /\ job'[v] = j
    <3>1. PICK v \in AtWork' : ~ctx'[v] /\ job'[v] = j
      BY <2>6
    <3>2. v # w /\ v \in AtWork /\ job[v] = j /\ ~ctx[v]
      BY <2>2, <2>3, <3>1 DEF AtWork
    <3>3. QED
      BY <1>1, <2>4, <3>2 DEF Left
  <2>7. QED
    BY <1>1, <2>5, <2>6 DEF Left
<1>4. CASE pc[w] # "idle" /\ j # job[w]
  <2>1. Untouched(j) /\ HasReceipt(j)' = HasReceipt(j)
    BY <1>4, OwnJobOnly DEF Untouched, HasReceipt
  <2>2. job'[w] = job[w] \/ pc'[w] = "idle"
    BY <1>4 DEF OwnStep, WorkerStep, ProviderAnswers, Fault, Claim, Reconcile, Load, TakeSlot, CheckReceipt,
       CheckUncertain, CheckConsent, CreateRow, MarkRowFailed, MarkRowSent, Apply, Abandon, Accept,
       LoseAck, Reject, Misconfigured, HistoryUnknown, DbFails, Heartbeat, Goto, Decide, Finish
  <2>3. \A v \in Workers : v # w /\ v \in AtWork => v \in AtWork' /\ job'[v] = job[v]
    BY OthersStill DEF AtWork
  <2>4. j \in HeldJobs => j \in HeldJobs'
    BY <1>4, <2>3 DEF HeldJobs, AtWork
  <2>5. \A v \in AtWork' : job'[v] = j => v \in AtWork /\ job[v] = j /\ ctx[v] = ctx'[v]
    BY <1>4, <2>2, OthersStill DEF AtWork
  <2>6. QED
    BY <1>1, <2>1, <2>4, <2>5 DEF Left, Untouched
<1>5. CASE pc[w] # "idle" /\ j = job[w]
  <2>1. status[j] = "PROCESSING" /\ (HasReceipt(j) => pc[w] = "reconcile" \/ (pc[w] = "apply" /\ verdict[w] = "sent"))
    BY <1>5 DEF Exclusive, Holds, NoReceipt
  <2>2. ctx[w]
    BY <1>1, <1>5, <2>1 DEF Left, AtWork
  <2>3. CASE pc'[w] # "idle"
    <3>1. job'[w] = j
      BY <1>5, <2>3 DEF OwnStep, WorkerStep, ProviderAnswers, Fault, Claim, Reconcile, Load, TakeSlot, CheckReceipt,
       CheckUncertain, CheckConsent, CreateRow, MarkRowFailed, MarkRowSent, Apply, Abandon, Accept,
       LoseAck, Reject, Misconfigured, HistoryUnknown, DbFails, Heartbeat, Goto, Decide, Finish
    <3>2. j \in HeldJobs'
      BY <2>3, <3>1 DEF HeldJobs, AtWork
    <3>3. PICK v \in Workers : v \in AtWork' /\ ~ctx'[v] /\ job'[v] = j
      BY <1>1, <3>2 DEF Left, AtWork
    <3>4. v = w
      BY <1>5, <3>3, OthersStill, DifferentJobs DEF AtWork
    <3>5. ~ctx'[w]
      BY <3>3, <3>4
    <3>6. Heartbeat(w)
      BY <2>2, <3>5 DEF OwnStep, WorkerStep, ProviderAnswers, Fault, Claim, Reconcile, Load, TakeSlot, CheckReceipt,
       CheckUncertain, CheckConsent, CreateRow, MarkRowFailed, MarkRowSent, Apply, Abandon, Accept,
       LoseAck, Reject, Misconfigured, HistoryUnknown, DbFails, Goto, Decide, Finish
    <3>7. QED
      BY <1>5, <2>1, <2>2, <3>5, <3>6 DEF Heartbeat
  <2>4. CASE pc'[w] = "idle"
    <3>1. \A v \in AtWork' : job'[v] # j
      BY <1>5, <2>4, OthersStill, DifferentJobs DEF AtWork
    <3>2. HasReceipt(j)'
      BY <1>1, <3>1 DEF Left
    <3>3. ~MarkRowSent(w)
      BY <2>4 DEF MarkRowSent, Decide
    <3>4. HasReceipt(j)
      BY <3>2, <3>3, ReceiptAppears
    <3>5. CASE pc[w] = "reconcile"
      <4>1. Reconcile(w) \/ DbFails(w)
        BY <2>2, <2>4, <3>5 DEF OwnStep, WorkerStep, ProviderAnswers, Fault, Claim, Load, TakeSlot, CheckReceipt,
           CheckUncertain, CheckConsent, CreateRow, MarkRowFailed, MarkRowSent, Apply, Abandon, Accept,
           LoseAck, Reject, Misconfigured, HistoryUnknown, Heartbeat, Running
      <4>2. ~Reconcile(w)
        BY <1>2, <1>5, <2>1, <3>4 DEF Reconcile, ReconcileReceipt, Closable, Write, QueueTypeOK
      <4>3. QED
        BY <1>5, <4>1, <4>2 DEF DbFails
    <3>6. CASE pc[w] = "apply" /\ verdict[w] = "sent"
      <4>1. Apply(w) \/ DbFails(w)
        BY <2>2, <2>4, <3>6 DEF OwnStep, WorkerStep, ProviderAnswers, Fault, Claim, Reconcile, Load, TakeSlot, CheckReceipt,
           CheckUncertain, CheckConsent, CreateRow, MarkRowFailed, MarkRowSent, Abandon, Accept,
           LoseAck, Reject, Misconfigured, HistoryUnknown, Heartbeat, Running
      <4>2. ~Apply(w)
        BY <1>2, <1>5, <3>6 DEF Apply, MarkSent, Write, QueueTypeOK
      <4>3. QED
        BY <1>5, <4>1, <4>2 DEF DbFails
    <3>7. QED
      BY <2>1, <3>4, <3>5, <3>6
  <2>5. QED
    BY <2>3, <2>4
<1>6. QED
  BY <1>3, <1>4, <1>5

\* A worker clears a job only at the cap's check, or past a check that failed.
LEMMA ClearedOwn ==
  ASSUME TypeOK, Exclusive, RowInHand, NoReceipt, NEW w \in Workers, OwnStep(w)
  PROVE  \/ Cleared' \subseteq Cleared
         \/ Spend("db") /\ Cleared' \subseteq Cleared \cup {job[w]}
         \/ Load(w) /\ ~OverCap
<1> USE DEF TypeOK, LocalTypeOK
<1>1. SUFFICES ASSUME NEW j \in Jobs, j \in Cleared', j \notin Cleared
               PROVE  (Spend("db") /\ j = job[w]) \/ (Load(w) /\ ~OverCap)
  BY DEF Cleared
<1>2. status[j] # "SENT" /\ ~HasReceipt(j) /\ \A v \in Workers : job[v] = j => ~PastLoad(v)
  BY <1>1 DEF Cleared
<1>3. ~(MarkRowSent(w) /\ job[w] = j)
  BY <1>2 DEF MarkRowSent, PastLoad, GatePhases
<1>4. ~HasReceipt(j)'
  BY <1>2, <1>3, ReceiptAppears
<1>5. CASE status'[j] = "SENT"
  <2>1. pc[w] # "idle" /\ job[w] = j
    <3>1. CASE pc[w] # "idle"
      BY <1>2, <1>5, <3>1, OwnJobOnly DEF Untouched
    <3>2. CASE pc[w] = "idle"
      <4>1. \/ UNCHANGED status
            \/ \E i \in Jobs : Lock(i)
        BY <3>2 DEF OwnStep, WorkerStep, ProviderAnswers, Fault, Claim, Reconcile, Load, TakeSlot, CheckReceipt,
           CheckUncertain, CheckConsent, CreateRow, MarkRowFailed, MarkRowSent, Apply, Abandon, Accept,
           LoseAck, Reject, Misconfigured, HistoryUnknown, DbFails, Heartbeat, Running, queueVars
      <4>2. QED
        BY <1>2, <1>5, <4>1 DEF Lock, QueueTypeOK
    <3>3. QED
      BY <3>1, <3>2
  <2>2. ~Apply(w)
    <3>1. SUFFICES ASSUME Apply(w)
                   PROVE  FALSE
      OBVIOUS
    <3>2. verdict[w] # "sent"
      BY <1>2, <2>1, <3>1 DEF Apply, Running, PastLoad
    <3>3. Cancel(j) \/ Defer(j) \/ Fail(j) \/ Retry(j)
      BY <2>1, <3>1, <3>2 DEF Apply, RetryOrFail
    <3>4. QED
      BY <1>2, <1>5, <3>3 DEF Cancel, Defer, Fail, Retry, Write, queueVars, QueueTypeOK
  <2>3. ~Reconcile(w)
    BY <1>2, <1>5, <2>1 DEF Reconcile, ReconcileReceipt, Closable, queueVars
  <2>4. UNCHANGED status
    BY <2>1, <2>2, <2>3 DEF OwnStep, WorkerStep, ProviderAnswers, Fault, Claim, Load, TakeSlot, CheckReceipt,
       CheckUncertain, CheckConsent, CreateRow, MarkRowFailed, MarkRowSent, Abandon, Accept,
       LoseAck, Reject, Misconfigured, HistoryUnknown, DbFails, Heartbeat, RenewLease, queueVars
  <2>5. QED
    BY <1>2, <1>5, <2>4
<1>6. CASE \E v \in Workers : PastLoad(v)' /\ job'[v] = j
  <2>1. PICK v \in Workers : PastLoad(v)' /\ job'[v] = j
    BY <1>6
  <2>2. v = w
    BY <1>2, <2>1, OthersStill DEF PastLoad
  <2>3. pc'[w] \in {"gate", "apply"} \cup GatePhases /\ (pc'[w] = "apply" => verdict'[w] = "sent")
    BY <2>1, <2>2 DEF PastLoad, GatePhases
  <2>4. ~Claim(w) /\ ~Reconcile(w)
    BY <2>3 DEF Claim, Reconcile, Goto, Finish, GatePhases
  <2>5. ~Apply(w) /\ ~Abandon(w)
    BY <2>3 DEF Apply, Abandon, Finish, GatePhases
  <2>6. job[w] = j
    BY <2>1, <2>2, <2>3, <2>4, <2>5 DEF OwnStep, WorkerStep, ProviderAnswers, Fault, Load, TakeSlot, CheckReceipt,
       CheckUncertain, CheckConsent, CreateRow, MarkRowFailed, MarkRowSent, Accept,
       LoseAck, Reject, Misconfigured, HistoryUnknown, DbFails, Heartbeat, Goto, Decide, Finish, GatePhases
  <2>7. ~PastLoad(w)
    BY <1>2, <2>6
  <2>8. ~Heartbeat(w) /\ ~ProviderAnswers(w) /\ ~MarkRowSent(w) /\ ~MarkRowFailed(w) /\ ~CreateRow(w)
    BY <2>3, <2>7 DEF Heartbeat, ProviderAnswers, Accept, LoseAck, Reject, MarkRowSent, MarkRowFailed, CreateRow,
       Running, PastLoad, GatePhases
  <2>9. ~TakeSlot(w) /\ ~CheckReceipt(w) /\ ~CheckUncertain(w) /\ ~CheckConsent(w) /\ ~HistoryUnknown(w)
    BY <2>7 DEF TakeSlot, CheckReceipt, CheckUncertain, CheckConsent, HistoryUnknown, Running, PastLoad, GatePhases
  <2>10. ~Misconfigured(w)
    BY <2>3 DEF Misconfigured, Decide, GatePhases
  <2>11. CASE DbFails(w)
    BY <2>6, <2>11 DEF DbFails
  <2>12. CASE Load(w)
    <3>1. Ruling(job[w]) = "none"
      BY <2>3, <2>12 DEF Load, Ruling, Decide, GatePhases
    <3>2. QED
      BY <2>12, <3>1 DEF Ruling
  <2>13. QED
    BY <2>4, <2>5, <2>8, <2>9, <2>10, <2>11, <2>12 DEF OwnStep, WorkerStep, Fault
<1>7. QED
  BY <1>1, <1>4, <1>5, <1>6 DEF Cleared

\* A set that gains at most n elements.
LEMMA Growth ==
  ASSUME NEW A, NEW B, NEW X, NEW k \in Int, NEW n \in Nat,
         IsFiniteSet(A), Cardinality(A) <= k, IsFiniteSet(X), Cardinality(X) <= n,
         B \subseteq A \cup X
  PROVE  IsFiniteSet(B) /\ Cardinality(B) <= k + n
<1>1. /\ IsFiniteSet(A \cup X)
      /\ Cardinality(A \cup X) = Cardinality(A) + Cardinality(X) - Cardinality(A \cap X)
  BY FS_Union
<1>2. IsFiniteSet(A \cap X)
  BY FS_Intersection
<1>3. Cardinality(A) \in Nat /\ Cardinality(X) \in Nat /\ Cardinality(A \cap X) \in Nat
  BY <1>2, FS_CardinalityType
<1>4. Cardinality(A \cup X) <= k + n
  BY <1>1, <1>3
<1>5. IsFiniteSet(B) /\ Cardinality(B) <= Cardinality(A \cup X)
  BY <1>1, FS_Subset
<1>6. Cardinality(B) \in Nat /\ Cardinality(A \cup X) \in Nat
  BY <1>1, <1>5, FS_CardinalityType
<1>7. QED
  BY <1>4, <1>5, <1>6

\* The step that passes the cap's check counts every job the check did not see.
LEMMA ClearedAtLoad ==
  ASSUME TypeOK, Exclusive, CapBound, NEW w \in Workers, Load(w), ~OverCap
  PROVE  IsFiniteSet(Cleared') /\ Cardinality(Cleared') <= Cap + (InFlight - 1) + Slack
<1> DEFINE X == HeldJobs \cup Left
<1>1. Cleared' \subseteq SentJobs \cup X
  <2>1. SUFFICES ASSUME NEW j \in Jobs, j \in Cleared', status[j] # "SENT", j \notin HeldJobs
                 PROVE  j \in Left
    BY DEF Cleared, SentJobs
  <2>2. \A v \in Workers : pc'[v] # "idle" => pc[v] # "idle" /\ job'[v] = job[v]
    BY DEF Load, Running, Goto, Decide, TypeOK, LocalTypeOK
  <2>3. ASSUME NEW v \in Workers, PastLoad(v)', job'[v] = j
        PROVE  FALSE
    <3>1. pc'[v] # "idle"
      BY <2>3 DEF PastLoad, GatePhases
    <3>2. QED
      BY <2>1, <2>2, <2>3, <3>1 DEF HeldJobs, AtWork
  <2>4. UNCHANGED <<status, row>>
    BY DEF Load, queueVars, logVars
  <2>5. HasReceipt(j)
    BY <2>1, <2>3, <2>4 DEF Cleared, HasReceipt
  <2>6. QED
    BY <2>1, <2>5 DEF Left
<1>2. IsFiniteSet(SentJobs) /\ Cardinality(SentJobs) <= Cap - 1
  <2>1. IsFiniteSet(SentJobs)
    BY FS_Subset DEF CapBound, SentJobs, Cleared
  <2>2. Cardinality(SentJobs) \in Nat
    BY <2>1, FS_CardinalityType
  <2>3. QED
    BY <2>1, <2>2, DeliveryAssumption DEF OverCap
<1>3. IsFiniteSet(HeldJobs) /\ Cardinality(HeldJobs) <= InFlight
  BY HeldBound
<1>4. IsFiniteSet(Left) /\ Cardinality(Left) <= Slack
  BY DEF CapBound
<1>5. Slack \in Nat /\ InFlight \in Nat /\ Cap \in Nat
  <2>1. spent["crash"] \in Nat /\ spent["db"] \in Nat /\ InFlight \in Nat
    BY InFlightType DEF TypeOK, WorldTypeOK, Kinds
  <2>2. \A a, b, c \in Nat : a * b + c \in Nat
    OBVIOUS
  <2>3. QED
    BY <2>1, <2>2, DeliveryAssumption, Zenon DEF Slack
<1>6. /\ IsFiniteSet(X) /\ Cardinality(X) <= InFlight + Slack
  <2>1. /\ IsFiniteSet(X)
        /\ Cardinality(X) = Cardinality(HeldJobs) + Cardinality(Left) - Cardinality(HeldJobs \cap Left)
    BY <1>3, <1>4, FS_Union
  <2>2. IsFiniteSet(HeldJobs \cap Left)
    BY <1>3, FS_Intersection
  <2>3. /\ Cardinality(HeldJobs) \in Nat /\ Cardinality(Left) \in Nat
        /\ Cardinality(HeldJobs \cap Left) \in Nat
    BY <1>3, <1>4, <2>2, FS_CardinalityType
  <2>4. QED
    BY <1>3, <1>4, <1>5, <2>1, <2>3
<1> HIDE DEF X
<1>7. /\ IsFiniteSet(SentJobs \cup X)
      /\ Cardinality(SentJobs \cup X) = Cardinality(SentJobs) + Cardinality(X) - Cardinality(SentJobs \cap X)
  BY <1>2, <1>6, FS_Union
<1>8. IsFiniteSet(SentJobs \cap X)
  BY <1>2, FS_Intersection
<1>9. /\ Cardinality(SentJobs) \in Nat /\ Cardinality(X) \in Nat /\ Cardinality(SentJobs \cap X) \in Nat
  BY <1>2, <1>6, <1>8, FS_CardinalityType
<1>10. Cardinality(SentJobs \cup X) <= Cap + (InFlight - 1) + Slack
  BY <1>2, <1>5, <1>6, <1>7, <1>9
<1>11. IsFiniteSet(Cleared') /\ Cardinality(Cleared') <= Cardinality(SentJobs \cup X)
  BY <1>1, <1>7, FS_Subset
<1>12. Cardinality(Cleared') \in Nat /\ Cardinality(SentJobs \cup X) \in Nat
  BY <1>7, <1>11, FS_CardinalityType
<1>13. QED
  BY <1>5, <1>10, <1>11, <1>12

\* Every step keeps the jobs cleared, and those left behind, within their bounds.
LEMMA CapNext == TypeOK /\ HeldInv /\ RowInv /\ CapInv /\ [Next]_vars => CapInv'
<1>1. SUFFICES ASSUME TypeOK, Exclusive, Undisturbed, RowInHand, CapBound, Quiet', [Next]_vars
               PROVE  CapBound'
  BY QuietBefore DEF HeldInv, RowInv, CapInv
<1> USE <1>1
<1> DEFINE b == Cap + (InFlight - 1)
<1>2. /\ Slack \in Nat /\ Slack' \in Nat /\ Slack <= Slack'
      /\ Spend("db") => Slack' = Slack + 1
      /\ Spend("crash") => Slack' = Slack + InFlight
  BY SlackGrows
<1>3. InFlight \in Nat /\ b \in Int /\ InFlight' = InFlight
  BY InFlightType, DeliveryAssumption DEF InFlight
<1>4. ASSUME NEW X, IsFiniteSet(X), NEW n \in Nat, Cardinality(X) <= n, Slack + n <= Slack',
             NoReceipt', Left' \subseteq Left \cup X, Cleared' \subseteq Cleared \cup X
      PROVE  CapBound'
  <2>1. /\ IsFiniteSet(Left) /\ Cardinality(Left) <= Slack
        /\ IsFiniteSet(Cleared) /\ Cardinality(Cleared) <= b + Slack
    BY DEF CapBound
  <2> HIDE DEF b
  <2>2. /\ IsFiniteSet(Left') /\ Cardinality(Left') <= Slack'
        /\ IsFiniteSet(Cleared') /\ Cardinality(Cleared') <= b + Slack'
    <3>1. Slack \in Int /\ b + Slack \in Int /\ Slack' \in Nat
      BY <1>2, <1>3 DEF b
    <3>2. IsFiniteSet(Left') /\ Cardinality(Left') <= Slack + n
      BY <1>4, <2>1, <3>1, Growth
    <3>3. IsFiniteSet(Cleared') /\ Cardinality(Cleared') <= (b + Slack) + n
      BY <1>4, <2>1, <3>1, Growth
    <3>4. Cardinality(Left') \in Nat /\ Cardinality(Cleared') \in Nat
      BY <3>2, <3>3, FS_CardinalityType
    <3>5. Slack + n <= Slack' /\ n \in Nat
      BY <1>4
    <3>6. Cardinality(Left') <= Slack'
      BY <1>2, <3>2, <3>4, <3>5
    <3>7. Cardinality(Cleared') <= b + Slack'
      BY <1>2, <1>3, <3>3, <3>4, <3>5 DEF b
    <3>8. QED
      BY <3>2, <3>3, <3>6, <3>7
  <2>3. QED
    BY <1>3, <1>4, <2>2 DEF CapBound, b
<1>5. ASSUME NoReceipt', Left' \subseteq Left, Cleared' \subseteq Cleared
      PROVE  CapBound'
  <2>1. IsFiniteSet({}) /\ Cardinality({}) <= 0
    BY FS_EmptySet
  <2>2. Slack + 0 <= Slack' /\ Left' \subseteq Left \cup {} /\ Cleared' \subseteq Cleared \cup {}
    BY <1>2, <1>5
  <2>3. QED
    BY <1>4, <1>5, <2>1, <2>2
<1>6. CASE \E w \in Workers : OwnStep(w)
  <2>1. PICK w \in Workers : OwnStep(w)
    BY <1>6
  <2>2. NoReceipt'
    BY <2>1, NoReceiptOwn DEF CapBound
  <2>3. CASE Spend("db") /\ Left' \subseteq Left \cup {job[w]} /\ Cleared' \subseteq Cleared \cup {job[w]}
    <3>1. IsFiniteSet({job[w]}) /\ Cardinality({job[w]}) <= 1
      <4>1. IsFiniteSet({job[w]}) /\ Cardinality({job[w]}) = 1
        BY FS_Singleton, Zenon
      <4>2. QED
        BY <4>1
    <3>2. Slack + 1 <= Slack'
      BY <1>2, <2>3
    <3>3. QED
      BY <1>4, <2>2, <2>3, <3>1, <3>2
  <2>4. CASE Load(w) /\ ~OverCap
    <3>1. IsFiniteSet(Cleared') /\ Cardinality(Cleared') <= b + Slack
      BY <2>4, ClearedAtLoad
    <3>2. UNCHANGED <<status, row, ctx, job, spent>> /\ AtWork' = AtWork
      BY <2>4 DEF Load, Running, Goto, Decide, AtWork, queueVars, logVars, TypeOK, LocalTypeOK
    <3>3. Left' = Left /\ Slack' = Slack
      BY <3>2, <1>3 DEF Left, HeldJobs, HasReceipt, Slack
    <3>4. QED
      BY <1>3, <2>2, <3>1, <3>3 DEF CapBound
  <2>5. QED
    BY <1>5, <2>1, <2>2, <2>3, <2>4, LeftOwn, ClearedOwn DEF CapBound
<1>7. CASE WorldStep
  <2>1. UNCHANGED <<logVars, localVars>>
    BY <1>7, QuietWorld
  <2>2. \A j \in Jobs : status'[j] = "SENT" <=> status[j] = "SENT"
    BY <1>7, QuietWorld
  <2>3. NoReceipt'
    BY <2>1 DEF CapBound, NoReceipt, HasReceipt, logVars, localVars
  <2>4. Left' \subseteq Left
    BY <2>1, <2>2 DEF Left, HeldJobs, AtWork, HasReceipt, logVars, localVars
  <2>5. Cleared' \subseteq Cleared
    BY <2>1, <2>2 DEF Cleared, PastLoad, HasReceipt, logVars, localVars
  <2>6. QED
    BY <1>5, <2>3, <2>4, <2>5
<1>8. CASE Crash
  <2>1. Spend("crash") /\ UNCHANGED <<status, row>> /\ \A v \in Workers : pc'[v] = "idle"
    BY <1>8 DEF Crash, Finish, queueVars
  <2>2. NoReceipt'
    BY <2>1 DEF NoReceipt
  <2>3. Left' \subseteq Left \cup HeldJobs
    BY <2>1 DEF Left, AtWork, HasReceipt
  <2>4. Cleared' \subseteq Cleared \cup HeldJobs
    BY <2>1 DEF Cleared, PastLoad, HasReceipt, GatePhases
  <2>5. Slack + InFlight <= Slack'
    BY <1>2, <1>3, <2>1
  <2>6. QED
    BY <1>3, <1>4, <2>2, <2>3, <2>4, <2>5, HeldBound
<1>9. CASE UNCHANGED vars
  <2>1. NoReceipt' /\ Left' \subseteq Left /\ Cleared' \subseteq Cleared
    BY <1>9 DEF CapBound, vars, queueVars, logVars, localVars, NoReceipt, Left, Cleared, HeldJobs, AtWork,
       PastLoad, HasReceipt
  <2>2. QED
    BY <1>5, <2>1
<1>10. QED
  BY <1>6, <1>7, <1>8, <1>9, StepKinds

\* As long as nothing interferes, the cap is overrun by no more than the other
\* jobs in flight when it is read, and the receipts a disturbance left behind.
THEOREM CapOverrunWhileQuiet == Spec => [](Quiet => CapOverrunBounded)
<1>1. Init => CapInv
  <2>1. SUFFICES ASSUME Init PROVE CapBound
    BY DEF CapInv
  <2>2. Left = {} /\ Cleared = {}
    BY <2>1 DEF Init, QueueInit, LogInit, Left, Cleared, HasReceipt, AtWork, PastLoad, GatePhases
  <2>3. NoReceipt
    BY <2>1 DEF Init, NoReceipt
  <2>4. spent["crash"] = 0 /\ spent["db"] = 0
    BY <2>1 DEF Init, Kinds
  <2>5. InFlight \in Nat /\ 1 <= InFlight /\ Cap \in Nat
    BY InFlightType, DeliveryAssumption
  <2>6. \A i \in Nat : i * 0 + 0 = 0
    OBVIOUS
  <2>7. Slack = 0
    BY <2>4, <2>5, <2>6, Zenon DEF Slack
  <2>8. QED
    BY <2>2, <2>3, <2>5, <2>7, FS_EmptySet DEF CapBound
<1>2. TypeOK /\ HeldInv /\ RowInv /\ CapInv /\ [Next]_vars => CapInv'
  BY CapNext
<1>3. TypeOK /\ CapInv => (Quiet => CapOverrunBounded)
  <2>1. SUFFICES ASSUME TypeOK, CapBound
                 PROVE  Cardinality(SentJobs) <= Cap + (InFlight - 1) + Slack
    <3>1. \A c, i, p, d, n \in Int : n <= c + (i - 1) + (p + d) => n <= c + (i - 1) + p + d
      OBVIOUS
    <3>2. ASSUME TypeOK, CapBound, Cardinality(SentJobs) <= Cap + (InFlight - 1) + Slack
          PROVE  CapOverrunBounded
      <4>1. /\ InFlight * spent["crash"] \in Int /\ spent["db"] \in Int /\ InFlight \in Int /\ Cap \in Int
        <5>1. spent["crash"] \in Nat /\ spent["db"] \in Nat
          BY <3>2 DEF TypeOK, WorldTypeOK, Kinds
        <5>2. \A x, y \in Nat : x * y \in Int
          OBVIOUS
        <5>3. QED
          BY <5>1, <5>2, InFlightType, DeliveryAssumption
      <4>2. Cardinality(SentJobs) \in Int
        <5>1. IsFiniteSet(SentJobs)
          BY <3>2, FS_Subset DEF CapBound, SentJobs, Cleared
        <5>2. QED
          BY <5>1, FS_CardinalityType
      <4>3. Cardinality(SentJobs) <= Cap + (InFlight - 1) + InFlight * spent["crash"] + spent["db"]
        BY <3>1, <3>2, <4>1, <4>2, Zenon DEF Slack
      <4>4. QED
        BY <4>3, Zenon DEF CapOverrunBounded, InFlight
    <3>3. QED
      BY <3>2 DEF CapInv
  <2>2. IsFiniteSet(Cleared) /\ SentJobs \subseteq Cleared
    BY <2>1 DEF CapBound, SentJobs, Cleared
  <2>3. IsFiniteSet(SentJobs) /\ Cardinality(SentJobs) <= Cardinality(Cleared)
    BY <2>2, FS_Subset
  <2>4. Cardinality(SentJobs) \in Nat /\ Cardinality(Cleared) \in Nat
    BY <2>2, <2>3, FS_CardinalityType
  <2>5. Cap + (InFlight - 1) + Slack \in Int
    <3>1. spent["crash"] \in Nat /\ spent["db"] \in Nat
      BY <2>1 DEF TypeOK, WorldTypeOK, Kinds
    <3>2. \A x, y, z, c \in Nat : c + (x - 1) + (x * y + z) \in Int
      OBVIOUS
    <3>3. QED
      BY <3>1, <3>2, InFlightType, DeliveryAssumption, Zenon DEF Slack
  <2>6. QED
    BY <2>1, <2>3, <2>4, <2>5 DEF CapBound
<1>4. QED
  BY <1>1, <1>2, <1>3, TypeCorrect, HeldInvariant, RowInvariant, PTL DEF Spec

-----------------------------------------------------------------------------
(***************************************************************************)
(* Copies after a STOP, for any number of slots, disturbed or not.            *)
(*                                                                           *)
(* Once a contact's STOP is recorded no worker passes the consent check for   *)
(* it: the copies still to come are those of the workers past the check, and  *)
(* those are in the gate.                                                     *)
(***************************************************************************)
LateOf(c) == {p \in late : ContactOf[p[1]] = c}

Committed(c) == {w \in Workers : pc[w] \in {"create", "deliver"} /\ ContactOf[job[w]] = c}

LateBound(c) ==
  IF c \in optedOut
  THEN IsFiniteSet(LateOf(c)) /\ Cardinality(LateOf(c)) + Cardinality(Committed(c)) <= Slots
  ELSE LateOf(c) = {}

LateInv == Cardinality(InGate) <= Slots /\ \A c \in Contacts : LateBound(c)

\* The workers past the consent check are in the gate.
LEMMA CommittedInGate ==
  ASSUME NEW c
  PROVE  /\ IsFiniteSet(InGate) /\ Cardinality(InGate) \in Nat
         /\ IsFiniteSet(Committed(c)) /\ Cardinality(Committed(c)) \in Nat
         /\ Cardinality(Committed(c)) <= Cardinality(InGate)
<1>1. IsFiniteSet(InGate)
  BY DeliveryAssumption, FS_Subset DEF InGate
<1>2. Committed(c) \subseteq InGate
  BY DEF Committed, InGate, GatePhases
<1>3. QED
  BY <1>1, <1>2, FS_Subset, FS_CardinalityType

\* The bound survives a step after which fewer workers are committed, or one that
\* turns committed workers into as many late copies.
LEMMA LateKept ==
  ASSUME NEW c \in Contacts, c \in optedOut, c \in optedOut', LateBound(c),
         NEW X, NEW n \in Nat, IsFiniteSet(X), Cardinality(X) <= n,
         LateOf(c)' \subseteq LateOf(c) \cup X,
         IsFiniteSet(Committed(c)'), Cardinality(Committed(c)') + n <= Cardinality(Committed(c))
  PROVE  LateBound(c)'
<1>1. Cardinality(LateOf(c)) \in Nat /\ Cardinality(Committed(c)) \in Nat /\ Cardinality(Committed(c)') \in Nat
  BY CommittedInGate, FS_CardinalityType DEF LateBound
<1>2. IsFiniteSet(LateOf(c)')  /\ Cardinality(LateOf(c)') <= Cardinality(LateOf(c)) + n
  <2>1. IsFiniteSet(LateOf(c)) /\ Cardinality(LateOf(c)) \in Int
    BY <1>1 DEF LateBound
  <2>2. Cardinality(LateOf(c)) <= Cardinality(LateOf(c))
    BY <2>1
  <2>3. QED
    BY <2>1, <2>2, Growth
<1>3. Cardinality(LateOf(c)') \in Nat
  BY <1>2, FS_CardinalityType
<1>4. Cardinality(LateOf(c)) + Cardinality(Committed(c)) <= Slots /\ Slots \in Nat
  BY DeliveryAssumption DEF LateBound
<1>5. Cardinality(LateOf(c)') + Cardinality(Committed(c)') <= Slots
  BY <1>1, <1>2, <1>3, <1>4
<1>6. QED
  BY <1>2, <1>5 DEF LateBound

\* A worker becomes committed only at the consent check, and leaves a late copy
\* only on its way out of the request.
LEMMA LateOwn ==
  ASSUME TypeOK, NEW w \in Workers, OwnStep(w), NEW c \in Contacts
  PROVE  /\ optedOut' = optedOut
         /\ \/ LateOf(c)' = LateOf(c) /\ (c \in optedOut => Committed(c)' \subseteq Committed(c))
            \/ /\ c \in optedOut /\ w \in Committed(c)
               /\ Committed(c)' \subseteq Committed(c) \ {w}
               /\ LateOf(c)' \subseteq LateOf(c) \cup {<<job[w], cur[w]>>}
<1> USE DEF TypeOK, LocalTypeOK
<1>1. optedOut' = optedOut
  BY DEF OwnStep, WorkerStep, ProviderAnswers, Fault, Claim, Reconcile, Load, TakeSlot, CheckReceipt,
     CheckUncertain, CheckConsent, CreateRow, MarkRowFailed, MarkRowSent, Apply, Abandon, Accept,
     LoseAck, Reject, Misconfigured, HistoryUnknown, DbFails, Heartbeat, worldVars
<1>2. CASE pc[w] = "deliver" /\ Arrive(job[w], cur[w]) /\ pc'[w] \notin {"create", "deliver"}
  <2>1. Committed(c)' \subseteq Committed(c) \ {w}
    BY <1>2, OthersStill DEF Committed
  <2>2. CASE c = ContactOf[job[w]] /\ c \in optedOut
    BY <1>1, <1>2, <2>1, <2>2 DEF Arrive, LateOf, Committed
  <2>3. CASE ~(c = ContactOf[job[w]] /\ c \in optedOut)
    <3>1. LateOf(c)' = LateOf(c)
      BY <1>2, <2>3 DEF Arrive, LateOf
    <3>2. QED
      BY <1>1, <2>1, <3>1
  <2>4. QED
    BY <2>2, <2>3
<1>3. CASE UNCHANGED late
  <2>1. LateOf(c)' = LateOf(c)
    BY <1>3 DEF LateOf
  <2>2. c \in optedOut /\ pc'[w] \in {"create", "deliver"} /\ ContactOf[job'[w]] = c
           => pc[w] \in {"create", "deliver"} /\ job'[w] = job[w]
    BY DEF OwnStep, WorkerStep, ProviderAnswers, Fault, Claim, Reconcile, Load, TakeSlot, CheckReceipt,
       CheckUncertain, CheckConsent, Unwanted, CreateRow, MarkRowFailed, MarkRowSent, Apply, Abandon,
       Accept, LoseAck, Reject, Misconfigured, HistoryUnknown, DbFails, Heartbeat, Running, Goto, Decide,
       Finish
  <2>3. c \in optedOut => Committed(c)' \subseteq Committed(c)
    BY <2>2, OthersStill DEF Committed
  <2>4. QED
    BY <1>1, <2>1, <2>3
<1>4. QED
  <2>1. CASE Accept(w) \/ LoseAck(w)
    BY <1>2, <2>1 DEF Accept, LoseAck, Goto, Decide
  <2>2. CASE Abandon(w)
    BY <1>2, <1>3, <2>2 DEF Abandon, Finish
  <2>3. QED
    BY <1>3, <2>1, <2>2 DEF OwnStep, WorkerStep, ProviderAnswers, Fault, Claim, Reconcile, Load, TakeSlot, CheckReceipt,
       CheckUncertain, CheckConsent, CreateRow, MarkRowFailed, MarkRowSent, Apply,
       Reject, Misconfigured, HistoryUnknown, DbFails, Heartbeat

\* A worker enters the gate only when there is a slot.
LEMMA SlotsOwn ==
  ASSUME TypeOK, Cardinality(InGate) <= Slots, NEW w \in Workers, OwnStep(w)
  PROVE  Cardinality(InGate') <= Slots
<1> USE DEF TypeOK, LocalTypeOK
<1>1. Cardinality(InGate) \in Nat /\ IsFiniteSet(InGate) /\ Slots \in Nat
  BY CommittedInGate, DeliveryAssumption
<1>2. CASE TakeSlot(w)
  <2>1. InGate' = InGate \cup {w}
    BY <1>2 DEF TakeSlot, Goto, InGate, GatePhases
  <2>2. Cardinality(InGate) < Slots
    BY <1>2 DEF TakeSlot
  <2>3. Cardinality(InGate \cup {w}) = Cardinality(InGate) \/ Cardinality(InGate \cup {w}) = Cardinality(InGate) + 1
    BY <1>1, FS_AddElement
  <2>4. QED
    BY <1>1, <2>1, <2>2, <2>3
<1>3. CASE ~TakeSlot(w)
  <2>1. pc'[w] \in GatePhases => pc[w] \in GatePhases
    BY <1>3 DEF OwnStep, WorkerStep, ProviderAnswers, Fault, Claim, Reconcile, Load, CheckReceipt,
       CheckUncertain, CheckConsent, CreateRow, MarkRowFailed, MarkRowSent, Apply, Abandon,
       Accept, LoseAck, Reject, Misconfigured, HistoryUnknown, DbFails, Heartbeat, Running, Goto, Decide,
       Finish, GatePhases
  <2>2. InGate' \subseteq InGate
    BY <2>1, OthersStill DEF InGate
  <2>3. Cardinality(InGate') <= Cardinality(InGate) /\ IsFiniteSet(InGate')
    BY <1>1, <2>2, FS_Subset
  <2>4. Cardinality(InGate') \in Nat
    BY <2>3, FS_CardinalityType
  <2>5. QED
    BY <1>1, <2>3, <2>4
<1>4. QED
  BY <1>2, <1>3

\* Every step keeps the late copies within the slots.
LEMMA LateNext == TypeOK /\ LateInv /\ [Next]_vars => LateInv'
<1>1. SUFFICES ASSUME TypeOK, LateInv, [Next]_vars
               PROVE  LateInv'
  OBVIOUS
<1> USE <1>1
<1>2. CASE \E w \in Workers : OwnStep(w)
  <2>1. PICK w \in Workers : OwnStep(w)
    BY <1>2
  <2>2. Cardinality(InGate') <= Slots
    BY <2>1, SlotsOwn DEF LateInv
  <2>3. ASSUME NEW c \in Contacts
        PROVE  LateBound(c)'
    <3>1. LateBound(c)
      BY DEF LateInv
    <3>2. CASE c \notin optedOut
      BY <2>1, <3>1, <3>2, LateOwn DEF LateBound
    <3>3. CASE c \in optedOut /\ LateOf(c)' = LateOf(c) /\ Committed(c)' \subseteq Committed(c)
      <4>1. /\ IsFiniteSet(Committed(c)') /\ Cardinality(Committed(c)') <= Cardinality(Committed(c))
            /\ Cardinality(Committed(c)') \in Nat
        BY <3>3, CommittedInGate, FS_Subset, FS_CardinalityType
      <4>2. Cardinality(Committed(c)') + 0 <= Cardinality(Committed(c))
        BY <4>1
      <4>3. IsFiniteSet({}) /\ Cardinality({}) <= 0 /\ LateOf(c)' \subseteq LateOf(c) \cup {} /\ c \in optedOut'
        BY <2>1, <3>3, LateOwn, FS_EmptySet
      <4>4. QED
        BY <3>1, <3>3, <4>1, <4>2, <4>3, LateKept
    <3>4. CASE /\ c \in optedOut /\ w \in Committed(c)
               /\ Committed(c)' \subseteq Committed(c) \ {w}
               /\ LateOf(c)' \subseteq LateOf(c) \cup {<<job[w], cur[w]>>}
      <4>1. IsFiniteSet(Committed(c)) /\ Cardinality(Committed(c)) \in Nat
        BY CommittedInGate
      <4>2. /\ IsFiniteSet(Committed(c) \ {w})
            /\ Cardinality(Committed(c) \ {w}) = Cardinality(Committed(c)) - 1
        BY <3>4, <4>1, FS_RemoveElement
      <4>3. /\ IsFiniteSet(Committed(c)') /\ Cardinality(Committed(c)') <= Cardinality(Committed(c) \ {w})
        BY <3>4, <4>2, FS_Subset
      <4>4. Cardinality(Committed(c)') \in Nat
        BY <4>3, FS_CardinalityType
      <4>5. Cardinality(Committed(c)') + 1 <= Cardinality(Committed(c))
        BY <4>1, <4>2, <4>3, <4>4
      <4>6. IsFiniteSet({<<job[w], cur[w]>>}) /\ Cardinality({<<job[w], cur[w]>>}) <= 1
        <5>1. IsFiniteSet({<<job[w], cur[w]>>}) /\ Cardinality({<<job[w], cur[w]>>}) = 1
          BY FS_Singleton, Zenon
        <5>2. QED
          BY <5>1
      <4>7. c \in optedOut'
        BY <2>1, <3>4, LateOwn
      <4>8. QED
        BY <3>1, <3>4, <4>3, <4>5, <4>6, <4>7, LateKept
    <3>5. QED
      BY <2>1, <3>2, <3>3, <3>4, LateOwn
  <2>4. QED
    BY <2>2, <2>3 DEF LateInv
<1>3. CASE WorldStep \/ UNCHANGED vars
  <2>1. UNCHANGED <<localVars, late>> /\ (UNCHANGED optedOut \/ \E c \in Contacts : OptOut(c))
    BY <1>3 DEF WorldStep, Lapse, BackoffElapses, CancelJob, RequeueJob, OptOut, StopEnrollments,
       AnswerByHand, ReleaseStale, CancelStale, Tick, Pause, Activate, Close, vars, worldVars
  <2>2. /\ InGate' = InGate
        /\ \A c : Committed(c)' = Committed(c) /\ LateOf(c)' = LateOf(c)
    BY <2>1 DEF InGate, Committed, LateOf, localVars
  <2>3. CASE UNCHANGED optedOut
    BY <2>2, <2>3 DEF LateInv, LateBound
  <2>4. CASE \E c \in Contacts : OptOut(c)
    <3>1. PICK d \in Contacts : d \notin optedOut /\ optedOut' = optedOut \cup {d}
      BY <2>4 DEF OptOut
    <3>2. LateBound(d)'
      <4>1. LateOf(d)' = {} /\ d \in optedOut'
        BY <2>2, <3>1 DEF LateInv, LateBound
      <4>2. IsFiniteSet({}) /\ Cardinality({}) = 0
        BY FS_EmptySet
      <4>3. Cardinality(Committed(d)) <= Slots
        BY CommittedInGate, DeliveryAssumption DEF LateInv
      <4>4. Cardinality(Committed(d)) \in Nat
        BY CommittedInGate
      <4>5. Cardinality(LateOf(d)') + Cardinality(Committed(d)') <= Slots
        BY <2>2, <4>1, <4>2, <4>3, <4>4
      <4>6. QED
        BY <4>1, <4>2, <4>5 DEF LateBound
    <3>3. \A c \in Contacts \ {d} : LateBound(c)'
      BY <2>2, <3>1 DEF LateInv, LateBound
    <3>4. QED
      BY <2>2, <3>2, <3>3 DEF LateInv
  <2>5. QED
    BY <2>1, <2>3, <2>4
<1>4. CASE Crash
  <2>1. /\ UNCHANGED optedOut /\ \A w \in Workers : pc'[w] = "idle"
        /\ late' \subseteq late \cup {p \in OnWire : ContactOf[p[1]] \in optedOut}
    BY <1>4 DEF Crash, Finish, worldVars
  <2>2. InGate' = {} /\ \A c : Committed(c)' = {}
    BY <2>1 DEF InGate, Committed, GatePhases
  <2>3. ASSUME NEW c \in Contacts
        PROVE  LateBound(c)'
    <3>1. LateBound(c)
      BY DEF LateInv
    <3>2. CASE c \notin optedOut
      BY <2>1, <3>1, <3>2 DEF LateBound, LateOf
    <3>3. CASE c \in optedOut
      <4> DEFINE X == {<<job[w], cur[w]>> : w \in Committed(c)}
                 n == Cardinality(Committed(c))
      <4>1. LateOf(c)' \subseteq LateOf(c) \cup X
        BY <2>1 DEF LateOf, OnWire, Committed
      <4>2. IsFiniteSet(X) /\ Cardinality(X) <= n /\ n \in Nat
        <5>1. IsFiniteSet(Committed(c)) /\ n \in Nat
          BY CommittedInGate
        <5> DEFINE f == [w \in Committed(c) |-> <<job[w], cur[w]>>]
        <5>2. f \in Surjection(Committed(c), X)
          BY DEF Surjection
        <5>3. QED
          BY <5>1, <5>2, FS_Surjection
      <4>3. IsFiniteSet(Committed(c)') /\ Cardinality(Committed(c)') + n <= Cardinality(Committed(c))
        <5>1. IsFiniteSet({}) /\ Cardinality({}) = 0
          BY FS_EmptySet
        <5>2. 0 + n <= n
          BY <4>2
        <5>3. QED
          BY <2>2, <5>1, <5>2
      <4>4. c \in optedOut'
        BY <2>1, <3>3
      <4> HIDE DEF X, n
      <4>5. QED
        BY <3>1, <3>3, <4>1, <4>2, <4>3, <4>4, LateKept
    <3>4. QED
      BY <3>2, <3>3
  <2>4. Cardinality(InGate') <= Slots
    BY <2>2, FS_EmptySet, DeliveryAssumption
  <2>5. QED
    BY <2>3, <2>4 DEF LateInv
<1>5. QED
  BY <1>2, <1>3, <1>4, StepKinds

\* After a STOP is recorded at most as many copies reach the contact as the gate
\* has slots, whatever lapses, fails or interferes.
THEOREM LateCopiesBounded == Spec => []NoLateCopies
<1>1. Init => LateInv
  <2>1. SUFFICES ASSUME Init PROVE LateInv
    OBVIOUS
  <2>2. InGate = {} /\ \A c \in Contacts : LateOf(c) = {} /\ c \notin optedOut
    BY <2>1 DEF Init, InGate, GatePhases, LateOf
  <2>3. QED
    BY <2>2, FS_EmptySet, DeliveryAssumption DEF LateInv, LateBound
<1>2. TypeOK /\ LateInv /\ [Next]_vars => LateInv'
  BY LateNext
<1>3. LateInv => NoLateCopies
  <2>1. SUFFICES ASSUME NEW c \in Contacts, LateBound(c)
                 PROVE  Cardinality(LateOf(c)) <= Slots
    BY DEF LateInv, NoLateCopies, LateOf
  <2>2. CASE c \in optedOut
    <3>1. Cardinality(LateOf(c)) \in Nat /\ Cardinality(Committed(c)) \in Nat
      BY <2>1, <2>2, CommittedInGate, FS_CardinalityType DEF LateBound
    <3>2. QED
      BY <2>1, <2>2, <3>1, DeliveryAssumption DEF LateBound
  <2>3. CASE c \notin optedOut
    BY <2>1, <2>3, FS_EmptySet, DeliveryAssumption DEF LateBound
  <2>4. QED
    BY <2>2, <2>3
<1>4. QED
  BY <1>1, <1>2, <1>3, TypeCorrect, PTL DEF Spec

-----------------------------------------------------------------------------
(***************************************************************************)
(* The copies, with any number of slots.                                      *)
(*                                                                           *)
(* With more than one slot the gate no longer keeps two workers apart; the    *)
(* claim does, for one job, as long as nobody's job is taken away from him.   *)
(***************************************************************************)
CopyWhileQuiet == Quiet => CopyInv

\* What the claim guarantees is what the copies need.
LEMMA HoldersApart ==
  ASSUME TypeOK, Exclusive
  PROVE  OneSlotOrHolder
<1>1. \A v, w \in Workers : v # w /\ pc[v] # "idle" /\ pc[w] # "idle" => job[v] # job[w]
  BY DifferentJobs
<1>2. QED
  BY <1>1 DEF OneSlotOrHolder

\* While nothing interferes every step keeps the invariant of the copies.
LEMMA CopyWhileQuietNext == TypeOK /\ HeldInv /\ CopyWhileQuiet /\ [Next]_vars => CopyWhileQuiet'
<1>1. SUFFICES ASSUME TypeOK, HeldInv, CopyWhileQuiet, [Next]_vars, Quiet'
               PROVE  CopyInv'
  BY DEF CopyWhileQuiet
<1>2. Quiet
  BY <1>1, QuietBefore
<1>3. OneSlotOrHolder /\ CopyInv
  BY <1>1, <1>2, HoldersApart DEF HeldInv, CopyWhileQuiet
<1>4. QED
  BY <1>1, <1>3, CopyNext

\* As long as nothing interferes the invariant of the copies holds throughout.
LEMMA CopyWhileQuietInvariant == Spec => []CopyWhileQuiet
<1>1. Init => CopyWhileQuiet
  BY CopyInit DEF CopyWhileQuiet
<1>2. QED
  BY <1>1, CopyWhileQuietNext, HeldInvariant, TypeCorrect, PTL DEF Spec

\* However many slots the gate has, no customer gets a second copy of a message
\* without a lost acknowledgement, until a lease lapses under a working process or
\* an operator interferes.
THEOREM NoSecondCopyWhileQuiet == Spec => [](Quiet => OneCopyUnlessAckLost)
<1>1. TypeOK /\ CopyWhileQuiet => (Quiet => OneCopyUnlessAckLost)
  BY CopiesAreOne DEF CopyWhileQuiet
<1>2. QED
  BY <1>1, CopyWhileQuietInvariant, TypeCorrect, PTL

\* However many slots the gate has, a job is SENT only over a receipt, until a
\* lease lapses under a working process or an operator interferes.
THEOREM SentOverReceiptWhileQuiet == Spec => [](Quiet => SentHasReceipt)
<1>1. CopyWhileQuiet => (Quiet => SentHasReceipt)
  BY DEF CopyWhileQuiet, CopyInv
<1>2. QED
  BY <1>1, CopyWhileQuietInvariant, PTL

\* With any number of slots the delivery path implements Outbox, if leases do not
\* lapse under working processes and no operator interferes.
THEOREM OutboxImplementedWhileQuiet ==
  ASSUME Limit["stall"] = 0, Limit["operator"] = 0
  PROVE  Spec => ImplementsOutbox
<1>1. Init => Promise!LogInit
  BY DEF Init, LogInit, Promise!LogInit
<1>2. TypeOK /\ (\A k \in Kinds : spent[k] <= Limit[k]) => Quiet
  BY DEF TypeOK, WorldTypeOK, Kinds, Quiet
<1>3. TypeOK /\ TypeOK' /\ CopyInv /\ [Next]_vars => [Promise!OutboxNext]_(Promise!logVars)
  BY OutboxStep DEF logVars, Promise!logVars
<1>4. CopyWhileQuiet /\ Quiet => CopyInv
  BY DEF CopyWhileQuiet
<1>5. QED
  BY <1>1, <1>2, <1>3, <1>4, CopyWhileQuietInvariant, LimitInvariant, TypeCorrect, PTL
  DEF Spec, ImplementsOutbox, Promise!OutboxSpec
=============================================================================
