--------------------------- MODULE Delivery_proofs ---------------------------
(***************************************************************************)
(* Theorems about Delivery, for any number of jobs, contacts, workers and    *)
(* rows, and any number of faults of every kind.                              *)
(***************************************************************************)
EXTENDS Delivery, FiniteSetTheorems, TLAPS

-----------------------------------------------------------------------------
(***************************************************************************)
(* Type correctness.                                                         *)
(***************************************************************************)
\* Every statement that writes one job keeps the queue's types.
LEMMA WriteType ==
  ASSUME QueueTypeOK, NEW j \in Jobs, NEW s \in Statuses,
         NEW n \in 0..LargestBudget, NEW b \in BOOLEAN,
         Write(j, s, n, b)
  PROVE  QueueTypeOK'
BY DEF QueueTypeOK, Write, Leases

\* Counting an attempt stays within the bound of the count.
LEMMA CountedType ==
  ASSUME QueueTypeOK, NEW j \in Jobs
  PROVE  Counted(j) \in 0..LargestBudget
BY AttemptsAssumption DEF QueueTypeOK, Counted, LargestBudget

\* The verdict of process() is written with the types kept.
LEMMA StatementTypes ==
  ASSUME QueueTypeOK, NEW j \in Jobs,
         MarkSent(j) \/ Defer(j) \/ Retry(j) \/ Fail(j) \/ Cancel(j) \/ ReconcileReceipt(j)
         \/ Requeue(j) \/ UNCHANGED queueVars
  PROVE  QueueTypeOK'
<1>1. attempts[j] \in 0..LargestBudget
  BY DEF QueueTypeOK
<1>2. CASE MarkSent(j) BY <1>2, CountedType, WriteType DEF MarkSent, Statuses
<1>3. CASE Defer(j) BY <1>1, <1>3, WriteType DEF Defer, Statuses
<1>4. CASE Retry(j) BY <1>4, CountedType, WriteType DEF Retry, Statuses
<1>5. CASE Fail(j) BY <1>5, CountedType, WriteType DEF Fail, Statuses
<1>6. CASE UNCHANGED queueVars BY <1>6 DEF queueVars, QueueTypeOK
<1>7. CASE Cancel(j) BY <1>1, <1>6, <1>7, WriteType DEF Cancel, Statuses
<1>8. CASE ReconcileReceipt(j) BY <1>1, <1>6, <1>8, WriteType DEF ReconcileReceipt, Statuses
<1>9. CASE Requeue(j)
  <2>1. 0 \in 0..LargestBudget BY AttemptsAssumption DEF LargestBudget
  <2>2. QED BY <1>9, <2>1, WriteType DEF Requeue, Statuses
<1>10. QED BY <1>2, <1>3, <1>4, <1>5, <1>6, <1>7, <1>8, <1>9

\* So do the claim, the sweeps, and the passing of time.
LEMMA SweepTypes ==
  ASSUME QueueTypeOK, NEW S \in SUBSET Jobs,
         \/ CancelPending(S) \/ ReleaseOrphans
         \/ \E j \in Jobs : Lock(j) \/ AgeLease(j) \/ RenewLease(j) \/ EndBackoff(j)
  PROVE  QueueTypeOK'
BY DEF QueueTypeOK, CancelPending, ReleaseOrphans, Orphans, Lock, AgeLease, RenewLease,
       EndBackoff, Statuses, Leases

\* Writing a message row leaves a well-typed log.
LEMMA LogTypes ==
  ASSUME LogTypeOK, NEW j \in Jobs, NEW n \in Rows, NEW s \in RowStates,
         SetRow(j, n, s) \/ Reach(j, n) \/ UNCHANGED logVars
  PROVE  LogTypeOK'
BY DEF LogTypeOK, SetRow, Reach, logVars

\* A worker's step to another statement, with or without a verdict.
LEMMA StepTypes ==
  ASSUME LocalTypeOK, NEW w \in Workers, pc[w] # "idle", NEW p \in Phases, NEW v \in Verdicts,
         p \in {"deliver", "acked", "rowfail"} => pc[w] \in {"deliver", "acked", "rowfail"},
         Goto(w, p) \/ Decide(w, p, v)
  PROVE  LocalTypeOK'
BY DEF LocalTypeOK, Goto, Decide

\* A worker that is done with its job stays well typed.
LEMMA FinishTypes ==
  ASSUME LocalTypeOK, NEW W \in SUBSET Workers, Finish(W)
  PROVE  LocalTypeOK'
<1>1. 0 \in 0..LargestBudget
  BY AttemptsAssumption DEF LargestBudget
<1>2. QED
  BY <1>1 DEF LocalTypeOK, Finish, Phases, Verdicts

\* The counts of disturbances stay numbers.
LEMMA SpendTypes ==
  ASSUME spent \in [Kinds -> Nat], NEW k \in Kinds, Spend(k)
  PROVE  spent' \in [Kinds -> Nat]
BY DEF Spend

\* An arriving copy is logged under its job and its row.
LEMMA ArriveTypes ==
  ASSUME LogTypeOK, WorldTypeOK, NEW j \in Jobs, NEW n \in Rows, Arrive(j, n)
  PROVE  LogTypeOK' /\ late' \subseteq Jobs \X Rows
BY LogTypes DEF Arrive, WorldTypeOK, LogTypeOK, Reach

\* The initial state is well typed.
LEMMA InitType == Init => TypeOK
<1>1. 0 \in 0..LargestBudget
  BY AttemptsAssumption DEF LargestBudget
<1>2. QED
  BY <1>1 DEF Init, QueueInit, LogInit, TypeOK, QueueTypeOK, LogTypeOK, LocalTypeOK,
     WorldTypeOK, Statuses, Leases, RowStates, Phases, Verdicts

\* No worker step leaves the types.
LEMMA WorkerTypes ==
  ASSUME TypeOK, NEW w \in Workers, WorkerStep(w)
  PROVE  TypeOK'
<1> USE DEF TypeOK
<1> DEFINE j == job[w]
<1>0. pc[w] # "idle" => j \in Jobs
  BY DEF LocalTypeOK
<1>1. CASE Claim(w)
  <2>1. PICK i \in Jobs : Lock(i) /\ job' = [job EXCEPT ![w] = i]
                            /\ tries' = [tries EXCEPT ![w] = attempts[i]]
    BY <1>1 DEF Claim
  <2>2. QueueTypeOK'
    BY <2>1, SweepTypes
  <2>3. LocalTypeOK'
    BY <1>1, <2>1 DEF Claim, LocalTypeOK, QueueTypeOK, Phases
  <2>4. LogTypeOK' /\ WorldTypeOK'
    BY <1>1 DEF Claim, logVars, worldVars, LogTypeOK, WorldTypeOK
  <2>5. QED
    BY <2>2, <2>3, <2>4
<1>2. CASE Reconcile(w)
  <2>1. QueueTypeOK'
    BY <1>0, <1>2, StatementTypes DEF Reconcile, Running
  <2>2. LocalTypeOK'
    BY <1>2, StepTypes, FinishTypes DEF Reconcile, Running, Phases, Verdicts
  <2>3. LogTypeOK' /\ WorldTypeOK'
    BY <1>2 DEF Reconcile, logVars, worldVars, LogTypeOK, WorldTypeOK
  <2>4. QED
    BY <2>1, <2>2, <2>3
<1>3. CASE Load(w) \/ TakeSlot(w) \/ CheckReceipt(w) \/ CheckUncertain(w) \/ CheckConsent(w)
  <2>1. LocalTypeOK'
    BY <1>3, StepTypes DEF Load, Ruling, TakeSlot, CheckReceipt, CheckUncertain, CheckConsent,
       Running, Phases, GatePhases, Verdicts
  <2>2. UNCHANGED <<queueVars, logVars, worldVars, spent, late>>
    BY <1>3 DEF Load, TakeSlot, CheckReceipt, CheckUncertain, CheckConsent
  <2>3. QED
    BY <2>1, <2>2 DEF queueVars, logVars, worldVars, QueueTypeOK, LogTypeOK, WorldTypeOK
<1>4. CASE CreateRow(w)
  <2>1. PICK n \in Rows : SetRow(j, n, "PENDING") /\ cur' = [cur EXCEPT ![w] = n]
    BY <1>4 DEF CreateRow
  <2>2. LogTypeOK'
    BY <1>0, <1>4, <2>1, LogTypes DEF CreateRow, Running, RowStates
  <2>3. LocalTypeOK'
    BY <1>4, <2>1 DEF CreateRow, LocalTypeOK, Running, Phases, GatePhases
  <2>4. QueueTypeOK' /\ WorldTypeOK'
    BY <1>4 DEF CreateRow, queueVars, worldVars, QueueTypeOK, WorldTypeOK
  <2>5. QED
    BY <2>2, <2>3, <2>4
<1>5. CASE MarkRowFailed(w) \/ MarkRowSent(w)
  <2>1. cur[w] \in Rows
    BY <1>5 DEF MarkRowFailed, MarkRowSent, Running, LocalTypeOK
  <2>2. LogTypeOK'
    BY <1>0, <1>5, <2>1, LogTypes DEF MarkRowFailed, MarkRowSent, Running, RowStates
  <2>3. LocalTypeOK'
    BY <1>5, StepTypes DEF MarkRowFailed, MarkRowSent, Running, Phases, Verdicts
  <2>4. QueueTypeOK' /\ WorldTypeOK'
    BY <1>5 DEF MarkRowFailed, MarkRowSent, queueVars, worldVars, QueueTypeOK, WorldTypeOK
  <2>5. QED
    BY <2>2, <2>3, <2>4
<1>6. CASE Apply(w)
  <2>1. QueueTypeOK'
    BY <1>0, <1>6, StatementTypes DEF Apply, RetryOrFail, Running
  <2>2. LocalTypeOK'
    BY <1>6, FinishTypes DEF Apply
  <2>3. LogTypeOK' /\ WorldTypeOK'
    BY <1>6 DEF Apply, logVars, worldVars, LogTypeOK, WorldTypeOK
  <2>4. QED
    BY <2>1, <2>2, <2>3
<1>7. CASE Abandon(w)
  <2>1. LogTypeOK' /\ late' \subseteq Jobs \X Rows
    <3>1. CASE UNCHANGED <<logVars, late>>
      BY <3>1 DEF logVars, LogTypeOK, WorldTypeOK
    <3>2. CASE pc[w] = "deliver" /\ Arrive(j, cur[w])
      BY <1>0, <3>2, ArriveTypes DEF LocalTypeOK
    <3>3. QED
      BY <1>7, <3>1, <3>2 DEF Abandon
  <2>2. LocalTypeOK'
    BY <1>7, FinishTypes DEF Abandon
  <2>3. QueueTypeOK' /\ WorldTypeOK'
    BY <1>7, <2>1 DEF Abandon, queueVars, worldVars, QueueTypeOK, WorldTypeOK
  <2>4. QED
    BY <2>1, <2>2, <2>3
<1>8. QED
  BY <1>1, <1>2, <1>3, <1>4, <1>5, <1>6, <1>7 DEF WorkerStep

\* Nor does a fault, a heartbeat or the provider's answer.
LEMMA FaultTypes ==
  ASSUME TypeOK, NEW w \in Workers, ProviderAnswers(w) \/ Fault(w) \/ Heartbeat(w)
  PROVE  TypeOK'
<1> USE DEF TypeOK
<1> DEFINE j == job[w]
<1>0. pc[w] # "idle" => j \in Jobs
  BY DEF LocalTypeOK
<1>1. CASE Accept(w) \/ LoseAck(w)
  <2>1. cur[w] \in Rows
    BY <1>1 DEF Accept, LoseAck, LocalTypeOK
  <2>2. LogTypeOK' /\ late' \subseteq Jobs \X Rows
    BY <1>0, <1>1, <2>1, ArriveTypes DEF Accept, LoseAck
  <2>3. LocalTypeOK'
    BY <1>1, StepTypes DEF Accept, LoseAck, Phases, GatePhases, Verdicts
  <2>4. spent' \in [Kinds -> Nat]
    BY <1>1, SpendTypes DEF Accept, LoseAck, Kinds, WorldTypeOK
  <2>5. QueueTypeOK' /\ WorldTypeOK'
    BY <1>1, <2>2, <2>4 DEF Accept, LoseAck, queueVars, worldVars, QueueTypeOK, WorldTypeOK
  <2>6. QED
    BY <2>2, <2>3, <2>5
<1>2. CASE Reject(w) \/ Fault(w)
  <2>1. LocalTypeOK'
    <3>1. CASE Reject(w)
      BY <3>1, StepTypes DEF Reject, Phases, GatePhases, Verdicts
    <3>2. CASE Misconfigured(w) \/ HistoryUnknown(w)
      BY <3>2, StepTypes DEF Misconfigured, HistoryUnknown, Running, Phases, Verdicts
    <3>3. CASE DbFails(w)
      BY <3>3, StepTypes, FinishTypes DEF DbFails, Running, Phases, Verdicts
    <3>4. QED
      BY <1>2, <3>1, <3>2, <3>3 DEF Fault
  <2>2. spent' \in [Kinds -> Nat]
    BY <1>2, SpendTypes DEF Reject, Fault, Misconfigured, HistoryUnknown, DbFails, Kinds,
       WorldTypeOK
  <2>3. UNCHANGED <<queueVars, logVars, worldVars, late>>
    BY <1>2 DEF Reject, Fault, Misconfigured, HistoryUnknown, DbFails
  <2>4. QED
    BY <2>1, <2>2, <2>3 DEF queueVars, logVars, worldVars, QueueTypeOK, LogTypeOK, WorldTypeOK
<1>3. CASE Heartbeat(w)
  <2>1. QueueTypeOK'
    BY <1>0, <1>3, SweepTypes, StatementTypes DEF Heartbeat
  <2>2. LocalTypeOK'
    BY <1>3 DEF Heartbeat, LocalTypeOK
  <2>3. spent' \in [Kinds -> Nat]
    BY <1>3, SpendTypes DEF Heartbeat, Kinds, WorldTypeOK
  <2>4. LogTypeOK' /\ WorldTypeOK'
    BY <1>3, <2>3 DEF Heartbeat, logVars, worldVars, LogTypeOK, WorldTypeOK
  <2>5. QED
    BY <2>1, <2>2, <2>4
<1>4. QED
  BY <1>1, <1>2, <1>3 DEF ProviderAnswers

\* Nor does anything else that writes the tables.
LEMMA WorldTypes ==
  ASSUME TypeOK,
         \/ \E j \in Jobs : Lapse(j) \/ BackoffElapses(j) \/ CancelJob(j) \/ RequeueJob(j)
         \/ \E c \in Contacts : OptOut(c) \/ StopEnrollments(c) \/ AnswerByHand(c)
         \/ ReleaseStale \/ CancelStale \/ Tick \/ Crash \/ Pause \/ Activate \/ Close
  PROVE  TypeOK'
<1> USE DEF TypeOK
<1>1. CASE \E j \in Jobs : Lapse(j) \/ BackoffElapses(j) \/ CancelJob(j) \/ RequeueJob(j)
  <2>1. PICK j \in Jobs : Lapse(j) \/ BackoffElapses(j) \/ CancelJob(j) \/ RequeueJob(j)
    BY <1>1
  <2>2. QueueTypeOK'
    BY <2>1, SweepTypes, StatementTypes DEF Lapse, BackoffElapses, CancelJob, RequeueJob
  <2>3. spent' \in [Kinds -> Nat]
    BY <2>1, SpendTypes DEF Lapse, BackoffElapses, CancelJob, RequeueJob, Kinds, WorldTypeOK
  <2>4. UNCHANGED <<logVars, localVars, worldVars, late>>
    BY <2>1 DEF Lapse, BackoffElapses, CancelJob, RequeueJob
  <2>5. QED
    BY <2>2, <2>3, <2>4 DEF logVars, localVars, worldVars, LogTypeOK, LocalTypeOK, WorldTypeOK
<1>2. CASE \E c \in Contacts : OptOut(c) \/ StopEnrollments(c) \/ AnswerByHand(c)
  <2>1. PICK c \in Contacts : OptOut(c) \/ StopEnrollments(c) \/ AnswerByHand(c)
    BY <1>2
  <2>2. QueueTypeOK'
    <3>1. {j \in Jobs : ContactOf[j] = c} \in SUBSET Jobs
      OBVIOUS
    <3>2. UNCHANGED queueVars \/ CancelPending({j \in Jobs : ContactOf[j] = c})
      BY <2>1 DEF OptOut, StopEnrollments, AnswerByHand
    <3>3. CASE UNCHANGED queueVars
      BY <3>3 DEF queueVars, QueueTypeOK
    <3>4. QED
      BY <3>1, <3>2, <3>3, SweepTypes
  <2>3. WorldTypeOK'
    BY <2>1, SpendTypes DEF OptOut, StopEnrollments, AnswerByHand, Kinds, WorldTypeOK
  <2>4. UNCHANGED <<logVars, localVars>>
    BY <2>1 DEF OptOut, StopEnrollments, AnswerByHand
  <2>5. QED
    BY <2>2, <2>3, <2>4 DEF logVars, localVars, LogTypeOK, LocalTypeOK
<1>3. CASE ReleaseStale \/ CancelStale
  <2>1. QueueTypeOK'
    <3>1. Stale \in SUBSET Jobs
      BY DEF Stale
    <3>2. QED
      BY <1>3, <3>1, SweepTypes DEF ReleaseStale, CancelStale
  <2>2. UNCHANGED <<logVars, localVars, worldVars, spent, late>>
    BY <1>3 DEF ReleaseStale, CancelStale
  <2>3. QED
    BY <2>1, <2>2 DEF logVars, localVars, worldVars, LogTypeOK, LocalTypeOK, WorldTypeOK
<1>4. CASE Tick
  BY <1>4 DEF Tick, queueVars, logVars, localVars, QueueTypeOK, LogTypeOK, LocalTypeOK,
     WorldTypeOK
<1>5. CASE Crash
  <2>1. PICK S \in SUBSET OnWire :
           /\ accepted' = [j \in Jobs |-> accepted[j] \cup {n \in Rows : <<j, n>> \in S}]
           /\ late' = late \cup {p \in S : ContactOf[p[1]] \in optedOut}
    BY <1>5 DEF Crash
  <2>2. OnWire \subseteq Jobs \X Rows
    BY DEF OnWire, LocalTypeOK
  <2>3. LogTypeOK'
    BY <1>5, <2>1 DEF Crash, LogTypeOK
  <2>4. LocalTypeOK'
    BY <1>5, FinishTypes DEF Crash
  <2>5. late' \subseteq Jobs \X Rows
    BY <2>1, <2>2 DEF WorldTypeOK
  <2>6. spent' \in [Kinds -> Nat]
    BY <1>5, SpendTypes DEF Crash, Kinds, WorldTypeOK
  <2>7. QueueTypeOK' /\ WorldTypeOK'
    BY <1>5, <2>5, <2>6 DEF Crash, queueVars, worldVars, QueueTypeOK, WorldTypeOK
  <2>8. QED
    BY <2>3, <2>4, <2>7
<1>6. CASE Pause \/ Activate \/ Close
  <2>1. QueueTypeOK'
    <3>1. {j \in Jobs : ScheduledAt[j] + Grace < clock} \in SUBSET Jobs /\ Jobs \in SUBSET Jobs
      OBVIOUS
    <3>2. CASE UNCHANGED queueVars
      BY <3>2 DEF queueVars, QueueTypeOK
    <3>3. QED
      BY <1>6, <3>1, <3>2, SweepTypes DEF Pause, Activate, Close
  <2>2. WorldTypeOK'
    BY <1>6, SpendTypes DEF Pause, Activate, Close, Kinds, WorldTypeOK
  <2>3. UNCHANGED <<logVars, localVars>>
    BY <1>6 DEF Pause, Activate, Close
  <2>4. QED
    BY <2>1, <2>2, <2>3 DEF logVars, localVars, LogTypeOK, LocalTypeOK
<1>7. QED
  BY <1>1, <1>2, <1>3, <1>4, <1>5, <1>6

\* Every step keeps the types.
LEMMA NextType == TypeOK /\ [Next]_vars => TypeOK'
<1>1. CASE Next
  BY <1>1, WorkerTypes, FaultTypes, WorldTypes DEF Next
<1>2. CASE UNCHANGED vars
  BY <1>2 DEF vars, queueVars, logVars, localVars, worldVars,
     TypeOK, QueueTypeOK, LogTypeOK, LocalTypeOK, WorldTypeOK
<1>3. QED
  BY <1>1, <1>2

\* Every variable keeps its type, however many jobs, workers and faults there are.
THEOREM TypeCorrect == Spec => []TypeOK
BY InitType, NextType, PTL DEF Spec

-----------------------------------------------------------------------------
(***************************************************************************)
(* At most one copy.                                                         *)
(*                                                                           *)
(* The checks inside the gate and the request they license are, for one job,  *)
(* one critical section, and that carries a check made before the row is      *)
(* written over to the moment the request is sent.  Either there is one slot, *)
(* or no job is in the hands of two workers.                                  *)
(***************************************************************************)
WrittenOff(j) == \A n \in Rows : row[j][n] \in {"NONE", "FAILED"}

\* The row of the attempt in progress is the only one of its job not written off.
Attempting(w) ==
  /\ row[job[w]][cur[w]] = "PENDING"
  /\ \A n \in Rows \ {cur[w]} : row[job[w]][n] \in {"NONE", "FAILED"}

GateExclusive ==
  \A v, w \in Workers :
     pc[v] \in GatePhases /\ pc[w] \in GatePhases /\ job[v] = job[w] => v = w

\* What makes it so.
OneSlotOrHolder ==
  Slots = 1 \/ \A v, w \in Workers :
                  v # w /\ pc[v] # "idle" /\ pc[w] # "idle" => job[v] # job[w]

\* What each statement of Sender.Send may rely on when it runs.
Progress(w) ==
  /\ pc[w] = "uncertain" => ~HasReceipt(job[w])
  /\ pc[w] \in {"consent", "create"} => WrittenOff(job[w])
  /\ pc[w] \in {"deliver", "acked", "rowfail"} => Attempting(w)
  /\ pc[w] = "deliver" => cur[w] \notin accepted[job[w]]
  /\ pc[w] = "acked" => cur[w] \in accepted[job[w]]
  /\ pc[w] = "rowfail" => verdict[w] # "sent"
  /\ pc[w] = "rowfail" /\ spent["lostack"] = 0 => cur[w] \notin accepted[job[w]]

GateProgress == \A w \in Workers : Progress(w)

RowsTruthful ==
  \A j \in Jobs, n \in Rows :
     /\ row[j][n] = "SENT" => n \in accepted[j]
     /\ row[j][n] = "NONE" => n \notin accepted[j]
     /\ row[j][n] = "FAILED" /\ spent["lostack"] = 0 => n \notin accepted[j]

OneOpenRow ==
  \A j \in Jobs : \A m, n \in Rows :
     row[j][m] \in {"PENDING", "SENT"} /\ row[j][n] \in {"PENDING", "SENT"} => m = n

SentVerdictHasReceipt ==
  \A w \in Workers : pc[w] = "apply" /\ verdict[w] = "sent" => HasReceipt(job[w])

CopyInv ==
  /\ GateExclusive /\ GateProgress /\ RowsTruthful /\ OneOpenRow
  /\ SentVerdictHasReceipt /\ SentHasReceipt

\* The invariant of the copies holds at first.
LEMMA CopyInit == Init => CopyInv
BY DEF Init, QueueInit, LogInit, CopyInv, GateExclusive, GateProgress, Progress, RowsTruthful,
   OneOpenRow, SentVerdictHasReceipt, SentHasReceipt, GatePhases

\* Steps that leave the message rows alone and take no worker further into the
\* gate: they may only close a job, or decide "sent", over a receipt.
LEMMA CopyFrame ==
  ASSUME TypeOK, CopyInv,
         UNCHANGED logVars,
         spent'["lostack"] = 0 => spent["lostack"] = 0,
         \A v \in Workers :
            \/ pc'[v] = pc[v] /\ job'[v] = job[v] /\ cur'[v] = cur[v] /\ verdict'[v] = verdict[v]
            \/ pc'[v] \in {"idle", "reconcile", "load", "gate"}
            \/ pc'[v] = "apply" /\ (verdict'[v] = "sent" => HasReceipt(job'[v])),
         \A j \in Jobs : status'[j] = "SENT" => status[j] = "SENT" \/ HasReceipt(j)
  PROVE  CopyInv'
<1> USE DEF CopyInv
<1>1. RowsTruthful' /\ OneOpenRow'
  BY DEF RowsTruthful, OneOpenRow, logVars
<1>2. \A j : HasReceipt(j)' <=> HasReceipt(j)
  BY DEF HasReceipt, logVars
<1>3. GateExclusive'
  BY DEF GateExclusive, GatePhases
<1>4. ASSUME NEW v \in Workers, pc'[v] \in GatePhases
      PROVE  pc'[v] = pc[v] /\ job'[v] = job[v] /\ cur'[v] = cur[v] /\ verdict'[v] = verdict[v]
  BY <1>4 DEF GatePhases
<1>5. GateProgress'
  BY <1>4 DEF GateProgress, Progress, GatePhases, HasReceipt, WrittenOff, Attempting, logVars
<1>6. SentVerdictHasReceipt'
  BY <1>2 DEF SentVerdictHasReceipt, HasReceipt, logVars
<1>7. SentHasReceipt'
  BY <1>2 DEF SentHasReceipt, HasReceipt, logVars
<1>8. QED
  BY <1>1, <1>3, <1>5, <1>6, <1>7

\* No step but a lost acknowledgement counts as one.
LEMMA SpentOnce ==
  ASSUME TypeOK,
         UNCHANGED spent \/ \E k \in Kinds : Spend(k)
  PROVE  spent'["lostack"] = 0 => spent["lostack"] = 0
BY DEF TypeOK, WorldTypeOK, Spend, Kinds

\* A step that writes no row, and SENT only over a receipt, keeps every SENT over its receipt.
LEMMA QueueKeepsReceipts ==
  ASSUME TypeOK, NEW j \in Jobs,
         \/ UNCHANGED queueVars \/ Defer(j) \/ Retry(j) \/ Fail(j) \/ Cancel(j) \/ Lock(j)
         \/ Requeue(j) \/ AgeLease(j) \/ RenewLease(j) \/ EndBackoff(j) \/ ReleaseOrphans
         \/ ReconcileReceipt(j) \/ (MarkSent(j) /\ HasReceipt(j))
         \/ \E S \in SUBSET Jobs : CancelPending(S)
  PROVE  \A i \in Jobs : status'[i] = "SENT" => status[i] = "SENT" \/ HasReceipt(i)
BY DEF TypeOK, QueueTypeOK, queueVars, Defer, Retry, Fail, Cancel, Lock, Requeue, AgeLease,
   RenewLease, EndBackoff, ReleaseOrphans, ReconcileReceipt, Closable, MarkSent, CancelPending,
   Write

\* A worker outside the gate, or on its way out of it, or dropping its job.
LEMMA CopyOutside ==
  ASSUME TypeOK, CopyInv, NEW w \in Workers,
         \/ Claim(w) \/ Reconcile(w) \/ Load(w) \/ Misconfigured(w) \/ HistoryUnknown(w)
         \/ Apply(w) \/ DbFails(w) \/ Heartbeat(w)
  PROVE  CopyInv'
<1> USE DEF TypeOK
<1> DEFINE j == job[w]
<1>0. pc[w] # "idle" => j \in Jobs
  BY DEF LocalTypeOK
<1>1. UNCHANGED logVars
  BY DEF Claim, Reconcile, Load, Misconfigured, HistoryUnknown, Apply, DbFails, Heartbeat
<1>2. spent'["lostack"] = 0 => spent["lostack"] = 0
  <2>1. UNCHANGED spent \/ \E k \in Kinds : Spend(k)
    BY DEF Claim, Reconcile, Load, Misconfigured, HistoryUnknown, Apply, DbFails, Heartbeat,
       Kinds
  <2>2. QED
    BY <2>1, SpentOnce
<1>3. \A v \in Workers :
         \/ pc'[v] = pc[v] /\ job'[v] = job[v] /\ cur'[v] = cur[v] /\ verdict'[v] = verdict[v]
         \/ pc'[v] \in {"idle", "reconcile", "load", "gate"}
         \/ pc'[v] = "apply" /\ (verdict'[v] = "sent" => HasReceipt(job'[v]))
  <2>1. CASE Claim(w) \/ Heartbeat(w)
    BY <2>1 DEF Claim, Heartbeat, LocalTypeOK
  <2>2. CASE Reconcile(w) \/ Apply(w)
    BY <2>2 DEF Reconcile, Apply, Running, Finish, Goto, LocalTypeOK
  <2>3. CASE Load(w) \/ Misconfigured(w) \/ HistoryUnknown(w)
    BY <2>3 DEF Load, Ruling, Misconfigured, HistoryUnknown, Running, Decide, Goto, LocalTypeOK
  <2>4. CASE DbFails(w)
    <3>1. pc[w] = "rowfail" => verdict[w] # "sent"
      BY DEF CopyInv, GateProgress, Progress
    <3>2. \/ Finish({w})
          \/ \E v \in {"retry", "reload", "fail"} : Decide(w, "apply", v)
          \/ Goto(w, "gate")
          \/ pc[w] = "rowfail" /\ Goto(w, "apply")
      BY <2>4 DEF DbFails, Running
    <3>3. CASE Finish({w})
      BY <3>3 DEF Finish, LocalTypeOK
    <3>4. CASE \E v \in {"retry", "reload", "fail"} : Decide(w, "apply", v)
      BY <3>4 DEF Decide, LocalTypeOK
    <3>5. CASE Goto(w, "gate")
      BY <3>5 DEF Goto, LocalTypeOK
    <3>6. CASE pc[w] = "rowfail" /\ Goto(w, "apply")
      BY <3>1, <3>6 DEF Goto, LocalTypeOK
    <3>7. QED
      BY <3>2, <3>3, <3>4, <3>5, <3>6
  <2>5. QED
    BY <2>1, <2>2, <2>3, <2>4
<1>4. \A i \in Jobs : status'[i] = "SENT" => status[i] = "SENT" \/ HasReceipt(i)
  <2>1. CASE Claim(w)
    <3>1. PICK i \in Jobs : Lock(i)
      BY <2>1 DEF Claim
    <3>2. QED
      BY <3>1, QueueKeepsReceipts
  <2>2. CASE Apply(w)
    <3>1. verdict[w] = "sent" => HasReceipt(j)
      BY <2>2 DEF Apply, Running, CopyInv, SentVerdictHasReceipt
    <3>2. \/ MarkSent(j) /\ HasReceipt(j)
          \/ Cancel(j) \/ Defer(j) \/ Fail(j) \/ Retry(j)
      BY <2>2, <3>1 DEF Apply, RetryOrFail
    <3>3. QED
      BY <1>0, <2>2, <3>2, QueueKeepsReceipts DEF Apply, Running
  <2>3. CASE Reconcile(w) \/ Heartbeat(w)
    BY <1>0, <2>3, QueueKeepsReceipts DEF Reconcile, Running, Heartbeat
  <2>4. CASE Load(w) \/ Misconfigured(w) \/ HistoryUnknown(w) \/ DbFails(w)
    BY <2>4 DEF Load, Misconfigured, HistoryUnknown, DbFails, queueVars
  <2>5. QED
    BY <2>1, <2>2, <2>3, <2>4
<1>5. QED
  BY <1>1, <1>2, <1>3, <1>4, CopyFrame

\* The gate's slot is free only if no other worker is inside.
LEMMA SlotFree ==
  ASSUME Slots = 1, Cardinality(InGate) < Slots
  PROVE  \A v \in Workers : pc[v] \notin GatePhases
<1>1. IsFiniteSet(InGate)
  BY DeliveryAssumption, FS_Subset DEF InGate
<1>2. Cardinality(InGate) = 0
  BY <1>1, FS_CardinalityType
<1>3. InGate = {}
  BY <1>1, <1>2, FS_EmptySet
<1>4. QED
  BY <1>3 DEF InGate

\* A worker that enters the gate or goes on to its next check.
LEMMA CopyInside ==
  ASSUME OneSlotOrHolder, TypeOK, CopyInv, NEW w \in Workers,
         TakeSlot(w) \/ CheckReceipt(w) \/ CheckUncertain(w) \/ CheckConsent(w) \/ Reject(w)
  PROVE  CopyInv'
<1> USE DEF TypeOK, CopyInv
<1>1. UNCHANGED logVars /\ UNCHANGED status
  BY DEF TakeSlot, CheckReceipt, CheckUncertain, CheckConsent, Reject, queueVars
<1>2. spent'["lostack"] = 0 => spent["lostack"] = 0
  <2>1. UNCHANGED spent \/ \E k \in Kinds : Spend(k)
    BY DEF TakeSlot, CheckReceipt, CheckUncertain, CheckConsent, Reject, Kinds
  <2>2. QED
    BY <2>1, SpentOnce
<1>3. RowsTruthful' /\ OneOpenRow' /\ SentHasReceipt'
  BY <1>1, <1>2 DEF RowsTruthful, OneOpenRow, SentHasReceipt, HasReceipt, logVars
<1>4. GateExclusive'
  <2>1. CASE TakeSlot(w)
    <3>1. pc[w] = "gate" /\ pc' = [pc EXCEPT ![w] = "receipt"] /\ UNCHANGED job
      BY <2>1 DEF TakeSlot, Running, Goto
    <3>2. \A v \in Workers \ {w} : pc[v] \in GatePhases => job[v] # job[w]
      BY <2>1, <3>1, SlotFree DEF TakeSlot, OneSlotOrHolder, GatePhases
    <3>3. QED
      BY <3>1, <3>2 DEF GateExclusive, LocalTypeOK
  <2>2. CASE ~TakeSlot(w)
    <3>1. pc[w] \in GatePhases
      BY <2>2 DEF CheckReceipt, CheckUncertain, CheckConsent, Reject, Running, GatePhases
    <3>2. UNCHANGED job /\ \A v \in Workers : v # w => pc'[v] = pc[v]
      BY <2>2 DEF CheckReceipt, CheckUncertain, CheckConsent, Reject, Goto, Decide, LocalTypeOK
    <3>3. QED
      BY <3>1, <3>2 DEF GateExclusive
  <2>3. QED
    BY <2>1, <2>2
<1>5. GateProgress' /\ SentVerdictHasReceipt'
  <2>1. CASE TakeSlot(w)
    BY <1>1, <1>2, <2>1 DEF TakeSlot, Goto, LocalTypeOK, GateProgress, Progress,
       SentVerdictHasReceipt, HasReceipt, WrittenOff, Attempting, logVars
  <2>2. CASE CheckReceipt(w)
    BY <1>1, <1>2, <2>2 DEF CheckReceipt, Running, Goto, Decide, LocalTypeOK, GateProgress,
       Progress, SentVerdictHasReceipt, HasReceipt, WrittenOff, Attempting, logVars
  <2>3. CASE CheckUncertain(w)
    <3>1. job[w] \in Jobs /\ pc[w] = "uncertain"
      BY <2>3 DEF CheckUncertain, Running, LocalTypeOK
    <3>2. ~InDoubt(job[w]) => WrittenOff(job[w])
      BY <3>1 DEF GateProgress, Progress, HasReceipt, InDoubt, WrittenOff, LogTypeOK, RowStates
    <3>3. QED
      BY <1>1, <1>2, <2>3, <3>2 DEF CheckUncertain, Running, Goto, Decide, LocalTypeOK,
         GateProgress, Progress, SentVerdictHasReceipt, HasReceipt, WrittenOff, Attempting,
         logVars
  <2>4. CASE CheckConsent(w)
    BY <1>1, <1>2, <2>4 DEF CheckConsent, Running, Goto, Decide, LocalTypeOK, GateProgress,
       Progress, SentVerdictHasReceipt, HasReceipt, WrittenOff, Attempting, logVars
  <2>5. CASE Reject(w)
    BY <1>1, <1>2, <2>5 DEF Reject, Decide, LocalTypeOK, GateProgress, Progress,
       SentVerdictHasReceipt, HasReceipt, WrittenOff, Attempting, logVars
  <2>6. QED
    BY <2>1, <2>2, <2>3, <2>4, <2>5
<1>6. QED
  BY <1>3, <1>4, <1>5

\* Copies arrive under rows that are PENDING, and nothing is written: what the
\* rows say stays true, and no receipt appears or goes.
LEMMA CopiesArrive ==
  ASSUME TypeOK, CopyInv, UNCHANGED <<row, status>>,
         spent'["lostack"] = 0 => spent["lostack"] = 0,
         \A j \in Jobs, n \in Rows :
            /\ n \in accepted[j] => n \in accepted'[j]
            /\ n \in accepted'[j] /\ n \notin accepted[j] => row[j][n] = "PENDING"
  PROVE  RowsTruthful' /\ OneOpenRow' /\ SentHasReceipt'
BY DEF CopyInv, RowsTruthful, OneOpenRow, SentHasReceipt, HasReceipt

\* A worker in the gate is the only one there with its job.
LEMMA OthersElsewhere ==
  ASSUME CopyInv, NEW w \in Workers, pc[w] \in GatePhases
  PROVE  \A v \in Workers \ {w} : pc[v] \in GatePhases => job[v] # job[w]
BY DEF CopyInv, GateExclusive

\* What a worker relies on is untouched by what happens to other jobs.
LEMMA ProgressKept ==
  ASSUME NEW v \in Workers, Progress(v),
         pc'[v] = pc[v], job'[v] = job[v], cur'[v] = cur[v], verdict'[v] = verdict[v],
         pc[v] \in GatePhases =>
           row'[job[v]] = row[job[v]] /\ accepted'[job[v]] = accepted[job[v]],
         spent'["lostack"] = 0 => spent["lostack"] = 0
  PROVE  Progress(v)'
<1>1. CASE pc[v] \in GatePhases
  BY <1>1 DEF Progress, HasReceipt, WrittenOff, Attempting
<1>2. CASE pc[v] \notin GatePhases
  BY <1>2 DEF Progress, GatePhases
<1>3. QED
  BY <1>1, <1>2

\* A worker writes the row of its attempt, or the provider takes the attempt.
LEMMA CopyWire ==
  ASSUME TypeOK, CopyInv, NEW w \in Workers,
         \/ CreateRow(w) \/ Accept(w) \/ LoseAck(w) \/ MarkRowFailed(w) \/ MarkRowSent(w)
  PROVE  CopyInv'
<1> USE DEF TypeOK, CopyInv
<1> DEFINE j == job[w]
<1>0. j \in Jobs /\ pc[w] \in GatePhases
  BY DEF CreateRow, Accept, LoseAck, MarkRowFailed, MarkRowSent, Running, LocalTypeOK,
     GatePhases
<1>1. \A v \in Workers \ {w} : pc[v] \in GatePhases => job[v] # j
  BY <1>0, OthersElsewhere
<1>2. /\ pc' \in [Workers -> {pc[v] : v \in Workers} \cup {"deliver", "acked", "rowfail", "apply"}]
      /\ \A v \in Workers \ {w} :
            pc'[v] = pc[v] /\ job'[v] = job[v] /\ verdict'[v] = verdict[v]
      /\ job'[w] = j
  BY DEF CreateRow, Accept, LoseAck, MarkRowFailed, MarkRowSent, Goto, Decide, LocalTypeOK
<1>3. GateExclusive'
  BY <1>1, <1>2 DEF GateExclusive
<1>4. UNCHANGED status
  BY DEF CreateRow, Accept, LoseAck, MarkRowFailed, MarkRowSent, queueVars
<1>5. ASSUME NEW v \in Workers \ {w}
           PROVE  Progress(v)'
  <2>1. pc[v] \in GatePhases => job[v] # j /\ job[v] \in Jobs
    BY <1>1 DEF LocalTypeOK, GatePhases
  <2>2. cur'[v] = cur[v]
    BY DEF CreateRow, Accept, LoseAck, MarkRowFailed, MarkRowSent, Goto, Decide, LocalTypeOK
  <2>3. pc[v] \in GatePhases =>
          row'[job[v]] = row[job[v]] /\ accepted'[job[v]] = accepted[job[v]]
    BY <1>0, <2>1 DEF CreateRow, Accept, LoseAck, MarkRowFailed, MarkRowSent, SetRow, Arrive,
       Reach, LogTypeOK
  <2>4. spent'["lostack"] = 0 => spent["lostack"] = 0
    <3>1. UNCHANGED spent \/ \E k \in Kinds : Spend(k)
      BY DEF CreateRow, Accept, LoseAck, MarkRowFailed, MarkRowSent, Kinds
    <3>2. QED
      BY <3>1, SpentOnce
  <2>5. Progress(v)
    BY DEF GateProgress
  <2>6. QED
    BY <1>2, <2>2, <2>3, <2>4, <2>5, ProgressKept
<1>6. CASE CreateRow(w)
  <2>1. PICK n \in Rows : /\ row[j][n] = "NONE"
                           /\ row' = [row EXCEPT ![j][n] = "PENDING"]
                           /\ cur' = [cur EXCEPT ![w] = n]
    BY <1>6 DEF CreateRow, Unused, SetRow
  <2>2. UNCHANGED <<accepted, spent, verdict, job>> /\ pc' = [pc EXCEPT ![w] = "deliver"]
    BY <1>6 DEF CreateRow, SetRow
  <2>3. WrittenOff(j)
    BY <1>6 DEF CreateRow, Running, GateProgress, Progress
  <2>4. \A i \in Jobs, m \in Rows :
           row'[i][m] = IF i = j /\ m = n THEN "PENDING" ELSE row[i][m]
    BY <1>0, <2>1 DEF LogTypeOK
  <2>5. RowsTruthful' /\ OneOpenRow'
    BY <2>1, <2>2, <2>3, <2>4 DEF RowsTruthful, OneOpenRow, WrittenOff
  <2>6. \A i \in Jobs : HasReceipt(i) => HasReceipt(i)'
    BY <2>1, <2>4 DEF HasReceipt
  <2>7. SentHasReceipt' /\ SentVerdictHasReceipt'
    BY <1>4, <2>2, <2>6 DEF SentHasReceipt, SentVerdictHasReceipt, LocalTypeOK
  <2>8. n \notin accepted[j]
    BY <1>0, <2>1 DEF RowsTruthful
  <2>9. GateProgress'
    <3>1. Progress(w)'
      BY <1>0, <1>2, <2>1, <2>2, <2>3, <2>4, <2>8 DEF Progress, Attempting, WrittenOff,
         LocalTypeOK
    <3>2. QED
      BY <1>5, <3>1 DEF GateProgress
  <2>10. QED
    BY <1>3, <2>5, <2>7, <2>9
<1>7. CASE Accept(w) \/ LoseAck(w)
  <2>1. /\ cur[w] \in Rows /\ Attempting(w)
        /\ UNCHANGED <<row, cur>>
        /\ accepted' = [accepted EXCEPT ![j] = accepted[j] \cup {cur[w]}]
    BY <1>7 DEF Accept, LoseAck, Arrive, Reach, Goto, Decide, LocalTypeOK, GateProgress,
       Progress
  <2>2. spent'["lostack"] = 0 => spent["lostack"] = 0
    <3>1. UNCHANGED spent \/ \E k \in Kinds : Spend(k)
      BY <1>7 DEF Accept, LoseAck, Kinds
    <3>2. QED
      BY <3>1, SpentOnce
  <2>3. RowsTruthful' /\ OneOpenRow' /\ SentHasReceipt'
    <3>1. \A i \in Jobs, n \in Rows :
             /\ n \in accepted[i] => n \in accepted'[i]
             /\ n \in accepted'[i] /\ n \notin accepted[i] => row[i][n] = "PENDING"
      BY <1>0, <2>1 DEF Attempting, LogTypeOK
    <3>2. QED
      BY <1>4, <2>1, <2>2, <3>1, CopiesArrive
  <2>4. SentVerdictHasReceipt'
    BY <1>2, <1>7, <2>1 DEF Accept, LoseAck, Goto, Decide, SentVerdictHasReceipt, HasReceipt,
       LocalTypeOK
  <2>5. GateProgress'
    <3>0. SUFFICES Progress(w)'
      BY <1>5 DEF GateProgress
    <3>1. Attempting(w)' /\ cur'[w] \in accepted'[job'[w]]
      BY <1>0, <1>2, <2>1 DEF Attempting, LogTypeOK
    <3>2. CASE Accept(w)
      <4>1. pc'[w] = "acked"
        BY <3>2 DEF Accept, Goto, LocalTypeOK
      <4>2. QED
        BY <3>1, <4>1 DEF Progress
    <3>3. CASE LoseAck(w)
      <4>1. pc'[w] = "rowfail" /\ verdict'[w] = "retry"
        BY <3>3 DEF LoseAck, Decide, LocalTypeOK
      <4>2. spent'["lostack"] # 0
        BY <3>3 DEF LoseAck, Spend, Kinds, WorldTypeOK
      <4>3. QED
        BY <3>1, <4>1, <4>2 DEF Progress
    <3>4. QED
      BY <1>7, <3>2, <3>3
  <2>6. QED
    BY <1>3, <2>3, <2>4, <2>5
<1>8. CASE MarkRowFailed(w) \/ MarkRowSent(w)
  <2> DEFINE s == IF pc[w] = "acked" THEN "SENT" ELSE "FAILED"
  <2>1. /\ cur[w] \in Rows /\ Attempting(w)
        /\ UNCHANGED <<accepted, spent, cur>>
        /\ row' = [row EXCEPT ![j][cur[w]] = s]
        /\ pc' = [pc EXCEPT ![w] = "apply"]
    BY <1>8 DEF MarkRowFailed, MarkRowSent, Running, SetRow, Goto, Decide, LocalTypeOK,
       GateProgress, Progress
  <2>2. /\ pc[w] = "acked" => cur[w] \in accepted[j]
        /\ pc[w] # "acked" => pc[w] = "rowfail"
        /\ pc[w] = "rowfail" /\ spent["lostack"] = 0 => cur[w] \notin accepted[j]
    BY <1>8 DEF MarkRowFailed, MarkRowSent, Running, GateProgress, Progress
  <2>3. \A i \in Jobs, m \in Rows :
           row'[i][m] = IF i = j /\ m = cur[w] THEN s ELSE row[i][m]
    BY <1>0, <2>1 DEF LogTypeOK
  <2>4. RowsTruthful' /\ OneOpenRow'
    BY <2>1, <2>2, <2>3 DEF RowsTruthful, OneOpenRow, Attempting
  <2>5. \A i \in Jobs : HasReceipt(i) => HasReceipt(i)'
    BY <2>1, <2>3 DEF HasReceipt, Attempting
  <2>6. SentHasReceipt'
    BY <1>4, <2>5 DEF SentHasReceipt
  <2>7. SentVerdictHasReceipt'
    <3>1. CASE MarkRowSent(w)
      <4>1. \E n \in Rows : row'[j][n] = "SENT"
        BY <1>0, <2>1, <2>3, <3>1 DEF MarkRowSent
      <4>2. QED
        BY <1>2, <2>1, <2>5, <4>1 DEF SentVerdictHasReceipt, HasReceipt, LocalTypeOK
    <3>2. CASE MarkRowFailed(w)
      <4>1. verdict'[w] # "sent"
        BY <3>2 DEF MarkRowFailed, Running, Goto, GateProgress, Progress
      <4>2. QED
        BY <1>2, <2>1, <2>5, <4>1 DEF SentVerdictHasReceipt, LocalTypeOK
    <3>3. QED
      BY <1>8, <3>1, <3>2
  <2>8. GateProgress'
    <3>1. Progress(w)'
      BY <1>2, <2>1 DEF Progress, LocalTypeOK
    <3>2. QED
      BY <1>5, <3>1 DEF GateProgress
  <2>9. QED
    BY <1>3, <2>4, <2>6, <2>7, <2>8
<1>9. QED
  BY <1>6, <1>7, <1>8

\* A cancelled context: the worker drops the job, its request perhaps delivered.
LEMMA CopyAbandon ==
  ASSUME TypeOK, CopyInv, NEW w \in Workers, Abandon(w)
  PROVE  CopyInv'
<1> USE DEF TypeOK, CopyInv
<1> DEFINE j == job[w]
<1>1. /\ \A v \in Workers \ {w} : /\ pc'[v] = pc[v] /\ job'[v] = job[v]
                                   /\ cur'[v] = cur[v] /\ verdict'[v] = verdict[v]
      /\ pc'[w] = "idle"
      /\ UNCHANGED <<row, status, spent>>
  BY DEF Abandon, Finish, Arrive, Reach, logVars, queueVars, LocalTypeOK
<1>2. CASE UNCHANGED logVars
  BY <1>1, <1>2, CopyFrame
<1>3. CASE pc[w] = "deliver" /\ Arrive(j, cur[w])
  <2>1. j \in Jobs /\ cur[w] \in Rows /\ Attempting(w)
    BY <1>3 DEF LocalTypeOK, GateProgress, Progress
  <2>2. RowsTruthful' /\ OneOpenRow' /\ SentHasReceipt'
    <3>1. \A i \in Jobs, n \in Rows :
             /\ n \in accepted[i] => n \in accepted'[i]
             /\ n \in accepted'[i] /\ n \notin accepted[i] => row[i][n] = "PENDING"
      BY <1>3, <2>1 DEF Arrive, Reach, Attempting, LogTypeOK
    <3>2. QED
      BY <1>1, <3>1, CopiesArrive
  <2>3. GateExclusive'
    BY <1>1 DEF GateExclusive, GatePhases
  <2>4. GateProgress'
    <3>1. ASSUME NEW v \in Workers \ {w}
          PROVE  Progress(v)'
      <4>1. pc[v] \in GatePhases => job[v] # j /\ job[v] \in Jobs
        BY <1>3, OthersElsewhere DEF GatePhases, LocalTypeOK
      <4>2. pc[v] \in GatePhases => accepted'[job[v]] = accepted[job[v]]
        BY <1>3, <2>1, <4>1 DEF Arrive, Reach, LogTypeOK
      <4>3. Progress(v)
        BY DEF GateProgress
      <4>4. QED
        BY <1>1, <4>2, <4>3, ProgressKept
    <3>2. Progress(w)'
      BY <1>1 DEF Progress
    <3>3. QED
      BY <3>1, <3>2 DEF GateProgress
  <2>5. SentVerdictHasReceipt'
    BY <1>1 DEF SentVerdictHasReceipt, HasReceipt
  <2>6. QED
    BY <2>2, <2>3, <2>4, <2>5
<1>4. QED
  BY <1>2, <1>3 DEF Abandon, logVars

\* The process dies with any of its requests delivered.
LEMMA CopyCrash ==
  ASSUME TypeOK, CopyInv, Crash
  PROVE  CopyInv'
<1> USE DEF TypeOK, CopyInv
<1>1. PICK S \in SUBSET OnWire :
         accepted' = [j \in Jobs |-> accepted[j] \cup {n \in Rows : <<j, n>> \in S}]
  BY DEF Crash
<1>2. UNCHANGED <<row, status>> /\ \A v \in Workers : pc'[v] = "idle"
  BY DEF Crash, Finish, queueVars
<1>3. spent'["lostack"] = 0 => spent["lostack"] = 0
  <2>1. \E k \in Kinds : Spend(k)
    BY DEF Crash, Kinds
  <2>2. QED
    BY <2>1, SpentOnce
<1>4. \A j \in Jobs, n \in Rows : <<j, n>> \in OnWire => row[j][n] = "PENDING"
  BY DEF OnWire, GateProgress, Progress, Attempting
<1>5. RowsTruthful' /\ OneOpenRow' /\ SentHasReceipt'
  <2>1. \A j \in Jobs, n \in Rows :
           /\ n \in accepted[j] => n \in accepted'[j]
           /\ n \in accepted'[j] /\ n \notin accepted[j] => row[j][n] = "PENDING"
    BY <1>1, <1>4
  <2>2. QED
    BY <1>2, <1>3, <2>1, CopiesArrive
<1>6. GateExclusive' /\ GateProgress' /\ SentVerdictHasReceipt'
  BY <1>2 DEF GateExclusive, GateProgress, Progress, SentVerdictHasReceipt, GatePhases
<1>7. QED
  BY <1>5, <1>6

\* Nobody else writes a message row, or makes a job SENT.
LEMMA CopyWorld ==
  ASSUME TypeOK, CopyInv,
         \/ \E j \in Jobs : Lapse(j) \/ BackoffElapses(j) \/ CancelJob(j) \/ RequeueJob(j)
         \/ \E c \in Contacts : OptOut(c) \/ StopEnrollments(c) \/ AnswerByHand(c)
         \/ ReleaseStale \/ CancelStale \/ Tick \/ Pause \/ Activate \/ Close
  PROVE  CopyInv'
<1>1. UNCHANGED <<logVars, localVars>>
  BY DEF Lapse, BackoffElapses, CancelJob, RequeueJob, OptOut, StopEnrollments, AnswerByHand,
     ReleaseStale, CancelStale, Tick, Pause, Activate, Close
<1>2. spent'["lostack"] = 0 => spent["lostack"] = 0
  <2>1. UNCHANGED spent \/ \E k \in Kinds : Spend(k)
    BY DEF Lapse, BackoffElapses, CancelJob, RequeueJob, OptOut, StopEnrollments, AnswerByHand,
       ReleaseStale, CancelStale, Tick, Pause, Activate, Close, Kinds
  <2>2. QED
    BY <2>1, SpentOnce
<1>3. \A i \in Jobs : status'[i] = "SENT" => status[i] = "SENT"
  <2>1. CASE \E j \in Jobs : Lapse(j) \/ BackoffElapses(j) \/ CancelJob(j) \/ RequeueJob(j)
    BY <2>1 DEF Lapse, AgeLease, BackoffElapses, EndBackoff, CancelJob, Cancel, RequeueJob,
       Requeue, Write, queueVars, TypeOK, QueueTypeOK
  <2>2. CASE \E c \in Contacts : OptOut(c) \/ StopEnrollments(c) \/ AnswerByHand(c)
    BY <2>2 DEF OptOut, StopEnrollments, AnswerByHand, CancelPending, queueVars
  <2>3. CASE ReleaseStale \/ CancelStale \/ Tick \/ Pause \/ Activate \/ Close
    BY <2>3 DEF ReleaseStale, ReleaseOrphans, CancelStale, Tick, Pause, Activate, Close,
       CancelPending, queueVars
  <2>4. QED
    BY <2>1, <2>2, <2>3
<1>4. QED
  BY <1>1, <1>2, <1>3, CopyFrame DEF localVars

\* Every step keeps the invariant of the copies.
LEMMA CopyNext == OneSlotOrHolder /\ TypeOK /\ CopyInv /\ [Next]_vars => CopyInv'
<1>1. ASSUME OneSlotOrHolder, TypeOK, CopyInv, Next
      PROVE  CopyInv'
  <2>1. CASE \E w \in Workers : WorkerStep(w) \/ ProviderAnswers(w) \/ Fault(w) \/ Heartbeat(w)
    <3>1. PICK w \in Workers : WorkerStep(w) \/ ProviderAnswers(w) \/ Fault(w) \/ Heartbeat(w)
      BY <2>1
    <3>2. QED
      BY <1>1, <3>1, CopyOutside, CopyInside, CopyWire, CopyAbandon
      DEF WorkerStep, ProviderAnswers, Fault
  <2>2. CASE Crash
    BY <1>1, <2>2, CopyCrash
  <2>3. QED
    BY <1>1, <2>1, <2>2, CopyWorld DEF Next
<1>2. ASSUME TypeOK, CopyInv, UNCHANGED vars
      PROVE  CopyInv'
  BY <1>2, CopyFrame DEF vars, queueVars, localVars
<1>3. QED
  BY <1>1, <1>2

\* With one slot, the invariant of the copies holds throughout.
THEOREM CopyInvariant ==
  ASSUME Slots = 1
  PROVE  Spec => []CopyInv
<1>1. Init => CopyInv
  BY CopyInit
<1>2. TypeOK /\ CopyInv /\ [Next]_vars => CopyInv'
  BY CopyNext DEF OneSlotOrHolder
<1>3. QED
  BY <1>1, <1>2, TypeCorrect, PTL DEF Spec

\* An attempt whose copy is with the customer keeps its row open, and a job has
\* one such row.
LEMMA CopiesAreOne ==
  ASSUME TypeOK, CopyInv
  PROVE  OneCopyUnlessAckLost
<1>1. SUFFICES ASSUME spent["lostack"] = 0,
                      NEW j \in Jobs, NEW m \in accepted[j], NEW n \in accepted[j]
               PROVE  m = n
  BY DEF OneCopyUnlessAckLost
<1>2. m \in Rows /\ n \in Rows
  BY DEF TypeOK, LogTypeOK
<1>3. row[j][m] \in {"PENDING", "SENT"} /\ row[j][n] \in {"PENDING", "SENT"}
  BY <1>1, <1>2 DEF TypeOK, LogTypeOK, RowStates, CopyInv, RowsTruthful
<1>4. QED
  BY <1>2, <1>3 DEF CopyInv, OneOpenRow

\* With the default of one slot, a customer gets a second copy of a message only
\* if the client reported an attempt the provider had taken as a transient error.
THEOREM NoSecondCopy ==
  ASSUME Slots = 1
  PROVE  Spec => []OneCopyUnlessAckLost
<1>1. TypeOK /\ CopyInv => OneCopyUnlessAckLost
  BY CopiesAreOne
<1>2. QED
  BY <1>1, CopyInvariant, TypeCorrect, PTL

\* With one slot, a job is SENT only over a receipt in the message log.
THEOREM SentOverReceipt ==
  ASSUME Slots = 1
  PROVE  Spec => []SentHasReceipt
<1>1. CopyInv => SentHasReceipt
  BY DEF CopyInv
<1>2. QED
  BY <1>1, CopyInvariant, PTL

-----------------------------------------------------------------------------
(***************************************************************************)
(* The refinement: every step is a step of Outbox or leaves its rows alone.   *)
(***************************************************************************)
LEMMA OutboxWorkerStep ==
  ASSUME TypeOK, TypeOK', CopyInv, NEW w \in Workers,
         WorkerStep(w) \/ ProviderAnswers(w) \/ Fault(w) \/ Heartbeat(w)
  PROVE  Promise!OutboxNext \/ UNCHANGED logVars
<1> USE DEF TypeOK, CopyInv
<1> DEFINE j == job[w]
<1>0. pc[w] # "idle" => j \in Jobs
  BY DEF LocalTypeOK
<1>1. CASE CreateRow(w)
  <2>1. PICK n \in Rows : Unused(j, n) /\ SetRow(j, n, "PENDING")
    BY <1>1 DEF CreateRow
  <2>2. WrittenOff(j)
    BY <1>1 DEF CreateRow, Running, GateProgress, Progress
  <2>3. Promise!Attempt(j, n)
    BY <2>1, <2>2 DEF WrittenOff, Unused, SetRow, Promise!Attempt, Promise!SetRow
  <2>4. QED
    BY <1>0, <1>1, <2>3 DEF CreateRow, Running, Promise!OutboxNext
<1>2. CASE MarkRowFailed(w)
  <2>1. Promise!WriteOff(j, cur[w]) /\ cur[w] \in Rows /\ j \in Jobs
    BY <1>0, <1>2 DEF MarkRowFailed, Running, SetRow, GateProgress, Progress, Attempting,
       LocalTypeOK, Promise!WriteOff, Promise!SetRow
  <2>2. QED
    BY <2>1 DEF Promise!OutboxNext
<1>3. CASE MarkRowSent(w)
  <2>1. Promise!Acknowledge(j, cur[w]) /\ cur[w] \in Rows /\ j \in Jobs
    BY <1>0, <1>3 DEF MarkRowSent, SetRow, GateProgress, Progress, Attempting, LocalTypeOK,
       Promise!Acknowledge, Promise!SetRow
  <2>2. QED
    BY <2>1 DEF Promise!OutboxNext
<1>4. CASE pc[w] = "deliver" /\ Arrive(j, cur[w])
  <2>1. j \in Jobs /\ cur[w] \in Rows /\ Attempting(w)
    BY <1>4 DEF LocalTypeOK, GateProgress, Progress
  <2>2. UNCHANGED row /\ accepted' = [accepted EXCEPT ![j] = accepted[j] \cup {cur[w]}]
    BY <1>4 DEF Arrive, Reach
  <2>3. Promise!Deliver
    BY <2>1, <2>2 DEF LogTypeOK, Attempting, Promise!Deliver
  <2>4. QED
    BY <2>3 DEF Promise!OutboxNext
<1>5. CASE UNCHANGED logVars
  BY <1>5
<1>6. QED
  BY <1>1, <1>2, <1>3, <1>4, <1>5 DEF WorkerStep, ProviderAnswers, Fault, Claim, Reconcile,
     Load, TakeSlot, CheckReceipt, CheckUncertain, CheckConsent, Apply, Abandon, Accept,
     LoseAck, Reject, Misconfigured, HistoryUnknown, DbFails, Heartbeat, logVars

\* Every step is a step of the outbox, or leaves it alone.
LEMMA OutboxStep ==
  ASSUME TypeOK, TypeOK', CopyInv, [Next]_vars
  PROVE  Promise!OutboxNext \/ UNCHANGED logVars
<1>1. CASE \E w \in Workers : WorkerStep(w) \/ ProviderAnswers(w) \/ Fault(w) \/ Heartbeat(w)
  BY <1>1, OutboxWorkerStep
<1>2. CASE Crash
  <2>1. PICK S \in SUBSET OnWire :
           accepted' = [j \in Jobs |-> accepted[j] \cup {n \in Rows : <<j, n>> \in S}]
    BY <1>2 DEF Crash
  <2>2. \A j \in Jobs, n \in Rows : <<j, n>> \in OnWire => row[j][n] = "PENDING"
    BY DEF OnWire, CopyInv, GateProgress, Progress, Attempting
  <2>3. Promise!Deliver
    BY <1>2, <2>1, <2>2 DEF Crash, TypeOK, LogTypeOK, Promise!Deliver
  <2>4. QED
    BY <2>3 DEF Promise!OutboxNext
<1>3. CASE UNCHANGED logVars
  BY <1>3
<1>4. QED
  BY <1>1, <1>2, <1>3 DEF Next, vars, Lapse, BackoffElapses, CancelJob, RequeueJob, OptOut,
     StopEnrollments, AnswerByHand, ReleaseStale, CancelStale, Tick, Pause, Activate, Close

\* With one slot, the delivery path implements Outbox: whatever workers, leases,
\* operators and crashes do, an attempt of unknown outcome blocks the next one
\* and an acknowledged message is never attempted again.
THEOREM OutboxImplemented ==
  ASSUME Slots = 1
  PROVE  Spec => ImplementsOutbox
<1>1. Init => Promise!LogInit
  BY DEF Init, LogInit, Promise!LogInit
<1>2. TypeOK /\ TypeOK' /\ CopyInv /\ [Next]_vars => [Promise!OutboxNext]_(Promise!logVars)
  BY OutboxStep DEF logVars, Promise!logVars
<1>3. QED
  BY <1>1, <1>2, CopyInvariant, TypeCorrect, PTL DEF Spec, ImplementsOutbox, Promise!OutboxSpec
=============================================================================
