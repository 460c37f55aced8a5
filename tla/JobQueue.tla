------------------------------ MODULE JobQueue ------------------------------
(***************************************************************************)
(* The table scheduled_messages and the statements that write it           *)
(* (src/internal/scheduler/repository.go, lease.go, receipt.go).  Every     *)
(* statement runs in one SQLite write transaction, so each is one atomic    *)
(* operator over the four variables below; the modules that EXTEND this     *)
(* one say who runs which statement, and when.                              *)
(*                                                                          *)
(* A job (a member of MessageLog's Jobs) is one message owed to one         *)
(* contact.  Jobs are numbered in the order of their ids, which breaks ties *)
(* between equal scheduled times.                                           *)
(***************************************************************************)
EXTENDS MessageLog, FiniteSets

CONSTANTS
  Contacts,      \* the customers of one WhatsApp account
  ContactOf,     \* [Jobs -> Contacts]: whom a job is for
  ScheduledAt,   \* [Jobs -> Nat]: scheduled_at
  Replies,       \* the jobs that are the first reply to a trigger message
  LoadAttempts,  \* attempts when a job's context cannot be read
  MaxAttempts    \* max_send_attempts of the campaign

ASSUME JobsAssumption ==
  /\ Jobs \subseteq Nat
  /\ ContactOf \in [Jobs -> Contacts]
  /\ ScheduledAt \in [Jobs -> Nat]
  /\ Replies \subseteq Jobs

ASSUME AttemptsAssumption ==
  /\ MaxAttempts \in Nat \ {0}
  /\ LoadAttempts \in Nat

\* No count is compared with more than this.
LargestBudget == IF MaxAttempts > LoadAttempts THEN MaxAttempts ELSE LoadAttempts

VARIABLES
  status,    \* status
  lease,     \* locked_at: NULL, younger or older than LOCK_TIMEOUT
  attempts,  \* attempt_count
  backoff    \* next_attempt_at is still ahead (read of PENDING jobs only)

queueVars == <<status, lease, attempts, backoff>>

Statuses == {"PENDING", "PROCESSING", "SENT", "FAILED", "CANCELLED"}
Terminal == {"SENT", "FAILED", "CANCELLED"}
Leases == {"none", "live", "stale"}

QueueTypeOK ==
  /\ status \in [Jobs -> Statuses]
  /\ lease \in [Jobs -> Leases]
  /\ attempts \in [Jobs -> 0..LargestBudget]
  /\ backoff \in [Jobs -> BOOLEAN]

QueueInit ==
  /\ status = [j \in Jobs |-> "PENDING"]
  /\ lease = [j \in Jobs |-> "none"]
  /\ attempts = [j \in Jobs |-> 0]
  /\ backoff = [j \in Jobs |-> FALSE]

-----------------------------------------------------------------------------
(***************************************************************************)
(* Reading the queue.                                                       *)
(***************************************************************************)
Due(j, now) == status[j] = "PENDING" /\ ScheduledAt[j] <= now /\ ~backoff[j]

\* A row of the contact is PROCESSING under a lease that has not lapsed.
Busy(c) ==
  \E j \in Jobs : ContactOf[j] = c /\ status[j] = "PROCESSING" /\ lease[j] = "live"

Earlier(i, j) == ScheduledAt[i] < ScheduledAt[j] \/ (ScheduledAt[i] = ScheduledAt[j] /\ i < j)

SameContact(i, j) == ContactOf[i] = ContactOf[j]

\* Mutant: the claim does not look for a job of the contact in flight.
EligibleWhileBusy(now) ==
  {j \in Jobs : /\ Due(j, now)
                /\ \A i \in Jobs : SameContact(i, j) /\ Due(i, now) => ~Earlier(i, j)}

Eligible(now) ==
  {j \in Jobs : /\ Due(j, now)
                /\ ~Busy(ContactOf[j])
                /\ \A i \in Jobs : SameContact(i, j) /\ Due(i, now) => ~Earlier(i, j)}

\* The poll alternates between "a reply younger than a minute" and "the
\* earliest of all": either picks a reply, only the second picks the others.
Claimable(j, now) ==
  /\ j \in Eligible(now)
  /\ j \in Replies \/ \A i \in Eligible(now) : ScheduledAt[j] <= ScheduledAt[i]

\* Mutant: attempts are counted without a bound.
CountedOn(j) == attempts[j] + 1

\* The count is only ever compared with the two budgets: it saturates.
Counted(j) == IF attempts[j] < LargestBudget THEN attempts[j] + 1 ELSE attempts[j]

-----------------------------------------------------------------------------
(***************************************************************************)
(* The statements.  Only Cancel, ReconcileReceipt and the sweeps look at    *)
(* the status they overwrite; MarkSent, Defer, Retry and Fail do not.       *)
(***************************************************************************)
Write(j, s, n, b) ==
  /\ status' = [status EXCEPT ![j] = s]
  /\ lease' = [lease EXCEPT ![j] = "none"]
  /\ attempts' = [attempts EXCEPT ![j] = n]
  /\ backoff' = [backoff EXCEPT ![j] = b]

Lock(j) ==
  /\ status' = [status EXCEPT ![j] = "PROCESSING"]
  /\ lease' = [lease EXCEPT ![j] = "live"]
  /\ UNCHANGED <<attempts, backoff>>

MarkSent(j) == Write(j, "SENT", Counted(j), FALSE)
Defer(j) == Write(j, "PENDING", attempts[j], TRUE)
Retry(j) == Write(j, "PENDING", Counted(j), TRUE)
Fail(j) == Write(j, "FAILED", Counted(j), FALSE)

Cancel(j) ==
  IF status[j] \in {"PENDING", "PROCESSING"}
  THEN Write(j, "CANCELLED", attempts[j], FALSE)
  ELSE UNCHANGED queueVars

Closable(j) == status[j] = "PROCESSING" /\ HasReceipt(j)

ReconcileReceipt(j) ==
  IF Closable(j) THEN Write(j, "SENT", attempts[j], FALSE) ELSE UNCHANGED queueVars

Requeue(j) == status[j] \in {"FAILED", "CANCELLED"} /\ Write(j, "PENDING", 0, FALSE)

\* UPDATE ... SET status = 'CANCELLED' WHERE status = 'PENDING' AND the job is in S
CancelPending(S) ==
  LET hit == {j \in S : status[j] = "PENDING"} IN
  /\ status' = [j \in Jobs |-> IF j \in hit THEN "CANCELLED" ELSE status[j]]
  /\ backoff' = [j \in Jobs |-> IF j \in hit THEN FALSE ELSE backoff[j]]
  /\ UNCHANGED <<lease, attempts>>

\* Mutant: the sweep does not look at the age of the lock.
OrphansOfAnyAge == {j \in Jobs : status[j] = "PROCESSING"}

Orphans == {j \in Jobs : status[j] = "PROCESSING" /\ lease[j] = "stale"}

ReleaseOrphans ==
  /\ Orphans # {}
  /\ status' = [j \in Jobs |-> IF j \in Orphans THEN "PENDING" ELSE status[j]]
  /\ lease' = [j \in Jobs |-> IF j \in Orphans THEN "none" ELSE lease[j]]
  /\ UNCHANGED <<attempts, backoff>>

\* Time passes: a lock grows older than LOCK_TIMEOUT, next_attempt_at is reached.
AgeLease(j) ==
  /\ status[j] = "PROCESSING" /\ lease[j] = "live"
  /\ lease' = [lease EXCEPT ![j] = "stale"]
  /\ UNCHANGED <<status, attempts, backoff>>

RenewLease(j) ==
  /\ lease' = [lease EXCEPT ![j] = "live"]
  /\ UNCHANGED <<status, attempts, backoff>>

EndBackoff(j) ==
  /\ backoff[j]
  /\ backoff' = [backoff EXCEPT ![j] = FALSE]
  /\ UNCHANGED <<status, lease, attempts>>
=============================================================================
