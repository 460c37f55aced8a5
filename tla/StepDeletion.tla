---------------------------- MODULE StepDeletion ----------------------------
(***************************************************************************)
(* Deleting a campaign step, over a pool of SQLite connections.              *)
(*                                                                          *)
(* InTx (src/internal/storage/sqlite/sqlite.go) takes a connection and the    *)
(* write lock.  Inside it, DeleteStep (campaigns/service.go) makes its first  *)
(* and its last call through the pool, on a connection of its own, and only   *)
(* the cancelling of jobs on the transaction.  Other writers are there: each  *)
(* takes a connection and the lock for one statement.                         *)
(***************************************************************************)
EXTENDS Naturals, FiniteSetsExt

CONSTANTS
  Requests,   \* deletions of the step that the panel asks for
  Writers,    \* one-statement writers: workers, webhooks, the panel
  MaxConns    \* DATABASE_MAX_CONNS

VARIABLES
  pc,         \* where each request or writer is
  conns,      \* conns[a]: how many connections a holds
  lock,       \* who holds SQLite's write lock
  pendingJob, \* the step has a PENDING job, as committed
  step        \* the step exists

vars == <<pc, conns, lock, pendingJob, step>>

Actors == Requests \cup Writers
Nobody == "nobody"

\* "read", "cancel", "delete": inside the transaction, before that statement.
\* "deleting", "writing": a connection is taken, the lock is being waited for.
Init ==
  /\ pc = [a \in Actors |-> "idle"]
  /\ conns = [a \in Actors |-> 0]
  /\ lock = Nobody
  /\ pendingJob = TRUE /\ step = TRUE

Open == MapThenSumSet(LAMBDA a : conns[a], Actors)

Take(a) == Open < MaxConns /\ conns' = [conns EXCEPT ![a] = @ + 1]
Goto(a, to) == pc' = [pc EXCEPT ![a] = to]

\* BEGIN IMMEDIATE, or a statement of its own, waits for the lock on its connection.
Connect(a) ==
  /\ pc[a] = "idle"
  /\ Take(a)
  /\ Goto(a, IF a \in Requests THEN "begin" ELSE "writing")
  /\ UNCHANGED <<lock, pendingJob, step>>

BeginImmediate(a) ==
  /\ pc[a] = "begin" /\ lock = Nobody
  /\ lock' = a /\ Goto(a, "read")
  /\ UNCHANGED <<conns, pendingJob, step>>

WriteOnce(a) ==
  /\ pc[a] = "writing" /\ lock = Nobody
  /\ Goto(a, "done") /\ conns' = [conns EXCEPT ![a] = 0]
  /\ UNCHANGED <<lock, pendingJob, step>>

\* The end of a transaction, or of a statement that was refused.
Rollback(a, to) ==
  /\ Goto(a, to) /\ conns' = [conns EXCEPT ![a] = 0]
  /\ lock' = IF lock = a THEN Nobody ELSE lock
  /\ UNCHANGED <<pendingJob, step>>

\* GetStep: a read on a second connection, which WAL never makes wait for the lock.
GetStep(a) ==
  /\ pc[a] = "read" /\ Open < MaxConns
  /\ IF step THEN Goto(a, "cancel") /\ UNCHANGED <<conns, lock, pendingJob, step>>
             ELSE Rollback(a, "done")

CancelPendingForStep(a) ==
  /\ pc[a] = "cancel"
  /\ Goto(a, "delete")
  /\ UNCHANGED <<conns, lock, pendingJob, step>>

\* Repository.DeleteStep: through the pool, beside the transaction that calls it.
TakeSecond(a) ==
  /\ pc[a] = "delete" /\ Take(a) /\ Goto(a, "deleting")
  /\ UNCHANGED <<lock, pendingJob, step>>

Delete(a) ==
  /\ pc[a] = "deleting" /\ lock = Nobody
  /\ step' = FALSE
  /\ Goto(a, "commit") /\ conns' = [conns EXCEPT ![a] = 1]
  /\ UNCHANGED <<lock, pendingJob>>

Commit(a) ==
  /\ pc[a] = "commit"
  /\ pendingJob' = FALSE /\ lock' = Nobody
  /\ Goto(a, "done") /\ conns' = [conns EXCEPT ![a] = 0]
  /\ UNCHANGED step

\* busy_timeout: SQLITE_BUSY ends the wait, and with it the transaction around it.
Busy(a) ==
  /\ pc[a] \in {"begin", "writing", "deleting"} /\ lock # Nobody
  /\ Rollback(a, "failed")

\* The operator, or the loop behind the writer, tries again.
Retry(a) ==
  /\ pc[a] = "failed" \/ (pc[a] = "done" /\ a \in Writers)
  /\ Goto(a, "idle")
  /\ UNCHANGED <<conns, lock, pendingJob, step>>

Step(a) ==
  \/ Connect(a) \/ BeginImmediate(a) \/ WriteOnce(a) \/ GetStep(a)
  \/ CancelPendingForStep(a) \/ TakeSecond(a) \/ Delete(a) \/ Commit(a) \/ Busy(a) \/ Retry(a)

Next == \E a \in Actors : Step(a)

\* Nobody waits for ever where it could go on; who asked for the deletion asks again,
\* and among those who wait for a connection or the lock none is starved.
Fairness ==
  \A a \in Actors :
     /\ WF_vars(Step(a))
     /\ SF_vars(Connect(a)) /\ SF_vars(BeginImmediate(a)) /\ SF_vars(GetStep(a))
     /\ SF_vars(TakeSecond(a)) /\ SF_vars(Delete(a))

Spec == Init /\ [][Next]_vars
FairSpec == Spec /\ Fairness

-----------------------------------------------------------------------------
\* Claimed, and not so: the request "cancels pending jobs for the step, then removes
\* it" (docs/API.md:496), if not at once, then when it is repeated.
StepRemoved == <>(~step)
=============================================================================
