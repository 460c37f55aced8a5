----------------------------- MODULE EventTable -----------------------------
(***************************************************************************)
(* The table webhook_events and the statements that write it                *)
(* (src/internal/inbound/repository.go, reply_state.go, lease.go,            *)
(* recovery.go).  A row is one notification of the provider, kept until it   *)
(* has been acted on.  Every statement is one atomic operator; the modules   *)
(* that EXTEND this one say who runs it, and when.                           *)
(*                                                                          *)
(* Events are numbered in the order of received_at.  A row with the status   *)
(* NONE does not exist.                                                      *)
(***************************************************************************)
EXTENDS Naturals

CONSTANTS
  Events,            \* the notifications the provider can have for the account
  MaxEventAttempts   \* maxWebhookAttempts

ASSUME EventsAssumption ==
  /\ Events \subseteq Nat
  /\ MaxEventAttempts \in Nat \ {0}

VARIABLE event   \* event[e]: the row of notification e

\* What the trigger transaction remembers (trigger_result): what was done, and
\* the run of the enrolment whose greeting is the reply, or 0.
Actions == {"ENROLLED", "RESTARTED", "CONTINUED", "SPECIAL", "IGNORED", "BLOCKED"}
Undecided == [action |-> "NONE", job |-> 0]
Results == [action : Actions \cup {"NONE"}, job : Nat]

EventStatuses == {"NONE", "RECEIVED", "PROCESSING", "PROCESSED", "FAILED"}

\* error: nothing yet, or the reply is in the outbound queue, or the text of a
\* transient or of a permanent failure, or the mark of a recovery by hand.
Errors == {"none", "awaiting", "transient", "permanent", "manual"}

EventRow ==
  [status   : EventStatuses,
   attempts : Nat,
   fresh    : BOOLEAN,    \* updated_at is younger than the lease
   due      : BOOLEAN,    \* next_attempt_at is not ahead
   error    : Errors,
   result   : Results]

EventTypeOK == event \in [Events -> EventRow]

NoRow ==
  [status |-> "NONE", attempts |-> 0, fresh |-> TRUE, due |-> TRUE,
   error |-> "none", result |-> Undecided]

EventInit == event = [e \in Events |-> NoRow]

Stored(e) == event[e].status # "NONE"
Decided(e) == event[e].result # Undecided
Queued(e) == event[e].status = "RECEIVED" /\ event[e].due

Put(e, r) == event' = [event EXCEPT ![e] = r]

-----------------------------------------------------------------------------
(***************************************************************************)
(* Storing and claiming.                                                     *)
(***************************************************************************)
\* ON CONFLICT DO NOTHING, behind a look for the provider's message id.
Insert(e) ==
  IF Stored(e) THEN UNCHANGED event ELSE Put(e, [NoRow EXCEPT !.status = "RECEIVED"])

\* The three lanes of claim(): what has just come in, what does not wait for the
\* outbound queue, anything.  Which events are new enough for the first is left
\* open, so any of those it admits may be its oldest.
LiveLane == {e \in Events : Queued(e) /\ event[e].attempts = 0 /\ ~Decided(e)}
ReadyLane == {e \in Events : Queued(e) /\ event[e].error # "awaiting"}
Oldest(S) == {e \in S : \A d \in S : e <= d}

Claimable == LiveLane \cup Oldest(ReadyLane) \cup Oldest({e \in Events : Queued(e)})

Take(e) ==
  /\ e \in Claimable
  /\ Put(e, [event[e] EXCEPT !.status = "PROCESSING", !.attempts = @ + 1, !.fresh = TRUE])

-----------------------------------------------------------------------------
(***************************************************************************)
(* Closing an attempt.  None of these compares the attempt: a processor that *)
(* lost its lease may close the attempt of the one that took over.           *)
(***************************************************************************)
Held(e) == event[e].status = "PROCESSING"

MarkEvent(e, status, error) ==
  IF Held(e)
  THEN Put(e, [event[e] EXCEPT !.status = status, !.error = error, !.fresh = TRUE])
  ELSE UNCHANGED event

\* A reply waiting in the outbound queue gives its attempt back.
DeferEvent(e, error) ==
  IF Held(e)
  THEN Put(e, [event[e] EXCEPT
                 !.status = "RECEIVED", !.error = error, !.due = FALSE, !.fresh = TRUE,
                 !.attempts = IF error = "awaiting" /\ @ > 0 THEN @ - 1 ELSE @])
  ELSE UNCHANGED event

-----------------------------------------------------------------------------
(***************************************************************************)
(* Leases and recovery.                                                      *)
(***************************************************************************)
\* keepLease: the renewal does compare the attempt.
Renewable(e, attempt) == Held(e) /\ event[e].attempts = attempt
Renew(e) == Put(e, [event[e] EXCEPT !.fresh = TRUE])

Expire(e) == Held(e) /\ event[e].fresh /\ Put(e, [event[e] EXCEPT !.fresh = FALSE])

Abandoned == {e \in Events : Held(e) /\ ~event[e].fresh}

ReleaseAbandoned ==
  event' = [e \in Events |-> IF e \in Abandoned
                             THEN [event[e] EXCEPT !.status = "RECEIVED", !.fresh = TRUE]
                             ELSE event[e]]

BecomeDue(e) == ~event[e].due /\ Put(e, [event[e] EXCEPT !.due = TRUE])

Revive(e, error) ==
  [event[e] EXCEPT !.status = "RECEIVED", !.attempts = 0, !.due = TRUE,
                   !.error = error, !.fresh = TRUE]

\* recoverRetryable, for the incoming messages C: exhausted transient failures
\* start again once RetryMaxDelay has passed.
Exhausted(C) == {e \in C : event[e].status = "FAILED" /\ event[e].error = "transient"}

RecoverExhausted(C) ==
  event' = [e \in Events |-> IF e \in Exhausted(C) THEN Revive(e, event[e].error) ELSE event[e]]

\* The checkpoint of the trigger transaction.
Checkpoint(e, result) == Put(e, [event[e] EXCEPT !.result = result])
=============================================================================
