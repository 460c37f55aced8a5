------------------------------- MODULE Outbox -------------------------------
(***************************************************************************)
(* What the delivery path promises about the copies of one message, with    *)
(* no queue, lease, worker or crash in sight:                                *)
(*                                                                          *)
(*   - an attempt is opened only when every earlier one has been written     *)
(*     off as failed, so an attempt of unknown outcome blocks the next one;  *)
(*   - a copy reaches the customer only under an open attempt;               *)
(*   - an attempt is acknowledged only if its copy reached the customer, and *)
(*     an acknowledged message is never attempted again.                     *)
(*                                                                          *)
(* The comment of Sender.Send (src/internal/messaging/sender.go:105-114)     *)
(* gives the same order of operations.                                       *)
(***************************************************************************)
EXTENDS MessageLog

Attempt(j, n) ==
  /\ \A m \in Rows : row[j][m] \in {"NONE", "FAILED"}
  /\ row[j][n] = "NONE"
  /\ SetRow(j, n, "PENDING")

\* One crash of the process catches every attempt on the wire at once, and any
\* of them may have been delivered: hence a set of copies in one step.
Deliver ==
  /\ accepted' \in [Jobs -> SUBSET Rows]
  /\ \A j \in Jobs :
        /\ accepted[j] \subseteq accepted'[j]
        /\ \A n \in accepted'[j] \ accepted[j] : row[j][n] = "PENDING"
  /\ UNCHANGED row

Acknowledge(j, n) ==
  /\ row[j][n] = "PENDING"
  /\ n \in accepted[j]
  /\ SetRow(j, n, "SENT")

WriteOff(j, n) == row[j][n] = "PENDING" /\ SetRow(j, n, "FAILED")

OutboxNext ==
  \/ Deliver
  \/ \E j \in Jobs, n \in Rows : Attempt(j, n) \/ Acknowledge(j, n) \/ WriteOff(j, n)

OutboxSpec == LogInit /\ [][OutboxNext]_logVars
=============================================================================
