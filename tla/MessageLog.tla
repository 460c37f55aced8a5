----------------------------- MODULE MessageLog -----------------------------
(***************************************************************************)
(* The outgoing rows of the table messages that belong to scheduled jobs    *)
(* (src/internal/conversations/repository.go), beside what the WhatsApp     *)
(* provider really did with each of them.  A row is one attempt: it is      *)
(* PENDING from before the HTTP request, SENT (provider id and sent_at      *)
(* recorded; DELIVERED and READ are the same here) or FAILED afterwards.     *)
(***************************************************************************)
EXTENDS Naturals

CONSTANTS
  Jobs,    \* the scheduled messages, each owed to one contact
  Rows     \* the attempts one job can have

ASSUME RowsAssumption == Rows \subseteq Nat

VARIABLES
  row,       \* row[j][n]: the status of job j's n-th row
  accepted   \* accepted[j]: the rows whose message reached the customer

logVars == <<row, accepted>>

RowStates == {"NONE", "PENDING", "SENT", "FAILED"}

LogTypeOK ==
  /\ row \in [Jobs -> [Rows -> RowStates]]
  /\ accepted \in [Jobs -> SUBSET Rows]

LogInit ==
  /\ row = [j \in Jobs |-> [n \in Rows |-> "NONE"]]
  /\ accepted = [j \in Jobs |-> {}]

-----------------------------------------------------------------------------
HasReceipt(j) == \E n \in Rows : row[j][n] = "SENT"      \* SuccessfulOutbound

InDoubt(j) == \E n \in Rows : row[j][n] = "PENDING"      \* UncertainOutbound

Unused(j, n) == row[j][n] = "NONE" /\ \A m \in Rows : m < n => row[j][m] # "NONE"

SetRow(j, n, s) == row' = [row EXCEPT ![j][n] = s] /\ UNCHANGED accepted

\* The provider takes the message.  Nothing local records it.
Reach(j, n) == accepted' = [accepted EXCEPT ![j] = @ \cup {n}] /\ UNCHANGED row
=============================================================================
