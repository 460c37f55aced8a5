---------------------------- MODULE Notifications ---------------------------
(***************************************************************************)
(* What a Green API notification means (src/internal/whatsapp/greenapi/       *)
(* webhook.go, notification.go), the key by which it is recognised when it    *)
(* comes again, and what the status it carries does to the message it is      *)
(* about (src/internal/whatsapp/events.go, conversations/repository.go).      *)
(*                                                                          *)
(* A notification's body is its type, the message id and status in it, and    *)
(* the rest of its bytes.  Its hash is the body itself.                       *)
(***************************************************************************)
EXTENDS Integers, Sequences, SequencesExt

CONSTANTS NoId

Types == {"incomingMessageReceived", "outgoingMessageReceived", "outgoingAPIMessageReceived",
          "outgoingMessageStatus", "stateInstanceChanged", "incomingCall"}

Kind(type) ==
  CASE type = "incomingMessageReceived" -> "INCOMING_MESSAGE"
    [] type \in {"outgoingMessageReceived", "outgoingAPIMessageReceived"} -> "OUTGOING_MESSAGE"
    [] type = "outgoingMessageStatus" -> "OUTGOING_STATUS"
    [] type = "stateInstanceChanged" -> "STATE_CHANGED"
    [] type = "incomingCall" -> "INCOMING_CALL"
    [] OTHER -> "UNKNOWN"

\* The statuses a provider reports, as they are written after ToLower.
MapStatus(raw) ==
  CASE raw = "sent" -> "SENT"
    [] raw = "delivered" -> "DELIVERED"
    [] raw = "read" -> "READ"
    [] raw \in {"failed", "noaccount", "notingroup", "yellowcard"} -> "FAILED"
    [] OTHER -> ""

\* ParseWebhook; a notification without a type is refused.
Parsed(body) ==
  [kind |-> Kind(body.type), external |-> body.id,
   status |-> IF body.type = "outgoingMessageStatus" THEN MapStatus(body.status) ELSE "",
   rest |-> body.rest]

\* Mutant: one key per message, whatever its status.
DedupeKeyOfMessage(body) ==
  IF body.id = NoId THEN <<body.type, "sha256", body>> ELSE <<body.type, body.id>>

DedupeKey(body) ==
  IF body.id = NoId THEN <<body.type, "sha256", body>>
  ELSE IF body.type = "outgoingMessageStatus" THEN <<body.type, body.id, body.status>>
  ELSE <<body.type, body.id>>

\* scopedDedupeKey: ids are unique within one account only.
ScopedDedupeKey(account, body) == <<account, DedupeKey(body)>>

-----------------------------------------------------------------------------
Rank(status) ==
  CASE status = "SENT" -> 1
    [] status = "DELIVERED" -> 2
    [] status = "READ" -> 3
    [] status = "FAILED" -> 4
    [] OTHER -> 0

\* A time that is set stays: COALESCE(delivered_at, now).
FirstTime(at, now) == IF at = 0 THEN now ELSE at

\* Mutant: the last notification wins.
ApplyStatusLast(row, status, now) ==
  IF status = "" THEN row
  ELSE [status |-> status,
        delivered |-> IF status \in {"DELIVERED", "READ"} THEN FirstTime(row.delivered, now) ELSE row.delivered,
        read |-> IF status = "READ" THEN FirstTime(row.read, now) ELSE row.read]

\* Repository.ApplyStatus on the row with the notification's message id.
ApplyStatus(row, status, now) ==
  IF status = "" \/ Rank(status) <= Rank(row.status) THEN row
  ELSE [status |-> status,
        delivered |-> IF status \in {"DELIVERED", "READ"} THEN FirstTime(row.delivered, now) ELSE row.delivered,
        read |-> IF status = "READ" THEN FirstTime(row.read, now) ELSE row.read]

\* A row after the statuses reported of it, in the order they came in: the n-th
\* at time n.
Sent == [status |-> "SENT", delivered |-> 0, read |-> 0]

After(statuses) ==
  LET row[n \in 0..Len(statuses)] ==
        IF n = 0 THEN Sent ELSE ApplyStatus(row[n - 1], statuses[n], n)
  IN row[Len(statuses)]
=============================================================================
