SPECIFICATION FairSpec
CONSTANTS
  Workers = {w1, w2}
  Jobs = {1, 2}
  Rows = {1, 2, 3, 4}
  Contacts = {c1}
  ContactOf <- OneContact
  ScheduledAt <- AllDueAtOnce
  Replies = {1}
  LoadAttempts = 1
  MaxAttempts = 2
  Slots = 1
  TTL = 1
  Grace = 0
  Cap = 9
  MaxClock = 2
  Limit <- CoreLimit
  Together = 3
CHECK_DEADLOCK FALSE
INVARIANTS
  TypeOK
  OneInFlight
  OwedReplyRetained
  AttemptsBounded
PROPERTIES
  ImplementsOutbox
  SentIsHistory
  EveryJobSettles
