SPECIFICATION Spec
CONSTANTS
  Workers = {w1, w2}
  Jobs = {1, 2}
  Rows = {1, 2}
  Contacts = {c1}
  ContactOf <- OneContact
  ScheduledAt <- AllDueAtOnce
  Replies = {1}
  LoadAttempts = 3
  MaxAttempts = 2
  Slots = 1
  TTL = 1
  Grace = 0
  Cap = 9
  MaxClock = 1
  Limit <- InterferenceLimit
  Together = 4
SYMMETRY WorkerSymmetry
CHECK_DEADLOCK FALSE
INVARIANTS
  OneCopyUnlessAckLost
  SentHasReceipt
  NoLateCopies
