SPECIFICATION Spec
CONSTANTS
  Workers = {w1, w2}
  Jobs = {1, 2, 3, 4, 5}
  Rows = {1}
  Contacts = {c1, c2}
  ContactOf <- TwoContacts
  ScheduledAt <- AllDueAtOnce
  Replies = {1}
  LoadAttempts = 2
  MaxAttempts = 1
  Slots = 1
  TTL = 1
  Grace = 0
  Cap = 1
  MaxClock = 0
  Limit <- CapLimit
  Together = 1
SYMMETRY WorkerSymmetry
CHECK_DEADLOCK FALSE
INVARIANTS
  CapOverrunBounded
