SPECIFICATION FairSpec
CONSTANTS
  Processors = {p1}
  Events = {1, 2}
  MaxEventAttempts = 1
  Rows = {1, 2, 3}
  Slots = 1
  MaxRuns = 3
  Behaviors = {"RESTART", "CONTINUE", "SPECIAL"}
  Faults = {"db", "outage", "refusal", "crash"}
  Budget = 1
CHECK_DEADLOCK FALSE
PROPERTIES
  EveryEventSettles
