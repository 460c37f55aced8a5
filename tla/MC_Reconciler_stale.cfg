SPECIFICATION FairSpec
CONSTANTS
  Steps = {1, 2, 3}
  Trigger = {1}
  Greeting = 1
  Daily = {2, 3}
  MinJoined <- OpenToAll
  Day = 2
  Behaviours = {"CONTINUE"}
  CatchUp = TRUE
  Policies = {"SEND_NEXT_VALID", "SKIP_EXPIRED"}
  TriggerDelay = 1
  Grace = 0
  TTL = 1
  Initial <- TwoSteps
  Events = {3}
  Offsets <- OneOffset
  Series = {FALSE}
  Passes = {p1}
  MaxOffset = 1
  MaxRuns = 1
  MaxClock = 3
  Horizon = 3
  Happens = {"trigger", "edit", "consent"}
  Limit = 5
CHECK_DEADLOCK FALSE
PROPERTY NeverResurrected
