SPECIFICATION FairSpec
CONSTANTS
  Steps = {1, 2, 3}
  Trigger = {1}
  Greeting = 1
  Daily = {2, 3}
  MinJoined <- OpenFromStart
  Day = 2
  Behaviours = {"RESTART", "CONTINUE"}
  CatchUp = TRUE
  Policies = {"SEND_NEXT_VALID", "SKIP_EXPIRED"}
  TriggerDelay = 1
  Grace = 0
  TTL = 1
  Initial <- TwoSteps
  Events = {0, 2}
  Offsets <- OneOffset
  Series = {TRUE, FALSE}
  Passes = {p1}
  MaxOffset = 1
  MaxRuns = 2
  MaxClock = 2
  Horizon = 1
  Happens = {"trigger", "edit", "pause", "close", "consent", "fault"}
  Limit = 3
CHECK_DEADLOCK FALSE
INVARIANTS
  TypeOK
  SilenceIsRight
  OnePassIsEnough
PROPERTIES
  OnlyLiveWorkMoves
  PlanStands
  Converges
  EnrollmentsClose
