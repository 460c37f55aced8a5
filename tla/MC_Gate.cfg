SPECIFICATION FairSpec
CONSTANTS
  Callers = {c1, c2, c3}
  Settings <- TwoAccounts
  Targets = {0, 2, 3}
  Healthy = {1}
  MaxCalls = 4
  Horizon = 0
CHECK_DEADLOCK FALSE
INVARIANTS
  TypeOK
  PaceHolds
  BacklogBounded
PROPERTIES
  HealthyAccountsFlow
