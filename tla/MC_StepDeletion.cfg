SPECIFICATION FairSpec
CONSTANTS
  Requests = {r1}
  Writers = {w1}
  MaxConns = 8
CHECK_DEADLOCK FALSE
PROPERTY StepRemoved
