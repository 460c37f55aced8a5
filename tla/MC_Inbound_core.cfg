SPECIFICATION Spec
CONSTANTS
  Processors = {p1, p2}
  Events = {1, 2}
  MaxEventAttempts = 2
  Rows = {1, 2, 3}
  Slots = 1
  MaxRuns = 1
  Behaviors = {"SPECIAL"}
  Faults <- EveryFault
  Budget = 1
SYMMETRY ProcessorSymmetry
CHECK_DEADLOCK FALSE
INVARIANTS
  TypeOK
  StopIsComplete
  ProcessedIsAnswered
PROPERTIES
  KeepsPromise
