CONSTANTS
  Runners = {r1, r2}
  Addresses = {0, 1, 2}
  ResetPc = 0
  Debug = TRUE
  Joins = TRUE
SPECIFICATION Spec
PROPERTY StopHasStopped
