CONSTANTS
  Runners = {runThread}
  Addresses = {0, 1, 2}
  ResetPc = 0
  Debug = TRUE
  Joins = TRUE
  HistInit = 2
  HistMax = 3
SPECIFICATION DebuggerSpec
PROPERTY MutexProtectsState
CHECK_DEADLOCK FALSE
