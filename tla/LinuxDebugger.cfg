\* Every order of keys against one run thread; histories of two or three entries
\* stand for the six to ten of the code.
CONSTANTS
  Runners = {runThread}
  Addresses = {0, 1, 2}
  ResetPc = 0
  Debug = TRUE
  Joins = TRUE
  HistInit = 2
  HistMax = 3
SPECIFICATION DebuggerSpec
INVARIANTS
  DebuggerInv
  PausedMeansStill
  HistoryCurrent
PROPERTIES
  HistoryRaceFree
  UiResponds
CHECK_DEADLOCK FALSE
