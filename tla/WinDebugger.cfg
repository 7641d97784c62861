\* Two run threads, so that Run can be clicked while the first is still there.
CONSTANTS
  Runners = {r1, r2}
  Addresses = {0, 1}
  ResetPc = 0
  Debug = TRUE
  Joins = FALSE
SPECIFICATION WindowSpec
INVARIANTS
  ButtonsTellTheTruth
  TrapStops
  ViewsCurrent
PROPERTY SpinEnds
CHECK_DEADLOCK FALSE
