\* Two threads take turns at run(): the host joins one before it launches the next.
CONSTANTS
  Runners = {r1, r2}
  Addresses = {0, 1, 2}
  ResetPc = 0
  Debug = TRUE
  Joins = TRUE
SPECIFICATION Spec
INVARIANTS
  RunInv
  ResetExcludesSteps
  NoSpuriousReturn
PROPERTIES
  BreakpointRespected
  StopReturnsUnlessErased
  PauseObeyed
