\* 5/3 ns per cycle: every charge but one of 3 cycles is truncated.  A delay of 9
\* and an oversleep of 8 exceed RESYNC_NS, the other ones do not.
CONSTANTS
  CycleNum = 5
  CycleDen = 3
  RESYNC_NS = 6
  Costs = {2, 3}
  Delays = {0, 2, 9}
  Oversleeps = {0, 1, 8}
  Uptimes = {0, 12}
  MaxTime = 40
  MaxCycles = 15
SPECIFICATION Spec
INVARIANTS
  SpeedLimit
  CatchUpBounded
CHECK_DEADLOCK FALSE
