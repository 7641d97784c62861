\* All 256 opcodes; page crossings, zero-page, stack and pc wrap.
CONSTANTS
  MemSize = 65536
  Image <- Background
  PCs = {512, 65534}
  Operands <- MCOperands
  Indexes = {0, 255}
  SPs = {0, 253}
  Statuses <- MCStatuses
SPECIFICATION SpecLoaded
INVARIANTS
  TypeOK
  StatusBits
  AccessesWithinCycles
  EveryCycleOnTheBus
  DeviceSees
  ListingInSync
  OnlyTheseWriteI
