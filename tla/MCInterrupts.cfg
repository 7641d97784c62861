\* No NMI is raised with a frame open, but one latched too late to be seen at
\* its boundary is taken inside the IRQ or BRK handler entered there, and its own
\* handler is open to IRQs: three frames, and a stack that wraps around page one.
CONSTANTS
  MemSize = 65536
  Image <- MCImage
  MaxNest = 1
SPECIFICATION GSpec
INVARIANTS
  HandlerCanTellBrk
PROPERTIES
  ImplementsGate
  ReturnsToInterrupted
  TidyHandlers
  NmiDelivered
  IrqNotStarved
