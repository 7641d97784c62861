\* Every accumulator value is reached with both carries, both modes and both
\* wirings; the invariants then try all 256 operands in each of these states.
CONSTANT
  Operands = {1, 153}
SPECIFICATION Spec
INVARIANTS
  AdcIsAddition
  SbcIsSubtraction
  SbcUndoesAdc
  CmpIsUnsignedOrder
