\* $0400; $FFFB, where the second byte falls on the reset vector; $FFFE, where the
\* code runs over the end of the address space and misses it.
CONSTANTS
  MemSize = 65536
  Bases = {1024, 65531, 65534}
  Shaped = {"LDA", "JMP", "BNE", "ASL", "NOP"}
  MaxTokens = 5
SPECIFICATION Spec
INVARIANTS
  CodeReadsBack
  ErrorsNamed
  BootsAtBase
CHECK_DEADLOCK FALSE
