CONSTANTS
  MemSize = 65536
  Image <- MCImage
SPECIFICATION HostSpec
PROPERTY KilLocks
