CONSTANTS
  MemSize = 65536
  Image <- MCImage
SPECIFICATION HostSpec
INVARIANT DirectWriteObeyed
