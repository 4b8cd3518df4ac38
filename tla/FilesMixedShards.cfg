SPECIFICATION Spec
CONSTANTS
  x = x
  y = y
  DataShards = 2
  ParityShards = 1
  Byte <- MCByte
  Zero <- MCZero
  Missing = Missing
  Parity <- MCParity
  Recover <- MCRecover
  ChunkSize = 2
  SealBytes = 1
  a = a
  b = b
  Owners <- MCOwners
  Files <- MCFiles
  MaxUploads = 2
  None = None
INVARIANTS
  KIntactSuffice
