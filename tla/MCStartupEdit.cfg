CONSTANTS
  f1 = f1
  b1 = b1
  ca = ca
  cb = cb
  None = None
  Peer = {1, 2}
  File = {f1}
  Backup = {b1}
  ConflictName <- SameName
  Chunk = {ca, cb}
  Version <- One
  Timestamp = {1}
  Link <- Pairs
  NoPush = {}
  NoPull = {}
  Excluded <- NothingExcluded
  MaxChunkIndex = 2
  MaxFileSize = 2
  ChannelCapacity = 1
  InitStatus <- SecondOff
  InitDisks <- Shared
  InitMet <- Pairs
  Allowed = {"write"}
  MaxOps = 1
  MaxIssued = 2
SPECIFICATION Spec
INVARIANT IndexCurrent
CHECK_DEADLOCK FALSE
