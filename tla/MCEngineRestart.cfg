CONSTANTS
  f1 = f1
  b1 = b1
  ca = ca
  cb = cb
  None = None
  Peer = {1, 2, 3}
  File = {f1}
  Backup = {b1}
  ConflictName <- SameName
  Chunk = {ca, cb}
  Version <- One
  Timestamp = {1}
  Link <- Pairs
  NoPush = {}
  NoPull = {}
  Excluded <- NothingExcluded
  MaxChunkIndex = 1
  MaxFileSize = 2
  ChannelCapacity = 1
  InitStatus <- SpareId
  InitDisks <- Shared
  InitMet <- Pairs
  Allowed = {"write", "restart"}
  MaxOps = 2
  MaxIssued = 1
SPECIFICATION Spec
INVARIANTS NoInventedEdits
PROPERTY ImplementsHistory
CHECK_DEADLOCK FALSE
