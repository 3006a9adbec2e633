CONSTANTS
  f1 = f1
  b1 = b1
  ca = ca
  cb = cb
  None = None
  Peer = {1, 2}
  File = {f1}
  Backup = {b1}
  ConflictName <- SameName
  Chunk = {ca, cb}
  Version <- ShortAndLong
  Timestamp = {1}
  Link <- Pairs
  NoPush = {}
  NoPull = {}
  Excluded <- NothingExcluded
  MaxChunkIndex = 2
  MaxFileSize = 2
  ChannelCapacity = 1
  InitStatus <- AllUp
  InitDisks <- Shared
  InitMet <- Pairs
  Allowed = {"write", "remove", "move", "loss", "failure"}
  MaxOps = 2
  MaxIssued = 1
SPECIFICATION Spec
INVARIANTS TreeMatchesMeta NoInventedEdits ChunksInPlace
PROPERTY ImplementsHistory
CHECK_DEADLOCK FALSE
