CONSTANTS
  f1 = f1
  b1 = b1
  ca = ca
  cb = cb
  None = None
  Peer = {1, 2}
  File = {f1}
  Backup = {b1}
  ConflictName <- SameName
  Chunk = {ca, cb}
  Version <- ShortAndLong
  Timestamp = {1}
  Link <- Pairs
  NoPush = {}
  NoPull = {}
  Excluded <- Peer2Excludes
  MaxChunkIndex = 2
  MaxFileSize = 2
  ChannelCapacity = 1
  InitStatus <- AllUp
  InitDisks <- Shared
  InitMet <- Pairs
  Allowed = {"remove"}
  MaxOps = 1
  MaxIssued = 2
SPECIFICATION Spec
PROPERTY ExcludedFileKept
CHECK_DEADLOCK FALSE
