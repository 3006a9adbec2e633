CONSTANTS
  f1 = f1
  b1 = b1
  ca = ca
  cb = cb
  None = None
  Peer = {1, 2, 3}
  File = {f1}
  Backup = {b1}
  ConflictName <- SameName
  Chunk = {ca, cb}
  Version <- ShortAndLong
  Timestamp = {1}
  Link <- ThroughSecond
  NoPush = {3}
  NoPull = {1}
  Excluded <- Peer3Excludes
  MaxChunkIndex = 2
  MaxFileSize = 1
  ChannelCapacity = 1
  InitStatus <- AllUp
  InitDisks <- VersionsAndCopy
  InitMet <- BothUnmet
  Allowed = {"write", "remove", "pause"}
  MaxOps = 1
  MaxIssued = 1
SPECIFICATION Spec
INVARIANT ExcludedNotIndexed
PROPERTIES ReadonlyFolderKept ExcludedNotWritten
CHECK_DEADLOCK FALSE
