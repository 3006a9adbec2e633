CONSTANTS
  f1 = f1
  b1 = b1
  ca = ca
  cb = cb
  cc = cc
  None = None
  Peer = {1, 2}
  File = {f1}
  Backup = {b1}
  ConflictName <- SameName
  Chunk = {ca, cb, cc}
  Version <- SameLength
  Timestamp = {0}
  Link <- Pairs
  NoPush = {}
  NoPull = {}
  Excluded <- NothingExcluded
  MaxChunkIndex = 2
  MaxFileSize = 2
  ChannelCapacity = 1
  InitStatus <- AllUp
  InitDisks <- Shared
  InitMet <- Pairs
  Allowed = {"write", "remove", "pause"}
  MaxOps = 2
  MaxIssued = 3
  Assumed = {"prompt", "patient", "once", "single"}
  MaxRounds = 1
  MaxSkew = 1
SPECIFICATION PacedSpec
INVARIANT EditKept
CHECK_DEADLOCK FALSE
