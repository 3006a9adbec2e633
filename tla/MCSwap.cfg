CONSTANTS
  f1 = f1
  b1 = b1
  ca = ca
  cb = cb
  cc = cc
  None = None
  Peer = {1, 2}
  File = {f1}
  Backup = {b1}
  ConflictName <- SameName
  Chunk = {ca, cb, cc}
  Version <- SameLength
  Timestamp = {0}
  Link <- Pairs
  NoPush = {}
  NoPull = {}
  Excluded <- NothingExcluded
  MaxChunkIndex = 2
  MaxFileSize = 2
  ChannelCapacity = 1
  InitStatus <- AllUp
  InitDisks <- TwoVersions
  InitMet = {}
  Allowed = {"write", "remove", "pause"}
  MaxOps = 0
  MaxIssued = 3
  Assumed = {"prompt", "quiet", "once", "single"}
  MaxRounds = 1
  MaxSkew = 0
SPECIFICATION PacedSpec
INVARIANT FoldersAgree
CHECK_DEADLOCK FALSE
