CONSTANTS
  doc = doc
  tmp = tmp
  copy = copy
  text = text
  Empty = Empty
  Dir = Dir
  None = None
  Name = {doc, tmp, copy}
  Excluded = {tmp}
  BackupName = {copy}
  ConflictName <- Beside
  Movable <- MovedAside
  MaxDepth = 2
  Data = {Empty, text}
  InitFolders <- Start
  Remote <- DirectoryDeleted
  MaxOps = 4
  Patient = TRUE
  Spaced = FALSE
SPECIFICATION Spec
INVARIANT IndexIsFolder
CHECK_DEADLOCK FALSE
