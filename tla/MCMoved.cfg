CONSTANTS
  doc = doc
  tmp = tmp
  copy = copy
  text = text
  Empty = Empty
  Dir = Dir
  None = None
  Name = {doc, tmp, copy}
  Excluded = {tmp}
  BackupName = {copy}
  ConflictName <- Beside
  Movable <- MovedAnything
  MaxDepth = 2
  Data = {Empty, text}
  InitFolders <- Start
  Remote <- FewChanges
  MaxOps = 4
  Patient = TRUE
  Spaced = TRUE
SPECIFICATION Spec
INVARIANT IndexIsFolder
CHECK_DEADLOCK FALSE
