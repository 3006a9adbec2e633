CONSTANTS
  a = a
  b = b
  Byte = {a, b}
  Zero = Zero
  MaxLength = 3
  SourceChunkSize = 2
  TargetChunkSize = 1
  MaxIndexes = {3}
  MaxFileSize = 5
SPECIFICATION Spec
INVARIANTS BytesInPlace HashIsContent
