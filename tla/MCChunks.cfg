CONSTANTS
  a = a
  b = b
  Byte = {a, b}
  Zero = Zero
  MaxLength = 4
  SourceChunkSize = 2
  TargetChunkSize = 2
  MaxIndexes = {1, 2}
  MaxFileSize = 3
SPECIFICATION Spec
INVARIANTS TypeOK OverlayByChunk BytesInPlace HashIsContent SizeRespected
