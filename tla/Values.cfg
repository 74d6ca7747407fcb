SPECIFICATION Spec
CONSTANTS
  Texts <- MCTexts
  Blobs <- MCBlobs
  Reals <- MCReals
  Ints <- MCInts
  ChunkChars = 3
  ChunkBytes = 2
  kColumnBufferSize = 8
  MaxRows = 3
INVARIANT
  ValuesSurvive
