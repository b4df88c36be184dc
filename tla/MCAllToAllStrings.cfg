SPECIFICATION Spec
CONSTANTS
  Size = 2
  NumRows = 3
  Starts = {1}
  StrOff <- MCStrOff
  Offsets <- MCOffsets
  Options <- PlainOptions
  Calls <- NoCompression
  CompressedSize <- MCCompressedSize
INVARIANT StringsIntact
