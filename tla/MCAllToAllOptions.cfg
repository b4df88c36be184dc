SPECIFICATION Spec
CONSTANTS
  Size = 2
  NumRows = 2
  Starts = {0, 1}
  StrOff <- MCStrOff
  Offsets <- MCOffsets
  Options <- AllOptions
  Calls <- AllCalls
  CompressedSize <- MCCompressedSize
INVARIANTS FixedIntact FirstBatchStrings CountsAgree OwnSizes SameOptions
PROPERTY Terminates
