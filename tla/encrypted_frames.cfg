SPECIFICATION Spec
CONSTANTS
  Frames = 7
  ClearFrames = 4
  End <- MCEnd
  VarInt <- MCVarInt
  Block = 3
  MaxReads = 2
INVARIANT EncryptedInOrder
CHECK_DEADLOCK FALSE
