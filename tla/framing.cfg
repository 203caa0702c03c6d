SPECIFICATION Spec
CONSTANTS
  Frames = 7
  ClearFrames = 4
  End <- MCEnd
  VarInt <- MCVarInt
  Block = 3
  MaxReads = 2
INVARIANTS TypeOK FramesInOrder BufferIsStream Backlog
CHECK_DEADLOCK FALSE
