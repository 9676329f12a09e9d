CONSTANTS
  Base = 3
  BUFFER_SIZE = 7
  CutsFrames = TRUE
  Piece <- MCPiece
  MaxMessage = 2
  MaxMessages = 3
SPECIFICATION LiveSpec
CHECK_DEADLOCK FALSE
INVARIANTS
  TypeOK
  BufferIsLargeEnough
PROPERTIES
  FramesAreWholeChunks
  DeliversMessages
  MessagesArrive
