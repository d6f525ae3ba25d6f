SPECIFICATION Spec
CONSTANTS
  Blocks = 2
  Sizes <- OneChunkSize
  MaxLive = 8
INVARIANTS TypeOK NoOverlap NothingLeaks ChunkIsFull
PROPERTY FreeTellsSize
