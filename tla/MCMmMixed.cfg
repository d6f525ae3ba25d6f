SPECIFICATION Spec
CONSTANTS
  Blocks = 2
  Sizes <- TwoChunkSizes
  MaxLive = 4
INVARIANT ChunkIsFull
