SPECIFICATION FairSpec
CONSTANTS
  Retries = 2
  BufSize = 2
  KbCap = 2
  MaxKeys = 1
  MaxMoves = 2
  MaxFaults = 1
CHECK_DEADLOCK FALSE
INVARIANTS TypeOK CommandsUndisturbed SuccessMeansReady PacketsWhole HandlerReturns
PROPERTIES StartUpEnds KeysArrive
