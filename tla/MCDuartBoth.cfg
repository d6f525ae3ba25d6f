SPECIFICATION Spec
CONSTANTS
  Chans <- BothChannels
  Cap = 2
  MaxTx = 0
  MaxRx = 0
  MaxConfig = 2
  FifoSize = 2
  LineErrors <- NoErrors
CHECK_DEADLOCK FALSE
INVARIANT RxListens
