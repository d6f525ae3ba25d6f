SPECIFICATION FairSpec
CONSTANTS
  Chans <- OneChannel
  Cap = 1
  MaxTx = 2
  MaxRx = 4
  MaxConfig = 2
  FifoSize = 2
  LineErrors = {TRUE, FALSE}
CHECK_DEADLOCK FALSE
INVARIANTS TypeOK TxWakeup TxOnce RxInOrder RxListens
PROPERTY TxDrains
