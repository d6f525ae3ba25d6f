SPECIFICATION FairSpec
CONSTANTS
  Size = 3
  Data = {d1, d2}
  NoData = NoData
  IrqLevels = {2}
  StaleLevels = {0, 7}
  Ops <- MCOps
INVARIANTS TypeOK MutualExclusion NeverSpins
PROPERTIES RingIsQueue CallsReturn
