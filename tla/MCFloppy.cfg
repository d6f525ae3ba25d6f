SPECIFICATION FairSpec
CONSTANTS
  Cylinders = 2
  Sectors = 2
  MaxLba = 7
  MaxCount = 3
  MaxReads = 2
  MaxRefusals = 2
  MaxFlaws = 1
CHECK_DEADLOCK FALSE
INVARIANTS TypeOK OwnInterrupt Prepared ReadsRight
PROPERTIES NoStrayDma CallsReturn
