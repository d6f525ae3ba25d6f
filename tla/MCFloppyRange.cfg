SPECIFICATION FairSpec
CONSTANTS
  Cylinders = 2
  Sectors = 2
  MaxLba = 8
  MaxCount = 3
  MaxReads = 1
  MaxRefusals = 2
  MaxFlaws = 1
CHECK_DEADLOCK FALSE
INVARIANT RangeChecked
