SPECIFICATION StorageSpec
CONSTANTS
  Drivers = {"chip", "i2c", "due", "flash", "buffered"}
  PageSize = 3
  NumPages = 2
  ChipPage = 2
  FirstErased = 1
  RunLength = 2
  Values = {0, 1}
  MaxWrites = 3
  MaxFailures = 1
INVARIANTS
  WritesLandWithinPages
CHECK_DEADLOCK FALSE
