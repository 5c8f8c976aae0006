SPECIFICATION StorageSpec
CONSTANTS
  Drivers = {"flash"}
  PageSize = 2
  NumPages = 2
  ChipPage = 2
  FirstErased = 1
  RunLength = 2
  Values = {0, 1}
  MaxWrites = 3
  MaxFailures = 0
INVARIANT
  WritesLand
CHECK_DEADLOCK FALSE
