SPECIFICATION FairSpec
CONSTANTS
  QueueSize = 8
  Radix = 2
  Frames <- SetupFrames
  InputGap = 9
  TornWrites = FALSE
  MaxPowerLoss = 1
  MaxInputs = 9
INVARIANTS
  NumberWasGiven
  NoOverflow
PROPERTIES
  LedsSettle
