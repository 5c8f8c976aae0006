SPECIFICATION Spec
CONSTANTS
  QueueSize = 3
  Radix = 2
  Frames <- FaultFrames
  InputGap = 0
  TornWrites = TRUE
  MaxPowerLoss = 2
  MaxInputs = 5
INVARIANTS
  TypeOK
  FlagTracksMode
  RamIsStored
  NoDataFromBefore
PROPERTY
  NumberChangeAnnounced
