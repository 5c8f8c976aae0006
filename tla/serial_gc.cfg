SPECIFICATION Spec
CONSTANTS
  Frames <- LimitFrames
  Peers = {"SerialGC", "lower case"}
  None = None
  RXBUFFERSIZE = 30
  CountRange = 2
PROPERTIES
  RefinesLink
