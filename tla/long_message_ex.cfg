SPECIFICATION Spec
CONSTANTS
  Sender = {s1}
  Stream = {a, b, c}
  Subscribed = {a, b}
  Lens = {0, 3, 5}
  FirstZero = {2, 9}
  FragBytes = 2
  SeqRange = 4
  BufferLen = 4
  NumSend = 2
  NumReceive = 2
  CrcBySender = TRUE
  CrcByReceiver = TRUE
  SharedStreams = FALSE
  MaxOnBus = 1
  MaxSends = 3
  MaxFaults = 2
SYMMETRY Symmetry
INVARIANTS
  CompleteIsWhole
  NoErrorWithoutFault
  NothingLostInSilence
CHECK_DEADLOCK FALSE
