SPECIFICATION FairSpec
CONSTANTS
  Sender = {s1, s2}
  Stream = {a, b}
  Subscribed = {a}
  Lens = {1, 5}
  FragBytes = 2
  SeqRange = 4
  BufferLen = 3
  Concurrent = FALSE
  MaxSends = 3
  MaxFaults = 2
INVARIANTS
  HandedIsPrefix
  CompleteIsWhole
  NoErrorWithoutFault
  NothingLostInSilence
PROPERTY
  ReceptionEnds
CHECK_DEADLOCK FALSE
