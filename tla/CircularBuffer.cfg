SPECIFICATION Spec
CONSTANTS
  Capacity = 4
  ByteSize = 8
  Item = {a, b}
  NoItem = NoItem
INVARIANTS
  TypeOK
  HighWaterMark
  CountersAddUp
PROPERTY RefinesQueue
