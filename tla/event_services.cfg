SPECIFICATION Spec
CONSTANTS
  NumEvents = 2
  NumEVs = 2
  Services = {"byEvent", "bySlot"}
  Taught <- MCTaught
  Switches = {1}
  Values = {1}
  TaskCapacity = 1
  Cuts = {9}
  nodeNum = 1
INVARIANTS
  TypeOK
  HashFollowsSlots
  NoDuplicates
  FreeSlotsAreBlank
  OneEventPerSwitchUndamaged
  ReportIsComplete
PROPERTY
  RefinesMap
