SPECIFICATION FairSpec
CONSTANTS
  NumServices = 3
  Real = {1, 3}
  Diags <- MCDiags
  NumNVs = 1
  NumParams = 1
  TaskCapacity = 2
  TaskInterval = 2
  ClockRange = 7
  MaxPass = 2
  MaxRequests = 3
INVARIANTS
  AnswersAreWhole
  AnswersInTurn
  StepsInTimeUnwrapped
PROPERTIES
  AnswersEnd
