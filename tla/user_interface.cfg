SPECIFICATION Spec
CONSTANTS
  UNINITIALISED = UNINITIALISED
  SETUP = SETUP
  NORMAL = NORMAL
  ClockRange = 7
  SwTrHold = 3
  MediumFrom = 1
  MediumTo = 2
  ShortBelow = 1
  BlinkRate = 2
  PulseActivity = 1
  PulseWork = 2
  MaxPass = 1
  MaxPress = 5
  Backlog = 2
INVARIANTS
  ModeIsShown
  PulsesLastUnwrapped
  PressIsUnderstood
