SPECIFICATION FairSpec
CONSTANTS
  StartStates = {1, 3}
  ArrowLimit = 5
  NearLimit = 3
  DisConst = 35
  Bytes = {0, 20, 120}
  UartCap = 2
  Edges = {0, 49, 60, 79}
INVARIANTS
  ObstaclePersists
  NearStops
  StandsAtGate
  InReach
PROPERTIES
  DetourFromRest
  GreenAfterStop
  RestartsStraight
  GoesAround
  EndsAtRest
CHECK_DEADLOCK FALSE
