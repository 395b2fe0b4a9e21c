SPECIFICATION Spec
CONSTANTS
  StartStates = {3}
  ArrowLimit = 5
  NearLimit = 3
  DisConst = 35
  Bytes = {0, 20, 120}
  UartCap = 2
  Edges = {0, 49, 60, 79}
PROPERTIES
  Smoothed
CHECK_DEADLOCK FALSE
