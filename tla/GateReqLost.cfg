SPECIFICATION FairSpec
CONSTANTS
  Distances = {20, 120}
  Timed = TRUE
  UpCap = 2
  IrCap = 2
  Cached = {}
  MaxReqLost = 1
  MaxIrLost = 0
  MaxLate = 1
  MaxFail = 0
PROPERTIES
  RoverPasses
CHECK_DEADLOCK FALSE
