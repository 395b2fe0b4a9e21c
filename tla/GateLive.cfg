SPECIFICATION FairSpec
CONSTANTS
  Distances = {20, 120}
  Timed = TRUE
  UpCap = 2
  IrCap = 6
  Cached = {"rover"}
  MaxReqLost = 0
  MaxIrLost = 4
  MaxLate = 3
  MaxFail = 0
PROPERTIES
  RoverPasses
CHECK_DEADLOCK FALSE
