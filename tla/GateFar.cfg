SPECIFICATION Spec
CONSTANTS
  Distances = {20, 120, 256}
  Timed = FALSE
  UpCap = 2
  IrCap = 2
  Cached = {}
  MaxReqLost = 0
  MaxIrLost = 0
  MaxLate = 1
  MaxFail = 0
INVARIANTS
  PassAfterOpen
CHECK_DEADLOCK FALSE
