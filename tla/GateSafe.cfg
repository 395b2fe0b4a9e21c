SPECIFICATION Spec
CONSTANTS
  Distances = {20, 120}
  Timed = FALSE
  UpCap = 2
  IrCap = 2
  Cached = {"rover", "gate"}
  MaxReqLost = 1
  MaxIrLost = 2
  MaxLate = 1
  MaxFail = 1
INVARIANTS
  TypeOK
  PassAfterOpen
PROPERTIES
  LoweredByGate
CHECK_DEADLOCK FALSE
