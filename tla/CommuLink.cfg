SPECIFICATION FairSpec
CONSTANTS
  TimClockMHz = 64
  PeriodNs = 1000000
  Cmds <- Tricky
  RxCap = 20
  SemMax = 2
  MaxCmds = 2
  MaxGates = 1
  MaxLost = 1
INVARIANTS
  TypeOK
  InOrder
  NoForgedGate
PROPERTIES
  RegisterSpec
  GateRequestArrives
  LastCommandWins
CHECK_DEADLOCK FALSE
