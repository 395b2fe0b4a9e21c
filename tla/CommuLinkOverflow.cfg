SPECIFICATION Spec
CONSTANTS
  TimClockMHz = 64
  PeriodNs = 1000000
  Cmds <- Torn
  RxCap = 4
  SemMax = 1
  MaxCmds = 3
  MaxGates = 0
  MaxLost = 0
INVARIANTS
  NoLostWakeup
  Settled
  Resync
CHECK_DEADLOCK FALSE
