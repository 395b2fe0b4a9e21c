SPECIFICATION Spec
CONSTANTS
  TimClockMHz = 64
  PeriodNs = 1000000
  Speeds <- MCSpeeds
INVARIANTS
  NeverHeader
  PulseIsSpeed
  DutyIsSpeed
CHECK_DEADLOCK FALSE
