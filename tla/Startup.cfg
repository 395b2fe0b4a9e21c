SPECIFICATION FairSpec
CONSTANTS
  Data = {b1, b2}
  None = None
  BufSz = 3
  MaxBytes = 4
INVARIANTS
  TypeOK
  NoNullUse
  NoByteStuck
PROPERTIES
  QueueSpec
  EveryByteRead
CHECK_DEADLOCK FALSE
