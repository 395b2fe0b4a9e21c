SPECIFICATION FairSpec
CONSTANTS
  main = main
  a = a
  b = b
  idle = idle
  Thread = {main, a, b, idle}
  Main = main
  Idle = idle
  Prio <- Three
  Slice <- Slices
  Calls <- Roles
  Times = {1, 2}
  TickMod = 8
  SemMax = 1
INVARIANTS
  TypeOK
  NoThreadLost
  HighestRuns
  TimersAhead
PROPERTIES
  SemaphoreSpec
  Served
  NotPassedOver
