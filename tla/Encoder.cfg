SPECIFICATION FairSpec
CONSTANTS
  Reload = 7
  Threshold = 3
  MaxMoves = 3
INVARIANTS
  AcceptedIsTrue
  DiscardsHaveCause
PROPERTIES
  StandsStill
