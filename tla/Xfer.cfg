SPECIFICATION XferSpec
CONSTANTS
  Kinds = {}
  Most = 2
  MaxMoves = 7
  MaxMishaps = 2
INVARIANTS
  XferTypeOK
  NothingLost
  TwinsRecorded
PROPERTIES
  RestoresOnlyTheLost
  ClaimsAreProven
CHECK_DEADLOCK FALSE
