SPECIFICATION XferSpec
CONSTANTS
  Kinds = {"undone"}
  Most = 2
  MaxMoves = 5
  MaxMishaps = 0
INVARIANT TwinsRecorded
CHECK_DEADLOCK FALSE
