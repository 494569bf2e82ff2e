SPECIFICATION JournalSpec
CONSTANTS
  Ring = 2
  MaxSegs = 1
  SegCap = 3
  PendMax = 2
  ChainLen = 2
  ZWindow = 2
  MaxIdx = 3
  Kinds = {"read", "write", "lose", "recheck", "cut", "reread"}
  MaxSteps = 4
  MaxMishaps = 1
INVARIANTS UndoneStaysUndone
CHECK_DEADLOCK FALSE
