SPECIFICATION FairJournalSpec
CONSTANTS
  Ring = 2
  MaxSegs = 1
  SegCap = 3
  PendMax = 2
  ChainLen = 2
  ZWindow = 2
  MaxIdx = 3
  Kinds = {"read", "write", "lose", "recheck", "cut"}
  MaxSteps = 4
  MaxMishaps = 2
INVARIANTS JournalTypeOK UndoneStaysUndone SessionSeesCard
PROPERTIES KeepsItsPromise RecordsGetThrough
CHECK_DEADLOCK FALSE
