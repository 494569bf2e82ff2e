CONSTANTS
  None = None
  Slots = {a, b, c}
  Mons = {x, y}
  Kinds = {"flush", "lost", "open", "save"}
  PendMax = 2
  MaxSeq = 3
  MaxMishaps = 1
SPECIFICATION HistorySpec
INVARIANTS
  HistoryTypeOK
  CursorTellsImage
  MonsAllThere
  ReapplyReaches
  DeclinedStaysDeclined
PROPERTIES
  NoneComesBack
SYMMETRY Alike
CHECK_DEADLOCK FALSE
