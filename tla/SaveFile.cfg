SPECIFICATION FairSpec
CONSTANTS
  Images = {v1, v2}
  Absent = Absent
  Short = Short
  Garbled = Garbled
  Shelf <- MCShelf
  Callers = {"all", "rolling", "gb", "box"}
  Kinds = {"read", "write", "swallow", "cut"}
  MaxMishaps = 4
  MaxMisses = 1
INVARIANTS TypeOK CopySurvives ReportTrue
PROPERTIES SwapGuarded SavesGetThrough
