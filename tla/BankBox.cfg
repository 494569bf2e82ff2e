SPECIFICATION FairBoxSpec
CONSTANTS
  Images = {v1, v2}
  Absent = Absent
  Short = Short
  Garbled = Garbled
  Shelf <- MCShelf
  Callers = {"box", "heal"}
  Kinds = {"read", "write", "cut"}
  MaxMishaps = 4
  MaxMisses = 1
INVARIANTS BoxTypeOK CleanMeansSaved
PROPERTIES KeepsItsPromise NeverFromAPhantom EditsGetThrough
