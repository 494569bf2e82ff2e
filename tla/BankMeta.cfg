SPECIFICATION MetaSpec
CONSTANTS
  Images = {0, 1, 2, 3, 4, 5}
  Absent = Absent
  Short = Short
  Garbled = Garbled
  Shelf <- MCShelf
  Callers = {"meta"}
  Kinds = {"read", "write", "cut"}
  MaxMishaps = 2
  MaxMisses = 1
  m1 = m1
  m2 = m2
  Mons = {m1, m2}
  MaxSerial = 5
  MaxCells = 2
  RotNames = {"sav", "bak"}
  MaxRots = 1
  ScanFails = FALSE
SYMMETRY MonSymmetry
INVARIANTS SerialsSafe IdentsUnique
PROPERTY NeverBack
