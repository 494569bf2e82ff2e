SPECIFICATION GbSpec
CONSTANTS
  m1 = m1
  m2 = m2
  m3 = m3
  Mons = {m1, m2, m3}
  Boxes = {"party", "box", "bad"}
  Party = "party"
  Room <- RoomOf
  Damaged = {"bad"}
  InPlace = {"dex", "fly"}
  Drafted = {"bag"}
  Careless = {"fly"}
  MaxMoves = 5
  MaxMishaps = 2
SYMMETRY Alike
INVARIANTS GbTypeOK SessionAsTold NothingUnsavedUnasked OneOfEach
CHECK_DEADLOCK FALSE
