SPECIFICATION Spec
CONSTANTS
  Mons = {m1, m2, m3}
  None = None
  NBoxes = 2
  NSlots = 2
  NPcSlots = 1
  MaxDeletions = 0
  MaxMishaps = 1
  Swaps = TRUE
SYMMETRY MonSymmetry
PROPERTIES BystandersStay
